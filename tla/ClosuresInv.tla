----------------------------- MODULE ClosuresInv -----------------------------
(***************************************************************************)
(* The inductive invariant of Closures: how each function under            *)
(* construction agrees with what its names mean to a reader.               *)
(***************************************************************************)
EXTENDS ClosuresProps

------------------------------------------------------------------------------
(* Types. *)

Variables == [in : Nat, name : Names \cup DOMAIN Functions \cup {Datum}]
Pointers == [inst : Instructions, levels : Nat, of : Variables]
Maps(t, S) == DOMAIN t \subseteq Names /\ t \in [DOMAIN t -> S]

(* A function with an environment takes it as its nest parameter.          *)
IsFunction(F) ==
  /\ F \in [closure : BOOLEAN, params : Nat, variadic : BOOLEAN, nest : BOOLEAN,
            names : Seq(Names), fields : Seq(Pointers), table : {F.table}]
  /\ Maps(F.table, Pointers)
  /\ HasEnv(F) => F.nest

Meanings == [of : Variables, how : {"let", "value", "address", "shadow"}]
IsReading(M) ==
  /\ M \in [scope : {M.scope}, captured : SUBSET Names, used : SUBSET Expressions]
  /\ Maps(M.scope, Meanings)

CallableType == [function : 1 .. Len(functions), bound : {0, 1}]

TypeOK ==
  /\ functions \in Seq(ToSet(functions))
  /\ \A f \in DOMAIN functions : IsFunction(functions[f])
  /\ building \in Seq(1 .. Len(functions)) /\ building # <<>>
  /\ meant \in Seq(ToSet(meant)) /\ Len(meant) = Len(building)
  /\ \A d \in DOMAIN meant : IsReading(meant[d])
  /\ holds \in [DOMAIN holds -> CallableType] /\ DOMAIN holds \subseteq Variables
  /\ calls \subseteq [function : 1 .. Len(functions), bound : {0, 1}, given : Nat]
  /\ outcome \in {"compiling", "done", "error", "crash", "undefined"}
  /\ statements \in Nat

------------------------------------------------------------------------------
(* The functions under construction: main, and closures each made in the   *)
(* one before.                                                             *)
Nested ==
  /\ building[1] = Main /\ functions[Main].names = <<>>
  /\ \A d \in DOMAIN building : functions[building[d]].closure <=> d > 1
  /\ \A d, e \in DOMAIN building : d < e => building[d] < building[e]

(* What a function knows a name of its own by.                             *)
OwnName(F, m, f, n) ==
  /\ n \in DOMAIN F.table /\ m.of = Variable(f, n)
  /\ \/ m.how = "value" /\ F.table[n] = Value("arg", 0, m.of)
     \/ m.how = "let" /\ F.table[n] = Value("alloca", 1, m.of)

(* What it knows a captured name by: the first field of that name, which   *)
(* the symbol table has as well once the name was used.                    *)
Field(F, n) == F.fields[FieldOf(F, n)]
Slot(F, n) == Value("gep", Field(F, n).levels + 1, Field(F, n).of)

CapturedName(F, m, used, n) ==
  /\ n \in ToSet(F.names)
  /\ m.how # "let"
  /\ m.how # "shadow" => Field(F, n).of = m.of /\ (Field(F, n).levels = 0 <=> m.how = "value")
  /\ n \in DOMAIN F.table <=> n \in used
  /\ n \in DOMAIN F.table => F.table[n] = Slot(F, n)

Agrees(F, M, f) ==
  /\ Len(F.fields) = Len(F.names)
  /\ ToSet(F.names) = M.captured
  /\ DOMAIN M.scope = M.captured \cup DOMAIN F.table
  /\ \A n \in DOMAIN M.scope :
       /\ M.scope[n].of.in <= f
       /\ IF M.scope[n].of.in = f THEN OwnName(F, M.scope[n], f, n)
          ELSE CapturedName(F, M.scope[n], M.used, n)

NamesAgree ==
  \A d \in DOMAIN building : Agrees(functions[building[d]], meant[d], building[d])

------------------------------------------------------------------------------
(* What a value that is called leads to: an environment is bound whenever  *)
(* there is one, and what is bound is passed as the nest parameter.        *)
Supplied(c) ==
  /\ HasEnv(functions[c.function]) => c.bound = 1
  /\ c.bound = 1 => functions[c.function].nest

CallablesAgree ==
  /\ \A v \in DOMAIN holds : Supplied(holds[v])
  /\ \A f \in DOMAIN Functions :
       /\ Variable(0, f) \in DOMAIN holds
       /\ holds[Variable(0, f)].bound = 0
       /\ ~HasEnv(functions[holds[Variable(0, f)].function])

IInv == TypeOK /\ Nested /\ NamesAgree /\ CallablesAgree /\ CallsReachParameters
==============================================================================
