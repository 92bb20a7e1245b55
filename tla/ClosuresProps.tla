---------------------------- MODULE ClosuresProps ----------------------------
(***************************************************************************)
(* What closures and calls promise, stated with what the names mean to a   *)
(* reader of the program.                                                  *)
(***************************************************************************)
EXTENDS Closures

------------------------------------------------------------------------------
(* Names in closures. *)

Compiling == outcome = "compiling"

(* What a use of a name, and a second use, would find now.                 *)
Uses(n) == Compile(<<n, n>>).found
Followed == {n \in DOMAIN Reading.scope : Meaning(n).how # "shadow"}

(* However closures are nested and whatever each of them captures, a name  *)
(* in a body is the variable that it names in the text: not another one of *)
(* the same name, and not the next field of the environment.  The          *)
(* exception is a closure that declares a variable of a name it captured:  *)
(* a default capture in it finds the captured one first (closure.hpp,      *)
(* lines 112-137, with metadata.hpp, line 97).                             *)
NamesMeanTheirVariables ==
  Compiling => \A n \in Followed :
    LET uses == Uses(n)
    IN  Len(uses) = 2 /\ \A i \in {1, 2} : uses[i].got.of = Meaning(n).of

(* A name stands for the value of its variable, as its type says, if and   *)
(* only if no default capture took the address of a local for it           *)
(* (closure.hpp, lines 129-136) and it was not looked up before in a       *)
(* closure that captured it (ident.hpp, line 50, names the field's address *)
(* like the variable).                                                     *)
ValuesUnlessAddressed ==
  Compiling => \A n \in Followed :
    LET uses == Uses(n)
        captured == Meaning(n).of.in # Top
    IN  \A i \in {1, 2} :
          Term(uses[i].got).levels = 0
            <=> /\ Meaning(n).how # "address"
                /\ captured => i = 1 /\ n \notin Reading.used

------------------------------------------------------------------------------
(* What a statement comes to, from the program's text alone. *)

InClosure == Len(meant) > 1
IsOwn(n) == n \in DOMAIN Reading.scope /\ Reading.scope[n].of.in = Top
IsKnown(n) == n \in DOMAIN Reading.scope \cup DOMAIN Functions \cup {Datum}

(* A closure that captures nothing has no environment to look a name up    *)
(* in (ident.hpp, lines 45-46): not even a function of the module.             *)
NoEnvironment(n) == InClosure /\ Reading.captured = {} /\ ~IsOwn(n) /\ n # Datum

Breaks(names) == \E n \in names : NoEnvironment(n)
Come(breaks, wrong) ==
  IF breaks THEN "crash" ELSE IF wrong THEN "error" ELSE "compiling"

IsTaken(n, used) ==
  n # Discard /\ (IsOwn(n) \/ (n \in Reading.captured /\ n \in Reading.used \cup {used}))
TakenBy(default) == IF default = "value" THEN DOMAIN Reading.scope ELSE {}

(* The order of the captures is not known: a name taken by the default     *)
(* capture and a crash may both come first.                                *)
ClosureMay(s) ==
  LET names == DOMAIN s.captures
      used == {s.captures[n] : n \in names}
      clashes == names \cap TakenBy(s.default) # {}
      wrong == \/ \E n \in used : ~IsKnown(n)
               \/ s.params \cap (names \cup TakenBy(s.default)) # {}
  IN  IF s.default = "reference" THEN {"error"}
      ELSE (IF clashes THEN {"error"} ELSE {})
           \cup (IF clashes /\ ~Breaks(used) THEN {} ELSE {Come(Breaks(used), wrong)})

(* Whether a let or a closure compiles can be told from the text.  A let   *)
(* needs a known value and a new name: also of what a closure captured, if *)
(* the body used that before.  A closure needs captures and parameters of  *)
(* different names and known values; a default capture takes every name in *)
(* sight.  And both crash exactly in a closure that captures nothing, when *)
(* they name something that is not its own.                                *)
CompilesAsMeant ==
  Compiling =>
    /\ \A s \in StatementsOf("let") :
         LetComesTo(Compile(<<s.value>>), s.name)
           = Come(Breaks({s.value}), ~IsKnown(s.value) \/ IsTaken(s.name, s.value))
    /\ \A s \in StatementsOf("closure") :
         \A names \in SetToSeqs(DOMAIN s.captures) :
           ClosureComesTo(s.default, names, s.captures, s.params) \in ClosureMay(s)

------------------------------------------------------------------------------
(* Calls. *)

(* What is bound and what is given make up the parameters of the function  *)
(* that is reached, at least those that have names; an environment arrives *)
(* as the bound argument of a closure that has one and of no other; and no *)
(* function is reached through two trampolines, as the target passes one   *)
(* nest argument only.                                                     *)
CallsReachParameters ==
  \A c \in calls :
    LET f == functions[c.function]
    IN  /\ c.bound + c.given >= f.params
        /\ ~f.variadic => c.bound + c.given = f.params
        /\ HasEnv(f) => c.bound = 1
        /\ c.bound <= 1 /\ (c.bound = 1 => f.nest)

Free(n) == n \in DOMAIN Functions /\ n \notin DOMAIN Reading.scope
MayBeVariadic(n) ==
  \/ Meaning(n).how = "shadow"
  \/ /\ Meaning(n).of \in DOMAIN holds
     /\ functions[holds[Meaning(n).of].function].variadic

(* The only partial applications that compile name a function of the       *)
(* module and bind at most one argument of it.  To apply a closure, a      *)
(* function that a variable holds, or the result of the first binding is   *)
(* undefined: the code takes a bitcast or a load for an llvm::Function.    *)
(* The one other undefined call gives a variadic function too little.  And *)
(* a call breaks like any other use of a name.                             *)
PartialApplications ==
  Compiling => \A s \in StatementsOf("call") :
    LET comesTo == CallComesTo(s.callees, s.arguments, s.more, s.name)
        named == Free(s.callees[1]) /\ Len(s.arguments) <= 1
    IN  /\ comesTo = "compiling" /\ s.more => named
        /\ comesTo = "undefined" =>
             (s.more /\ ~named) \/ \E g \in ToSet(s.callees) : MayBeVariadic(g)
        /\ comesTo = "crash" <=> Breaks(ToSet(s.callees \o s.arguments))
==============================================================================
