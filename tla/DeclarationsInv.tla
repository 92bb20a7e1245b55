--------------------------- MODULE DeclarationsInv ---------------------------
(***************************************************************************)
(* The inductive invariants behind the theorems of DeclarationsProofs.     *)
(***************************************************************************)
EXTENDS DeclarationsProps

(* Where codegen stands: a function's body belongs to an element that is   *)
(* still to be counted.                                                    *)
Control ==
  /\ body \in Seq(Statement)
  /\ compiled \in 0..MaxElements
  /\ errors \in Seq(Diagnostics)
  /\ status \in Statuses
  /\ status = "compiling" /\ inside # 0 => compiled < MaxElements
  /\ status = "done" => errors = <<>>

(* What an alias stands for has a name: a basic type, or a struct type     *)
(* that LLVM did not rename.                                               *)
Nameable(t) ==
  /\ t.base # "func"
  /\ t.base = "struct" => t.at \in DOMAIN types /\ types[t.at].name \in StructName

AliasesNameable == \A i \in DOMAIN aliases : Nameable(aliases[i].type)

(* Only an error or a crash leaves a struct type without its body.         *)
WholeUnlessFailed ==
  errors = <<>> /\ status # "crash" => \A i \in DOMAIN types : types[i].whole

IInv ==
  /\ TypeOK
  /\ Control
  /\ OnlyEarlierTypes
  /\ AliasesNameable
  /\ WholeUnlessFailed

(* Two struct types have different names, unless LLVM renamed them.        *)
NamesDiffer ==
  \A i, j \in DOMAIN types :
    i # j /\ types[i].name = types[j].name => types[i].name = Renamed

(* An alias is entered once, and an interface with its type and its row.   *)
(* Neither takes the name of the other.                                    *)
AliasNamesDiffer ==
  \A i, j \in DOMAIN aliases : aliases[i].name = aliases[j].name => i = j
InterfacesAgree ==
  \A n \in Name :
    /\ Taken(types, <<"interface", n>>) <=> Taken(interfaces, n)
    /\ Taken(structures, <<"interface", n>>) => Taken(interfaces, n)
    /\ ~(Taken(interfaces, n) /\ Taken(aliases, n))

(* While nothing has failed, a struct type has its row too, and            *)
StructsHaveRows ==
  errors = <<>> =>
    \A n \in Name : Taken(types, <<"struct", n>>) => Taken(structures, <<"struct", n>>)

(* the type of a constructor belongs to a data class that lists it.        *)
ClassesHaveTypes ==
  \A i \in DOMAIN classes : Taken(types, <<"class", classes[i].name>>)
VariantsOwned ==
  errors = <<>> /\ status # "crash" =>
    \A c \in Name, m \in Member :
      Taken(types, <<"variant", c, m>>) =>
        Taken(classes, c) /\ m \in ToSet(Row(classes, c).ctors)

Lookups ==
  /\ NamesDiffer /\ AliasNamesDiffer /\ InterfacesAgree
  /\ StructsHaveRows /\ ClassesHaveTypes /\ VariantsOwned
  /\ FieldsFit /\ ClassesAreComplete /\ AliasesAreFound
==============================================================================
