-------------------------- MODULE DeclarationsProps --------------------------
(***************************************************************************)
(* What the tables of a module promise to the elements compiled later, and *)
(* to whoever is handed the module.                                        *)
(***************************************************************************)
EXTENDS Declarations

(* Type::codegen finds only types that exist, so a struct holds, or points *)
(* to, earlier structs or itself (it is created before its fields are      *)
(* looked up), also when names are defined again: two structs can never    *)
(* hold each other.                                                        *)
OnlyEarlierTypes ==
  \A i \in DOMAIN types : types[i].body \in Seq(TypeIn(i))

(* A module that Module::codegen hands on has no struct left without its   *)
(* body, neither one Structure::codegen gave up on nor a data class whose  *)
(* constructors were not all there.                                        *)
EmittedIsWhole == status = "done" => \A i \in DOMAIN types : types[i].whole

(* Only a struct definition can change what a known type name means: it    *)
(* does not ask Ident::isUnique.  Aliases, enumerations, interfaces and    *)
(* data classes leave every name that meant something as it was, even when *)
(* they fail half way.                                                     *)
NewStruct(n) ==
  /\ Len(types') = Len(types) + 1
  /\ types'[Len(types')].name = <<"struct", n>>
MeaningsStay ==
  \A n \in Name :
    Meaning(types, n) = {} \/ Meaning(types, n)' = Meaning(types, n) \/ NewStruct(n)
MeaningsAreStable == [][MeaningsStay]_vars

(* StructMember::codegen takes a field's place from the "structures" rows  *)
(* and uses it in the struct type of that name.  While nothing has failed  *)
(* the first row and the first type of a name agree, however often the     *)
(* name is defined.                                                        *)
FieldsFit ==
  errors = <<>> =>
    \A i \in DOMAIN structures :
      LET n == structures[i].name
      IN  /\ Taken(types, n)
          /\ Len(Row(structures, n).fields) = Len(Row(types, n).body)

(* A data class has its row in "classes" only with the types of all its    *)
(* constructors, which DataClass::construct looks up by name, and with the *)
(* body of its own.                                                        *)
ClassesAreComplete ==
  \A i \in DOMAIN classes :
    LET n == classes[i].name
    IN  /\ Row(types, <<"class", n>>).whole
        /\ \A m \in ToSet(classes[i].ctors) : Taken(types, <<"variant", n, m>>)

(* An alias is found by its name unless a struct took the name: one that   *)
(* is defined after it, or one that was given up, and an error told so.    *)
(* Nor is one found that has a basic type's name: the module's names are   *)
(* not held against the reserved words.                                    *)
AliasesAreFound ==
  errors = <<>> =>
    \A i \in DOMAIN aliases :
      \/ Meaning(types, aliases[i].name) = {aliases[i].type}
      \/ aliases[i].name \in Basic
      \/ Taken(structures, <<"struct", aliases[i].name>>)

(* What it takes for the compiler to die instead of reporting an error:    *)
(* an earlier element failed and left half of itself behind, an interface  *)
(* with two parents was cast to, a function whose return type is deduced   *)
(* called itself, a type of no finite size is in a data class, enumeration *)
(* options were declared, or a char variable was cast to a struct.  (With  *)
(* assertions, calling a struct function or casting to an interface dies.) *)
TwoParents ==
  \E i \in DOMAIN interfaces :
    Len(interfaces[i].funcs) # Len(Row(types, <<"interface", interfaces[i].name>>).body)
CallsItself == inside # 0 /\ functions[inside].deduced /\ functions[inside].used
NoFiniteSize == \E i \in DOMAIN types : types[i].whole /\ ~Sized[i]
CastsText == \E i \in DOMAIN locals : locals[i].type = Plain("char")
CrashesExplained ==
  status = "crash" /\ ~Asserts =>
    \/ errors # <<>>
    \/ TwoParents \/ CallsItself \/ NoFiniteSize \/ CastsText
    \/ globals # <<>>

(* An interface that declares "type Gool interface : Ra, Ta" (main.w:18)   *)
(* holds the functions of all its parents (whack.grammar:259 allows a list *)
(* of them): its struct type has a place for each function it lists.       *)
InterfacesHoldTheirFunctions ==
  \A i \in DOMAIN interfaces :
    Len(interfaces[i].funcs) = Len(Row(types, <<"interface", interfaces[i].name>>).body)
==============================================================================
