----------------------------- MODULE ScopesProps -----------------------------
(***************************************************************************)
(* What the names and the objects of a function may be relied on for.      *)
(***************************************************************************)
EXTENDS Scopes, FiniteSets

(* A variable declared outside the head of an if or for keeps its name and *)
(* its place for the rest of the function, whatever ifs, fors, members and *)
(* deferred statements name later.  Deferred statements and pass::Ctor,    *)
(* which look variables up when their scopes are long closed, rely on it.  *)
Keeps ==
  \A n \in DOMAIN kept :
    /\ n \in DOMAIN kept' /\ kept'[n] = kept[n]
    /\ n \in DOMAIN table' /\ table'[n].at = kept[n]
NamesAreKept == [][Keeps]_vars

(* The SCOPE_EXITs of If and For "restrict the scope" of their variables:  *)
(* each name in the head of an open one is found, in no two of them the    *)
(* same, and no name is found that is neither that nor a variable that is  *)
(* kept, an argument, a block or a member.                                 *)
Heads == {i \in DOMAIN scopes : scopes[i].kind # "body"}
HeadNames(i) == Range(scopes[i].vars) \ {Discard}
Scoped == UNION {HeadNames(i) : i \in Heads}
Given == DOMAIN Params \cup {"entry", "then", "for", "cont"} \cup Field
ScopesAreExact ==
  status \in {"compile", "exit"} /\ Idle =>
    /\ Scoped \subseteq DOMAIN table \ DOMAIN kept
    /\ DOMAIN table \subseteq Scoped \cup DOMAIN kept \cup Given
    /\ \A i, j \in Heads : i # j => HeadNames(i) \cap HeadNames(j) = {}

(* pass::Ctor constructs what the lets and declarations meant it to: each  *)
(* struct on the stack once, and once more each time a let gives it, or    *)
(* new memory, to a variable of "new".  This needs that each such variable *)
(* got memory and not a value, that none was renamed, and that none is     *)
(* third or later in its let.  The pass follows a row to an operand        *)
(* without a check, and dies of it only without what this needs, or if a   *)
(* variable of "new" got memory that no instruction made.                  *)
Times(i) == Cardinality({k \in DOMAIN ctors : ctors[k] = i})
Meant(i) ==
  Cardinality({k \in DOMAIN news : news[k].of.at = i})
  + (IF code[i].op = "alloca" THEN 1 ELSE 0)
Clean ==
  \A k \in DOMAIN news :
    news[k].kept /\ news[k].nth <= 2 /\ news[k].of.type.ptr > 0
ConstructedAsMeant ==
  Clean =>
    /\ status = "done" => \A i \in DOMAIN code :
         Times(i) = IF IsConstructed(code[i].type) THEN Meant(i) ELSE 0
    /\ status = "crash" /\ cursor > 0 => \E k \in DOMAIN news : news[k].of.at = 0

(* "we also call ctor over "new" struct allocas" (pass/ctor.hpp): an       *)
(* object a let makes with "new" is constructed.                           *)
NewsAreConstructed ==
  status = "done" =>
    \A k \in DOMAIN news :
      news[k].nth <= 2 /\ IsConstructed(news[k].of.type) => Called(news[k].of.at)
==============================================================================
