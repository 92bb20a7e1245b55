------------------------------- MODULE ScopesInv -------------------------------
(***************************************************************************)
(* The inductive invariant behind the theorems of ScopesProofs: what the   *)
(* names of a function stand for, which of them an if or for under way     *)
(* will take back, and which constructor calls are owed for what lets      *)
(* entered in the rows.                                                    *)
(***************************************************************************)
EXTENDS ScopesProps

(* The value is what the instruction it names computes.                    *)
Refers(is, v) ==
  v.at # 0 => v.at \in 1..Len(is) /\ is[v.at].type = v.type

Values ==
  /\ \A n \in DOMAIN table : Refers(code, table[n])
  /\ Refers(code, binding.from)
  /\ status = "pass" => \A n \in DOMAIN table : table[n].at < Len(code)

(* Bodies have no variables of their own, and the function's is the        *)
(* outermost.  A let that has begun has a name for each value, and it is   *)
(* one of the statements the source still has room for, or a deferred one. *)
(* pass::Ctor comes after everything else.                                 *)
Shape ==
  /\ \A i \in DOMAIN scopes : scopes[i].kind = "body" => scopes[i].vars = <<>>
  /\ status = "compile" => scopes # <<>> /\ scopes[1].kind = "body"
  /\ ~Idle /\ binding.at > 0 => Len(Let.values) <= Len(Let.names)
  /\ ~Idle /\ status = "compile" => written < MaxStatements
  /\ ~Idle /\ status = "exit" => todo # <<>>
  /\ status \in {"compile", "exit"} => cursor = 0 /\ ctors = <<>>

(* The names that lets in the head of an if or for have declared so far.   *)
Pending ==
  IF Idle \/ binding.opens = "none" THEN {}
  ELSE (Range(binding.vars) \cup {Let.names[i] : i \in 1..Len(Let.names) \cap 1..(binding.at - 1)})
       \ {Discard}

NamesInv ==
  /\ \A n \in DOMAIN kept : n \in DOMAIN table /\ table[n].at = kept[n]
  /\ Scoped \cup Pending \subseteq DOMAIN table \ DOMAIN kept
  /\ DOMAIN table \subseteq Scoped \cup Pending \cup DOMAIN kept \cup Given
  /\ \A i \in Heads : HeadNames(i) \cap Pending = {}
  /\ \A i, j \in Heads : i # j => HeadNames(i) \cap HeadNames(j) = {}

(* As long as pass::Ctor finds what lets meant: each row is for one object,*)
(* its variable is where the name says, and the store behind it stores the *)
(* object.                                                                 *)
RowMeans(k) ==
  LET at == kept[rows[k]]
  IN  /\ rows[k] \in DOMAIN kept /\ at + 1 \in 1..Len(code)
      /\ code[at].type.ptr > 1
      /\ code[at + 1].arg = news[k].of.at
      /\ Refers(code, news[k].of) /\ news[k].of.type.ptr > 0
RowsMean ==
  Clean => Len(rows) = Len(news) /\ \A k \in DOMAIN rows : RowMeans(k)

(* The calls made so far.                                                  *)
Owed(i) ==
  IF ~IsConstructed(code[i].type) THEN 0
  ELSE Cardinality({k \in 1..(cursor - Len(code)) : news[k].of.at = i})
       + (IF code[i].op = "alloca" /\ i <= cursor THEN 1 ELSE 0)
Tally ==
  /\ Clean => \A i \in DOMAIN code : Times(i) = Owed(i)
  /\ \A k \in DOMAIN ctors : IsConstructed(code[ctors[k]].type)
  /\ status = "done" => cursor = Len(code) + Len(rows)
  /\ Clean /\ status = "crash" /\ cursor > 0 => \E k \in DOMAIN news : news[k].of.at = 0

IInv == TypeOK /\ Values /\ Shape /\ NamesInv /\ RowsMean /\ Tally
==============================================================================
