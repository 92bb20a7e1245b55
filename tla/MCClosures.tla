------------------------------ MODULE MCClosures ------------------------------
(***************************************************************************)
(* Small programs for TLC: two variables' names, functions f and h of the  *)
(* module with two and three parameters, k with none and a variadic one,   *)
(* printf.                                                                 *)
(***************************************************************************)
EXTENDS ClosuresInv

ModuleFunctions ==
  ("f" :> [params |-> 2, variadic |-> FALSE]) @@ ("h" :> [params |-> 3, variadic |-> FALSE])
  @@ ("k" :> [params |-> 0, variadic |-> FALSE])
  @@ ("printf" :> [params |-> 1, variadic |-> TRUE])

Lets ==
  {LetStmt("x", "datum"), LetStmt("y", "datum"), LetStmt("x", "y"), LetStmt("y", "x"),
   LetStmt("x", "f"), LetStmt("_", "x"), LetStmt("x", "x")}

NoCapture == <<>>
Capture(n, value) == n :> value
Captures2 ==
  {NoCapture, Capture("x", "x"), Capture("y", "x"), Capture("x", "f"),
   [n \in {"x", "y"} |-> n], [n \in {"x", "y"} |-> "x"]}
Closings ==
  {ClosureStmt(d, c, p) : d \in {"none", "value"}, c \in Captures2, p \in {{}, {"x"}}}
  \cup {ClosureStmt("reference", NoCapture, {}), ClosureStmt("none", NoCapture, {"x", "y"})}

(* Calls of f, of printf and of what x and y hold, with and without "...". *)
Calls ==
  {CallStmt(<<g>>, a, m, "_") : g \in {"f", "x"}, m \in BOOLEAN,
     a \in {<<>>, <<"datum">>, <<"y">>, <<"y", "y">>}}
  \cup {CallStmt(<<"f">>, <<"y">>, TRUE, "x"), CallStmt(<<"f">>, <<"x", "x">>, TRUE, "y"),
       CallStmt(<<"f", "x">>, <<"datum", "datum">>, FALSE, "y"),
       CallStmt(<<"f", "printf">>, <<"datum">>, TRUE, "_"),
       CallStmt(<<"printf">>, <<>>, FALSE, "_"), CallStmt(<<"printf">>, <<"x">>, FALSE, "y"),
       CallStmt(<<"printf">>, <<"x">>, TRUE, "_"), CallStmt(<<"printf">>, <<>>, TRUE, "x"),
       CallStmt(<<"k">>, <<>>, FALSE, "_"), CallStmt(<<"k">>, <<>>, TRUE, "_"),
       CallStmt(<<"x", "y">>, <<"datum">>, FALSE, "_"),
       CallStmt(<<"h">>, <<"y", "datum">>, TRUE, "x"), CallStmt(<<"h">>, <<"y">>, TRUE, "x")}

Program == Lets \cup Closings \cup Calls
==============================================================================
