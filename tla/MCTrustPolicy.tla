--------------------------- MODULE MCTrustPolicy ---------------------------
(***************************************************************************)
(* A small instance of TrustPolicy: two terminals and three patterns.  Two *)
(* are of one length and have names in common; one of them has a backslash *)
(* that breaks the quotes it is put between, and the third is the same     *)
(* with the backslash escaped, which reads as it.  One of them stands for  *)
(* "default", too.  The names are all of up to three characters over two,  *)
(* and one that is itself a pattern.  The sizes (pattern and identity make *)
(* them) all differ, so that a section written over another leaves a piece.*)
(***************************************************************************)
EXTENDS TrustPolicy, TLC

CONSTANTS t1, t2

Wild    == <<"*", "?">>
Slashed == <<"\\", "*">>
Escaped == <<"\\", "\\", "*">>

Patterns == {Wild, Slashed, Escaped}
Names    == {Slashed} \cup UNION {[1 .. n -> {"a", "\\"}] : n \in 0 .. 3}
Keys     == Wild :> Wild @@ Slashed :> None @@ Escaped :> Slashed
Lengths  == [p \in Patterns |-> Len(p)]
Sizes    == Wild :> 9 @@ Slashed :> 15 @@ Escaped :> 12

TwoTerminals == Permutations({t1, t2})
=============================================================================
