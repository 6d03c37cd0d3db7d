------------------------------- MODULE Totals -------------------------------
(***************************************************************************)
(* Arithmetic the contracts share.  A total is written as the number of    *)
(* coins on a table: coin <<x, i>> is the i-th wei credited to x.  Counting *)
(* them needs no recursion, so the modules that use Total can be proved    *)
(* about, and TLC evaluates it on small amounts.                           *)
(***************************************************************************)
EXTENDS Integers, FiniteSets

\* The coins that f credits to the members of S.
Coins(f, S) == UNION {{x} \X (1..f[x]) : x \in S}

\* The sum of f[x] over the members x of the finite set S.
Total(f, S) == Cardinality(Coins(f, S))

Least(a, b) == IF a < b THEN a ELSE b

\* a - b where the code tests a > b first and answers 0 otherwise.
Excess(a, b) == IF a > b THEN a - b ELSE 0
=============================================================================
