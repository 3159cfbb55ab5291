----------------------------- MODULE MCTransfer -----------------------------
(* Instances of Transfer for TLC. *)
EXTENDS Transfer

CONSTANTS a, b, c

Files2 == <<a, b>>
Files3 == <<a, b, c>>

\* Every file goes everywhere.
AllTargets == [i \in Items |-> Dests]

\* The first file goes everywhere, the others to the first destination only.
MixedTargets == [i \in Items |-> IF i = a THEN Dests ELSE {0}]

\* a has two chunks, the others are empty; the planner sorts them so.
Sizes == [i \in Items |-> IF i = a THEN 2 ELSE 0]
Ones == [i \in Items |-> 1]
Twos == [i \in Items |-> 2]
=============================================================================
