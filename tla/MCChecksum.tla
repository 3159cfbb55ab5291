----------------------------- MODULE MCChecksum -----------------------------
(* Three files in a locked directory or beside it.  The name of c has a    *)
(* line break, before which it is the name of a; the name of b begins with *)
(* that of a.                                                              *)
EXTENDS Checksum

ASSUME QuotesFit

CONSTANTS a, b, c, dir
Tree == {a, b, c, dir}
Lockables == {dir}
FileSet == {a, b, c}

\* a and b go into one command, as do b and c, all three do not
Bytes == [f \in FileSet |-> CASE f = a -> 4 [] f = b -> 6 [] f = c -> 5]
QuotesIn == [f \in FileSet |-> IF f = b THEN 4 ELSE 0]

Contents == [f \in FileSet |-> IF f = b THEN "two" ELSE "one"]
Copies(x, y, z) == [f \in FileSet |-> CASE f = a -> x [] f = b -> y [] f = c -> z]
CopySets == {[d \in Dests |-> IF d = 0 THEN x ELSE y] :
               x \in {Copies("one", "two", "two"), Copies("two", "one", "one")},
               y \in {Copies("two", "two", Absent), Copies(Absent, Absent, "one")}}
             \union {[d \in Dests |-> Copies(Absent, Absent, Absent)]}

ReadAs == [f \in FileSet |-> IF f = c THEN a ELSE f]
Stumps == [f \in FileSet |-> IF f = b THEN {a} ELSE {}]
=============================================================================
