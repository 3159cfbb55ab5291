-------------------------------- MODULE MCScan --------------------------------
(* Small instances of Scan: three entries, one of them a locked directory. *)
EXTENDS Scan

CONSTANTS a, b, dir
Tree == {a, b, dir}
Lockables == {dir}
=============================================================================
