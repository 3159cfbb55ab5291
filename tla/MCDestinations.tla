--------------------------- MODULE MCDestinations ---------------------------
(* Small instances of Destinations. *)
EXTENDS Destinations

(* The third destination lies inside the first. *)
ThirdInFirst == {<<2, 0>>}
=============================================================================
