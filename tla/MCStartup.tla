------------------------------ MODULE MCStartup ------------------------------
(***************************************************************************)
(* Two phones, and three destinations of which the third is in the first.  *)
(* A run begins with any choice of destinations and options and one phone, *)
(* or with any choice of phones, sources and arguments and the third       *)
(* destination skipped.                                                    *)
(***************************************************************************)
EXTENDS Startup

ThirdInFirst == {<<2, 0>>}

OnePhoneAttached ==
  /\ phone = [s \in Serials |-> IF s = "s1" THEN "device" ELSE "absent"]
  /\ source = [s \in Serials |-> "dir"]
  /\ spec = [serial |-> AnyPhone, slash |-> FALSE]

SkippedThird ==
  /\ options = [mkpath |-> FALSE, skipMissing |-> TRUE, delete |-> FALSE]
  /\ place = [d \in Dests |-> IF d = 2 THEN "nothing" ELSE "drive"]
  /\ onDrive = [d \in Dests |-> {}]

MCInit == (OnePhoneAttached \/ SkippedThird) /\ SInit
MCSpec == MCInit /\ [][SNext]_allVars
=============================================================================
