----------------------------- MODULE FanoutSpec -----------------------------
(***************************************************************************)
(* What the fan-out of one file promises to the code around it             *)
(* (transfer.rs, the comment of Fanout): a chunk is taken or refused as a  *)
(* whole, destinations drop out but never come back, and the write fails   *)
(* only when every destination has gone.                                   *)
(***************************************************************************)
EXTENDS Naturals

CONSTANTS Targets,   \* the destinations whose temporary file was opened
          Chunks     \* the number of chunks of the file

VARIABLES open,      \* the destinations still being written
          taken,     \* the chunks taken so far
          phase      \* "writing", "gone" or "flushed"
vars == <<open, taken, phase>>

Init == open = Targets /\ taken = 0 /\ phase = "writing"

Drop ==
  /\ phase = "writing"
  /\ open' \in SUBSET open
  /\ UNCHANGED <<taken, phase>>

Take ==
  /\ phase = "writing" /\ taken < Chunks /\ open # {}
  /\ taken' = taken + 1
  /\ UNCHANGED <<open, phase>>

(* The write, or the flush, finds no destination left. *)
Gone ==
  /\ phase = "writing" /\ open = {}
  /\ phase' = "gone"
  /\ UNCHANGED <<open, taken>>

Flush ==
  /\ phase = "writing" /\ taken = Chunks /\ open # {}
  /\ phase' = "flushed"
  /\ UNCHANGED <<open, taken>>

Next == Drop \/ Take \/ Gone \/ Flush

Spec == Init /\ [][Next]_vars /\ WF_vars(Take \/ Gone \/ Flush)
=============================================================================
