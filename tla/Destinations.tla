---------------------------- MODULE Destinations ----------------------------
(***************************************************************************)
(* The destinations of one run (main.rs resolve_destinations and run,      *)
(* transfer.rs create_dirs): which are refused, skipped or left out, and   *)
(* where the files land while drives are attached and unplugged.           *)
(*                                                                         *)
(* Where a drive was mounted there is nothing, or an empty mount point, a  *)
(* directory of the internal disk; so is a path the program creates there. *)
(* A file is a member of Files; its transfer to all destinations is one    *)
(* step.  Of the deletions there are those by which one destination could  *)
(* take files from another that lies in it; Backup has the others.         *)
(* Startup adds the device and the source.                                 *)
(***************************************************************************)
EXTENDS Integers, FiniteSets, FiniteSetsExt

CONSTANTS
  Dests,        \* the destinations, in the order they were given
  Files,        \* the files on the device
  Overlapping,  \* pairs of destinations, the same or the first in the second;
                \* as the paths are given, which without a trailing slash of
                \* the source is more than the directories worked on overlap
  MaxPlugs      \* bound: how often drives are attached or unplugged

ASSUME DestinationsAssumption ==
  /\ Dests \subseteq Nat /\ IsFiniteSet(Dests) /\ Dests # {}
  /\ Overlapping \subseteq Dests \X Dests /\ MaxPlugs \in Nat

VARIABLES
  options,   \* [mkpath, skipMissing, delete]: --mkpath, --skip-missing-dest
             \* and --delete
  place,     \* at the path: a "drive", "nothing", a "file", "internal"
  onDrive,   \* what the drive of a destination holds
  onInternal,\* what the internal disk holds at its path
  pc,        \* "resolve", "check", "scan", "prepare", "fetch", "over"
  todo,      \* destinations the current loop has not visited
  roots, missing,
  need,      \* per destination, the files it lacks according to its scan
  dels,      \* and what is deleted there: <<e, f>>, the file f that the scan
             \* found at the destination e, which lies in it
  left,      \* files to transfer
  unprepared,
  problem,   \* the report has an error
  result,    \* "none", "refused", "failed", "ok", "partial"
  \* history: bad, the destinations at which something failed; present,
  \* those that were there at every moment so far; plugs, see MaxPlugs
  bad, present, plugs

disks == <<place, onDrive, onInternal>>
history == <<bad, present, plugs>>
work == <<roots, missing, need, dels, left, unprepared, problem>>
vars == <<options, disks, pc, todo, work, result, history>>

Init ==
  /\ options \in [mkpath : BOOLEAN, skipMissing : BOOLEAN, delete : BOOLEAN]
  /\ place \in [Dests -> {"drive", "nothing", "file", "internal"}]
  /\ onDrive \in [Dests -> {{}, Files}] /\ onInternal = [d \in Dests |-> {}]
  /\ pc = "resolve" /\ todo = Dests /\ roots = {} /\ missing = {}
  /\ need = [d \in Dests |-> {}] /\ dels = [d \in Dests |-> {}]
  /\ left = {} /\ unprepared = {}
  /\ problem = FALSE /\ result = "none" /\ bad = {} /\ plugs = 0
  /\ present = {d \in Dests : place[d] = "drive"}

Stop(how) == pc' = "over" /\ result' = how

-----------------------------------------------------------------------------
(* resolve_destinations.                                                   *)

Visit(d) == pc = "resolve" /\ todo # {} /\ d = Min(todo) /\ todo' = todo \ {d}

Exists(d) ==
  /\ Visit(d) /\ place[d] \in {"drive", "internal"}
  /\ roots' = roots \union {d}
  /\ UNCHANGED <<options, disks, pc, missing, need, dels, left, unprepared, problem,
                 result, history>>

NotADirectory(d) ==
  /\ Visit(d) /\ place[d] = "file"
  /\ Stop("refused")
  /\ UNCHANGED <<options, disks, work, history>>

CreateMissing(d) ==
  /\ Visit(d) /\ place[d] = "nothing" /\ options.mkpath
  /\ \/ /\ place' = [place EXCEPT ![d] = "internal"]
        /\ roots' = roots \union {d}
        /\ UNCHANGED <<pc, result, bad>>
     \/ /\ Stop("refused") /\ bad' = bad \union {d}
        /\ UNCHANGED <<place, roots>>
  /\ UNCHANGED <<options, onDrive, onInternal, missing, need, dels, left, unprepared,
                 problem, present, plugs>>

CollectMissing(d) ==
  /\ Visit(d) /\ place[d] = "nothing" /\ ~options.mkpath
  /\ missing' = missing \union {d}
  /\ UNCHANGED <<options, disks, pc, roots, need, dels, left, unprepared, problem,
                 result, history>>

MissingAllowed == missing = {} \/ options.skipMissing

OverlapsLater(i, j) == i < j /\ <<i, j>> \in Overlapping  \* mutant: the later ones only
Overlaps(i, j) == i # j /\ <<i, j>> \in Overlapping

CheckRoots ==
  /\ pc = "resolve" /\ todo = {}
  /\ IF /\ MissingAllowed /\ roots # {}
        /\ \A i, j \in roots : ~Overlaps(i, j)
     THEN pc' = "scan" /\ todo' = roots /\ UNCHANGED result
     ELSE Stop("refused") /\ UNCHANGED todo
  /\ UNCHANGED <<options, disks, work, history>>

-----------------------------------------------------------------------------
(* The scans, which run at once, and the plan.                             *)

(* scan_local: what is at the path now; nothing, when it is gone. *)
Found(d) == CASE place[d] = "drive"    -> onDrive[d]
              [] place[d] = "internal" -> onInternal[d]
              [] OTHER                 -> {}

(* What the walk of d meets of the destinations in it, a drive that is     *)
(* mounted there included.  The device has nothing under these names.      *)
Foreign(d) ==
  IF options.delete /\ place[d] \in {"drive", "internal"}
  THEN UNION {{e} \X Found(e) : e \in {e \in Dests \ {d} : <<e, d>> \in Overlapping}}
  ELSE {}

ScanLocal ==
  /\ pc = "scan"
  /\ \E d \in todo :
       /\ todo' = todo \ {d}
       /\ need' = [need EXCEPT ![d] = Files \ Found(d)]
       /\ dels' = [dels EXCEPT ![d] = Foreign(d)]
  /\ UNCHANGED <<options, disks, pc, roots, missing, left, unprepared, problem,
                 result, history>>

(* An error in one local scan ends the run. *)
ScanLocalFails ==
  /\ pc = "scan"
  /\ \E d \in todo : bad' = bad \union {d}
  /\ Stop("failed")
  /\ UNCHANGED <<options, disks, todo, work, present, plugs>>

SkippedForgotten == TRUE     \* mutant: nothing to do is a success
NoneSkipped == missing = {}

(* A source with a directory has a plan that is not empty, though there is *)
(* nothing to transfer.                                                    *)
Plan ==
  /\ pc = "scan" /\ todo = {}
  /\ left' = UNION {need[d] : d \in roots}
  /\ \E dirs \in BOOLEAN :
       IF left' = {} /\ ~dirs /\ \A d \in roots : dels[d] = {}
       THEN Stop(IF NoneSkipped THEN "ok" ELSE "partial") /\ UNCHANGED todo
       ELSE pc' = "prepare" /\ todo' = roots /\ UNCHANGED result
  /\ UNCHANGED <<options, disks, roots, missing, need, dels, unprepared, problem, history>>

-----------------------------------------------------------------------------
(* create_dirs and the transfers: create_dir_all makes whatever is missing *)
(* of the path, the destination itself included.                           *)

Writable(d) == place[d] # "file"
MadePlace(S) == [d \in Dests |-> IF d \in S /\ place[d] = "nothing"
                                 THEN "internal" ELSE place[d]]

PrepareDest ==
  /\ pc = "prepare" /\ todo # {}
  /\ LET d == Min(todo) IN
       /\ todo' = todo \ {d}
       /\ \/ /\ Writable(d)
             /\ place' = MadePlace({d})
             /\ UNCHANGED <<unprepared, bad>>
          \/ /\ unprepared' = unprepared \union {d} /\ bad' = bad \union {d}
             /\ UNCHANGED place
  /\ UNCHANGED <<options, onDrive, onInternal, pc, roots, missing, need, dels, left,
                 problem, result, present, plugs>>

Prepared ==
  /\ pc = "prepare" /\ todo = {}
  /\ IF unprepared = roots THEN Stop("failed") ELSE pc' = "fetch" /\ UNCHANGED result
  /\ UNCHANGED <<options, disks, todo, work, history>>

TargetsIfAllReady(f) ==   \* mutant: one unprepared destination stops all
  IF unprepared = {} THEN {d \in roots : f \in need[d]} ELSE {}
Targets(f) == {d \in roots \ unprepared : f \in need[d]}

FetchFile ==
  /\ pc = "fetch"
  /\ \E f \in left : \E good \in SUBSET {d \in Targets(f) : Writable(d)} :
       /\ left' = left \ {f}
       /\ place' = MadePlace(good)
       /\ onDrive' = [d \in Dests |-> IF d \in good /\ place[d] = "drive"
                                      THEN onDrive[d] \union {f} ELSE onDrive[d]]
       /\ onInternal' = [d \in Dests |-> IF d \in good /\ place[d] # "drive"
                                         THEN onInternal[d] \union {f} ELSE onInternal[d]]
       /\ problem' = (problem \/ good # Targets(f))
       /\ bad' = bad \union (Targets(f) \ good)
  /\ UNCHANGED <<options, pc, todo, roots, missing, need, dels, unprepared, result,
                 present, plugs>>

(* apply_deletions, destination by destination: what is not there any more *)
(* counts as deleted, and what is there may refuse.                        *)
DeleteOne ==
  /\ pc = "fetch" /\ left = {} /\ \E e \in roots : dels[e] # {}
  /\ LET d == Min({e \in roots : dels[e] # {}}) IN
     \E x \in dels[d] :
       /\ dels' = [dels EXCEPT ![d] = @ \ {x}]
       /\ \/ /\ onDrive' = [onDrive EXCEPT ![x[1]] =
                             IF place[x[1]] = "drive" THEN @ \ {x[2]} ELSE @]
             /\ onInternal' = [onInternal EXCEPT ![x[1]] =
                                IF place[x[1]] = "internal" THEN @ \ {x[2]} ELSE @]
             /\ UNCHANGED <<problem, bad>>
          \/ /\ x[2] \in Found(x[1])
             /\ problem' = TRUE /\ bad' = bad \union {d}
             /\ UNCHANGED <<onDrive, onInternal>>
  /\ UNCHANGED <<options, place, pc, todo, roots, missing, need, left, unprepared,
                 result, present, plugs>>

CleanReport == ~problem /\ missing = {} /\ unprepared = {}

End ==
  /\ pc = "fetch" /\ left = {} /\ \A d \in roots : dels[d] = {}
  /\ Stop(IF CleanReport THEN "ok" ELSE "partial")
  /\ UNCHANGED <<options, disks, todo, work, history>>

-----------------------------------------------------------------------------
(* The user.                                                               *)

Unplug ==
  /\ pc # "over" /\ plugs < MaxPlugs /\ plugs' = plugs + 1
  /\ \E d \in Dests : place[d] = "drive"
       /\ place' = [place EXCEPT ![d] = "nothing"]
       /\ present' = present \ {d}
  /\ UNCHANGED <<options, onDrive, onInternal, pc, todo, work, result, bad>>

(* A drive mounted over whatever directory is there hides it. *)
Plug ==
  /\ pc # "over" /\ plugs < MaxPlugs /\ plugs' = plugs + 1
  /\ \E d \in Dests : place[d] \in {"nothing", "internal"}
       /\ place' = [place EXCEPT ![d] = "drive"]
  /\ UNCHANGED <<options, onDrive, onInternal, pc, todo, work, result, bad, present>>

Run == \/ \E d \in Dests : Exists(d) \/ NotADirectory(d) \/ CreateMissing(d) \/ CollectMissing(d)
       \/ CheckRoots \/ ScanLocal \/ ScanLocalFails \/ Plan
       \/ PrepareDest \/ Prepared \/ FetchFile \/ DeleteOne \/ End

Over == pc = "over" /\ UNCHANGED vars

Next == Run \/ Unplug \/ Plug \/ Over

Spec == Init /\ [][Next]_vars

-----------------------------------------------------------------------------
(* Exit code 0 means that every destination that was named has every file: *)
(* also one that was skipped, left out, or had nothing to receive.         *)
CleanExitEverywhere ==
  result = "ok" => \A d \in Dests :
    /\ d \in roots \ (missing \union unprepared)
    /\ Files \subseteq onDrive[d] \union onInternal[d]

(* "Their writes and their --delete passes would fight each other"         *)
(* (README, on destinations of which one contains another): no step takes  *)
(* a file from a destination, drives that come and go between its scan and *)
(* the deletions notwithstanding, with one exception.  A destination that  *)
(* was missing, and skipped, was compared with none; when its drive is     *)
(* mounted, before the scan, inside one that is worked on, its backup is   *)
(* extraneous there, and --delete takes it.                                *)
DestsKeepTheirFiles ==
  [][\A d \in Dests :
       \/ onDrive[d] \subseteq onDrive'[d] /\ onInternal[d] \subseteq onInternal'[d]
       \/ d \in missing /\ options.delete /\ \E i \in roots : <<d, i>> \in Overlapping]_vars

(* "The ones that are present still get their backup" (README, on          *)
(* --skip-missing-dest): with the option a run is refused only for a       *)
(* reason that it is not about; and in any run a destination that was      *)
(* there all along, and at which nothing failed, has every file at the     *)
(* end, whatever became of the others.                                     *)
PresentGetBackup ==
  /\ options.skipMissing /\ result = "refused" =>
       \/ present = {}
       \/ \E d \in Dests : place[d] = "file"
       \/ \E i, j \in roots : i # j /\ <<i, j>> \in Overlapping
       \/ options.mkpath
  /\ result \in {"ok", "partial"} =>
       \A d \in present \ bad : Files \subseteq onDrive[d]

(* "An unmounted drive leaves an empty mount point behind, and a backup    *)
(* written there fills the internal disk while reporting success"          *)
(* (resolve_destinations): not without --mkpath.                           *)
InternalOnlyByMkpath == \A d \in Dests : onInternal[d] # {} => options.mkpath

=============================================================================
