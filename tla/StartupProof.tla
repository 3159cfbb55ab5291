---------------------------- MODULE StartupProof -----------------------------
(***************************************************************************)
(* Proofs about Destinations and Startup: for any number of destinations,  *)
(* files and phones, and however often drives are plugged and unplugged,   *)
(* an exit code 0 means that everything is everywhere, those that stay get *)
(* their backup, and no destination takes files from another that is       *)
(* worked on; and a run keeps to one phone and puts the files where they   *)
(* are due.                                                                *)
(***************************************************************************)
EXTENDS Startup, FoldLemmas

Resolved == pc \notin {"resolve", "over"}

Types ==
  /\ options \in [mkpath : BOOLEAN, skipMissing : BOOLEAN, delete : BOOLEAN]
  /\ place \in [Dests -> {"drive", "nothing", "file", "internal"}]
  /\ onDrive \in [Dests -> SUBSET Files] /\ onInternal \in [Dests -> SUBSET Files]
  /\ pc \in {"resolve", "scan", "prepare", "fetch", "over"}
  /\ todo \in SUBSET Dests /\ roots \in SUBSET Dests /\ missing \in SUBSET Dests
  /\ unprepared \in SUBSET roots
  /\ need \in [Dests -> SUBSET Files] /\ left \in SUBSET Files
  /\ dels \in [Dests -> SUBSET (Dests \X Files)]
  /\ problem \in BOOLEAN /\ bad \in SUBSET Dests /\ present \in SUBSET Dests
  /\ result \in {"none", "refused", "failed", "ok", "partial"}
  /\ pc = "over" <=> result # "none"

(* Every destination is a root, missing, or not visited yet.               *)
Sorted ==
  /\ roots \intersect missing = {}
  /\ pc = "resolve" => Dests = roots \union missing \union todo
                       /\ (roots \union missing) \intersect todo = {}
  /\ Resolved \/ result \in {"ok", "partial"} =>
       Dests = roots \union missing /\ todo \subseteq roots
  /\ pc = "resolve" => unprepared = {}

(* A destination that was always there is a drive, and none is missing.    *)
Attached ==
  /\ \A d \in present : place[d] = "drive"
  /\ present \intersect missing = {}
  /\ unprepared \subseteq bad

(* What a destination has, so far as its scan and the transfers tell; on   *)
(* the drive, if it was there all along.                                   *)
Held(d) == onDrive[d] \union onInternal[d]
Scanned == IF pc = "scan" THEN roots \ todo ELSE roots
Known ==
  Resolved => \A d \in Scanned :
    /\ Files \ need[d] \subseteq Held(d)
    /\ d \in present => Files \ need[d] \subseteq onDrive[d]
Queued ==
  /\ pc \in {"resolve", "scan"} => ~problem /\ unprepared = {}
  /\ pc \in {"prepare", "fetch"} => \A d \in roots \ unprepared :
       /\ ~problem => need[d] \ left \subseteq Held(d)
       /\ d \in present \ bad => need[d] \ left \subseteq onDrive[d]

(* Destinations that overlap are not worked on.                            *)
Disjoint ==
  \A i, j \in Dests :
    i # j /\ <<i, j>> \in Overlapping /\ {i, j} \subseteq roots =>
      pc = "resolve" \/ result = "refused"

(* What is to be deleted at a destination that is worked on belongs to one *)
(* that lies in it.                                                        *)
Marked ==
  \A d \in Dests : \A x \in dels[d] :
    options.delete /\ d \in roots /\ x[1] # d /\ <<x[1], d>> \in Overlapping

DestInv ==
  /\ Types /\ Sorted /\ Attached /\ Known /\ Queued /\ Disjoint /\ Marked
  /\ CleanExitEverywhere /\ PresentGetBackup

(* The phone that was chosen, and what it answered. *)
Pinned ==
  /\ stage \in {"connect", "probe", "go"} /\ events \in Nat
  /\ phone \in [Serials -> {"device", "offline", "absent"}]
  /\ source \in [Serials -> {"file", "dir", "none"}]
  /\ stage = "connect" => talked = {}
  /\ stage # "connect" => selector \in Serials
  /\ talked \subseteq {selector}
(* Before there is a phone and a source, nothing is resolved. *)
Early == stage # "go" =>
  /\ pc \in {"resolve", "over"} /\ (pc = "resolve" => ~answered)
  /\ roots = {} /\ seen = "unknown"
(* What the probe and the scan found; the roots are as the probe said. *)
Kept ==
  /\ probe \in {"file", "other"} /\ (~answered => probe = "other")
  /\ answered /\ events = 0 /\ stage = "go" => (probe = "file" <=> source[selector] = "file")
  /\ seen # "unknown" /\ events = 0 => seen = source[selector]
  /\ seen \in {"file", "dir", "unknown"}
  /\ pc \in {"prepare", "fetch"} => seen # "unknown"
  /\ Resolved => base = Base
  /\ spec \in RemoteSpec
StartInv == DestInv /\ Pinned /\ Early /\ Kept

-----------------------------------------------------------------------------
(* The destination a loop visits next is one it has not visited. *)
LEMMA TodoNext ==
  ASSUME Types, todo # {}
  PROVE  Min(todo) \in todo
BY MinIsMember, DestinationsAssumption DEF Types

(* A run that ends because of the phone does so before there are roots, or *)
(* during the scans.                                                       *)
Halt == StopAtOnce /\ (pc = "scan" \/ (pc = "resolve" /\ roots = {}))
Step == Next \/ Halt \/ UNCHANGED vars

(* The destination at which deletions go on is one that is worked on.      *)
LEMMA DeleteNextDest ==
  ASSUME Types, \E e \in roots : dels[e] # {}
  PROVE  /\ Min({e \in roots : dels[e] # {}}) \in roots
         /\ Min({e \in roots : dels[e] # {}}) \in Dests
<1> DEFINE S == {e \in roots : dels[e] # {}}
<1>1. S # {} /\ S \subseteq roots /\ roots \subseteq Dests
  BY DEF Types
<1>2. S \subseteq Nat /\ IsFiniteSet(S)
  BY <1>1, DestinationsAssumption, FS_Subset
<1>3. Min(S) \in S
  BY <1>1, <1>2, MinIsMember
<1> QED
  BY <1>1, <1>3

(* A deletion takes nothing from a destination that is worked on: what it  *)
(* takes is at one that lies in it, and was therefore not accepted.        *)
LEMMA DeleteSpares ==
  ASSUME Types, Disjoint, Marked, DeleteOne
  PROVE  /\ \A d \in roots : onDrive'[d] = onDrive[d] /\ onInternal'[d] = onInternal[d]
         /\ \A d \in Dests : \/ onDrive[d] \subseteq onDrive'[d]
                               /\ onInternal[d] \subseteq onInternal'[d]
                            \/ /\ d \notin roots /\ options.delete
                               /\ \E i \in roots : <<d, i>> \in Overlapping
         /\ onDrive' \in [Dests -> SUBSET Files] /\ onInternal' \in [Dests -> SUBSET Files]
         /\ dels' \in [Dests -> SUBSET (Dests \X Files)]
         /\ \A d \in Dests : dels'[d] \subseteq dels[d]
         /\ problem' \in BOOLEAN /\ (problem => problem') /\ bad \subseteq bad' /\ bad' \subseteq Dests
         /\ pc = "fetch" /\ result = "none"
<1> DEFINE d == Min({e \in roots : dels[e] # {}})
<1>1. d \in roots /\ d \in Dests /\ pc = "fetch" /\ result = "none"
  BY DeleteNextDest DEF DeleteOne, Types
<1>2. PICK x \in dels[d] :
       /\ dels' = [dels EXCEPT ![d] = @ \ {x}]
       /\ \/ /\ onDrive' = [onDrive EXCEPT ![x[1]] =
                             IF place[x[1]] = "drive" THEN @ \ {x[2]} ELSE @]
             /\ onInternal' = [onInternal EXCEPT ![x[1]] =
                                IF place[x[1]] = "internal" THEN @ \ {x[2]} ELSE @]
             /\ UNCHANGED <<problem, bad>>
          \/ /\ problem' = TRUE /\ bad' = bad \union {d}
             /\ UNCHANGED <<onDrive, onInternal>>
  BY DEF DeleteOne
<1> HIDE DEF d
<1>3. /\ x \in Dests \X Files /\ x[1] \in Dests
      /\ x[1] # d /\ <<x[1], d>> \in Overlapping /\ options.delete
  BY <1>1, <1>2 DEF Types, Marked
<1>4. x[1] \notin roots
  BY <1>1, <1>3 DEF Disjoint
<1>5. dels' \in [Dests -> SUBSET (Dests \X Files)] /\ \A e \in Dests : dels'[e] \subseteq dels[e]
  BY <1>1, <1>2 DEF Types
<1>6. /\ onDrive' \in [Dests -> SUBSET Files] /\ onInternal' \in [Dests -> SUBSET Files]
      /\ \A e \in Dests : e # x[1] => onDrive'[e] = onDrive[e] /\ onInternal'[e] = onInternal[e]
  BY <1>2, <1>3 DEF Types
<1>7. problem' \in BOOLEAN /\ (problem => problem') /\ bad \subseteq bad' /\ bad' \subseteq Dests
  BY <1>1, <1>2 DEF Types
<1> QED
  BY <1>1, <1>3, <1>4, <1>5, <1>6, <1>7 DEF Types

(* What a scan marks for deletion is of the destinations that lie in it.   *)
LEMMA ForeignIs ==
  ASSUME Types, NEW d \in Dests
  PROVE  /\ Foreign(d) \in SUBSET (Dests \X Files)
         /\ \A x \in Foreign(d) :
              options.delete /\ x[1] # d /\ <<x[1], d>> \in Overlapping
<1>1. \A e \in Dests : Found(e) \subseteq Files
  BY DEF Found, Types
<1>2. ASSUME NEW x \in Foreign(d)
      PROVE  /\ x \in Dests \X Files /\ options.delete
             /\ x[1] # d /\ <<x[1], d>> \in Overlapping
  <2>1. options.delete
    BY <1>2 DEF Foreign
  <2>2. PICK e \in {i \in Dests \ {d} : <<i, d>> \in Overlapping} : x \in {e} \X Found(e)
    BY <1>2 DEF Foreign
  <2>3. e \in Dests /\ e # d /\ <<e, d>> \in Overlapping
    BY <2>2
  <2>4. PICK f \in Found(e) : x = <<e, f>>
    BY <2>2
  <2>5. f \in Files /\ x[1] = e
    BY <1>1, <2>3, <2>4
  <2> QED
    BY <2>1, <2>3, <2>4, <2>5
<1> QED
  BY <1>2

(* Every step keeps the types. *)
LEMMA TypesNext ==
  ASSUME Types, Sorted, Disjoint, Marked, Step
  PROVE  Types'
<1>1. ASSUME NEW d \in Dests, Exists(d)
      PROVE  Types'
  BY <1>1, TodoNext DEF Exists, Visit, disks, history, work, Types
<1>2. ASSUME NEW d \in Dests, NotADirectory(d)
      PROVE  Types'
  BY <1>2, TodoNext DEF NotADirectory, Visit, Stop, disks, history, work, Types
<1>3. ASSUME NEW d \in Dests, CreateMissing(d)
      PROVE  Types'
  BY <1>3, TodoNext DEF CreateMissing, Visit, Stop, Types
<1>4. ASSUME NEW d \in Dests, CollectMissing(d)
      PROVE  Types'
  BY <1>4, TodoNext DEF CollectMissing, Visit, disks, history, Types
<1>5. CASE CheckRoots
  BY <1>5 DEF CheckRoots, Stop, disks, history, work, Types
<1>6. CASE ScanLocal
  BY <1>6, ForeignIs DEF ScanLocal, disks, history, Types
<1>7. CASE ScanLocalFails
  BY <1>7 DEF ScanLocalFails, Stop, disks, work, Types
<1>8. CASE Plan
  <2>1. UNION {need[d] : d \in roots} \in SUBSET Files
    BY DEF Types
  <2> QED
    BY <1>8, <2>1 DEF Plan, Stop, disks, history, Types
<1>9. CASE PrepareDest
  <2>1. Min(todo) \in roots /\ roots \subseteq Dests
    BY <1>9, TodoNext DEF PrepareDest, Types, Sorted, Resolved
  <2> QED
    BY <1>9, <2>1 DEF PrepareDest, MadePlace, Writable, Types
<1>10. CASE Prepared
  BY <1>10 DEF Prepared, Stop, disks, history, work, Types
<1>11. CASE FetchFile
  BY <1>11 DEF FetchFile, Targets, MadePlace, Writable, Types
<1>12. CASE End
  BY <1>12 DEF End, Stop, disks, history, work, Types
<1>13. CASE Unplug
  BY <1>13 DEF Unplug, work, Types
<1>14. CASE Plug
  BY <1>14 DEF Plug, work, Types
<1>15. CASE Over
  BY <1>15 DEF Over, vars, disks, history, work, Types
<1>16. CASE Halt
  BY <1>16 DEF Halt, StopAtOnce, Stop, disks, history, work, Types
<1>17. CASE UNCHANGED vars
  BY <1>17 DEF vars, disks, history, work, Types
<1>18. CASE DeleteOne
  BY <1>18, DeleteSpares DEF DeleteOne, Types
<1> QED
  BY <1>1, <1>2, <1>3, <1>4, <1>5, <1>6, <1>7, <1>8, <1>9, <1>10, <1>11, <1>12, <1>13, <1>14, <1>15, <1>16, <1>17, <1>18
     DEF Step, Next, Run

(* No destination is forgotten. *)
LEMMA SortedNext ==
  ASSUME Types, Sorted, Step
  PROVE  Sorted'
<1>1. ASSUME NEW d \in Dests, Exists(d)
      PROVE  Sorted'
  BY <1>1, TodoNext DEF Exists, Visit, disks, history, work, Types, Sorted, Resolved
<1>2. ASSUME NEW d \in Dests, NotADirectory(d)
      PROVE  Sorted'
  BY <1>2, TodoNext DEF NotADirectory, Visit, Stop, disks, history, work, Types, Sorted, Resolved
<1>3. ASSUME NEW d \in Dests, CreateMissing(d)
      PROVE  Sorted'
  BY <1>3, TodoNext DEF CreateMissing, Visit, Stop, Types, Sorted, Resolved
<1>4. ASSUME NEW d \in Dests, CollectMissing(d)
      PROVE  Sorted'
  BY <1>4, TodoNext DEF CollectMissing, Visit, disks, history, Types, Sorted, Resolved
<1>5. CASE CheckRoots
  BY <1>5 DEF CheckRoots, Stop, disks, history, work, Types, Sorted, Resolved
<1>6. CASE ScanLocal
  BY <1>6 DEF ScanLocal, disks, history, Types, Sorted, Resolved
<1>7. CASE ScanLocalFails
  BY <1>7 DEF ScanLocalFails, Stop, disks, work, Types, Sorted, Resolved
<1>8. CASE Plan
  BY <1>8 DEF Plan, Stop, disks, history, Types, Sorted, Resolved
<1>9. CASE PrepareDest
  BY <1>9 DEF PrepareDest, MadePlace, Writable, Types, Sorted, Resolved
<1>10. CASE Prepared
  BY <1>10 DEF Prepared, Stop, disks, history, work, Types, Sorted, Resolved
<1>11. CASE FetchFile
  BY <1>11 DEF FetchFile, Targets, MadePlace, Writable, Types, Sorted, Resolved
<1>12. CASE End
  BY <1>12 DEF End, Stop, disks, history, work, Types, Sorted, Resolved
<1>13. CASE Unplug
  BY <1>13 DEF Unplug, work, Types, Sorted, Resolved
<1>14. CASE Plug
  BY <1>14 DEF Plug, work, Types, Sorted, Resolved
<1>15. CASE Over
  BY <1>15 DEF Over, vars, disks, history, work, Types, Sorted, Resolved
<1>16. CASE Halt
  BY <1>16 DEF Halt, StopAtOnce, Stop, disks, history, work, Types, Sorted, Resolved
<1>17. CASE UNCHANGED vars
  BY <1>17 DEF vars, disks, history, work, Types, Sorted, Resolved
<1>18. CASE DeleteOne
  BY <1>18 DEF DeleteOne, Types, Sorted, Resolved
<1> QED
  BY <1>1, <1>2, <1>3, <1>4, <1>5, <1>6, <1>7, <1>8, <1>9, <1>10, <1>11, <1>12, <1>13, <1>14, <1>15, <1>16, <1>17, <1>18
     DEF Step, Next, Run

(* The destinations that were always there. *)
LEMMA AttachedNext ==
  ASSUME Types, Sorted, Attached, Disjoint, Marked, Step
  PROVE  Attached'
<1>1. ASSUME NEW d \in Dests, Exists(d)
      PROVE  Attached'
  BY <1>1, TodoNext DEF Exists, Visit, disks, history, work, Types, Sorted, Attached
<1>2. ASSUME NEW d \in Dests, NotADirectory(d)
      PROVE  Attached'
  BY <1>2, TodoNext DEF NotADirectory, Visit, Stop, disks, history, work, Types, Sorted, Attached
<1>3. ASSUME NEW d \in Dests, CreateMissing(d)
      PROVE  Attached'
  BY <1>3, TodoNext DEF CreateMissing, Visit, Stop, Types, Sorted, Attached
<1>4. ASSUME NEW d \in Dests, CollectMissing(d)
      PROVE  Attached'
  BY <1>4, TodoNext DEF CollectMissing, Visit, disks, history, Types, Sorted, Attached
<1>5. CASE CheckRoots
  BY <1>5 DEF CheckRoots, Stop, disks, history, work, Types, Sorted, Attached
<1>6. CASE ScanLocal
  BY <1>6 DEF ScanLocal, disks, history, Types, Sorted, Attached
<1>7. CASE ScanLocalFails
  BY <1>7 DEF ScanLocalFails, Stop, disks, work, Types, Sorted, Attached
<1>8. CASE Plan
  BY <1>8 DEF Plan, Stop, disks, history, Types, Sorted, Attached
<1>9. CASE PrepareDest
  BY <1>9 DEF PrepareDest, MadePlace, Writable, Types, Sorted, Attached
<1>10. CASE Prepared
  BY <1>10 DEF Prepared, Stop, disks, history, work, Types, Sorted, Attached
<1>11. CASE FetchFile
  BY <1>11 DEF FetchFile, Targets, MadePlace, Writable, Types, Sorted, Attached
<1>12. CASE End
  BY <1>12 DEF End, Stop, disks, history, work, Types, Sorted, Attached
<1>13. CASE Unplug
  BY <1>13 DEF Unplug, work, Types, Sorted, Attached
<1>14. CASE Plug
  BY <1>14 DEF Plug, work, Types, Sorted, Attached
<1>15. CASE Over
  BY <1>15 DEF Over, vars, disks, history, work, Types, Sorted, Attached
<1>16. CASE Halt
  BY <1>16 DEF Halt, StopAtOnce, Stop, disks, history, work, Types, Sorted, Attached
<1>17. CASE UNCHANGED vars
  BY <1>17 DEF vars, disks, history, work, Types, Sorted, Attached
<1>18. CASE DeleteOne
  BY <1>18, DeleteSpares DEF DeleteOne, Types, Sorted, Attached
<1> QED
  BY <1>1, <1>2, <1>3, <1>4, <1>5, <1>6, <1>7, <1>8, <1>9, <1>10, <1>11, <1>12, <1>13, <1>14, <1>15, <1>16, <1>17, <1>18
     DEF Step, Next, Run

(* The scans know what is on the disks, and nothing is taken off. *)
LEMMA KnownNext ==
  ASSUME Types, Sorted, Attached, Known, Disjoint, Marked, Step
  PROVE  Known'
<1>1. ASSUME NEW d \in Dests, Exists(d)
      PROVE  Known'
  BY <1>1, TodoNext
     DEF Exists, Visit, disks, history, work, Types, Sorted, Attached, Known, Resolved,
         Scanned, Held
<1>2. ASSUME NEW d \in Dests, NotADirectory(d)
      PROVE  Known'
  BY <1>2, TodoNext
     DEF NotADirectory, Visit, Stop, disks, history, work, Types, Sorted, Attached, Known,
         Resolved, Scanned, Held
<1>3. ASSUME NEW d \in Dests, CreateMissing(d)
      PROVE  Known'
  BY <1>3, TodoNext
     DEF CreateMissing, Visit, Stop, Types, Sorted, Attached, Known, Resolved, Scanned, Held
<1>4. ASSUME NEW d \in Dests, CollectMissing(d)
      PROVE  Known'
  BY <1>4, TodoNext
     DEF CollectMissing, Visit, disks, history, Types, Sorted, Attached, Known, Resolved,
         Scanned, Held
<1>5. CASE CheckRoots
  BY <1>5
     DEF CheckRoots, Stop, disks, history, work, Types, Sorted, Attached, Known, Resolved,
         Scanned, Held
<1>6. CASE ScanLocal
  BY <1>6
     DEF ScanLocal, disks, history, Types, Sorted, Attached, Known, Resolved, Scanned, Held,
         Found
<1>7. CASE ScanLocalFails
  BY <1>7
     DEF ScanLocalFails, Stop, disks, work, Types, Sorted, Attached, Known, Resolved, Scanned,
         Held
<1>8. CASE Plan
  BY <1>8 DEF Plan, Stop, disks, history, Types, Sorted, Attached, Known, Resolved, Scanned, Held
<1>9. CASE PrepareDest
  BY <1>9
     DEF PrepareDest, MadePlace, Writable, Types, Sorted, Attached, Known, Resolved, Scanned,
         Held
<1>10. CASE Prepared
  BY <1>10
     DEF Prepared, Stop, disks, history, work, Types, Sorted, Attached, Known, Resolved,
         Scanned, Held
<1>11. CASE FetchFile
  BY <1>11
     DEF FetchFile, Targets, MadePlace, Writable, Types, Sorted, Attached, Known, Resolved,
         Scanned, Held
<1>12. CASE End
  BY <1>12
     DEF End, Stop, disks, history, work, Types, Sorted, Attached, Known, Resolved, Scanned,
         Held
<1>13. CASE Unplug
  BY <1>13 DEF Unplug, work, Types, Sorted, Attached, Known, Resolved, Scanned, Held
<1>14. CASE Plug
  BY <1>14 DEF Plug, work, Types, Sorted, Attached, Known, Resolved, Scanned, Held
<1>15. CASE Over
  BY <1>15
     DEF Over, vars, disks, history, work, Types, Sorted, Attached, Known, Resolved, Scanned,
         Held
<1>16. CASE Halt
  BY <1>16
     DEF Halt, StopAtOnce, Stop, disks, history, work, Types, Sorted, Attached, Known,
         Resolved, Scanned, Held
<1>17. CASE UNCHANGED vars
  BY <1>17 DEF vars, disks, history, work, Types, Sorted, Attached, Known, Resolved, Scanned, Held
<1>18. CASE DeleteOne
  BY <1>18, DeleteSpares DEF DeleteOne, Types, Known, Resolved, Scanned, Held
<1> QED
  BY <1>1, <1>2, <1>3, <1>4, <1>5, <1>6, <1>7, <1>8, <1>9, <1>10, <1>11, <1>12, <1>13, <1>14, <1>15, <1>16, <1>17, <1>18
     DEF Step, Next, Run

(* A file that is no longer in the queue is at the destinations or is a    *)
(* problem.                                                                *)
LEMMA QueuedNext ==
  ASSUME Types, Sorted, Attached, Known, Queued, Disjoint, Marked, Step
  PROVE  Queued'
<1>1. ASSUME NEW d \in Dests, Exists(d)
      PROVE  Queued'
  BY <1>1, TodoNext
     DEF Exists, Visit, disks, history, work, Types, Sorted, Attached, Queued, Held, Resolved
<1>2. ASSUME NEW d \in Dests, NotADirectory(d)
      PROVE  Queued'
  BY <1>2, TodoNext
     DEF NotADirectory, Visit, Stop, disks, history, work, Types, Sorted, Attached, Queued,
         Held, Resolved
<1>3. ASSUME NEW d \in Dests, CreateMissing(d)
      PROVE  Queued'
  BY <1>3, TodoNext DEF CreateMissing, Visit, Stop, Types, Sorted, Attached, Queued, Held, Resolved
<1>4. ASSUME NEW d \in Dests, CollectMissing(d)
      PROVE  Queued'
  BY <1>4, TodoNext
     DEF CollectMissing, Visit, disks, history, Types, Sorted, Attached, Queued, Held, Resolved
<1>5. CASE CheckRoots
  BY <1>5
     DEF CheckRoots, Stop, disks, history, work, Types, Sorted, Attached, Queued, Held,
         Resolved
<1>6. CASE ScanLocal
  BY <1>6 DEF ScanLocal, disks, history, Types, Sorted, Attached, Queued, Held, Resolved
<1>7. CASE ScanLocalFails
  BY <1>7 DEF ScanLocalFails, Stop, disks, work, Types, Sorted, Attached, Queued, Held, Resolved
<1>8. CASE Plan
  BY <1>8 DEF Plan, Stop, disks, history, Types, Sorted, Attached, Queued, Held, Resolved
<1>9. CASE PrepareDest
  BY <1>9 DEF PrepareDest, MadePlace, Writable, Types, Sorted, Attached, Queued, Held, Resolved
<1>10. CASE Prepared
  BY <1>10 DEF Prepared, Stop, disks, history, work, Types, Sorted, Attached, Queued, Held, Resolved
<1>11. CASE FetchFile
  <2> SUFFICES ASSUME pc' \in {"prepare", "fetch"}, NEW d \in roots' \ unprepared'
               PROVE  /\ ~problem' => need'[d] \ left' \subseteq Held(d)'
                      /\ d \in present' \ bad' => need'[d] \ left' \subseteq onDrive'[d]
    BY <1>11 DEF FetchFile, Queued
  <2>1. PICK f \in left : \E good \in SUBSET {e \in Targets(f) : Writable(e)} :
       /\ left' = left \ {f}
       /\ onDrive' = [e \in Dests |-> IF e \in good /\ place[e] = "drive"
                                      THEN onDrive[e] \union {f} ELSE onDrive[e]]
       /\ onInternal' = [e \in Dests |-> IF e \in good /\ place[e] # "drive"
                                         THEN onInternal[e] \union {f} ELSE onInternal[e]]
       /\ problem' = (problem \/ good # Targets(f))
       /\ bad' = bad \union (Targets(f) \ good)
    BY <1>11 DEF FetchFile
  <2>2. PICK good \in SUBSET {e \in Targets(f) : Writable(e)} :
       /\ left' = left \ {f}
       /\ onDrive' = [e \in Dests |-> IF e \in good /\ place[e] = "drive"
                                      THEN onDrive[e] \union {f} ELSE onDrive[e]]
       /\ onInternal' = [e \in Dests |-> IF e \in good /\ place[e] # "drive"
                                         THEN onInternal[e] \union {f} ELSE onInternal[e]]
       /\ problem' = (problem \/ good # Targets(f))
       /\ bad' = bad \union (Targets(f) \ good)
    BY <2>1
  <2>3. /\ pc = "fetch" /\ need' = need /\ roots' = roots /\ unprepared' = unprepared
        /\ present' = present /\ d \in Dests
    BY <1>11 DEF FetchFile, Types
  <2>4. f \in need[d] => d \in Targets(f)
    BY <2>3 DEF Targets
  <2>5. ~problem' => need[d] \ left' \subseteq Held(d)'
    <3> SUFFICES ASSUME ~problem', NEW g \in need[d] \ left'
                 PROVE  g \in Held(d)'
      OBVIOUS
    <3>1. CASE g = f
      BY <3>1, <2>2, <2>3, <2>4 DEF Held
    <3>2. CASE g # f
      BY <3>2, <2>2, <2>3 DEF Held, Queued
    <3> QED
      BY <3>1, <3>2
  <2>6. ASSUME d \in present \ bad', NEW g \in need[d] \ left'
        PROVE  g \in onDrive'[d]
    <3>1. d \notin bad /\ place[d] = "drive"
      BY <2>2, <2>6 DEF Attached
    <3>2. CASE g = f
      BY <3>1, <3>2, <2>2, <2>3, <2>4, <2>6
    <3>3. CASE g # f
      BY <3>1, <3>3, <2>2, <2>3, <2>6 DEF Queued
    <3> QED
      BY <3>2, <3>3
  <2> QED
    BY <2>3, <2>5, <2>6
<1>12. CASE End
  BY <1>12 DEF End, Stop, disks, history, work, Types, Sorted, Attached, Queued, Held, Resolved
<1>13. CASE Unplug
  BY <1>13 DEF Unplug, work, Types, Sorted, Attached, Queued, Held, Resolved
<1>14. CASE Plug
  BY <1>14 DEF Plug, work, Types, Sorted, Attached, Queued, Held, Resolved
<1>15. CASE Over
  BY <1>15 DEF Over, vars, disks, history, work, Types, Sorted, Attached, Queued, Held, Resolved
<1>16. CASE Halt
  BY <1>16
     DEF Halt, StopAtOnce, Stop, disks, history, work, Types, Sorted, Attached, Queued, Held,
         Resolved
<1>17. CASE UNCHANGED vars
  BY <1>17 DEF vars, disks, history, work, Types, Sorted, Attached, Queued, Held, Resolved
<1>18. CASE DeleteOne
  BY <1>18, DeleteSpares DEF DeleteOne, Types, Queued, Held
<1> QED
  BY <1>1, <1>2, <1>3, <1>4, <1>5, <1>6, <1>7, <1>8, <1>9, <1>10, <1>11, <1>12, <1>13, <1>14, <1>15, <1>16, <1>17, <1>18
     DEF Step, Next, Run

(* The roots that are accepted do not overlap, and stay. *)
LEMMA DisjointNext ==
  ASSUME Types, Disjoint, Step
  PROVE  Disjoint'
<1>1. ASSUME NEW d \in Dests, Exists(d)
      PROVE  Disjoint'
  BY <1>1, TodoNext DEF Exists, Visit, disks, history, work, Types, Disjoint
<1>2. ASSUME NEW d \in Dests, NotADirectory(d)
      PROVE  Disjoint'
  BY <1>2, TodoNext DEF NotADirectory, Visit, Stop, disks, history, work, Types, Disjoint
<1>3. ASSUME NEW d \in Dests, CreateMissing(d)
      PROVE  Disjoint'
  BY <1>3, TodoNext DEF CreateMissing, Visit, Stop, Types, Disjoint
<1>4. ASSUME NEW d \in Dests, CollectMissing(d)
      PROVE  Disjoint'
  BY <1>4, TodoNext DEF CollectMissing, Visit, disks, history, Types, Disjoint
<1>5. CASE CheckRoots
  BY <1>5 DEF CheckRoots, Stop, disks, history, work, Types, Disjoint, Overlaps
<1>6. CASE ScanLocal
  BY <1>6 DEF ScanLocal, disks, history, Types, Disjoint
<1>7. CASE ScanLocalFails
  BY <1>7 DEF ScanLocalFails, Stop, disks, work, Types, Disjoint
<1>8. CASE Plan
  BY <1>8 DEF Plan, Stop, disks, history, Types, Disjoint
<1>9. CASE PrepareDest
  BY <1>9 DEF PrepareDest, MadePlace, Writable, Types, Disjoint
<1>10. CASE Prepared
  BY <1>10 DEF Prepared, Stop, disks, history, work, Types, Disjoint
<1>11. CASE FetchFile
  BY <1>11 DEF FetchFile, Targets, MadePlace, Writable, Types, Disjoint
<1>12. CASE End
  BY <1>12 DEF End, Stop, disks, history, work, Types, Disjoint
<1>13. CASE Unplug
  BY <1>13 DEF Unplug, work, Types, Disjoint
<1>14. CASE Plug
  BY <1>14 DEF Plug, work, Types, Disjoint
<1>15. CASE Over
  BY <1>15 DEF Over, vars, disks, history, work, Types, Disjoint
<1>16. CASE Halt
  BY <1>16 DEF Halt, StopAtOnce, Stop, disks, history, work, Types, Disjoint
<1>17. CASE UNCHANGED vars
  BY <1>17 DEF vars, disks, history, work, Types, Disjoint
<1>18. CASE DeleteOne
  BY <1>18 DEF DeleteOne, Disjoint
<1> QED
  BY <1>1, <1>2, <1>3, <1>4, <1>5, <1>6, <1>7, <1>8, <1>9, <1>10, <1>11, <1>12, <1>13, <1>14, <1>15, <1>16, <1>17, <1>18
     DEF Step, Next, Run

(* What is deleted is what the scans found where destinations overlap. *)
LEMMA MarkedNext ==
  ASSUME Types, Sorted, Marked, Disjoint, Step
  PROVE  Marked'
<1>1. ASSUME NEW d \in Dests, Exists(d)
      PROVE  Marked'
  BY <1>1, TodoNext DEF Exists, Visit, disks, history, work, Types, Sorted, Resolved, Marked
<1>2. ASSUME NEW d \in Dests, NotADirectory(d)
      PROVE  Marked'
  BY <1>2, TodoNext DEF NotADirectory, Visit, Stop, disks, history, work, Types, Sorted, Resolved, Marked
<1>3. ASSUME NEW d \in Dests, CreateMissing(d)
      PROVE  Marked'
  BY <1>3, TodoNext DEF CreateMissing, Visit, Stop, Types, Sorted, Resolved, Marked
<1>4. ASSUME NEW d \in Dests, CollectMissing(d)
      PROVE  Marked'
  BY <1>4, TodoNext DEF CollectMissing, Visit, disks, history, Types, Sorted, Resolved, Marked
<1>5. CASE CheckRoots
  BY <1>5 DEF CheckRoots, Stop, disks, history, work, Types, Sorted, Resolved, Marked, Overlaps
<1>6. CASE ScanLocal
  <2>1. PICK d \in todo : dels' = [dels EXCEPT ![d] = Foreign(d)]
    BY <1>6 DEF ScanLocal
  <2>2. d \in roots /\ d \in Dests
    BY <1>6 DEF ScanLocal, Types, Sorted, Resolved
  <2>3. \A e \in Dests : dels'[e] = IF e = d THEN Foreign(d) ELSE dels[e]
    BY <2>1 DEF Types
  <2>4. roots' = roots /\ options' = options
    BY <1>6 DEF ScanLocal
  <2>5. ASSUME NEW e \in Dests, NEW x \in dels'[e]
        PROVE  options.delete /\ e \in roots /\ x[1] # e /\ <<x[1], e>> \in Overlapping
    <3>1. CASE e = d
      BY <2>2, <2>3, <2>5, <3>1, ForeignIs
    <3>2. CASE e # d
      BY <2>3, <2>5, <3>2 DEF Marked
    <3> QED
      BY <3>1, <3>2
  <2> QED
    BY <2>4, <2>5 DEF Marked
<1>7. CASE ScanLocalFails
  BY <1>7 DEF ScanLocalFails, Stop, disks, work, Types, Sorted, Resolved, Marked
<1>8. CASE Plan
  BY <1>8 DEF Plan, Stop, disks, history, Types, Sorted, Resolved, Marked
<1>9. CASE PrepareDest
  BY <1>9 DEF PrepareDest, MadePlace, Writable, Types, Sorted, Resolved, Marked
<1>10. CASE Prepared
  BY <1>10 DEF Prepared, Stop, disks, history, work, Types, Sorted, Resolved, Marked
<1>11. CASE FetchFile
  BY <1>11 DEF FetchFile, Targets, MadePlace, Writable, Types, Sorted, Resolved, Marked
<1>12. CASE End
  BY <1>12 DEF End, Stop, disks, history, work, Types, Sorted, Resolved, Marked
<1>13. CASE Unplug
  BY <1>13 DEF Unplug, work, Types, Sorted, Resolved, Marked
<1>14. CASE Plug
  BY <1>14 DEF Plug, work, Types, Sorted, Resolved, Marked
<1>15. CASE Over
  BY <1>15 DEF Over, vars, disks, history, work, Types, Sorted, Resolved, Marked
<1>16. CASE Halt
  BY <1>16 DEF Halt, StopAtOnce, Stop, disks, history, work, Types, Sorted, Resolved, Marked
<1>17. CASE UNCHANGED vars
  BY <1>17 DEF vars, disks, history, work, Types, Sorted, Resolved, Marked
<1>18. CASE DeleteOne
  BY <1>18, DeleteSpares DEF DeleteOne, Marked
<1> QED
  BY <1>1, <1>2, <1>3, <1>4, <1>5, <1>6, <1>7, <1>8, <1>9, <1>10, <1>11, <1>12, <1>13, <1>14, <1>15, <1>16, <1>17, <1>18
     DEF Step, Next, Run

(* Exit code 0. *)
LEMMA CleanExitNext ==
  ASSUME Types, Sorted, Attached, Known, Queued, CleanExitEverywhere, Step
  PROVE  CleanExitEverywhere'
<1>1. ASSUME NEW d \in Dests, Exists(d)
      PROVE  CleanExitEverywhere'
  BY <1>1, TodoNext
     DEF Exists, Visit, disks, history, work, Types, Sorted, CleanExitEverywhere, Queued,
         Known, Resolved, Held, Scanned
<1>2. ASSUME NEW d \in Dests, NotADirectory(d)
      PROVE  CleanExitEverywhere'
  BY <1>2, TodoNext
     DEF NotADirectory, Visit, Stop, disks, history, work, Types, Sorted, CleanExitEverywhere,
         Queued, Known, Resolved, Held, Scanned
<1>3. ASSUME NEW d \in Dests, CreateMissing(d)
      PROVE  CleanExitEverywhere'
  BY <1>3, TodoNext
     DEF CreateMissing, Visit, Stop, Types, Sorted, CleanExitEverywhere, Queued, Known,
         Resolved, Held, Scanned
<1>4. ASSUME NEW d \in Dests, CollectMissing(d)
      PROVE  CleanExitEverywhere'
  BY <1>4, TodoNext
     DEF CollectMissing, Visit, disks, history, Types, Sorted, CleanExitEverywhere, Queued,
         Known, Resolved, Held, Scanned
<1>5. CASE CheckRoots
  BY <1>5
     DEF CheckRoots, Stop, disks, history, work, Types, Sorted, CleanExitEverywhere, Queued,
         Known, Resolved, Held, Scanned
<1>6. CASE ScanLocal
  BY <1>6
     DEF ScanLocal, disks, history, Types, Sorted, CleanExitEverywhere, Queued, Known,
         Resolved, Held, Scanned
<1>7. CASE ScanLocalFails
  BY <1>7
     DEF ScanLocalFails, Stop, disks, work, Types, Sorted, CleanExitEverywhere, Queued, Known,
         Resolved, Held, Scanned
<1>8. CASE Plan
  BY <1>8
     DEF Plan, Stop, disks, history, Types, Sorted, CleanExitEverywhere, Queued, Known,
         Resolved, Held, Scanned, NoneSkipped
<1>9. CASE PrepareDest
  BY <1>9
     DEF PrepareDest, MadePlace, Writable, Types, Sorted, CleanExitEverywhere, Queued, Known,
         Resolved, Held, Scanned
<1>10. CASE Prepared
  BY <1>10
     DEF Prepared, Stop, disks, history, work, Types, Sorted, CleanExitEverywhere, Queued,
         Known, Resolved, Held, Scanned
<1>11. CASE FetchFile
  BY <1>11
     DEF FetchFile, Targets, MadePlace, Writable, Types, Sorted, CleanExitEverywhere, Queued,
         Known, Resolved, Held, Scanned
<1>12. CASE End
  BY <1>12
     DEF End, Stop, disks, history, work, Types, Sorted, CleanExitEverywhere, Queued, Known,
         Resolved, Held, Scanned, CleanReport
<1>13. CASE Unplug
  BY <1>13
     DEF Unplug, work, Types, Sorted, CleanExitEverywhere, Queued, Known, Resolved, Held,
         Scanned
<1>14. CASE Plug
  BY <1>14
     DEF Plug, work, Types, Sorted, CleanExitEverywhere, Queued, Known, Resolved, Held, Scanned
<1>15. CASE Over
  BY <1>15
     DEF Over, vars, disks, history, work, Types, Sorted, CleanExitEverywhere, Queued, Known,
         Resolved, Held, Scanned
<1>16. CASE Halt
  BY <1>16
     DEF Halt, StopAtOnce, Stop, disks, history, work, Types, Sorted, CleanExitEverywhere,
         Queued, Known, Resolved, Held, Scanned
<1>17. CASE UNCHANGED vars
  BY <1>17
     DEF vars, disks, history, work, Types, Sorted, CleanExitEverywhere, Queued, Known,
         Resolved, Held, Scanned
<1>18. CASE DeleteOne
  BY <1>18 DEF DeleteOne, Types, CleanExitEverywhere
<1> QED
  BY <1>1, <1>2, <1>3, <1>4, <1>5, <1>6, <1>7, <1>8, <1>9, <1>10, <1>11, <1>12, <1>13, <1>14, <1>15, <1>16, <1>17, <1>18
     DEF Step, Next, Run

(* The destinations that stayed. *)
LEMMA PresentNext ==
  ASSUME Types, Sorted, Attached, Known, Queued, PresentGetBackup, Step
  PROVE  PresentGetBackup'
<1>1. ASSUME NEW d \in Dests, Exists(d)
      PROVE  PresentGetBackup'
  BY <1>1, TodoNext
     DEF Exists, Visit, disks, history, work, Types, Sorted, Attached, PresentGetBackup,
         Queued, Known, Resolved, Held, Scanned
<1>2. ASSUME NEW d \in Dests, NotADirectory(d)
      PROVE  PresentGetBackup'
  BY <1>2, TodoNext
     DEF NotADirectory, Visit, Stop, disks, history, work, Types, Sorted, Attached,
         PresentGetBackup, Queued, Known, Resolved, Held, Scanned
<1>3. ASSUME NEW d \in Dests, CreateMissing(d)
      PROVE  PresentGetBackup'
  BY <1>3, TodoNext
     DEF CreateMissing, Visit, Stop, Types, Sorted, Attached, PresentGetBackup, Queued, Known,
         Resolved, Held, Scanned
<1>4. ASSUME NEW d \in Dests, CollectMissing(d)
      PROVE  PresentGetBackup'
  BY <1>4, TodoNext
     DEF CollectMissing, Visit, disks, history, Types, Sorted, Attached, PresentGetBackup,
         Queued, Known, Resolved, Held, Scanned
<1>5. CASE CheckRoots
  BY <1>5
     DEF CheckRoots, Stop, disks, history, work, Types, Sorted, Attached, PresentGetBackup,
         Queued, Known, Resolved, Held, Scanned, Overlaps, MissingAllowed
<1>6. CASE ScanLocal
  BY <1>6
     DEF ScanLocal, disks, history, Types, Sorted, Attached, PresentGetBackup, Queued, Known,
         Resolved, Held, Scanned
<1>7. CASE ScanLocalFails
  BY <1>7
     DEF ScanLocalFails, Stop, disks, work, Types, Sorted, Attached, PresentGetBackup, Queued,
         Known, Resolved, Held, Scanned
<1>8. CASE Plan
  BY <1>8
     DEF Plan, Stop, disks, history, Types, Sorted, Attached, PresentGetBackup, Queued, Known,
         Resolved, Held, Scanned
<1>9. CASE PrepareDest
  BY <1>9
     DEF PrepareDest, MadePlace, Writable, Types, Sorted, Attached, PresentGetBackup, Queued,
         Known, Resolved, Held, Scanned
<1>10. CASE Prepared
  BY <1>10
     DEF Prepared, Stop, disks, history, work, Types, Sorted, Attached, PresentGetBackup,
         Queued, Known, Resolved, Held, Scanned
<1>11. CASE FetchFile
  BY <1>11
     DEF FetchFile, Targets, MadePlace, Writable, Types, Sorted, Attached, PresentGetBackup,
         Queued, Known, Resolved, Held, Scanned
<1>12. CASE End
  BY <1>12
     DEF End, Stop, disks, history, work, Types, Sorted, Attached, PresentGetBackup, Queued,
         Known, Resolved, Held, Scanned
<1>13. CASE Unplug
  BY <1>13
     DEF Unplug, work, Types, Sorted, Attached, PresentGetBackup, Queued, Known, Resolved,
         Held, Scanned
<1>14. CASE Plug
  BY <1>14
     DEF Plug, work, Types, Sorted, Attached, PresentGetBackup, Queued, Known, Resolved, Held,
         Scanned
<1>15. CASE Over
  BY <1>15
     DEF Over, vars, disks, history, work, Types, Sorted, Attached, PresentGetBackup, Queued,
         Known, Resolved, Held, Scanned
<1>16. CASE Halt
  BY <1>16
     DEF Halt, StopAtOnce, Stop, disks, history, work, Types, Sorted, Attached,
         PresentGetBackup, Queued, Known, Resolved, Held, Scanned
<1>17. CASE UNCHANGED vars
  BY <1>17
     DEF vars, disks, history, work, Types, Sorted, Attached, PresentGetBackup, Queued, Known,
         Resolved, Held, Scanned
<1>18. CASE DeleteOne
  BY <1>18 DEF DeleteOne, Types, PresentGetBackup
<1> QED
  BY <1>1, <1>2, <1>3, <1>4, <1>5, <1>6, <1>7, <1>8, <1>9, <1>10, <1>11, <1>12, <1>13, <1>14, <1>15, <1>16, <1>17, <1>18
     DEF Step, Next, Run

(* The invariant of Destinations, also when the phone ends the run. *)
LEMMA DestNext ==
  ASSUME DestInv, Step
  PROVE  DestInv'
BY TypesNext, SortedNext, AttachedNext, KnownNext, QueuedNext, DisjointNext, MarkedNext,
   CleanExitNext, PresentNext DEF DestInv

(* At the start nothing is resolved. *)
LEMMA DestInit == Init => DestInv
<1> SUFFICES ASSUME Init PROVE DestInv
  OBVIOUS
<1>1. Types
  BY DEF Init, Types
<1>2. Sorted /\ Attached /\ Known /\ Queued
  BY DEF Init, Sorted, Attached, Known, Queued, Resolved
<1>3. CleanExitEverywhere /\ Disjoint /\ Marked /\ PresentGetBackup
  BY DEF Init, CleanExitEverywhere, Disjoint, Marked, PresentGetBackup
<1> QED
  BY <1>1, <1>2, <1>3 DEF DestInv


(* What a step may take from whom.                                         *)
Keeping ==
  \A d \in Dests :
    \/ onDrive[d] \subseteq onDrive'[d] /\ onInternal[d] \subseteq onInternal'[d]
    \/ d \in missing /\ options.delete /\ \E i \in roots : <<d, i>> \in Overlapping

(* Only deletions take files, and only from a destination that was missing.*)
LEMMA StepKeeps ==
  ASSUME DestInv, Step
  PROVE  Keeping
<1>1. CASE DeleteOne
  <2>1. Dests = roots \union missing
    BY <1>1, DeleteSpares DEF DestInv, Sorted, Resolved
  <2> QED
    BY <1>1, <2>1, DeleteSpares DEF DestInv, Keeping
<1>2. CASE FetchFile
  BY <1>2 DEF FetchFile, DestInv, Types, Keeping
<1>3. CASE UNCHANGED <<onDrive, onInternal>>
  BY <1>3 DEF Keeping
<1>4. DeleteOne \/ FetchFile \/ UNCHANGED <<onDrive, onInternal>>
  BY DEF Step, Next, Run, Halt, StopAtOnce, Exists, NotADirectory, CreateMissing, CollectMissing,
         CheckRoots, ScanLocal, ScanLocalFails, Plan, PrepareDest, Prepared, End, Unplug, Plug,
         Over, vars, disks
<1> QED
  BY <1>1, <1>2, <1>3, <1>4

-----------------------------------------------------------------------------
(* The theorems about Destinations alone.                                  *)
THEOREM DestinationsInvariance == Spec => []DestInv
<1>1. DestInv /\ [Next]_vars => DestInv'
  BY DestNext DEF Step
<1> QED
  BY DestInit, <1>1, PTL DEF Spec

(* Exit code 0 means that every destination that was named is a root, was  *)
(* prepared, and has every file, on its drive or where one was (main.rs    *)
(* run).                                                                   *)
THEOREM CleanExitCorrect == Spec => []CleanExitEverywhere
<1>1. DestInv => CleanExitEverywhere
  BY DEF DestInv
<1> QED
  BY <1>1, DestinationsInvariance, PTL

(* No step takes a file from a destination, unless it was missing and is   *)
(* now mounted inside one that is worked on with --delete                  *)
(* (resolve_destinations, plan::build, apply_deletions).                   *)
THEOREM DestsKeepTheirFilesCorrect == Spec => DestsKeepTheirFiles
<1>1. ASSUME DestInv, [Next]_vars PROVE Keeping
  BY <1>1, StepKeeps DEF Step
<1> QED
  BY <1>1, DestinationsInvariance, PTL DEF Spec, DestsKeepTheirFiles, Keeping

(* A destination that was there all along, and at which nothing failed,    *)
(* has every file at the end, and --skip-missing-dest refuses only for     *)
(* other reasons.                                                          *)
THEOREM PresentGetBackupCorrect == Spec => []PresentGetBackup
<1>1. DestInv => PresentGetBackup
  BY DEF DestInv
<1> QED
  BY <1>1, DestinationsInvariance, PTL

-----------------------------------------------------------------------------
(* Startup.                                                                *)

(* A phone that is chosen, and one a stream is sent to. *)
LEMMA PhoneChoices ==
  ASSUME Pinned, spec \in RemoteSpec
  PROVE  /\ Chosen \subseteq Serials /\ Routed \subseteq Serials
         /\ stage # "connect" => Routed \subseteq {selector}
BY StartupAssumption DEF Pinned, Chosen, Routed, Usable

(* What Startup does to the destinations is a step of Destinations, or     *)
(* ends the run.                                                           *)
LEMMA IsStep ==
  ASSUME Types, Early, Kept, [SNext]_allVars
  PROVE  Step
<1>1. CASE ResolveDevice
  BY <1>1 DEF ResolveDevice, Step, Halt, Types, Early
<1>2. CASE Probe
  BY <1>2 DEF Probe, Step, Halt, Types, Early
<1>3. CASE ResolveRoots
  BY <1>3 DEF ResolveRoots, Step, Next, Run
<1>4. CASE ScanDevice
  BY <1>4 DEF ScanDevice, Step, Halt
<1>5. CASE InDestinations
  BY <1>5 DEF InDestinations, Resolving, Working, Step, Next, Run
<1>6. CASE PhoneChanges
  BY <1>6 DEF PhoneChanges, Step
<1>7. CASE SourceChanges
  BY <1>7 DEF SourceChanges, Step
<1>8. CASE SOver
  BY <1>8 DEF SOver, allVars, Step
<1>9. CASE UNCHANGED allVars
  BY <1>9 DEF allVars, Step
<1> QED
  BY <1>1, <1>2, <1>3, <1>4, <1>5, <1>6, <1>7, <1>8, <1>9 DEF SNext

(* The phone, once chosen, stays the phone of every stream. *)
LEMMA PinnedNext ==
  ASSUME Types, Pinned, Early, Kept, [SNext]_allVars
  PROVE  Pinned'
<1>1. CASE ResolveDevice
  BY <1>1, PhoneChoices DEF ResolveDevice, Pin, Pinned, Kept
<1>2. CASE Probe
  BY <1>2, PhoneChoices DEF Probe, Pinned, Kept
<1>3. CASE ResolveRoots
  BY <1>3, PhoneChoices DEF ResolveRoots, CheckRoots, Stop, disks, history, work, Pinned
<1>4. CASE ScanDevice
  BY <1>4, PhoneChoices DEF ScanDevice, Pinned, Kept, Early
<1>5. CASE InDestinations
  BY <1>5, PhoneChoices DEF InDestinations, svars, Pinned
<1>6. CASE PhoneChanges
  BY <1>6, PhoneChoices DEF PhoneChanges, vars, disks, history, work, Pinned
<1>7. CASE SourceChanges
  BY <1>7, PhoneChoices DEF SourceChanges, vars, disks, history, work, Pinned
<1>8. CASE SOver
  BY <1>8, PhoneChoices DEF SOver, allVars, vars, svars, disks, history, work, Pinned
<1>9. CASE UNCHANGED allVars
  BY <1>9, PhoneChoices DEF allVars, vars, svars, disks, history, work, Pinned
<1> QED
  BY <1>1, <1>2, <1>3, <1>4, <1>5, <1>6, <1>7, <1>8, <1>9 DEF SNext

(* Before there is a phone and a source nothing is resolved. *)
LEMMA EarlyNext ==
  ASSUME Types, Pinned, Early, Kept, [SNext]_allVars
  PROVE  Early'
<1>1. CASE ResolveDevice
  BY <1>1 DEF ResolveDevice, Pin, StopAtOnce, Stop, vars, disks, history, work, Early
<1>2. CASE Probe
  BY <1>2 DEF Probe, StopAtOnce, Stop, vars, disks, history, work, Early
<1>3. CASE ResolveRoots
  BY <1>3 DEF ResolveRoots, CheckRoots, Stop, disks, history, work, Early
<1>4. CASE ScanDevice
  BY <1>4 DEF ScanDevice, StopAtOnce, Stop, vars, disks, history, work, Early
<1>5. CASE InDestinations
  BY <1>5 DEF InDestinations, svars, Early
<1>6. CASE PhoneChanges
  BY <1>6 DEF PhoneChanges, vars, disks, history, work, Early
<1>7. CASE SourceChanges
  BY <1>7 DEF SourceChanges, vars, disks, history, work, Early
<1>8. CASE SOver
  BY <1>8 DEF SOver, allVars, vars, svars, disks, history, work, Early
<1>9. CASE UNCHANGED allVars
  BY <1>9 DEF allVars, vars, svars, disks, history, work, Early
<1> QED
  BY <1>1, <1>2, <1>3, <1>4, <1>5, <1>6, <1>7, <1>8, <1>9 DEF SNext

(* What the probe and the scan found is true as long as nobody changes it. *)
LEMMA KeptNext ==
  ASSUME Types, Pinned, Early, Kept, [SNext]_allVars
  PROVE  Kept'
<1>1. CASE ResolveDevice
  BY <1>1, PhoneChoices
     DEF ResolveDevice, Pin, StopAtOnce, Stop, vars, disks, history, work, Kept, Pinned, Early,
         Types, Resolved, Base
<1>2. CASE Probe
  BY <1>2, PhoneChoices
     DEF Probe, StopAtOnce, Stop, vars, disks, history, work, Kept, Pinned, Early, Types,
         Resolved, Base
<1>3. CASE ResolveRoots
  BY <1>3, PhoneChoices
     DEF ResolveRoots, CheckRoots, Stop, disks, history, work, Kept, Pinned, Early, Types,
         Resolved, Base
<1>4. CASE ScanDevice
  BY <1>4, PhoneChoices
     DEF ScanDevice, StopAtOnce, Stop, vars, disks, history, work, Kept, Pinned, Early, Types,
         Resolved, Base
<1>5. CASE InDestinations
  <2>1. /\ UNCHANGED svars
        /\ \/ pc' \in {pc, "over"}
           \/ pc = "scan" /\ pc' = "prepare" /\ seen # "unknown"
           \/ pc = "prepare" /\ pc' = "fetch"
    BY <1>5
       DEF InDestinations, Resolving, Working, Exists, NotADirectory, CreateMissing,
           CollectMissing, ScanLocal, ScanLocalFails, Plan, PrepareDest, Prepared, FetchFile,
           DeleteOne, End, Unplug, Plug, Visit, Stop, disks, history, work
  <2> QED
    BY <2>1 DEF svars, Kept, Resolved, Base, Types
<1>6. CASE PhoneChanges
  BY <1>6, PhoneChoices
     DEF PhoneChanges, vars, disks, history, work, Kept, Pinned, Early, Types, Resolved, Base
<1>7. CASE SourceChanges
  BY <1>7, PhoneChoices
     DEF SourceChanges, vars, disks, history, work, Kept, Pinned, Early, Types, Resolved, Base
<1>8. CASE SOver
  BY <1>8, PhoneChoices
     DEF SOver, allVars, vars, svars, disks, history, work, Kept, Pinned, Early, Types,
         Resolved, Base
<1>9. CASE UNCHANGED allVars
  BY <1>9, PhoneChoices
     DEF allVars, vars, svars, disks, history, work, Kept, Pinned, Early, Types, Resolved, Base
<1> QED
  BY <1>1, <1>2, <1>3, <1>4, <1>5, <1>6, <1>7, <1>8, <1>9 DEF SNext

(* At the start there is no phone. *)
LEMMA StartInit == SInit => StartInv
<1> SUFFICES ASSUME SInit PROVE StartInv
  OBVIOUS
<1>1. DestInv
  BY DestInit DEF SInit
<1>2. Pinned /\ Early
  BY DEF SInit, Init, Pinned, Early
<1>3. Kept
  BY DEF SInit, Init, Kept, Resolved
<1> QED
  BY <1>1, <1>2, <1>3 DEF StartInv

(* The invariant of Startup: that of Destinations, with what is known of   *)
(* the phone and of the source.                                            *)
THEOREM StartupInvariance == SSpec => []StartInv
<1>1. ASSUME StartInv, [SNext]_allVars PROVE StartInv'
  <2>1. Types
    BY <1>1 DEF StartInv, DestInv
  <2> QED
    BY <1>1, <2>1, IsStep, DestNext, PinnedNext, EarlyNext, KeptNext DEF StartInv
<1> QED
  BY StartInit, <1>1, PTL DEF SSpec

(* The concatenation of two paths of one component. *)
LEMMA ConcatOnes ==
  ASSUME NEW a, NEW b
  PROVE  <<a>> \o <<b>> = <<a, b>>
<1> DEFINE S == {a, b}
           s == <<a>> \o <<b>>
           t == <<a, b>>
<1>1. /\ <<a>> \in Seq(S) /\ <<b>> \in Seq(S) /\ t \in Seq(S)
      /\ Len(<<a>>) = 1 /\ Len(<<b>>) = 1 /\ Len(t) = 2 /\ t[1] = a /\ t[2] = b
  OBVIOUS
<1>2. Len(s) = 2 /\ s \in Seq(S) /\ s[1] = a /\ s[2] = b
  BY <1>1, ConcatProperties
<1> HIDE DEF s, t
<1>3. \A i \in 1..Len(s) : s[i] = t[i]
  BY <1>1, <1>2
<1>4. s = t
  BY <1>1, <1>2, <1>3, SeqEqual
<1> QED
  BY <1>4 DEF s, t

(* With the choice of a phone and the scan of the source in between,       *)
(* Destinations keeps its properties.                                      *)
THEOREM DestinationsInStartup ==
  SSpec => [](CleanExitEverywhere /\ PresentGetBackup) /\ DestsKeepTheirFiles
<1>1. StartInv => CleanExitEverywhere /\ PresentGetBackup
  BY DEF StartInv, DestInv
<1>2. ASSUME StartInv, [SNext]_allVars PROVE Keeping
  BY <1>2, IsStep, StepKeeps DEF StartInv, DestInv
<1> QED
  BY <1>1, <1>2, StartupInvariance, PTL DEF SSpec, DestsKeepTheirFiles, Keeping

(* A run talks to one phone, though others come and go (main.rs run).      *)
THEOREM OnePhoneCorrect == SSpec => []OnePhone
<1>1. ASSUME StartInv PROVE OnePhone
  <2>1. talked \subseteq {selector}
    BY <1>1 DEF StartInv, Pinned
  <2>2. IsFiniteSet({selector}) /\ Cardinality({selector}) = 1
    BY FS_Singleton
  <2>3. Cardinality(talked) =< 1
    BY <2>1, <2>2, FS_Subset
  <2> QED
    BY <2>3 DEF OnePhone
<1> QED
  BY <1>1, StartupInvariance, PTL

(* The files land where the README says, unless the source was replaced or *)
(* the probe got no answer (main.rs probe_source, resolve_destinations).   *)
THEOREM LandsWhereDueCorrect == SSpec => []LandsWhereDue
<1>1. ASSUME StartInv, pc \in {"prepare", "fetch"}, events = 0
      PROVE  \/ Landing = Due
             \/ ~answered /\ seen = "file" /\ Landing = <<"name", "name">>
  <2>1. /\ base = Base /\ seen = source[selector] /\ stage = "go"
        /\ seen \in {"file", "dir"} /\ probe \in {"file", "other"}
        /\ answered => (probe = "file" <=> seen = "file")
        /\ ~answered => probe = "other"
    BY <1>1 DEF StartInv, Kept, Early, Resolved
  <2>2. /\ <<>> \o <<"name">> = <<"name">> /\ <<>> \o <<"child">> = <<"child">>
        /\ <<"name">> \o <<"name">> = <<"name", "name">>
        /\ <<"name">> \o <<"child">> = <<"name", "child">>
    BY ConcatEmptySeq, ConcatOnes
  <2>3. CASE seen = "dir"
    BY <2>1, <2>2, <2>3 DEF Landing, Due, Base
  <2>4. CASE seen = "file"
    BY <2>1, <2>2, <2>4 DEF Landing, Due, Base
  <2> QED
    BY <2>1, <2>3, <2>4
<1>2. StartInv => LandsWhereDue
  BY <1>1 DEF LandsWhereDue
<1> QED
  BY <1>2, StartupInvariance, PTL
==============================================================================
