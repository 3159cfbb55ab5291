------------------------------- MODULE Backup -------------------------------
(***************************************************************************)
(* Whole runs of the program (main.rs run): scan, plan, create_dirs, the   *)
(* transfers, the deletions, the exit code; a crash between any two steps; *)
(* and runs that follow each other while the device and the destinations   *)
(* change.  The planner's operators come from Planner; one file's transfer *)
(* is one step here (Transfer has its inside), except that a crash may     *)
(* fall between its rename and the setting of its modification time.       *)
(***************************************************************************)
EXTENDS Planner

CONSTANTS
  TempName,      \* temp_path_for, on the last component
  Now,           \* the time at which files are written
  Scenarios      \* what the user does and meets: a function to records of
                 \*   opts: the options of all runs, see Planner, with
                 \*     recursive (-r or -a), preserveMtime (-t or -a), dryRun,
                 \*     report (--perf-report)
                 \*   devices: the states of the device
                 \*   disks: the states of the destinations at the start
                 \*   mayDeny: the device may refuse to list a directory
                 \*   maxRuns, maxChanges: bounds on the runs, and on the
                 \*     changes of the device or of a copy by the user

VARIABLES
  scenario,
  device,      \* the tree on the device
  disk,        \* the tree at every destination
  pc,          \* "idle", "scan", "planned", "prepare", "fetch", "delete"
  seen,        \* RemoteScan.entries, after the filter of a run without -r
  denied,      \* RemoteScan.denied
  plan,
  toPrepare, unprepared,
  left,        \* files still to be transferred
  dels,        \* deletions still to be made
  problem,     \* the report has an error
  result,      \* how the last run ended
  runs, changes,
  \* history: what the scan listed and whether it still is so; the
  \* destinations an operation failed on; whether anything failed that the
  \* state of the disks does not explain; whether the plan could be applied;
  \* whether nothing has changed since a run that exited 0
  atScan, steady, hurt, faulted, fixable, intact

run == <<seen, denied, plan, toPrepare, unprepared, left, dels, problem>>
history == <<atScan, steady, hurt, faulted, fixable, intact>>
vars == <<scenario, device, disk, pc, run, result, runs, changes, history>>

Scenario == Scenarios[scenario]
Opts == Scenario.opts

Init ==
  /\ scenario \in DOMAIN Scenarios
  /\ device \in Scenario.devices /\ disk \in Scenario.disks
  /\ pc = "idle" /\ result = "none" /\ runs = 0 /\ changes = 0
  /\ seen = <<>> /\ denied = {} /\ plan = NoPlan
  /\ toPrepare = {} /\ unprepared = {} /\ left = {}
  /\ dels = [d \in Dests |-> {}] /\ problem = FALSE
  /\ atScan = <<>> /\ steady = TRUE /\ hurt = {} /\ faulted = FALSE /\ fixable = FALSE
  /\ intact = FALSE

-----------------------------------------------------------------------------
(* The file system (external).                                             *)

Parent(p) == Front(p)
Ancestors(p) == {SubSeq(p, 1, k) : k \in 1..Len(p)}     \* p included
Below(p, q) == Len(q) > Len(p) /\ SubSeq(q, 1, Len(p)) = p

(* A link to a directory passes for one.  What is reached through it is in *)
(* the tree below the link.                                                *)
DirLike(node) == node.kind = "dir" \/ node = LinkNode("dir")
IsDir(tree, p) == p \in DOMAIN tree /\ DirLike(tree[p])
Dangling(node) == node = LinkNode("nothing")
ThroughLink(tree, p) ==
  \E q \in DOMAIN tree : Below(q, p) /\ tree[q].kind = "link"

(* create_dir_all fails on a component that is not a directory. *)
Blocked(tree, p) == \E q \in Ancestors(p) \intersect DOMAIN tree : ~DirLike(tree[q])
With(tree, paths, node) ==
  [p \in DOMAIN tree \union paths |-> IF p \in DOMAIN tree THEN tree[p] ELSE node]
Without(tree, paths) == [p \in DOMAIN tree \ paths |-> tree[p]]
MakeDirs(tree, paths) == With(tree, UNION {Ancestors(p) : p \in paths}, DirNode)
(* A node in the place of what was there; of a link, with what is seen through it. *)
Place(tree, p, node) == With(Without(tree, {q \in DOMAIN tree : q = p \/ Below(p, q)}), {p}, node)
TempOf(p) == Append(Front(p), TempName[Last(p)])

(* What is above an entry is a directory; at a destination, perhaps a link *)
(* to one.  A path is not empty.                                           *)
Node == {n \in [kind : {"file", "dir", "link"}, size : Nat, mtime : Int, data : STRING] :
           n.kind = "link" => n \in {LinkNode(to) : to \in {"dir", "file", "nothing"}}}
Tree(t) == t \in [DOMAIN t -> Node] /\ DOMAIN t \subseteq Seq(STRING) \ {<<>>}
DeviceTree(t) == Tree(t) /\ \A p \in DOMAIN t : \A q \in Ancestors(p) \ {p} : IsKind(t, q, "dir")
LocalTree(t) == Tree(t) /\ \A p \in DOMAIN t : \A q \in Ancestors(p) \ {p} : IsDir(t, q)

FlagNames == {"recursive", "preserveMtime", "dryRun", "report"}
ASSUME BackupAssumption ==
  /\ Now \in Int /\ {"none", "partial"} \subseteq STRING    \* the data of DirNode, of a crash
  /\ \A s \in {Scenarios[name] : name \in DOMAIN Scenarios} :
       /\ [f \in DOMAIN s.opts \ FlagNames |-> s.opts[f]] \in PlanOptions(Seq(STRING))
       /\ \A f \in FlagNames : s.opts[f] \in BOOLEAN
       /\ s.mayDeny \in BOOLEAN /\ s.maxRuns \in Nat /\ s.maxChanges \in Nat
       /\ \A t \in s.devices :
            DeviceTree(t) /\ \A p \in DOMAIN t : TempName[Last(p)] \in STRING
       /\ \A trees \in s.disks :
            trees = [d \in Dests |-> trees[d]] /\ \A d \in Dests : LocalTree(trees[d])

(* No entry of the device has the name of another's temporary file.        *)
NamesApart ==
  \A name \in DOMAIN Scenarios : \A t \in Scenarios[name].devices :
    \A p, q \in DOMAIN t : q # TempOf(p)

-----------------------------------------------------------------------------
(* A run.                                                                  *)

Finish(how) ==
  /\ pc' = "idle" /\ result' = how
  /\ intact' = (how = "ok" /\ steady) /\ UNCHANGED scenario
  /\ seen' = <<>> /\ denied' = {} /\ plan' = NoPlan /\ toPrepare' = {}
  /\ unprepared' = {} /\ left' = {} /\ dels' = [d \in Dests |-> {}]
  /\ problem' = FALSE

Begin ==
  /\ pc = "idle" /\ runs < Scenario.maxRuns
  /\ pc' = "scan" /\ runs' = runs + 1 /\ result' = "none"
  /\ steady' = TRUE /\ hurt' = {} /\ faulted' = FALSE
  /\ UNCHANGED <<scenario, device, disk, run, changes, atScan, fixable, intact>>

(* What the walk reports when the directories of hidden are refused: they  *)
(* are listed, what is in them is not.                                     *)
Visible(hidden) ==
  {p \in DOMAIN device : ~ \E h \in hidden : Below(h, p)}

(* Without -r "only the top level is considered". *)
TopLevel(tree) ==
  [p \in {p \in DOMAIN tree : Len(p) = 1 /\ ~IsKind(tree, p, "dir")} |-> tree[p]]

(* scan_local does not follow links, and a time before 1970 reads as 0. *)
AsRead(tree) == [p \in DOMAIN tree |-> [tree[p] EXCEPT !.mtime = Max({@, 0})]]
LocalScan(tree) == [p \in {p \in DOMAIN tree : ~ThroughLink(tree, p)} |-> AsRead(tree)[p]]

(* Nothing that the plan needs is in the way of it. *)
Repairable(remote, local) ==
  /\ \A p \in Directories(Opts, remote) : ~Blocked(local, p)
  /\ \A p \in Selected(Opts, remote) :
       ~Blocked(local, Parent(p)) /\ ~IsKind(local, p, "dir") /\ ~IsDir(local, TempOf(p))
  /\ \A p \in Extraneous(Opts, remote, LocalScan(local)) :
       /\ local[p] # LinkNode("dir")
       /\ \A q \in DOMAIN local : Below(p, q) =>
            q \in Extraneous(Opts, remote, local) /\ ~Dangling(local[q])

ScanAndPlan ==
  /\ pc = "scan"
  /\ \E hidden \in IF Scenario.mayDeny
                   THEN SUBSET {p \in DOMAIN device : IsKind(device, p, "dir")}
                   ELSE {{}} :
       LET listed == [p \in Visible(hidden) |-> device[p]]
           remote == IF Opts.recursive THEN listed ELSE TopLevel(listed)
       IN  /\ seen' = remote /\ atScan' = remote /\ denied' = hidden
           /\ plan' = Build(Opts, remote, [d \in Dests |-> LocalScan(disk[d])])
           /\ fixable' = \A d \in Dests : Repairable(remote, disk[d])
  /\ pc' = "planned"
  /\ UNCHANGED <<scenario, device, disk, toPrepare, unprepared, left, dels, problem,
                 result, runs, changes, steady, hurt, faulted, intact>>

(* The walk, a local scan or the checksum comparison fails: the run ends. *)
ScanFails ==
  /\ pc = "scan" /\ Finish("failed")
  /\ faulted' = TRUE
  /\ UNCHANGED <<device, disk, runs, changes, atScan, steady, hurt, fixable>>

Rest == <<atScan, steady, hurt, faulted, fixable>>

(* When all is done, write_perf_report may fail, and the run with it. *)
FinishReporting(how) ==
  /\ \/ Finish(how) /\ UNCHANGED faulted
     \/ Opts.report /\ Finish("unreported") /\ faulted' = TRUE
  /\ UNCHANGED <<atScan, steady, hurt, fixable>>

(* --dry-run, or nothing to do. *)
PlanOnly ==
  /\ pc = "planned" /\ (Opts.dryRun \/ IsEmptyPlan(plan))
  /\ FinishReporting(IF Opts.dryRun THEN "dry" ELSE "ok")
  /\ UNCHANGED <<device, disk, runs, changes>>

StartWork ==
  /\ pc = "planned" /\ ~Opts.dryRun /\ ~IsEmptyPlan(plan)
  /\ pc' = "prepare" /\ toPrepare' = Dests
  /\ left' = plan.transfers /\ dels' = plan.deletions
  /\ UNCHANGED <<scenario, device, disk, seen, denied, plan, unprepared, problem, result,
                 runs, changes, history>>

(* prepare_dest: the directories one after the other, up to the first that *)
(* cannot be made, because of what is in the way or otherwise.             *)
PrepareDest ==
  LET d   == Min(toPrepare)
      bad == {p \in plan.dirs : Blocked(disk[d], p)}
  IN
  /\ pc = "prepare" /\ toPrepare # {}
  /\ toPrepare' = toPrepare \ {d}
  /\ \/ /\ bad = {}
        /\ disk' = [disk EXCEPT ![d] = MakeDirs(disk[d], plan.dirs)]
        /\ UNCHANGED <<unprepared, hurt, faulted>>
     \/ /\ unprepared' = unprepared \union {d} /\ hurt' = hurt \union {d}
        /\ faulted' = (faulted \/ bad = {})
        /\ \E made \in SUBSET (plan.dirs \ bad) :
             disk' = [disk EXCEPT ![d] = MakeDirs(disk[d], made)]
  /\ UNCHANGED <<scenario, device, pc, seen, denied, plan, left, dels, problem, result,
                 runs, changes, atScan, steady, fixable, intact>>

Prepared ==
  /\ pc = "prepare" /\ toPrepare = {}
  /\ IF unprepared = Dests
     THEN Finish("failed")
     ELSE pc' = "fetch" /\ UNCHANGED <<scenario, run, result, intact>>
  /\ UNCHANGED <<device, disk, runs, changes, Rest>>

-----------------------------------------------------------------------------
(* The transfers, in any order.                                            *)

Targets(p) == plan.targets[p] \ unprepared
Content(p, mtime) == [device[p] EXCEPT !.mtime = mtime]
Mtime(p) == IF Opts.preserveMtime THEN plan.mtime[p] ELSE Now

RemainingSame(p) == left         \* mutant: the file stays in the queue
Remaining(p) == left \ {p}

Opened(p) == {d \in Targets(p) : ~Blocked(disk[d], Parent(p)) /\ ~IsDir(disk[d], TempOf(p))}
Placeable(p) ==
  IF IsKind(device, p, "file") THEN {d \in Opened(p) : ~IsKind(disk[d], p, "dir")}
  ELSE {}

(* A destination that opened a temporary file has the parent directories,  *)
(* and at the end no temporary file, not even one that a crash had left.   *)
(* The new file is there in good, and in late with the time of its writing.*)
Opening(p, d) == Without(MakeDirs(disk[d], {Parent(p)} \ {<<>>}), {TempOf(p)})
FetchedNoParents(p, d, good, late) ==  \* mutant: relies on create_dirs
  LET base == Without(disk[d], {TempOf(p)})
  IN  IF d \in good THEN Place(base, p, Content(p, Mtime(p)))
      ELSE IF d \in late THEN Place(base, p, Content(p, Now)) ELSE base
Fetched(p, d, good, late) ==
  LET base == Opening(p, d)
  IN  IF d \in good THEN Place(base, p, Content(p, Mtime(p)))
      ELSE IF d \in late THEN Place(base, p, Content(p, Now)) ELSE base

(* Renamed, but then the time could not be set: a failure as well. *)
MayBeLate(p, good) == IF Opts.preserveMtime THEN SUBSET (Placeable(p) \ good) ELSE {{}}

FetchFile ==
  /\ pc = "fetch"
  /\ \E p \in left : \E good \in SUBSET Placeable(p) : \E late \in MayBeLate(p, good) :
       /\ left' = Remaining(p)
       /\ disk' = [d \in Dests |-> IF d \in Opened(p) THEN Fetched(p, d, good, late) ELSE disk[d]]
       /\ hurt' = hurt \union (Targets(p) \ good)
       /\ problem' = (problem \/ good # Targets(p))
       /\ faulted' = (faulted \/ good # Placeable(p))
  /\ UNCHANGED <<scenario, device, pc, seen, denied, plan, toPrepare, unprepared, dels,
                 result, runs, changes, atScan, steady, fixable, intact>>

(* No stream could be opened: the run ends, before any deletion. *)
TransferFails ==
  /\ pc = "fetch" /\ left = plan.transfers /\ left # {}
  /\ Finish("failed") /\ faulted' = TRUE
  /\ UNCHANGED <<device, disk, runs, changes, atScan, steady, hurt, fixable>>

Transferred ==
  /\ pc = "fetch" /\ left = {}
  /\ pc' = "delete"
  /\ UNCHANGED <<scenario, device, disk, run, result, runs, changes, history>>

-----------------------------------------------------------------------------
(* apply_deletions, destination by destination; a destination that could   *)
(* not be prepared is not left out.                                        *)

(* The kind is asked of what a link leads to: a dangling link counts as    *)
(* gone, one to a directory is given to remove_dir, which refuses it, one  *)
(* to a file is removed.                                                   *)
Gone(tree, p) == p \in DOMAIN tree => Dangling(tree[p])
Removable(tree, p) ==
  \/ tree[p].kind = "file" \/ tree[p] = LinkNode("file")
  \/ tree[p].kind = "dir" /\ ~ \E q \in DOMAIN tree : Below(p, q)

DeleteNext ==
  LET d == Min({e \in Dests : dels[e] # {}}) IN
  /\ pc = "delete" /\ \E e \in Dests : dels[e] # {}
  /\ \E p \in dels[d] :
       /\ \A q \in dels[d] : ~Deeper(q, p)
       /\ dels' = [dels EXCEPT ![d] = @ \ {p}]
       /\ \/ /\ Gone(disk[d], p)
             /\ UNCHANGED <<disk, problem, hurt, faulted>>
          \/ /\ ~Gone(disk[d], p) /\ Removable(disk[d], p)
             /\ disk' = [disk EXCEPT ![d] = Without(disk[d], {p})]
             /\ UNCHANGED <<problem, hurt, faulted>>
          \/ /\ ~Gone(disk[d], p)
             /\ problem' = TRUE /\ hurt' = hurt \union {d}
             /\ faulted' = (faulted \/ Removable(disk[d], p))
             /\ UNCHANGED disk
  /\ UNCHANGED <<scenario, device, pc, seen, denied, plan, toPrepare, unprepared, left,
                 result, runs, changes, atScan, steady, fixable, intact>>

ReportsNoError(bad) == ~bad      \* mutant: unprepared destinations forgotten
CleanReport(bad) == ~bad /\ unprepared = {}

End ==
  /\ pc = "delete" /\ \A d \in Dests : dels[d] = {}
  /\ FinishReporting(IF CleanReport(problem) THEN "ok" ELSE "partial")
  /\ UNCHANGED <<device, disk, runs, changes>>

-----------------------------------------------------------------------------
(* What may happen around the program.                                     *)

(* The process is killed.  In the middle of a file it leaves temporary     *)
(* files, and files renamed into place that have the time of the writing.  *)
Crash ==
  /\ pc # "idle"
  /\ Finish("crashed")
  /\ \/ UNCHANGED disk
     \/ /\ pc = "fetch"
        /\ \E p \in left : \E part \in SUBSET Opened(p) : \E late \in SUBSET (Placeable(p) \intersect part) :
             disk' = [d \in Dests |->
               IF d \in late THEN Fetched(p, d, {}, late)
               ELSE IF d \in part
               THEN Place(Opening(p, d), TempOf(p), File(0, Now, "partial"))
               ELSE disk[d]]
  /\ UNCHANGED <<device, runs, changes, Rest>>

DeviceChanges ==
  /\ changes < Scenario.maxChanges /\ changes' = changes + 1
  /\ device' \in Scenario.devices \ {device}
  /\ steady' = (steady /\ pc \in {"idle", "scan"})
  /\ intact' = FALSE
  /\ UNCHANGED <<scenario, disk, pc, run, result, runs, atScan, hurt, faulted, fixable>>

(* "a file removed by hand" (plan::build). *)
UserRemoves ==
  /\ changes < Scenario.maxChanges /\ changes' = changes + 1
  /\ pc = "idle" /\ result' = "none"
  /\ \E d \in Dests : \E p \in DOMAIN disk[d] :
       /\ IsKind(disk[d], p, "file")
       /\ disk' = [disk EXCEPT ![d] = Without(disk[d], {p})]
  /\ intact' = FALSE
  /\ UNCHANGED <<scenario, device, pc, run, runs, Rest>>

Work == \/ ScanAndPlan \/ PlanOnly \/ StartWork \/ PrepareDest \/ Prepared
        \/ FetchFile \/ Transferred \/ DeleteNext \/ End

Next == \/ Begin \/ Work \/ ScanFails \/ TransferFails \/ Crash
        \/ DeviceChanges \/ UserRemoves

(* A run goes on until it ends; nothing makes the user start the next. *)
Spec == Init /\ [][Next]_vars /\ WF_vars(Work)

-----------------------------------------------------------------------------
(* The type of the variables; in every tree, whatever a crash left, what   *)
(* is above an entry is a directory, or a link to one.                     *)
TypeOK ==
  /\ DeviceTree(device) /\ DeviceTree(seen) /\ DeviceTree(atScan)
  /\ \A d \in Dests : LocalTree(disk[d])
  /\ pc \in {"idle", "scan", "planned", "prepare", "fetch", "delete"}
  /\ toPrepare \subseteq Dests /\ unprepared \subseteq Dests /\ hurt \subseteq Dests
  /\ left \subseteq plan.transfers
  /\ problem \in BOOLEAN /\ steady \in BOOLEAN /\ faulted \in BOOLEAN
  /\ result \in {"none", "ok", "partial", "failed", "crashed", "dry", "unreported"}
  /\ runs \in 0..Scenario.maxRuns /\ changes \in 0..Scenario.maxChanges
  /\ intact \in BOOLEAN /\ fixable \in BOOLEAN

(* The copy of p is what the comparison takes for the same, by its time or *)
(* by what is read of it.  Without -t a new copy has the right content,    *)
(* but its time makes every later run without --checksum transfer it again.*)
Held(remote, local, p) ==
  \/ UpToDate(Opts, remote, local, p) \/ UpToDate(Opts, remote, AsRead(local), p)
  \/ ~Opts.preserveMtime /\ IsKind(local, p, "file")
     /\ local[p].data = remote[p].data

(* What a destination owes to a tree of the device. *)
Mirrors(remote, local) ==
  /\ \A p \in Selected(Opts, remote) : Held(remote, local, p)
  /\ \A p \in Directories(Opts, remote) : p \in DOMAIN local /\ DirLike(local[p])
  /\ Opts.delete => \A p \in DOMAIN LocalScan(local) :
       p \in Wanted(Opts, remote) \/ ~Accepts(Opts, p) \/ Dangling(local[p])

Settled == pc = "idle" /\ result \in {"ok", "partial", "unreported"} /\ steady
           /\ ~Opts.dryRun

(* "Any destination that fell behind - a run interrupted partway, a write  *)
(* that failed, a file removed by hand" is repaired by the next run        *)
(* (plan::build): whatever state it started from, and whatever happened to *)
(* the other destinations, one that had no failure of its own mirrors the  *)
(* device when the run ends, also when the report could not be written.    *)
HealthyDestMirrors ==
  Settled => \A d \in Dests \ hurt : Mirrors(atScan, disk[d])

(* The exit code is 0 only when every destination mirrors the device (main *)
(* run: "A destination that never got off the ground still has to make the *)
(* run count as a partial one").                                           *)
CleanExitMirrors ==
  Settled /\ result = "ok" => \A d \in Dests : Mirrors(atScan, disk[d])

(* A run in which nothing fails by itself ends clean, provided that no     *)
(* directory stands in the way of a file, no file in the way of a          *)
(* directory, and no protected entry in an extraneous directory.           *)
Undisturbed == pc = "idle" /\ result \in {"ok", "partial", "failed"}
               /\ steady /\ ~faulted
RepairableIsRepaired == Undisturbed /\ fixable => result = "ok"

(* A step of the program removes from a destination nothing but temporary  *)
(* files and, with --delete, what the filter accepts and the scan did not  *)
(* find; in particular no path the scan found, not even one that is too    *)
(* large or too small to be transferred.  What is seen through a link that *)
(* a file replaces is still where the link led.                            *)
RemovesOnlyExtraneous ==
  [][pc # "idle" =>
     \A d \in Dests : \A p \in DOMAIN disk[d] \ DOMAIN disk'[d] :
       \/ \E q \in DOMAIN seen : p = TempOf(q)
       \/ ThroughLink(disk[d], p)
       \/ Opts.delete /\ p \notin DOMAIN seen /\ Accepts(Opts, p)]_vars

(* The quick check of one run recognises what another wrote: after a run   *)
(* that exited 0, and with no change since, a run finds nothing to read,   *)
(* except what lies behind a link to a directory, where scan_local does    *)
(* not look, and what is older than 1970, whose time it cannot read, and   *)
(* nothing to delete but dangling links.                                   *)
NothingTwice ==
  pc = "planned" /\ intact /\ (Opts.preserveMtime \/ Opts.checksum) =>
    /\ \A p \in plan.transfers :
         \/ \E d \in Dests : ThroughLink(disk[d], p)
         \/ ~Opts.checksum /\ plan.mtime[p] < -Opts.tolerance
    /\ \A d \in Dests : \A p \in plan.deletions[d] : Dangling(disk[d][p])

(* Every run ends. *)
RunEnds == pc # "idle" ~> pc = "idle"

(* README: "Those paths are reported as skipped; a partial backup never    *)
(* reports as a clean one".                                                *)
PartialNeverClean ==
  [][pc # "idle" /\ result' = "ok" => denied = {}]_vars

=============================================================================
