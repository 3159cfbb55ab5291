------------------------------- MODULE Planner -------------------------------
(***************************************************************************)
(* The planner of adbrsync-core (plan.rs): which directories to make,      *)
(* which files to read for which destinations, and what to delete.         *)
(*                                                                         *)
(* A path is the sequence of its components, a tree a function from paths  *)
(* to nodes, without the root itself (both scans leave it out).            *)
(***************************************************************************)
EXTENDS Integers, Sequences, FiniteSets, SequencesExt, FiniteSetsExt, TLC

CONSTANTS
  Dests,      \* indices of the destinations
  NameLen     \* the length of a component, for the deletion order

ASSUME PlannerAssumption == Dests \subseteq Nat /\ IsFiniteSet(Dests) /\ Dests # {}

(* PlanOptions and the filter, given to the operators as o:                *)
(*   includes, excludes: the patterns of the filter                        *)
(*   delete, checksum: --delete, --checksum                                *)
(*   tolerance: mtime_tolerance                                            *)
(*   minSize, maxSize: the bounds on sizes, 0 and a large number for none  *)
Patterns(paths) == SUBSET [anchored : BOOLEAN, path : paths]
PlanOptions(paths) ==
  [includes : Patterns(paths), excludes : Patterns(paths), delete : BOOLEAN, checksum : BOOLEAN,
   tolerance : Nat, minSize : Nat, maxSize : Nat]

File(size, mtime, data) ==
  [kind |-> "file", size |-> size, mtime |-> mtime, data |-> data]
DirNode  == [kind |-> "dir", size |-> 0, mtime |-> 0, data |-> "none"]
\* a symbolic link; to is what metadata finds: "dir", "file", or "nothing"
LinkNode(to) == [kind |-> "link", size |-> 0, mtime |-> 0, data |-> to]

IsKind(tree, p, kind) == p \in DOMAIN tree /\ tree[p].kind = kind

(* The number of bytes of "a/b/c". *)
RelLen(p) == Len(p) - 1 + SumFunction([k \in 1..Len(p) |-> NameLen[p[k]]])

-----------------------------------------------------------------------------
(* Filter.  A bare name matches at any depth, a pattern with a slash the   *)
(* whole relative path: excluding a directory does not exclude what is in  *)
(* it.  "An include match always wins."  Wildcards are left out.           *)
Anchored(p) == [anchored |-> TRUE, path |-> p]
Bare(name) == [anchored |-> FALSE, path |-> <<name>>]
Matches(pattern, p) ==
  IF pattern.anchored THEN p = pattern.path ELSE Last(p) = Last(pattern.path)
Accepts(o, p) ==
  \/ \E pattern \in o.includes : Matches(pattern, p)
  \/ ~ \E pattern \in o.excludes : Matches(pattern, p)

Wanted(o, remote) == {p \in DOMAIN remote : Accepts(o, p)}

(* A file outside the size bounds is not transferred, but it is wanted, so *)
(* a copy of it is not deleted.                                            *)
SizeAccepted(o, node) == node.size >= o.minSize /\ node.size <= o.maxSize
Selected(o, remote) == {p \in Wanted(o, remote) : IsKind(remote, p, "file")
                                                  /\ SizeAccepted(o, remote[p])}
Directories(o, remote) == {p \in Wanted(o, remote) : IsKind(remote, p, "dir")}

Abs(n) == IF n < 0 THEN -n ELSE n
QuickCheck(o, r, l) == l.size = r.size /\ Abs(l.mtime - r.mtime) <= o.tolerance

UpToDateTimes(o, remote, local, p) ==  \* mutant: the time counts in any mode
  /\ IsKind(local, p, "file") /\ QuickCheck(o, remote[p], local[p])
  /\ o.checksum => local[p].data = remote[p].data

(* classify: TRUE when the local copy needs no transfer.  With checksums,  *)
(* content is the only authority.                                          *)
UpToDate(o, remote, local, p) ==
  /\ IsKind(local, p, "file")
  /\ IF o.checksum THEN local[p].data = remote[p].data
                   ELSE QuickCheck(o, remote[p], local[p])

TargetsFirst(o, remote, locals, p) ==  \* mutant: compared with the first only
  IF UpToDate(o, remote, locals[Min(Dests)], p) THEN {} ELSE Dests
TargetsOf(o, remote, locals, p) == {d \in Dests : ~UpToDate(o, remote, locals[d], p)}

ExtraneousUnselected(o, remote, local) ==  \* mutant: size bounds decide deletion
  {p \in DOMAIN local : /\ p \notin Selected(o, remote) \union Directories(o, remote)
                        /\ Accepts(o, p)}
Extraneous(o, remote, local) ==
  {p \in DOMAIN local : p \notin Wanted(o, remote) /\ Accepts(o, p)}

Shallower(p, q) == RelLen(p) < RelLen(q)      \* mutant: parents first
Deeper(p, q) == RelLen(p) > RelLen(q)
Deletions(o, remote, local) == IF o.delete THEN Extraneous(o, remote, local) ELSE {}

(* The plan.  The files are sorted by size, which only matters for speed,  *)
(* the directories by name, which only decides what is there when one of   *)
(* them cannot be made: both are sets here.  So are the deletions, of      *)
(* which a deepest is the next; of those as deep the scan found one first. *)
(* mtime is the scan's.                                                    *)
Build(o, remote, locals) ==
  [ dirs      |-> Directories(o, remote),
    transfers |-> {p \in Selected(o, remote) : TargetsOf(o, remote, locals, p) # {}},
    targets   |-> [p \in Selected(o, remote) |-> TargetsOf(o, remote, locals, p)],
    mtime     |-> [p \in Selected(o, remote) |-> remote[p].mtime],
    deletions |-> [d \in Dests |-> Deletions(o, remote, locals[d])] ]

IsEmptyPlan(plan) ==
  /\ plan.transfers = {} /\ plan.dirs = {}
  /\ \A d \in Dests : plan.deletions[d] = {}

NoPlan == [dirs |-> {}, transfers |-> {}, targets |-> <<>>, mtime |-> <<>>,
           deletions |-> [d \in Dests |-> {}]]
=============================================================================
