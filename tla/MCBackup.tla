------------------------------- MODULE MCBackup -------------------------------
(* Small instances of Backup: a directory d that may hold a file x, and a  *)
(* file f; a junk file j, a junk directory k and a link l at the           *)
(* destinations.                                                           *)
EXTENDS Backup

ASSUME NamesApart

Lengths == [n \in STRING |-> Len(n)]
Temps == ("d" :> ".d") @@ ("f" :> ".f") @@ ("x" :> ".x") @@ ("j" :> ".j")

pd == <<"d">>  px == <<"d", "x">>  pf == <<"f">>  pj == <<"j">>
pk == <<"k">>  pkj == <<"k", "j">>  pl == <<"l">>

V1 == File(1, 5, "one")
V2 == File(2, 9, "two")
\* the size of V1, and its time within the tolerance
V3 == File(1, 6, "three")

DevTree  == (pd :> DirNode) @@ (px :> V1)
DevBoth  == (pd :> DirNode) @@ (px :> V2) @@ (pf :> V1)
DevFlat  == (pf :> V2)
\* a photo of a camera whose clock was never set
DevOld   == (pf :> File(1, -5, "one")) @@ (pj :> File(2, 0, "two"))

Empty    == <<>>
Old      == (pd :> DirNode) @@ (px :> V3) @@ (pf :> V1) @@ (pj :> V2)
Junk     == (pk :> DirNode) @@ (pkj :> V1) @@ (pf :> V2)
Conflict == (pf :> DirNode) @@ (pd :> V1)
\* a dangling link, a link to a file where the device has one, and a link to
\* a directory, where the device has one or not
Links     == (pl :> LinkNode("nothing")) @@ (pf :> LinkNode("file")) @@ (pd :> LinkNode("dir"))
LinkForFile == (pf :> LinkNode("dir")) @@ (<<"f", "x">> :> V1)
\* a copy from before 1970, whose time reads as that of the file, and a
\* directory that is in the way of a temporary file
Older     == (<<".f">> :> DirNode) @@ (pj :> File(2, -9, "three"))
LinksInto == (pk :> DirNode) @@ (pkj :> LinkNode("file")) @@ (pl :> LinkNode("dir"))

Pair(a, b) == (0 :> a) @@ (1 :> b)

Plain == [includes |-> {}, excludes |-> {}, delete |-> TRUE, checksum |-> FALSE, tolerance |-> 1,
          minSize |-> 0, maxSize |-> 9, recursive |-> TRUE, preserveMtime |-> TRUE,
          dryRun |-> FALSE, report |-> FALSE]

(* -a --delete, again after whatever happened to the first run. *)
Repeated == [opts |-> Plain, devices |-> {DevBoth, DevFlat},
             disks |-> {Pair(Old, Junk), Pair(Empty, Conflict), Pair(DevFlat, Old)},
             mayDeny |-> FALSE, maxRuns |-> 2, maxChanges |-> 1]

(* A directory is excluded, what is in it is not; and a file in an         *)
(* extraneous directory, but not one at the top that has the same name;    *)
(* small files are left out; directories are denied.                       *)
Filtered == [opts |-> [Plain EXCEPT !.excludes = {Bare("d"), Bare("j")},
                                    !.includes = {Anchored(pj)}, !.minSize = 2],
             devices |-> {DevTree, DevBoth, DevFlat},
             disks |-> {Pair(Old, Junk), Pair(Junk, Links), Pair(Links, Old)},
             mayDeny |-> TRUE, maxRuns |-> 1, maxChanges |-> 0]
Shallow == [Filtered EXCEPT !.opts.recursive = FALSE]

(* -rc --delete without -t; and -r alone, which also leaves times alone. *)
Contents == [opts |-> [Plain EXCEPT !.checksum = TRUE, !.preserveMtime = FALSE],
             devices |-> {DevBoth, DevFlat}, disks |-> {Pair(Old, Junk)},
             mayDeny |-> FALSE, maxRuns |-> 2, maxChanges |-> 1]
Additive == [Contents EXCEPT !.opts.checksum = FALSE, !.opts.delete = FALSE]

(* Links at the destinations, with a performance report; and a dry run. *)
Linked == [opts |-> [Plain EXCEPT !.report = TRUE], devices |-> {DevBoth, DevFlat},
           disks |-> {Pair(Links, LinksInto)},
           mayDeny |-> FALSE, maxRuns |-> 2, maxChanges |-> 0]
Dry == [Linked EXCEPT !.opts.dryRun = TRUE]

(* Files from before 1970, and a link to a directory where the device has *)
(* a file.                                                                 *)
Ancient == [Linked EXCEPT !.opts.excludes = {Bare("x")}, !.devices = {DevOld},
                          !.disks = {Pair(Older, LinkForFile)}]

AllScenarios ==
  ("repeated" :> Repeated) @@ ("filtered" :> Filtered) @@ ("shallow" :> Shallow) @@
  ("contents" :> Contents) @@ ("additive" :> Additive) @@ ("linked" :> Linked) @@
  ("dry" :> Dry) @@ ("ancient" :> Ancient)

DeniedOnly ==
  "denied" :> [Filtered EXCEPT !.opts = Plain, !.devices = {DevBoth}, !.disks = {Pair(Old, Old)}]
=============================================================================
