----------------------------- MODULE BackupProof -----------------------------
(***************************************************************************)
(* Proofs about Backup: for every phone, every state of the destinations   *)
(* and every set of options, after any sequence of runs, crashes, faults   *)
(* and changes.  Sound is what every state has: the plan is one for what   *)
(* was scanned, and every tree is one a file system can hold.  The         *)
(* statements about mirrors need more, Accounted and Healthy: while the    *)
(* program works, every selected file of a destination without a failure   *)
(* is either held there or still in the plan, with the directories it      *)
(* needs.  They hold where NamesApart does, since a device file with the   *)
(* name of another's temporary file may be renamed away.  What the file    *)
(* system operations do to a tree is stated once, as Becomes; each action  *)
(* is one such step of a destination.  That nothing is in the way of what  *)
(* a plan has still to do, as long as nothing fails by itself, is Clear;   *)
(* its proof needs that names have lengths, NamesMeasured, since deletions *)
(* are made deepest first.                                                 *)
(***************************************************************************)
EXTENDS Backup, FoldLemmas

Path == Seq(STRING) \ {<<>>}

(* Paths that agree at every position are the same.                        *)
LEMMA SamePath ==
  ASSUME NEW p \in Seq(STRING), NEW q \in Seq(STRING), Len(p) = Len(q),
         \A i \in 1..Len(p) : p[i] = q[i]
  PROVE  p = q
BY SeqEqual

(* The first components of a path.                                         *)
LEMMA Prefix ==
  ASSUME NEW p \in Seq(STRING), NEW k \in 0..Len(p)
  PROVE  /\ SubSeq(p, 1, k) \in Seq(STRING) /\ Len(SubSeq(p, 1, k)) = k
         /\ \A i \in 1..k : SubSeq(p, 1, k)[i] = p[i]
OBVIOUS

(* All components of a path make up the path.                              *)
LEMMA WholePath ==
  ASSUME NEW p \in Seq(STRING)
  PROVE  SubSeq(p, 1, Len(p)) = p
<1> DEFINE q == SubSeq(p, 1, Len(p))
<1>1. Len(p) \in 0..Len(p)
  OBVIOUS
<1>2. q \in Seq(STRING) /\ Len(q) = Len(p) /\ \A i \in 1..Len(p) : q[i] = p[i]
  BY <1>1, Prefix
<1> HIDE DEF q
<1>3. q = p
  BY <1>2, SamePath
<1> QED
  BY <1>3 DEF q

(* Below, position by position.                                            *)
LEMMA BelowIs ==
  ASSUME NEW p \in Seq(STRING), NEW q \in Seq(STRING)
  PROVE  Below(p, q) <=> Len(p) < Len(q) /\ \A i \in 1..Len(p) : q[i] = p[i]
<1>1. ASSUME Len(q) > Len(p)
      PROVE  /\ SubSeq(q, 1, Len(p)) \in Seq(STRING) /\ Len(SubSeq(q, 1, Len(p))) = Len(p)
             /\ \A i \in 1..Len(p) : SubSeq(q, 1, Len(p))[i] = q[i]
  BY <1>1
<1>2. ASSUME Len(q) > Len(p), \A i \in 1..Len(p) : q[i] = p[i]
      PROVE  SubSeq(q, 1, Len(p)) = p
  BY <1>1, <1>2, SeqEqual
<1> QED
  BY <1>1, <1>2 DEF Below

(* What is below an entry is below what that one is below.                 *)
LEMMA BelowTransitive ==
  ASSUME NEW p \in Seq(STRING), NEW q \in Seq(STRING), NEW r \in Seq(STRING),
         Below(p, q), Below(q, r)
  PROVE  Below(p, r)
BY BelowIs

(* The entries above a third are above one another.                        *)
LEMMA BelowChain ==
  ASSUME NEW p \in Seq(STRING), NEW q \in Seq(STRING), NEW r \in Seq(STRING),
         Below(p, r), Below(q, r)
  PROVE  p = q \/ Below(p, q) \/ Below(q, p)
<1>1. CASE Len(p) = Len(q)
  BY <1>1, BelowIs, SeqEqual
<1>2. CASE Len(p) < Len(q)
  BY <1>2, BelowIs
<1>3. CASE Len(q) < Len(p)
  BY <1>3, BelowIs
<1> QED
  BY <1>1, <1>2, <1>3

(* Nothing is below itself.                                                *)
LEMMA BelowNotSelf ==
  ASSUME NEW p \in Seq(STRING), NEW q \in Seq(STRING), Below(p, q)
  PROVE  p # q /\ ~Below(q, p)
BY BelowIs

(* The ancestors of a path are the path and what it is below.              *)
LEMMA AncestorsAre ==
  ASSUME NEW p \in Path
  PROVE  Ancestors(p) = {q \in Path : q = p \/ Below(q, p)}
<1>1. p \in Seq(STRING) /\ Len(p) \in Nat /\ Len(p) >= 1
  BY DEF Path
<1>2. ASSUME NEW k \in 1..Len(p)
      PROVE  /\ SubSeq(p, 1, k) \in Path
             /\ SubSeq(p, 1, k) = p \/ Below(SubSeq(p, 1, k), p)
  <2> DEFINE q == SubSeq(p, 1, k)
  <2>1. q \in Seq(STRING) /\ Len(q) = k /\ \A i \in 1..k : q[i] = p[i]
    BY <1>1, Prefix
  <2> HIDE DEF q
  <2>2. q # <<>>
    BY <1>1, <2>1
  <2>3. CASE k = Len(p)
    BY <1>1, <2>3, WholePath DEF q
  <2>4. CASE k < Len(p)
    <3>1. Len(q) < Len(p) /\ \A i \in 1..Len(q) : p[i] = q[i]
      BY <2>1, <2>4
    <3>2. Below(q, p)
      BY <1>1, <2>1, <3>1, BelowIs
    <3> QED
      BY <1>1, <2>1, <2>2, <3>2 DEF q, Path
  <2> QED
    BY <1>1, <2>1, <2>2, <2>3, <2>4 DEF q, Path
<1>3. ASSUME NEW q \in Path, q = p \/ Below(q, p)
      PROVE  \E k \in 1..Len(p) : q = SubSeq(p, 1, k)
  <2>1. CASE q = p
    <3>1. SubSeq(p, 1, Len(p)) = p
      BY <1>1, WholePath
    <3>2. Len(p) \in 1..Len(p)
      BY <1>1
    <3> QED
      BY <2>1, <3>1, <3>2
  <2>2. CASE Below(q, p)
    <3>1. Len(q) \in 1..Len(p)
      BY <1>1, <2>2 DEF Below, Path
    <3> QED
      BY <2>2, <3>1 DEF Below
  <2> QED
    BY <1>3, <2>1, <2>2
<1> QED
  BY <1>2, <1>3 DEF Ancestors

(* What a path is below is its parent, or above its parent.                *)
LEMMA ParentIs ==
  ASSUME NEW p \in Path
  PROVE  /\ Parent(p) \in Seq(STRING) /\ Len(Parent(p)) = Len(p) - 1
         /\ \A i \in 1..Len(p) - 1 : Parent(p)[i] = p[i]
         /\ \A q \in Path : Below(q, p) <=> q = Parent(p) \/ Below(q, Parent(p))
         /\ Parent(p) # <<>> => Below(Parent(p), p)
<1>1. p \in Seq(STRING) /\ Len(p) \in Nat /\ Len(p) >= 1
  BY DEF Path
<1>2. /\ Parent(p) \in Seq(STRING) /\ Len(Parent(p)) = Len(p) - 1
      /\ \A i \in 1..Len(p) - 1 : Parent(p)[i] = p[i]
  <2>1. Parent(p) = SubSeq(p, 1, Len(p) - 1) /\ Len(p) - 1 \in 0..Len(p)
    BY <1>1 DEF Parent, Front
  <2> QED
    BY <1>1, <2>1, Prefix
<1> DEFINE r == Parent(p)
<1> HIDE DEF r
<1>3. ASSUME NEW q \in Path
      PROVE  Below(q, p) <=> q = r \/ Below(q, r)
  <2>1. q \in Seq(STRING) /\ Len(q) \in Nat /\ Len(q) >= 1
    BY DEF Path
  <2>2. r \in Seq(STRING) /\ Len(r) = Len(p) - 1 /\ \A i \in 1..Len(p) - 1 : r[i] = p[i]
    BY <1>2 DEF r
  <2>3. ASSUME Below(q, p), Len(q) = Len(r)
        PROVE  q = r
    BY <1>1, <2>1, <2>2, <2>3, BelowIs, SeqEqual
  <2>4. ASSUME Below(q, p), Len(q) # Len(r)
        PROVE  Below(q, r)
    <3>1. Len(q) < Len(p) /\ \A i \in 1..Len(q) : p[i] = q[i]
      BY <1>1, <2>1, <2>4, BelowIs
    <3>2. Len(q) < Len(r) /\ \A i \in 1..Len(q) : r[i] = q[i]
      BY <1>1, <2>1, <2>2, <2>4, <3>1
    <3> QED
      BY <2>1, <2>2, <3>2, BelowIs
  <2>5. ASSUME q = r \/ Below(q, r)
        PROVE  Below(q, p)
    BY <1>1, <2>1, <2>2, <2>5, BelowIs
  <2> QED
    BY <2>3, <2>4, <2>5
<1>4. r # <<>> => Below(r, p)
  BY <1>1, <1>2, BelowIs DEF r
<1> QED
  BY <1>2, <1>3, <1>4 DEF r

(* A temporary file is beside its file, in the same directory.             *)
LEMMA TempIs ==
  ASSUME NEW p \in Path, TempName[Last(p)] \in STRING
  PROVE  /\ TempOf(p) \in Path /\ Len(TempOf(p)) = Len(p)
         /\ ~Below(p, TempOf(p)) /\ ~Below(TempOf(p), p)
         /\ \A q \in Path : Below(q, TempOf(p)) <=> Below(q, p)
<1>1. p \in Seq(STRING) /\ Len(p) \in Nat /\ Len(p) >= 1
  BY DEF Path
<1> DEFINE f == Front(p)
           t == Append(f, TempName[Last(p)])
<1>2. f \in Seq(STRING) /\ Len(f) = Len(p) - 1 /\ \A i \in 1..Len(p) - 1 : f[i] = p[i]
  BY <1>1 DEF Front
<1> HIDE DEF f
<1>3. t \in Seq(STRING) /\ Len(t) = Len(p) /\ \A i \in 1..Len(p) - 1 : t[i] = p[i]
  BY <1>1, <1>2
<1> HIDE DEF t
<1>4. t # <<>>
  BY <1>1, <1>3
<1>5. ASSUME NEW q \in Path
      PROVE  Below(q, t) <=> Below(q, p)
  <2>1. q \in Seq(STRING) /\ Len(q) \in Nat /\ Len(q) >= 1
    BY DEF Path
  <2>2. \A i \in 1..Len(q) : Len(q) < Len(p) => t[i] = p[i]
    BY <1>1, <1>3, <2>1
  <2>3. Below(q, t) <=> Len(q) < Len(t) /\ \A i \in 1..Len(q) : t[i] = q[i]
    BY <1>3, <2>1, BelowIs
  <2>4. Below(q, p) <=> Len(q) < Len(p) /\ \A i \in 1..Len(q) : p[i] = q[i]
    BY <1>1, <2>1, BelowIs
  <2> QED
    BY <1>3, <2>2, <2>3, <2>4
<1>6. ~Below(p, t) /\ ~Below(t, p)
  BY <1>1, <1>3, BelowIs
<1> QED
  BY <1>3, <1>4, <1>5, <1>6 DEF t, f, TempOf, Path

-----------------------------------------------------------------------------
(* Trees, and how they change.                                             *)
LEMMA LocalTreeIs ==
  ASSUME NEW t
  PROVE  LocalTree(t) <=> /\ t \in [DOMAIN t -> Node] /\ DOMAIN t \subseteq Path
                          /\ \A p \in DOMAIN t, q \in Path : Below(q, p) => IsDir(t, q)
<1>1. ASSUME DOMAIN t \subseteq Path, NEW p \in DOMAIN t
      PROVE  Ancestors(p) \ {p} = {q \in Path : Below(q, p)}
  <2>1. \A q \in Path : Below(q, p) => q # p
    BY <1>1, BelowNotSelf DEF Path
  <2> QED
    BY <1>1, <2>1, AncestorsAre
<1> QED
  BY <1>1 DEF LocalTree, Tree, Path

(* The trees of the device, said with Below.                               *)
LEMMA DeviceTreeIs ==
  ASSUME NEW t
  PROVE  DeviceTree(t) <=> /\ t \in [DOMAIN t -> Node] /\ DOMAIN t \subseteq Path
                           /\ \A p \in DOMAIN t, q \in Path : Below(q, p) => IsKind(t, q, "dir")
<1>1. ASSUME DOMAIN t \subseteq Path, NEW p \in DOMAIN t
      PROVE  Ancestors(p) \ {p} = {q \in Path : Below(q, p)}
  <2>1. \A q \in Path : Below(q, p) => q # p
    BY <1>1, BelowNotSelf DEF Path
  <2> QED
    BY <1>1, <2>1, AncestorsAre
<1> QED
  BY <1>1 DEF DeviceTree, Tree, Path

(* How the program changes a tree: what it placed, which directories it    *)
(* made that were not there, and what is gone.  Nothing that was seen      *)
(* through a link is seen otherwise.                                       *)
Becomes(t, m, placed, made, gone) ==
  /\ LocalTree(m)
  /\ \A q \in DOMAIN m : \/ q \in placed
                         \/ q \in made /\ q \notin DOMAIN t /\ m[q] = DirNode
                         \/ q \in DOMAIN t /\ m[q] = t[q]
  /\ \A q \in DOMAIN t : q \in DOMAIN m \/ q \in gone
  /\ \A q \in DOMAIN t \intersect DOMAIN m :
       q \notin placed /\ ThroughLink(t, q) => ThroughLink(m, q)

AtOrAbove(paths) == {q \in Path : \E p \in paths : q = p \/ Below(q, p)}
Above(p) == {q \in Path : Below(q, p)}
Under(p) == {q \in Path : Below(p, q)}

(* Two changes of a tree, one after the other.                             *)
LEMMA BecomesThen ==
  ASSUME NEW t, NEW m, NEW n, NEW placed, NEW also, NEW made, NEW gone, NEW too,
         Becomes(t, m, placed, made, gone), Becomes(m, n, also, {}, too)
  PROVE  Becomes(t, n, placed \union also, made, gone \union too)
<1>1. LocalTree(n)
  BY DEF Becomes
<1>2. ASSUME NEW q \in DOMAIN n
      PROVE  \/ q \in placed \union also
             \/ q \in made /\ q \notin DOMAIN t /\ n[q] = DirNode
             \/ q \in DOMAIN t /\ n[q] = t[q]
  BY DEF Becomes
<1>3. \A q \in DOMAIN t : q \in DOMAIN n \/ q \in gone \union too
  BY DEF Becomes
<1>4. ASSUME NEW q \in DOMAIN t \intersect DOMAIN n, q \notin placed \union also, ThroughLink(t, q)
      PROVE  ThroughLink(n, q)
  <2>1. q \in DOMAIN m
    BY <1>4 DEF Becomes
  <2> QED
    BY <1>4, <2>1 DEF Becomes
<1> QED
  BY <1>1, <1>2, <1>3, <1>4 DEF Becomes

(* What is there when directories have been made.                          *)
LEMMA MakeDirsIs ==
  ASSUME NEW t, NEW paths \in SUBSET Path
  PROVE  /\ DOMAIN MakeDirs(t, paths) = DOMAIN t \union AtOrAbove(paths)
         /\ MakeDirs(t, paths) = [q \in DOMAIN t \union AtOrAbove(paths) |->
                                    IF q \in DOMAIN t THEN t[q] ELSE DirNode]
<1> DEFINE B == UNION {Ancestors(p) : p \in paths}
<1>1. B = AtOrAbove(paths)
  BY AncestorsAre DEF AtOrAbove
<1> HIDE DEF B
<1> QED
  BY <1>1 DEF MakeDirs, With, B

(* What is in the way of a directory, or of the parent of a file.          *)
LEMMA BlockedIs ==
  ASSUME NEW t, NEW p \in Path
  PROVE  /\ Blocked(t, p) <=> \E q \in Path : (q = p \/ Below(q, p)) /\ q \in DOMAIN t /\ ~DirLike(t[q])
         /\ Blocked(t, Parent(p)) <=> \E q \in Path : Below(q, p) /\ q \in DOMAIN t /\ ~DirLike(t[q])
<1>1. Blocked(t, p) <=> \E q \in Path : (q = p \/ Below(q, p)) /\ q \in DOMAIN t /\ ~DirLike(t[q])
  BY AncestorsAre DEF Blocked
<1>2. CASE Parent(p) = <<>>
  <2>1. \A q \in Path : ~Below(q, p)
    <3> SUFFICES ASSUME NEW q \in Path, Below(q, p) PROVE FALSE
      OBVIOUS
    <3>1. Below(q, Parent(p))
      BY <1>2, ParentIs DEF Path
    <3>2. Len(Parent(p)) > Len(q) /\ Len(Parent(p)) = 0 /\ Len(q) \in Nat
      BY <1>2, <3>1 DEF Below, Path
    <3> QED
      BY <3>2
  <2>2. Ancestors(Parent(p)) = {}
    BY <1>2 DEF Ancestors
  <2> QED
    BY <1>1, <2>1, <2>2 DEF Blocked
<1>3. CASE Parent(p) # <<>>
  <2>1. Parent(p) \in Path
    BY <1>3, ParentIs DEF Path
  <2>2. Ancestors(Parent(p)) = {q \in Path : q = Parent(p) \/ Below(q, Parent(p))}
    BY <2>1, AncestorsAre
  <2>3. Ancestors(Parent(p)) = {q \in Path : Below(q, p)}
    BY <2>2, ParentIs
  <2> QED
    BY <1>1, <2>3 DEF Blocked
<1> QED
  BY <1>2, <1>3

(* A directory is one.                                                     *)
LEMMA DirNodeIs == DirNode \in Node /\ DirLike(DirNode) /\ DirNode.kind = "dir"
<1>1. DirNode.kind = "dir"
  BY DEF DirNode
<1>2. DirNode \in Node
  <2>1. 0 \in Nat /\ 0 \in Int /\ "none" \in STRING /\ "dir" \in {"file", "dir", "link"}
    BY BackupAssumption
  <2> QED
    BY <2>1, <1>1, SMT DEF DirNode, Node
<1> QED
  BY <1>1, <1>2 DEF DirLike

(* create_dir_all, of directories that nothing is in the way of.           *)
LEMMA MakeDirsBecomes ==
  ASSUME NEW t, LocalTree(t), NEW paths \in SUBSET Path, \A p \in paths : ~Blocked(t, p)
  PROVE  /\ Becomes(t, MakeDirs(t, paths), {}, AtOrAbove(paths), {})
         /\ \A q \in AtOrAbove(paths) : IsDir(MakeDirs(t, paths), q)
<1> DEFINE m == MakeDirs(t, paths)
           A == AtOrAbove(paths)
<1>1. /\ DOMAIN m = DOMAIN t \union A
      /\ m = [q \in DOMAIN t \union A |-> IF q \in DOMAIN t THEN t[q] ELSE DirNode]
  BY MakeDirsIs
<1>2. /\ t \in [DOMAIN t -> Node] /\ DOMAIN t \subseteq Path
      /\ \A p \in DOMAIN t, q \in Path : Below(q, p) => IsDir(t, q)
  BY LocalTreeIs
<1> HIDE DEF m, A
<1>3. A \subseteq Path
  BY DEF A, AtOrAbove
<1>4. ASSUME NEW q \in A
      PROVE  IsDir(m, q)
  <2>1. CASE q \in DOMAIN t
    <3>1. PICK p \in paths : q = p \/ Below(q, p)
      BY DEF A, AtOrAbove
    <3>2. DirLike(t[q])
      BY <1>3, <2>1, <3>1, BlockedIs
    <3> QED
      BY <1>1, <2>1, <3>2 DEF IsDir
  <2>2. CASE q \notin DOMAIN t
    BY <1>1, <2>2, DirNodeIs DEF IsDir
  <2> QED
    BY <2>1, <2>2
<1>5. m \in [DOMAIN m -> Node]
  BY <1>1, <1>2, DirNodeIs
<1>6. ASSUME NEW p \in DOMAIN m, NEW q \in Path, Below(q, p)
      PROVE  IsDir(m, q)
  <2>1. CASE p \in DOMAIN t
    <3>1. IsDir(t, q)
      BY <1>2, <1>6, <2>1
    <3> QED
      BY <1>1, <3>1 DEF IsDir
  <2>2. CASE p \in A
    <3>1. PICK r \in paths : p = r \/ Below(p, r)
      BY <2>2 DEF A, AtOrAbove
    <3>2. Below(q, r)
      BY <1>3, <1>6, <2>2, <3>1, BelowTransitive DEF Path
    <3>3. q \in A
      BY <3>2 DEF A, AtOrAbove
    <3> QED
      BY <1>4, <3>3
  <2> QED
    BY <1>1, <2>1, <2>2
<1>7. LocalTree(m)
  BY <1>1, <1>2, <1>3, <1>5, <1>6, LocalTreeIs
<1>8. \A q \in DOMAIN t : m[q] = t[q]
  BY <1>1
<1>9. \A q \in DOMAIN t : ThroughLink(t, q) => ThroughLink(m, q)
  BY <1>1, <1>8 DEF ThroughLink
<1>10. Becomes(t, m, {}, A, {})
  BY <1>1, <1>7, <1>9 DEF Becomes
<1> QED
  BY <1>4, <1>10 DEF m, A

(* Something leaves a tree that is not a directory.                        *)
LEMMA WithoutBecomes ==
  ASSUME NEW t, LocalTree(t), NEW p \in Path, \A q \in DOMAIN t : ~Below(p, q)
  PROVE  /\ Becomes(t, Without(t, {p}), {}, {}, {p})
         /\ p \notin DOMAIN Without(t, {p})
<1> DEFINE m == Without(t, {p})
<1>1. m = [q \in DOMAIN t \ {p} |-> t[q]] /\ DOMAIN m = DOMAIN t \ {p} /\ \A q \in DOMAIN m : m[q] = t[q]
  BY DEF Without
<1>2. /\ t \in [DOMAIN t -> Node] /\ DOMAIN t \subseteq Path
      /\ \A r \in DOMAIN t, q \in Path : Below(q, r) => IsDir(t, q)
  BY LocalTreeIs
<1> HIDE DEF m
<1>3. m \in [DOMAIN m -> Node]
  BY <1>1, <1>2
<1>4. ASSUME NEW r \in DOMAIN m, NEW q \in Path, Below(q, r)
      PROVE  IsDir(m, q)
  BY <1>1, <1>2, <1>4 DEF IsDir
<1>5. LocalTree(m)
  BY <1>1, <1>2, <1>3, <1>4, LocalTreeIs
<1>6. ASSUME NEW q \in DOMAIN t \intersect DOMAIN m, ThroughLink(t, q)
      PROVE  ThroughLink(m, q)
  <2>1. PICK r \in DOMAIN t : Below(r, q) /\ t[r].kind = "link"
    BY <1>6 DEF ThroughLink
  <2>2. r \in DOMAIN m
    BY <1>1, <2>1
  <2> QED
    BY <1>1, <2>1, <2>2 DEF ThroughLink
<1>7. Becomes(t, m, {}, {}, {p})
  BY <1>1, <1>5, <1>6 DEF Becomes
<1> QED
  BY <1>1, <1>7 DEF m

(* rename, where the directories above are made.                           *)
LEMMA PlaceBecomes ==
  ASSUME NEW t, LocalTree(t), NEW p \in Path, NEW node \in Node,
         \A q \in Above(p) : IsDir(t, q)
  PROVE  /\ Becomes(t, Place(t, p, node), {p}, {}, Under(p))
         /\ p \in DOMAIN Place(t, p, node) /\ Place(t, p, node)[p] = node
<1> DEFINE m == Place(t, p, node)
<1>1. /\ t \in [DOMAIN t -> Node] /\ DOMAIN t \subseteq Path
      /\ \A r \in DOMAIN t, q \in Path : Below(q, r) => IsDir(t, q)
  BY LocalTreeIs
<1>2. /\ DOMAIN m = (DOMAIN t \ Under(p)) \union {p}
      /\ m = [q \in (DOMAIN t \ Under(p)) \union {p} |-> IF q = p THEN node ELSE t[q]]
  <2> DEFINE b == {q \in DOMAIN t : q = p \/ Below(p, q)}
  <2>1. DOMAIN t \ b = (DOMAIN t \ Under(p)) \ {p}
    BY <1>1 DEF Under
  <2>2. Without(t, b) = [q \in DOMAIN t \ b |-> t[q]]
    BY DEF Without
  <2> HIDE DEF b
  <2>3. m = [q \in (DOMAIN t \ b) \union {p} |->
               IF q \in DOMAIN t \ b THEN Without(t, b)[q] ELSE node]
    BY <2>2 DEF Place, With, b
  <2>4. /\ (DOMAIN t \ b) \union {p} = (DOMAIN t \ Under(p)) \union {p}
        /\ \A q \in (DOMAIN t \ b) \union {p} : q \in DOMAIN t \ b <=> q # p
    BY <2>1
  <2> HIDE DEF m
  <2> QED
    BY <2>2, <2>3, <2>4
<1> HIDE DEF m
<1>3. m \in [DOMAIN m -> Node] /\ DOMAIN m \subseteq Path
  BY <1>1, <1>2
<1>4. \A q \in DOMAIN m : q # p => q \in DOMAIN t /\ m[q] = t[q] /\ ~Below(p, q)
  BY <1>1, <1>2 DEF Under
<1>5. p \in DOMAIN m /\ m[p] = node
  BY <1>2
<1>6. ~Below(p, p)
  BY BelowNotSelf DEF Path
<1>7. ASSUME NEW r \in DOMAIN m, NEW q \in Path, Below(q, r)
      PROVE  IsDir(m, q)
  <2>1. CASE r = p
    <3>1. IsDir(t, q) /\ q # p /\ ~Below(p, q)
      BY <1>6, <1>7, <2>1, BelowNotSelf DEF Above, Path
    <3> QED
      BY <1>2, <3>1 DEF IsDir, Under
  <2>2. CASE r # p
    <3>1. IsDir(t, q) /\ q # p
      BY <1>1, <1>4, <1>7, <2>2
    <3>2. ~Below(p, q)
      BY <1>3, <1>4, <1>7, <2>2, BelowTransitive DEF Path
    <3> QED
      BY <1>2, <3>1, <3>2 DEF IsDir, Under
  <2> QED
    BY <2>1, <2>2
<1>8. LocalTree(m)
  BY <1>3, <1>7, LocalTreeIs
<1>9. ASSUME NEW q \in DOMAIN t \intersect DOMAIN m, q # p, ThroughLink(t, q)
      PROVE  ThroughLink(m, q)
  <2>1. PICK r \in DOMAIN t : Below(r, q) /\ t[r].kind = "link"
    BY <1>9 DEF ThroughLink
  <2>2. r # p /\ ~Below(p, r)
    BY <1>1, <1>4, <1>9, <2>1, BelowTransitive DEF Path
  <2>3. r \in DOMAIN m /\ m[r] = t[r]
    BY <1>1, <1>2, <2>1, <2>2 DEF Under
  <2> QED
    BY <2>1, <2>3 DEF ThroughLink
<1>10. \A q \in DOMAIN t : q \in DOMAIN m \/ q \in Under(p)
  BY <1>2
<1>11. Becomes(t, m, {p}, {}, Under(p))
  BY <1>4, <1>8, <1>9, <1>10 DEF Becomes
<1> QED
  BY <1>5, <1>11 DEF m

(* A temporary file is opened, and in the end it is gone.                  *)
Emptied(t, p) == Without(MakeDirs(t, {Parent(p)} \ {<<>>}), {TempOf(p)})

(* What opening a temporary file, and in the end removing it, does to a    *)
(* tree.                                                                   *)
LEMMA OpeningBecomes ==
  ASSUME NEW t, LocalTree(t), NEW p \in Path, TempName[Last(p)] \in STRING,
         ~Blocked(t, Parent(p)), ~IsDir(t, TempOf(p))
  PROVE  /\ Becomes(t, Emptied(t, p), {}, Above(p), {TempOf(p)})
         /\ \A q \in Above(p) : IsDir(Emptied(t, p), q)
         /\ TempOf(p) \notin DOMAIN Emptied(t, p)
<1> DEFINE paths == {Parent(p)} \ {<<>>}
           m == MakeDirs(t, paths)
           temp == TempOf(p)
<1>1. /\ temp \in Path /\ ~Below(p, temp) /\ ~Below(temp, p)
      /\ \A q \in Path : Below(q, temp) <=> Below(q, p)
  BY TempIs
<1>2. paths \in SUBSET Path /\ \A q \in paths : ~Blocked(t, q)
  BY ParentIs DEF Path
<1>3. AtOrAbove(paths) = Above(p)
  <2>1. CASE Parent(p) = <<>>
    <3>1. \A q \in Path : ~Below(q, Parent(p)) /\ q # <<>>
      BY <2>1 DEF Below, Path
    <3> QED
      BY <2>1, <3>1, ParentIs DEF AtOrAbove, Above
  <2>2. CASE Parent(p) # <<>>
    BY <2>2, ParentIs DEF AtOrAbove, Above
  <2> QED
    BY <2>1, <2>2
<1> HIDE DEF paths, temp
<1>4. /\ Becomes(t, m, {}, Above(p), {})
      /\ \A q \in Above(p) : IsDir(m, q)
  BY <1>2, <1>3, MakeDirsBecomes
<1> HIDE DEF m
<1>5. ~IsDir(m, temp)
  <2>1. temp \notin Above(p)
    BY <1>1 DEF Above
  <2> QED
    BY <1>4, <2>1 DEF Becomes, IsDir, temp
<1>6. LocalTree(m)
  BY <1>4 DEF Becomes
<1>7. \A q \in DOMAIN m : ~Below(temp, q)
  BY <1>1, <1>5, <1>6, LocalTreeIs
<1>8. Becomes(m, Without(m, {temp}), {}, {}, {temp}) /\ temp \notin DOMAIN Without(m, {temp})
  BY <1>1, <1>6, <1>7, WithoutBecomes
<1>9. Becomes(t, Without(m, {temp}), {}, Above(p), {temp})
  BY <1>4, <1>8, BecomesThen
<1>10. ASSUME NEW q \in Above(p)
       PROVE  IsDir(Without(m, {temp}), q)
  <2>1. IsDir(m, q) /\ q # temp
    BY <1>1, <1>4 DEF Above
  <2> QED
    BY <2>1 DEF IsDir, Without
<1>11. Without(m, {temp}) = Emptied(t, p)
  BY DEF Emptied, m, temp, paths
<1> QED
  BY <1>8, <1>9, <1>10, <1>11 DEF temp

(* A change of a tree is one that could have placed and removed more.      *)
LEMMA BecomesMore ==
  ASSUME NEW t, NEW m, NEW placed, NEW also, NEW made, NEW gone, NEW too,
         Becomes(t, m, placed, made, gone)
  PROVE  Becomes(t, m, placed \union also, made, gone \union too)
BY DEF Becomes

(* What a file's transfer removes: its temporary file, and what was seen   *)
(* through a link that it replaces.                                        *)
Loses(t, m, p) == \A q \in DOMAIN t \ DOMAIN m : q = TempOf(p) \/ ThroughLink(t, q)

(* What is below an entry that is not a directory is seen through a link.  *)
LEMMA UnderLink ==
  ASSUME NEW t, LocalTree(t), NEW p \in Path, NEW q \in DOMAIN t, Below(p, q),
         ~IsKind(t, p, "dir")
  PROVE  ThroughLink(t, q)
<1>1. IsDir(t, p)
  BY LocalTreeIs
<1>2. p \in DOMAIN t /\ t[p].kind = "link"
  BY <1>1 DEF IsDir, IsKind, DirLike, LinkNode
<1> QED
  BY <1>2 DEF ThroughLink

(* Below what does not pass for a directory there is nothing.              *)
LEMMA NothingUnder ==
  ASSUME NEW t, LocalTree(t), NEW p \in Path, ~IsDir(t, p)
  PROVE  \A q \in DOMAIN t : ~Below(p, q)
BY LocalTreeIs

(* A transfer that fails leaves the directories above its file.            *)
LEMMA EmptiedIs ==
  ASSUME NEW t, LocalTree(t), NEW p \in Path, TempName[Last(p)] \in STRING,
         ~Blocked(t, Parent(p)), ~IsDir(t, TempOf(p))
  PROVE  /\ Becomes(t, Emptied(t, p), {p}, Above(p), {TempOf(p)} \union Under(p))
         /\ Loses(t, Emptied(t, p), p)
         /\ LocalTree(Emptied(t, p))
<1> DEFINE m == Emptied(t, p)
           temp == TempOf(p)
<1>1. Becomes(t, m, {}, Above(p), {temp})
  BY OpeningBecomes
<1> HIDE DEF m
<1>2. Becomes(t, m, {} \union {p}, Above(p), {temp} \union Under(p))
  BY <1>1, BecomesMore
<1>3. {} \union {p} = {p}
  OBVIOUS
<1>4. Becomes(t, m, {p}, Above(p), {temp} \union Under(p))
  BY <1>2, <1>3, Zenon
<1>5. Loses(t, m, p) /\ LocalTree(m)
  BY <1>1 DEF Becomes, Loses
<1> QED
  BY <1>4, <1>5 DEF m

(* A transfer that succeeds leaves the file as well.                       *)
LEMMA PlacedIs ==
  ASSUME NEW t, LocalTree(t), NEW p \in Path, TempName[Last(p)] \in STRING,
         ~Blocked(t, Parent(p)), ~IsDir(t, TempOf(p)), ~IsKind(t, p, "dir"),
         NEW node \in Node
  PROVE  /\ Becomes(t, Place(Emptied(t, p), p, node), {p}, Above(p), {TempOf(p)} \union Under(p))
         /\ Loses(t, Place(Emptied(t, p), p, node), p)
         /\ p \in DOMAIN Place(Emptied(t, p), p, node) /\ Place(Emptied(t, p), p, node)[p] = node
<1> DEFINE e == Emptied(t, p)
           m == Place(e, p, node)
           temp == TempOf(p)
<1>1. Becomes(t, e, {}, Above(p), {temp}) /\ \A q \in Above(p) : IsDir(e, q)
  BY OpeningBecomes
<1> HIDE DEF e
<1>2. LocalTree(e)
  BY <1>1 DEF Becomes
<1>3. Becomes(e, m, {p}, {}, Under(p)) /\ p \in DOMAIN m /\ m[p] = node
  BY <1>1, <1>2, PlaceBecomes
<1> HIDE DEF m
<1>4. Becomes(t, m, {} \union {p}, Above(p), {temp} \union Under(p))
  BY <1>1, <1>3, BecomesThen
<1>5. {} \union {p} = {p}
  OBVIOUS
<1>6. Becomes(t, m, {p}, Above(p), {temp} \union Under(p))
  BY <1>4, <1>5, Zenon
<1>7. Loses(t, m, p)
  <2>1. \A q \in DOMAIN t \ DOMAIN m : q = temp \/ q \in Under(p)
    BY <1>6 DEF Becomes
  <2>2. \A q \in DOMAIN t \intersect Under(p) : ThroughLink(t, q)
    BY UnderLink DEF Under
  <2> QED
    BY <2>1, <2>2 DEF Loses, temp
<1> QED
  BY <1>3, <1>6, <1>7 DEF m, e, temp

(* A crash in the middle of a file.                                        *)
LEMMA PartialIs ==
  ASSUME NEW t, LocalTree(t), NEW p \in Path, TempName[Last(p)] \in STRING,
         ~Blocked(t, Parent(p)), ~IsDir(t, TempOf(p)), NEW node \in Node
  PROVE  /\ LocalTree(Place(Emptied(t, p), TempOf(p), node))
         /\ Loses(t, Place(Emptied(t, p), TempOf(p), node), p)
<1> DEFINE e == Emptied(t, p)
           temp == TempOf(p)
           m == Place(e, temp, node)
<1>1. /\ temp \in Path /\ ~Below(p, temp) /\ ~Below(temp, p)
      /\ \A q \in Path : Below(q, temp) <=> Below(q, p)
  BY TempIs
<1>2. Becomes(t, e, {}, Above(p), {temp}) /\ \A q \in Above(p) : IsDir(e, q)
  BY OpeningBecomes
<1> HIDE DEF e
<1>3. \A q \in Above(temp) : IsDir(e, q)
  BY <1>1, <1>2 DEF Above
<1>4. LocalTree(e)
  BY <1>2 DEF Becomes
<1>5. ~IsDir(t, temp)
  BY DEF temp
<1> HIDE DEF temp
<1>6. Becomes(e, m, {temp}, {}, Under(temp))
  BY <1>1, <1>3, <1>4, PlaceBecomes
<1> HIDE DEF m
<1>7. \A q \in DOMAIN t : q \notin Under(temp)
  BY <1>1, <1>5, NothingUnder DEF Under
<1>8. \A q \in DOMAIN t \ DOMAIN m : q = temp
  BY <1>2, <1>6, <1>7 DEF Becomes
<1> QED
  BY <1>6, <1>8 DEF m, e, temp, Becomes, Loses

(* A deletion.                                                             *)
LEMMA RemovedIs ==
  ASSUME NEW t, LocalTree(t), NEW p \in Path, p \in DOMAIN t, Removable(t, p)
  PROVE  /\ Becomes(t, Without(t, {p}), {}, {}, {p})
         /\ p \notin DOMAIN Without(t, {p})
<1>1. \A q \in DOMAIN t : ~Below(p, q)
  <2>1. CASE t[p].kind = "dir" /\ ~ \E q \in DOMAIN t : Below(p, q)
    BY <2>1
  <2>2. CASE t[p].kind = "file" \/ t[p] = LinkNode("file")
    <3>1. ~IsDir(t, p)
      BY <2>2 DEF IsDir, DirLike, LinkNode
    <3> QED
      BY <3>1, NothingUnder
  <2> QED
    BY <2>1, <2>2 DEF Removable
<1> QED
  BY <1>1, WithoutBecomes

-----------------------------------------------------------------------------
(* The shape of the variables, between two steps of a run or outside one.  *)
Stages == {"idle", "scan", "planned", "prepare", "fetch", "delete"}
Results == {"none", "ok", "partial", "failed", "crashed", "dry", "unreported"}
Shape ==
  /\ scenario \in DOMAIN Scenarios /\ device \in Scenario.devices
  /\ disk = [d \in Dests |-> disk[d]] /\ \A d \in Dests : LocalTree(disk[d])
  /\ pc \in Stages /\ result \in Results
  /\ DeviceTree(seen) /\ DeviceTree(atScan)
  /\ toPrepare \subseteq Dests /\ unprepared \subseteq Dests /\ hurt \subseteq Dests
  /\ problem \in BOOLEAN /\ steady \in BOOLEAN /\ faulted \in BOOLEAN
  /\ intact \in BOOLEAN /\ fixable \in BOOLEAN
  /\ runs \in 0..Scenario.maxRuns /\ changes \in 0..Scenario.maxChanges

(* Nothing of a run is left when it has ended.                             *)
Fresh ==
  /\ left = {} /\ toPrepare = {} /\ unprepared = {} /\ problem = FALSE
  /\ dels = [d \in Dests |-> {}]
Resting == pc \in {"idle", "scan"} => Fresh /\ seen = <<>> /\ plan = NoPlan

(* The plan is one for what the scan found.                                *)
Unwanted(p) == Opts.delete /\ p \notin DOMAIN seen /\ Accepts(Opts, p)
Planned ==
  pc \in {"planned", "prepare", "fetch", "delete"} =>
    /\ seen = atScan /\ \A p \in DOMAIN seen : TempName[Last(p)] \in STRING
    /\ steady => \A p \in DOMAIN seen : p \in DOMAIN device /\ device[p] = seen[p]
    /\ plan.dirs = Directories(Opts, seen)
    /\ left \subseteq plan.transfers /\ plan.transfers \subseteq Selected(Opts, seen)
    /\ \A p \in Selected(Opts, seen) :
         plan.targets[p] \subseteq Dests /\ plan.mtime[p] = seen[p].mtime
    /\ dels = [d \in Dests |-> dels[d]]
    /\ \A d \in Dests : dels[d] \subseteq plan.deletions[d] /\ \A p \in plan.deletions[d] : Unwanted(p)
Compared ==
  pc = "planned" =>
    Fresh /\ plan = Build(Opts, seen, [d \in Dests |-> LocalScan(disk[d])])
Steps ==
  /\ pc \in {"fetch", "delete"} => toPrepare = {}
  /\ pc = "delete" => left = {}
Sound == Shape /\ Resting /\ Planned /\ Compared /\ Steps

(* A destination that an operation failed on is on record.                 *)
Accounted ==
  /\ pc \in {"scan", "planned"} => hurt = {}
  /\ pc \in {"prepare", "fetch", "delete"} =>
       unprepared \subseteq hurt /\ (hurt # {} => problem \/ unprepared # {})
  /\ pc = "idle" /\ result = "ok" => hurt = {}

(* Mirrors, as an operator of the options and the trees alone.             *)
HeldBy(o, remote, local, p) ==
  \/ UpToDate(o, remote, local, p) \/ UpToDate(o, remote, AsRead(local), p)
  \/ ~o.preserveMtime /\ IsKind(local, p, "file") /\ local[p].data = remote[p].data
MirrorsBy(o, remote, local) ==
  /\ \A p \in Selected(o, remote) : HeldBy(o, remote, local, p)
  /\ \A p \in Directories(o, remote) : IsDir(local, p)
  /\ o.delete => \A p \in DOMAIN LocalScan(local) :
       p \in Wanted(o, remote) \/ ~Accepts(o, p) \/ Dangling(local[p])

(* What a destination has of the plan already, when nothing failed on it.  *)
FilesDue(d) == \A p \in Selected(Opts, seen) :
                 HeldBy(Opts, seen, disk[d], p) \/ (p \in left /\ d \in plan.targets[p])
DirsDue(d) == d \notin toPrepare => \A p \in Directories(Opts, seen) : IsDir(disk[d], p)
Leftovers(d) ==
  Opts.delete => \A p \in DOMAIN LocalScan(disk[d]) :
    p \in Wanted(Opts, seen) \/ ~Accepts(Opts, p) \/ p \in dels[d] \/ Dangling(disk[d][p])
Healthy ==
  /\ pc \in {"prepare", "fetch", "delete"} /\ steady =>
       \A d \in Dests \ hurt : FilesDue(d) /\ DirsDue(d) /\ Leftovers(d)
  /\ Settled => \A d \in Dests \ hurt : MirrorsBy(Opts, atScan, disk[d])

Listing == IF Opts.recursive THEN device ELSE TopLevel(device)
Kept ==
  /\ pc = "planned" /\ steady => seen = Listing
  /\ pc \in {"prepare", "fetch", "delete"} /\ steady => seen = Listing
  /\ intact /\ pc \in {"idle", "scan", "planned"} => steady /\
       \A d \in Dests : MirrorsBy(Opts, Listing, disk[d])

-----------------------------------------------------------------------------
(* What the assumption on the scenarios says of a state.                   *)
LEMMA DeviceIs ==
  ASSUME scenario \in DOMAIN Scenarios, NEW t \in Scenario.devices
  PROVE  DeviceTree(t) /\ \A p \in DOMAIN t : TempName[Last(p)] \in STRING
<1>1. Scenario \in {Scenarios[name] : name \in DOMAIN Scenarios}
  BY DEF Scenario
<1> QED
  BY <1>1, BackupAssumption

(* What the assumption on the scenarios says of the destinations at the    *)
(* start.                                                                  *)
LEMMA DisksAre ==
  ASSUME scenario \in DOMAIN Scenarios, NEW trees \in Scenario.disks
  PROVE  trees = [d \in Dests |-> trees[d]] /\ \A d \in Dests : LocalTree(trees[d])
<1>1. Scenario \in {Scenarios[name] : name \in DOMAIN Scenarios}
  BY DEF Scenario
<1> QED
  BY <1>1, BackupAssumption

(* What the assumption on the scenarios says of the bounds.                *)
LEMMA BoundsAre ==
  ASSUME scenario \in DOMAIN Scenarios
  PROVE  Scenario.maxRuns \in Nat /\ Scenario.maxChanges \in Nat
<1>1. Scenario \in {Scenarios[name] : name \in DOMAIN Scenarios}
  BY DEF Scenario
<1> QED
  BY <1>1, BackupAssumption

(* What the assumption on the scenarios says of the tolerance.             *)
LEMMA ToleranceIs ==
  ASSUME scenario \in DOMAIN Scenarios
  PROVE  Opts.tolerance \in Nat
<1>1. Scenario \in {Scenarios[name] : name \in DOMAIN Scenarios}
  BY DEF Scenario
<1> DEFINE g == [f \in DOMAIN Scenario.opts \ FlagNames |-> Scenario.opts[f]]
<1>2. g \in PlanOptions(Seq(STRING))
  BY <1>1, BackupAssumption
<1>3. DOMAIN g = DOMAIN Scenario.opts \ FlagNames /\ \A f \in DOMAIN g : g[f] = Scenario.opts[f]
  OBVIOUS
<1> HIDE DEF g
<1>4. "tolerance" \in DOMAIN g /\ g.tolerance \in Nat
  BY <1>2 DEF PlanOptions
<1> QED
  BY <1>3, <1>4 DEF Opts

(* A tree that a step leaves out a part of, with what is above the rest.   *)
LEMMA PartIs ==
  ASSUME NEW t, DeviceTree(t), NEW S \in SUBSET DOMAIN t,
         \A p \in S, q \in Path : Below(q, p) => q \in S
  PROVE  DeviceTree([p \in S |-> t[p]])
<1> DEFINE m == [p \in S |-> t[p]]
<1>1. /\ t \in [DOMAIN t -> Node] /\ DOMAIN t \subseteq Path
      /\ \A p \in DOMAIN t, q \in Path : Below(q, p) => IsKind(t, q, "dir")
  BY DeviceTreeIs
<1>2. DOMAIN m = S /\ \A p \in S : m[p] = t[p]
  OBVIOUS
<1>3. m \in [DOMAIN m -> Node] /\ DOMAIN m \subseteq Path
  BY <1>1
<1> HIDE DEF m
<1>4. \A p \in DOMAIN m, q \in Path : Below(q, p) => IsKind(m, q, "dir")
  BY <1>1, <1>2 DEF IsKind
<1>5. DeviceTree(m)
  BY <1>3, <1>4, DeviceTreeIs
<1> QED
  BY <1>5 DEF m

(* What the walk lists is a tree, whatever is refused.                     *)
LEMMA VisibleIs ==
  ASSUME DeviceTree(device), NEW hidden \in SUBSET DOMAIN device
  PROVE  DeviceTree([p \in Visible(hidden) |-> device[p]])
<1>1. /\ DOMAIN device \subseteq Path
      /\ \A p \in DOMAIN device, q \in Path : Below(q, p) => IsKind(device, q, "dir")
  BY DeviceTreeIs
<1>2. Visible(hidden) \subseteq DOMAIN device
  BY DEF Visible
<1>3. ASSUME NEW p \in Visible(hidden), NEW q \in Path, Below(q, p)
      PROVE  q \in Visible(hidden)
  <2>1. q \in DOMAIN device
    BY <1>1, <1>2, <1>3 DEF IsKind
  <2>2. \A h \in hidden : ~Below(h, q)
    BY <1>1, <1>2, <1>3, BelowTransitive DEF Visible, Path
  <2> QED
    BY <2>1, <2>2 DEF Visible
<1> QED
  BY <1>2, <1>3, PartIs

(* The top level of a tree is a tree.                                      *)
LEMMA TopLevelIs ==
  ASSUME NEW t, DeviceTree(t)
  PROVE  DeviceTree(TopLevel(t))
<1> DEFINE S == {p \in DOMAIN t : Len(p) = 1 /\ ~IsKind(t, p, "dir")}
<1>1. DOMAIN t \subseteq Path
  BY DeviceTreeIs
<1>2. \A p \in S, q \in Path : ~Below(q, p)
  BY <1>1, BelowIs DEF Path
<1>3. S \in SUBSET DOMAIN t
  OBVIOUS
<1> HIDE DEF S
<1>4. DeviceTree([p \in S |-> t[p]])
  BY <1>2, <1>3, PartIs
<1> QED
  BY <1>4 DEF S, TopLevel

(* Setting the time of a node changes nothing else of it.                  *)
LEMMA NodeWithTime ==
  ASSUME NEW node \in Node, NEW n \in Int
  PROVE  /\ node.kind # "link" => [node EXCEPT !.mtime = n] \in Node
         /\ [node EXCEPT !.mtime = n].kind = node.kind
         /\ [node EXCEPT !.mtime = n].size = node.size
         /\ [node EXCEPT !.mtime = n].data = node.data
         /\ [node EXCEPT !.mtime = n].mtime = n
BY DEF Node

(* What is scanned at a destination.                                       *)
LEMMA ScannedIs ==
  ASSUME NEW t, LocalTree(t)
  PROVE  /\ DOMAIN LocalScan(t) = {p \in DOMAIN t : ~ThroughLink(t, p)}
         /\ \A p \in DOMAIN LocalScan(t) : LocalScan(t)[p] = AsRead(t)[p]
         /\ DOMAIN AsRead(t) = DOMAIN t
BY DEF LocalScan, AsRead

-----------------------------------------------------------------------------
(* What the steps do to the destinations.                                  *)

(* One file.                                                               *)
FetchOf(p, good) ==
  /\ p \in left /\ left' = left \ {p}
  /\ good \subseteq Placeable(p)
  /\ hurt' = hurt \union (Targets(p) \ good)
  /\ problem' = (problem \/ good # Targets(p))
  /\ faulted' = (faulted \/ good # Placeable(p))
  /\ disk' = [d \in Dests |-> disk'[d]]
  /\ \A d \in Dests :
       /\ d \notin Opened(p) => disk'[d] = disk[d]
       /\ d \in Opened(p) =>
            /\ Becomes(disk[d], disk'[d], {p}, Above(p), {TempOf(p)} \union Under(p))
            /\ Loses(disk[d], disk'[d], p)
       /\ d \in good => p \in DOMAIN disk'[d] /\ disk'[d][p] = Content(p, Mtime(p))

(* A file that is left was seen; so were the directories above it.         *)
LEMMA LeftIs ==
  ASSUME Sound, pc \in {"planned", "prepare", "fetch", "delete"},
         NEW p \in Selected(Opts, seen)
  PROVE  /\ p \in Path /\ p \in DOMAIN seen /\ p \in Wanted(Opts, seen)
         /\ IsKind(seen, p, "file") /\ seen[p] \in Node
         /\ TempName[Last(p)] \in STRING
         /\ Targets(p) \subseteq Dests /\ Mtime(p) \in Int
         /\ \A q \in Path : Below(q, p) => q \in DOMAIN seen
         /\ \A q \in DOMAIN seen : ~Below(p, q)
<1>1. DeviceTree(seen)
  BY DEF Sound, Shape
<1>2. /\ seen \in [DOMAIN seen -> Node] /\ DOMAIN seen \subseteq Path
      /\ \A r \in DOMAIN seen, q \in Path : Below(q, r) => IsKind(seen, q, "dir")
  BY <1>1, DeviceTreeIs
<1>3. p \in DOMAIN seen /\ p \in Wanted(Opts, seen) /\ IsKind(seen, p, "file")
  BY DEF Selected, Wanted
<1>4. p \in Path /\ seen[p] \in Node
  BY <1>2, <1>3
<1>5. \A q \in Path : Below(q, p) => q \in DOMAIN seen
  BY <1>2, <1>3 DEF IsKind
<1>6. \A q \in DOMAIN seen : ~Below(p, q)
  BY <1>2, <1>3, <1>4 DEF IsKind
<1>7. TempName[Last(p)] \in STRING
  BY <1>3 DEF Sound, Planned
<1>8. plan.targets[p] \subseteq Dests /\ plan.mtime[p] = seen[p].mtime
  BY DEF Sound, Planned
<1>9. seen[p].mtime \in Int
  BY <1>4 DEF Node
<1>10. Mtime(p) \in Int
  BY <1>8, <1>9, BackupAssumption DEF Mtime
<1> QED
  BY <1>3, <1>4, <1>5, <1>6, <1>7, <1>8, <1>10 DEF Targets

(* What is known of a destination that opened a temporary file.            *)
LEMMA OpenedIs ==
  ASSUME Sound, pc \in {"planned", "prepare", "fetch", "delete"},
         NEW p \in Selected(Opts, seen), NEW d \in Opened(p)
  PROVE  /\ d \in Dests /\ LocalTree(disk[d])
         /\ ~Blocked(disk[d], Parent(p)) /\ ~IsDir(disk[d], TempOf(p))
         /\ d \in Placeable(p) => ~IsKind(disk[d], p, "dir") /\ IsKind(device, p, "file")
<1>1. d \in Dests
  BY LeftIs DEF Opened
<1> QED
  BY <1>1 DEF Sound, Shape, Opened, Placeable

(* Only a destination that a file is due at opens it, and only such a one  *)
(* places it.                                                              *)
LEMMA PlaceableIs ==
  ASSUME NEW p
  PROVE  Placeable(p) \subseteq Opened(p) /\ Opened(p) \subseteq Targets(p)
BY DEF Placeable, Opened

(* The node that a transfer writes.                                        *)
LEMMA ContentIs ==
  ASSUME Sound, NEW p, IsKind(device, p, "file"), NEW n \in Int
  PROVE  /\ Content(p, n) \in Node /\ Content(p, n).kind = "file"
         /\ Content(p, n).size = device[p].size /\ Content(p, n).data = device[p].data
         /\ Content(p, n).mtime = n
<1>1. DeviceTree(device)
  BY DeviceIs DEF Sound, Shape
<1>2. device[p] \in Node /\ device[p].kind = "file"
  BY <1>1, DeviceTreeIs DEF IsKind
<1> QED
  BY <1>2, NodeWithTime DEF Content

(* What becomes of a file at a destination that opened it.                 *)
LEMMA FetchedIs ==
  ASSUME Sound, pc \in {"planned", "prepare", "fetch", "delete"},
         NEW p \in Selected(Opts, seen), NEW d \in Opened(p),
         NEW good \in SUBSET Placeable(p), NEW late \in SUBSET Placeable(p)
  PROVE  /\ Becomes(disk[d], Fetched(p, d, good, late), {p}, Above(p),
                    {TempOf(p)} \union Under(p))
         /\ Loses(disk[d], Fetched(p, d, good, late), p)
         /\ d \in good => /\ p \in DOMAIN Fetched(p, d, good, late)
                          /\ Fetched(p, d, good, late)[p] = Content(p, Mtime(p))
<1> DEFINE t == disk[d]
<1>1. Opening(p, d) = Emptied(t, p)
  BY DEF Opening, Emptied
<1>2. p \in Path /\ TempName[Last(p)] \in STRING /\ Mtime(p) \in Int
  BY LeftIs
<1>3. /\ LocalTree(t) /\ ~Blocked(t, Parent(p)) /\ ~IsDir(t, TempOf(p))
  BY OpenedIs
<1>4. ASSUME d \in Placeable(p)
      PROVE  /\ ~IsKind(t, p, "dir")
             /\ Content(p, Mtime(p)) \in Node /\ Content(p, Now) \in Node
  <2>1. ~IsKind(t, p, "dir") /\ IsKind(device, p, "file")
    BY <1>4, OpenedIs
  <2> QED
    BY <1>2, <2>1, ContentIs, BackupAssumption
<1> HIDE DEF t
<1>5. CASE d \in good
  <2>1. Fetched(p, d, good, late) = Place(Emptied(t, p), p, Content(p, Mtime(p)))
    BY <1>1, <1>5 DEF Fetched
  <2>2. d \in Placeable(p)
    BY <1>5
  <2> QED
    BY <1>2, <1>3, <1>4, <2>1, <2>2, PlacedIs DEF t
<1>6. CASE d \notin good /\ d \in late
  <2>1. Fetched(p, d, good, late) = Place(Emptied(t, p), p, Content(p, Now))
    BY <1>1, <1>6 DEF Fetched
  <2>2. d \in Placeable(p)
    BY <1>6
  <2> QED
    BY <1>2, <1>3, <1>4, <1>6, <2>1, <2>2, PlacedIs DEF t
<1>7. CASE d \notin good /\ d \notin late
  <2>1. Fetched(p, d, good, late) = Emptied(t, p)
    BY <1>1, <1>7 DEF Fetched
  <2> QED
    BY <1>2, <1>3, <1>7, <2>1, EmptiedIs DEF t
<1> QED
  BY <1>5, <1>6, <1>7

(* A transfer, seen from the destinations.                                 *)
LEMMA FetchStep ==
  ASSUME Sound, FetchFile
  PROVE  \E p \in left : \E good \in SUBSET Placeable(p) : FetchOf(p, good)
<1>1. pc = "fetch" /\ left \subseteq Selected(Opts, seen)
  BY DEF FetchFile, Sound, Planned
<1>2. PICK p \in left : \E good \in SUBSET Placeable(p) : \E late \in MayBeLate(p, good) :
       /\ left' = Remaining(p)
       /\ disk' = [d \in Dests |-> IF d \in Opened(p) THEN Fetched(p, d, good, late) ELSE disk[d]]
       /\ hurt' = hurt \union (Targets(p) \ good)
       /\ problem' = (problem \/ good # Targets(p))
       /\ faulted' = (faulted \/ good # Placeable(p))
  BY DEF FetchFile
<1>3. PICK good \in SUBSET Placeable(p) : \E late \in MayBeLate(p, good) :
       /\ left' = Remaining(p)
       /\ disk' = [d \in Dests |-> IF d \in Opened(p) THEN Fetched(p, d, good, late) ELSE disk[d]]
       /\ hurt' = hurt \union (Targets(p) \ good)
       /\ problem' = (problem \/ good # Targets(p))
       /\ faulted' = (faulted \/ good # Placeable(p))
  BY <1>2
<1>4. PICK late \in MayBeLate(p, good) :
       /\ left' = Remaining(p)
       /\ disk' = [d \in Dests |-> IF d \in Opened(p) THEN Fetched(p, d, good, late) ELSE disk[d]]
       /\ hurt' = hurt \union (Targets(p) \ good)
       /\ problem' = (problem \/ good # Targets(p))
       /\ faulted' = (faulted \/ good # Placeable(p))
  BY <1>3
<1>5. late \in SUBSET Placeable(p)
  BY DEF MayBeLate
<1>6. p \in Selected(Opts, seen) /\ pc \in {"planned", "prepare", "fetch", "delete"}
  BY <1>1
<1>7. \A d \in Dests : disk'[d] = IF d \in Opened(p) THEN Fetched(p, d, good, late) ELSE disk[d]
  BY <1>4
<1>8. disk' = [d \in Dests |-> disk'[d]]
  <2> DEFINE f == [d \in Dests |-> IF d \in Opened(p) THEN Fetched(p, d, good, late) ELSE disk[d]]
  <2>1. f = [d \in Dests |-> f[d]]
    OBVIOUS
  <2> HIDE DEF f
  <2> QED
    BY <1>4, <2>1 DEF f
<1>9. ASSUME NEW d \in Dests
      PROVE  /\ d \notin Opened(p) => disk'[d] = disk[d]
             /\ d \in Opened(p) =>
                  /\ Becomes(disk[d], disk'[d], {p}, Above(p), {TempOf(p)} \union Under(p))
                  /\ Loses(disk[d], disk'[d], p)
             /\ d \in good => p \in DOMAIN disk'[d] /\ disk'[d][p] = Content(p, Mtime(p))
  <2>1. CASE d \in Opened(p)
    <3>1. disk'[d] = Fetched(p, d, good, late)
      BY <1>7, <2>1
    <3> QED
      BY SMTT(60), <1>5, <1>6, <2>1, <3>1, FetchedIs
  <2>2. CASE d \notin Opened(p)
    BY <1>7, <2>2, PlaceableIs
  <2> QED
    BY <2>1, <2>2
<1>10. FetchOf(p, good)
  BY <1>4, <1>8, <1>9 DEF FetchOf, Remaining
<1> QED
  BY <1>10

(* A destination gets its directories, or some of them.                    *)
PrepareOf(e) ==
  /\ e \in toPrepare /\ toPrepare' = toPrepare \ {e}
  /\ disk' = [d \in Dests |-> disk'[d]]
  /\ \A d \in Dests \ {e} : disk'[d] = disk[d]
  /\ Becomes(disk[e], disk'[e], {}, AtOrAbove(plan.dirs), {})
  /\ \/ UNCHANGED <<hurt, unprepared>> /\ \A p \in plan.dirs : IsDir(disk'[e], p)
     \/ /\ hurt' = hurt \union {e} /\ unprepared' = unprepared \union {e}
        /\ faulted' \/ \E p \in plan.dirs : Blocked(disk[e], p)

(* The preparation of a destination, seen from the destinations.           *)
LEMMA PrepareStep ==
  ASSUME Sound, PrepareDest
  PROVE  \E e \in Dests : PrepareOf(e)
<1> DEFINE e == Min(toPrepare)
           bad == {p \in plan.dirs : Blocked(disk[e], p)}
<1>1. toPrepare \in SUBSET Nat /\ toPrepare # {} /\ toPrepare \subseteq Dests
  BY PlannerAssumption DEF PrepareDest, Sound, Shape
<1>2. e \in toPrepare /\ e \in Dests
  BY <1>1, MinIsMember
<1>3. plan.dirs \in SUBSET Path
  <2>1. plan.dirs = Directories(Opts, seen) /\ DeviceTree(seen)
    BY DEF PrepareDest, Sound, Shape, Planned
  <2>2. DOMAIN seen \subseteq Path
    BY <2>1, DeviceTreeIs
  <2> QED
    BY <2>1, <2>2 DEF Directories, Wanted
<1>4. LocalTree(disk[e]) /\ disk = [d \in Dests |-> disk[d]]
  BY <1>2 DEF Sound, Shape
<1>5. ASSUME NEW made \in SUBSET (plan.dirs \ bad)
      PROVE  /\ Becomes(disk[e], MakeDirs(disk[e], made), {}, AtOrAbove(plan.dirs), {})
             /\ \A p \in made : IsDir(MakeDirs(disk[e], made), p)
  <2>1. made \in SUBSET Path /\ \A p \in made : ~Blocked(disk[e], p)
    BY <1>3
  <2>2. /\ Becomes(disk[e], MakeDirs(disk[e], made), {}, AtOrAbove(made), {})
        /\ \A q \in AtOrAbove(made) : IsDir(MakeDirs(disk[e], made), q)
    BY <1>4, <2>1, MakeDirsBecomes
  <2>3. AtOrAbove(made) \subseteq AtOrAbove(plan.dirs) /\ made \subseteq AtOrAbove(made)
    BY <2>1 DEF AtOrAbove
  <2> QED
    BY <2>2, <2>3 DEF Becomes
<1>6. toPrepare' = toPrepare \ {e}
  BY DEF PrepareDest
<1>7. PICK made \in SUBSET (plan.dirs \ bad) :
        /\ disk' = [disk EXCEPT ![e] = MakeDirs(disk[e], made)]
        /\ \/ UNCHANGED <<hurt, unprepared>> /\ made = plan.dirs
           \/ /\ hurt' = hurt \union {e} /\ unprepared' = unprepared \union {e}
              /\ faulted' \/ bad # {}
  <2>1. CASE bad = {} /\ disk' = [disk EXCEPT ![e] = MakeDirs(disk[e], plan.dirs)] /\ UNCHANGED <<unprepared, hurt>>
    <3>1. plan.dirs \in SUBSET (plan.dirs \ bad)
      BY <2>1
    <3> QED
      BY <2>1, <3>1
  <2>2. CASE /\ unprepared' = unprepared \union {e} /\ hurt' = hurt \union {e}
             /\ faulted' = (faulted \/ bad = {})
             /\ \E made \in SUBSET (plan.dirs \ bad) :
                  disk' = [disk EXCEPT ![e] = MakeDirs(disk[e], made)]
    BY <2>2
  <2> QED
    BY <2>1, <2>2 DEF PrepareDest
<1> HIDE DEF e, bad
<1>8. /\ disk'[e] = MakeDirs(disk[e], made) /\ disk' = [d \in Dests |-> disk'[d]]
      /\ \A d \in Dests \ {e} : disk'[d] = disk[d]
  BY <1>2, <1>4, <1>7
<1>9. bad # {} => \E p \in plan.dirs : Blocked(disk[e], p)
  BY DEF bad
<1>10. PrepareOf(e)
  BY <1>2, <1>5, <1>6, <1>7, <1>8, <1>9 DEF PrepareOf
<1> QED
  BY <1>2, <1>10

(* A deletion, that was made, or not needed, or failed.                    *)
DeleteOf(e, p) ==
  /\ p \in dels[e] /\ dels' = [dels EXCEPT ![e] = @ \ {p}]
  /\ \A q \in dels[e] : ~Deeper(q, p)
  /\ disk' = [d \in Dests |-> disk'[d]]
  /\ \A d \in Dests \ {e} : disk'[d] = disk[d]
  /\ \/ disk'[e] = disk[e] /\ Gone(disk[e], p) /\ UNCHANGED <<problem, hurt>>
     \/ /\ Becomes(disk[e], disk'[e], {}, {}, {p}) /\ p \notin DOMAIN disk'[e]
        /\ UNCHANGED <<problem, hurt>>
     \/ /\ disk'[e] = disk[e] /\ problem' = TRUE /\ hurt' = hurt \union {e}
        /\ ~Gone(disk[e], p) /\ (Removable(disk[e], p) => faulted')

(* A deletion, seen from the destinations.                                 *)
LEMMA DeleteStep ==
  ASSUME Sound, DeleteNext
  PROVE  \E e \in Dests : \E p \in dels[e] : DeleteOf(e, p)
<1> DEFINE S == {d \in Dests : dels[d] # {}}
           e == Min(S)
<1>1. S \in SUBSET Nat /\ S # {}
  BY PlannerAssumption DEF DeleteNext
<1>2. e \in Dests /\ dels[e] # {}
  BY <1>1, MinIsMember
<1>3. LocalTree(disk[e]) /\ disk = [d \in Dests |-> disk[d]]
  BY <1>2 DEF Sound, Shape
<1>4. PICK p \in dels[e] :
       /\ dels' = [dels EXCEPT ![e] = @ \ {p}]
       /\ \A q \in dels[e] : ~Deeper(q, p)
       /\ \/ Gone(disk[e], p) /\ UNCHANGED <<disk, problem, hurt>>
          \/ /\ ~Gone(disk[e], p) /\ Removable(disk[e], p)
             /\ disk' = [disk EXCEPT ![e] = Without(disk[e], {p})]
             /\ UNCHANGED <<problem, hurt>>
          \/ /\ problem' = TRUE /\ hurt' = hurt \union {e} /\ UNCHANGED disk
             /\ ~Gone(disk[e], p) /\ (Removable(disk[e], p) => faulted')
  BY DEF DeleteNext
<1> HIDE DEF e, S
<1>5. CASE UNCHANGED disk
  <2>1. disk' = disk /\ disk' = [d \in Dests |-> disk'[d]]
    BY <1>3, <1>5
  <2>2. CASE Gone(disk[e], p) /\ UNCHANGED <<disk, problem, hurt>>
    BY <1>2, <1>4, <2>1, <2>2 DEF DeleteOf
  <2>3. CASE /\ problem' = TRUE /\ hurt' = hurt \union {e} /\ UNCHANGED disk
             /\ ~Gone(disk[e], p) /\ (Removable(disk[e], p) => faulted')
    BY <1>2, <1>4, <2>1, <2>3 DEF DeleteOf
  <2>4. CASE /\ ~Gone(disk[e], p) /\ Removable(disk[e], p)
             /\ disk' = [disk EXCEPT ![e] = Without(disk[e], {p})]
             /\ UNCHANGED <<problem, hurt>>
    <3>1. p \in DOMAIN disk[e]
      BY <2>4 DEF Gone
    <3>2. disk'[e] = Without(disk[e], {p})
      BY <1>2, <1>3, <2>4
    <3>3. p \notin DOMAIN disk'[e]
      BY <3>2 DEF Without
    <3> QED
      BY <2>1, <3>1, <3>3
  <2> QED
    BY <1>4, <2>2, <2>3, <2>4
<1>6. CASE /\ ~Gone(disk[e], p) /\ Removable(disk[e], p)
           /\ disk' = [disk EXCEPT ![e] = Without(disk[e], {p})]
           /\ UNCHANGED <<problem, hurt>>
  <2>1. p \in DOMAIN disk[e] /\ p \in Path
    BY <1>3, <1>6, LocalTreeIs DEF Gone
  <2>2. Becomes(disk[e], Without(disk[e], {p}), {}, {}, {p}) /\ p \notin DOMAIN Without(disk[e], {p})
    BY <1>3, <1>6, <2>1, RemovedIs
  <2>3. /\ disk'[e] = Without(disk[e], {p}) /\ disk' = [d \in Dests |-> disk'[d]]
        /\ \A d \in Dests \ {e} : disk'[d] = disk[d]
    BY <1>2, <1>3, <1>6
  <2> QED
    BY <1>2, <1>4, <1>6, <2>2, <2>3 DEF DeleteOf
<1> QED
  BY <1>4, <1>5, <1>6

(* A crash leaves trees, and has removed no more than a transfer.          *)
CrashOf(d) ==
  /\ LocalTree(disk'[d])
  /\ \/ disk'[d] = disk[d]
     \/ \E p \in left : pc = "fetch" /\ Loses(disk[d], disk'[d], p)

(* A crash, seen from the destinations.                                    *)
LEMMA CrashStep ==
  ASSUME Sound, Crash
  PROVE  disk' = [d \in Dests |-> disk'[d]] /\ \A d \in Dests : CrashOf(d)
<1>1. CASE UNCHANGED disk
  BY <1>1 DEF Sound, Shape, CrashOf
<1>2. CASE /\ pc = "fetch"
           /\ \E p \in left : \E part \in SUBSET Opened(p) : \E late \in SUBSET (Placeable(p) \intersect part) :
                disk' = [d \in Dests |->
                  IF d \in late THEN Fetched(p, d, {}, late)
                  ELSE IF d \in part
                  THEN Place(Opening(p, d), TempOf(p), File(0, Now, "partial"))
                  ELSE disk[d]]
  <2> DEFINE After(p, part, late) ==
               [d \in Dests |->
                  IF d \in late THEN Fetched(p, d, {}, late)
                  ELSE IF d \in part
                  THEN Place(Opening(p, d), TempOf(p), File(0, Now, "partial"))
                  ELSE disk[d]]
  <2>1. PICK p \in left : \E part \in SUBSET Opened(p) :
          \E late \in SUBSET (Placeable(p) \intersect part) : disk' = After(p, part, late)
    BY <1>2
  <2>2. PICK part \in SUBSET Opened(p) :
          \E late \in SUBSET (Placeable(p) \intersect part) : disk' = After(p, part, late)
    BY <2>1
  <2>20. PICK late \in SUBSET (Placeable(p) \intersect part) : disk' = After(p, part, late)
    BY <2>2
  <2> DEFINE f == After(p, part, late)
  <2>3. f = [d \in Dests |-> f[d]]
    OBVIOUS
  <2>4. \A d \in Dests : f[d] = IF d \in late THEN Fetched(p, d, {}, late)
                  ELSE IF d \in part
                  THEN Place(Opening(p, d), TempOf(p), File(0, Now, "partial"))
                  ELSE disk[d]
    OBVIOUS
  <2>5. disk' = f
    BY <2>20
  <2> HIDE DEF f
  <2>6. p \in Selected(Opts, seen) /\ pc \in {"planned", "prepare", "fetch", "delete"}
    BY <1>2 DEF Sound, Planned
  <2>7. p \in Path /\ TempName[Last(p)] \in STRING
    BY <2>6, LeftIs
  <2>8. File(0, Now, "partial") \in Node
    <3>1. 0 \in Nat /\ Now \in Int /\ "partial" \in STRING
      BY BackupAssumption
    <3> QED
      BY <3>1, Zenon DEF File, Node
  <2>9. ASSUME NEW d \in Dests
        PROVE  CrashOf(d)
    <3>1. CASE d \in late
      <4>1. disk'[d] = Fetched(p, d, {}, late)
        BY <2>4, <2>5, <3>1
      <4>2. d \in Opened(p) /\ late \in SUBSET Placeable(p) /\ {} \in SUBSET Placeable(p)
        BY <3>1
      <4>3. /\ Becomes(disk[d], disk'[d], {p}, Above(p), {TempOf(p)} \union Under(p))
            /\ Loses(disk[d], disk'[d], p)
        BY <2>6, <4>1, <4>2, FetchedIs
      <4> QED
        BY <1>2, <4>3 DEF CrashOf, Becomes
    <3>2. CASE d \notin late /\ d \in part
      <4>1. disk'[d] = Place(Opening(p, d), TempOf(p), File(0, Now, "partial"))
        BY <2>4, <2>5, <3>2
      <4>2. disk'[d] = Place(Emptied(disk[d], p), TempOf(p), File(0, Now, "partial"))
        BY <4>1 DEF Emptied, Opening
      <4>3. d \in Opened(p)
        BY <3>2
      <4>4. LocalTree(disk[d]) /\ ~Blocked(disk[d], Parent(p)) /\ ~IsDir(disk[d], TempOf(p))
        BY <2>6, <4>3, OpenedIs
      <4>5. LocalTree(disk'[d]) /\ Loses(disk[d], disk'[d], p)
        BY <2>7, <2>8, <4>2, <4>4, PartialIs
      <4> QED
        BY <1>2, <4>5 DEF CrashOf
    <3>3. CASE d \notin late /\ d \notin part
      <4>1. disk'[d] = disk[d]
        BY <2>4, <2>5, <3>3
      <4> QED
        BY <4>1 DEF CrashOf, Sound, Shape
    <3> QED
      BY <3>1, <3>2, <3>3
  <2> QED
    BY <2>3, <2>5, <2>9
<1> QED
  BY <1>1, <1>2 DEF Crash

-----------------------------------------------------------------------------
(* The invariant that needs no assumption about names.                     *)

(* Nothing is a tree.                                                      *)
LEMMA EmptyTree == DeviceTree(<<>>) /\ LocalTree(<<>>) /\ DOMAIN <<>> = {}
<1>1. DOMAIN <<>> = {} /\ <<>> \in [DOMAIN <<>> -> Node]
  OBVIOUS
<1>2. DeviceTree(<<>>)
  BY <1>1, DeviceTreeIs
<1>3. LocalTree(<<>>)
  BY <1>1, LocalTreeIs
<1> QED
  BY <1>1, <1>2, <1>3

(* The invariant holds at the start.                                       *)
LEMMA SoundInit == Init => Sound
<1> SUFFICES ASSUME Init PROVE Sound
  OBVIOUS
<1>1. Shape
  <2>1. /\ scenario \in DOMAIN Scenarios /\ device \in Scenario.devices /\ disk \in Scenario.disks
        /\ runs = 0 /\ changes = 0 /\ pc = "idle" /\ result = "none" /\ problem = FALSE /\ seen = <<>>
        /\ toPrepare = {} /\ unprepared = {} /\ hurt = {} /\ faulted = FALSE
        /\ steady = TRUE /\ intact = FALSE /\ fixable = FALSE /\ atScan = <<>>
    BY DEF Init
  <2>2. disk = [d \in Dests |-> disk[d]] /\ \A d \in Dests : LocalTree(disk[d])
    BY <2>1, DisksAre
  <2>3. runs \in 0..Scenario.maxRuns /\ changes \in 0..Scenario.maxChanges
    BY <2>1, BoundsAre
  <2> QED
    BY <2>1, <2>2, <2>3, EmptyTree DEF Shape, Stages, Results
<1>2. Resting /\ Planned /\ Compared /\ Steps
  BY DEF Init, Resting, Fresh, Planned, Compared, Steps
<1> QED
  BY <1>1, <1>2 DEF Sound

(* The options are those of the scenario.                                  *)
LEMMA SameScenario ==
  ASSUME scenario' = scenario
  PROVE  Scenario' = Scenario /\ Opts' = Opts
BY DEF Scenario, Opts

(* However a run ends.                                                     *)
LEMMA FinishSound ==
  ASSUME Sound, NEW how \in Results, Finish(how),
         device' = device, runs' = runs, changes' = changes, atScan' = atScan,
         hurt' = hurt, fixable' = fixable, steady' = steady, faulted' \in BOOLEAN,
         disk' = [d \in Dests |-> disk'[d]], \A d \in Dests : LocalTree(disk'[d])
  PROVE  Sound'
<1>1. /\ scenario' = scenario /\ pc' = "idle" /\ result' = how /\ seen' = <<>>
      /\ plan' = NoPlan /\ toPrepare' = {} /\ unprepared' = {} /\ left' = {}
      /\ dels' = [d \in Dests |-> {}] /\ problem' = FALSE /\ intact' \in BOOLEAN
  BY DEF Finish, Sound, Shape
<1>2. Scenario' = Scenario
  BY <1>1, SameScenario
<1>3. Shape'
  BY <1>1, <1>2, EmptyTree DEF Sound, Shape, Stages
<1>4. Resting' /\ Planned' /\ Compared' /\ Steps'
  BY <1>1 DEF Resting, Fresh, Planned, Compared, Steps
<1> QED
  BY <1>3, <1>4 DEF Sound

(* A run that is done, and whose report may not be written.                *)
LEMMA FinishReportingSound ==
  ASSUME Sound, NEW how \in Results, FinishReporting(how),
         device' = device, runs' = runs, changes' = changes, disk' = disk
  PROVE  Sound'
<1>1. /\ disk' = [d \in Dests |-> disk'[d]] /\ \A d \in Dests : LocalTree(disk'[d])
      /\ faulted \in BOOLEAN
  BY DEF Sound, Shape
<1>2. CASE Finish(how) /\ UNCHANGED faulted
  BY <1>1, <1>2, FinishSound DEF FinishReporting
<1>3. CASE Finish("unreported") /\ faulted' = TRUE
  <2>1. "unreported" \in Results
    BY DEF Results
  <2> QED
    BY <1>1, <1>3, <2>1, FinishSound DEF FinishReporting
<1> QED
  BY <1>2, <1>3 DEF FinishReporting

(* Begin keeps the invariant.                                              *)
LEMMA BeginSound == ASSUME Sound, Begin PROVE Sound'
<1>1. /\ scenario' = scenario /\ device' = device /\ disk' = disk /\ pc = "idle" /\ pc' = "scan"
      /\ result' = "none" /\ runs < Scenario.maxRuns /\ runs' = runs + 1 /\ changes' = changes
      /\ seen' = seen /\ plan' = plan /\ toPrepare' = toPrepare /\ unprepared' = unprepared
      /\ left' = left /\ dels' = dels /\ problem' = problem /\ atScan' = atScan
      /\ steady' = TRUE /\ hurt' = {} /\ faulted' = FALSE /\ fixable' = fixable /\ intact' = intact
  BY DEF Begin, run
<1>2. Scenario' = Scenario
  BY <1>1, SameScenario
<1>3. runs' \in 0..Scenario.maxRuns
  BY <1>1, BoundsAre DEF Sound, Shape
<1>4. Shape'
  BY <1>1, <1>2, <1>3 DEF Sound, Shape, Stages, Results
<1>5. Resting' /\ Planned' /\ Compared' /\ Steps'
  BY <1>1 DEF Sound, Resting, Fresh, Planned, Compared, Steps
<1> QED
  BY <1>4, <1>5 DEF Sound

(* What a plan says for what was scanned.                                  *)
PlanFor(made, o, remote, locals) ==
  /\ made.dirs = Directories(o, remote)
  /\ made.transfers \subseteq Selected(o, remote)
  /\ \A p \in Selected(o, remote) :
       /\ made.targets[p] = TargetsOf(o, remote, locals, p)
       /\ made.targets[p] \subseteq Dests
       /\ made.targets[p] # {} <=> p \in made.transfers
       /\ made.mtime[p] = remote[p].mtime
  /\ \A d \in Dests : made.deletions[d] = Deletions(o, remote, locals[d])
  /\ made.deletions = [d \in Dests |-> made.deletions[d]]

(* What build makes is such a plan.                                        *)
LEMMA BuildIs ==
  ASSUME NEW o, NEW remote, NEW locals
  PROVE  PlanFor(Build(o, remote, locals), o, remote, locals)
BY DEF Build, TargetsOf, PlanFor

(* What a plan deletes.                                                    *)
LEMMA UnwantedIs ==
  ASSUME NEW o, NEW remote, NEW local, NEW p \in Deletions(o, remote, local)
  PROVE  /\ o.delete /\ p \notin DOMAIN remote /\ Accepts(o, p) /\ p \in DOMAIN local
         /\ p \notin Wanted(o, remote)
<1>1. o.delete /\ p \in Extraneous(o, remote, local)
  BY DEF Deletions
<1> QED
  BY <1>1 DEF Extraneous, Wanted

(* ScanAndPlan keeps the invariant.                                        *)
LEMMA ScanAndPlanSound == ASSUME Sound, ScanAndPlan PROVE Sound'
<1>1. PICK hidden \in IF Scenario.mayDeny
                   THEN SUBSET {p \in DOMAIN device : IsKind(device, p, "dir")}
                   ELSE {{}} :
       LET listed == [p \in Visible(hidden) |-> device[p]]
           remote == IF Opts.recursive THEN listed ELSE TopLevel(listed)
       IN  /\ seen' = remote /\ atScan' = remote
           /\ plan' = Build(Opts, remote, [d \in Dests |-> LocalScan(disk[d])])
           /\ fixable' = \A d \in Dests : Repairable(remote, disk[d])
  BY DEF ScanAndPlan
<1> DEFINE listed == [p \in Visible(hidden) |-> device[p]]
           remote == IF Opts.recursive THEN listed ELSE TopLevel(listed)
<1>2. /\ seen' = remote /\ atScan' = remote
      /\ plan' = Build(Opts, remote, [d \in Dests |-> LocalScan(disk[d])])
      /\ fixable' \in BOOLEAN
  BY <1>1
<1>3. hidden \in SUBSET DOMAIN device
  BY <1>1
<1>4. scenario \in DOMAIN Scenarios /\ device \in Scenario.devices /\ DeviceTree(device)
  BY DeviceIs DEF Sound, Shape
<1>5. DeviceTree(listed)
  BY <1>3, <1>4, VisibleIs
<1>6. \A p \in DOMAIN listed : p \in DOMAIN device /\ device[p] = listed[p]
  BY DEF Visible
<1> HIDE DEF listed
<1>7. DeviceTree(remote)
  BY <1>5, TopLevelIs
<1>8. \A p \in DOMAIN remote : p \in DOMAIN device /\ device[p] = remote[p]
  BY <1>6 DEF TopLevel
<1> HIDE DEF remote
<1>9. /\ scenario' = scenario /\ device' = device /\ disk' = disk /\ pc = "scan" /\ pc' = "planned"
      /\ result' = result /\ runs' = runs /\ changes' = changes
      /\ toPrepare' = toPrepare /\ unprepared' = unprepared
      /\ left' = left /\ dels' = dels /\ problem' = problem
      /\ steady' = steady /\ hurt' = hurt /\ faulted' = faulted /\ intact' = intact
  BY DEF ScanAndPlan
<1>10. Scenario' = Scenario /\ Opts' = Opts
  BY <1>9, SameScenario
<1>11. Shape'
  BY <1>2, <1>7, <1>9, <1>10 DEF Sound, Shape, Stages
<1>12. Resting' /\ Steps'
  BY <1>9 DEF Resting, Steps
<1>13. /\ left = {} /\ toPrepare = {} /\ unprepared = {} /\ problem = FALSE
       /\ dels = [d \in Dests |-> {}]
  BY <1>9 DEF Sound, Resting, Fresh
<1>14. Planned'
  <2>1. \A p \in DOMAIN remote : TempName[Last(p)] \in STRING
    BY <1>4, <1>8, DeviceIs
  <2> DEFINE locals == [d \in Dests |-> LocalScan(disk[d])]
             made == plan'
  <2>4. made = Build(Opts, remote, locals)
    BY <1>2
  <2> HIDE DEF locals, made
  <2>5. PlanFor(made, Opts, remote, locals)
    BY <2>4, BuildIs, Zenon
  <2>2. \A d \in Dests : \A p \in plan'.deletions[d] :
          Opts.delete /\ p \notin DOMAIN remote /\ Accepts(Opts, p)
    BY <2>5, UnwantedIs DEF PlanFor, made
  <2>3. /\ plan'.dirs = Directories(Opts, remote) /\ plan'.transfers \subseteq Selected(Opts, remote)
        /\ \A p \in Selected(Opts, remote) :
             plan'.targets[p] \subseteq Dests /\ plan'.mtime[p] = remote[p].mtime
    BY <2>5 DEF PlanFor, made
  <2> QED
    BY <1>2, <1>8, <1>9, <1>10, <1>13, <2>1, <2>2, <2>3 DEF Planned, Unwanted
<1> QED
  <2>1. Fresh'
    BY <1>9, <1>13 DEF Fresh
  <2>2. Compared'
    BY <1>2, <1>9, <1>10, <2>1 DEF Compared
  <2> QED
    BY <1>11, <1>12, <1>14, <2>2 DEF Sound

(* What the invariant says of the destinations.                            *)
LEMMA SameDisk ==
  ASSUME Sound
  PROVE  /\ disk = [d \in Dests |-> disk[d]] /\ \A d \in Dests : LocalTree(disk[d])
         /\ faulted \in BOOLEAN
BY DEF Sound, Shape

(* The steps that end a run keep the invariant.                            *)
LEMMA EndsSound ==
  ASSUME Sound, PlanOnly \/ End \/ ScanFails \/ TransferFails
  PROVE  Sound'
<1>1. CASE PlanOnly
  <2>1. "dry" \in Results /\ "ok" \in Results
    BY DEF Results
  <2> QED
    BY <1>1, <2>1, FinishReportingSound DEF PlanOnly
<1>2. CASE End
  <2>1. "partial" \in Results /\ "ok" \in Results
    BY DEF Results
  <2> QED
    BY <1>2, <2>1, FinishReportingSound DEF End
<1>3. CASE ScanFails
  <2>1. "failed" \in Results
    BY DEF Results
  <2> QED
    BY <1>3, <2>1, SameDisk, FinishSound DEF ScanFails
<1>4. CASE TransferFails
  <2>1. "failed" \in Results
    BY DEF Results
  <2> QED
    BY <1>4, <2>1, SameDisk, FinishSound DEF TransferFails
<1> QED
  BY <1>1, <1>2, <1>3, <1>4

(* Crash keeps the invariant.                                              *)
LEMMA CrashSound == ASSUME Sound, Crash PROVE Sound'
<1>1. disk' = [d \in Dests |-> disk'[d]] /\ \A d \in Dests : LocalTree(disk'[d])
  BY CrashStep DEF CrashOf
<1>2. "crashed" \in Results
  BY DEF Results
<1>3. /\ Finish("crashed") /\ device' = device /\ runs' = runs /\ changes' = changes
      /\ atScan' = atScan /\ steady' = steady /\ hurt' = hurt /\ faulted' = faulted /\ fixable' = fixable
  BY DEF Crash, Rest
<1> QED
  BY <1>1, <1>2, <1>3, SameDisk, FinishSound

(* StartWork keeps the invariant.                                          *)
LEMMA StartWorkSound == ASSUME Sound, StartWork PROVE Sound'
<1>1. /\ scenario' = scenario /\ device' = device /\ disk' = disk /\ pc = "planned" /\ pc' = "prepare"
      /\ result' = result /\ runs' = runs /\ changes' = changes /\ seen' = seen /\ plan' = plan
      /\ toPrepare' = Dests /\ unprepared' = unprepared /\ left' = plan.transfers
      /\ dels' = plan.deletions /\ problem' = problem /\ atScan' = atScan /\ steady' = steady
      /\ hurt' = hurt /\ faulted' = faulted /\ fixable' = fixable /\ intact' = intact
  BY DEF StartWork, history
<1>2. Scenario' = Scenario /\ Opts' = Opts
  BY <1>1, SameScenario
<1>3. Shape'
  BY <1>1, <1>2 DEF Sound, Shape, Stages
<1>4. Resting' /\ Compared' /\ Steps'
  BY <1>1 DEF Resting, Compared, Steps
<1>5. Planned'
  <2>1. PlanFor(plan, Opts, seen, [d \in Dests |-> LocalScan(disk[d])])
    BY <1>1, BuildIs, Zenon DEF Sound, Compared
  <2>2. plan.deletions = [d \in Dests |-> plan.deletions[d]]
    BY <2>1 DEF PlanFor
  <2> QED
    BY <1>1, <1>2, <2>2 DEF Sound, Planned, Unwanted
<1> QED
  BY <1>3, <1>4, <1>5 DEF Sound

(* PrepareDest keeps the invariant.                                        *)
LEMMA PrepareDestSound == ASSUME Sound, PrepareDest PROVE Sound'
<1>1. /\ scenario' = scenario /\ device' = device /\ pc = "prepare" /\ pc' = "prepare"
      /\ result' = result /\ runs' = runs /\ changes' = changes /\ seen' = seen /\ plan' = plan
      /\ left' = left /\ dels' = dels /\ problem' = problem
      /\ atScan' = atScan /\ steady' = steady /\ fixable' = fixable /\ intact' = intact
  BY DEF PrepareDest
<1>2. Scenario' = Scenario /\ Opts' = Opts
  BY <1>1, SameScenario
<1>3. PICK e \in Dests : PrepareOf(e)
  BY PrepareStep
<1>4. /\ disk' = [d \in Dests |-> disk'[d]] /\ \A d \in Dests : LocalTree(disk'[d])
      /\ toPrepare' \subseteq Dests /\ unprepared' \subseteq Dests /\ hurt' \subseteq Dests
  BY <1>3 DEF Sound, Shape, PrepareOf, Becomes
<1>5. faulted' \in BOOLEAN
  BY DEF PrepareDest, Sound, Shape
<1>6. Shape'
  BY <1>1, <1>2, <1>4, <1>5 DEF Sound, Shape, Stages
<1>7. Resting' /\ Compared' /\ Steps'
  BY <1>1 DEF Resting, Compared, Steps
<1>8. Planned'
  BY <1>1, <1>2 DEF Sound, Planned, Unwanted
<1> QED
  BY <1>6, <1>7, <1>8 DEF Sound

(* Prepared keeps the invariant.                                           *)
LEMMA PreparedSound == ASSUME Sound, Prepared PROVE Sound'
<1>1. /\ device' = device /\ disk' = disk /\ runs' = runs /\ changes' = changes
      /\ atScan' = atScan /\ steady' = steady /\ hurt' = hurt /\ faulted' = faulted
      /\ fixable' = fixable /\ pc = "prepare" /\ toPrepare = {}
  BY DEF Prepared, Rest
<1>2. CASE Finish("failed")
  <2>1. "failed" \in Results
    BY DEF Results
  <2> QED
    BY <1>1, <1>2, <2>1, SameDisk, FinishSound
<1>3. CASE pc' = "fetch" /\ UNCHANGED <<scenario, run, result, intact>>
  <2>1. /\ scenario' = scenario /\ pc' = "fetch" /\ result' = result /\ seen' = seen /\ plan' = plan
        /\ toPrepare' = toPrepare /\ unprepared' = unprepared /\ left' = left /\ dels' = dels
        /\ problem' = problem /\ intact' = intact
    BY <1>3 DEF run
  <2>2. Scenario' = Scenario /\ Opts' = Opts
    BY <2>1, SameScenario
  <2>3. Shape'
    BY <1>1, <2>1, <2>2 DEF Sound, Shape, Stages
  <2>4. Resting' /\ Compared' /\ Steps'
    BY <1>1, <2>1 DEF Resting, Compared, Steps
  <2>5. Planned'
    BY <1>1, <2>1, <2>2 DEF Sound, Planned, Unwanted
  <2> QED
    BY <2>3, <2>4, <2>5 DEF Sound
<1> QED
  BY <1>2, <1>3 DEF Prepared

(* FetchFile keeps the invariant.                                          *)
LEMMA FetchFileSound == ASSUME Sound, FetchFile PROVE Sound'
<1>1. /\ scenario' = scenario /\ device' = device /\ pc = "fetch" /\ pc' = "fetch"
      /\ result' = result /\ runs' = runs /\ changes' = changes /\ seen' = seen /\ plan' = plan
      /\ toPrepare' = toPrepare /\ unprepared' = unprepared /\ dels' = dels
      /\ atScan' = atScan /\ steady' = steady /\ fixable' = fixable /\ intact' = intact
  BY DEF FetchFile
<1>2. Scenario' = Scenario /\ Opts' = Opts
  BY <1>1, SameScenario
<1>3. PICK p \in left : \E good \in SUBSET Placeable(p) : FetchOf(p, good)
  BY FetchStep
<1>4. PICK good \in SUBSET Placeable(p) : FetchOf(p, good)
  BY <1>3
<1>5. p \in Selected(Opts, seen)
  BY <1>1 DEF Sound, Planned
<1>6. Targets(p) \subseteq Dests
  BY <1>1, <1>5, LeftIs
<1>7. /\ disk' = [d \in Dests |-> disk'[d]] /\ \A d \in Dests : LocalTree(disk'[d])
      /\ hurt' \subseteq Dests /\ problem' \in BOOLEAN /\ left' \subseteq left
  BY <1>4, <1>6 DEF Sound, Shape, FetchOf, Becomes
<1>8. faulted' \in BOOLEAN
  BY DEF FetchFile, Sound, Shape
<1>9. Shape'
  BY <1>1, <1>2, <1>7, <1>8 DEF Sound, Shape, Stages
<1>10. Resting' /\ Compared' /\ Steps'
  BY <1>1 DEF Sound, Resting, Compared, Steps
<1>11. Planned'
  BY <1>1, <1>2, <1>7 DEF Sound, Planned, Unwanted
<1> QED
  BY <1>9, <1>10, <1>11 DEF Sound

(* Transferred keeps the invariant.                                        *)
LEMMA TransferredSound == ASSUME Sound, Transferred PROVE Sound'
<1>1. /\ scenario' = scenario /\ device' = device /\ disk' = disk /\ pc = "fetch" /\ pc' = "delete"
      /\ result' = result /\ runs' = runs /\ changes' = changes /\ seen' = seen /\ plan' = plan
      /\ toPrepare' = toPrepare /\ unprepared' = unprepared /\ left' = left /\ left = {}
      /\ dels' = dels /\ problem' = problem /\ atScan' = atScan /\ steady' = steady
      /\ hurt' = hurt /\ faulted' = faulted /\ fixable' = fixable /\ intact' = intact
  BY DEF Transferred, run, history
<1>2. Scenario' = Scenario /\ Opts' = Opts
  BY <1>1, SameScenario
<1>3. Shape'
  BY <1>1, <1>2 DEF Sound, Shape, Stages
<1>4. Resting' /\ Compared' /\ Steps'
  BY <1>1 DEF Sound, Resting, Compared, Steps
<1>5. Planned'
  BY <1>1, <1>2 DEF Sound, Planned, Unwanted
<1> QED
  BY <1>3, <1>4, <1>5 DEF Sound

(* DeleteNext keeps the invariant.                                         *)
LEMMA DeleteNextSound == ASSUME Sound, DeleteNext PROVE Sound'
<1>1. /\ scenario' = scenario /\ device' = device /\ pc = "delete" /\ pc' = "delete"
      /\ result' = result /\ runs' = runs /\ changes' = changes /\ seen' = seen /\ plan' = plan
      /\ toPrepare' = toPrepare /\ unprepared' = unprepared /\ left' = left
      /\ atScan' = atScan /\ steady' = steady /\ fixable' = fixable /\ intact' = intact
  BY DEF DeleteNext
<1>2. Scenario' = Scenario /\ Opts' = Opts
  BY <1>1, SameScenario
<1>3. PICK e \in Dests : \E p \in dels[e] : DeleteOf(e, p)
  BY DeleteStep
<1>4. PICK p \in dels[e] : DeleteOf(e, p)
  BY <1>3
<1>5. /\ disk' = [d \in Dests |-> disk'[d]] /\ \A d \in Dests : LocalTree(disk'[d])
      /\ hurt' \subseteq Dests /\ problem' \in BOOLEAN
  BY <1>4 DEF Sound, Shape, DeleteOf, Becomes
<1>6. dels = [d \in Dests |-> dels[d]]
  BY <1>1 DEF Sound, Planned
<1>7. dels' = [d \in Dests |-> dels'[d]] /\ \A d \in Dests : dels'[d] \subseteq dels[d]
  BY <1>4, <1>6 DEF DeleteOf
<1>8. faulted' \in BOOLEAN
  BY DEF DeleteNext, Removable, Sound, Shape
<1>9. Shape'
  BY <1>1, <1>2, <1>5, <1>8 DEF Sound, Shape, Stages
<1>10. Resting' /\ Compared' /\ Steps'
  BY <1>1 DEF Sound, Resting, Compared, Steps
<1>11. Planned'
  BY <1>1, <1>2, <1>7 DEF Sound, Planned, Unwanted
<1> QED
  BY <1>9, <1>10, <1>11 DEF Sound

(* DeviceChanges keeps the invariant.                                      *)
LEMMA DeviceChangesSound == ASSUME Sound, DeviceChanges PROVE Sound'
<1>1. /\ scenario' = scenario /\ device' \in Scenario.devices /\ disk' = disk /\ pc' = pc
      /\ result' = result /\ runs' = runs /\ changes < Scenario.maxChanges /\ changes' = changes + 1
      /\ seen' = seen /\ plan' = plan
      /\ toPrepare' = toPrepare /\ unprepared' = unprepared /\ left' = left /\ dels' = dels
      /\ problem' = problem /\ atScan' = atScan /\ hurt' = hurt /\ faulted' = faulted
      /\ fixable' = fixable /\ intact' = FALSE /\ steady' \in BOOLEAN
      /\ steady' => pc \in {"idle", "scan"}
  BY DEF DeviceChanges, run, Sound, Shape
<1>2. Scenario' = Scenario /\ Opts' = Opts
  BY <1>1, SameScenario
<1>3. changes' \in 0..Scenario.maxChanges
  BY <1>1, BoundsAre DEF Sound, Shape
<1>4. Shape'
  BY <1>1, <1>2, <1>3 DEF Sound, Shape
<1>5. Resting' /\ Steps'
  BY <1>1 DEF Sound, Resting, Fresh, Steps
<1>6. Compared'
  BY <1>1, <1>2 DEF Sound, Compared, Fresh
<1>7. Planned'
  BY <1>1, <1>2 DEF Sound, Planned, Unwanted
<1> QED
  BY <1>4, <1>5, <1>6, <1>7 DEF Sound

(* UserRemoves keeps the invariant.                                        *)
LEMMA UserRemovesSound == ASSUME Sound, UserRemoves PROVE Sound'
<1>1. /\ scenario' = scenario /\ device' = device /\ pc = "idle" /\ pc' = "idle"
      /\ result' = "none" /\ runs' = runs /\ changes < Scenario.maxChanges /\ changes' = changes + 1
      /\ seen' = seen /\ plan' = plan
      /\ toPrepare' = toPrepare /\ unprepared' = unprepared /\ left' = left /\ dels' = dels
      /\ problem' = problem /\ atScan' = atScan /\ steady' = steady /\ hurt' = hurt
      /\ faulted' = faulted /\ fixable' = fixable /\ intact' = FALSE
  BY DEF UserRemoves, run, Rest
<1>2. Scenario' = Scenario
  BY <1>1, SameScenario
<1>3. changes' \in 0..Scenario.maxChanges
  BY <1>1, BoundsAre DEF Sound, Shape
<1>4. PICK d \in Dests : \E p \in DOMAIN disk[d] :
       IsKind(disk[d], p, "file") /\ disk' = [disk EXCEPT ![d] = Without(disk[d], {p})]
  BY DEF UserRemoves
<1>5. PICK p \in DOMAIN disk[d] :
       IsKind(disk[d], p, "file") /\ disk' = [disk EXCEPT ![d] = Without(disk[d], {p})]
  BY <1>4
<1>6. LocalTree(disk[d]) /\ p \in Path /\ Removable(disk[d], p)
  BY <1>5, SameDisk, LocalTreeIs DEF Removable, IsKind
<1>7. LocalTree(Without(disk[d], {p}))
  BY <1>6, RemovedIs DEF Becomes
<1>8. disk' = [e \in Dests |-> disk'[e]] /\ \A e \in Dests : LocalTree(disk'[e])
  BY <1>5, <1>7, SameDisk
<1>9. Shape'
  BY <1>1, <1>2, <1>3, <1>8 DEF Sound, Shape, Stages, Results
<1>10. Resting' /\ Planned' /\ Compared' /\ Steps'
  BY <1>1 DEF Sound, Resting, Fresh, Planned, Compared, Steps
<1> QED
  BY <1>9, <1>10 DEF Sound

(* A step in which nothing happens keeps the invariant.                    *)
LEMMA StutterSound == ASSUME Sound, UNCHANGED vars PROVE Sound'
<1>1. /\ scenario' = scenario /\ device' = device /\ disk' = disk /\ pc' = pc
      /\ result' = result /\ runs' = runs /\ changes' = changes /\ seen' = seen /\ plan' = plan
      /\ toPrepare' = toPrepare /\ unprepared' = unprepared /\ left' = left
      /\ dels' = dels /\ problem' = problem /\ atScan' = atScan /\ steady' = steady
      /\ hurt' = hurt /\ faulted' = faulted /\ fixable' = fixable /\ intact' = intact
  BY DEF vars, run, history
<1>2. Scenario' = Scenario /\ Opts' = Opts
  BY <1>1, SameScenario
<1>3. Shape'
  BY <1>1, <1>2 DEF Sound, Shape
<1>4. Resting' /\ Steps'
  BY <1>1 DEF Sound, Resting, Fresh, Steps
<1>5. Compared'
  BY <1>1, <1>2 DEF Sound, Compared, Fresh
<1>6. Planned'
  BY <1>1, <1>2 DEF Sound, Planned, Unwanted
<1> QED
  BY <1>3, <1>4, <1>5, <1>6 DEF Sound

(* Every step keeps the invariant.                                         *)
LEMMA SoundStep == ASSUME Sound, [Next]_vars PROVE Sound'
<1>1. CASE Begin
  BY <1>1, BeginSound
<1>2. CASE ScanAndPlan
  BY <1>2, ScanAndPlanSound
<1>3. CASE PlanOnly \/ End \/ ScanFails \/ TransferFails
  BY <1>3, EndsSound
<1>4. CASE StartWork
  BY <1>4, StartWorkSound
<1>5. CASE PrepareDest
  BY <1>5, PrepareDestSound
<1>6. CASE Prepared
  BY <1>6, PreparedSound
<1>7. CASE FetchFile
  BY <1>7, FetchFileSound
<1>8. CASE Transferred
  BY <1>8, TransferredSound
<1>9. CASE DeleteNext
  BY <1>9, DeleteNextSound
<1>10. CASE Crash
  BY <1>10, CrashSound
<1>11. CASE DeviceChanges
  BY <1>11, DeviceChangesSound
<1>12. CASE UserRemoves
  BY <1>12, UserRemovesSound
<1>13. CASE UNCHANGED vars
  BY <1>13, StutterSound
<1> QED
  BY <1>1, <1>2, <1>3, <1>4, <1>5, <1>6, <1>7, <1>8, <1>9, <1>10, <1>11, <1>12, <1>13
     DEF Next, Work

(* The shape of the variables, and of the plan, in every run.              *)
THEOREM PlanInvariance == Spec => []Sound
<1>1. Sound /\ [Next]_vars => Sound'
  BY SoundStep
<1> QED
  BY <1>1, SoundInit, PTL DEF Spec

(* The type of the variables: whatever fails, and whatever a crash leaves, *)
(* every destination holds a tree.                                         *)
THEOREM TypesCorrect == Spec => []TypeOK
<1>1. Sound => TypeOK
  <2> SUFFICES ASSUME Sound PROVE TypeOK
    OBVIOUS
  <2>1. DeviceTree(device)
    BY DeviceIs DEF Sound, Shape
  <2>2. left \subseteq plan.transfers
    BY DEF Sound, Shape, Stages, Resting, Fresh, Planned
  <2> QED
    BY <2>1, <2>2 DEF TypeOK, Sound, Shape, Stages, Results
<1> QED
  BY <1>1, PlanInvariance, PTL

-----------------------------------------------------------------------------
(* What a run removes.                                                     *)
Removal ==
  pc # "idle" =>
     \A d \in Dests : \A p \in DOMAIN disk[d] \ DOMAIN disk'[d] :
       \/ \E q \in DOMAIN seen : p = TempOf(q)
       \/ ThroughLink(disk[d], p)
       \/ Opts.delete /\ p \notin DOMAIN seen /\ Accepts(Opts, p)

(* What a transfer removes is what a run may remove.                       *)
LEMMA LosesOnlyTemps ==
  ASSUME Sound, pc = "fetch", NEW q \in left, NEW d \in Dests, Loses(disk[d], disk'[d], q)
  PROVE  \A p \in DOMAIN disk[d] \ DOMAIN disk'[d] :
           (\E r \in DOMAIN seen : p = TempOf(r)) \/ ThroughLink(disk[d], p)
<1>1. q \in DOMAIN seen
  BY DEF Sound, Planned, Selected, Wanted
<1> QED
  BY <1>1 DEF Loses

(* No step of a run removes more than it may.                              *)
LEMMA RemovalStep == ASSUME Sound, [Next]_vars PROVE Removal
<1>1. CASE UNCHANGED disk
  BY <1>1 DEF Removal
<1>2. CASE PrepareDest
  <2>1. PICK e \in Dests : PrepareOf(e)
    BY <1>2, PrepareStep
  <2>2. \A d \in Dests : DOMAIN disk[d] \subseteq DOMAIN disk'[d]
    BY <2>1 DEF PrepareOf, Becomes
  <2> QED
    BY <2>2 DEF Removal
<1>3. CASE FetchFile
  <2>1. PICK p \in left : \E good \in SUBSET Placeable(p) : FetchOf(p, good)
    BY <1>3, FetchStep
  <2>2. PICK good \in SUBSET Placeable(p) : FetchOf(p, good)
    BY <2>1
  <2>3. ASSUME NEW d \in Dests
        PROVE  disk'[d] = disk[d] \/ Loses(disk[d], disk'[d], p)
    BY <2>2 DEF FetchOf
  <2>4. pc = "fetch"
    BY <1>3 DEF FetchFile
  <2> QED
    BY <2>3, <2>4, LosesOnlyTemps DEF Removal
<1>4. CASE DeleteNext
  <2>1. PICK e \in Dests : \E p \in dels[e] : DeleteOf(e, p)
    BY <1>4, DeleteStep
  <2>2. PICK p \in dels[e] : DeleteOf(e, p)
    BY <2>1
  <2>3. \A d \in Dests : \A q \in DOMAIN disk[d] \ DOMAIN disk'[d] : q = p
    BY <2>2 DEF DeleteOf, Becomes
  <2>4. Unwanted(p)
    BY <1>4 DEF DeleteNext, Sound, Planned
  <2> QED
    BY <2>3, <2>4 DEF Removal, Unwanted
<1>5. CASE Crash
  <2>1. \A d \in Dests : disk'[d] = disk[d] \/ \E p \in left : pc = "fetch" /\ Loses(disk[d], disk'[d], p)
    BY <1>5, CrashStep DEF CrashOf
  <2> QED
    BY <2>1, LosesOnlyTemps DEF Removal
<1>6. CASE UserRemoves
  BY <1>6 DEF UserRemoves, Removal
<1>7. CASE Begin \/ ScanAndPlan \/ StartWork \/ DeviceChanges
  BY <1>1, <1>7 DEF Begin, ScanAndPlan, StartWork, DeviceChanges
<1>8. CASE PlanOnly \/ End \/ ScanFails \/ TransferFails
  BY <1>1, <1>8 DEF PlanOnly, End, ScanFails, TransferFails
<1>9. CASE Prepared \/ Transferred \/ UNCHANGED vars
  BY <1>1, <1>9 DEF Prepared, Transferred, vars
<1> QED
  BY <1>2, <1>3, <1>4, <1>5, <1>6, <1>7, <1>8, <1>9 DEF Next, Work

(* A run takes nothing from a destination but temporary files, what is     *)
(* seen through a link that a file replaces and, with --delete, what the   *)
(* filter accepts and the scan did not find.                               *)
THEOREM RemovesCorrect == Spec => RemovesOnlyExtraneous
<1>1. Sound /\ [Next]_vars => [Removal]_vars
  BY RemovalStep
<1> QED
  BY <1>1, PlanInvariance, PTL DEF Spec, RemovesOnlyExtraneous, Removal

-----------------------------------------------------------------------------
(* Failures are on record.                                                 *)

(* Every step keeps the failures on record.                                *)
LEMMA AccountedStep == ASSUME Sound, Accounted, [Next]_vars PROVE Accounted'
<1>1. CASE Begin
  BY <1>1 DEF Begin, Accounted
<1>2. CASE ScanAndPlan
  BY <1>2 DEF ScanAndPlan, Accounted
<1>3. CASE PlanOnly
  BY <1>3 DEF PlanOnly, FinishReporting, Finish, Accounted
<1>4. CASE StartWork
  BY <1>4 DEF StartWork, history, Accounted, Sound, Compared, Fresh
<1>5. CASE PrepareDest
  <2>1. PICK e \in Dests : PrepareOf(e)
    BY <1>5, PrepareStep
  <2>2. pc = "prepare" /\ pc' = "prepare" /\ problem' = problem
    BY <1>5 DEF PrepareDest
  <2> QED
    BY <2>1, <2>2 DEF PrepareOf, Accounted
<1>6. CASE Prepared
  BY <1>6 DEF Prepared, Finish, Rest, run, Accounted
<1>7. CASE FetchFile
  <2>1. PICK p \in left : \E good \in SUBSET Placeable(p) : FetchOf(p, good)
    BY <1>7, FetchStep
  <2>2. PICK good \in SUBSET Placeable(p) : FetchOf(p, good)
    BY <2>1
  <2>3. pc = "fetch" /\ pc' = "fetch" /\ unprepared' = unprepared
    BY <1>7 DEF FetchFile
  <2>4. hurt' = hurt \union (Targets(p) \ good) /\ problem' = (problem \/ good # Targets(p))
    BY <2>2 DEF FetchOf
  <2>5. good \subseteq Targets(p)
    BY PlaceableIs
  <2>6. CASE good = Targets(p)
    BY <2>3, <2>4, <2>6 DEF Accounted
  <2>7. CASE good # Targets(p)
    BY <2>3, <2>4, <2>7 DEF Accounted
  <2> QED
    BY <2>6, <2>7
<1>8. CASE Transferred
  BY <1>8 DEF Transferred, run, history, Accounted
<1>9. CASE DeleteNext
  <2>1. PICK e \in Dests : \E p \in dels[e] : DeleteOf(e, p)
    BY <1>9, DeleteStep
  <2>2. PICK p \in dels[e] : DeleteOf(e, p)
    BY <2>1
  <2>3. pc = "delete" /\ pc' = "delete" /\ unprepared' = unprepared
    BY <1>9 DEF DeleteNext
  <2> QED
    BY <2>2, <2>3 DEF DeleteOf, Accounted
<1>10. CASE End
  BY <1>10 DEF End, FinishReporting, Finish, CleanReport, Accounted
<1>11. CASE ScanFails \/ TransferFails \/ Crash
  BY <1>11 DEF ScanFails, TransferFails, Crash, Finish, Rest, Accounted
<1>12. CASE DeviceChanges
  BY <1>12 DEF DeviceChanges, run, Accounted
<1>13. CASE UserRemoves
  BY <1>13 DEF UserRemoves, Accounted
<1>14. CASE UNCHANGED vars
  BY <1>14 DEF vars, run, history, Accounted
<1> QED
  BY <1>1, <1>2, <1>3, <1>4, <1>5, <1>6, <1>7, <1>8, <1>9, <1>10, <1>11, <1>12, <1>13, <1>14
     DEF Next, Work

-----------------------------------------------------------------------------
(* What a destination has stays.                                           *)

(* Mirrors is MirrorsBy, under the options.                                *)
LEMMA MirrorsIs ==
  ASSUME NEW remote, NEW local
  PROVE  Mirrors(remote, local) <=> MirrorsBy(Opts, remote, local)
BY DEF Mirrors, MirrorsBy, Held, HeldBy, IsDir

(* What a destination has is there.                                        *)
LEMMA HeldIsThere ==
  ASSUME NEW o, NEW remote, NEW t, NEW p, HeldBy(o, remote, t, p)
  PROVE  p \in DOMAIN t
BY DEF HeldBy, UpToDate, IsKind, AsRead

(* What a destination has, it has as long as the copy stays.               *)
LEMMA HeldStays ==
  ASSUME NEW o, NEW remote, NEW t, NEW m, NEW p, HeldBy(o, remote, t, p),
         p \in DOMAIN m, m[p] = t[p]
  PROVE  HeldBy(o, remote, m, p)
<1>1. p \in DOMAIN t
  BY HeldIsThere
<1>2. p \in DOMAIN AsRead(m) /\ p \in DOMAIN AsRead(t) /\ AsRead(m)[p] = AsRead(t)[p]
  BY <1>1 DEF AsRead
<1>3. UpToDate(o, remote, t, p) => UpToDate(o, remote, m, p)
  BY <1>1 DEF UpToDate, IsKind
<1>4. UpToDate(o, remote, AsRead(t), p) => UpToDate(o, remote, AsRead(m), p)
  BY <1>2 DEF UpToDate, IsKind
<1>5. IsKind(t, p, "file") => IsKind(m, p, "file")
  BY DEF IsKind
<1> QED
  BY <1>3, <1>4, <1>5 DEF HeldBy

(* What a change neither placed nor removed is as it was.                  *)
LEMMA BecomesKeeps ==
  ASSUME NEW t, NEW m, NEW placed, NEW made, NEW gone, Becomes(t, m, placed, made, gone),
         NEW q \in DOMAIN t, q \notin placed, q \notin gone
  PROVE  q \in DOMAIN m /\ m[q] = t[q]
BY DEF Becomes

(* What a scan finds after a change, and did not find before, the change   *)
(* made.                                                                   *)
LEMMA NewInScan ==
  ASSUME NEW t, NEW m, NEW placed, NEW made, NEW gone, Becomes(t, m, placed, made, gone),
         NEW q \in DOMAIN LocalScan(m)
  PROVE  \/ q \in placed \/ q \in made
         \/ q \in DOMAIN LocalScan(t) /\ m[q] = t[q]
<1>1. q \in DOMAIN m /\ ~ThroughLink(m, q)
  BY DEF LocalScan
<1>2. CASE q \notin placed /\ q \notin made
  <2>1. q \in DOMAIN t /\ m[q] = t[q]
    BY <1>1, <1>2 DEF Becomes
  <2>2. ~ThroughLink(t, q)
    BY <1>1, <1>2, <2>1 DEF Becomes
  <2> QED
    BY <2>1, <2>2 DEF LocalScan
<1> QED
  BY <1>2

(* While the device stays as it was scanned, no name that the scan found   *)
(* is that of another's temporary file.                                    *)
LEMMA SeenApart ==
  ASSUME NamesApart, Sound, pc \in {"planned", "prepare", "fetch", "delete"}, steady
  PROVE  \A p, q \in DOMAIN seen : q # TempOf(p)
<1>1. DOMAIN seen \subseteq DOMAIN device
  BY DEF Sound, Planned
<1>2. scenario \in DOMAIN Scenarios /\ device \in Scenarios[scenario].devices
  BY DEF Sound, Shape, Scenario
<1> QED
  BY <1>1, <1>2 DEF NamesApart

(* The copy that a successful transfer leaves is one.                      *)
LEMMA CopyIsHeld ==
  ASSUME Sound, pc \in {"planned", "prepare", "fetch", "delete"}, steady,
         NEW p \in Selected(Opts, seen), NEW m, p \in DOMAIN m, m[p] = Content(p, Mtime(p))
  PROVE  HeldBy(Opts, seen, m, p)
<1>1. p \in DOMAIN seen /\ IsKind(seen, p, "file") /\ Mtime(p) \in Int /\ seen[p] \in Node
  BY LeftIs
<1>2. device[p] = seen[p] /\ IsKind(device, p, "file")
  BY <1>1 DEF Sound, Planned, IsKind
<1>3. /\ m[p].kind = "file" /\ m[p].size = seen[p].size /\ m[p].data = seen[p].data
      /\ m[p].mtime = Mtime(p)
  BY <1>1, <1>2, ContentIs
<1>4. CASE Opts.preserveMtime
  <2>1. m[p].mtime = seen[p].mtime /\ seen[p].mtime \in Int
    BY <1>1, <1>3, <1>4 DEF Mtime, Sound, Planned, Node
  <2>2. Abs(m[p].mtime - seen[p].mtime) = 0
    BY <2>1 DEF Abs
  <2>3. Opts.tolerance \in Nat
    BY ToleranceIs DEF Sound, Shape
  <2>4. QuickCheck(Opts, seen[p], m[p])
    BY <1>3, <2>2, <2>3 DEF QuickCheck
  <2> QED
    BY <1>3, <2>4 DEF HeldBy, UpToDate, IsKind
<1>5. CASE ~Opts.preserveMtime
  BY <1>3, <1>5 DEF HeldBy, IsKind
<1> QED
  BY <1>4, <1>5

-----------------------------------------------------------------------------
(* A run towards a mirror.                                                 *)

(* The plan has whatever a destination lacks.                              *)
LEMMA StartWorkHealthy ==
  ASSUME Sound, StartWork, NEW d \in Dests
  PROVE  FilesDue(d)' /\ DirsDue(d)' /\ Leftovers(d)'
<1>1. /\ scenario' = scenario /\ disk' = disk /\ pc = "planned" /\ seen' = seen /\ plan' = plan
      /\ toPrepare' = Dests /\ left' = plan.transfers /\ dels' = plan.deletions
  BY DEF StartWork
<1>2. Opts' = Opts
  BY <1>1, SameScenario
<1> DEFINE locals == [e \in Dests |-> LocalScan(disk[e])]
<1>3. PlanFor(plan, Opts, seen, locals)
  BY <1>1, BuildIs, Zenon DEF Sound, Compared
<1>4. locals[d] = LocalScan(disk[d])
  OBVIOUS
<1> HIDE DEF locals
<1>5. ASSUME NEW p \in Selected(Opts, seen)
      PROVE  HeldBy(Opts, seen, disk[d], p) \/ (p \in plan.transfers /\ d \in plan.targets[p])
  <2>1. plan.targets[p] = TargetsOf(Opts, seen, locals, p)
    BY <1>3 DEF PlanFor
  <2>2. CASE d \in plan.targets[p]
    BY <1>3, <2>2 DEF PlanFor
  <2>3. CASE d \notin plan.targets[p]
    <3>1. UpToDate(Opts, seen, LocalScan(disk[d]), p)
      BY <1>4, <2>1, <2>3 DEF TargetsOf
    <3>2. p \in DOMAIN LocalScan(disk[d])
      BY <3>1 DEF UpToDate, IsKind
    <3>3. p \in DOMAIN AsRead(disk[d]) /\ LocalScan(disk[d])[p] = AsRead(disk[d])[p]
      BY <3>2 DEF LocalScan, AsRead
    <3>4. UpToDate(Opts, seen, AsRead(disk[d]), p)
      BY <3>1, <3>3 DEF UpToDate, IsKind
    <3> QED
      BY <3>4 DEF HeldBy
  <2> QED
    BY <2>2, <2>3
<1>6. FilesDue(d)'
  BY <1>1, <1>2, <1>5 DEF FilesDue
<1>7. DirsDue(d)'
  BY <1>1 DEF DirsDue
<1>8. ASSUME Opts.delete, NEW p \in DOMAIN LocalScan(disk[d])
      PROVE  p \in Wanted(Opts, seen) \/ ~Accepts(Opts, p) \/ p \in plan.deletions[d]
  <2>1. plan.deletions[d] = Extraneous(Opts, seen, LocalScan(disk[d]))
    BY <1>3, <1>4, <1>8 DEF PlanFor, Deletions
  <2> QED
    BY <1>8, <2>1 DEF Extraneous
<1>9. Leftovers(d)'
  BY <1>1, <1>2, <1>8 DEF Leftovers
<1> QED
  BY <1>6, <1>7, <1>9

(* PrepareDest keeps what a destination has, and makes its directories.    *)
LEMMA PrepareHealthy ==
  ASSUME Sound, PrepareDest, NEW d \in Dests, d \notin hurt',
         FilesDue(d), DirsDue(d), Leftovers(d)
  PROVE  FilesDue(d)' /\ DirsDue(d)' /\ Leftovers(d)'
<1>1. /\ scenario' = scenario /\ pc = "prepare" /\ seen' = seen /\ plan' = plan
      /\ left' = left /\ dels' = dels
  BY DEF PrepareDest
<1>2. Opts' = Opts
  BY <1>1, SameScenario
<1>3. PICK e \in Dests : PrepareOf(e)
  BY PrepareStep
<1>4. plan.dirs = Directories(Opts, seen) /\ DeviceTree(seen)
  BY <1>1 DEF Sound, Shape, Planned
<1>5. CASE e # d
  <2>1. disk'[d] = disk[d] /\ (d \notin toPrepare' => d \notin toPrepare)
    BY <1>3, <1>5 DEF PrepareOf
  <2> QED
    BY <1>1, <1>2, <2>1 DEF FilesDue, DirsDue, Leftovers
<1>6. CASE e = d
  <2>1. /\ Becomes(disk[d], disk'[d], {}, AtOrAbove(plan.dirs), {})
        /\ \A p \in plan.dirs : IsDir(disk'[d], p)
    BY <1>3, <1>6 DEF PrepareOf
  <2>2. ASSUME NEW p \in Selected(Opts, seen), HeldBy(Opts, seen, disk[d], p)
        PROVE  HeldBy(Opts, seen, disk'[d], p)
    <3>1. p \in DOMAIN disk[d]
      BY <2>2, HeldIsThere
    <3>2. p \in DOMAIN disk'[d] /\ disk'[d][p] = disk[d][p]
      BY <2>1, <3>1, BecomesKeeps
    <3> QED
      BY <2>2, <3>2, HeldStays
  <2>3. FilesDue(d)'
    BY <1>1, <1>2, <2>2 DEF FilesDue
  <2>4. DirsDue(d)'
    BY <1>1, <1>2, <1>4, <2>1 DEF DirsDue
  <2>5. AtOrAbove(plan.dirs) \subseteq DOMAIN seen
    <3>1. \A r \in DOMAIN seen, q \in Path : Below(q, r) => IsKind(seen, q, "dir")
      BY <1>4, DeviceTreeIs
    <3>2. plan.dirs \subseteq DOMAIN seen
      BY <1>4 DEF Directories, Wanted
    <3> QED
      BY <3>1, <3>2 DEF AtOrAbove, IsKind
  <2>6. ASSUME Opts.delete, NEW p \in DOMAIN LocalScan(disk'[d])
        PROVE  p \in Wanted(Opts, seen) \/ ~Accepts(Opts, p) \/ p \in dels[d] \/ Dangling(disk'[d][p])
    <3>1. \/ p \in AtOrAbove(plan.dirs)
          \/ p \in DOMAIN LocalScan(disk[d]) /\ disk'[d][p] = disk[d][p]
      BY <2>1, NewInScan
    <3>2. CASE p \in AtOrAbove(plan.dirs)
      BY <2>5, <3>2 DEF Wanted
    <3>3. CASE p \in DOMAIN LocalScan(disk[d]) /\ disk'[d][p] = disk[d][p]
      BY <2>6, <3>3 DEF Leftovers
    <3> QED
      BY <3>1, <3>2, <3>3
  <2>7. Leftovers(d)'
    BY <1>1, <1>2, <2>6 DEF Leftovers
  <2> QED
    BY <2>3, <2>4, <2>7
<1> QED
  BY <1>5, <1>6

(* FetchFile brings the file, and keeps the rest.                          *)
LEMMA FetchHealthy ==
  ASSUME NamesApart, Sound, Accounted, FetchFile, steady, NEW d \in Dests, d \notin hurt',
         FilesDue(d), DirsDue(d), Leftovers(d)
  PROVE  FilesDue(d)' /\ DirsDue(d)' /\ Leftovers(d)'
<1>1. /\ scenario' = scenario /\ pc = "fetch" /\ seen' = seen /\ plan' = plan
      /\ dels' = dels /\ toPrepare' = toPrepare
  BY DEF FetchFile
<1>2. Opts' = Opts
  BY <1>1, SameScenario
<1>3. PICK r \in left : \E good \in SUBSET Placeable(r) : FetchOf(r, good)
  BY FetchStep
<1>4. PICK good \in SUBSET Placeable(r) : FetchOf(r, good)
  BY <1>3
<1>5. /\ left' = left \ {r} /\ d \notin hurt /\ (d \in Targets(r) => d \in good)
  BY <1>4 DEF FetchOf
<1>6. r \in Selected(Opts, seen) /\ pc \in {"planned", "prepare", "fetch", "delete"}
  BY <1>1 DEF Sound, Planned
<1>7. d \notin unprepared
  BY <1>1, <1>5 DEF Accounted
<1>8. CASE d \notin Opened(r)
  <2>1. disk'[d] = disk[d] /\ d \notin good
    BY <1>4, <1>8, PlaceableIs DEF FetchOf
  <2>2. d \notin plan.targets[r]
    BY <1>5, <1>7, <2>1 DEF Targets
  <2>3. FilesDue(d)'
    BY <1>1, <1>2, <1>5, <2>1, <2>2 DEF FilesDue
  <2> QED
    BY <1>1, <1>2, <2>1, <2>3 DEF DirsDue, Leftovers
<1>9. CASE d \in Opened(r)
  <2>1. d \in good
    BY <1>5, <1>9, PlaceableIs
  <2>2. /\ Becomes(disk[d], disk'[d], {r}, Above(r), {TempOf(r)} \union Under(r))
        /\ r \in DOMAIN disk'[d] /\ disk'[d][r] = Content(r, Mtime(r))
    BY <1>4, <1>9, <2>1 DEF FetchOf
  <2>3. /\ r \in DOMAIN seen /\ r \in Wanted(Opts, seen) /\ IsKind(seen, r, "file")
        /\ \A q \in Path : Below(q, r) => q \in DOMAIN seen
        /\ \A q \in DOMAIN seen : ~Below(r, q)
    BY <1>6, LeftIs
  <2>4. \A q \in DOMAIN seen : q # TempOf(r)
    BY <1>6, <2>3, SeenApart
  <2>5. ASSUME NEW q \in DOMAIN seen, q # r, q \in DOMAIN disk[d]
        PROVE  q \in DOMAIN disk'[d] /\ disk'[d][q] = disk[d][q]
    <3>1. q \notin {TempOf(r)} \union Under(r) /\ q \notin {r}
      BY <2>3, <2>4, <2>5 DEF Under
    <3> QED
      BY <2>2, <2>5, <3>1, BecomesKeeps
  <2>6. HeldBy(Opts, seen, disk'[d], r)
    BY <1>6, <2>2, CopyIsHeld
  <2>7. ASSUME NEW p \in Selected(Opts, seen), p # r, HeldBy(Opts, seen, disk[d], p)
        PROVE  HeldBy(Opts, seen, disk'[d], p)
    <3>1. p \in DOMAIN disk[d] /\ p \in DOMAIN seen
      BY <2>7, HeldIsThere DEF Selected, Wanted
    <3>2. p \in DOMAIN disk'[d] /\ disk'[d][p] = disk[d][p]
      BY <2>5, <2>7, <3>1
    <3> QED
      BY <2>7, <3>2, HeldStays
  <2>8. FilesDue(d)'
    BY <1>1, <1>2, <1>5, <2>6, <2>7 DEF FilesDue
  <2>9. ASSUME NEW p \in Directories(Opts, seen), IsDir(disk[d], p)
        PROVE  IsDir(disk'[d], p)
    <3>1. p \in DOMAIN seen /\ p # r
      BY <2>3, <2>9 DEF Directories, Wanted, IsKind
    <3> QED
      BY <2>5, <2>9, <3>1 DEF IsDir
  <2>10. DirsDue(d)'
    BY <1>1, <1>2, <2>9 DEF DirsDue
  <2>11. ASSUME Opts.delete, NEW p \in DOMAIN LocalScan(disk'[d])
         PROVE  p \in Wanted(Opts, seen) \/ ~Accepts(Opts, p) \/ p \in dels[d] \/ Dangling(disk'[d][p])
    <3>1. \/ p \in {r} \/ p \in Above(r)
          \/ p \in DOMAIN LocalScan(disk[d]) /\ disk'[d][p] = disk[d][p]
      BY <2>2, NewInScan
    <3>2. CASE p \in {r}
      BY <2>3, <3>2
    <3>3. CASE p \in Above(r)
      BY <2>3, <3>3 DEF Above, Wanted
    <3>4. CASE p \in DOMAIN LocalScan(disk[d]) /\ disk'[d][p] = disk[d][p]
      BY <2>11, <3>4 DEF Leftovers
    <3> QED
      BY <3>1, <3>2, <3>3, <3>4
  <2>12. Leftovers(d)'
    BY <1>1, <1>2, <2>11 DEF Leftovers
  <2> QED
    BY <2>8, <2>10, <2>12
<1> QED
  BY <1>8, <1>9

(* DeleteNext removes nothing that is wanted.                              *)
LEMMA DeleteHealthy ==
  ASSUME Sound, DeleteNext, NEW d \in Dests, d \notin hurt',
         FilesDue(d), DirsDue(d), Leftovers(d)
  PROVE  FilesDue(d)' /\ DirsDue(d)' /\ Leftovers(d)'
<1>1. /\ scenario' = scenario /\ pc = "delete" /\ seen' = seen /\ plan' = plan
      /\ left' = left /\ toPrepare' = toPrepare
  BY DEF DeleteNext
<1>2. Opts' = Opts
  BY <1>1, SameScenario
<1>3. PICK e \in Dests : \E r \in dels[e] : DeleteOf(e, r)
  BY DeleteStep
<1>4. PICK r \in dels[e] : DeleteOf(e, r)
  BY <1>3
<1>5. dels = [c \in Dests |-> dels[c]]
  BY <1>1 DEF Sound, Planned
<1>6. dels'[e] = dels[e] \ {r} /\ \A c \in Dests \ {e} : dels'[c] = dels[c]
  BY <1>4, <1>5 DEF DeleteOf
<1>7. CASE e # d
  <2>1. disk'[d] = disk[d] /\ dels'[d] = dels[d]
    BY <1>4, <1>6, <1>7 DEF DeleteOf
  <2> QED
    BY <1>1, <1>2, <2>1 DEF FilesDue, DirsDue, Leftovers
<1>8. CASE e = d /\ disk'[d] = disk[d]
  <2>1. Gone(disk[d], r) \/ (Becomes(disk[d], disk'[d], {}, {}, {r}) /\ r \notin DOMAIN disk'[d])
    BY <1>4, <1>8 DEF DeleteOf
  <2>2. r \in DOMAIN disk[d] => Dangling(disk[d][r])
    BY <1>8, <2>1 DEF Gone
  <2>3. \A p \in DOMAIN LocalScan(disk[d]) : p \in DOMAIN disk[d]
    BY DEF LocalScan
  <2>4. Leftovers(d)'
    BY <1>1, <1>2, <1>6, <1>8, <2>2, <2>3 DEF Leftovers
  <2> QED
    BY <1>1, <1>2, <1>8, <2>4 DEF FilesDue, DirsDue
<1>9. CASE e = d /\ disk'[d] # disk[d]
  <2>1. Becomes(disk[d], disk'[d], {}, {}, {r}) /\ r \notin DOMAIN disk'[d]
    BY <1>4, <1>9 DEF DeleteOf
  <2>2. r \notin DOMAIN seen
    BY <1>1, <1>4 DEF Sound, Planned, Unwanted
  <2>3. ASSUME NEW q \in DOMAIN seen, q \in DOMAIN disk[d]
        PROVE  q \in DOMAIN disk'[d] /\ disk'[d][q] = disk[d][q]
    BY <2>1, <2>2, <2>3, BecomesKeeps
  <2>4. ASSUME NEW p \in Selected(Opts, seen), HeldBy(Opts, seen, disk[d], p)
        PROVE  HeldBy(Opts, seen, disk'[d], p)
    <3>1. p \in DOMAIN disk[d] /\ p \in DOMAIN seen
      BY <2>4, HeldIsThere DEF Selected, Wanted
    <3>2. p \in DOMAIN disk'[d] /\ disk'[d][p] = disk[d][p]
      BY <2>3, <3>1
    <3> QED
      BY <2>4, <3>2, HeldStays
  <2>5. FilesDue(d)'
    BY <1>1, <1>2, <2>4 DEF FilesDue
  <2>6. \A p \in Directories(Opts, seen) : IsDir(disk[d], p) => IsDir(disk'[d], p)
    BY <2>3 DEF Directories, Wanted, IsDir
  <2>7. DirsDue(d)'
    BY <1>1, <1>2, <2>6 DEF DirsDue
  <2>8. ASSUME Opts.delete, NEW p \in DOMAIN LocalScan(disk'[d])
        PROVE  p \in Wanted(Opts, seen) \/ ~Accepts(Opts, p) \/ p \in dels'[d] \/ Dangling(disk'[d][p])
    <3>1. p \in DOMAIN LocalScan(disk[d]) /\ disk'[d][p] = disk[d][p]
      BY <2>1, NewInScan
    <3>2. p \in DOMAIN disk'[d]
      BY DEF LocalScan
    <3> QED
      BY <1>6, <1>9, <2>1, <2>8, <3>1, <3>2 DEF Leftovers
  <2>9. Leftovers(d)'
    BY <1>1, <1>2, <2>8 DEF Leftovers
  <2> QED
    BY <2>5, <2>7, <2>9
<1> QED
  BY <1>7, <1>8, <1>9

(* An empty plan with nothing to remove means that the copy mirrors        *)
(* already.                                                                *)
LEMMA EmptyPlanMirrors ==
  ASSUME Sound, pc = "planned", IsEmptyPlan(plan), NEW d \in Dests
  PROVE  MirrorsBy(Opts, atScan, disk[d])
<1> DEFINE locals == [e \in Dests |-> LocalScan(disk[e])]
<1>1. PlanFor(plan, Opts, seen, locals) /\ seen = atScan
  BY BuildIs, Zenon DEF Sound, Compared, Planned
<1>2. locals[d] = LocalScan(disk[d])
  OBVIOUS
<1> HIDE DEF locals
<1>3. plan.transfers = {} /\ plan.dirs = {} /\ plan.deletions[d] = {}
  BY DEF IsEmptyPlan
<1>4. ASSUME NEW p \in Selected(Opts, seen)
      PROVE  HeldBy(Opts, seen, disk[d], p)
  <2>1. TargetsOf(Opts, seen, locals, p) = {}
    BY <1>1, <1>3 DEF PlanFor
  <2>2. UpToDate(Opts, seen, LocalScan(disk[d]), p)
    BY <1>2, <2>1 DEF TargetsOf
  <2>3. p \in DOMAIN LocalScan(disk[d])
    BY <2>2 DEF UpToDate, IsKind
  <2>4. p \in DOMAIN AsRead(disk[d]) /\ LocalScan(disk[d])[p] = AsRead(disk[d])[p]
    BY <2>3 DEF LocalScan, AsRead
  <2>5. UpToDate(Opts, seen, AsRead(disk[d]), p)
    BY <2>2, <2>4 DEF UpToDate, IsKind
  <2> QED
    BY <2>5 DEF HeldBy
<1>5. Directories(Opts, seen) = {}
  BY <1>1, <1>3 DEF PlanFor
<1>6. ASSUME Opts.delete, NEW p \in DOMAIN LocalScan(disk[d])
      PROVE  p \in Wanted(Opts, seen) \/ ~Accepts(Opts, p)
  <2>1. Extraneous(Opts, seen, LocalScan(disk[d])) = {}
    BY <1>1, <1>2, <1>3, <1>6 DEF PlanFor, Deletions
  <2> QED
    BY <1>6, <2>1 DEF Extraneous
<1> QED
  BY <1>1, <1>4, <1>5, <1>6 DEF MirrorsBy

(* When all is done, a destination without a failure mirrors the device.   *)
LEMMA EndMirrors ==
  ASSUME Sound, Healthy, pc = "delete", steady, \A e \in Dests : dels[e] = {},
         NEW d \in Dests \ hurt
  PROVE  MirrorsBy(Opts, atScan, disk[d])
<1>1. left = {} /\ toPrepare = {} /\ seen = atScan /\ dels[d] = {}
  BY DEF Sound, Steps, Planned
<1>2. FilesDue(d) /\ DirsDue(d) /\ Leftovers(d)
  BY DEF Healthy
<1>3. \A p \in Selected(Opts, seen) : HeldBy(Opts, seen, disk[d], p)
  BY <1>1, <1>2 DEF FilesDue
<1>4. \A p \in Directories(Opts, seen) : IsDir(disk[d], p)
  BY <1>1, <1>2 DEF DirsDue
<1>5. Opts.delete => \A p \in DOMAIN LocalScan(disk[d]) :
        p \in Wanted(Opts, seen) \/ ~Accepts(Opts, p) \/ Dangling(disk[d][p])
  BY <1>1, <1>2 DEF Leftovers
<1> QED
  BY <1>1, <1>3, <1>4, <1>5 DEF MirrorsBy

(* How a run may end.                                                      *)
LEMMA ReportingEnds ==
  ASSUME NEW how, FinishReporting(how)
  PROVE  /\ scenario' = scenario /\ pc' = "idle" /\ atScan' = atScan /\ steady' = steady
         /\ hurt' = hurt
         /\ \/ result' = how /\ intact' = (how = "ok" /\ steady)
            \/ result' = "unreported" /\ intact' = FALSE
BY DEF FinishReporting, Finish

(* Both ways in which a run may end well.                                  *)
LEMMA EndsHealthy ==
  ASSUME Sound, Healthy, (PlanOnly /\ ~Opts.dryRun) \/ End,
         steady, NEW d \in Dests \ hurt
  PROVE  MirrorsBy(Opts, atScan, disk[d])
<1>1. CASE PlanOnly /\ ~Opts.dryRun
  BY <1>1, EmptyPlanMirrors DEF PlanOnly
<1>2. CASE End
  BY <1>2, EndMirrors DEF End
<1> QED
  BY <1>1, <1>2

(* What a destination lacks stays the same when nothing changes.           *)
LEMMA SameDue ==
  ASSUME scenario' = scenario, disk' = disk, seen' = seen, plan' = plan, left' = left,
         toPrepare' = toPrepare, dels' = dels, NEW d,
         FilesDue(d), DirsDue(d), Leftovers(d)
  PROVE  FilesDue(d)' /\ DirsDue(d)' /\ Leftovers(d)'
<1>1. Opts' = Opts
  BY SameScenario
<1> QED
  BY <1>1 DEF FilesDue, DirsDue, Leftovers

(* Every step keeps what has been done at a healthy destination.           *)
LEMMA HealthyStep ==
  ASSUME NamesApart, Sound, Accounted, Healthy, [Next]_vars
  PROVE  Healthy'
<1>1. CASE Begin \/ ScanAndPlan
  BY <1>1 DEF Begin, ScanAndPlan, Healthy, Settled
<1>2. CASE PlanOnly \/ End
  <2>1. /\ scenario' = scenario /\ pc' = "idle" /\ disk' = disk /\ atScan' = atScan
        /\ steady' = steady /\ hurt' = hurt
    BY <1>2, ReportingEnds DEF PlanOnly, End
  <2>2. Opts' = Opts
    BY <2>1, SameScenario
  <2>3. ASSUME Settled', NEW d \in Dests \ hurt
        PROVE  MirrorsBy(Opts, atScan, disk[d])
    <3>1. steady /\ ~Opts.dryRun
      BY <2>1, <2>2, <2>3 DEF Settled
    <3> QED
      BY <1>2, <2>3, <3>1, EndsHealthy
  <2> QED
    BY <2>1, <2>2, <2>3 DEF Healthy
<1>3. CASE StartWork
  <2>1. pc' = "prepare"
    BY <1>3 DEF StartWork
  <2>2. \A d \in Dests : FilesDue(d)' /\ DirsDue(d)' /\ Leftovers(d)'
    BY <1>3, StartWorkHealthy
  <2> QED
    BY <2>1, <2>2 DEF Healthy, Settled
<1>4. CASE PrepareDest
  <2>1. pc = "prepare" /\ pc' = "prepare" /\ steady' = steady
    BY <1>4 DEF PrepareDest
  <2>2. hurt \subseteq hurt'
    BY <1>4, PrepareStep DEF PrepareOf
  <2>3. ASSUME steady, NEW d \in Dests \ hurt'
        PROVE  FilesDue(d)' /\ DirsDue(d)' /\ Leftovers(d)'
    <3>1. FilesDue(d) /\ DirsDue(d) /\ Leftovers(d)
      BY <2>1, <2>2, <2>3 DEF Healthy
    <3> QED
      BY <1>4, <2>3, <3>1, PrepareHealthy
  <2> QED
    BY <2>1, <2>3 DEF Healthy, Settled
<1>5. CASE FetchFile
  <2>1. pc = "fetch" /\ pc' = "fetch" /\ steady' = steady
    BY <1>5 DEF FetchFile
  <2>2. hurt \subseteq hurt'
    BY <1>5, FetchStep DEF FetchOf
  <2>3. ASSUME steady, NEW d \in Dests \ hurt'
        PROVE  FilesDue(d)' /\ DirsDue(d)' /\ Leftovers(d)'
    <3>1. FilesDue(d) /\ DirsDue(d) /\ Leftovers(d)
      BY <2>1, <2>2, <2>3 DEF Healthy
    <3> QED
      BY <1>5, <2>3, <3>1, FetchHealthy
  <2> QED
    BY <2>1, <2>3 DEF Healthy, Settled
<1>6. CASE DeleteNext
  <2>1. pc = "delete" /\ pc' = "delete" /\ steady' = steady
    BY <1>6 DEF DeleteNext
  <2>2. hurt \subseteq hurt'
    BY <1>6, DeleteStep DEF DeleteOf
  <2>3. ASSUME steady, NEW d \in Dests \ hurt'
        PROVE  FilesDue(d)' /\ DirsDue(d)' /\ Leftovers(d)'
    <3>1. FilesDue(d) /\ DirsDue(d) /\ Leftovers(d)
      BY <2>1, <2>2, <2>3 DEF Healthy
    <3> QED
      BY <1>6, <2>3, <3>1, DeleteHealthy
  <2> QED
    BY <2>1, <2>3 DEF Healthy, Settled
<1>7. CASE (Prepared /\ pc' = "fetch") \/ Transferred
  <2>1. /\ scenario' = scenario /\ disk' = disk /\ seen' = seen /\ plan' = plan
        /\ left' = left /\ toPrepare' = toPrepare /\ dels' = dels /\ steady' = steady
        /\ hurt' = hurt /\ pc \in {"prepare", "fetch", "delete"} /\ pc' # "idle"
    BY <1>7 DEF Prepared, Transferred, Finish, run, history, Rest
  <2>2. ASSUME steady, NEW d \in Dests \ hurt
        PROVE  FilesDue(d)' /\ DirsDue(d)' /\ Leftovers(d)'
    <3>1. FilesDue(d) /\ DirsDue(d) /\ Leftovers(d)
      BY <2>1, <2>2 DEF Healthy
    <3> QED
      BY <2>1, <3>1, SameDue
  <2> QED
    BY <2>1, <2>2 DEF Healthy, Settled
<1>8. CASE (Prepared /\ pc' # "fetch") \/ ScanFails \/ TransferFails \/ Crash
  <2>1. pc' = "idle" /\ result' \in {"failed", "crashed"}
    BY <1>8 DEF Prepared, ScanFails, TransferFails, Crash, Finish
  <2> QED
    BY <2>1 DEF Healthy, Settled
<1>9. CASE DeviceChanges
  <2>1. /\ scenario' = scenario /\ pc' = pc /\ result' = result /\ disk' = disk /\ hurt' = hurt
        /\ atScan' = atScan /\ (steady' => steady /\ pc \in {"idle", "scan"})
    BY <1>9 DEF DeviceChanges
  <2>2. Opts' = Opts
    BY <2>1, SameScenario
  <2> QED
    BY <2>1, <2>2 DEF Healthy, Settled
<1>10. CASE UserRemoves
  BY <1>10 DEF UserRemoves, Healthy, Settled
<1>11. CASE UNCHANGED vars
  <2>1. /\ scenario' = scenario /\ disk' = disk /\ seen' = seen /\ plan' = plan
        /\ left' = left /\ toPrepare' = toPrepare /\ dels' = dels /\ steady' = steady
        /\ hurt' = hurt /\ pc' = pc /\ result' = result /\ atScan' = atScan
    BY <1>11 DEF vars, run, history
  <2>2. Opts' = Opts
    BY <2>1, SameScenario
  <2>3. ASSUME pc \in {"prepare", "fetch", "delete"}, steady, NEW d \in Dests \ hurt
        PROVE  FilesDue(d)' /\ DirsDue(d)' /\ Leftovers(d)'
    <3>1. FilesDue(d) /\ DirsDue(d) /\ Leftovers(d)
      BY <2>3 DEF Healthy
    <3> QED
      BY <2>1, <3>1, SameDue
  <2> QED
    BY <2>1, <2>2, <2>3 DEF Healthy, Settled
<1> QED
  BY <1>1, <1>2, <1>3, <1>4, <1>5, <1>6, <1>7, <1>8, <1>9, <1>10, <1>11 DEF Next, Work

(* At the start nothing is claimed.                                        *)
LEMMA HealthyInit == Init => Accounted /\ Healthy
BY DEF Init, Accounted, Healthy, Settled

(* When no device name is that of another's temporary file: in every run,  *)
(* what is neither failed nor still to be done is done, at every           *)
(* destination on its own.                                                 *)
THEOREM BackupInvariance ==
  ASSUME NamesApart
  PROVE  Spec => [](Sound /\ Accounted /\ Healthy)
<1>1. Sound /\ Accounted /\ Healthy /\ [Next]_vars => Sound' /\ Accounted' /\ Healthy'
  BY SoundStep, AccountedStep, HealthyStep
<1>2. Init => Sound /\ Accounted /\ Healthy
  BY SoundInit, HealthyInit
<1> QED
  BY <1>1, <1>2, PTL DEF Spec

(* Whatever state the backup started from, and whatever happened to the    *)
(* other destinations, one that had no failure of its own mirrors the      *)
(* device when the run ends.                                               *)
THEOREM HealthyDestCorrect ==
  ASSUME NamesApart
  PROVE  Spec => []HealthyDestMirrors
<1>1. Healthy => HealthyDestMirrors
  BY MirrorsIs DEF Healthy, HealthyDestMirrors
<1> QED
  BY <1>1, BackupInvariance, PTL

(* The exit code is 0 only when every destination mirrors the device.      *)
THEOREM CleanExitCorrect ==
  ASSUME NamesApart
  PROVE  Spec => []CleanExitMirrors
<1>1. Accounted /\ Healthy => CleanExitMirrors
  BY MirrorsIs DEF Accounted, Healthy, CleanExitMirrors, Settled
<1> QED
  BY <1>1, BackupInvariance, PTL

-----------------------------------------------------------------------------
(* Nothing is done twice.                                                  *)

(* The device lets its directories be listed.                              *)
NothingDenied == \A name \in DOMAIN Scenarios : ~Scenarios[name].mayDeny

(* A walk that nothing is refused to lists the device.                     *)
LEMMA ListingIs ==
  ASSUME NothingDenied, Sound, ScanAndPlan
  PROVE  seen' = Listing
<1>1. ~Scenario.mayDeny /\ DeviceTree(device)
  BY DeviceIs DEF NothingDenied, Sound, Shape, Scenario
<1>2. device \in [DOMAIN device -> Node]
  BY <1>1, DeviceTreeIs
<1>3. seen' = LET listed == [p \in Visible({}) |-> device[p]]
              IN  IF Opts.recursive THEN listed ELSE TopLevel(listed)
  BY <1>1 DEF ScanAndPlan
<1>4. [p \in Visible({}) |-> device[p]] = device
  BY <1>2 DEF Visible
<1> QED
  BY <1>3, <1>4 DEF Listing

(* The listing is that of the device.                                      *)
LEMMA SameListing ==
  ASSUME scenario' = scenario, device' = device
  PROVE  Listing' = Listing /\ Opts' = Opts
<1>1. Opts' = Opts
  BY SameScenario
<1> QED
  BY <1>1 DEF Listing

(* Every step keeps what a clean run has left.                             *)
LEMMA KeptStep ==
  ASSUME NothingDenied, Sound, Accounted, Healthy, Kept, [Next]_vars
  PROVE  Kept'
<1>1. CASE Begin
  <2>1. /\ scenario' = scenario /\ device' = device /\ disk' = disk /\ intact' = intact
        /\ pc = "idle" /\ pc' = "scan" /\ steady' = TRUE
    BY <1>1 DEF Begin
  <2> QED
    BY <2>1, SameListing DEF Kept
<1>2. CASE ScanAndPlan
  <2>1. /\ scenario' = scenario /\ device' = device /\ disk' = disk /\ intact' = intact
        /\ pc = "scan" /\ pc' = "planned" /\ steady' = steady
    BY <1>2 DEF ScanAndPlan
  <2> QED
    BY <1>2, <2>1, SameListing, ListingIs DEF Kept
<1>3. CASE PlanOnly \/ End
  <2>1. /\ scenario' = scenario /\ device' = device /\ disk' = disk /\ pc' = "idle"
        /\ atScan' = atScan /\ steady' = steady /\ hurt' = hurt
    BY <1>3, ReportingEnds DEF PlanOnly, End
  <2>2. CASE ~intact'
    BY <2>1, <2>2 DEF Kept
  <2>3. CASE intact'
    <3>1. steady /\ hurt = {} /\ (PlanOnly => ~Opts.dryRun)
      <4>1. CASE PlanOnly
        <5>1. FinishReporting(IF Opts.dryRun THEN "dry" ELSE "ok") /\ pc = "planned"
          BY <4>1 DEF PlanOnly
        <5>2. steady /\ (IF Opts.dryRun THEN "dry" ELSE "ok") = "ok"
          BY <2>3, <5>1, ReportingEnds
        <5>3. ~Opts.dryRun
          BY <5>2
        <5> QED
          BY <5>1, <5>2, <5>3 DEF Accounted
      <4>2. CASE End
        <5>1. FinishReporting(IF CleanReport(problem) THEN "ok" ELSE "partial")
          BY <4>2 DEF End
        <5>2. steady /\ CleanReport(problem) /\ pc = "delete"
          BY <2>3, <4>2, <5>1, ReportingEnds DEF End
        <5>3. hurt = {}
          BY <5>2 DEF Accounted, CleanReport
        <5> QED
          BY <4>2, <5>2, <5>3 DEF PlanOnly
      <4> QED
        BY <1>3, <4>1, <4>2
    <3>2. \A d \in Dests : MirrorsBy(Opts, atScan, disk[d])
      BY <1>3, <3>1, EndsHealthy
    <3>3. atScan = Listing
      BY <1>3, <3>1 DEF PlanOnly, End, Kept, Sound, Planned
    <3> QED
      BY <2>1, <3>1, <3>2, <3>3, SameListing DEF Kept
  <2> QED
    BY <2>2, <2>3
<1>4. CASE ScanFails \/ TransferFails \/ Crash \/ (Prepared /\ pc' # "fetch")
  <2>1. pc' = "idle" /\ intact' = FALSE
    BY <1>4 DEF ScanFails, TransferFails, Crash, Prepared, Finish
  <2> QED
    BY <2>1 DEF Kept
<1>5. CASE StartWork \/ PrepareDest \/ FetchFile \/ Transferred \/ DeleteNext \/ (Prepared /\ pc' = "fetch")
  <2>1. /\ scenario' = scenario /\ device' = device /\ seen' = seen /\ steady' = steady
        /\ pc \in {"planned", "prepare", "fetch", "delete"}
        /\ pc' \in {"prepare", "fetch", "delete"}
    BY <1>5 DEF StartWork, PrepareDest, FetchFile, Transferred, DeleteNext, Prepared, Finish,
                run, history, Rest
  <2> QED
    BY <2>1, SameListing DEF Kept
<1>6. CASE DeviceChanges
  <2>1. intact' = FALSE /\ pc' = pc /\ (steady' => pc \in {"idle", "scan"})
    BY <1>6 DEF DeviceChanges
  <2> QED
    BY <2>1 DEF Kept
<1>7. CASE UserRemoves
  <2>1. intact' = FALSE /\ pc' = pc /\ pc = "idle"
    BY <1>7 DEF UserRemoves
  <2> QED
    BY <2>1 DEF Kept
<1>8. CASE UNCHANGED vars
  <2>1. /\ scenario' = scenario /\ device' = device /\ disk' = disk /\ seen' = seen
        /\ steady' = steady /\ pc' = pc /\ intact' = intact
    BY <1>8 DEF vars, run, history
  <2> QED
    BY <2>1, SameListing DEF Kept
<1> QED
  BY <1>1, <1>2, <1>3, <1>4, <1>5, <1>6, <1>7, <1>8 DEF Next, Work

(* A time before 1970 reads as 0.                                          *)
LEMMA ReadTime ==
  ASSUME NEW n \in Int
  PROVE  Max({n, 0}) = IF n < 0 THEN 0 ELSE n
<1> DEFINE m == IF n < 0 THEN 0 ELSE n
<1>1. m \in {n, 0} /\ \A y \in {n, 0} : m >= y
  OBVIOUS
<1>2. \A x \in {n, 0} : (\A y \in {n, 0} : x >= y) => x = m
  OBVIOUS
<1> HIDE DEF m
<1>3. Max({n, 0}) = m
  BY <1>1, <1>2 DEF Max
<1> QED
  BY <1>3 DEF m

(* A time that a copy keeps, but that does not read as it is.              *)
LEMMA TimeLost ==
  ASSUME NEW r \in Int, NEW l \in Int, NEW tolerance \in Nat,
         Abs(l - r) <= tolerance, ~(Abs(Max({l, 0}) - r) <= tolerance)
  PROVE  r < -tolerance
BY ReadTime DEF Abs

(* What a run has written, the next one recognises.                        *)
LEMMA ScannedAgain ==
  ASSUME NEW o, o.tolerance \in Nat, o.preserveMtime \/ o.checksum,
         NEW remote, NEW t, LocalTree(t), NEW p,
         p \in DOMAIN remote, remote[p] \in Node,
         HeldBy(o, remote, t, p), ~ThroughLink(t, p)
  PROVE  UpToDate(o, remote, LocalScan(t), p) \/ (~o.checksum /\ remote[p].mtime < -o.tolerance)
<1>1. p \in DOMAIN t
  BY HeldIsThere
<1>2. t[p] \in Node /\ remote[p].mtime \in Int
  BY <1>1, LocalTreeIs DEF Node
<1> DEFINE l == t[p]
           s == LocalScan(t)[p]
<1>3. /\ p \in DOMAIN LocalScan(t) /\ p \in DOMAIN AsRead(t)
      /\ s = AsRead(t)[p] /\ s = [l EXCEPT !.mtime = Max({l.mtime, 0})]
  BY <1>1 DEF LocalScan, AsRead
<1>4. l.mtime \in Int
  BY <1>2 DEF Node
<1>5. Max({l.mtime, 0}) \in Int
  BY <1>4, ReadTime
<1>6. s.kind = l.kind /\ s.size = l.size /\ s.data = l.data /\ s.mtime = Max({l.mtime, 0})
  BY <1>2, <1>3, <1>5, NodeWithTime
<1>7. CASE UpToDate(o, remote, AsRead(t), p)
  BY <1>3, <1>7 DEF UpToDate, IsKind
<1>8. CASE UpToDate(o, remote, t, p)
  <2>1. CASE o.checksum
    BY <1>3, <1>6, <1>8, <2>1 DEF UpToDate, IsKind
  <2>2. CASE ~o.checksum
    <3>1. l.kind = "file" /\ l.size = remote[p].size /\ Abs(l.mtime - remote[p].mtime) <= o.tolerance
      BY <1>8, <2>2 DEF UpToDate, IsKind, QuickCheck
    <3>2. CASE Abs(s.mtime - remote[p].mtime) <= o.tolerance
      BY <1>3, <1>6, <2>2, <3>1, <3>2 DEF UpToDate, IsKind, QuickCheck
    <3>3. CASE ~(Abs(s.mtime - remote[p].mtime) <= o.tolerance)
      BY <1>2, <1>4, <1>6, <2>2, <3>1, <3>3, TimeLost
    <3> QED
      BY <3>2, <3>3
  <2> QED
    BY <2>1, <2>2
<1>9. CASE ~o.preserveMtime /\ IsKind(t, p, "file") /\ t[p].data = remote[p].data
  BY <1>3, <1>6, <1>9 DEF UpToDate, IsKind
<1> QED
  BY <1>7, <1>8, <1>9 DEF HeldBy

(* The plan of a run after a clean one.                                    *)
LEMMA NothingLeftToDo ==
  ASSUME Sound, Kept, pc = "planned", intact, Opts.preserveMtime \/ Opts.checksum
  PROVE  /\ \A p \in plan.transfers :
              \/ \E d \in Dests : ThroughLink(disk[d], p)
              \/ ~Opts.checksum /\ plan.mtime[p] < -Opts.tolerance
         /\ \A d \in Dests : \A p \in plan.deletions[d] : Dangling(disk[d][p])
<1> DEFINE locals == [e \in Dests |-> LocalScan(disk[e])]
<1>1. PlanFor(plan, Opts, seen, locals)
  BY BuildIs, Zenon DEF Sound, Compared
<1>2. \A d \in Dests : locals[d] = LocalScan(disk[d])
  OBVIOUS
<1> HIDE DEF locals
<1>3. \A d \in Dests : MirrorsBy(Opts, seen, disk[d])
  BY DEF Kept
<1>4. Opts.tolerance \in Nat /\ \A d \in Dests : LocalTree(disk[d])
  BY ToleranceIs DEF Sound, Shape
<1>5. ASSUME NEW p \in plan.transfers, \A d \in Dests : ~ThroughLink(disk[d], p)
      PROVE  ~Opts.checksum /\ plan.mtime[p] < -Opts.tolerance
  <2>1. p \in Selected(Opts, seen) /\ plan.targets[p] # {}
    BY <1>1 DEF PlanFor
  <2>2. PICK d \in Dests : ~UpToDate(Opts, seen, locals[d], p)
    BY <1>1, <2>1 DEF PlanFor, TargetsOf
  <2>3. HeldBy(Opts, seen, disk[d], p)
    BY <1>3, <2>1 DEF MirrorsBy
  <2>4. p \in DOMAIN seen /\ seen[p] \in Node
    BY <2>1, LeftIs
  <2>5. ~Opts.checksum /\ seen[p].mtime < -Opts.tolerance
    BY <1>2, <1>4, <1>5, <2>2, <2>3, <2>4, ScannedAgain
  <2> QED
    BY <1>1, <2>1, <2>5 DEF PlanFor
<1>6. ASSUME NEW d \in Dests, NEW p \in plan.deletions[d]
      PROVE  Dangling(disk[d][p])
  <2>1. p \in Deletions(Opts, seen, LocalScan(disk[d]))
    BY <1>1, <1>2 DEF PlanFor
  <2>2. /\ Opts.delete /\ Accepts(Opts, p) /\ p \in DOMAIN LocalScan(disk[d])
        /\ p \notin Wanted(Opts, seen)
    BY <2>1, UnwantedIs
  <2> QED
    BY <1>3, <2>2 DEF MirrorsBy
<1> QED
  BY <1>5, <1>6

(* The run after a clean one finds nothing to do, unless something has     *)
(* changed, except behind links and for files from before 1970: when no    *)
(* device name is that of another's temporary file, and no directory is    *)
(* refused.                                                                *)
THEOREM NothingTwiceCorrect ==
  ASSUME NamesApart, NothingDenied
  PROVE  Spec => []NothingTwice
<1>1. Sound /\ Accounted /\ Healthy /\ Kept /\ [Next]_vars => Kept'
  BY KeptStep
<1>2. Init => Kept
  BY DEF Init, Kept
<1>3. Sound /\ Kept => NothingTwice
  BY NothingLeftToDo DEF NothingTwice
<1> QED
  BY <1>1, <1>2, <1>3, BackupInvariance, PTL DEF Spec
-----------------------------------------------------------------------------
(* A run in which nothing fails by itself.                                 *)

(* The name of an entry has a length.                                      *)
NamesMeasured == \A name \in STRING : NameLen[name] \in Nat

(* A path is longer than what it is below, and deleted before it.          *)
LEMMA BelowIsDeeper ==
  ASSUME NamesMeasured, NEW p \in Path, NEW q \in Path, Below(p, q)
  PROVE  Deeper(q, p)
<1> DEFINE f == [k \in 1..Len(p) |-> NameLen[p[k]]]
           h == [k \in 1..Len(q) |-> NameLen[q[k]]]
           A == 1..Len(p)
           S == 1..Len(q)
<1>1. /\ p \in Seq(STRING) /\ q \in Seq(STRING) /\ Len(p) \in Nat /\ Len(q) \in Nat
      /\ Len(p) < Len(q) /\ \A i \in 1..Len(p) : q[i] = p[i]
  BY BelowIs DEF Path
<1>2. IsFiniteSet(A) /\ IsFiniteSet(S) /\ A \in SUBSET S
  <2>1. IsFiniteSet(1..Len(p)) /\ IsFiniteSet(1..Len(q))
    BY <1>1, FS_Interval
  <2> QED
    BY <1>1, <2>1
<1>3. /\ \A x \in S : h[x] \in Nat
      /\ \A x \in A : f[x] \in Int /\ h[x] = f[x]
  <2>1. \A k \in 1..Len(q) : q[k] \in STRING
    BY <1>1
  <2>2. \A k \in S : h[k] \in Nat
    BY <2>1 DEF NamesMeasured
  <2>3. \A k \in A : k \in S /\ h[k] = f[k]
    BY <1>1
  <2> HIDE DEF f, h, A, S
  <2> QED
    BY <2>2, <2>3
<1>4. /\ RelLen(p) = Len(p) - 1 + SumFunctionOnSet(f, A)
      /\ RelLen(q) = Len(q) - 1 + SumFunctionOnSet(h, S)
  BY DEF RelLen, SumFunction
<1> HIDE DEF f, h, A, S
<1>5. SumFunctionOnSet(h, A) \in Int /\ SumFunctionOnSet(h, A) =< SumFunctionOnSet(h, S)
  BY <1>2, <1>3, SumPart
<1>6. SumFunctionOnSet(f, A) = SumFunctionOnSet(h, A)
  BY <1>2, <1>3, SumEqual
<1>7. SumFunctionOnSet(h, S) \in Int
  <2>1. \A x \in S : h[x] \in Int
    BY <1>3
  <2> QED
    BY <1>2, <2>1, SumType
<1> QED
  BY <1>1, <1>4, <1>5, <1>6, <1>7 DEF Deeper

(* Nothing at a destination is in the way of what is still to be done.     *)
Free(t, todo) ==
  /\ \A p \in plan.dirs : ~Blocked(t, p)
  /\ \A p \in Selected(Opts, seen) :
       ~Blocked(t, Parent(p)) /\ ~IsKind(t, p, "dir") /\ ~IsDir(t, TempOf(p))
  /\ todo \subseteq Path
  /\ \A p \in todo :
       /\ p \in DOMAIN t => t[p] # LinkNode("dir")
       /\ \A q \in DOMAIN t : Below(p, q) => q \in todo /\ ~Dangling(t[q])

Working == pc \in {"prepare", "fetch", "delete"}
Clear ==
  steady /\ ~faulted /\ fixable =>
    /\ pc = "planned" => \A d \in Dests : Repairable(seen, disk[d])
    /\ Working => /\ ~problem /\ unprepared = {}
                  /\ \A d \in Dests : Free(disk[d], dels[d])
    /\ pc = "idle" /\ result \in {"ok", "partial", "failed"} => result = "ok"

(* What the comparison of a repairable destination takes for extraneous is *)
(* all there is to delete: no link is in between.                          *)
LEMMA FreeAtFirst ==
  ASSUME Sound, pc = "planned", NEW d \in Dests, Repairable(seen, disk[d])
  PROVE  Free(disk[d], plan.deletions[d])
<1> DEFINE t == disk[d]
           todo == plan.deletions[d]
           locals == [e \in Dests |-> LocalScan(disk[e])]
<1>1. PlanFor(plan, Opts, seen, locals)
  BY BuildIs, Zenon DEF Sound, Compared
<1>2. locals[d] = LocalScan(t)
  OBVIOUS
<1> HIDE DEF locals
<1>3. plan.dirs = Directories(Opts, seen) /\ todo = Deletions(Opts, seen, LocalScan(t))
  BY <1>1, <1>2 DEF PlanFor
<1>4. LocalTree(t)
  BY DEF Sound, Shape
<1> HIDE DEF t, todo
<1>5. /\ t \in [DOMAIN t -> Node] /\ DOMAIN t \subseteq Path
      /\ \A p \in DOMAIN t, q \in Path : Below(q, p) => IsDir(t, q)
      /\ DOMAIN LocalScan(t) = {p \in DOMAIN t : ~ThroughLink(t, p)}
  BY <1>4, LocalTreeIs, ScannedIs
<1>6. Repairable(seen, t)
  BY DEF t
<1>7. ASSUME NEW p \in todo
      PROVE  /\ p \in DOMAIN t /\ ~ThroughLink(t, p) /\ Opts.delete /\ t[p] # LinkNode("dir")
             /\ \A q \in DOMAIN t : Below(p, q) => q \in Extraneous(Opts, seen, t) /\ ~Dangling(t[q])
  <2>1. Opts.delete /\ p \in Extraneous(Opts, seen, LocalScan(t))
    BY <1>3, <1>7 DEF Deletions
  <2>2. p \in DOMAIN LocalScan(t)
    BY <2>1 DEF Extraneous
  <2> QED
    BY <1>5, <1>6, <2>1, <2>2 DEF Repairable
<1>8. ASSUME Opts.delete, NEW q \in Extraneous(Opts, seen, t), ~ThroughLink(t, q)
      PROVE  q \in todo
  BY <1>3, <1>5, <1>8 DEF Deletions, Extraneous
<1>9. ASSUME NEW p \in todo, NEW q \in DOMAIN t, Below(p, q), ThroughLink(t, q)
      PROVE  FALSE
  <2> DEFINE links == {r \in DOMAIN t : Below(r, q) /\ t[r].kind = "link"}
             lengths == {Len(r) : r \in links}
  <2>1. lengths \in SUBSET Nat /\ lengths # {}
    <3>1. links # {}
      BY <1>9 DEF ThroughLink
    <3>2. \A r \in links : Len(r) \in Nat
      BY <1>5 DEF Path
    <3> HIDE DEF links
    <3> QED
      BY <3>1, <3>2
  <2>2. Min(lengths) \in lengths /\ \A n \in lengths : Min(lengths) =< n
    BY <2>1, MinIsMember
  <2>3. PICK r \in links : \A s \in links : Len(r) =< Len(s)
    BY <2>2
  <2>4. p \in Seq(STRING) /\ q \in Seq(STRING) /\ r \in Seq(STRING) /\ r \in Path
    BY <1>5, <1>7, <1>9, <2>3 DEF Path
  <2>5. t[r] = LinkNode("dir")
    BY <1>5, <1>9, <2>3, <2>4 DEF IsDir, DirLike
  <2>6. p # r /\ ~Below(r, p)
    BY <1>7, <1>9, <2>3, <2>5 DEF ThroughLink
  <2>7. Below(p, r)
    BY <1>9, <2>3, <2>4, <2>6, BelowChain
  <2>8. ASSUME NEW s \in DOMAIN t, Below(s, r), t[s].kind = "link"
        PROVE  FALSE
    <3>1. s \in Seq(STRING)
      BY <1>5, <2>8 DEF Path
    <3>2. Below(s, q) /\ Len(s) < Len(r)
      BY <2>3, <2>4, <2>8, <3>1, BelowTransitive DEF Below
    <3> QED
      BY <2>3, <2>4, <2>8, <3>1, <3>2
  <2>9. r \in todo
    BY <1>7, <1>8, <1>9, <2>3, <2>7, <2>8 DEF ThroughLink
  <2> QED
    BY <1>7, <2>5, <2>9
<1>10. /\ \A p \in plan.dirs : ~Blocked(t, p)
       /\ \A p \in Selected(Opts, seen) :
            ~Blocked(t, Parent(p)) /\ ~IsKind(t, p, "dir") /\ ~IsDir(t, TempOf(p))
  BY <1>3, <1>6 DEF Repairable
<1>11. todo \subseteq Path
  BY <1>5, <1>7
<1>12. Free(t, todo)
  BY <1>7, <1>8, <1>9, <1>10, <1>11 DEF Free
<1> QED
  BY <1>12 DEF t, todo

(* How a run adds to a destination.                                        *)
Grows(t, m) ==
  \A q \in DOMAIN m : \/ q \in DOMAIN t /\ m[q] = t[q]
                      \/ IsKind(seen, q, "dir") /\ m[q] = DirNode
                      \/ q \in Selected(Opts, seen) /\ m[q].kind = "file"

(* What a run adds is in the way of nothing.                               *)
LEMMA GrowsFree ==
  ASSUME NamesApart, Sound, Working, steady, NEW t, NEW m, DOMAIN m \subseteq Path, Grows(t, m),
         NEW todo, \A p \in todo : p \notin DOMAIN seen, Free(t, todo)
  PROVE  Free(m, todo)
<1>0. pc \in {"planned", "prepare", "fetch", "delete"}
  BY DEF Working
<1>1. /\ plan.dirs = Directories(Opts, seen) /\ DeviceTree(seen)
  BY <1>0 DEF Sound, Shape, Planned
<1>2. /\ DOMAIN seen \subseteq Path
      /\ \A p \in DOMAIN seen, q \in Path : Below(q, p) => IsKind(seen, q, "dir")
  BY <1>1, DeviceTreeIs
<1>3. \A p \in plan.dirs : p \in Path /\ p \in DOMAIN seen /\ seen[p].kind = "dir"
  BY <1>1, <1>2 DEF Directories, Wanted, IsKind
<1>4. \A p \in Selected(Opts, seen) : p \in Path /\ p \in DOMAIN seen /\ seen[p].kind = "file"
  BY <1>2 DEF Selected, Wanted, IsKind
<1>5. ASSUME NEW q \in DOMAIN m, IsKind(seen, q, "dir"), ~DirLike(m[q])
      PROVE  q \in DOMAIN t /\ m[q] = t[q]
  BY <1>4, <1>5, DirNodeIs DEF Grows, IsKind
<1>6. ASSUME NEW p \in plan.dirs
      PROVE  ~Blocked(m, p)
  <2> SUFFICES ASSUME NEW q \in Path, q = p \/ Below(q, p), q \in DOMAIN m, ~DirLike(m[q])
               PROVE  FALSE
    BY <1>3, <1>6, BlockedIs
  <2>1. IsKind(seen, q, "dir")
    BY <1>2, <1>3, <1>6 DEF IsKind
  <2>2. q \in DOMAIN t /\ ~DirLike(t[q])
    BY <1>5, <2>1
  <2>3. Blocked(t, p)
    BY <1>3, <1>6, <2>2, BlockedIs
  <2> QED
    BY <1>6, <2>3 DEF Free
<1>7. ASSUME NEW p \in Selected(Opts, seen)
      PROVE  ~Blocked(m, Parent(p)) /\ ~IsKind(m, p, "dir") /\ ~IsDir(m, TempOf(p))
  <2>1. ASSUME NEW q \in Path, Below(q, p), q \in DOMAIN m, ~DirLike(m[q])
        PROVE  FALSE
    <3>1. IsKind(seen, q, "dir")
      BY <1>2, <1>4, <2>1
    <3>2. q \in DOMAIN t /\ ~DirLike(t[q])
      BY <1>5, <2>1, <3>1
    <3>3. Blocked(t, Parent(p))
      BY <1>4, <2>1, <3>2, BlockedIs
    <3> QED
      BY <3>3 DEF Free
  <2>2. ~Blocked(m, Parent(p))
    BY <1>4, <2>1, BlockedIs
  <2>3. ~IsKind(m, p, "dir")
    BY <1>4 DEF Grows, IsKind, Free
  <2>4. TempOf(p) \notin DOMAIN seen
    BY <1>0, <1>4, SeenApart
  <2>5. ~IsDir(m, TempOf(p))
    BY <1>4, <2>4 DEF Grows, IsKind, IsDir, Free
  <2> QED
    BY <2>2, <2>3, <2>5
<1>8. ASSUME NEW p \in todo
      PROVE  /\ p \in DOMAIN m => m[p] # LinkNode("dir")
             /\ \A q \in DOMAIN m : Below(p, q) => q \in todo /\ ~Dangling(m[q])
  <2>1. p \in Path /\ p \notin DOMAIN seen
    BY <1>8 DEF Free
  <2>2. p \in DOMAIN m => p \in DOMAIN t /\ m[p] = t[p]
    BY <1>4, <2>1 DEF Grows, IsKind
  <2>3. ASSUME NEW q \in DOMAIN m, Below(p, q)
        PROVE  q \in DOMAIN t /\ m[q] = t[q]
    <3>1. q \notin DOMAIN seen
      BY <1>2, <2>1, <2>3 DEF IsKind
    <3> QED
      BY <1>4, <3>1 DEF Grows, IsKind
  <2> QED
    BY <1>8, <2>1, <2>2, <2>3 DEF Free
<1>9. todo \subseteq Path
  BY DEF Free
<1> QED
  BY <1>6, <1>7, <1>8, <1>9 DEF Free

(* The directories that a run makes, and those above its files, are        *)
(* directories of what was seen.                                           *)
LEMMA DirsAreSeen ==
  ASSUME Sound, Working
  PROVE  /\ \A q \in AtOrAbove(plan.dirs) : IsKind(seen, q, "dir")
         /\ \A p \in Selected(Opts, seen) : \A q \in Above(p) : IsKind(seen, q, "dir")
         /\ \A d \in Dests : \A p \in dels[d] : p \notin DOMAIN seen
<1>1. plan.dirs = Directories(Opts, seen) /\ DeviceTree(seen)
  BY DEF Sound, Shape, Planned, Working
<1>2. \A p \in DOMAIN seen, q \in Path : Below(q, p) => IsKind(seen, q, "dir")
  BY <1>1, DeviceTreeIs
<1>3. \A q \in AtOrAbove(plan.dirs) : IsKind(seen, q, "dir")
  <2>1. \A p \in plan.dirs : IsKind(seen, p, "dir")
    BY <1>1 DEF Directories
  <2> QED
    BY <1>2, <2>1 DEF AtOrAbove, IsKind
<1>4. \A p \in Selected(Opts, seen) : \A q \in Above(p) : IsKind(seen, q, "dir")
  BY <1>2 DEF Selected, Wanted, Above
<1>5. \A d \in Dests : \A p \in dels[d] : p \notin DOMAIN seen
  BY DEF Sound, Planned, Working, Unwanted
<1> QED
  BY <1>3, <1>4, <1>5

(* No directory of the plan is blocked, so all are made.                   *)
LEMMA PrepareFree ==
  ASSUME NamesApart, Sound, steady, PrepareDest, ~faulted',
         \A d \in Dests : Free(disk[d], dels[d])
  PROVE  unprepared' = unprepared /\ \A d \in Dests : Free(disk'[d], dels[d])
<1>1. Working
  BY DEF PrepareDest, Working
<1>2. PICK e \in Dests : PrepareOf(e)
  BY PrepareStep
<1>3. /\ Becomes(disk[e], disk'[e], {}, AtOrAbove(plan.dirs), {})
      /\ \A d \in Dests \ {e} : disk'[d] = disk[d]
  BY <1>2 DEF PrepareOf
<1>4. Grows(disk[e], disk'[e]) /\ DOMAIN disk'[e] \subseteq Path
  BY <1>1, <1>3, DirsAreSeen, LocalTreeIs DEF Becomes, Grows
<1>5. \A p \in dels[e] : p \notin DOMAIN seen
  BY <1>1, DirsAreSeen
<1>6. Free(disk'[e], dels[e])
  BY <1>1, <1>4, <1>5, GrowsFree
<1>7. ~ \E p \in plan.dirs : Blocked(disk[e], p)
  BY DEF Free
<1>8. unprepared' = unprepared
  BY <1>2, <1>7 DEF PrepareOf
<1> QED
  BY <1>3, <1>6, <1>8

(* Every destination that a file is due at can take it.                    *)
LEMMA FetchFree ==
  ASSUME NamesApart, Sound, steady, FetchFile, ~faulted', unprepared = {}, ~problem,
         \A d \in Dests : Free(disk[d], dels[d])
  PROVE  ~problem' /\ \A d \in Dests : Free(disk'[d], dels[d])
<1>1. Working /\ pc \in {"planned", "prepare", "fetch", "delete"} /\ left \subseteq Selected(Opts, seen)
  BY DEF FetchFile, Working, Sound, Planned
<1>2. PICK p \in left : \E good \in SUBSET Placeable(p) : FetchOf(p, good)
  BY FetchStep
<1>3. PICK good \in SUBSET Placeable(p) : FetchOf(p, good)
  BY <1>2
<1>4. p \in Selected(Opts, seen)
  BY <1>1
<1>5. /\ p \in DOMAIN seen /\ IsKind(seen, p, "file") /\ Targets(p) \subseteq Dests /\ Mtime(p) \in Int
  BY <1>1, <1>4, LeftIs
<1>6. IsKind(device, p, "file")
  BY <1>1, <1>5 DEF Sound, Planned, IsKind
<1>7. good = Placeable(p)
  BY <1>3 DEF FetchOf
<1>8. \A d \in Targets(p) :
        ~Blocked(disk[d], Parent(p)) /\ ~IsKind(disk[d], p, "dir") /\ ~IsDir(disk[d], TempOf(p))
  BY <1>4, <1>5 DEF Free
<1>9. Opened(p) = Targets(p) /\ good = Opened(p)
  BY <1>6, <1>7, <1>8 DEF Opened, Placeable
<1>10. ~problem'
  BY <1>3, <1>9 DEF FetchOf
<1>11. ASSUME NEW d \in Dests
       PROVE  Free(disk'[d], dels[d])
  <2>1. CASE d \notin Opened(p)
    BY <1>3, <2>1 DEF FetchOf
  <2>2. CASE d \in Opened(p)
    <3>1. /\ Becomes(disk[d], disk'[d], {p}, Above(p), {TempOf(p)} \union Under(p))
          /\ disk'[d][p] = Content(p, Mtime(p))
      BY <1>3, <1>9, <2>2 DEF FetchOf
    <3>2. disk'[d][p].kind = "file"
      BY <1>5, <1>6, <3>1, ContentIs
    <3>3. DOMAIN disk'[d] \subseteq Path
      BY <3>1, LocalTreeIs DEF Becomes
    <3>4. \A q \in Above(p) : IsKind(seen, q, "dir")
      BY <1>1, <1>4, DirsAreSeen
    <3>5. Grows(disk[d], disk'[d])
      BY <1>4, <3>1, <3>2, <3>4 DEF Becomes, Grows
    <3>6. \A q \in dels[d] : q \notin DOMAIN seen
      BY <1>1, DirsAreSeen
    <3> QED
      BY <1>1, <3>3, <3>5, <3>6, GrowsFree
  <2> QED
    BY <2>1, <2>2
<1> QED
  BY <1>10, <1>11

(* What is below a deletion is deleted before it, so it can be made.       *)
LEMMA DeleteFree ==
  ASSUME NamesMeasured, Sound, DeleteNext, ~faulted', ~problem,
         \A d \in Dests : Free(disk[d], dels[d])
  PROVE  ~problem' /\ \A d \in Dests : Free(disk'[d], dels'[d])
<1>1. PICK e \in Dests : \E p \in dels[e] : DeleteOf(e, p)
  BY DeleteStep
<1>2. PICK p \in dels[e] : DeleteOf(e, p)
  BY <1>1
<1> DEFINE t == disk[e]
           todo == dels[e]
           m == disk'[e]
<1>3. /\ dels'[e] = todo \ {p} /\ \A d \in Dests \ {e} : dels'[d] = dels[d] /\ disk'[d] = disk[d]
      /\ \A q \in todo : ~Deeper(q, p)
  <2>1. dels = [d \in Dests |-> dels[d]]
    BY DEF Sound, Planned, DeleteNext
  <2> QED
    BY <1>2, <2>1 DEF DeleteOf
<1>4. LocalTree(t) /\ t \in [DOMAIN t -> Node] /\ DOMAIN t \subseteq Path
  BY LocalTreeIs DEF Sound, Shape
<1>5. Free(t, todo) /\ todo \subseteq Path
  BY DEF Free
<1>6. \/ m = t /\ Gone(t, p) /\ problem' = problem
      \/ Becomes(t, m, {}, {}, {p}) /\ p \notin DOMAIN m /\ problem' = problem
      \/ ~Gone(t, p) /\ ~Removable(t, p)
  BY <1>2 DEF DeleteOf
<1> HIDE DEF t, m, todo
<1>7. \A q \in DOMAIN t : ~(Below(p, q) /\ q \in todo)
  BY <1>2, <1>3, <1>4, <1>5, BelowIsDeeper DEF todo
<1>8. ASSUME ~Gone(t, p)
      PROVE  Removable(t, p)
  <2>1. p \in DOMAIN t /\ ~Dangling(t[p]) /\ t[p] # LinkNode("dir")
    BY <1>2, <1>5, <1>8 DEF Gone, Free, todo
  <2>2. t[p] \in Node
    BY <1>4, <2>1
  <2>3. ~ \E q \in DOMAIN t : Below(p, q)
    BY <1>2, <1>5, <1>7 DEF Free, todo
  <2>4. CASE t[p].kind = "link"
    <3>1. t[p] = LinkNode("file")
      BY <2>1, <2>2, <2>4 DEF Node, Dangling
    <3> QED
      BY <3>1 DEF Removable
  <2>5. CASE t[p].kind # "link"
    <3>1. t[p].kind \in {"file", "dir"}
      BY <2>2, <2>5 DEF Node
    <3> QED
      BY <2>3, <3>1 DEF Removable
  <2> QED
    BY <2>4, <2>5
<1>9. /\ problem' = problem
      /\ \A q \in DOMAIN m : q \in DOMAIN t /\ m[q] = t[q]
      /\ p \in DOMAIN m => Dangling(t[p])
  BY <1>6, <1>8 DEF Becomes, Gone
<1>10. Free(m, todo \ {p})
  <2>1. \A q \in DOMAIN m : q \in DOMAIN t /\ m[q] = t[q]
    BY <1>9
  <2>2. \A r : Blocked(m, r) => Blocked(t, r)
    BY <2>1 DEF Blocked
  <2>3. \A r : (IsKind(m, r, "dir") => IsKind(t, r, "dir")) /\ (IsDir(m, r) => IsDir(t, r))
    BY <2>1 DEF IsKind, IsDir
  <2>4. ASSUME NEW r \in todo \ {p}, NEW q \in DOMAIN m, Below(r, q)
        PROVE  q \in todo \ {p} /\ ~Dangling(m[q])
    <3>1. q \in todo /\ ~Dangling(t[q]) /\ m[q] = t[q]
      BY <1>5, <2>1, <2>4 DEF Free
    <3> QED
      BY <1>9, <3>1
  <2> QED
    BY <1>5, <2>1, <2>2, <2>3, <2>4 DEF Free
<1> QED
  BY <1>3, <1>9, <1>10 DEF m, todo

(* Every step keeps a run clear.                                           *)
LEMMA ClearStep ==
  ASSUME NamesApart, NamesMeasured, Sound, Clear, [Next]_vars
  PROVE  Clear'
<1>1. CASE Begin
  BY <1>1 DEF Begin, Clear, Working
<1>2. CASE ScanAndPlan
  <2>1. /\ scenario' = scenario /\ disk' = disk /\ pc' = "planned"
        /\ fixable' = \A d \in Dests : Repairable(seen', disk[d])
    BY <1>2 DEF ScanAndPlan
  <2>2. Opts' = Opts
    BY <2>1, SameScenario
  <2>3. \A d \in Dests : Repairable(seen', disk[d]) => Repairable(seen, disk[d])'
    BY <2>1, <2>2 DEF Repairable
  <2> QED
    BY <2>1, <2>3 DEF Clear, Working
<1>3. CASE PlanOnly \/ End
  <2>1. PICK how \in {"dry", "ok", "partial"} : FinishReporting(how) /\ (how = "partial" => End /\ ~CleanReport(problem))
    <3>1. CASE PlanOnly
      BY <3>1 DEF PlanOnly
    <3>2. CASE End
      BY <3>2 DEF End
    <3> QED
      BY <1>3, <3>1, <3>2
  <2>2. /\ pc' = "idle" /\ steady' = steady /\ fixable' = fixable
        /\ (result' = how /\ faulted' = faulted) \/ result' = "unreported"
    BY <2>1 DEF FinishReporting, Finish
  <2>3. how = "partial" => ~(steady /\ ~faulted /\ fixable)
    BY <2>1 DEF End, Clear, Working, CleanReport
  <2> QED
    BY <2>2, <2>3 DEF Clear, Working
<1>4. CASE StartWork
  <2>1. /\ scenario' = scenario /\ disk' = disk /\ pc = "planned" /\ pc' = "prepare"
        /\ seen' = seen /\ plan' = plan /\ dels' = plan.deletions
        /\ problem' = problem /\ unprepared' = unprepared /\ steady' = steady
        /\ faulted' = faulted /\ fixable' = fixable
    BY <1>4 DEF StartWork, history
  <2>2. Opts' = Opts /\ problem = FALSE /\ unprepared = {}
    BY <2>1, SameScenario DEF Sound, Compared, Fresh
  <2>3. ASSUME steady, ~faulted, fixable, NEW d \in Dests
        PROVE  Free(disk[d], plan.deletions[d])
    BY <2>1, <2>3, FreeAtFirst DEF Clear
  <2> QED
    BY <2>1, <2>2, <2>3 DEF Clear, Working, Free
<1>5. CASE PrepareDest
  <2>1. /\ scenario' = scenario /\ pc = "prepare" /\ pc' = "prepare" /\ seen' = seen /\ plan' = plan
        /\ dels' = dels /\ problem' = problem /\ steady' = steady /\ fixable' = fixable
    BY <1>5 DEF PrepareDest
  <2>2. faulted => faulted'
    BY <1>5 DEF PrepareDest
  <2>3. Opts' = Opts
    BY <2>1, SameScenario
  <2>4. ASSUME steady, ~faulted', fixable
        PROVE  /\ ~problem /\ unprepared' = {}
               /\ \A d \in Dests : Free(disk'[d], dels[d])
    BY <1>5, <2>1, <2>2, <2>4, PrepareFree DEF Clear, Working
  <2> QED
    BY <2>1, <2>2, <2>3, <2>4 DEF Clear, Working, Free
<1>6. CASE FetchFile
  <2>1. /\ scenario' = scenario /\ pc = "fetch" /\ pc' = "fetch" /\ seen' = seen /\ plan' = plan
        /\ dels' = dels /\ unprepared' = unprepared /\ steady' = steady /\ fixable' = fixable
        /\ (~faulted' => ~faulted)
    BY <1>6 DEF FetchFile
  <2>2. Opts' = Opts
    BY <2>1, SameScenario
  <2>3. ASSUME steady, ~faulted', fixable
        PROVE  /\ ~problem' /\ unprepared = {}
               /\ \A d \in Dests : Free(disk'[d], dels[d])
    BY <1>6, <2>1, <2>3, FetchFree DEF Clear, Working
  <2> QED
    BY <2>1, <2>2, <2>3 DEF Clear, Working, Free
<1>7. CASE DeleteNext
  <2>1. /\ scenario' = scenario /\ pc = "delete" /\ pc' = "delete" /\ seen' = seen /\ plan' = plan
        /\ unprepared' = unprepared /\ steady' = steady /\ fixable' = fixable
    BY <1>7 DEF DeleteNext
  <2>2. faulted => faulted'
    BY <1>7 DEF DeleteNext
  <2>3. Opts' = Opts
    BY <2>1, SameScenario
  <2>4. ASSUME steady, ~faulted', fixable
        PROVE  /\ ~problem' /\ unprepared = {}
               /\ \A d \in Dests : Free(disk'[d], dels'[d])
    BY <1>7, <2>1, <2>2, <2>4, DeleteFree DEF Clear, Working
  <2> QED
    BY <2>1, <2>2, <2>3, <2>4 DEF Clear, Working, Free
<1>8. CASE Prepared \/ Transferred
  <2>1. /\ scenario' = scenario /\ disk' = disk /\ steady' = steady /\ fixable' = fixable
        /\ faulted' = faulted /\ Working
        /\ \/ pc' \in {"fetch", "delete"} /\ seen' = seen /\ plan' = plan /\ dels' = dels
              /\ problem' = problem /\ unprepared' = unprepared
           \/ unprepared = Dests /\ pc' = "idle"
    <3>1. CASE Prepared
      BY <3>1 DEF Prepared, Finish, run, Rest, Working
    <3>2. CASE Transferred
      BY <3>2 DEF Transferred, run, history, Working
    <3> QED
      BY <1>8, <3>1, <3>2
  <2>2. Opts' = Opts /\ Dests # {}
    BY <2>1, SameScenario, PlannerAssumption
  <2> QED
    BY <2>1, <2>2 DEF Clear, Working, Free
<1>9. CASE ScanFails \/ TransferFails \/ Crash
  BY <1>9 DEF ScanFails, TransferFails, Crash, Finish, Clear, Working
<1>10. CASE DeviceChanges
  <2>1. /\ pc' = pc /\ result' = result /\ faulted' = faulted /\ fixable' = fixable
        /\ (steady' => steady /\ pc \in {"idle", "scan"})
    BY <1>10 DEF DeviceChanges
  <2> QED
    BY <2>1 DEF Clear, Working
<1>11. CASE UserRemoves
  BY <1>11 DEF UserRemoves, Clear, Working
<1>12. CASE UNCHANGED vars
  <2>1. /\ scenario' = scenario /\ disk' = disk /\ seen' = seen /\ plan' = plan /\ dels' = dels
        /\ steady' = steady /\ faulted' = faulted /\ fixable' = fixable /\ pc' = pc
        /\ result' = result /\ problem' = problem /\ unprepared' = unprepared
    BY <1>12 DEF vars, run, history
  <2>2. Opts' = Opts
    BY <2>1, SameScenario
  <2> QED
    BY <2>1, <2>2 DEF Clear, Working, Free, Repairable
<1> QED
  BY <1>1, <1>2, <1>3, <1>4, <1>5, <1>6, <1>7, <1>8, <1>9, <1>10, <1>11, <1>12 DEF Next, Work

(* A run in which nothing fails by itself ends clean, wherever a scan has  *)
(* found nothing in the way of the plan: not even what a crash had left is *)
(* in the way, and what the run adds never is.                             *)
THEOREM RepairCorrect ==
  ASSUME NamesApart, NamesMeasured
  PROVE  Spec => []RepairableIsRepaired
<1>1. Sound /\ Clear /\ [Next]_vars => Clear'
  BY ClearStep
<1>2. Init => Clear
  BY DEF Init, Clear, Working
<1>3. Clear => RepairableIsRepaired
  BY DEF Clear, RepairableIsRepaired, Undisturbed
<1> QED
  BY <1>1, <1>2, <1>3, PlanInvariance, PTL DEF Spec
==============================================================================
