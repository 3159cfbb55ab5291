------------------------------ MODULE PerfProof ------------------------------
(***************************************************************************)
(* Proofs about Perf: however many streams move the counters, whenever the *)
(* sampler reads them and whichever files fail, the readings are in order, *)
(* no interval of the timeline shows more than arrived in it, and the      *)
(* parts of the report add up.  The sums and the timeline are folds.       *)
(***************************************************************************)
EXTENDS Perf, FoldLemmas

-----------------------------------------------------------------------------
(* The readings that are kept.                                             *)
Readings == [at : Nat, bytes : Int, files : Nat, arrived : Nat]
Extend(kept, r) == IF IsKept(kept, r) THEN Append(kept, r) ELSE kept
KeptBy(rs, g) ==
  g = [s \in SUBSET DOMAIN rs |->
         IF s = {} THEN <<Origin>>
         ELSE Extend(g[s \ {Max(s)}], rs[Max(s)])]

(* One reading after the other.                                            *)
Steps(rs, h) ==
  /\ h[0] = <<Origin>>
  /\ \A n \in 1..Len(rs) : h[n] = Extend(h[n - 1], rs[n])

(* Kept is a fold, so a function of the sets of positions follows it.      *)
LEMMA KeptExists ==
  ASSUME NEW rs \in Seq(Readings)
  PROVE  \E g : KeptBy(rs, g)
<1> DEFINE S == DOMAIN rs
           V == Seq(Readings)
           pick == [s \in SUBSET S |-> Max(s)]
           step == [p \in S \X V |-> Extend(p[2], rs[p[1]])]
<1>1. S = 1..Len(rs) /\ IsFiniteSet(S) /\ S \subseteq Int
  BY FS_Interval
<1>2. <<Origin>> \in V
  BY DEF Origin, Readings
<1>3. step \in [S \X V -> V]
  BY AppendProperties DEF Extend
<1>4. \A s \in SUBSET S : s # {} => pick[s] \in s
  BY <1>1, MaxIsMember, FS_Subset
<1>5. \E g \in [SUBSET S -> V] : Follows(S, <<Origin>>, pick, step, g)
  <2> HIDE DEF S, V, pick, step
  <2> QED
    BY <1>1, <1>2, <1>3, <1>4, RecursionExists
<1>6. PICK g \in [SUBSET S -> V] : Follows(S, <<Origin>>, pick, step, g)
  BY <1>5
<1>7. \A s \in SUBSET S : g[s] = IF s = {} THEN <<Origin>> ELSE Extend(g[s \ {Max(s)}], rs[Max(s)])
  <2> SUFFICES ASSUME NEW s \in SUBSET S
               PROVE  g[s] = IF s = {} THEN <<Origin>> ELSE Extend(g[s \ {Max(s)}], rs[Max(s)])
    OBVIOUS
  <2>1. CASE s = {}
    BY <1>6, <2>1 DEF Follows
  <2>2. CASE s # {}
    <3>1. Max(s) \in S /\ g[s \ {Max(s)}] \in V
      BY <1>4, <1>6, <2>2
    <3>2. step[<<Max(s), g[s \ {Max(s)}]>>] = Extend(g[s \ {Max(s)}], rs[Max(s)])
      BY <3>1
    <3>3. g[s] = step[<<pick[s], g[s \ {pick[s]}]>>]
      BY <1>6, <2>2 DEF Follows
    <3> QED
      BY <2>2, <3>2, <3>3
  <2> QED
    BY <2>1, <2>2
<1>8. g = [s \in SUBSET S |-> g[s]]
  OBVIOUS
<1> QED
  BY <1>7, <1>8 DEF KeptBy

(* Kept, a position after the other.                                       *)
LEMMA KeptIs ==
  ASSUME NEW rs \in Seq(Readings)
  PROVE  \E h : Steps(rs, h) /\ Kept(rs) = h[Len(rs)]
<1>1. \E g : KeptBy(rs, g) /\ Kept(rs) = g[DOMAIN rs]
  BY KeptExists, Zenon DEF Kept, FoldLeft, MapThenFoldSet, KeptBy, Extend
<1>2. PICK g : KeptBy(rs, g) /\ Kept(rs) = g[DOMAIN rs]
  BY <1>1
<1> DEFINE h == [n \in 0..Len(rs) |-> g[1..n]]
<1>3. Len(rs) \in Nat /\ DOMAIN rs = 1..Len(rs)
  OBVIOUS
<1>4. \A s \in SUBSET DOMAIN rs :
        g[s] = IF s = {} THEN <<Origin>> ELSE Extend(g[s \ {Max(s)}], rs[Max(s)])
  <2> DEFINE F == [s \in SUBSET DOMAIN rs |->
                     IF s = {} THEN <<Origin>> ELSE Extend(g[s \ {Max(s)}], rs[Max(s)])]
  <2>1. g = F
    BY <1>2, Zenon DEF KeptBy
  <2>2. \A s \in SUBSET DOMAIN rs :
          F[s] = IF s = {} THEN <<Origin>> ELSE Extend(g[s \ {Max(s)}], rs[Max(s)])
    OBVIOUS
  <2> HIDE DEF F
  <2> QED
    BY <2>1, <2>2
<1>5. h[0] = <<Origin>>
  <2>1. 1..0 = {} /\ 0 \in 0..Len(rs)
    BY <1>3
  <2>2. g[{}] = <<Origin>>
    BY <1>4
  <2>3. h[0] = g[1..0]
    BY <2>1
  <2> HIDE DEF h
  <2> QED
    BY <2>1, <2>2, <2>3
<1>6. ASSUME NEW n \in 1..Len(rs)
      PROVE  h[n] = Extend(h[n - 1], rs[n])
  <2>0. n \in Int /\ 1 =< n /\ n =< Len(rs)
    BY <1>3
  <2>1. Max(1..n) = n
    <3>1. IsFiniteSet(1..n) /\ 1..n \in SUBSET Int /\ n \in 1..n /\ 1..n # {}
      <4>1. IsFiniteSet(1..n)
        BY <2>0, FS_Interval
      <4>2. n \in 1..n
        BY <2>0
      <4>3. \A k \in 1..n : k \in Int
        OBVIOUS
      <4> QED
        BY <4>1, <4>2, <4>3
    <3>2. Max(1..n) \in 1..n /\ Max(1..n) >= n
      BY <3>1, MaxIsMember
    <3> QED
      BY <3>2
  <2>2. (1..n) \ {n} = 1..(n - 1) /\ 1..n # {} /\ 1..n \in SUBSET DOMAIN rs
    <3>1. (1..n) \ {n} = 1..(n - 1)
      BY <2>0
    <3>2. 1..n # {} /\ 1..n \in SUBSET DOMAIN rs
      <4>1. \A k \in 1..n : k \in 1..Len(rs)
        BY <1>3, <2>0
      <4>2. 1 \in 1..n
        BY <2>0
      <4> QED
        BY <1>3, <4>1, <4>2
    <3> QED
      BY <3>1, <3>2
  <2>3. h[n] = g[1..n] /\ h[n - 1] = g[1..(n - 1)]
    BY <1>3
  <2>4. g[1..n] = Extend(g[(1..n) \ {Max(1..n)}], rs[Max(1..n)])
    BY <1>4, <2>2
  <2> HIDE DEF h
  <2> QED
    BY <2>1, <2>2, <2>3, <2>4
<1>7. Kept(rs) = h[Len(rs)]
  BY <1>2, <1>3
<1>8. Steps(rs, h)
  <2> HIDE DEF h
  <2> QED
    BY <1>5, <1>6 DEF Steps
<1> HIDE DEF h
<1> QED
  BY <1>7, <1>8

(* One reading was made before the other: the clock, the files and what    *)
(* arrived only grow, and so does what was given back.                     *)
Before(r, s) ==
  /\ r.at =< s.at /\ r.files =< s.files /\ r.arrived =< s.arrived
  /\ r.arrived - r.bytes =< s.arrived - s.bytes
Ordered(rs) ==
  /\ \A i, j \in 1..Len(rs) : i =< j => Before(rs[i], rs[j])
  /\ \A i \in 1..Len(rs) : Before(Origin, rs[i])

(* The last reading that was kept is the first of the latest.              *)
Latest(rs, n, r) ==
  \/ r = Origin /\ \A i \in 1..n : rs[i].at = 0
  \/ \E j \in 1..n : /\ r = rs[j] /\ r.at > 0
                     /\ \A i \in 1..n : rs[i].at =< r.at
                     /\ \A i \in 1..n : i < j => rs[i].at < r.at
KeptWell(rs, n, k) ==
  /\ k \in Seq(Readings) /\ Len(k) >= 1 /\ k[1] = Origin
  /\ \A i \in 1..Len(k) : k[i] = Origin \/ \E j \in 1..n : k[i] = rs[j]
  /\ \A i \in 1..Len(k) - 1 : Before(k[i], k[i + 1])
  /\ Latest(rs, n, k[Len(k)])

(* A reading more, kept or left out.                                       *)
LEMMA ExtendWell ==
  ASSUME NEW rs \in Seq(Readings), Ordered(rs), NEW n \in Nat, n + 1 =< Len(rs), NEW k,
         KeptWell(rs, n, k)
  PROVE  KeptWell(rs, n + 1, Extend(k, rs[n + 1]))
<1> DEFINE r == rs[n + 1]
           l == k[Len(k)]
<1>1. /\ Len(rs) \in Nat /\ n + 1 \in 1..Len(rs) /\ r \in Readings
      /\ \A i \in 1..n + 1 : i \in 1..Len(rs) /\ rs[i] \in Readings
      /\ \A i \in 1..n + 1 : i \in 1..n \/ i = n + 1
      /\ \A i \in 1..n : i \in 1..n + 1
  OBVIOUS
<1>2. k \in Seq(Readings) /\ Len(k) \in Nat /\ Len(k) >= 1 /\ l \in Readings
  BY DEF KeptWell
<1>3. \A i \in 1..n + 1 : rs[i].at =< r.at
  BY <1>1 DEF Ordered, Before
<1>4. Latest(rs, n, l)
  BY DEF KeptWell
<1>5. Before(l, r)
  <2>1. CASE l = Origin
    BY <1>1, <2>1 DEF Ordered
  <2>2. CASE l # Origin
    <3>1. PICK j \in 1..n : l = rs[j]
      BY <1>4, <2>2 DEF Latest
    <3> HIDE DEF l
    <3> QED
      BY <1>1, <3>1 DEF Ordered
  <2> QED
    BY <2>1, <2>2
<1>6. IsKept(k, r) <=> r.at > l.at
  <2>1. r.at \in Nat /\ l.at \in Nat
    BY <1>1, <1>2 DEF Readings
  <2> QED
    BY <2>1 DEF IsKept, SaturatingSub, Last
<1>7. CASE IsKept(k, r)
  <2> DEFINE e == Append(k, r)
  <2>1. /\ Extend(k, r) = e /\ e \in Seq(Readings) /\ Len(e) = Len(k) + 1
        /\ e[Len(k) + 1] = r /\ \A i \in 1..Len(k) : e[i] = k[i]
    <3>1. Extend(k, r) = e
      BY <1>7 DEF Extend
    <3> QED
      BY <3>1, <1>1, <1>2, AppendProperties
  <2> HIDE DEF e
  <2>2. e[1] = Origin
    BY <1>2, <2>1 DEF KeptWell
  <2>3. ASSUME NEW i \in 1..Len(e) - 1
        PROVE  Before(e[i], e[i + 1])
    <3>1. CASE i = Len(k)
      BY <1>2, <1>5, <2>1, <3>1
    <3>2. CASE i # Len(k)
      <4>1. i \in 1..Len(k) - 1 /\ i \in 1..Len(k) /\ i + 1 \in 1..Len(k)
        BY <1>2, <2>1, <3>2
      <4> QED
        BY <2>1, <4>1 DEF KeptWell
    <3> QED
      BY <3>1, <3>2
  <2>4. \A i \in 1..n : rs[i].at < r.at
    <3>1. \A i \in 1..n : rs[i].at =< l.at
      BY <1>4 DEF Latest, Origin
    <3>2. r.at > l.at
      BY <1>6, <1>7
    <3>3. r.at \in Nat /\ l.at \in Nat /\ \A i \in 1..n : rs[i].at \in Nat
      BY <1>1, <1>2 DEF Readings
    <3> QED
      <4> SUFFICES ASSUME NEW i \in 1..n PROVE rs[i].at < r.at
        OBVIOUS
      <4>1. rs[i].at =< l.at /\ rs[i].at \in Nat
        BY <3>1, <3>3
      <4> HIDE DEF r, l
      <4> QED
        BY <3>2, <3>3, <4>1
  <2>7. \A i \in 1..Len(e) : e[i] = Origin \/ \E j \in 1..n + 1 : e[i] = rs[j]
    <3> SUFFICES ASSUME NEW i \in 1..Len(e)
                 PROVE  e[i] = Origin \/ \E j \in 1..n + 1 : e[i] = rs[j]
      OBVIOUS
    <3>1. CASE i = Len(k) + 1
      <4>1. e[i] = r /\ n + 1 \in 1..n + 1
        BY <2>1, <3>1
      <4> QED
        BY <4>1
    <3>2. CASE i # Len(k) + 1
      <4>1. i \in 1..Len(k)
        BY <1>2, <2>1, <3>2
      <4>2. e[i] = k[i]
        BY <2>1, <4>1
      <4> QED
        BY <1>1, <4>1, <4>2 DEF KeptWell
    <3> QED
      BY <3>1, <3>2
  <2>5. r.at > 0
    <3>1. r.at \in Nat /\ l.at \in Nat /\ r.at > l.at
      BY <1>1, <1>2, <1>6, <1>7 DEF Readings
    <3> HIDE DEF r, l
    <3> QED
      BY <3>1
  <2>6. Latest(rs, n + 1, r)
    <3>1. n + 1 \in 1..n + 1 /\ \A i \in 1..n + 1 : i < n + 1 => i \in 1..n
      BY <1>1
    <3> QED
      BY <1>3, <2>4, <2>5, <3>1 DEF Latest
  <2> QED
    BY <1>2, <2>1, <2>2, <2>3, <2>6, <2>7 DEF KeptWell
<1>8. CASE ~IsKept(k, r)
  <2>1. Extend(k, r) = k
    BY <1>8 DEF Extend
  <2>2. r.at =< l.at
    <3>1. r.at \in Nat /\ l.at \in Nat /\ ~(r.at > l.at)
      BY <1>1, <1>2, <1>6, <1>8 DEF Readings
    <3> HIDE DEF r, l
    <3> QED
      BY <3>1
  <2>3. Latest(rs, n + 1, l)
    <3>1. CASE l = Origin
      <4>1. r.at = 0 /\ l.at = 0
        BY SMTT(60), <1>1, <2>2, <3>1 DEF Readings, Origin
      <4>2. \A i \in 1..n + 1 : rs[i].at = 0
        <5>1. \A i \in 1..n + 1 : rs[i].at \in Nat
          BY <1>1 DEF Readings
        <5> HIDE DEF r
        <5> QED
          BY <1>3, <4>1, <5>1
      <4> QED
        BY <3>1, <4>2 DEF Latest
    <3>2. CASE l # Origin
      <4>1. PICK j \in 1..n : /\ l = rs[j] /\ l.at > 0
                              /\ \A i \in 1..n : rs[i].at =< l.at
                              /\ \A i \in 1..n : i < j => rs[i].at < l.at
        BY <1>4, <3>2 DEF Latest
      <4>2. j \in 1..n + 1
        BY <1>1
      <4>3. \A i \in 1..n + 1 : rs[i].at =< l.at
        BY <1>1, <2>2, <4>1
      <4>4. \A i \in 1..n + 1 : i < j => i \in 1..n
        BY <1>1
      <4> HIDE DEF l
      <4> QED
        BY <4>1, <4>2, <4>3, <4>4 DEF Latest
    <3> QED
      BY <3>1, <3>2
  <2>4. \A i \in 1..Len(k) : k[i] = Origin \/ \E j \in 1..n + 1 : k[i] = rs[j]
    BY <1>1 DEF KeptWell
  <2> QED
    BY <2>1, <2>3, <2>4 DEF KeptWell
<1> QED
  BY <1>7, <1>8

(* What the timeline is made of, when the readings are in order.           *)
LEMMA KeptReadings ==
  ASSUME NEW rs \in Seq(Readings), Ordered(rs)
  PROVE  KeptWell(rs, Len(rs), Kept(rs))
<1>1. PICK h : Steps(rs, h) /\ Kept(rs) = h[Len(rs)]
  BY KeptIs
<1> DEFINE T == {n \in Nat : n =< Len(rs) => KeptWell(rs, n, h[n])}
<1>2. 0 \in T
  <2>1. KeptWell(rs, 0, <<Origin>>)
    <3>1. <<Origin>> \in Seq(Readings) /\ Len(<<Origin>>) = 1 /\ <<Origin>>[1] = Origin
      BY DEF Origin, Readings
    <3>2. Latest(rs, 0, Origin)
      BY DEF Latest
    <3> QED
      BY <3>1, <3>2 DEF KeptWell
  <2> QED
    BY <1>1, <2>1 DEF Steps
<1>3. ASSUME NEW n \in T PROVE n + 1 \in T
  <2>1. n \in Nat /\ n + 1 \in Nat /\ Len(rs) \in Nat
    OBVIOUS
  <2>2. ASSUME n + 1 =< Len(rs)
        PROVE  KeptWell(rs, n + 1, h[n + 1])
    <3>1. KeptWell(rs, n, h[n])
      BY <2>1, <2>2
    <3>2. h[n + 1] = Extend(h[n], rs[n + 1])
      <4>1. n + 1 \in 1..Len(rs) /\ (n + 1) - 1 = n
        BY <2>1, <2>2
      <4>2. h[n + 1] = Extend(h[(n + 1) - 1], rs[n + 1])
        BY <1>1, <4>1 DEF Steps
      <4> QED
        BY <4>1, <4>2
    <3> QED
      BY <2>1, <2>2, <3>1, <3>2, ExtendWell
  <2> QED
    BY <2>1, <2>2
<1>4. T = Nat
  <2> HIDE DEF T
  <2>1. T \in SUBSET Nat
    BY DEF T
  <2> QED
    BY <1>2, <1>3, <2>1, Induction
<1> QED
  BY <1>1, <1>4

(* Differences add up to the difference of the ends.                       *)
LEMMA Telescope ==
  ASSUME NEW m \in Nat, NEW f, NEW v, \A i \in 1..m + 1 : v[i] \in Int,
         \A i \in 1..m : f[i] = v[i + 1] - v[i]
  PROVE  SumFunctionOnSet(f, 1..m) = v[m + 1] - v[1]
<1> DEFINE T == {n \in Nat : n =< m => SumFunctionOnSet(f, 1..n) = v[n + 1] - v[1]}
<1>1. 0 \in T
  <2>1. 1..0 = {} /\ v[1] \in Int
    OBVIOUS
  <2> QED
    BY <2>1, SumEmpty
<1>2. ASSUME NEW n \in T PROVE n + 1 \in T
  <2>1. n \in Nat /\ n + 1 \in Nat
    OBVIOUS
  <2>2. ASSUME n + 1 =< m
        PROVE  SumFunctionOnSet(f, 1..n + 1) = v[n + 2] - v[1]
    <3>1. SumFunctionOnSet(f, 1..n) = v[n + 1] - v[1]
      BY <2>1, <2>2
    <3>2. /\ n + 1 \notin 1..n /\ 1..n + 1 = (1..n) \union {n + 1}
          /\ n + 1 \in 1..m /\ 1 \in 1..m + 1 /\ n + 1 \in 1..m + 1 /\ n + 2 \in 1..m + 1
      BY <2>1, <2>2
    <3>3. \A i \in 1..n + 1 : f[i] \in Int
      <4>1. \A i \in 1..n + 1 : i \in 1..m /\ i \in 1..m + 1 /\ i + 1 \in 1..m + 1
        BY <2>1, <2>2
      <4> SUFFICES ASSUME NEW i \in 1..n + 1 PROVE f[i] \in Int
        OBVIOUS
      <4>2. v[i + 1] \in Int /\ v[i] \in Int /\ f[i] = v[i + 1] - v[i]
        BY <4>1
      <4> QED
        BY <4>2
    <3>4. IsFiniteSet(1..n)
      BY <2>1, FS_Interval
    <3>5. SumFunctionOnSet(f, (1..n) \union {n + 1}) = f[n + 1] + SumFunctionOnSet(f, 1..n)
      <4>1. \A i \in (1..n) \union {n + 1} : f[i] \in Int
        BY <3>2, <3>3
      <4> QED
        BY <3>2, <3>4, <4>1, SumAdd
    <3>6. f[n + 1] = v[n + 2] - v[n + 1] /\ v[1] \in Int /\ v[n + 1] \in Int /\ v[n + 2] \in Int
      <4>1. (n + 1) + 1 = n + 2
        BY <2>1
      <4>2. f[n + 1] = v[(n + 1) + 1] - v[n + 1]
        BY <3>2
      <4>3. v[1] \in Int /\ v[n + 1] \in Int /\ v[n + 2] \in Int
        BY <3>2
      <4> QED
        BY <4>1, <4>2, <4>3
    <3>7. SumFunctionOnSet(f, 1..n + 1) = f[n + 1] + SumFunctionOnSet(f, 1..n)
      BY <3>2, <3>5
    <3> QED
      BY <3>1, <3>6, <3>7
  <2>3. (n + 1) + 1 = n + 2
    BY <2>1
  <2> QED
    BY <2>1, <2>2, <2>3
<1>3. T = Nat
  <2> HIDE DEF T
  <2>1. T \in SUBSET Nat
    BY DEF T
  <2> QED
    BY <1>1, <1>2, <2>1, Induction
<1> QED
  BY <1>3

(* The timeline of readings that are in order: the intervals between those *)
(* that are kept.                                                          *)
LEMMA TimelineIs ==
  ASSUME NEW rs \in Seq(Readings), Ordered(rs)
  PROVE  LET k == Kept(rs)
             t == TimelineOf(rs)
         IN  /\ Len(k) - 1 \in Nat /\ DOMAIN t = 1..Len(k) - 1
             /\ \A i \in 1..Len(k) : k[i] \in Readings
             /\ \A i \in 1..Len(k) - 1 :
                  /\ t[i].files = k[i + 1].files - k[i].files
                  /\ t[i].bytes = SaturatingSub(k[i + 1].bytes, k[i].bytes)
                  /\ t[i].truth = k[i + 1].arrived - k[i].arrived
                  /\ Before(k[i], k[i + 1]) /\ i \in 1..Len(k) /\ i + 1 \in 1..Len(k)
<1> DEFINE k == Kept(rs)
<1>1. KeptWell(rs, Len(rs), k)
  BY KeptReadings
<1> HIDE DEF k
<1>2. k \in Seq(Readings) /\ Len(k) \in Nat /\ Len(k) - 1 \in Nat
  BY <1>1 DEF KeptWell
<1>3. \A i \in 1..Len(k) : k[i] \in Readings
  BY <1>2
<1>4. \A i \in 1..Len(k) - 1 : i \in 1..Len(k) /\ i + 1 \in 1..Len(k)
  BY <1>2
<1>5. \A i \in 1..Len(k) - 1 : Before(k[i], k[i + 1])
  BY <1>1 DEF KeptWell
<1>6. TimelineOf(rs) = [i \in 1..Len(k) - 1 |->
     [at    |-> k[i + 1].at,
      bytes |-> SaturatingSub(k[i + 1].bytes, k[i].bytes),
      files |-> SaturatingSub(k[i + 1].files, k[i].files),
      truth |-> k[i + 1].arrived - k[i].arrived]]
  BY DEF TimelineOf, k
<1>7. \A i \in 1..Len(k) - 1 :
        SaturatingSub(k[i + 1].files, k[i].files) = k[i + 1].files - k[i].files
  BY <1>3, <1>4, <1>5 DEF SaturatingSub, Readings, Before
<1> QED
  BY <1>2, <1>3, <1>4, <1>5, <1>6, <1>7 DEF k

(* No interval shows more than arrived in it.                              *)
LEMMA TimelineTruth ==
  ASSUME NEW rs \in Seq(Readings), Ordered(rs), NEW i \in DOMAIN TimelineOf(rs)
  PROVE  TimelineOf(rs)[i].bytes =< TimelineOf(rs)[i].truth
<1> DEFINE k == Kept(rs)
           t == TimelineOf(rs)
<1>1. /\ i \in 1..Len(k) - 1
      /\ t[i].bytes = SaturatingSub(k[i + 1].bytes, k[i].bytes)
      /\ t[i].truth = k[i + 1].arrived - k[i].arrived
      /\ Before(k[i], k[i + 1]) /\ k[i] \in Readings /\ k[i + 1] \in Readings
  BY TimelineIs
<1> HIDE DEF k, t
<1>2. t[i].bytes =< t[i].truth
  <2>1. /\ k[i].bytes \in Int /\ k[i + 1].bytes \in Int
        /\ k[i].arrived \in Int /\ k[i + 1].arrived \in Int
    BY <1>1 DEF Readings
  <2>2. /\ k[i].arrived =< k[i + 1].arrived
        /\ k[i].arrived - k[i].bytes =< k[i + 1].arrived - k[i + 1].bytes
    BY <1>1 DEF Before
  <2>3. SaturatingSub(k[i + 1].bytes, k[i].bytes) =< k[i + 1].arrived - k[i].arrived
    BY <2>1, <2>2 DEF SaturatingSub
  <2> QED
    BY <1>1, <2>3
<1> QED
  BY <1>2 DEF t

(* Of the latest readings, which the clock cannot tell from each other,    *)
(* the first is the last one kept.                                         *)
LEMMA LastKept ==
  ASSUME progress \in Seq(Readings), Ordered(progress), progress # <<>>,
         \A i \in 1..Len(progress) : progress[i].at > 0
  PROVE  Last(Kept(progress)) = LastTold
<1> DEFINE n == Len(progress)
           l == Last(Kept(progress))
           S == {i \in DOMAIN progress : progress[i].at = Last(progress).at}
<1>1. n \in Nat /\ n \in 1..n /\ DOMAIN progress = 1..n /\ Last(progress) = progress[n]
      /\ \A i \in 1..n : progress[i].at \in Nat
  <2>1. n \in Nat /\ n # 0 /\ DOMAIN progress = 1..n
    BY EmptySeq
  <2>2. \A i \in 1..n : progress[i] \in Readings
    OBVIOUS
  <2> QED
    BY <2>1, <2>2 DEF Last, Readings
<1>2. Latest(progress, n, l)
  BY KeptReadings DEF KeptWell, Last
<1>3. PICK j \in 1..n : /\ l = progress[j]
                        /\ \A i \in 1..n : progress[i].at =< l.at
                        /\ \A i \in 1..n : i < j => progress[i].at < l.at
  <2> HIDE DEF l, n
  <2>1. progress[n].at > 0
    BY <1>1 DEF n
  <2>2. ~ \A i \in 1..n : progress[i].at = 0
    BY <1>1, <2>1
  <2> QED
    BY <1>2, <2>2 DEF Latest
<1> HIDE DEF l
<1>4. progress[j].at = progress[n].at
  <2>1. progress[j].at =< progress[n].at
    BY <1>1 DEF Ordered, Before
  <2>2. progress[n].at =< progress[j].at
    BY <1>1, <1>3
  <2> QED
    BY <1>1, <2>1, <2>2
<1>5. j \in S /\ S \in SUBSET Nat
  BY <1>1, <1>4
<1>6. Min(S) \in S /\ Min(S) =< j
  <2> HIDE DEF S
  <2> QED
    BY <1>5, MinIsMember
<1>7. Min(S) = j
  <2>1. Min(S) \in 1..n /\ progress[Min(S)].at = progress[j].at
    BY <1>1, <1>4, <1>6
  <2>2. ~(Min(S) < j)
    <3> HIDE DEF S
    <3> QED
      BY <1>1, <1>3, <2>1
  <2> HIDE DEF S
  <2> QED
    BY <1>1, <1>6, <2>1, <2>2
<1> QED
  BY <1>3, <1>7 DEF LastTold, l

(* The sums over the timeline.                                             *)
LEMMA ToldSums ==
  ASSUME progress \in Seq(Readings), Ordered(progress), progress # <<>>,
         \A i \in 1..Len(progress) : progress[i].at > 0
  PROVE  /\ Told("files") = LastTold.files
         /\ Told("bytes") >= LastTold.bytes
         /\ (\A i \in 1..Len(progress) : progress[i].bytes = progress[i].arrived) =>
              Told("bytes") = LastTold.bytes
<1> DEFINE k == Kept(progress)
           t == TimelineOf(progress)
           m == Len(k) - 1
           files == [i \in 1..m |-> t[i]["files"]]
           bytes == [i \in 1..m |-> t[i]["bytes"]]
           fs == [i \in 1..m + 1 |-> k[i].files]
           bs == [i \in 1..m + 1 |-> k[i].bytes]
           moved == [i \in 1..m |-> k[i + 1].bytes - k[i].bytes]
<1>1. /\ m \in Nat /\ DOMAIN t = 1..m /\ m + 1 = Len(k)
      /\ \A i \in 1..m + 1 : k[i] \in Readings
      /\ \A i \in 1..m : /\ t[i].files = k[i + 1].files - k[i].files
                         /\ t[i].bytes = SaturatingSub(k[i + 1].bytes, k[i].bytes)
                         /\ i \in 1..m + 1 /\ i + 1 \in 1..m + 1
  BY TimelineIs
<1>2. k[1] = Origin /\ k[m + 1] = LastTold
  BY KeptReadings, LastKept, <1>1 DEF KeptWell, Last
<1>3. Told("files") = SumFunctionOnSet(files, 1..m) /\ Told("bytes") = SumFunctionOnSet(bytes, 1..m)
  BY <1>1 DEF Told, SumFunction
<1> HIDE DEF k, t, m
<1>4. IsFiniteSet(1..m) /\ 1 \in 1..m + 1 /\ m + 1 \in 1..m + 1
  <2>1. IsFiniteSet(1..m)
    BY <1>1, FS_Interval
  <2>2. 1 \in 1..m + 1 /\ m + 1 \in 1..m + 1
    BY <1>1
  <2> QED
    BY <2>1, <2>2
<1>5. \A i \in 1..m + 1 : k[i].files \in Nat /\ k[i].bytes \in Int
  BY <1>1 DEF Readings
<1>6. SumFunctionOnSet(files, 1..m) = fs[m + 1] - fs[1]
  <2>1. \A i \in 1..m + 1 : fs[i] \in Int
    BY <1>5
  <2>2. \A i \in 1..m : files[i] = fs[i + 1] - fs[i]
    BY <1>1
  <2> HIDE DEF files, fs
  <2> QED
    BY SMTT(60), <1>1, <2>1, <2>2, Telescope
<1>7. SumFunctionOnSet(moved, 1..m) = bs[m + 1] - bs[1]
  <2>1. \A i \in 1..m + 1 : bs[i] \in Int
    BY <1>5
  <2>2. \A i \in 1..m : moved[i] = bs[i + 1] - bs[i]
    BY <1>1
  <2> HIDE DEF moved, bs
  <2> QED
    BY SMTT(60), <1>1, <2>1, <2>2, Telescope
<1>8. \A i \in 1..m : /\ moved[i] \in Int /\ bytes[i] \in Int /\ moved[i] =< bytes[i]
  <2>1. \A i \in 1..m : bytes[i] = SaturatingSub(k[i + 1].bytes, k[i].bytes)
    BY <1>1
  <2>2. \A i \in 1..m : k[i].bytes \in Int /\ k[i + 1].bytes \in Int
    BY <1>1, <1>5
  <2> HIDE DEF bytes
  <2> QED
    BY <2>1, <2>2 DEF SaturatingSub
<1>9. SumFunctionOnSet(moved, 1..m) =< SumFunctionOnSet(bytes, 1..m)
  <2> HIDE DEF moved, bytes
  <2> QED
    BY <1>4, <1>8, SumMonotone
<1>10. /\ fs[1] = 0 /\ bs[1] = 0 /\ fs[m + 1] = LastTold.files /\ bs[m + 1] = LastTold.bytes
       /\ LastTold.files \in Nat /\ LastTold.bytes \in Int
  BY <1>2, <1>4, <1>5 DEF Origin
<1>11. ASSUME \A i \in 1..Len(progress) : progress[i].bytes = progress[i].arrived
       PROVE  SumFunctionOnSet(moved, 1..m) = SumFunctionOnSet(bytes, 1..m)
  <2>1. \A i \in 1..m + 1 : k[i].bytes = k[i].arrived
    <3>1. \A i \in 1..m + 1 :
            k[i] = Origin \/ \E j \in 1..Len(progress) : k[i] = progress[j]
      BY <1>1, KeptReadings DEF KeptWell, k
    <3> QED
      BY <1>11, <3>1 DEF Origin
  <2>2. \A i \in 1..m : Before(k[i], k[i + 1])
    BY TimelineIs DEF k, m
  <2>3. \A i \in 1..m : bytes[i] = moved[i]
    <3>1. \A i \in 1..m : k[i].bytes =< k[i + 1].bytes
      BY <1>1, <2>1, <2>2 DEF Before
    <3>2. \A i \in 1..m : k[i].bytes \in Int /\ k[i + 1].bytes \in Int
      BY <1>1, <1>5
    <3>3. \A i \in 1..m : bytes[i] = SaturatingSub(k[i + 1].bytes, k[i].bytes)
      BY <1>1
    <3>4. \A i \in 1..m : moved[i] = k[i + 1].bytes - k[i].bytes
      OBVIOUS
    <3> HIDE DEF bytes, moved
    <3> QED
      BY <3>1, <3>2, <3>3, <3>4 DEF SaturatingSub
  <2> HIDE DEF moved, bytes
  <2> QED
    BY <1>4, <1>8, <2>3, SumEqual
<1> HIDE DEF files, bytes, moved, fs, bs
<1> QED
  BY <1>3, <1>6, <1>7, <1>9, <1>10, <1>11

(* The sum of a value that only some of the members have.                  *)
LEMMA SumOfSome ==
  ASSUME NEW S, IsFiniteSet(S), NEW A \in SUBSET S, NEW c \in Int, NEW f,
         \A x \in S : f[x] = IF x \in A THEN c ELSE 0
  PROVE  SumFunctionOnSet(f, S) = c * Cardinality(A)
<1> DEFINE P == {s \in SUBSET S : SumFunctionOnSet(f, s) = c * Cardinality(s \intersect A)}
<1>1. {} \in P
  <2>1. {} \intersect A = {} /\ Cardinality({}) = 0
    BY FS_EmptySet
  <2>2. c * 0 = 0
    OBVIOUS
  <2> QED
    BY <2>1, <2>2, SumEmpty
<1>2. ASSUME NEW s \in P, NEW x \in S
      PROVE  s \union {x} \in P
  <2>1. IsFiniteSet(s) /\ IsFiniteSet(s \intersect A)
    BY FS_Subset
  <2>2. CASE x \in s
    <3>1. s \union {x} = s
      BY <2>2
    <3> QED
      BY <3>1
  <2>3. CASE x \notin s
    <3>0. \A y \in s \union {x} : f[y] \in Int
      OBVIOUS
    <3>1. SumFunctionOnSet(f, s \union {x}) = f[x] + SumFunctionOnSet(f, s)
      BY <2>1, <2>3, <3>0, SumAdd
    <3>2. Cardinality(s \intersect A) \in Nat
      BY <2>1, FS_CardinalityType
    <3>3. SumFunctionOnSet(f, s) = c * Cardinality(s \intersect A)
      OBVIOUS
    <3>4. CASE x \in A
      <4>1. (s \union {x}) \intersect A = (s \intersect A) \union {x} /\ x \notin s \intersect A
        BY <2>3, <3>4
      <4>2. Cardinality((s \union {x}) \intersect A) = Cardinality(s \intersect A) + 1
        BY <2>1, <4>1, FS_AddElement
      <4>3. c * (Cardinality(s \intersect A) + 1) = c + c * Cardinality(s \intersect A)
        BY <3>2
      <4>4. SumFunctionOnSet(f, s \union {x}) = c * Cardinality((s \union {x}) \intersect A)
        BY <3>1, <3>3, <3>4, <4>2, <4>3
      <4> QED
        BY <4>4
    <3>5. CASE x \notin A
      <4>1. (s \union {x}) \intersect A = s \intersect A
        BY <3>5
      <4>2. c * Cardinality(s \intersect A) \in Int
        BY <3>2
      <4>3. SumFunctionOnSet(f, s \union {x}) = c * Cardinality((s \union {x}) \intersect A)
        <5> DEFINE a == c * Cardinality(s \intersect A)
        <5>1. a \in Int /\ f[x] = 0 /\ SumFunctionOnSet(f, s) = a
          BY <3>3, <3>5, <4>2
        <5> HIDE DEF a
        <5>2. SumFunctionOnSet(f, s \union {x}) = a
          BY <3>1, <5>1
        <5> QED
          BY <4>1, <5>2 DEF a
      <4> QED
        BY <4>3
    <3> QED
      BY <3>4, <3>5
  <2> QED
    BY <2>2, <2>3
<1>3. S \in P
  <2> HIDE DEF P
  <2>1. P \in SUBSET (SUBSET S)
    BY DEF P
  <2> QED
    BY <1>1, <1>2, <2>1, SubsetInduction
<1>4. S \intersect A = A
  OBVIOUS
<1> QED
  BY <1>3, <1>4

(* The sum of numbers is a number.                                         *)
LEMMA SumNat ==
  ASSUME NEW S, IsFiniteSet(S), NEW f, \A x \in S : f[x] \in Nat
  PROVE  SumFunctionOnSet(f, S) \in Nat
<1> DEFINE z == [x \in S |-> 0]
<1>1. SumFunctionOnSet(z, S) = 0 * Cardinality({})
  <2>1. \A x \in S : z[x] = IF x \in {} THEN 0 ELSE 0
    OBVIOUS
  <2> HIDE DEF z
  <2> QED
    BY <2>1, SumOfSome
<1>2. SumFunctionOnSet(z, S) =< SumFunctionOnSet(f, S)
  <2>1. \A x \in S : z[x] \in Int /\ z[x] =< f[x]
    OBVIOUS
  <2> HIDE DEF z
  <2> QED
    BY <2>1, SumMonotone
<1>3. SumFunctionOnSet(f, S) \in Int
  BY SumType
<1>4. Cardinality({}) = 0
  BY FS_EmptySet
<1> HIDE DEF z
<1> QED
  BY <1>1, <1>2, <1>3, <1>4

(* The total of a field of records: one record more.                       *)
LEMMA TotalAdd ==
  ASSUME NEW S, IsFiniteSet(S), NEW x, x \notin S, NEW field,
         \A s \in S \union {x} : s[field] \in Nat
  PROVE  Total(S \union {x}, field) = Total(S, field) + x[field] /\ Total(S, field) \in Nat
<1> DEFINE f == [s \in S |-> s[field]]
           h == [s \in S \union {x} |-> s[field]]
<1>1. Total(S, field) = SumFunctionOnSet(f, S)
      /\ Total(S \union {x}, field) = SumFunctionOnSet(h, S \union {x})
  BY DEF Total, SumFunction
<1>2. /\ \A s \in S : f[s] \in Nat /\ h[s] = f[s]
      /\ \A s \in S \union {x} : h[s] \in Int
      /\ h[x] = x[field] /\ x[field] \in Nat
  OBVIOUS
<1> HIDE DEF f, h
<1>3. SumFunctionOnSet(h, S \union {x}) = h[x] + SumFunctionOnSet(h, S)
  BY <1>2, SumAdd
<1>4. SumFunctionOnSet(h, S) = SumFunctionOnSet(f, S)
  BY <1>2, SumEqual
<1>5. SumFunctionOnSet(f, S) \in Nat
  BY <1>2, SumNat
<1> QED
  BY <1>1, <1>2, <1>3, <1>4, <1>5

(* Nothing has no total.                                                   *)
LEMMA TotalEmpty == ASSUME NEW field PROVE Total({}, field) = 0
<1>1. DOMAIN [s \in {} |-> s[field]] = {}
  OBVIOUS
<1> QED
  BY <1>1, SumEmpty DEF Total, SumFunction

-----------------------------------------------------------------------------
(* The invariant.                                                          *)
Sample == [by : Streams, size : Nat, duration : Nat, start : Nat]
Types ==
  /\ now \in Nat /\ queue \in Seq(Nat)
  /\ stream \in [Streams -> {"opening", "idle", "busy", "over", "refused"}]
  /\ file \in [Streams -> [size : Nat, written : Nat, began : Nat]]
  /\ bytesDone \in Int /\ filesDone \in Nat /\ failed \in Nat /\ arrived \in Nat
  /\ samples \in SUBSET Sample /\ IsFiniteSet(samples)
  /\ sampler \in {"parked", "due", "timed", "loaded"}
  /\ held \in Readings /\ log \in Seq(Readings) /\ progress \in Seq(Readings)
  /\ nextTick \in Nat /\ nextTick > 0
  /\ stage \in {"join", "aborted", "over"} /\ elapsed \in 0..now

(* The files under way, and those whose time was taken.                    *)
Busy(w) == stream[w] = "busy"
Files ==
  /\ \A w \in Streams : file[w].began =< now
  /\ \A w \in Streams : ~Busy(w) => file[w] = NoFile

(* The counters: what was measured, with what is under way.                *)
Written == [w \in Streams |-> file[w].written]
Counters ==
  /\ bytesDone = Total(samples, "size") + SumFunctionOnSet(Written, Streams)
  /\ filesDone = Cardinality(samples) + failed
  /\ bytesDone =< arrived /\ (failed = 0 => bytesDone = arrived)

(* A stream measures one file after the other.                             *)
Until(w) == IF Busy(w) THEN file[w].began ELSE IF stream[w] \in {"idle", "over"} THEN now ELSE 0
Measured == [w \in Streams |-> Until(w)]
Durations ==
  /\ \A s \in samples : s.duration > 0 /\ s.start + s.duration =< Until(s.by)
  /\ StreamTime =< SumFunctionOnSet(Measured, Streams)

(* The readings: the ones that were made, and the one that is under way.   *)
Current == Reading(now, bytesDone, filesDone)
HeldNow == [held EXCEPT !.files = filesDone]
Sampled ==
  /\ Ordered(log) /\ \A i \in 1..Len(log) : log[i].at > 0 /\ Before(log[i], Current)
  /\ sampler \in {"parked", "due"} => held = Origin
  /\ sampler # "parked" => now > 0
  /\ sampler \in {"timed", "loaded"} =>
       held.at > 0 /\ held.at =< now /\ \A i \in 1..Len(log) : log[i].at =< held.at
  /\ sampler = "loaded" => /\ Before(Origin, HeldNow) /\ Before(HeldNow, Current)
                           /\ \A i \in 1..Len(log) : Before(log[i], HeldNow)

(* Nothing ends at time 0: there is a file to read, and it takes time.     *)
Begun ==
  /\ now = 0 => /\ queue # <<>> \/ \E w \in Streams : Busy(w)
                /\ \A w \in Streams : stream[w] = "over" => queue = <<>>
  /\ stage # "join" => \A w \in Streams : stream[w] \in {"over", "refused"}
  /\ stage = "aborted" => now > 0
  /\ stage # "over" => progress = <<>>

(* The end.                                                                *)
Ended ==
  progress # <<>> =>
    /\ stage = "over" /\ elapsed = now /\ sampler \in {"parked", "due"}
    /\ Ordered(progress) /\ \A i \in 1..Len(progress) : progress[i].at > 0
    /\ Last(progress) = Current

(* Two files that one stream began at the same time are the same.          *)
Apart == \A a, b \in samples : a.by = b.by /\ a.start = b.start => a = b

PerfInv == Types /\ Files /\ Counters /\ Durations /\ Sampled /\ Begun /\ Ended /\ Apart

(* Every step keeps the types.                                             *)
LEMMA TypesNext ==
  ASSUME Types, Files, [Next]_vars
  PROVE  Types'
<1>1. ASSUME NEW w \in Streams, Open(w)
      PROVE  Types'
  BY <1>1 DEF Open, sampling, ending, Types
<1>2. ASSUME NEW w \in Streams, Take(w)
      PROVE  Types'
  <2>1. queue # <<>> => Tail(queue) \in Seq(Nat) /\ Head(queue) \in Nat
    BY HeadTailProperties DEF Types
  <2> DEFINE r == [size |-> Head(queue), written |-> 0, began |-> now]
  <2>2. queue # <<>> => r \in [size : Nat, written : Nat, began : Nat]
    BY <2>1 DEF Types
  <2>3. queue' \in Seq(Nat) /\ file' \in [Streams -> [size : Nat, written : Nat, began : Nat]]
    <3>1. file' = file \/ (queue # <<>> /\ file' = [file EXCEPT ![w] = r])
      BY <1>2 DEF Take
    <3> HIDE DEF r
    <3> QED
      BY ZenonT(60), <1>2, <2>1, <2>2, <3>1 DEF Take, Types
  <2> QED
    BY <1>2, <2>3 DEF Take, sampling, ending, Types
<1>3. ASSUME NEW w \in Streams, Arrive(w)
      PROVE  Types'
  <2> DEFINE r == [file[w] EXCEPT !.written = @ + 1]
  <2>1. r \in [size : Nat, written : Nat, began : Nat]
    <3>1. file[w] \in [size : Nat, written : Nat, began : Nat]
      BY DEF Types
    <3>2. file[w].written + 1 \in Nat
      BY <3>1
    <3> QED
      BY <3>1, <3>2
  <2>2. file' = [file EXCEPT ![w] = r]
    BY <1>3 DEF Arrive
  <2> HIDE DEF r
  <2>3. file' \in [Streams -> [size : Nat, written : Nat, began : Nat]]
    BY <2>1, <2>2 DEF Types
  <2>4. bytesDone' \in Int /\ arrived' \in Nat
    BY SMTT(60), <1>3 DEF Arrive, Types
  <2>5. UNCHANGED <<now, queue, stream, filesDone, samples, failed, sampling, ending>>
    BY <1>3 DEF Arrive
  <2> QED
    BY <2>3, <2>4, <2>5 DEF sampling, ending, Types
<1>4. ASSUME NEW w \in Streams, Finish(w)
      PROVE  Types'
  <2>1. [by |-> w, size |-> file[w].size, duration |-> TimeTaken(w), start |-> file[w].began] \in Sample
    BY <1>4 DEF Finish, TimeTaken, Types, Sample
  <2>2. IsFiniteSet(samples')
    BY <1>4, FS_AddElement DEF Finish, Types
  <2>3. samples' \in SUBSET Sample
    BY <1>4, <2>1 DEF Finish, Types
  <2>4. NoFile \in [size : Nat, written : Nat, began : Nat]
    BY DEF NoFile
  <2> QED
    BY <1>4, <2>2, <2>3, <2>4 DEF Finish, sampling, ending, Types
<1>5. ASSUME NEW w \in Streams, Fail(w)
      PROVE  Types'
  <2>1. NoFile \in [size : Nat, written : Nat, began : Nat]
    BY DEF NoFile
  <2> QED
    BY SMTT(60), <1>5, <2>1 DEF Fail, GivenBack, sampling, ending, Types
<1>6. CASE Tick
  BY <1>6 DEF Tick, engine, sampling, ending, Types
<1>7. CASE Wake
  <2>1. nextTick' \in Nat /\ nextTick' > 0
    BY <1>7, PerfAssumption DEF Wake, Types
  <2> QED
    BY <1>7, <2>1 DEF Wake, engine, ending, Types
<1>8. CASE ReadClock
  <2>1. held' \in Readings
    BY <1>8 DEF ReadClock, Types, Readings
  <2> QED
    BY <1>8, <2>1 DEF ReadClock, engine, ending, Types
<1>9. CASE LoadBytes
  <2>1. held' \in Readings
    BY <1>9 DEF LoadBytes, Types, Readings, Reading
  <2> QED
    BY <1>9, <2>1 DEF LoadBytes, engine, ending, Types
<1>10. CASE LoadFiles
  <2>1. [held EXCEPT !.files = filesDone] \in Readings /\ Origin \in Readings
    <3>1. Origin \in Readings
      BY DEF Readings, Origin
    <3>2. [held EXCEPT !.files = filesDone] \in Readings
      BY DEF Types, Readings
    <3> QED
      BY <3>1, <3>2
  <2>2. log' \in Seq(Readings)
    BY <1>10, <2>1, AppendProperties DEF LoadFiles, Types
  <2>3. nextTick' \in Nat /\ nextTick' > 0
    BY <1>10, PerfAssumption DEF LoadFiles, Types
  <2> QED
    BY <1>10, <2>1, <2>2, <2>3 DEF LoadFiles, engine, ending, Types
<1>11. CASE Join
  BY <1>11 DEF Join, engine, sampling, Types
<1>12. CASE Collect
  <2>1. Reading(now, bytesDone, filesDone) \in Readings
    BY DEF Types, Readings, Reading
  <2>2. progress' \in Seq(Readings)
    BY <1>12, <2>1, AppendProperties DEF Collect, LastTime, Types
  <2> QED
    BY <1>12, <2>2 DEF Collect, engine, sampling, Types
<1>13. CASE Done
  BY <1>13 DEF Done, vars, engine, sampling, ending, Types
<1>14. CASE UNCHANGED vars
  BY <1>14 DEF vars, engine, sampling, ending, Types
<1> QED
  BY <1>1, <1>2, <1>3, <1>4, <1>5, <1>6, <1>7, <1>8, <1>9, <1>10, <1>11, <1>12, <1>13, <1>14
     DEF Next

(* What does not touch the engine or the clock.                            *)
LEMMA EngineSteps ==
  ASSUME [Next]_vars
  PROVE  \/ \E w \in Streams : Open(w) \/ Take(w) \/ Arrive(w) \/ Finish(w) \/ Fail(w)
         \/ Tick
         \/ UNCHANGED <<now, engine>>
BY DEF Next, Wake, ReadClock, LoadBytes, LoadFiles, Join, Collect, Done, vars

(* A file is read since some time ago, and only by a busy stream.          *)
LEMMA FilesNext ==
  ASSUME Types, Files, [Next]_vars
  PROVE  Files'
<1>1. ASSUME NEW w \in Streams, Open(w)
      PROVE  Files'
  BY <1>1 DEF Open, sampling, ending, Types, Files, Busy, NoFile
<1>2. ASSUME NEW w \in Streams, Take(w)
      PROVE  Files'
  <2>1. CASE queue = <<>>
    BY <1>2, <2>1 DEF Take, sampling, ending, Types, Files, Busy
  <2>2. CASE queue # <<>>
    <3>1. \A v \in Streams : file'[v].began = IF v = w THEN now ELSE file[v].began
      BY <1>2, <2>2 DEF Take, Types
    <3>2. \A v \in Streams : v # w => file'[v] = file[v] /\ stream'[v] = stream[v]
      BY <1>2, <2>2 DEF Take, Types
    <3>3. stream'[w] = "busy" /\ now' = now
      BY <1>2, <2>2 DEF Take, Types
    <3>4. \A v \in Streams : file'[v].began =< now'
      <4> SUFFICES ASSUME NEW v \in Streams PROVE file'[v].began =< now'
        OBVIOUS
      <4>1. CASE v = w
        BY <3>1, <3>3, <4>1 DEF Types
      <4>2. CASE v # w
        BY <3>1, <3>3, <4>2 DEF Files
      <4> QED
        BY <4>1, <4>2
    <3>5. \A v \in Streams : stream'[v] # "busy" => file'[v] = NoFile
      BY <3>2, <3>3 DEF Files, Busy
    <3> QED
      BY <3>4, <3>5 DEF Files, Busy
  <2> QED
    BY <2>1, <2>2
<1>3. ASSUME NEW w \in Streams, Arrive(w)
      PROVE  Files'
  BY <1>3 DEF Arrive, sampling, ending, Types, Files, Busy, NoFile
<1>4. ASSUME NEW w \in Streams, Finish(w)
      PROVE  Files'
  BY <1>4 DEF Finish, TimeTaken, sampling, ending, Types, Files, Busy, NoFile
<1>5. ASSUME NEW w \in Streams, Fail(w)
      PROVE  Files'
  BY <1>5 DEF Fail, GivenBack, sampling, ending, Types, Files, Busy, NoFile
<1>6. CASE Tick
  BY <1>6 DEF Tick, engine, sampling, ending, Types, Files, Busy, NoFile
<1>7. CASE UNCHANGED <<now, engine>>
  BY <1>7 DEF engine, Files, Busy
<1> QED
  BY <1>1, <1>2, <1>3, <1>4, <1>5, <1>6, <1>7, EngineSteps

(* The first file takes time.                                              *)
LEMMA BegunNext ==
  ASSUME Types, Files, Begun, Ended, [Next]_vars
  PROVE  Begun'
<1>1. ASSUME NEW w \in Streams, Open(w)
      PROVE  Begun'
  BY <1>1 DEF Open, sampling, ending, Types, Begun, Busy
<1>2. ASSUME NEW w \in Streams, Take(w)
      PROVE  Begun'
  BY <1>2 DEF Take, sampling, ending, Types, Begun, Busy
<1>3. ASSUME NEW w \in Streams, Arrive(w)
      PROVE  Begun'
  BY <1>3 DEF Arrive, sampling, ending, Types, Begun, Busy
<1>4. ASSUME NEW w \in Streams, Finish(w)
      PROVE  Begun'
  BY <1>4 DEF Finish, TimeTaken, sampling, ending, Types, Begun, Busy
<1>5. ASSUME NEW w \in Streams, Fail(w)
      PROVE  Begun'
  BY <1>5 DEF Fail, GivenBack, sampling, ending, Types, Begun, Busy
<1>6. CASE Tick
  BY <1>6 DEF Tick, engine, sampling, ending, Types, Begun, Busy
<1>7. CASE Wake
  BY <1>7 DEF Wake, engine, ending, Types, Begun, Busy
<1>8. CASE ReadClock
  BY <1>8 DEF ReadClock, engine, ending, Types, Begun, Busy
<1>9. CASE LoadBytes
  BY <1>9 DEF LoadBytes, engine, ending, Reading, Types, Begun, Busy
<1>10. CASE LoadFiles
  BY <1>10 DEF LoadFiles, engine, ending, Types, Begun, Busy
<1>11. CASE Join
  <2>1. now = 0 => Started = {}
    BY <1>11 DEF Join, Started, Begun, Busy
  <2> QED
    BY <1>11, <2>1 DEF Join, engine, sampling, Types, Begun, Busy
<1>12. CASE Collect
  BY <1>12 DEF Collect, engine, sampling, LastTime, Reading, Types, Begun, Busy
<1>13. CASE Done
  BY <1>13 DEF Done, vars, engine, sampling, ending, Types, Begun, Busy
<1>14. CASE UNCHANGED vars
  BY <1>14 DEF vars, engine, sampling, ending, Types, Begun, Busy
<1> QED
  BY <1>1, <1>2, <1>3, <1>4, <1>5, <1>6, <1>7, <1>8, <1>9, <1>10, <1>11, <1>12, <1>13, <1>14
     DEF Next

(* A stream's file changes, and the sum of what is under way with it.      *)
LEMMA WrittenSum ==
  ASSUME Types
  PROVE  /\ SumFunctionOnSet(Written, Streams) \in Nat /\ IsFiniteSet(Streams)
         /\ \A w \in Streams : Written[w] = file[w].written /\ Written[w] \in Nat
<1>1. \A w \in Streams : Written[w] = file[w].written /\ Written[w] \in Nat
  BY DEF Types, Written
<1>2. IsFiniteSet(Streams)
  BY PerfAssumption
<1> QED
  BY <1>1, <1>2, SumNat

(* The sum, when one stream's file changes.                                *)
LEMMA WrittenChange ==
  ASSUME Types, Types', NEW w \in Streams,
         \A v \in Streams : v # w => file'[v].written = file[v].written
  PROVE  SumFunctionOnSet(Written', Streams) =
           SumFunctionOnSet(Written, Streams) + file'[w].written - file[w].written
<1>1. /\ \A v \in Streams : Written[v] = file[v].written /\ Written[v] \in Nat
      /\ IsFiniteSet(Streams)
  BY WrittenSum
<1>2. \A v \in Streams : Written'[v] = file'[v].written /\ Written'[v] \in Nat
  BY DEF Types, Written
<1>3. \A v \in Streams : Written[v] \in Int /\ Written'[v] \in Int /\ (v # w => Written'[v] = Written[v])
  BY <1>1, <1>2
<1>4. SumFunctionOnSet(Written', Streams) =
        SumFunctionOnSet(Written, Streams) + Written'[w] - Written[w]
  BY <1>1, <1>3, SumChange
<1> QED
  BY <1>1, <1>2, <1>4

(* The samples that were measured.                                         *)
LEMMA Samples ==
  ASSUME Types
  PROVE  /\ \A s \in samples : /\ s["size"] = s.size /\ s["duration"] = s.duration
                               /\ s.size \in Nat /\ s.duration \in Nat /\ s.start \in Nat
                               /\ s.by \in Streams
         /\ Total(samples, "size") \in Nat /\ Total(samples, "duration") \in Nat
<1>1. \A s \in samples : /\ s["size"] = s.size /\ s["duration"] = s.duration
                         /\ s.size \in Nat /\ s.duration \in Nat /\ s.start \in Nat
                         /\ s.by \in Streams
  BY DEF Types, Sample
<1>2. IsFiniteSet(samples)
  BY DEF Types
<1> DEFINE f == [s \in samples |-> s["size"]]
           h == [s \in samples |-> s["duration"]]
<1>3. /\ Total(samples, "size") = SumFunctionOnSet(f, samples)
      /\ Total(samples, "duration") = SumFunctionOnSet(h, samples)
  BY DEF Total, SumFunction
<1>4. \A s \in samples : f[s] \in Nat /\ h[s] \in Nat
  BY <1>1
<1> HIDE DEF f, h
<1>5. SumFunctionOnSet(f, samples) \in Nat /\ SumFunctionOnSet(h, samples) \in Nat
  BY <1>2, <1>4, SumNat
<1> QED
  BY <1>1, <1>3, <1>5

(* The file that ends is none of those before.                             *)
Measure(w) == [by |-> w, size |-> file[w].size, duration |-> TimeTaken(w), start |-> file[w].began]

(* A file that ends adds its size and its time to the totals.              *)
LEMMA Fresh ==
  ASSUME Types, Files, Durations, NEW w \in Streams, Finish(w)
  PROVE  /\ samples' = samples \union {Measure(w)} /\ Measure(w) \notin samples
         /\ Measure(w) \in Sample
         /\ Total(samples', "size") = Total(samples, "size") + file[w].size
         /\ StreamTime' = StreamTime + now - file[w].began
         /\ Cardinality(samples') = Cardinality(samples) + 1
<1> DEFINE m == Measure(w)
<1>1. /\ m.by = w /\ m.start = file[w].began /\ m.size = file[w].size
      /\ m.duration = now - file[w].began /\ m["size"] = m.size /\ m["duration"] = m.duration
  BY DEF Measure, TimeTaken
<1>2. m \in Sample /\ m.size \in Nat /\ m.duration \in Nat
  BY DEF Finish, Measure, TimeTaken, Types, Sample
<1>3. samples' = samples \union {m}
  BY DEF Finish, Measure
<1>4. ASSUME m \in samples PROVE FALSE
  <2>1. m.duration > 0 /\ m.start + m.duration =< file[w].began
    BY <1>1, <1>4 DEF Durations, Until, Busy, Finish
  <2>2. file[w].began \in Nat
    BY DEF Types
  <2> HIDE DEF m
  <2> QED
    BY <1>1, <1>2, <2>1, <2>2
<1> HIDE DEF m
<1>5. \A s \in samples \union {m} : s["size"] \in Nat /\ s["duration"] \in Nat
  BY <1>1, <1>2, Samples
<1>6. IsFiniteSet(samples) /\ m \notin samples
  BY <1>4 DEF Types
<1>7. /\ Total(samples', "size") = Total(samples, "size") + m["size"]
      /\ Total(samples', "duration") = Total(samples, "duration") + m["duration"]
  BY <1>3, <1>5, <1>6, TotalAdd
<1>8. Cardinality(samples') = Cardinality(samples) + 1
  BY <1>3, <1>6, FS_AddElement
<1>9. Total(samples, "duration") \in Nat /\ file[w].began \in Nat /\ now \in Nat
  BY Samples DEF Types
<1>10. StreamTime' = StreamTime + now - file[w].began
  BY <1>1, <1>7, <1>9 DEF StreamTime
<1> QED
  BY <1>1, <1>2, <1>3, <1>6, <1>7, <1>8, <1>10 DEF m

(* The counters agree with what was measured and what is under way.        *)
LEMMA CountersNext ==
  ASSUME Types, Types', Files, Durations, Counters, [Next]_vars
  PROVE  Counters'
<1>1. ASSUME NEW w \in Streams, Open(w)
      PROVE  Counters'
  <2>1. Written' = Written /\ UNCHANGED <<bytesDone, filesDone, failed, arrived, samples>>
    BY <1>1 DEF Open, sampling, ending, Written
  <2> QED
    BY <2>1 DEF Counters, Total
<1>2. ASSUME NEW w \in Streams, Take(w)
      PROVE  Counters'
  <2>1. \A v \in Streams : file'[v].written = file[v].written
    <3>1. CASE queue = <<>>
      BY <1>2, <3>1 DEF Take
    <3>2. CASE queue # <<>>
      <4>1. file[w].written = 0
        BY <1>2 DEF Take, Files, Busy, NoFile
      <4>2. file'[w].written = 0 /\ \A v \in Streams : v # w => file'[v] = file[v]
        BY <1>2, <3>2 DEF Take, Types
      <4> QED
        BY <4>1, <4>2
    <3> QED
      BY <3>1, <3>2
  <2>2. Written' = Written
    BY <2>1 DEF Written
  <2> QED
    BY <1>2, <2>2 DEF Take, Counters, Total
<1>3. ASSUME NEW w \in Streams, Arrive(w)
      PROVE  Counters'
  <2>1. /\ \A v \in Streams : v # w => file'[v].written = file[v].written
        /\ file'[w].written = file[w].written + 1
    BY <1>3 DEF Arrive, Types
  <2>2. SumFunctionOnSet(Written', Streams) =
          SumFunctionOnSet(Written, Streams) + file'[w].written - file[w].written
    BY <2>1, WrittenChange
  <2>3. /\ SumFunctionOnSet(Written, Streams) \in Nat /\ file[w].written \in Nat
        /\ Total(samples, "size") \in Nat /\ arrived \in Nat /\ failed \in Nat
    BY WrittenSum, Samples DEF Types
  <2>4. /\ bytesDone' = bytesDone + 1 /\ arrived' = arrived + 1
        /\ UNCHANGED <<filesDone, failed, samples>>
    BY <1>3 DEF Arrive
  <2>5. Total(samples, "size")' = Total(samples, "size")
    BY <2>4 DEF Total
  <2> QED
    BY <2>1, <2>2, <2>3, <2>4, <2>5 DEF Counters
<1>4. ASSUME NEW w \in Streams, Finish(w)
      PROVE  Counters'
  <2>1. /\ \A v \in Streams : v # w => file'[v].written = file[v].written
        /\ file'[w].written = 0 /\ file[w].written = file[w].size
    BY <1>4 DEF Finish, Types, NoFile
  <2>2. SumFunctionOnSet(Written', Streams) =
          SumFunctionOnSet(Written, Streams) + file'[w].written - file[w].written
    BY <2>1, WrittenChange
  <2>3. /\ Total(samples', "size") = Total(samples, "size") + file[w].size
        /\ Cardinality(samples') = Cardinality(samples) + 1
    BY <1>4, Fresh
  <2>4. /\ SumFunctionOnSet(Written, Streams) \in Nat /\ file[w].size \in Nat
        /\ Total(samples, "size") \in Nat /\ Cardinality(samples) \in Nat /\ failed \in Nat
    BY WrittenSum, Samples, FS_CardinalityType DEF Types
  <2>5. filesDone' = filesDone + 1 /\ UNCHANGED <<bytesDone, arrived, failed>>
    BY <1>4 DEF Finish
  <2> QED
    BY <2>1, <2>2, <2>3, <2>4, <2>5 DEF Counters
<1>5. ASSUME NEW w \in Streams, Fail(w)
      PROVE  Counters'
  <2>1. /\ \A v \in Streams : v # w => file'[v].written = file[v].written
        /\ file'[w].written = 0
    BY <1>5 DEF Fail, Types, NoFile
  <2>2. SumFunctionOnSet(Written', Streams) =
          SumFunctionOnSet(Written, Streams) + file'[w].written - file[w].written
    BY <2>1, WrittenChange
  <2>3. /\ SumFunctionOnSet(Written, Streams) \in Nat /\ file[w].written \in Nat
        /\ Total(samples, "size") \in Nat /\ arrived \in Nat /\ failed \in Nat
        /\ Cardinality(samples) \in Nat
    BY WrittenSum, Samples, FS_CardinalityType DEF Types
  <2>4. /\ bytesDone' = bytesDone - file[w].written /\ filesDone' = filesDone + 1
        /\ failed' = failed + 1 /\ UNCHANGED <<arrived, samples>>
    BY <1>5 DEF Fail, GivenBack
  <2>5. Total(samples, "size")' = Total(samples, "size")
    BY <2>4 DEF Total
  <2> QED
    BY <2>1, <2>2, <2>3, <2>4, <2>5 DEF Counters
<1>6. CASE Tick
  <2>1. Written' = Written /\ UNCHANGED <<bytesDone, filesDone, failed, arrived, samples>>
    BY <1>6 DEF Tick, engine, sampling, ending, Written
  <2> QED
    BY <2>1 DEF Counters, Total
<1>7. CASE UNCHANGED <<now, engine>>
  BY <1>7 DEF engine, Counters, Written, Total
<1> QED
  BY <1>1, <1>2, <1>3, <1>4, <1>5, <1>6, <1>7, EngineSteps

(* The time that is measured grows no less than the time that was taken.   *)
LEMMA MeasuredType ==
  ASSUME Types
  PROVE  /\ \A w \in Streams : Measured[w] = Until(w) /\ Until(w) \in Nat
         /\ IsFiniteSet(Streams) /\ SumFunctionOnSet(Measured, Streams) \in Nat
<1>1. \A w \in Streams : Measured[w] = Until(w) /\ Until(w) \in Nat
  BY DEF Types, Measured, Until
<1>2. IsFiniteSet(Streams)
  BY PerfAssumption
<1>3. \A w \in Streams : Measured[w] \in Nat
  BY <1>1
<1> QED
  BY <1>1, <1>2, <1>3, SumNat

(* No file ends and no time is given back.                                 *)
LEMMA DurationsKeep ==
  ASSUME Types, Types', Durations, samples' = samples,
         \A w \in Streams : Until(w) =< Until(w)'
  PROVE  Durations'
<1>1. /\ \A w \in Streams : Measured[w] = Until(w) /\ Until(w) \in Nat
      /\ IsFiniteSet(Streams) /\ SumFunctionOnSet(Measured, Streams) \in Nat
  BY MeasuredType
<1>2. \A w \in Streams : Measured'[w] = Until(w)' /\ Until(w)' \in Nat
  BY DEF Types, Measured, Until, Busy
<1>3. SumFunctionOnSet(Measured, Streams) =< SumFunctionOnSet(Measured', Streams)
  <2>1. \A w \in Streams : Measured[w] \in Int /\ Measured'[w] \in Int /\ Measured[w] =< Measured'[w]
    BY <1>1, <1>2
  <2> QED
    BY <1>1, <2>1, SumMonotone
<1>4. SumFunctionOnSet(Measured', Streams) \in Int
  <2>1. \A w \in Streams : Measured'[w] \in Int
    BY <1>2
  <2> QED
    BY <1>1, <2>1, SumType
<1>5. StreamTime' = StreamTime /\ StreamTime \in Nat
  BY Samples DEF StreamTime, Total
<1>6. StreamTime' =< SumFunctionOnSet(Measured', Streams)
  BY <1>1, <1>3, <1>4, <1>5 DEF Durations
<1>7. \A s \in samples' : s.duration > 0 /\ s.start + s.duration =< Until(s.by)'
  <2> SUFFICES ASSUME NEW s \in samples
               PROVE  s.duration > 0 /\ s.start + s.duration =< Until(s.by)'
    OBVIOUS
  <2>1. /\ s.duration > 0 /\ s.start + s.duration =< Until(s.by) /\ s.by \in Streams
        /\ s.start \in Nat /\ s.duration \in Nat
    BY Samples DEF Durations
  <2>2. Until(s.by) =< Until(s.by)' /\ Until(s.by) \in Nat /\ Until(s.by)' \in Nat
    BY <1>1, <1>2, <2>1
  <2> QED
    BY <2>1, <2>2
<1> QED
  BY <1>6, <1>7 DEF Durations

(* The streams are busy with one file at a time.                           *)
LEMMA DurationsNext ==
  ASSUME Types, Types', Files, Durations, [Next]_vars
  PROVE  Durations'
<1>1. ASSUME NEW w \in Streams, Open(w)
      PROVE  Durations'
  <2>1. \A v \in Streams : Until(v) =< Until(v)'
    BY <1>1 DEF Open, sampling, ending, Types, Files, Until, Busy
  <2>2. samples' = samples
    BY <1>1 DEF Open, sampling, ending
  <2> QED
    BY <2>1, <2>2, DurationsKeep
<1>2. ASSUME NEW w \in Streams, Take(w)
      PROVE  Durations'
  <2>1. \A v \in Streams : v # w => Until(v)' = Until(v)
    BY <1>2 DEF Take, Types, Until, Busy
  <2>2. Until(w)' = now /\ Until(w) = now
    BY <1>2 DEF Take, Types, Until, Busy
  <2>3. \A v \in Streams : Until(v) \in Nat
    BY MeasuredType
  <2>4. \A v \in Streams : Until(v) =< Until(v)'
    BY <2>1, <2>2, <2>3
  <2>5. samples' = samples
    BY <1>2 DEF Take
  <2> QED
    BY <2>4, <2>5, DurationsKeep
<1>3. ASSUME NEW w \in Streams, Arrive(w)
      PROVE  Durations'
  <2>1. \A v \in Streams : file'[v].began = file[v].began
    BY <1>3 DEF Arrive, Types
  <2>2. UNCHANGED <<stream, now, samples>> /\ \A v \in Streams : Until(v) \in Nat
    BY <1>3, MeasuredType DEF Arrive
  <2>3. \A v \in Streams : Until(v)' = Until(v)
    BY <2>1, <2>2 DEF Until, Busy
  <2>4. \A v \in Streams : Until(v) =< Until(v)'
    BY <2>2, <2>3
  <2> QED
    BY <2>2, <2>4, DurationsKeep
<1>4. ASSUME NEW w \in Streams, Finish(w)
      PROVE  Durations'
  <2>1. /\ samples' = samples \union {Measure(w)} /\ Measure(w) \notin samples
        /\ StreamTime' = StreamTime + now - file[w].began
    BY <1>4, Fresh
  <2>2. /\ \A v \in Streams : v # w => Until(v)' = Until(v)
        /\ Until(w)' = now /\ Until(w) = file[w].began
    BY <1>4 DEF Finish, Types, Until, Busy
  <2>3. /\ \A v \in Streams : Measured[v] = Until(v) /\ Until(v) \in Nat
        /\ IsFiniteSet(Streams) /\ SumFunctionOnSet(Measured, Streams) \in Nat
    BY MeasuredType
  <2>4. \A v \in Streams : Measured'[v] = Until(v)' /\ Until(v)' \in Nat
    BY DEF Types, Measured, Until, Busy
  <2>5. SumFunctionOnSet(Measured', Streams) =
          SumFunctionOnSet(Measured, Streams) + Measured'[w] - Measured[w]
    <3>1. \A v \in Streams : /\ Measured[v] \in Int /\ Measured'[v] \in Int
                             /\ (v # w => Measured'[v] = Measured[v])
      BY <2>2, <2>3, <2>4
    <3> QED
      BY <2>3, <3>1, SumChange
  <2>6. /\ now \in Nat /\ file[w].began \in Nat /\ now > file[w].began
        /\ Measured'[w] = now /\ Measured[w] = file[w].began
    BY <1>4, <2>2, <2>3, <2>4 DEF Finish, Types
  <2>7. StreamTime \in Nat
    BY Samples DEF StreamTime
  <2>8. StreamTime' =< SumFunctionOnSet(Measured', Streams)
    BY <2>1, <2>3, <2>5, <2>6, <2>7 DEF Durations
  <2>9. ASSUME NEW s \in samples'
        PROVE  s.duration > 0 /\ s.start + s.duration =< Until(s.by)'
    <3>1. CASE s \in samples
      <4>1. /\ s.duration > 0 /\ s.start + s.duration =< Until(s.by) /\ s.by \in Streams
            /\ s.start \in Nat /\ s.duration \in Nat
        BY <3>1, Samples DEF Durations
      <4>2. Until(s.by) =< Until(s.by)' /\ Until(s.by) \in Nat /\ Until(s.by)' \in Nat
        <5>1. CASE s.by = w
          BY <2>2, <2>6, <5>1
        <5>2. CASE s.by # w
          BY <2>2, <2>3, <4>1, <5>2
        <5> QED
          BY <5>1, <5>2
      <4> QED
        BY <4>1, <4>2
    <3>2. CASE s = Measure(w)
      <4>1. s.duration = now - file[w].began /\ s.start = file[w].began /\ s.by = w
        BY <3>2 DEF Measure, TimeTaken
      <4> QED
        BY <2>2, <2>6, <4>1
    <3> QED
      BY <2>1, <2>9, <3>1, <3>2
  <2> QED
    BY <2>8, <2>9 DEF Durations
<1>5. ASSUME NEW w \in Streams, Fail(w)
      PROVE  Durations'
  <2>1. \A v \in Streams : Until(v) =< Until(v)'
    BY SMTT(60), <1>5 DEF Fail, Types, Files, Until, Busy
  <2>2. samples' = samples
    BY <1>5 DEF Fail
  <2> QED
    BY <2>1, <2>2, DurationsKeep
<1>6. CASE Tick
  <2>1. \A v \in Streams : Until(v) =< Until(v)'
    BY <1>6 DEF Tick, engine, sampling, ending, Types, Files, Until, Busy
  <2>2. samples' = samples
    BY <1>6 DEF Tick, engine, sampling, ending
  <2> QED
    BY <2>1, <2>2, DurationsKeep
<1>7. CASE UNCHANGED <<now, engine>>
  BY <1>7 DEF engine, Durations, Until, Busy, StreamTime, Total, Measured
<1> QED
  BY <1>1, <1>2, <1>3, <1>4, <1>5, <1>6, <1>7, EngineSteps

(* The order of readings.                                                  *)
LEMMA BeforeTransitive ==
  ASSUME NEW r \in Readings, NEW s \in Readings, NEW t \in Readings, Before(r, s), Before(s, t)
  PROVE  Before(r, t)
<1>1. \A x \in {r, s, t} : x.at \in Nat /\ x.files \in Nat /\ x.arrived \in Nat /\ x.bytes \in Int
  BY DEF Readings
<1> QED
  BY <1>1 DEF Before

(* The files are counted last.                                             *)
LEMMA FilesCounted ==
  ASSUME NEW r \in Readings, NEW n \in Nat
  PROVE  /\ [r EXCEPT !.files = n] \in Readings
         /\ [r EXCEPT !.files = n] = [at |-> r.at, bytes |-> r.bytes, files |-> n,
                                      arrived |-> r.arrived]
BY DEF Readings

(* A reading after all others.                                             *)
LEMMA OrderedAppend ==
  ASSUME NEW rs \in Seq(Readings), Ordered(rs), NEW r \in Readings, Before(Origin, r),
         \A i \in 1..Len(rs) : Before(rs[i], r)
  PROVE  /\ Append(rs, r) \in Seq(Readings) /\ Len(Append(rs, r)) = Len(rs) + 1
         /\ \A i \in 1..Len(rs) : Append(rs, r)[i] = rs[i]
         /\ Append(rs, r)[Len(rs) + 1] = r
         /\ Ordered(Append(rs, r))
<1> DEFINE a == Append(rs, r)
<1>1. /\ a \in Seq(Readings) /\ Len(a) = Len(rs) + 1 /\ a[Len(rs) + 1] = r
      /\ \A i \in 1..Len(rs) : a[i] = rs[i]
  OBVIOUS
<1>2. Len(rs) \in Nat /\ \A i \in 1..Len(a) : i \in 1..Len(rs) \/ i = Len(rs) + 1
  BY <1>1
<1>3. Before(r, r)
  <2>1. r.at \in Nat /\ r.files \in Nat /\ r.arrived \in Nat /\ r.bytes \in Int
    BY DEF Readings
  <2> QED
    BY <2>1 DEF Before
<1> HIDE DEF a
<1>4. \A i \in 1..Len(a) : Before(Origin, a[i])
  BY <1>1, <1>2 DEF Ordered
<1>5. ASSUME NEW i \in 1..Len(a), NEW j \in 1..Len(a), i =< j
      PROVE  Before(a[i], a[j])
  <2>1. CASE j \in 1..Len(rs)
    <3>1. i \in 1..Len(rs)
      BY <1>2, <1>5, <2>1
    <3> QED
      BY <1>1, <1>5, <2>1, <3>1 DEF Ordered
  <2>2. CASE j = Len(rs) + 1
    BY <1>1, <1>2, <1>3, <2>2
  <2> QED
    BY <1>2, <2>1, <2>2
<1>6. Ordered(a)
  BY <1>4, <1>5 DEF Ordered
<1> QED
  BY <1>1, <1>6 DEF a

(* The counters grow, but for what a file that fails gives back.           *)
LEMMA CountersGrow ==
  ASSUME Types, [Next]_vars
  PROVE  /\ now =< now' /\ filesDone =< filesDone' /\ arrived =< arrived'
         /\ arrived - bytesDone =< arrived' - bytesDone'
<1>1. ASSUME NEW w \in Streams, Open(w)
      PROVE  /\ now =< now' /\ filesDone =< filesDone' /\ arrived =< arrived'
         /\ arrived - bytesDone =< arrived' - bytesDone'
  BY <1>1 DEF Open, sampling, ending, Types
<1>2. ASSUME NEW w \in Streams, Take(w)
      PROVE  /\ now =< now' /\ filesDone =< filesDone' /\ arrived =< arrived'
         /\ arrived - bytesDone =< arrived' - bytesDone'
  BY <1>2 DEF Take, sampling, ending, Types
<1>3. ASSUME NEW w \in Streams, Arrive(w)
      PROVE  /\ now =< now' /\ filesDone =< filesDone' /\ arrived =< arrived'
         /\ arrived - bytesDone =< arrived' - bytesDone'
  BY SMTT(60), <1>3 DEF Arrive, sampling, ending, Types
<1>4. ASSUME NEW w \in Streams, Finish(w)
      PROVE  /\ now =< now' /\ filesDone =< filesDone' /\ arrived =< arrived'
         /\ arrived - bytesDone =< arrived' - bytesDone'
  BY <1>4 DEF Finish, TimeTaken, sampling, ending, Types
<1>5. ASSUME NEW w \in Streams, Fail(w)
      PROVE  /\ now =< now' /\ filesDone =< filesDone' /\ arrived =< arrived'
         /\ arrived - bytesDone =< arrived' - bytesDone'
  <2>1. file[w].written \in Nat
    BY DEF Types
  <2>2. /\ now' = now /\ filesDone' = filesDone + 1 /\ arrived' = arrived
        /\ bytesDone' = bytesDone - file[w].written
    BY <1>5 DEF Fail, GivenBack
  <2> QED
    BY <2>1, <2>2 DEF Types
<1>6. CASE Tick
  BY <1>6 DEF Tick, engine, sampling, ending, Types
<1>7. CASE UNCHANGED <<now, engine>>
  BY <1>7 DEF engine, Types
<1> QED
  BY <1>1, <1>2, <1>3, <1>4, <1>5, <1>6, <1>7, EngineSteps

(* What was read stays before what there is.                               *)
LEMMA CurrentLater ==
  ASSUME Types, Types', [Next]_vars
  PROVE  /\ Current \in Readings /\ Current' \in Readings /\ Before(Current, Current')
         /\ now =< now' /\ filesDone =< filesDone'
<1>1. Current \in Readings /\ Current' \in Readings
  BY DEF Types, Current, Reading, Readings
<1>2. /\ now =< now' /\ filesDone =< filesDone' /\ arrived =< arrived'
      /\ arrived - bytesDone =< arrived' - bytesDone'
  BY CountersGrow
<1>3. Before(Current, Current')
  BY <1>2 DEF Before, Current, Reading
<1> QED
  BY <1>1, <1>2, <1>3

(* A file that gave back everything took no more than arrived.             *)
LEMMA OriginFirst ==
  ASSUME Types, Counters
  PROVE  Before(Origin, Current)
BY DEF Types, Counters, Before, Origin, Current, Reading

(* The readings stay in order while the engine goes on.                    *)
LEMMA SampledKeep ==
  ASSUME Types, Types', Sampled, [Next]_vars, UNCHANGED sampling
  PROVE  Sampled'
<1>1. UNCHANGED <<sampler, held, nextTick, log>>
  BY DEF sampling
<1>2. /\ Current \in Readings /\ Current' \in Readings /\ Before(Current, Current')
      /\ now =< now' /\ filesDone =< filesDone' /\ filesDone \in Nat /\ filesDone' \in Nat
      /\ now \in Nat /\ now' \in Nat /\ held \in Readings /\ log \in Seq(Readings)
  BY CurrentLater DEF Types
<1>3. \A i \in 1..Len(log) : log[i] \in Readings
  BY <1>2
<1>4. \A i \in 1..Len(log) : Before(log[i], Current')
  BY <1>2, <1>3, BeforeTransitive DEF Sampled
<1>5. HeldNow \in Readings /\ HeldNow' \in Readings /\ Before(HeldNow, HeldNow')
  <2>1. held.at \in Nat /\ held.bytes \in Int /\ held.arrived \in Nat
    BY <1>2 DEF Readings
  <2>2. /\ HeldNow = [at |-> held.at, bytes |-> held.bytes, files |-> filesDone,
                      arrived |-> held.arrived]
        /\ HeldNow' = [at |-> held.at, bytes |-> held.bytes, files |-> filesDone',
                       arrived |-> held.arrived]
    BY <1>1, <1>2, FilesCounted DEF HeldNow
  <2> QED
    BY SMTT(60), <1>2, <2>1, <2>2 DEF Before, Readings
<1>6. ASSUME sampler = "loaded"
      PROVE  /\ Before(Origin, HeldNow') /\ Before(HeldNow', Current')
             /\ \A i \in 1..Len(log) : Before(log[i], HeldNow')
  <2>1. /\ Before(Origin, HeldNow) /\ Before(HeldNow, Current)
        /\ \A i \in 1..Len(log) : Before(log[i], HeldNow)
    BY <1>6 DEF Sampled
  <2>2. Origin \in Readings
    BY DEF Origin, Readings
  <2>3. Before(Origin, HeldNow') /\ \A i \in 1..Len(log) : Before(log[i], HeldNow')
    BY <1>3, <1>5, <2>1, <2>2, BeforeTransitive
  <2>4. Before(HeldNow', Current')
    <3>1. /\ held.at =< now' /\ held.arrived =< arrived' /\ filesDone' =< filesDone'
          /\ held.arrived - held.bytes =< arrived' - bytesDone'
      <4>1. Before(HeldNow, Current')
        BY <1>2, <1>5, <2>1, BeforeTransitive
      <4>2. /\ HeldNow.at = held.at /\ HeldNow.arrived = held.arrived
            /\ HeldNow.bytes = held.bytes
        BY <1>2 DEF HeldNow, Readings
      <4> QED
        BY <1>2, <4>1, <4>2 DEF Before, Current, Reading
    <3>2. /\ HeldNow'.at = held.at /\ HeldNow'.arrived = held.arrived
          /\ HeldNow'.bytes = held.bytes /\ HeldNow'.files = filesDone'
      BY <1>1, <1>2 DEF HeldNow, Readings
    <3> QED
      BY <3>1, <3>2 DEF Before, Current, Reading
  <2> QED
    BY <2>3, <2>4
<1>7. now > 0 => now' > 0
  BY <1>2
<1>8. held.at \in Nat /\ (held.at =< now => held.at =< now')
  BY <1>2 DEF Readings
<1> QED
  BY <1>1, <1>4, <1>6, <1>7, <1>8 DEF Sampled

(* The readings are made one after the other, and so are their parts.      *)
LEMMA SampledNext ==
  ASSUME Types, Types', Counters, Sampled, [Next]_vars
  PROVE  Sampled'
<1>1. ASSUME NEW w \in Streams, Open(w)
      PROVE  Sampled'
  <2>1. UNCHANGED sampling
    BY <1>1 DEF Open
  <2> QED
    BY <2>1, SampledKeep
<1>2. ASSUME NEW w \in Streams, Take(w)
      PROVE  Sampled'
  <2>1. UNCHANGED sampling
    BY <1>2 DEF Take
  <2> QED
    BY <2>1, SampledKeep
<1>3. ASSUME NEW w \in Streams, Arrive(w)
      PROVE  Sampled'
  <2>1. UNCHANGED sampling
    BY <1>3 DEF Arrive
  <2> QED
    BY <2>1, SampledKeep
<1>4. ASSUME NEW w \in Streams, Finish(w)
      PROVE  Sampled'
  <2>1. UNCHANGED sampling
    BY <1>4 DEF Finish
  <2> QED
    BY <2>1, SampledKeep
<1>5. ASSUME NEW w \in Streams, Fail(w)
      PROVE  Sampled'
  <2>1. UNCHANGED sampling
    BY <1>5 DEF Fail
  <2> QED
    BY <2>1, SampledKeep
<1>6. CASE Tick
  <2>1. UNCHANGED sampling
    BY <1>6 DEF Tick
  <2> QED
    BY <2>1, SampledKeep
<1>7. CASE Wake
  <2>1. UNCHANGED <<now, filesDone, bytesDone, arrived, log, held>>
    BY <1>7 DEF Wake, engine
  <2>2. Current' = Current
    BY <2>1 DEF Current, Reading
  <2>3. sampler = "parked" /\ sampler' = "due" /\ now > 0
    BY <1>7 DEF Wake, Types
  <2> QED
    BY <2>1, <2>2, <2>3 DEF Sampled
<1>8. CASE ReadClock
  <2>1. UNCHANGED <<now, filesDone, bytesDone, arrived, log>>
    BY <1>8 DEF ReadClock, engine
  <2>2. Current' = Current
    BY <2>1 DEF Current, Reading
  <2>3. /\ sampler = "due" /\ sampler' = "timed" /\ held'.at = now
    BY <1>8 DEF ReadClock, Types, Readings
  <2>4. /\ now > 0 /\ now \in Nat /\ \A i \in 1..Len(log) : log[i].at =< now
    BY <2>3 DEF Sampled, Types, Before, Current, Reading
  <2> QED
    BY <2>1, <2>2, <2>3, <2>4 DEF Sampled
<1>9. CASE LoadBytes
  <2>1. UNCHANGED <<now, filesDone, bytesDone, arrived, log>>
    BY <1>9 DEF LoadBytes, engine
  <2>2. Current' = Current
    BY <2>1 DEF Current, Reading
  <2>3. /\ sampler = "timed" /\ sampler' = "loaded"
        /\ held' = [at |-> held.at, bytes |-> bytesDone, files |-> 0, arrived |-> arrived]
    BY <1>9 DEF LoadBytes, Reading
  <2>4. HeldNow' = [at |-> held.at, bytes |-> bytesDone, files |-> filesDone, arrived |-> arrived]
    BY <2>1, <2>3 DEF HeldNow
  <2>5. /\ now \in Nat /\ bytesDone \in Int /\ filesDone \in Nat /\ arrived \in Nat
        /\ held.at \in Nat /\ bytesDone =< arrived /\ held.at > 0 /\ held.at =< now
    BY <2>3 DEF Types, Readings, Counters, Sampled
  <2>6. Before(Origin, HeldNow') /\ Before(HeldNow', Current')
    BY <2>2, <2>4, <2>5 DEF Before, Origin, Current, Reading
  <2>7. \A i \in 1..Len(log) : log[i].at > 0 /\ log[i].at =< held.at /\ Before(log[i], Current)
    BY <2>3 DEF Sampled
  <2>8. \A i \in 1..Len(log) : Before(log[i], HeldNow')
    BY <2>4, <2>7 DEF Before, Current, Reading
  <2>9. held'.at = held.at
    BY <2>3
  <2> QED
    BY <2>1, <2>2, <2>3, <2>5, <2>6, <2>7, <2>8, <2>9 DEF Sampled
<1>10. CASE LoadFiles
  <2>1. UNCHANGED <<now, filesDone, bytesDone, arrived>>
    BY <1>10 DEF LoadFiles, engine
  <2>2. Current' = Current
    BY <2>1 DEF Current, Reading
  <2>3. /\ sampler = "loaded" /\ log' = Append(log, HeldNow) /\ held' = Origin
        /\ sampler' \in {"due", "parked"}
    BY <1>10 DEF LoadFiles, HeldNow
  <2>4. /\ Before(Origin, HeldNow) /\ Before(HeldNow, Current) /\ held.at > 0 /\ held.at =< now
        /\ \A i \in 1..Len(log) : Before(log[i], HeldNow)
        /\ Ordered(log) /\ \A i \in 1..Len(log) : log[i].at > 0 /\ Before(log[i], Current)
    BY <2>3 DEF Sampled
  <2>5. /\ log \in Seq(Readings) /\ HeldNow \in Readings /\ HeldNow.at = held.at
        /\ now \in Nat /\ held.at \in Nat /\ Len(log) \in Nat
    <3>1. held \in Readings /\ filesDone \in Nat /\ log \in Seq(Readings) /\ now \in Nat
      BY DEF Types
    <3>2. /\ HeldNow \in Readings
          /\ HeldNow = [at |-> held.at, bytes |-> held.bytes, files |-> filesDone,
                        arrived |-> held.arrived]
      BY <3>1, FilesCounted, Zenon DEF HeldNow
    <3>3. held.at \in Nat
      BY <3>1 DEF Readings
    <3> QED
      BY <3>1, <3>2, <3>3
  <2>6. /\ Len(log') = Len(log) + 1 /\ log'[Len(log) + 1] = HeldNow
        /\ \A i \in 1..Len(log) : log'[i] = log[i]
        /\ Ordered(log')
    BY <2>3, <2>4, <2>5, OrderedAppend
  <2>7. \A i \in 1..Len(log') : i \in 1..Len(log) \/ i = Len(log) + 1
    BY <2>5, <2>6
  <2>8. \A i \in 1..Len(log') : log'[i].at > 0 /\ Before(log'[i], Current)
    BY <2>4, <2>5, <2>6, <2>7
  <2>9. now > 0
    BY <2>4, <2>5
  <2> QED
    BY <2>1, <2>2, <2>3, <2>6, <2>8, <2>9 DEF Sampled
<1>11. CASE Join
  <2>1. UNCHANGED sampling
    BY <1>11 DEF Join
  <2> QED
    BY <2>1, SampledKeep
<1>12. CASE Collect
  <2>1. UNCHANGED sampling
    BY <1>12 DEF Collect
  <2> QED
    BY <2>1, SampledKeep
<1>13. CASE Done
  <2>1. UNCHANGED sampling
    BY <1>13 DEF Done, vars
  <2> QED
    BY <2>1, SampledKeep
<1>14. CASE UNCHANGED vars
  BY <1>14, SampledKeep DEF vars
<1> QED
  BY <1>1, <1>2, <1>3, <1>4, <1>5, <1>6, <1>7, <1>8, <1>9, <1>10, <1>11, <1>12, <1>13, <1>14
     DEF Next

(* Nothing moves after the last reading.                                   *)
LEMMA EndedNext ==
  ASSUME Types, Types', Files, Counters, Sampled, Begun, Ended, [Next]_vars
  PROVE  Ended'
<1>1. ASSUME NEW w \in Streams, Open(w)
      PROVE  Ended'
  <2>1. progress = <<>>
    BY <1>1 DEF Open, Begun
  <2> QED
    BY <1>1, <2>1 DEF Open, ending, Ended
<1>2. ASSUME NEW w \in Streams, Take(w)
      PROVE  Ended'
  <2>1. progress = <<>>
    BY <1>2 DEF Take, Begun
  <2> QED
    BY <1>2, <2>1 DEF Take, ending, Ended
<1>3. ASSUME NEW w \in Streams, Arrive(w)
      PROVE  Ended'
  <2>1. progress = <<>>
    BY <1>3 DEF Arrive, Begun
  <2> QED
    BY <1>3, <2>1 DEF Arrive, ending, Ended
<1>4. ASSUME NEW w \in Streams, Finish(w)
      PROVE  Ended'
  <2>1. progress = <<>>
    BY <1>4 DEF Finish, Begun
  <2> QED
    BY <1>4, <2>1 DEF Finish, ending, Ended
<1>5. ASSUME NEW w \in Streams, Fail(w)
      PROVE  Ended'
  <2>1. progress = <<>>
    BY <1>5 DEF Fail, Begun
  <2> QED
    BY <1>5, <2>1 DEF Fail, ending, Ended
<1>6. CASE Tick
  <2>1. progress = <<>>
    BY <1>6 DEF Tick, Begun
  <2> QED
    BY <1>6, <2>1 DEF Tick, engine, sampling, ending, Ended
<1>7. CASE Wake
  <2>1. progress = <<>>
    BY <1>7 DEF Wake, Begun
  <2> QED
    BY <1>7, <2>1 DEF Wake, engine, sampling, ending, Ended
<1>8. CASE ReadClock
  <2>1. progress = <<>>
    BY <1>8 DEF ReadClock, Begun
  <2> QED
    BY <1>8, <2>1 DEF ReadClock, engine, sampling, ending, Ended
<1>9. CASE LoadBytes
  <2>1. progress = <<>>
    BY <1>9 DEF LoadBytes, Ended
  <2> QED
    BY <1>9, <2>1 DEF LoadBytes, engine, sampling, ending, Ended
<1>10. CASE LoadFiles
  <2>1. progress = <<>>
    BY <1>10 DEF LoadFiles, Ended
  <2> QED
    BY <1>10, <2>1 DEF LoadFiles, engine, sampling, ending, Ended
<1>11. CASE Join
  <2>1. progress = <<>>
    BY <1>11 DEF Join, Begun
  <2> QED
    BY <1>11, <2>1 DEF Join, engine, sampling, ending, Ended
<1>12. CASE Collect
  <2>1. /\ stage = "aborted" /\ stage' = "over" /\ sampler \in {"parked", "due"}
        /\ elapsed' = now /\ UNCHANGED <<now, sampler, bytesDone, filesDone, arrived>>
        /\ progress' = Append(log, Current)
    BY <1>12 DEF Collect, LastTime, engine, sampling, Current
  <2>2. /\ Current \in Readings /\ Before(Origin, Current) /\ Current.at = now
        /\ log \in Seq(Readings) /\ Len(log) \in Nat
    <3>1. Current \in Readings /\ Before(Origin, Current)
      BY <1>12, CurrentLater, OriginFirst DEF Next
    <3>2. Current.at = now /\ log \in Seq(Readings)
      BY DEF Types, Current, Reading
    <3> QED
      BY <3>1, <3>2
  <2>3. /\ Ordered(log) /\ \A i \in 1..Len(log) : log[i].at > 0 /\ Before(log[i], Current)
        /\ now > 0
    BY <2>1 DEF Sampled, Begun
  <2>4. /\ progress' \in Seq(Readings) /\ Len(progress') = Len(log) + 1
        /\ \A i \in 1..Len(log) : progress'[i] = log[i]
        /\ progress'[Len(log) + 1] = Current /\ Ordered(progress')
    BY <2>1, <2>2, <2>3, OrderedAppend
  <2>5. \A i \in 1..Len(progress') : i \in 1..Len(log) \/ i = Len(log) + 1
    BY <2>2, <2>4
  <2>6. \A i \in 1..Len(progress') : progress'[i].at > 0
    BY <2>2, <2>3, <2>4, <2>5
  <2>7. Current' = Current
    BY <2>1 DEF Current, Reading
  <2>8. Last(progress') = Current
    BY <2>4 DEF Last
  <2> QED
    BY <2>1, <2>4, <2>6, <2>7, <2>8 DEF Ended
<1>13. CASE Done
  BY <1>13 DEF Done, vars, engine, sampling, ending, Ended, Current, Reading
<1>14. CASE UNCHANGED vars
  BY <1>14 DEF vars, engine, sampling, ending, Ended, Current, Reading
<1> QED
  BY <1>1, <1>2, <1>3, <1>4, <1>5, <1>6, <1>7, <1>8, <1>9, <1>10, <1>11, <1>12, <1>13, <1>14
     DEF Next

(* A stream begins a file after the one before has ended.                  *)
LEMMA ApartNext ==
  ASSUME Types, Files, Durations, Apart, [Next]_vars
  PROVE  Apart'
<1>1. ASSUME NEW w \in Streams, Finish(w)
      PROVE  Apart'
  <2> DEFINE m == Measure(w)
  <2>1. samples' = samples \union {m} /\ m.by = w /\ m.start = file[w].began
    BY <1>1, Fresh DEF Measure
  <2>2. ASSUME NEW s \in samples, s.by = w PROVE s.start # file[w].began
    <3>1. s.duration > 0 /\ s.start + s.duration =< file[w].began
      BY <1>1, <2>2 DEF Durations, Until, Busy, Finish
    <3>2. s.duration \in Nat /\ s.start \in Nat /\ file[w].began \in Nat
      BY Samples DEF Types
    <3> QED
      BY <3>1, <3>2
  <2> HIDE DEF m
  <2> QED
    BY <2>1, <2>2 DEF Apart
<1>2. CASE samples' = samples
  BY <1>2 DEF Apart
<1>3. (\E w \in Streams : Finish(w)) \/ samples' = samples
  BY EngineSteps DEF Open, Take, Arrive, Fail, Tick, engine
<1> QED
  BY <1>1, <1>2, <1>3

-----------------------------------------------------------------------------
(* The invariant holds.                                                    *)
LEMMA PerfInit ==
  ASSUME Init
  PROVE  PerfInv
<1>1. /\ Streams \subseteq Nat /\ IsFiniteSet(Streams) /\ Queues \subseteq Seq(Nat)
      /\ <<>> \notin Queues /\ Interval \in Nat /\ Interval > 0
  BY PerfAssumption
<1>2. /\ now = 0 /\ queue \in Seq(Nat) /\ queue # <<>>
      /\ stream = [w \in Streams |-> "opening"] /\ file = [w \in Streams |-> NoFile]
      /\ bytesDone = 0 /\ filesDone = 0 /\ samples = {} /\ failed = 0 /\ arrived = 0
      /\ sampler = "parked" /\ nextTick = Interval /\ log = <<>> /\ held = Origin
      /\ stage = "join" /\ progress = <<>> /\ elapsed = 0
  BY <1>1 DEF Init
<1>3. NoFile \in [size : Nat, written : Nat, began : Nat] /\ Origin \in Readings
  BY DEF NoFile, Origin, Readings
<1>4. Types
  BY <1>1, <1>2, <1>3, FS_EmptySet DEF Types
<1>5. Files /\ Begun /\ Ended
  BY <1>2 DEF Files, Busy, NoFile, Begun, Ended
<1>6. Counters
  <2>1. Total(samples, "size") = 0 /\ Cardinality(samples) = 0
    BY <1>2, TotalEmpty, FS_EmptySet
  <2>2. \A w \in Streams : Written[w] = IF w \in {} THEN 0 ELSE 0
    BY <1>2 DEF Written, NoFile
  <2>3. SumFunctionOnSet(Written, Streams) = 0 * Cardinality({})
    <3>1. IsFiniteSet(Streams) /\ {} \in SUBSET Streams /\ 0 \in Int
      BY <1>1
    <3> QED
      BY <2>2, <3>1, SumOfSome
  <2>4. SumFunctionOnSet(Written, Streams) = 0
    BY <2>3, FS_EmptySet
  <2> QED
    BY <1>2, <2>1, <2>4 DEF Counters
<1>7. Durations
  <2>1. StreamTime = 0
    BY <1>2, TotalEmpty DEF StreamTime
  <2>2. SumFunctionOnSet(Measured, Streams) \in Nat
    BY <1>4, MeasuredType
  <2> QED
    BY <1>2, <2>1, <2>2 DEF Durations
<1>8. Sampled
  BY <1>2 DEF Sampled, Ordered
<1>9. Apart
  BY <1>2 DEF Apart
<1> QED
  BY <1>4, <1>5, <1>6, <1>7, <1>8, <1>9 DEF PerfInv

(* The measurement of a run keeps its invariant: of what the streams do,   *)
(* the sampler beside them and the end of run, in every order.             *)
THEOREM PerfInvariance == Spec => []PerfInv
<1>1. Init => PerfInv
  BY PerfInit
<1>2. PerfInv /\ [Next]_vars => PerfInv'
  <2> SUFFICES ASSUME PerfInv, [Next]_vars
               PROVE  PerfInv'
    OBVIOUS
  <2>1. Types /\ Files /\ Counters /\ Durations /\ Sampled /\ Begun /\ Ended /\ Apart
    BY DEF PerfInv
  <2>2. Types' /\ Files'
    BY <2>1, TypesNext, FilesNext
  <2>3. Counters' /\ Durations' /\ Apart'
    BY <2>1, <2>2, CountersNext, DurationsNext, ApartNext
  <2>4. Sampled' /\ Begun' /\ Ended'
    BY <2>1, <2>2, SampledNext, BegunNext, EndedNext
  <2> QED
    BY <2>2, <2>3, <2>4 DEF PerfInv
<1> QED
  BY <1>1, <1>2, PTL DEF Spec

(* The type of the variables; the counter of bytes, from which a file that *)
(* fails is subtracted, does not fall below zero.                          *)
THEOREM TypesCorrect == Spec => []TypeOK
<1>1. PerfInv => TypeOK
  <2> SUFFICES ASSUME PerfInv PROVE TypeOK
    OBVIOUS
  <2>1. Types /\ Files /\ Counters
    BY DEF PerfInv
  <2>2. bytesDone \in Nat
    BY SMTT(60), <2>1, Samples, WrittenSum DEF Counters, Types
  <2>3. file \in [Streams -> [size : Nat, written : Nat, began : 0..now]]
    <3>1. \A w \in Streams : file[w] \in [size : Nat, written : Nat, began : 0..now]
      BY <2>1 DEF Types, Files
    <3> QED
      BY <2>1, <3>1 DEF Types
  <2>4. \A s \in samples : s.by \in Streams /\ {s.size, s.duration, s.start} \subseteq Nat
    BY <2>1, Samples
  <2> QED
    BY <2>1, <2>2, <2>3, <2>4 DEF Types, TypeOK
<1> QED
  BY <1>1, PerfInvariance, PTL

(* What the report is made of, at the end.                                 *)
LEMMA AtTheEnd ==
  ASSUME PerfInv, progress # <<>>
  PROVE  /\ progress \in Seq(Readings) /\ Len(progress) \in Nat /\ Len(progress) > 0
         /\ Ordered(progress) /\ \A i \in 1..Len(progress) : progress[i].at > 0
         /\ progress[Len(progress)] = Current /\ elapsed = now
         /\ \A w \in Streams : stream[w] \in {"over", "refused"}
<1>1. /\ progress \in Seq(Readings) /\ Len(progress) \in Nat /\ Len(progress) > 0
  BY DEF PerfInv, Types
<1>2. /\ Ordered(progress) /\ \A i \in 1..Len(progress) : progress[i].at > 0
      /\ Last(progress) = Current /\ elapsed = now /\ stage = "over"
  BY DEF PerfInv, Ended
<1>3. progress[Len(progress)] = Current
  BY <1>2 DEF Last
<1>4. \A w \in Streams : stream[w] \in {"over", "refused"}
  BY <1>2 DEF PerfInv, Begun
<1> QED
  BY <1>1, <1>2, <1>3, <1>4

(* No reading is older than the one before it, and no interval of the      *)
(* timeline shows more bytes than arrived in it, also when a file that     *)
(* failed was given back in between.                                       *)
THEOREM TimelineCorrect == Spec => []TimelineSound
<1>1. PerfInv => TimelineSound
  <2> SUFFICES ASSUME PerfInv PROVE TimelineSound
    OBVIOUS
  <2>1. CASE progress = <<>>
    <3>1. 1..Len(progress) - 1 = {} /\ ~Reported
      BY <2>1 DEF Reported
    <3> QED
      BY <3>1 DEF TimelineSound
  <2>2. CASE progress # <<>>
    <3>1. /\ progress \in Seq(Readings) /\ Ordered(progress) /\ Len(progress) \in Nat
      BY <2>2, AtTheEnd
    <3>2. \A k \in 1..Len(progress) - 1 : progress[k].at =< progress[k + 1].at
      <4> SUFFICES ASSUME NEW k \in 1..Len(progress) - 1
                   PROVE  progress[k].at =< progress[k + 1].at
        OBVIOUS
      <4>1. k \in 1..Len(progress) /\ k + 1 \in 1..Len(progress) /\ k =< k + 1
        BY <3>1
      <4> QED
        BY <3>1, <4>1 DEF Ordered, Before
    <3>3. \A k \in DOMAIN TimelineOf(progress) :
            TimelineOf(progress)[k].bytes =< TimelineOf(progress)[k].truth
      BY <3>1, TimelineTruth
    <3> QED
      BY <3>2, <3>3 DEF TimelineSound
  <2> QED
    BY <2>1, <2>2
<1> QED
  BY <1>1, PerfInvariance, PTL

(* Nothing is under way at the end: what was measured is what was written, *)
(* and each stream that was opened measured no longer than the run lasted. *)
LEMMA EndSums ==
  ASSUME PerfInv, progress # <<>>
  PROVE  /\ SumFunctionOnSet(Written, Streams) = 0
         /\ SumFunctionOnSet(Measured, Streams) = now * Cardinality(Started)
<1>1. Types /\ Files /\ IsFiniteSet(Streams) /\ Started \subseteq Streams /\ now \in Nat
  BY PerfAssumption DEF PerfInv, Started, Types
<1>2. \A w \in Streams : stream[w] \in {"over", "refused"}
  BY AtTheEnd
<1>3. \A w \in Streams : Written[w] = IF w \in {} THEN 0 ELSE 0
  BY <1>1, <1>2 DEF Written, Files, Busy, NoFile
<1>4. SumFunctionOnSet(Written, Streams) = 0 * Cardinality({})
  BY <1>1, <1>3, SumOfSome
<1>5. \A w \in Streams : Measured[w] = IF w \in Started THEN now ELSE 0
  BY <1>2 DEF Measured, Until, Busy, Started
<1>6. SumFunctionOnSet(Measured, Streams) = now * Cardinality(Started)
  BY <1>1, <1>5, SumOfSome
<1> QED
  BY <1>4, <1>6, FS_EmptySet

(* If nothing failed, what was read is what had arrived.                   *)
LEMMA NothingGivenBack ==
  ASSUME PerfInv, progress # <<>>, failed = 0
  PROVE  \A i \in 1..Len(progress) : progress[i].bytes = progress[i].arrived
<1> SUFFICES ASSUME NEW i \in 1..Len(progress)
             PROVE  progress[i].bytes = progress[i].arrived
  OBVIOUS
<1>1. /\ progress \in Seq(Readings) /\ Ordered(progress) /\ Len(progress) \in Nat
      /\ progress[Len(progress)] = Current /\ i =< Len(progress)
      /\ Len(progress) \in 1..Len(progress)
  BY AtTheEnd
<1>2. Before(Origin, progress[i]) /\ Before(progress[i], Current)
  BY <1>1 DEF Ordered
<1>3. bytesDone = arrived /\ bytesDone \in Int /\ arrived \in Nat
  BY DEF PerfInv, Counters, Types
<1>4. progress[i].arrived \in Nat /\ progress[i].bytes \in Int
  <2>1. progress[i] \in Readings
    BY <1>1
  <2> QED
    BY <2>1 DEF Readings
<1> QED
  BY <1>2, <1>3, <1>4 DEF Before, Origin, Current, Reading

(* The parts of the report agree: the timeline accounts for every file and *)
(* every byte the clock can tell apart, and the streams were not busy for  *)
(* longer than the run lasted.                                             *)
THEOREM ReportCorrect == Spec => []ReportAddsUp
<1>1. PerfInv => ReportAddsUp
  <2> SUFFICES ASSUME PerfInv, Reported
               PROVE  /\ filesDone = Cardinality(samples) + failed
                      /\ bytesDone = Total(samples, "size")
                      /\ Told("files") = LastTold.files
                      /\ Told("bytes") >= LastTold.bytes
                      /\ failed = 0 => Told("bytes") = LastTold.bytes
                      /\ Utilization.busy <= Utilization.available
    BY DEF ReportAddsUp
  <2>1. progress # <<>>
    BY DEF Reported
  <2>2. /\ progress \in Seq(Readings) /\ Ordered(progress) /\ elapsed = now
        /\ \A i \in 1..Len(progress) : progress[i].at > 0
    BY <2>1, AtTheEnd
  <2>3. /\ SumFunctionOnSet(Written, Streams) = 0
        /\ SumFunctionOnSet(Measured, Streams) = now * Cardinality(Started)
    BY <2>1, EndSums
  <2>4. filesDone = Cardinality(samples) + failed /\ bytesDone = Total(samples, "size")
    <3>1. Total(samples, "size") \in Nat /\ Counters
      BY Samples DEF PerfInv
    <3> QED
      BY <2>3, <3>1 DEF Counters
  <2>5. /\ Told("files") = LastTold.files /\ Told("bytes") >= LastTold.bytes
        /\ failed = 0 => Told("bytes") = LastTold.bytes
    BY <2>1, <2>2, ToldSums, NothingGivenBack
  <2>6. Utilization.busy =< Utilization.available
    BY <2>2, <2>3 DEF PerfInv, Durations, Utilization
  <2> QED
    BY <2>4, <2>5, <2>6
<1> QED
  BY <1>1, PerfInvariance, PTL

-----------------------------------------------------------------------------
(* The estimate.                                                           *)
Row(n) == [1..n -> Sample]

(* A row, and the numbers of its files.                                    *)
LEMMA RowIs ==
  ASSUME NEW n \in Nat, NEW row \in Row(n)
  PROVE  /\ DOMAIN row = 1..n /\ Len(row) = n /\ IsFiniteSet(1..n) /\ Cardinality(1..n) = n
         /\ \A i \in 1..n : /\ row[i].size \in Nat /\ row[i].duration \in Nat
                            /\ row[i]["size"] = row[i].size /\ row[i]["duration"] = row[i].duration
<1>1. row \in Seq(Sample) /\ DOMAIN row = 1..n
  BY DEF Row
<1>2. IsFiniteSet(1..n) /\ Cardinality(1..n) = n
  BY FS_Interval
<1>3. \A i \in 1..n : row[i] \in Sample
  BY DEF Row
<1> QED
  BY <1>1, <1>2, <1>3 DEF Sample

(* The estimate does not depend on the order of the files.                 *)
LEMMA Shuffled ==
  ASSUME NEW n \in Nat, NEW row \in Row(n), NEW p \in Bijection(1..n, 1..n)
  PROVE  Essence(Cost([i \in 1..n |-> row[p[i]]])) = Essence(Cost(row))
<1> DEFINE D == 1..n
           two == [i \in D |-> row[p[i]]]
<1>1. /\ IsFiniteSet(D) /\ p \in [D -> D] /\ \A j \in D : \E i \in D : p[i] = j
      /\ two \in Row(n) /\ \A i \in D : two[i] = row[p[i]]
  <2>1. /\ IsFiniteSet(D) /\ p \in [D -> D] /\ \A j \in D : \E i \in D : p[i] = j
    BY RowIs DEF Bijection, Injection, Surjection
  <2> QED
    BY <2>1 DEF Row
<1>2. DOMAIN row = D /\ DOMAIN two = D /\ Len(row) = n /\ Len(two) = n
  BY <1>1, RowIs
<1> HIDE DEF D, two
<1>3. p \in Bijection(D, D)
  BY DEF D
<1>b. IsFiniteSet(D)
  BY <1>1
<1>a. \A A \in SUBSET D : Cardinality({i \in D : p[i] \in A}) = Cardinality(A)
  <2> SUFFICES ASSUME NEW A \in SUBSET D
               PROVE  Cardinality({i \in D : p[i] \in A}) = Cardinality(A)
    OBVIOUS
  <2> QED
    BY ONLY <1>3, <1>b, Recount, A \in SUBSET D
<1>4. Group(two) = {i \in D : p[i] \in Group(row)} /\ Group(row) \in SUBSET D
  <2>1. ASSUME NEW i \in D
        PROVE  Cardinality(Smaller(two, i)) = Cardinality(Smaller(row, p[i]))
    <3>1. Smaller(row, p[i]) \in SUBSET D
      BY <1>2 DEF Smaller
    <3>2. Smaller(two, i) = {j \in D : p[j] \in Smaller(row, p[i])}
      BY <1>1, <1>2 DEF Smaller
    <3> QED
      BY <1>a, <3>1, <3>2
  <2>2. \A i \in D : p[i] \in D
    BY <1>1
  <2>3. Group(two) = {i \in D : Cardinality(Smaller(two, i)) < Cut(n)}
    BY <1>2 DEF Group
  <2>4. Group(row) = {i \in D : Cardinality(Smaller(row, i)) < Cut(n)}
    BY <1>2 DEF Group
  <2>5. \A i \in D : i \in Group(two) <=> p[i] \in Group(row)
    BY <2>1, <2>2, <2>3, <2>4
  <2> QED
    BY <2>3, <2>4, <2>5
<1>5. Cardinality(Group(two)) = Cardinality(Group(row))
  BY <1>a, <1>4
<1>6. Median(two, Group(two)) = Median(row, Group(row))
  <2>1. ASSUME NEW i \in D
        PROVE  Cardinality(UpTo(two, Group(two), i)) = Cardinality(UpTo(row, Group(row), p[i]))
    <3>1. UpTo(row, Group(row), p[i]) \in SUBSET D
      BY <1>4 DEF UpTo
    <3>2. UpTo(two, Group(two), i) = {j \in D : p[j] \in UpTo(row, Group(row), p[i])}
      BY <1>1, <1>4 DEF UpTo
    <3> QED
      BY <1>a, <3>1, <3>2
  <2> DEFINE Over(r) == {r[i].duration : i \in
               {i \in Group(r) : Cardinality(UpTo(r, Group(r), i)) > Cardinality(Group(r)) \div 2}}
  <2>2. \A x \in Over(two) : x \in Over(row)
    BY <1>1, <1>4, <1>5, <2>1
  <2>3. ASSUME NEW j \in Group(row),
               Cardinality(UpTo(row, Group(row), j)) > Cardinality(Group(row)) \div 2
        PROVE  row[j].duration \in Over(two)
    <3>1. PICK i \in D : p[i] = j
      BY <1>1, <1>4
    <3>2. i \in Group(two) /\ two[i].duration = row[j].duration
      BY <1>1, <1>4, <3>1
    <3>3. Cardinality(UpTo(two, Group(two), i)) > Cardinality(Group(two)) \div 2
      BY <1>5, <2>1, <2>3, <3>1
    <3> QED
      BY <3>2, <3>3
  <2>4. Over(two) = Over(row)
    BY <2>2, <2>3
  <2> QED
    BY <2>4 DEF Median
<1>7. ASSUME NEW field \in {"size", "duration"}, NEW A \in SUBSET D
      PROVE  SumOf(two, field, {i \in D : p[i] \in A}) = SumOf(row, field, A)
  <2> DEFINE f == [i \in D |-> row[i][field]]
             g == [i \in D |-> two[i][field]]
  <2>1. SumOf(two, field, {i \in D : p[i] \in A}) = SumFunctionOnSet(g, {i \in D : p[i] \in A})
    BY <1>2 DEF SumOf
  <2>2. SumOf(row, field, A) = SumFunctionOnSet(f, A)
    BY <1>2 DEF SumOf
  <2>3. \A i \in D : f[i] \in Int /\ g[i] = f[p[i]]
    <3>1. \A i \in D : row[i][field] \in Nat
      BY RowIs DEF D
    <3> QED
      BY <1>1, <3>1
  <2> HIDE DEF f, g
  <2>4. SumFunctionOnSet(g, {i \in D : p[i] \in A}) = SumFunctionOnSet(f, A)
    BY <1>1, <1>3, <2>3, Resum
  <2> QED
    BY <2>1, <2>2, <2>4
<1>8. D = {i \in D : p[i] \in D}
  BY <1>1
<1>9. /\ SumOf(two, "size", D) = SumOf(row, "size", D)
      /\ SumOf(two, "duration", D) = SumOf(row, "duration", D)
      /\ SumOf(two, "size", Group(two)) = SumOf(row, "size", Group(row))
  BY <1>4, <1>7, <1>8
<1>10. Essence(Cost(two)) = Essence(Cost(row))
  <2>1. \A known, a, b, c, l, m :
          Essence(IF known THEN NoEstimate
                  ELSE [known |-> TRUE, fixed |-> a, unit |-> b, files |-> c, largest |-> l])
          = Essence(IF known THEN NoEstimate
                    ELSE [known |-> TRUE, fixed |-> a, unit |-> b, files |-> c, largest |-> m])
    BY DEF Essence, NoEstimate
  <2> QED
    BY <1>2, <1>5, <1>6, <1>9, <2>1 DEF Cost
<1> QED
  BY <1>10 DEF two, D

(* The cut is at a file at least.                                          *)
LEMMA CutIs ==
  ASSUME NEW n \in Nat, n >= MinSamples
  PROVE  n > 0 /\ Cut(n) \in Nat /\ Cut(n) > 0
<1>1. MinSamples \in Nat /\ MinSamples > 0 /\ SmallShare \in Nat /\ SmallShare > 0 /\ n > 0
  BY PerfAssumption
<1>2. n \div SmallShare \in Nat
  BY <1>1
<1> DEFINE s == {n \div SmallShare, MinSamples}
<1>3. IsFiniteSet(s)
  <2>1. s = {n \div SmallShare} \union {MinSamples}
    OBVIOUS
  <2>2. IsFiniteSet({n \div SmallShare}) /\ IsFiniteSet({MinSamples})
    BY FS_Singleton
  <2> QED
    BY <2>1, <2>2, FS_Union
<1>4. Max(s) \in Nat /\ Max(s) >= MinSamples
  BY <1>1, <1>2, <1>3, MaxIsMember
<1> DEFINE t == {Max(s), n}
<1>5. Min(t) \in t
  BY <1>4, MinIsMember
<1>6. Min(t) \in Nat /\ Min(t) > 0
  BY <1>1, <1>4, <1>5
<1> QED
  BY <1>1, <1>6 DEF Cut

(* Of all files together the median is one of the times, and no more than  *)
(* half of them took less.                                                 *)
LEMMA MedianIs ==
  ASSUME NEW n \in Nat, n > 0, NEW row \in Row(n)
  PROVE  /\ \E i \in 1..n : Median(row, 1..n) = row[i].duration
         /\ Cardinality({i \in 1..n : row[i].duration < Median(row, 1..n)}) =< n \div 2
<1> DEFINE D == 1..n
           up(i) == Cardinality(UpTo(row, D, i))
           Over == {row[i].duration : i \in {i \in D : up(i) > n \div 2}}
           m == Median(row, D)
           less == {i \in D : row[i].duration < m}
<1>1. /\ IsFiniteSet(D) /\ Cardinality(D) = n /\ D # {}
      /\ \A i \in D : row[i].duration \in Nat
  <2>1. 1 \in D
    OBVIOUS
  <2> QED
    BY <2>1, RowIs
<1>2. m = Min(Over)
  BY <1>1 DEF Median
<1> HIDE DEF D, m
<1>3. ASSUME NEW A \in SUBSET D, A # {}
      PROVE  \E i \in A : A \subseteq UpTo(row, D, i)
  <2> DEFINE T == {row[i].duration : i \in A}
  <2>1. IsFiniteSet(T) /\ T \in SUBSET Int /\ T # {}
    <3> DEFINE f == [i \in A |-> row[i].duration]
    <3>1. f \in Surjection(A, T)
      BY DEF Surjection
    <3>2. IsFiniteSet(A)
      BY <1>1, FS_Subset
    <3> HIDE DEF T, f
    <3>3. IsFiniteSet(T)
      BY <3>1, <3>2, FS_Surjection
    <3> QED
      BY <1>1, <1>3, <3>3 DEF T
  <2>2. Max(T) \in T /\ \A y \in T : Max(T) >= y
    BY <2>1, MaxIsMember
  <2>3. PICK i \in A : row[i].duration = Max(T)
    BY <2>2
  <2>4. \A j \in A : row[j].duration =< row[i].duration
    <3>1. \A j \in A : Max(T) >= row[j].duration
      BY <2>2
    <3>2. \A j \in A : row[j].duration \in Nat
      BY <1>1
    <3> HIDE DEF T
    <3> QED
      BY <2>3, <3>1, <3>2
  <2> QED
    BY <2>4 DEF UpTo
<1>4. ASSUME NEW i \in D PROVE up(i) \in Nat /\ UpTo(row, D, i) \in SUBSET D
  <2>1. UpTo(row, D, i) \in SUBSET D
    BY DEF UpTo
  <2> QED
    BY <1>1, <2>1, FS_Subset, FS_CardinalityType
<1>5. Over # {}
  <2>1. PICK i \in D : D \subseteq UpTo(row, D, i)
    BY <1>1, <1>3
  <2>2. UpTo(row, D, i) = D
    BY <1>4, <2>1
  <2>3. up(i) > n \div 2
    BY <1>1, <2>2
  <2> QED
    BY <2>3
<1>6. m \in Over /\ m \in Nat /\ \A y \in Over : m =< y
  <2>1. Over \in SUBSET Nat
    BY <1>1
  <2> HIDE DEF Over
  <2> QED
    BY <1>2, <1>5, <2>1, MinIsMember
<1>7. \E i \in D : m = row[i].duration
  BY <1>6
<1>8. Cardinality(less) =< n \div 2
  <2> SUFFICES ASSUME less # {} PROVE Cardinality(less) =< n \div 2
    <3>1. n \div 2 >= 0
      OBVIOUS
    <3> QED
      BY <3>1, FS_EmptySet
  <2>1. PICK i \in less : less \subseteq UpTo(row, D, i)
    BY <1>3
  <2>2. Cardinality(less) =< up(i)
    <3>1. IsFiniteSet(UpTo(row, D, i)) /\ less \in SUBSET UpTo(row, D, i)
      BY <1>1, <1>4, <2>1, FS_Subset
    <3> HIDE DEF less
    <3> QED
      BY <3>1, FS_Subset
  <2>3. ~(up(i) > n \div 2)
    <3> SUFFICES ASSUME up(i) > n \div 2 PROVE FALSE
      OBVIOUS
    <3>1. row[i].duration \in Over /\ row[i].duration < m
      OBVIOUS
    <3>2. m =< row[i].duration /\ row[i].duration \in Nat
      BY <1>1, <1>6, <3>1
    <3> QED
      BY <1>6, <3>1, <3>2
  <2>4. Cardinality(less) \in Nat /\ up(i) \in Nat /\ n \div 2 \in Nat
    <3>1. IsFiniteSet(less) /\ i \in D
      BY <1>1, FS_Subset
    <3> HIDE DEF less
    <3> QED
      BY <1>4, <3>1, FS_CardinalityType
  <2> HIDE DEF up, less
  <2> QED
    BY <2>2, <2>3, <2>4
<1> QED
  BY <1>7, <1>8 DEF D, m

(* The time of all files together is more than half of what it would be if *)
(* each had taken as long as the median.                                   *)
LEMMA TimeIs ==
  ASSUME NEW n \in Nat, n > 0, NEW row \in Row(n), \A i \in 1..n : row[i].duration > 0
  PROVE  /\ SumOf(row, "duration", 1..n) \in Nat /\ Median(row, 1..n) \in Nat
         /\ 2 * SumOf(row, "duration", 1..n) > n * Median(row, 1..n)
<1> DEFINE D == 1..n
           m == Median(row, D)
           less == {i \in D : row[i].duration < m}
           f == [i \in D |-> row[i]["duration"]]
           h == [i \in D |-> IF i \in D \ less THEN m ELSE 0]
           time == SumOf(row, "duration", D)
<1>1. /\ IsFiniteSet(D) /\ Cardinality(D) = n
      /\ \A i \in D : row[i].duration \in Nat /\ row[i].duration > 0 /\ f[i] = row[i].duration
  BY RowIs
<1>2. m \in Nat /\ m > 0 /\ Cardinality(less) =< n \div 2
  BY <1>1, MedianIs
<1>3. time = SumFunctionOnSet(f, D)
  BY RowIs DEF SumOf
<1> HIDE DEF D, m, f, time
<1>4. \A i \in D : h[i] \in Int /\ f[i] \in Nat /\ f[i] > 0 /\ h[i] =< f[i]
  BY <1>1, <1>2
<1> DEFINE c == Cardinality(D \ less)
<1>5. c \in Nat /\ 2 * c >= n /\ (less = {} => c = n)
  <2>1. IsFiniteSet(less) /\ Cardinality(less) \in Nat
    <3>1. IsFiniteSet(less)
      BY <1>1, FS_Subset
    <3> HIDE DEF less
    <3> QED
      BY <3>1, FS_CardinalityType
  <2>2. c = Cardinality(D) - Cardinality(D \intersect less)
    BY <1>1, FS_Difference
  <2>3. D \intersect less = less
    OBVIOUS
  <2>4. less = {} => Cardinality(less) = 0
    BY FS_EmptySet
  <2>5. c = n - Cardinality(less)
    BY <1>1, <2>2, <2>3
  <2>6. 2 * (n \div 2) =< n /\ n \div 2 \in Nat /\ n \div 2 =< n
    OBVIOUS
  <2> DEFINE l == Cardinality(less)
  <2>7. l \in Nat /\ c = n - l /\ l =< n \div 2 /\ (less = {} => l = 0)
    BY <1>2, <2>1, <2>4, <2>5
  <2> HIDE DEF less, c, l
  <2> QED
    BY <2>6, <2>7
<1>6. SumFunctionOnSet(h, D) = m * c
  <2>1. D \ less \in SUBSET D /\ m \in Int
    BY <1>2
  <2>2. \A i \in D : h[i] = IF i \in D \ less THEN m ELSE 0
    OBVIOUS
  <2> HIDE DEF less, h
  <2> QED
    BY <1>1, <2>1, <2>2, SumOfSome
<1>7. SumFunctionOnSet(h, D) =< SumFunctionOnSet(f, D) /\ SumFunctionOnSet(f, D) \in Nat
  <2> HIDE DEF h
  <2> QED
    BY <1>1, <1>4, SumMonotone, SumNat
<1>8. less # {} => SumFunctionOnSet(h, D) + 1 =< SumFunctionOnSet(f, D)
  <2> SUFFICES ASSUME less # {}
               PROVE  SumFunctionOnSet(h, D) + 1 =< SumFunctionOnSet(f, D)
    OBVIOUS
  <2>1. PICK x \in less : TRUE
    OBVIOUS
  <2>2. x \in D /\ h[x] = 0
    OBVIOUS
  <2> HIDE DEF h, less
  <2>3. IsFiniteSet(D \ {x})
    BY <1>1, FS_RemoveElement
  <2>4. \A i \in D : h[i] \in Int /\ f[i] \in Int
    BY <1>4
  <2>5. /\ SumFunctionOnSet(h, D) = h[x] + SumFunctionOnSet(h, D \ {x})
        /\ SumFunctionOnSet(f, D) = f[x] + SumFunctionOnSet(f, D \ {x})
    BY <1>1, <2>2, <2>4, SumRemove
  <2>6. SumFunctionOnSet(h, D \ {x}) =< SumFunctionOnSet(f, D \ {x})
    BY <1>4, <2>3, SumMonotone
  <2>7. SumFunctionOnSet(h, D \ {x}) \in Int /\ SumFunctionOnSet(f, D \ {x}) \in Int
    BY <2>3, <2>4, SumType
  <2> QED
    BY <1>4, <2>2, <2>5, <2>6, <2>7
<1> HIDE DEF c, h, less
<1>9. \A a, b, k \in Nat : a >= b => k * a >= k * b
  OBVIOUS
<1>10. m * (2 * c) >= m * n
  BY <1>2, <1>5, <1>9
<1>11. 2 * time > m * n
  <2>1. CASE less = {}
    <3>1. m * c = m * n /\ m * n > 0 /\ m * n \in Nat
      BY <1>2, <1>5, <2>1
    <3> QED
      BY <1>3, <1>6, <1>7, <3>1
  <2>2. CASE less # {}
    <3>1. m * c \in Nat /\ m * n \in Nat /\ m * (2 * c) = 2 * (m * c)
      BY <1>2, <1>5
    <3> QED
      BY <1>3, <1>6, <1>7, <1>8, <1>10, <2>2, <3>1
  <2> QED
    BY <2>1, <2>2
<1>12. m * n = n * m
  BY <1>2
<1> QED
  BY <1>2, <1>3, <1>7, <1>11, <1>12 DEF time, m, D

(* With one file size there is no estimate.                                *)
LEMMA NoSpread ==
  ASSUME NEW n \in Nat, NEW row \in Row(n), \A i \in 1..n : row[i].duration > 0,
         NEW size, \A i \in 1..n : row[i].size = size
  PROVE  Cost(row) = NoEstimate
<1> SUFFICES ASSUME n >= MinSamples, SumOf(row, "size", 1..n) * SumOf(row, "duration", 1..n) # 0
             PROVE  Cost(row) = NoEstimate
  <2>1. MinSamples \in Nat
    BY PerfAssumption
  <2>2. DOMAIN row = 1..n /\ Len(row) = n
    BY RowIs
  <2>3. n < MinSamples \/ n >= MinSamples
    BY <2>1
  <2> QED
    BY <2>2, <2>3 DEF Cost
<1> DEFINE D == 1..n
           m == Median(row, D)
           bytes == SumOf(row, "size", D)
           time == SumOf(row, "duration", D)
<1>1. n > 0 /\ Cut(n) \in Nat /\ Cut(n) > 0
  BY CutIs
<1>2. /\ DOMAIN row = D /\ Len(row) = n /\ IsFiniteSet(D) /\ Cardinality(D) = n
      /\ \A i \in D : row[i].size \in Nat /\ row[i]["size"] = row[i].size
  BY RowIs
<1>3. Group(row) = D
  <2>1. \A i \in D : Smaller(row, i) = {}
    BY <1>2 DEF Smaller
  <2>2. \A i \in D : Cardinality(Smaller(row, i)) < Cut(n)
    BY <1>1, <2>1, FS_EmptySet
  <2> QED
    BY <1>2, <2>2 DEF Group
<1>4. bytes \in Nat
  <2> DEFINE g == [i \in D |-> row[i]["size"]]
  <2>1. bytes = SumFunctionOnSet(g, D)
    BY <1>2 DEF SumOf
  <2>2. \A i \in D : g[i] \in Nat
    BY <1>2
  <2> HIDE DEF g, D
  <2> QED
    BY <1>2, <2>1, <2>2, SumNat
<1>5. time \in Nat /\ m \in Nat /\ 2 * time > n * m
  BY <1>1, TimeIs
<1> HIDE DEF D, m, bytes, time
<1>6. bytes > 0
  <2>1. bytes * time # 0
    BY DEF bytes, time, D
  <2> QED
    BY <1>4, <1>5, <2>1
<1>7. 2 * (bytes * time) > m * (n * bytes)
  <2>1. \A a, b, k \in Nat : a > b /\ k > 0 => a * k > b * k
    OBVIOUS
  <2>2. 2 * time \in Nat /\ n * m \in Nat
    BY <1>5
  <2>3. (2 * time) * bytes > (n * m) * bytes
    BY <1>4, <1>5, <1>6, <2>1, <2>2
  <2>4. (2 * time) * bytes = 2 * (bytes * time) /\ (n * m) * bytes = m * (n * bytes)
    BY <1>4, <1>5
  <2> QED
    BY <2>3, <2>4
<1>8. TooMuchByteTime(bytes * time, m * (n * bytes))
  BY <1>7 DEF TooMuchByteTime
<1> QED
  BY <1>2, <1>3, <1>8 DEF Cost, bytes, time, m

(* A set of files that each began at their own time or on their own stream *)
(* has one order by start.                                                 *)
LEMMA InOrder ==
  ASSUME NEW S \in SUBSET Sample, IsFiniteSet(S),
         \A a, b \in S : a.by = b.by /\ a.start = b.start => a = b
  PROVE  \E row \in SetToSeqs(S) : \A i, j \in DOMAIN row : i < j => Earlier(row[i], row[j])
<1> DEFINE n == Cardinality(S)
           D == 1..n
           before(a) == {b \in S : b = a \/ Earlier(b, a)}
           rank == [a \in S |-> Cardinality(before(a))]
<1>1. n \in Nat /\ IsFiniteSet(D) /\ Cardinality(D) = n
  <2>1. n \in Nat
    BY FS_CardinalityType
  <2> HIDE DEF n
  <2> QED
    BY <2>1, FS_Interval
<1>2. \A a, b, c \in S : /\ ~Earlier(a, a)
                         /\ Earlier(a, b) /\ Earlier(b, c) => Earlier(a, c)
                         /\ a # b => Earlier(a, b) \/ Earlier(b, a)
  <2>1. \A a \in S : a.start \in Nat /\ a.by \in Nat
    BY PerfAssumption DEF Sample
  <2> QED
    BY <2>1 DEF Earlier
<1>3. ASSUME NEW a \in S
      PROVE  /\ before(a) \in SUBSET S /\ IsFiniteSet(before(a)) /\ rank[a] = Cardinality(before(a))
             /\ rank[a] \in D
  <2>1. before(a) \in SUBSET S
    OBVIOUS
  <2>2. a \in before(a)
    OBVIOUS
  <2>3. rank[a] = Cardinality(before(a))
    OBVIOUS
  <2> HIDE DEF before, rank
  <2>4. IsFiniteSet(before(a)) /\ Cardinality(before(a)) =< n
    BY <2>1, FS_Subset
  <2>5. Cardinality(before(a)) \in Nat /\ Cardinality(before(a)) # 0
    BY <2>2, <2>4, FS_CardinalityType, FS_EmptySet
  <2> QED
    BY <1>1, <2>1, <2>3, <2>4, <2>5
<1>4. ASSUME NEW a \in S, NEW b \in S, Earlier(a, b)
      PROVE  rank[a] < rank[b]
  <2>1. before(a) \in SUBSET before(b)
    BY <1>2, <1>4
  <2>2. b \in before(b) /\ b \notin before(a)
    BY <1>2, <1>4
  <2> HIDE DEF before, rank, D
  <2>3. before(a) # before(b)
    BY <2>2
  <2>4. Cardinality(before(a)) =< Cardinality(before(b)) /\ Cardinality(before(a)) # Cardinality(before(b))
    BY <1>3, <2>1, <2>3, FS_Subset
  <2>5. rank[a] \in Nat /\ rank[b] \in Nat
    BY <1>1, <1>3 DEF D
  <2> QED
    BY <1>3, <2>4, <2>5
<1> HIDE DEF before, D
<1>5. \A a, b \in S : rank[a] \in Nat /\ (a # b => rank[a] # rank[b])
                      /\ (rank[a] < rank[b] => Earlier(a, b))
  <2>1. \A a \in S : rank[a] \in Nat
    BY <1>1, <1>3 DEF D
  <2> HIDE DEF rank
  <2>2. \A a, b \in S : Earlier(a, b) => rank[a] < rank[b]
    BY <1>4
  <2> QED
    BY <1>2, <2>1, <2>2
<1>6. rank \in Surjection(S, D)
  <2>1. rank \in Injection(S, D)
    <3>1. rank \in [S -> D] /\ DOMAIN rank = S
      BY <1>3
    <3> HIDE DEF rank
    <3> QED
      BY <1>5, <3>1 DEF Injection, IsInjective
  <2> HIDE DEF rank
  <2> QED
    BY <1>1, <2>1, FS_Injection
<1> DEFINE row == [i \in D |-> CHOOSE a \in S : rank[a] = i]
<1>7. \A i \in D : row[i] \in S /\ rank[row[i]] = i
  <2> HIDE DEF rank
  <2> QED
    BY <1>6 DEF Surjection
<1>8. DOMAIN row = D /\ row \in [D -> S]
  BY <1>7
<1> HIDE DEF row, rank
<1>9. \A i, j \in D : i # j => row[i] # row[j]
  BY <1>7
<1>10. row \in SetToSeqs(S)
  BY <1>8, <1>9 DEF SetToSeqs, D
<1>11. \A i, j \in D : i < j => Earlier(row[i], row[j])
  BY <1>5, <1>7
<1> QED
  BY <1>8, <1>10, <1>11

(* The samples in the order of the report.                                 *)
LEMMA ByStartIs ==
  ASSUME PerfInv
  PROVE  /\ Cardinality(samples) \in Nat /\ ByStart \in Row(Cardinality(samples))
         /\ \A i \in 1..Cardinality(samples) : ByStart[i] \in samples
<1>1. samples \in SUBSET Sample /\ IsFiniteSet(samples) /\ Cardinality(samples) \in Nat
  BY FS_CardinalityType DEF PerfInv, Types
<1>2. \E row \in SetToSeqs(samples) : \A i, j \in DOMAIN row : i < j => Earlier(row[i], row[j])
  BY <1>1, InOrder DEF PerfInv, Apart
<1>3. ByStart \in SetToSeqs(samples)
  BY <1>2 DEF ByStart
<1>4. ByStart \in [1..Cardinality(samples) -> samples]
  BY <1>3 DEF SetToSeqs
<1> QED
  BY <1>1, <1>4 DEF Row

(* The estimate does not depend on the order in which the streams got to   *)
(* the files, and a run with one file size has none, however long each     *)
(* file took.                                                              *)
THEOREM EstimateCorrect == Spec => []EstimateSound
<1>1. PerfInv => EstimateSound
  <2> SUFFICES ASSUME PerfInv PROVE EstimateSound
    OBVIOUS
  <2> DEFINE n == Cardinality(samples)
             D == 1..n
  <2>1. n \in Nat /\ ByStart \in Row(n) /\ \A i \in D : ByStart[i] \in samples
    BY ByStartIs
  <2>2. DOMAIN ByStart = D /\ IsFiniteSet(D) /\ Cardinality(D) = n
    BY <2>1, RowIs
  <2>3. ASSUME NEW order \in Orders
        PROVE  Essence(Cost([i \in DOMAIN order |-> ByStart[order[i]]])) = Essence(Cost(ByStart))
    <3>1. DOMAIN order = D /\ order \in Injection(D, D)
      BY <2>2 DEF Orders, Injection
    <3>2. order \in Bijection(D, D)
      <4>1. order \in Surjection(D, D)
        BY <2>2, <3>1, FS_Injection
      <4> QED
        BY <3>1, <4>1 DEF Bijection
    <3> HIDE DEF n
    <3> QED
      BY <2>1, <3>1, <3>2, Shuffled
  <2>4. ASSUME Cardinality({s.size : s \in samples}) = 1
        PROVE  ~Cost(ByStart).known
    <3> DEFINE T == {s.size : s \in samples}
    <3>1. IsFiniteSet(T)
      <4> DEFINE f == [s \in samples |-> s.size]
      <4>1. f \in Surjection(samples, T)
        BY DEF Surjection
      <4>2. IsFiniteSet(samples)
        BY DEF PerfInv, Types
      <4> HIDE DEF T, f
      <4> QED
        BY <4>1, <4>2, FS_Surjection
    <3>2. PICK size : T = {size}
      <4> HIDE DEF T
      <4>1. Cardinality(T) = 1
        BY <2>4 DEF T
      <4> QED
        BY <3>1, <4>1, FS_Singleton
    <3>3. \A i \in D : ByStart[i].size = size /\ ByStart[i].duration > 0
      BY <2>1, <3>2 DEF PerfInv, Durations
    <3> HIDE DEF n, T
    <3>4. Cost(ByStart) = NoEstimate
      BY <2>1, <3>3, NoSpread
    <3> QED
      BY <3>4 DEF NoEstimate
  <2> QED
    BY <2>3, <2>4 DEF EstimateSound
<1> QED
  BY <1>1, PerfInvariance, PTL
==============================================================================
