----------------------------- MODULE FoldLemmas ------------------------------
(***************************************************************************)
(* Induction, and what the folds and sums of the community modules are. A  *)
(* proof cannot name a predicate as a parameter, so induction is stated    *)
(* for a set: of numbers, or of the subsets of a finite set.  It follows   *)
(* from the well-foundedness of <.  The folds pick the members of a set in *)
(* an order of CHOOSE, by a recursive function; that this function exists  *)
(* is RecursionExists.                                                     *)
(***************************************************************************)
EXTENDS FiniteSetsExt, SequencesExt, Functions, FiniteSetTheorems, SequenceTheorems,
        WellFoundedInduction, TLAPS

-----------------------------------------------------------------------------
(* Induction over the numbers, about a set of them.                        *)
LEMMA Induction ==
  ASSUME NEW T \in SUBSET Nat, 0 \in T, \A n \in T : n + 1 \in T
  PROVE  T = Nat
<1> SUFFICES ASSUME Nat \ T # {} PROVE FALSE
  OBVIOUS
<1>1. \E x \in Nat \ T : \A y \in Nat \ T : ~(<<y, x>> \in OpToRel(<, Nat))
  BY WFMin, NatLessThanWellFounded, Zenon
<1>2. PICK x \in Nat \ T : \A y \in Nat \ T : ~(<<y, x>> \in OpToRel(<, Nat))
  BY <1>1, Zenon
<1>3. x \in Nat \ T /\ \A y \in Nat \ T : ~(y < x)
  BY <1>2, Zenon DEF OpToRel
<1>4. x # 0 /\ x - 1 \in Nat
  BY <1>3
<1>5. x - 1 \in T
  BY <1>3, <1>4
<1> QED
  BY <1>3, <1>5

(* Induction over the subsets of a finite set, about a set of them.        *)
LEMMA SubsetInduction ==
  ASSUME NEW S, IsFiniteSet(S), NEW P \in SUBSET (SUBSET S), {} \in P,
         \A s \in P, x \in S : s \union {x} \in P
  PROVE  S \in P
<1> DEFINE T == {n \in Nat : \A s \in SUBSET S : Cardinality(s) = n => s \in P}
<1>1. \A s \in SUBSET S : IsFiniteSet(s) /\ Cardinality(s) \in Nat
  BY FS_Subset, FS_CardinalityType
<1>2. 0 \in T
  <2>1. \A s \in SUBSET S : Cardinality(s) = 0 => s = {}
    BY <1>1, FS_EmptySet
  <2> QED
    BY <2>1
<1>3. ASSUME NEW n \in T PROVE n + 1 \in T
  <2>0. n \in Nat
    OBVIOUS
  <2>1. ASSUME NEW s \in SUBSET S, Cardinality(s) = n + 1
        PROVE  s \in P
    <3>1. s # {}
      <4> HIDE DEF T
      <4>1. Cardinality({}) = 0
        BY FS_EmptySet
      <4>2. n + 1 # 0
        BY <2>0
      <4> QED
        BY <2>1, <4>1, <4>2
    <3>2. PICK x \in s : TRUE
      BY <3>1
    <3>3. s \ {x} \in SUBSET S /\ Cardinality(s \ {x}) = n
      <4> HIDE DEF T
      <4>1. IsFiniteSet(s) /\ x \in s
        BY <1>1, <3>2
      <4>2. Cardinality(s \ {x}) = Cardinality(s) - 1
        BY <4>1, FS_RemoveElement
      <4> QED
        BY <2>0, <2>1, <4>2
    <3>4. s \ {x} \in P
      BY <3>3
    <3>5. (s \ {x}) \union {x} \in P
      BY <3>2, <3>4
    <3>6. (s \ {x}) \union {x} = s
      BY <3>2
    <3> QED
      BY <3>5, <3>6
  <2>2. n + 1 \in Nat
    OBVIOUS
  <2> QED
    BY <2>1, <2>2
<1>4. T = Nat
  <2> HIDE DEF T
  <2> QED
    BY <1>2, <1>3, Induction DEF T
<1> QED
  BY <1>1, <1>4

-----------------------------------------------------------------------------
(* The sums of the community modules: SumFunctionOnSet takes the members   *)
(* of the set in the order CHOOSE gives, so that it is the sum is not a    *)
(* matter of its definition.                                               *)
One(s) == CHOOSE x \in s : TRUE
Adds(f, S, g) ==
  g = [s \in SUBSET S |-> IF s = {} THEN 0 ELSE f[One(s)] + g[s \ {One(s)}]]
SumsUp(f, S, g) ==
  g[{}] = 0 /\ \A s \in SUBSET S : \A x \in s : g[s] = f[x] + g[s \ {x}]

GivesSums(f, S, g) ==
  SumsUp(f, S, g) /\ \A s \in SUBSET S : SumFunctionOnSet(f, s) = g[s]

(* There are sums: a new member is added to those that there are.          *)
LEMMA SumExists ==
  ASSUME NEW S, IsFiniteSet(S), NEW f, \A x \in S : f[x] \in Int
  PROVE  \E g \in [SUBSET S -> Int] : SumsUp(f, S, g)
<1> DEFINE P == {s \in SUBSET S : \E g \in [SUBSET s -> Int] : SumsUp(f, s, g)}
<1>1. {} \in P
  <2> DEFINE g == [s \in SUBSET {} |-> 0]
  <2>1. g \in [SUBSET {} -> Int] /\ SumsUp(f, {}, g)
    BY DEF SumsUp
  <2> QED
    BY <2>1
<1>2. ASSUME NEW s \in P, NEW z \in S
      PROVE  s \union {z} \in P
  <2>1. CASE z \in s
    <3>1. s \union {z} = s
      BY <2>1
    <3> QED
      BY <3>1
  <2>2. CASE z \notin s
    <3>1. PICK g \in [SUBSET s -> Int] : SumsUp(f, s, g)
      OBVIOUS
    <3> DEFINE u == s \union {z}
               h == [t \in SUBSET u |-> IF z \in t THEN f[z] + g[t \ {z}] ELSE g[t]]
    <3>2. \A t \in SUBSET u : t \ {z} \in SUBSET s /\ (z \notin t => t \in SUBSET s)
      OBVIOUS
    <3>3. h \in [SUBSET u -> Int]
      BY <3>2
    <3>4. h[{}] = 0
      BY <3>1 DEF SumsUp
    <3>5. ASSUME NEW t \in SUBSET u, NEW x \in t
          PROVE  h[t] = f[x] + h[t \ {x}]
      <4>1. CASE x = z
        <5>1. h[t \ {z}] = g[t \ {z}]
          OBVIOUS
        <5> QED
          BY <4>1, <5>1
      <4>2. CASE x # z /\ z \in t
        <5>1. (t \ {z}) \ {x} = (t \ {x}) \ {z}
          OBVIOUS
        <5>2. g[t \ {z}] = f[x] + g[(t \ {z}) \ {x}]
          BY <3>1, <3>2, <4>2 DEF SumsUp
        <5>3. h[t] = f[z] + g[t \ {z}] /\ h[t \ {x}] = f[z] + g[(t \ {x}) \ {z}]
          BY <4>2
        <5>4. f[z] \in Int /\ f[x] \in Int /\ g[(t \ {x}) \ {z}] \in Int
          BY <3>2
        <5>5. g[t \ {z}] = f[x] + g[(t \ {x}) \ {z}]
          BY <5>1, <5>2
        <5> HIDE DEF h
        <5> QED
          BY <5>3, <5>4, <5>5
      <4>3. CASE z \notin t
        <5>1. h[t] = g[t] /\ h[t \ {x}] = g[t \ {x}] /\ t \in SUBSET s
          BY <4>3, <3>2
        <5> QED
          BY <5>1, <3>1 DEF SumsUp
      <4> QED
        BY <4>1, <4>2, <4>3
    <3>6. SumsUp(f, u, h)
      <4> HIDE DEF h
      <4> QED
        BY <3>4, <3>5 DEF SumsUp
    <3>7. u \in SUBSET S
      OBVIOUS
    <3> HIDE DEF h
    <3> QED
      BY <3>3, <3>6, <3>7
  <2> QED
    BY <2>1, <2>2
<1>3. S \in P
  <2> HIDE DEF P
  <2>1. P \in SUBSET (SUBSET S)
    BY DEF P
  <2> QED
    BY <1>1, <1>2, <2>1, SubsetInduction
<1> QED
  BY <1>3

(* The one that is defined by recursion is such a one.                     *)
LEMMA SumUnique ==
  ASSUME NEW S, IsFiniteSet(S), NEW f, NEW g, NEW h, Adds(f, S, g), SumsUp(f, S, h)
  PROVE  g[S] = h[S]
<1> DEFINE T == {n \in Nat : \A s \in SUBSET S : Cardinality(s) = n => g[s] = h[s]}
<1>1. \A s \in SUBSET S : IsFiniteSet(s) /\ Cardinality(s) \in Nat
  BY FS_Subset, FS_CardinalityType
<1>2. \A s \in SUBSET S : g[s] = IF s = {} THEN 0 ELSE f[One(s)] + g[s \ {One(s)}]
  BY DEF Adds
<1>3. 0 \in T
  <2>1. \A s \in SUBSET S : Cardinality(s) = 0 => s = {}
    BY <1>1, FS_EmptySet
  <2> QED
    BY <1>2, <2>1 DEF SumsUp
<1>4. ASSUME NEW n \in T PROVE n + 1 \in T
  <2>0. n \in Nat
    OBVIOUS
  <2>1. ASSUME NEW s \in SUBSET S, Cardinality(s) = n + 1
        PROVE  g[s] = h[s]
    <3>1. s # {}
      <4> HIDE DEF T
      <4>1. Cardinality({}) = 0
        BY FS_EmptySet
      <4>2. n + 1 # 0
        BY <2>0
      <4> QED
        BY <2>1, <4>1, <4>2
    <3>2. One(s) \in s
      BY <3>1 DEF One
    <3>3. s \ {One(s)} \in SUBSET S /\ Cardinality(s \ {One(s)}) = n
      <4> HIDE DEF T
      <4>1. IsFiniteSet(s) /\ One(s) \in s
        BY <1>1, <3>2
      <4>2. Cardinality(s \ {One(s)}) = Cardinality(s) - 1
        BY <4>1, FS_RemoveElement
      <4> QED
        BY <2>0, <2>1, <4>2
    <3>4. g[s \ {One(s)}] = h[s \ {One(s)}]
      BY <3>3
    <3> QED
      BY <1>2, <3>1, <3>2, <3>4 DEF SumsUp
  <2>2. n + 1 \in Nat
    OBVIOUS
  <2> QED
    BY <2>1, <2>2
<1>5. T = Nat
  <2> HIDE DEF T
  <2> QED
    BY <1>3, <1>4, Induction DEF T
<1> QED
  BY <1>1, <1>5

(* What the operator of the module is, for all subsets of a set at once.   *)
LEMMA SumIs ==
  ASSUME NEW S, IsFiniteSet(S), NEW f, \A x \in S : f[x] \in Int
  PROVE  \E g \in [SUBSET S -> Int] : GivesSums(f, S, g)
<1>1. PICK g \in [SUBSET S -> Int] : SumsUp(f, S, g)
  BY SumExists
<1>2. ASSUME NEW s \in SUBSET S
      PROVE  SumFunctionOnSet(f, s) = g[s]
  <2> DEFINE h == [t \in SUBSET s |-> g[t]]
  <2>1. IsFiniteSet(s)
    BY FS_Subset
  <2>2. SumsUp(f, s, h)
    BY <1>1 DEF SumsUp
  <2>3. Adds(f, s, h)
    <3>1. \A t \in SUBSET s : t # {} => One(t) \in t
      BY DEF One
    <3>2. \A t \in SUBSET s : h[t] = IF t = {} THEN 0 ELSE f[One(t)] + h[t \ {One(t)}]
      <4> HIDE DEF h
      <4> QED
        BY <2>2, <3>1 DEF SumsUp
    <3>3. h = [t \in SUBSET s |-> h[t]]
      OBVIOUS
    <3> HIDE DEF h
    <3> QED
      BY <3>2, <3>3 DEF Adds
  <2>4. \E k : Adds(f, s, k) /\ SumFunctionOnSet(f, s) = k[s]
    <3>1. \E k : Adds(f, s, k)
      BY <2>3
    <3> QED
      BY <3>1, Zenon DEF SumFunctionOnSet, FoldFunctionOnSet, MapThenFoldSet, Adds, One
  <2>5. PICK k : Adds(f, s, k) /\ SumFunctionOnSet(f, s) = k[s]
    BY <2>4
  <2>6. k[s] = h[s]
    <3> HIDE DEF h
    <3> QED
      BY <2>1, <2>2, <2>5, SumUnique
  <2> QED
    BY <2>5, <2>6
<1> QED
  BY <1>1, <1>2 DEF GivesSums

(* The laws of sums.                                                       *)
LEMMA SumEmpty == ASSUME NEW f PROVE SumFunctionOnSet(f, {}) = 0
<1> DEFINE N == {}
<1>1. IsFiniteSet(N) /\ \A x \in N : f[x] \in Int
  BY FS_EmptySet
<1> HIDE DEF N
<1>2. PICK g \in [SUBSET N -> Int] : GivesSums(f, N, g)
  BY <1>1, SumIs
<1> QED
  BY <1>2 DEF GivesSums, SumsUp, N

(* A sum of integers is one.                                               *)
LEMMA SumType ==
  ASSUME NEW S, IsFiniteSet(S), NEW f, \A x \in S : f[x] \in Int
  PROVE  SumFunctionOnSet(f, S) \in Int
<1>1. PICK g \in [SUBSET S -> Int] : GivesSums(f, S, g)
  BY SumIs
<1> QED
  BY <1>1 DEF GivesSums

(* A sum is one of its terms and the sum of the others.                    *)
LEMMA SumRemove ==
  ASSUME NEW S, IsFiniteSet(S), NEW f, \A x \in S : f[x] \in Int, NEW x \in S
  PROVE  SumFunctionOnSet(f, S) = f[x] + SumFunctionOnSet(f, S \ {x})
<1>1. PICK g \in [SUBSET S -> Int] : GivesSums(f, S, g)
  BY SumIs
<1>2. g[S] = f[x] + g[S \ {x}]
  BY <1>1 DEF GivesSums, SumsUp
<1> QED
  BY <1>1, <1>2 DEF GivesSums

(* A term more.                                                            *)
LEMMA SumAdd ==
  ASSUME NEW S, IsFiniteSet(S), NEW x, x \notin S, NEW f,
         \A y \in S \union {x} : f[y] \in Int
  PROVE  SumFunctionOnSet(f, S \union {x}) = f[x] + SumFunctionOnSet(f, S)
<1>1. IsFiniteSet(S \union {x})
  BY FS_AddElement
<1>2. (S \union {x}) \ {x} = S
  OBVIOUS
<1> QED
  BY <1>1, <1>2, SumRemove

(* Of two functions, one nowhere above the other, the sums compare so;     *)
(* functions that are the same on the set have the same sum.               *)
LEMMA SumMonotone ==
  ASSUME NEW S, IsFiniteSet(S), NEW f, NEW h,
         \A x \in S : f[x] \in Int /\ h[x] \in Int /\ f[x] =< h[x]
  PROVE  SumFunctionOnSet(f, S) =< SumFunctionOnSet(h, S)
<1> DEFINE P == {s \in SUBSET S : SumFunctionOnSet(f, s) =< SumFunctionOnSet(h, s)}
<1>1. {} \in P
  BY SumEmpty
<1>2. ASSUME NEW s \in P, NEW x \in S
      PROVE  s \union {x} \in P
  <2>1. IsFiniteSet(s)
    BY FS_Subset
  <2>2. CASE x \in s
    <3>1. s \union {x} = s
      BY <2>2
    <3> QED
      BY <3>1
  <2>3. CASE x \notin s
    <3>1. /\ SumFunctionOnSet(f, s \union {x}) = f[x] + SumFunctionOnSet(f, s)
          /\ SumFunctionOnSet(h, s \union {x}) = h[x] + SumFunctionOnSet(h, s)
      BY <2>1, <2>3, SumAdd
    <3>2. SumFunctionOnSet(f, s) \in Int /\ SumFunctionOnSet(h, s) \in Int
      BY <2>1, SumType
    <3> QED
      BY <3>1, <3>2
  <2> QED
    BY <2>2, <2>3
<1>3. S \in P
  <2> HIDE DEF P
  <2>1. P \in SUBSET (SUBSET S)
    BY DEF P
  <2> QED
    BY <1>1, <1>2, <2>1, SubsetInduction
<1> QED
  BY <1>3

(* A sum depends on its terms alone.                                       *)
LEMMA SumEqual ==
  ASSUME NEW S, IsFiniteSet(S), NEW f, NEW h,
         \A x \in S : f[x] \in Int /\ h[x] = f[x]
  PROVE  SumFunctionOnSet(f, S) = SumFunctionOnSet(h, S)
<1>1. SumFunctionOnSet(f, S) =< SumFunctionOnSet(h, S)
  BY SumMonotone
<1>2. SumFunctionOnSet(h, S) =< SumFunctionOnSet(f, S)
  BY SumMonotone
<1> QED
  BY <1>1, <1>2, SumType

(* A part of a sum whose terms are not negative.                           *)
LEMMA SumPart ==
  ASSUME NEW S, IsFiniteSet(S), NEW A \in SUBSET S, NEW f, \A x \in S : f[x] \in Nat
  PROVE  /\ SumFunctionOnSet(f, A) \in Int
         /\ SumFunctionOnSet(f, A) =< SumFunctionOnSet(f, S)
<1> DEFINE R == S \ A
           P == {s \in SUBSET R : SumFunctionOnSet(f, A) =< SumFunctionOnSet(f, A \union s)}
<1>1. IsFiniteSet(A) /\ IsFiniteSet(R) /\ \A s \in SUBSET R : IsFiniteSet(A \union s)
  BY FS_Subset
<1>2. \A s \in SUBSET R : SumFunctionOnSet(f, A \union s) \in Int
  BY <1>1, SumType
<1>3. SumFunctionOnSet(f, A) \in Int
  BY <1>1, SumType
<1>4. {} \in P
  <2>1. A \union {} = A
    OBVIOUS
  <2> QED
    BY <1>3, <2>1
<1>5. ASSUME NEW s \in P, NEW x \in R
      PROVE  s \union {x} \in P
  <2>1. CASE x \in s
    <3>1. s \union {x} = s
      BY <2>1
    <3> QED
      BY <1>5, <3>1
  <2>2. CASE x \notin s
    <3> DEFINE t == A \union s
    <3>1. IsFiniteSet(t) /\ x \notin t /\ \A y \in t \union {x} : f[y] \in Int
      BY <1>1, <1>5, <2>2
    <3>2. t \union {x} = A \union (s \union {x})
      OBVIOUS
    <3>3. SumFunctionOnSet(f, A) =< SumFunctionOnSet(f, t) /\ SumFunctionOnSet(f, t) \in Int
      BY <1>2, <1>5
    <3> HIDE DEF t
    <3>4. SumFunctionOnSet(f, t \union {x}) = f[x] + SumFunctionOnSet(f, t)
      BY <3>1, SumAdd
    <3>5. SumFunctionOnSet(f, A) =< SumFunctionOnSet(f, t \union {x})
      BY <1>3, <1>5, <3>3, <3>4
    <3>6. s \union {x} \in SUBSET R
      BY <1>5
    <3> QED
      BY <3>2, <3>5, <3>6
  <2> QED
    BY <2>1, <2>2
<1>6. R \in P
  <2>1. P \in SUBSET (SUBSET R)
    OBVIOUS
  <2> HIDE DEF P, R
  <2> QED
    BY <1>1, <1>4, <1>5, <2>1, SubsetInduction
<1>7. A \union R = S
  OBVIOUS
<1> QED
  BY <1>3, <1>6, <1>7

(* A sum over a sequence that grows by one.                                *)
LEMMA SumGrows ==
  ASSUME NEW n \in Nat, NEW g, NEW h, \A k \in 1..n : g[k] \in Int /\ h[k] = g[k],
         h[n + 1] \in Int
  PROVE  SumFunctionOnSet(h, 1..(n + 1)) = SumFunctionOnSet(g, 1..n) + h[n + 1]
<1>1. /\ IsFiniteSet(1..n) /\ n + 1 \notin 1..n /\ 1..(n + 1) = (1..n) \union {n + 1}
  <2>1. IsFiniteSet(1..n)
    BY FS_Interval
  <2> QED
    BY <2>1
<1>a. \A k \in (1..n) \union {n + 1} : h[k] \in Int
  OBVIOUS
<1>2. SumFunctionOnSet(h, (1..n) \union {n + 1}) = h[n + 1] + SumFunctionOnSet(h, 1..n)
  BY <1>1, <1>a, SumAdd
<1>3. SumFunctionOnSet(g, 1..n) = SumFunctionOnSet(h, 1..n)
  BY <1>1, SumEqual
<1>4. SumFunctionOnSet(g, 1..n) \in Int
  <2>1. \A k \in 1..n : g[k] \in Int
    OBVIOUS
  <2>2. IsFiniteSet(1..n)
    BY <1>1
  <2> QED
    BY ONLY <2>1, <2>2, SumType
<1>5. SumFunctionOnSet(h, 1..(n + 1)) = h[n + 1] + SumFunctionOnSet(g, 1..n)
  BY <1>1, <1>2, <1>3, Zenon
<1> QED
  BY <1>4, <1>5

(* One value changes.                                                      *)
LEMMA SumChange ==
  ASSUME NEW S, IsFiniteSet(S), NEW f, NEW h, NEW x \in S,
         \A y \in S : f[y] \in Int /\ h[y] \in Int /\ (y # x => h[y] = f[y])
  PROVE  SumFunctionOnSet(h, S) = SumFunctionOnSet(f, S) + h[x] - f[x]
<1>1. IsFiniteSet(S \ {x})
  BY FS_RemoveElement
<1>2. SumFunctionOnSet(h, S \ {x}) = SumFunctionOnSet(f, S \ {x})
  BY <1>1, SumEqual
<1>3. /\ SumFunctionOnSet(f, S) = f[x] + SumFunctionOnSet(f, S \ {x})
      /\ SumFunctionOnSet(h, S) = h[x] + SumFunctionOnSet(h, S \ {x})
  BY SumRemove
<1>4. SumFunctionOnSet(f, S \ {x}) \in Int
  BY <1>1, SumType
<1> QED
  BY <1>2, <1>3, <1>4
(* Numbers that are put in another order: as many of them are in a set.    *)
LEMMA Recount ==
  ASSUME NEW D, IsFiniteSet(D), NEW p \in Bijection(D, D), NEW A \in SUBSET D
  PROVE  /\ IsFiniteSet(A) /\ IsFiniteSet({i \in D : p[i] \in A})
         /\ Cardinality({i \in D : p[i] \in A}) = Cardinality(A)
<1> DEFINE B == {i \in D : p[i] \in A}
           f == [i \in B |-> p[i]]
<1>1. IsFiniteSet(A) /\ IsFiniteSet(B)
  BY FS_Subset
<1>2. f \in Injection(B, A)
  BY DEF Bijection, Injection, IsInjective
<1>3. f \in Surjection(B, A)
  BY DEF Bijection, Surjection
<1>4. ExistsBijection(B, A)
  BY <1>2, <1>3 DEF ExistsBijection, Bijection
<1> HIDE DEF B
<1>5. Cardinality(A) = Cardinality(B)
  BY <1>1, <1>4, FS_Bijection
<1> QED
  BY <1>1, <1>5 DEF B

(* And their sum is the same.                                              *)
LEMMA Resum ==
  ASSUME NEW D, IsFiniteSet(D), NEW p \in Bijection(D, D), NEW A \in SUBSET D,
         NEW f, NEW g, \A i \in D : f[i] \in Int /\ g[i] = f[p[i]]
  PROVE  SumFunctionOnSet(g, {i \in D : p[i] \in A}) = SumFunctionOnSet(f, A)
<1> DEFINE Of(a) == {i \in D : p[i] \in a}
           P == {a \in SUBSET A : SumFunctionOnSet(g, Of(a)) = SumFunctionOnSet(f, a)}
<1>1. {} \in P
  <2>1. Of({}) = {}
    OBVIOUS
  <2> QED
    BY <2>1, SumEmpty
<1>2. ASSUME NEW a \in P, NEW x \in A
      PROVE  a \union {x} \in P
  <2>1. CASE x \in a
    <3>1. a \union {x} = a
      BY <2>1
    <3> QED
      BY <3>1
  <2>2. CASE x \notin a
    <3>1. PICK y \in D : p[y] = x
      BY DEF Bijection, Surjection
    <3>2. \A i \in D : p[i] = x => i = y
      BY <3>1 DEF Bijection, Injection, IsInjective
    <3>3. Of(a \union {x}) = Of(a) \union {y} /\ y \notin Of(a)
      BY <2>2, <3>1, <3>2
    <3>4. IsFiniteSet(a) /\ IsFiniteSet(Of(a))
      BY FS_Subset
    <3>5. \A i \in Of(a) \union {y} : g[i] \in Int
      BY <3>1 DEF Bijection, Injection
    <3>6. \A i \in a \union {x} : f[i] \in Int
      OBVIOUS
    <3> HIDE DEF Of
    <3>7. /\ SumFunctionOnSet(g, Of(a) \union {y}) = g[y] + SumFunctionOnSet(g, Of(a))
          /\ SumFunctionOnSet(f, a \union {x}) = f[x] + SumFunctionOnSet(f, a)
      BY <2>2, <3>3, <3>4, <3>5, <3>6, SumAdd
    <3> QED
      BY <3>1, <3>3, <3>7
  <2> QED
    BY <2>1, <2>2
<1>3. A \in P
  <2> HIDE DEF P
  <2>1. P \in SUBSET (SUBSET A) /\ IsFiniteSet(A)
    BY FS_Subset DEF P
  <2> QED
    BY <1>1, <1>2, <2>1, SubsetInduction
<1> QED
  BY <1>3

-----------------------------------------------------------------------------
(* Folds over sequences.  A function is defined by recursion over the      *)
(* subsets of a finite set, if one member of each is picked and a step     *)
(* goes from the value of the rest to the value of the set.                *)
Follows(S, base, pick, step, g) ==
  \A s \in SUBSET S : g[s] = IF s = {} THEN base ELSE step[<<pick[s], g[s \ {pick[s]}]>>]

(* A function that is defined by recursion on finite sets, as the folds of *)
(* the community modules are, exists.                                      *)
LEMMA RecursionExists ==
  ASSUME NEW S, IsFiniteSet(S), NEW V, NEW base \in V, NEW step \in [S \X V -> V],
         NEW pick, \A s \in SUBSET S : s # {} => pick[s] \in s
  PROVE  \E g \in [SUBSET S -> V] : Follows(S, base, pick, step, g)
<1> DEFINE Value(g, s) == IF s = {} THEN base ELSE step[<<pick[s], g[s \ {pick[s]}]>>]
           Upto(n) == {g \in [SUBSET S -> V] : \A s \in SUBSET S :
                         Cardinality(s) =< n => g[s] = Value(g, s)}
           T == {n \in Nat : Upto(n) # {}}
<1>1. \A s \in SUBSET S : IsFiniteSet(s) /\ Cardinality(s) \in Nat /\ Cardinality(s) =< Cardinality(S)
  BY FS_Subset, FS_CardinalityType
<1>2. \A s \in SUBSET S : s # {} => /\ pick[s] \in S /\ s \ {pick[s]} \in SUBSET S
                                   /\ Cardinality(s \ {pick[s]}) = Cardinality(s) - 1
  BY <1>1, FS_RemoveElement
<1>3. \A s \in SUBSET S : Cardinality(s) =< 0 => s = {}
  BY <1>1, FS_EmptySet
<1>4. 0 \in T
  <2> DEFINE g == [s \in SUBSET S |-> base]
  <2>1. g \in Upto(0)
    BY <1>1, <1>3
  <2> QED
    BY <2>1
<1>5. ASSUME NEW n \in T PROVE n + 1 \in T
  <2>0. n \in Nat
    OBVIOUS
  <2>1. PICK g \in Upto(n) : TRUE
    OBVIOUS
  <2> DEFINE h == [s \in SUBSET S |-> Value(g, s)]
  <2>2. \A s \in SUBSET S : Value(g, s) \in V
    <3>1. \A s \in SUBSET S : s # {} => <<pick[s], g[s \ {pick[s]}]>> \in S \X V
      BY <1>2, <2>1
    <3> QED
      BY <3>1
  <2>3. h \in [SUBSET S -> V]
    <3> HIDE DEF Value
    <3> QED
      BY <2>2
  <2>4. ASSUME NEW s \in SUBSET S, Cardinality(s) =< n + 1, s # {}
        PROVE  h[s] = Value(h, s)
    <3> DEFINE t == s \ {pick[s]}
    <3>1. t \in SUBSET S /\ Cardinality(t) =< n
      BY <1>1, <1>2, <2>0, <2>4
    <3>2. g[t] = Value(g, t)
      <4> HIDE DEF Value, t, h
      <4> QED
        BY <2>1, <3>1
    <3>3. h[t] = Value(g, t)
      <4> HIDE DEF Value, t
      <4> QED
        BY <3>1
    <3> QED
      BY <3>2, <3>3, <2>4
  <2>5. \A s \in SUBSET S : s = {} => h[s] = Value(h, s)
    OBVIOUS
  <2>6. h \in Upto(n + 1)
    <3> HIDE DEF h, Value
    <3>1. \A s \in SUBSET S : Cardinality(s) =< n + 1 => h[s] = Value(h, s)
      BY <2>4, <2>5
    <3> QED
      BY <2>3, <3>1
  <2>7. n + 1 \in Nat
    BY <2>0
  <2> HIDE DEF Upto, h
  <2> QED
    BY <2>6, <2>7
<1>6. T = Nat
  <2> HIDE DEF T
  <2>1. T \in SUBSET Nat
    BY DEF T
  <2> QED
    BY <1>4, <1>5, <2>1, Induction
<1>7. PICK g \in Upto(Cardinality(S)) : TRUE
  BY <1>1, <1>6
<1>8. \A s \in SUBSET S : g[s] = Value(g, s)
  <2> HIDE DEF Value
  <2> QED
    BY <1>1, <1>7
<1> QED
  BY <1>7, <1>8 DEF Follows

(* The greatest member, which the fold of a sequence picks, and the least. *)
LEMMA MaxIsMember ==
  ASSUME NEW S \in SUBSET Int, IsFiniteSet(S), S # {}
  PROVE  Max(S) \in S /\ \A y \in S : Max(S) >= y
<1> DEFINE P == {s \in SUBSET S : s = {} \/ \E x \in s : \A y \in s : x >= y}
<1>1. ASSUME NEW s \in P, NEW z \in S
      PROVE  s \union {z} \in P
  <2>1. CASE s = {}
    BY <2>1
  <2>2. CASE s # {}
    <3>1. PICK x \in s : \A y \in s : x >= y
      BY <2>2
    <3>2. CASE z > x
      <4>1. \A y \in s \union {z} : z >= y
        BY <3>1, <3>2
      <4> QED
        BY <4>1
    <3>3. CASE ~(z > x)
      <4>1. \A y \in s \union {z} : x >= y
        BY <3>1, <3>3
      <4> QED
        BY <4>1
    <3> QED
      BY <3>2, <3>3
  <2> QED
    BY <2>1, <2>2
<1>2. {} \in P
  OBVIOUS
<1>3. S \in P
  <2> HIDE DEF P
  <2>1. P \in SUBSET (SUBSET S)
    BY DEF P
  <2> QED
    BY <1>1, <1>2, <2>1, SubsetInduction
<1>4. \E x \in S : \A y \in S : x >= y
  BY <1>3
<1> QED
  BY <1>4 DEF Max

(* The least number of a set.                                              *)
LEMMA MinIsMember ==
  ASSUME NEW S \in SUBSET Nat, S # {}
  PROVE  Min(S) \in S /\ \A y \in S : Min(S) =< y
<1>1. \E x \in S : \A y \in S : ~(<<y, x>> \in OpToRel(<, Nat))
  BY WFMin, NatLessThanWellFounded, Zenon
<1>2. PICK x \in S : \A y \in S : ~(<<y, x>> \in OpToRel(<, Nat))
  BY <1>1, Zenon
<1>3. x \in S /\ \A y \in S : ~(y < x)
  BY <1>2, Zenon DEF OpToRel
<1>4. \A y \in S : x =< y
  BY <1>3
<1> QED
  BY <1>3, <1>4 DEF Min
==============================================================================
