----------------------- MODULE KnowledgeGraph_proofs -----------------------
(***************************************************************************)
(* Proofs about KnowledgeGraph and its DocumentMap, for every package and  *)
(* project, every min_run, all tables of codes and whatever the matcher    *)
(* and the model answer.                                                   *)
(***************************************************************************)
EXTENDS KnowledgeGraph, FiniteSetTheorems, WellFoundedInduction, SequenceTheorems, TLAPS

\* Every nonempty set of natural numbers has a least element.
LEMMA LeastNat ==
  ASSUME NEW T, T \subseteq Nat, T # {}
  PROVE  \E x \in T : \A y \in T : x <= y
<1>1. PICK x \in T : \A y \in T : ~(<<y, x>> \in OpToRel(<, Nat))
  BY WFMin, NatLessThanWellFounded
<1>2. \A y \in T : ~(y < x)
  BY <1>1 DEF OpToRel
<1> QED
  BY <1>2

\* Max of a finite set of natural numbers is an element no other exceeds: one
\* with the fewest above it.
LEMMA MaxOfFinite ==
  ASSUME NEW S, IsFiniteSet(S), S \subseteq Nat, S # {}
  PROVE  Max(S) \in S /\ \A x \in S : x <= Max(S)
<1> DEFINE Above(x) == {y \in S : y > x}
           Sizes == {Cardinality(Above(x)) : x \in S}
<1>1. \A x \in S : IsFiniteSet(Above(x)) /\ Cardinality(Above(x)) \in Nat
  BY FS_Subset, FS_CardinalityType
<1>2. Sizes # {} /\ Sizes \subseteq Nat
  BY <1>1
<1>3. PICK n \in Sizes : \A m \in Sizes : n <= m
  <2> HIDE DEF Sizes
  <2> QED
    BY <1>2, LeastNat
<1>4. PICK x \in S : Cardinality(Above(x)) = n
  OBVIOUS
<1>5. ASSUME NEW y \in S PROVE x >= y
  <2>1. SUFFICES ASSUME y > x PROVE FALSE
    OBVIOUS
  <2>2. Above(y) \in SUBSET Above(x) /\ y \in Above(x) /\ y \notin Above(y)
    <3>1. \A z \in S : z > y => z > x
      BY <2>1
    <3>2. ~(y > y)
      OBVIOUS
    <3> QED
      BY <2>1, <3>1, <3>2
  <2>3. Cardinality(Above(y)) <= Cardinality(Above(x))
        /\ Cardinality(Above(y)) # Cardinality(Above(x))
    <3> HIDE DEF Above
    <3> QED
      BY <1>1, <2>2, FS_Subset
  <2>4. n <= Cardinality(Above(y))
    BY <1>3
  <2> HIDE DEF Above, Sizes
  <2> QED
    BY <1>1, <1>4, <2>3, <2>4
<1>6. Max(S) \in S /\ \A y \in S : Max(S) >= y
  BY <1>5 DEF Max
<1> QED
  BY <1>6

-----------------------------------------------------------------------------
(***************************************************************************)
(* Segmentation: its inductive invariant                                   *)
(***************************************************************************)

\* The kinds of pages and the regions.
PageKinds == {"manual", "drawings"}
Regions == [kind : PageKinds \cup {"front_matter"}, file : Nat, first : Nat, last : Nat]

\* The package and the regions are well formed, and all files are segmented when
\* the next phase begins.
Mapped ==
  /\ package \in Packages
  /\ regions \in Seq(Regions)
  /\ Segmented \subseteq DOMAIN package
  /\ mapping # "segment" => Segmented = DOMAIN package /\ kinds = <<>>

\* The first and last places of the runs.
AtEdge(s, i) == i = 1 \/ i = Len(s) \/ s[i - 1] # s[i] \/ s[i + 1] # s[i]

LongRuns(f) == {u \in Runs(Provisional(f)) : PageCount(u) >= MinRun}

\* However strays were absorbed, the pages at the edges of a run and those of a
\* long run have the kind of their class.
KindsAreKept ==
  kinds # <<>> =>
    /\ Current \in DOMAIN package \ Segmented
    /\ kinds \in [DOMAIN package[Current] -> PageKinds]
    /\ \A i \in DOMAIN kinds : AtEdge(kinds, i) => kinds[i] = Provisional(Current)[i]
    /\ \A u \in LongRuns(Current) : \A i \in u[1] .. u[2] : kinds[i] = Provisional(Current)[u[1]]

\* A region begins and ends with pages of its class.
Fits(r) ==
  /\ r.first \in 1 .. r.last /\ r.last \in DOMAIN package[r.file]
  /\ \A i \in {r.first, r.last} :
       (ProvisionalKind(package[r.file][i]) = "drawings") <=> (r.kind = "drawings")

\* The regions of a file are in order, without a gap, and differ where they touch.
RegionsAreOrdered ==
  \A k, l \in DOMAIN regions : regions[k].file = regions[l].file =>
    /\ k < l => /\ regions[k].last < regions[l].first
                /\ l = k + 1 => regions[l].first = regions[k].last + 1
    /\ regions[l].first = regions[k].last + 1 => regions[k].kind # regions[l].kind

\* Every page of a file is in a region, its long runs in one of their kind.
Covered(f) ==
  /\ \A i \in DOMAIN package[f] : \E k \in DOMAIN regions : Holds(regions[k], f, i)
  /\ \A u \in LongRuns(f) : \E k \in DOMAIN regions :
       /\ Holds(regions[k], f, u[1]) /\ Holds(regions[k], f, u[2])
       /\ regions[k].kind = Provisional(f)[u[1]]

RegionsAreTiles ==
  /\ \A k \in DOMAIN regions : Fits(regions[k])
  /\ RegionsAreOrdered
  /\ \A f \in Segmented : Covered(f)

SegmentInv == Mapped /\ KindsAreKept /\ RegionsAreTiles

-----------------------------------------------------------------------------
(***************************************************************************)
(* Runs and ranks                                                          *)
(***************************************************************************)

\* Ranked counts a finite set of numbers upwards, and misses none.
LEMMA RankedIs ==
  ASSUME NEW S, S \subseteq Nat, IsFiniteSet(S)
  PROVE  /\ \A k \in 1 .. Cardinality(S) : Ranked(S, k) \in S
         /\ \A k, l \in 1 .. Cardinality(S) : k < l => Ranked(S, k) < Ranked(S, l)
         /\ \A x \in S : \E k \in 1 .. Cardinality(S) : Ranked(S, k) = x
         /\ \A k, l \in 1 .. Cardinality(S) : l = k + 1 =>
              \A x \in S : ~(Ranked(S, k) < x /\ x < Ranked(S, l))
<1> DEFINE Upto(x) == {y \in S : y <= x}
           rank == [x \in S |-> Cardinality(Upto(x))]
<1>1. Cardinality(S) \in Nat /\ rank \in [S -> 1 .. Cardinality(S)]
  <2> SUFFICES ASSUME NEW x \in S PROVE Cardinality(S) \in Nat /\ rank[x] \in 1 .. Cardinality(S)
    BY FS_CardinalityType
  <2>1. Upto(x) \subseteq S /\ x \in Upto(x)
    OBVIOUS
  <2> HIDE DEF Upto
  <2>2. IsFiniteSet(Upto(x)) /\ Cardinality(Upto(x)) \in Nat /\ Cardinality(Upto(x)) <= Cardinality(S)
        /\ Cardinality(S) \in Nat
    BY <2>1, FS_Subset, FS_CardinalityType
  <2>3. Cardinality(Upto(x)) # 0
    BY <2>1, <2>2, FS_EmptySet
  <2> QED
    BY <2>2, <2>3
<1>2. \A x, y \in S : x < y => rank[x] < rank[y]
  <2> SUFFICES ASSUME NEW x \in S, NEW y \in S, x < y PROVE rank[x] < rank[y]
    OBVIOUS
  <2>1. x \in Nat /\ y \in Nat
    OBVIOUS
  <2>2. Upto(x) \subseteq Upto(y) /\ y \in Upto(y) /\ y \notin Upto(x) /\ Upto(y) \subseteq S
    <3>1. \A z \in S : z <= x => z <= y
      BY <2>1
    <3>2. y <= y /\ ~(y <= x)
      BY <2>1
    <3> QED
      BY <3>1, <3>2
  <2>3. rank[x] = Cardinality(Upto(x)) /\ rank[y] = Cardinality(Upto(y))
    OBVIOUS
  <2> HIDE DEF Upto, rank
  <2>4. IsFiniteSet(Upto(x)) /\ IsFiniteSet(Upto(y)) /\ Upto(x) # Upto(y)
    BY <2>2, FS_Subset
  <2>5. Cardinality(Upto(x)) \in Nat /\ Cardinality(Upto(y)) \in Nat
        /\ Cardinality(Upto(x)) <= Cardinality(Upto(y))
        /\ Cardinality(Upto(x)) # Cardinality(Upto(y))
    BY <2>2, <2>4, FS_Subset, FS_CardinalityType
  <2> QED
    BY <2>3, <2>5
<1>3. \A k \in 1 .. Cardinality(S) : \E x \in S : rank[x] = k
  <2> SUFFICES ASSUME NEW k \in 1 .. Cardinality(S) PROVE \E x \in S : rank[x] = k
    OBVIOUS
  <2> DEFINE T == {x \in S : rank[x] >= k}
  <2>1. S # {}
    BY <1>1, FS_EmptySet
  <2>2. T # {}
    <3>1. PICK m \in S : \A x \in S : x <= m
      BY <2>1, MaxOfFinite
    <3>2. Upto(m) = S
      BY <3>1
    <3>3. rank[m] = Cardinality(S)
      BY <3>2
    <3> HIDE DEF rank
    <3> QED
      BY <1>1, <3>1, <3>3
  <2>3. PICK x \in T : \A y \in T : x <= y
    <3>1. T \subseteq Nat
      OBVIOUS
    <3> HIDE DEF T
    <3> QED
      BY <2>2, <3>1, LeastNat
  <2>4. x \in S /\ rank[x] >= k /\ x \in Nat
    BY <2>3
  <2>5. rank[x] <= k
    <3> SUFFICES ASSUME rank[x] > k PROVE FALSE
      <4> HIDE DEF rank
      <4> QED
        BY <1>1, <2>4
    <3> DEFINE B == Upto(x) \ {x}
    <3>1. x \in Upto(x) /\ Upto(x) \subseteq S /\ rank[x] = Cardinality(Upto(x))
      BY <2>4
    <3>2. IsFiniteSet(B) /\ Cardinality(B) = rank[x] - 1
      <4> HIDE DEF Upto, rank
      <4> QED
        BY <3>1, FS_Subset, FS_RemoveElement
    <3>3. Cardinality(B) >= k /\ Cardinality(B) # 0
      <4> HIDE DEF rank, B
      <4> QED
        BY <1>1, <2>4, <3>2
    <3>4. B # {} /\ B \subseteq Nat
      BY <3>3, FS_EmptySet
    <3>5. PICK b \in B : \A y \in B : y <= b
      <4> HIDE DEF B
      <4> QED
        BY <3>2, <3>4, MaxOfFinite
    <3>6. b \in S /\ b \in Nat /\ b < x
      BY <3>5, <2>4
    <3>7. Upto(b) = B
      <4>1. \A z \in S : z \in Nat
        OBVIOUS
      <4>2. \A z \in S : z <= b => z <= x /\ z # x
        BY <2>4, <3>6, <4>1
      <4>3. \A z \in S : (z <= x /\ z # x) => z <= b
        BY <3>5
      <4> QED
        BY <4>2, <4>3
    <3>8. rank[b] = Cardinality(B)
      BY <3>6, <3>7
    <3>9. b \in T
      <4> HIDE DEF rank, B
      <4> QED
        BY <3>3, <3>6, <3>8
    <3> HIDE DEF T
    <3> QED
      BY <2>3, <2>4, <3>6, <3>9
  <2> HIDE DEF rank
  <2> QED
    BY <1>1, <2>4, <2>5
<1>4. \A k \in 1 .. Cardinality(S) : Ranked(S, k) \in S /\ rank[Ranked(S, k)] = k
  BY <1>3 DEF Ranked
<1> HIDE DEF rank
<1>5. \A x, y \in S : rank[x] < rank[y] => x < y
  <2>1. \A x, y \in S : x = y \/ x < y \/ y < x
    OBVIOUS
  <2> QED
    BY <1>1, <1>2, <2>1
<1>6. \A x, y \in S : rank[x] = rank[y] => x = y
  <2>1. \A x, y \in S : x = y \/ x < y \/ y < x
    OBVIOUS
  <2> QED
    BY <1>1, <1>2, <2>1
<1>7. \A k, l \in 1 .. Cardinality(S) : k < l => Ranked(S, k) < Ranked(S, l)
  <2> SUFFICES ASSUME NEW k \in 1 .. Cardinality(S), NEW l \in 1 .. Cardinality(S), k < l
               PROVE  Ranked(S, k) < Ranked(S, l)
    OBVIOUS
  <2>1. rank[Ranked(S, k)] < rank[Ranked(S, l)]
    BY <1>4
  <2> QED
    BY <1>4, <1>5, <2>1
<1>8. \A x \in S : \E k \in 1 .. Cardinality(S) : Ranked(S, k) = x
  BY <1>1, <1>4, <1>6
<1>9. \A k, l \in 1 .. Cardinality(S) : l = k + 1 =>
        \A x \in S : ~(Ranked(S, k) < x /\ x < Ranked(S, l))
  <2> SUFFICES ASSUME NEW k \in 1 .. Cardinality(S), NEW l \in 1 .. Cardinality(S), l = k + 1, NEW x \in S,
                      Ranked(S, k) < x, x < Ranked(S, l)
               PROVE  FALSE
    OBVIOUS
  <2>1. rank[Ranked(S, k)] < rank[x] /\ rank[x] < rank[Ranked(S, l)]
    BY <1>2, <1>4
  <2> QED
    BY <1>1, <1>4, <2>1
<1> QED
  BY <1>4, <1>7, <1>8, <1>9

\* What a run is.
LEMMA RunIs ==
  ASSUME NEW s, NEW n \in Nat, DOMAIN s = 1 .. n, Len(s) = n, NEW r \in Runs(s)
  PROVE  /\ r = <<r[1], r[2]>> /\ r[1] \in 1 .. n /\ r[2] \in 1 .. n /\ r[1] <= r[2]
         /\ \A i \in r[1] .. r[2] : s[i] = s[r[1]]
         /\ r[1] = 1 \/ s[r[1] - 1] # s[r[1]]
         /\ r[2] = n \/ s[r[2] + 1] # s[r[2]]
BY DEF Runs

\* A run begins wherever the value changes.
LEMMA RunFrom ==
  ASSUME NEW s, NEW n \in Nat, DOMAIN s = 1 .. n, Len(s) = n,
         NEW i \in 1 .. n, i = 1 \/ s[i - 1] # s[i]
  PROVE  \E r \in Runs(s) : r[1] = i
<1> DEFINE T == {e \in i .. n : \A k \in i .. e : s[k] = s[i]}
<1>1. i \in T
  OBVIOUS
<1>2. PICK e \in T : \A d \in T : d <= e
  <2>1. IsFiniteSet(T) /\ T \subseteq Nat
    <3>1. IsFiniteSet(i .. n)
      BY FS_Interval
    <3> QED
      BY <3>1, FS_Subset
  <2> HIDE DEF T
  <2> QED
    BY <1>1, <2>1, MaxOfFinite
<1>3. e \in i .. n /\ \A k \in i .. e : s[k] = s[i]
  BY <1>2
<1>4. e = n \/ s[e + 1] # s[e]
  <2> SUFFICES ASSUME e # n, s[e + 1] = s[e] PROVE FALSE
    OBVIOUS
  <2>1. e + 1 \in i .. n /\ s[e] = s[i]
    BY <1>3
  <2>2. \A k \in i .. e + 1 : s[k] = s[i]
    <3> SUFFICES ASSUME NEW k \in i .. e + 1 PROVE s[k] = s[i]
      OBVIOUS
    <3>1. k = e + 1 \/ k \in i .. e
      BY <1>3
    <3> QED
      BY <1>3, <2>1, <3>1
  <2>3. e + 1 \in T
    BY <2>1, <2>2
  <2> HIDE DEF T
  <2> QED
    BY <1>2, <1>3, <2>3
<1>5. <<i, e>> \in Runs(s)
  BY <1>3, <1>4 DEF Runs
<1> QED
  BY <1>5

\* Every place is in a run.
LEMMA RunOver ==
  ASSUME NEW s, NEW n \in Nat, DOMAIN s = 1 .. n, Len(s) = n, NEW i \in 1 .. n
  PROVE  \E r \in Runs(s) : r[1] <= i /\ i <= r[2]
<1> DEFINE T == {b \in 1 .. i : \A k \in b .. i : s[k] = s[i]}
<1>1. i \in T
  OBVIOUS
<1>2. PICK b \in T : \A c \in T : b <= c
  <2>1. T \subseteq Nat
    OBVIOUS
  <2> HIDE DEF T
  <2> QED
    BY <1>1, <2>1, LeastNat
<1>3. b \in 1 .. i /\ b \in 1 .. n /\ \A k \in b .. i : s[k] = s[i]
  BY <1>2
<1>4. b = 1 \/ s[b - 1] # s[b]
  <2> SUFFICES ASSUME b # 1, s[b - 1] = s[b] PROVE FALSE
    OBVIOUS
  <2>1. b - 1 \in 1 .. i /\ s[b] = s[i]
    BY <1>3
  <2>2. \A k \in b - 1 .. i : s[k] = s[i]
    <3> SUFFICES ASSUME NEW k \in b - 1 .. i PROVE s[k] = s[i]
      OBVIOUS
    <3>1. k = b - 1 \/ k \in b .. i
      BY <1>3
    <3> QED
      BY <1>3, <2>1, <3>1
  <2>3. b - 1 \in T
    BY <2>1, <2>2
  <2> HIDE DEF T
  <2> QED
    BY <1>2, <1>3, <2>3
<1>5. PICK r \in Runs(s) : r[1] = b
  BY <1>3, <1>4, RunFrom
<1>6. r[2] \in 1 .. n /\ (r[2] = n \/ s[r[2] + 1] # s[r[2]]) /\ r[1] <= r[2]
  BY RunIs
<1>7. r[2] >= i
  <2> SUFFICES ASSUME r[2] < i PROVE FALSE
    BY <1>6
  <2>1. r[2] \in b .. i /\ r[2] + 1 \in b .. i /\ r[2] # n
    BY <1>3, <1>5, <1>6
  <2> QED
    BY <1>3, <1>6, <2>1
<1> QED
  BY <1>3, <1>5, <1>7

\* Runs do not meet, and change the value where they touch.
LEMMA RunsApart ==
  ASSUME NEW s, NEW n \in Nat, DOMAIN s = 1 .. n, Len(s) = n,
         NEW r \in Runs(s), NEW o \in Runs(s), r[1] <= o[1]
  PROVE  /\ r = o \/ r[2] < o[1]
         /\ o[1] = r[2] + 1 => s[r[1]] # s[o[1]]
<1>1. /\ r = <<r[1], r[2]>> /\ r[1] \in 1 .. n /\ r[2] \in 1 .. n /\ r[1] <= r[2]
      /\ \A i \in r[1] .. r[2] : s[i] = s[r[1]]
      /\ r[2] = n \/ s[r[2] + 1] # s[r[2]]
  BY RunIs
<1>2. /\ o = <<o[1], o[2]>> /\ o[1] \in 1 .. n /\ o[2] \in 1 .. n /\ o[1] <= o[2]
      /\ \A i \in o[1] .. o[2] : s[i] = s[o[1]]
      /\ o[1] = 1 \/ s[o[1] - 1] # s[o[1]]
      /\ o[2] = n \/ s[o[2] + 1] # s[o[2]]
  BY RunIs, SMTT(30)
<1>3. ASSUME o[1] <= r[2] PROVE r = o
  <2>1. o[1] = r[1]
    <3> SUFFICES ASSUME r[1] < o[1] PROVE FALSE
      BY <1>1, <1>2
    <3>1. o[1] \in r[1] .. r[2] /\ o[1] - 1 \in r[1] .. r[2] /\ o[1] # 1
      BY <1>1, <1>2, <1>3
    <3> QED
      BY <1>1, <1>2, <3>1
  <2>2. ~(r[2] < o[2])
    <3> SUFFICES ASSUME r[2] < o[2] PROVE FALSE
      OBVIOUS
    <3>1. r[2] + 1 \in o[1] .. o[2] /\ r[2] \in o[1] .. o[2] /\ r[2] # n
      BY <1>1, <1>2, <2>1
    <3> QED
      BY <1>1, <1>2, <3>1
  <2>3. ~(o[2] < r[2])
    <3> SUFFICES ASSUME o[2] < r[2] PROVE FALSE
      OBVIOUS
    <3>1. o[2] + 1 \in r[1] .. r[2] /\ o[2] \in r[1] .. r[2] /\ o[2] # n
      BY <1>1, <1>2, <2>1
    <3> QED
      BY <1>1, <1>2, <3>1
  <2>4. r[2] = o[2]
    BY <1>1, <1>2, <2>2, <2>3
  <2> QED
    BY <1>1, <1>2, <2>1, <2>4
<1>4. ASSUME o[1] = r[2] + 1 PROVE s[r[1]] # s[o[1]]
  <2>1. r[2] # n /\ r[2] \in r[1] .. r[2]
    BY <1>1, <1>2, <1>4
  <2> QED
    BY <1>1, <1>4, <2>1
<1> QED
  BY <1>1, <1>2, <1>3, <1>4

\* The first places of the runs.
LEMMA StartsAre ==
  ASSUME NEW s, NEW n \in Nat, DOMAIN s = 1 .. n, Len(s) = n
  PROVE  /\ Starts(s) \subseteq Nat /\ IsFiniteSet(Starts(s))
         /\ \A i \in Starts(s) : RunAt(s, i) \in Runs(s) /\ RunAt(s, i)[1] = i
         /\ n > 0 => Starts(s) # {}
<1>1. Starts(s) \subseteq 1 .. n
  BY RunIs DEF Starts
<1>2. IsFiniteSet(1 .. n)
  BY FS_Interval
<1>3. IsFiniteSet(Starts(s)) /\ Starts(s) \subseteq Nat
  BY <1>1, <1>2, FS_Subset
<1>4. \A i \in Starts(s) : RunAt(s, i) \in Runs(s) /\ RunAt(s, i)[1] = i
  BY DEF Starts, RunAt
<1>5. n > 0 => Starts(s) # {}
  <2>1. n > 0 => 1 \in 1 .. n
    OBVIOUS
  <2> QED
    BY <2>1, RunFrom DEF Starts
<1> QED
  BY <1>3, <1>4, <1>5

\* A region is a run, of the run's kind unless it is front matter.
LEMMA RegionIs ==
  ASSUME NEW n \in Nat, DOMAIN kinds = 1 .. n, Len(kinds) = n,
         \A i \in 1 .. n : kinds[i] \in PageKinds, NEW f \in Nat, NEW r \in Runs(kinds)
  PROVE  /\ RegionOf(f, r) \in Regions
         /\ RegionOf(f, r).file = f /\ RegionOf(f, r).first = r[1] /\ RegionOf(f, r).last = r[2]
         /\ RegionOf(f, r).kind = "drawings" <=> kinds[r[1]] = "drawings"
         /\ PageCount(r) >= MinRun => RegionOf(f, r).kind = kinds[r[1]]
<1>1. r[1] \in 1 .. n /\ r[2] \in 1 .. n
  BY RunIs
<1>2. kinds[r[1]] \in PageKinds
  BY <1>1
<1>3. IsFrontMatter(package[f], r) => kinds[r[1]] = "manual" /\ PageCount(r) < MinRun
  BY DEF IsFrontMatter
<1>4. PageCount(r) \in Int /\ MinRun \in Nat
  BY <1>1, MinRunAssumption DEF PageCount
<1>5. /\ RegionOf(f, r).file = f /\ RegionOf(f, r).first = r[1] /\ RegionOf(f, r).last = r[2]
      /\ RegionOf(f, r).kind = IF IsFrontMatter(package[f], r) THEN "front_matter" ELSE kinds[r[1]]
      /\ RegionOf(f, r) = [kind |-> RegionOf(f, r).kind, file |-> f, first |-> r[1], last |-> r[2]]
  BY DEF RegionOf
<1> HIDE DEF PageKinds
<1>6. RegionOf(f, r).kind \in PageKinds \cup {"front_matter"}
  BY <1>2, <1>5
<1>7. RegionOf(f, r) \in Regions
  BY <1>1, <1>5, <1>6 DEF Regions
<1> QED
  BY <1>2, <1>3, <1>4, <1>5, <1>7 DEF PageKinds

\* The regions of a file are its runs, in order and without a gap.
LEMMA FileRegionsAre ==
  ASSUME NEW n \in Nat \ {0}, DOMAIN kinds = 1 .. n, Len(kinds) = n,
         \A i \in 1 .. n : kinds[i] \in PageKinds, NEW f \in Nat
  PROVE  \E N \in Nat \ {0} :
           /\ FileRegions(f) \in Seq(Regions) /\ Len(FileRegions(f)) = N
           /\ \A k \in 1 .. N : \E r \in Runs(kinds) : FileRegions(f)[k] = RegionOf(f, r)
           /\ \A r \in Runs(kinds) : \E k \in 1 .. N : FileRegions(f)[k] = RegionOf(f, r)
           /\ \A k, l \in 1 .. N : k < l =>
                /\ FileRegions(f)[k].last < FileRegions(f)[l].first
                /\ l = k + 1 => FileRegions(f)[l].first = FileRegions(f)[k].last + 1
<1> DEFINE S == Starts(kinds)
           N == Cardinality(S)
           run == [k \in 1 .. N |-> RunAt(kinds, Ranked(S, k))]
           R == FileRegions(f)
<1>1. /\ S \subseteq Nat /\ IsFiniteSet(S) /\ S # {}
      /\ \A i \in S : RunAt(kinds, i) \in Runs(kinds) /\ RunAt(kinds, i)[1] = i
  BY StartsAre
<1>2. N \in Nat \ {0}
  BY <1>1, FS_CardinalityType, FS_EmptySet
<1>3. R = [k \in 1 .. N |-> RegionOf(f, run[k])]
  BY DEF FileRegions
<1> HIDE DEF S, R, run
<1>4. /\ \A k \in 1 .. N : Ranked(S, k) \in S
      /\ \A k, l \in 1 .. N : k < l => Ranked(S, k) < Ranked(S, l)
      /\ \A x \in S : \E k \in 1 .. N : Ranked(S, k) = x
      /\ \A k, l \in 1 .. N : l = k + 1 => \A x \in S : ~(Ranked(S, k) < x /\ x < Ranked(S, l))
  BY <1>1, RankedIs
<1> HIDE DEF N
<1>5. \A k \in 1 .. N : run[k] \in Runs(kinds) /\ run[k][1] = Ranked(S, k)
  BY <1>1, <1>4 DEF run
<1>6. \A r \in Runs(kinds) : r[1] \in S
  BY DEF S, Starts
<1>7. ASSUME NEW r \in Runs(kinds) PROVE \E k \in 1 .. N : run[k] = r
  <2>1. PICK k \in 1 .. N : run[k][1] = r[1]
    BY <1>4, <1>5, <1>6
  <2>2. run[k] \in Runs(kinds) /\ r[1] \in 1 .. n /\ r[1] <= r[2] /\ r[2] \in 1 .. n
    BY <1>5, RunIs
  <2>3. run[k][2] \in 1 .. n /\ run[k][1] <= run[k][2]
    BY <2>2, RunIs
  <2>4. run[k][1] <= r[1]
    BY <2>1, <2>2
  <2>5. run[k] = r \/ run[k][2] < r[1]
    BY <2>2, <2>4, RunsApart
  <2> QED
    BY <2>1, <2>2, <2>3, <2>5
<1>8. \A k \in 1 .. N : /\ R[k] = RegionOf(f, run[k]) /\ R[k] \in Regions
                        /\ R[k].first = run[k][1] /\ R[k].last = run[k][2]
  <2> SUFFICES ASSUME NEW k \in 1 .. N
               PROVE  /\ R[k] = RegionOf(f, run[k]) /\ R[k] \in Regions
                      /\ R[k].first = run[k][1] /\ R[k].last = run[k][2]
    OBVIOUS
  <2>1. R[k] = RegionOf(f, run[k]) /\ run[k] \in Runs(kinds)
    BY <1>3, <1>5
  <2>2. \A r \in Runs(kinds) :
          /\ RegionOf(f, r) \in Regions
          /\ RegionOf(f, r).first = r[1] /\ RegionOf(f, r).last = r[2]
    BY RegionIs
  <2> QED
    BY <2>1, <2>2, Zenon
<1>9. ASSUME NEW k \in 1 .. N, NEW l \in 1 .. N, k < l
      PROVE  /\ run[k][2] < run[l][1]
             /\ l = k + 1 => run[l][1] = run[k][2] + 1
  <2>1. /\ run[k] \in Runs(kinds) /\ run[l] \in Runs(kinds) /\ run[k][1] < run[l][1]
        /\ run[k][1] \in S /\ run[l][1] \in S
    BY <1>4, <1>5, <1>9
  <2>2. /\ run[k][1] \in 1 .. n /\ run[k][2] \in 1 .. n /\ run[k][1] <= run[k][2]
        /\ run[l][1] \in 1 .. n /\ run[l][2] \in 1 .. n
    BY <2>1, RunIs
  <2>3. run[k][1] <= run[l][1]
    BY <2>1, <2>2
  <2>4. run[k] = run[l] \/ run[k][2] < run[l][1]
    BY <2>1, <2>3, RunsApart
  <2>5. run[k][2] < run[l][1]
    BY <2>1, <2>2, <2>4
  <2>6. ASSUME l = k + 1, run[k][2] + 1 < run[l][1] PROVE FALSE
    <3> DEFINE m == run[k][2] + 1
    <3>1. m \in 1 .. n
      BY <2>2, <2>6
    <3>2. PICK o \in Runs(kinds) : o[1] <= m /\ m <= o[2]
      BY <3>1, RunOver
    <3>3. o[1] \in 1 .. n /\ o[2] \in 1 .. n /\ o[1] \in S
      BY <1>6, RunIs
    <3>4. ~(o[1] <= run[k][1])
      <4> SUFFICES ASSUME o[1] <= run[k][1] PROVE FALSE
        OBVIOUS
      <4>1. o = run[k] \/ o[2] < run[k][1]
        BY <2>1, RunsApart
      <4> QED
        BY <2>2, <3>2, <3>3, <4>1
    <3>5. run[k][1] < o[1] /\ o[1] < run[l][1]
      BY <2>2, <2>6, <3>2, <3>3, <3>4
    <3>6. ~(Ranked(S, k) < o[1] /\ o[1] < Ranked(S, l))
      BY <1>4, <2>6, <3>3
    <3> QED
      BY <1>5, <3>5, <3>6
  <2> QED
    BY <2>2, <2>5, <2>6
<1>10. R \in Seq(Regions) /\ Len(R) = N
  <2>1. R \in [1 .. N -> Regions]
    BY <1>3, <1>8
  <2> QED
    BY <1>2, <2>1, SeqDef
<1>11. \A r \in Runs(kinds) : \E k \in 1 .. N : R[k] = RegionOf(f, r)
  BY <1>7, <1>8
<1> QED
  BY <1>2, <1>5, <1>8, <1>9, <1>10, <1>11, SMTT(30) DEF R

-----------------------------------------------------------------------------
(***************************************************************************)
(* The steps of segmentation                                               *)
(***************************************************************************)

\* Files and pages are numbered.
LEMMA PackageIs ==
  ASSUME package \in Packages
  PROVE  /\ Len(package) \in Nat /\ DOMAIN package = 1 .. Len(package)
         /\ \A f \in DOMAIN package :
              Len(package[f]) \in Nat /\ DOMAIN package[f] = 1 .. Len(package[f])
<1>1. \A S : \A q \in Seq(S) : Len(q) \in Nat /\ DOMAIN q = 1 .. Len(q)
  OBVIOUS
<1>2. package \in Seq(ToSet(package)) /\ \A f \in DOMAIN package : package[f] \in Seq(ToSet(package[f]))
  BY PackagesAssumption
<1> QED
  BY <1>1, <1>2, Zenon

\* The kinds a file begins with.
LEMMA ProvisionalIs ==
  ASSUME package \in Packages, NEW f \in DOMAIN package
  PROVE  /\ Provisional(f) \in [DOMAIN package[f] -> PageKinds]
         /\ \A i \in DOMAIN package[f] : Provisional(f)[i] = ProvisionalKind(package[f][i])
         /\ Len(Provisional(f)) = Len(package[f])
<1>1. \A p : ProvisionalKind(p) \in PageKinds
  BY DEF ProvisionalKind, PageKinds
<1>2. Len(package[f]) \in Nat /\ DOMAIN package[f] = 1 .. Len(package[f])
  BY PackageIs
<1>3. /\ Provisional(f) \in [DOMAIN package[f] -> PageKinds]
      /\ \A i \in DOMAIN package[f] : Provisional(f)[i] = ProvisionalKind(package[f][i])
  <2> HIDE DEF PageKinds
  <2> QED
    BY <1>1 DEF Provisional
<1>4. Len(Provisional(f)) = Len(package[f])
  <2>1. DOMAIN Provisional(f) = 1 .. Len(package[f])
    BY <1>2, <1>3
  <2> QED
    BY <1>2, <2>1, LenProperties, <1>3
<1> QED
  BY <1>3, <1>4

\* There is a next file while some are left.
LEMMA CurrentIs ==
  ASSUME package \in Packages, Segmented \subseteq DOMAIN package, Segmented # DOMAIN package
  PROVE  Current \in DOMAIN package \ Segmented
<1> DEFINE T == DOMAIN package \ Segmented
<1>0. DOMAIN package = 1 .. Len(package) /\ Len(package) \in Nat
  BY PackageIs
<1>1. T # {} /\ T \subseteq Nat /\ DOMAIN package = 1 .. Len(package) /\ Len(package) \in Nat
  BY <1>0
<1>2. PICK f \in T : \A g \in T : f <= g
  <2> HIDE DEF T
  <2> QED
    BY <1>1, LeastNat
<1>3. \A g \in 1 .. f - 1 : g \in Segmented
  <2> SUFFICES ASSUME NEW g \in 1 .. f - 1, g \notin Segmented PROVE FALSE
    OBVIOUS
  <2>1. f \in 1 .. Len(package)
    BY <1>1
  <2>2. g \in T /\ ~(f <= g)
    BY <1>1, <2>1
  <2> HIDE DEF T
  <2> QED
    BY <1>2, <2>2
<1>4. \E h \in DOMAIN package : h \notin Segmented /\ \A g \in 1 .. h - 1 : g \in Segmented
  BY <1>2, <1>3
<1> QED
  BY <1>4 DEF Current

\* The leftmost stray is a stray.
LEMMA FirstStray ==
  ASSUME NEW s, NEW n \in Nat, DOMAIN s = 1 .. n, Len(s) = n, Strays(s) # {}
  PROVE  First(Strays(s)) \in Strays(s)
<1> DEFINE T == {r[1] : r \in Strays(s)}
<1>1. T \subseteq Nat /\ T # {}
  <2>1. \A r \in Strays(s) : r \in Runs(s)
    BY DEF Strays
  <2>2. \A r \in Strays(s) : r[1] \in Nat
    BY <2>1, RunIs
  <2> QED
    BY <2>2
<1>2. PICK b \in T : \A c \in T : b <= c
  <2> HIDE DEF T
  <2> QED
    BY <1>1, LeastNat
<1>3. PICK r \in Strays(s) : r[1] = b
  BY <1>2
<1>4. \A o \in Strays(s) : r[1] <= o[1]
  BY <1>2, <1>3
<1> QED
  BY <1>4 DEF First

\* Tiles are about the package and the regions.
LEMMA TilesStay ==
  ASSUME RegionsAreTiles, UNCHANGED <<package, regions>>
  PROVE  RegionsAreTiles'
<1>1. Segmented' = Segmented
  BY DEF Segmented
<1>2. \A r : Fits(r)' <=> Fits(r)
  BY DEF Fits
<1>3. RegionsAreOrdered'
  BY DEF RegionsAreTiles, RegionsAreOrdered
<1>4. \A f : Covered(f)' <=> Covered(f)
  <2> TAKE f
  <2>1. Provisional(f)' = Provisional(f) /\ LongRuns(f)' = LongRuns(f)
    BY DEF Provisional, LongRuns
  <2> QED
    BY <2>1 DEF Covered
<1> QED
  BY <1>1, <1>2, <1>3, <1>4 DEF RegionsAreTiles

\* A file starts out as its pages are.
LEMMA SegmentStep ==
  ASSUME SegmentInv, SegmentFile
  PROVE  SegmentInv'
<1>1. /\ kinds' = Provisional(Current) /\ Segmented # DOMAIN package /\ mapping = "segment"
      /\ UNCHANGED <<package, mapping, regions, artifacts>>
  BY DEF SegmentFile
<1>2. Current \in DOMAIN package \ Segmented
  BY <1>1, CurrentIs DEF SegmentInv, Mapped
<1>3. Segmented' = Segmented /\ Current' = Current /\ Provisional(Current)' = Provisional(Current)
      /\ LongRuns(Current)' = LongRuns(Current)
  BY <1>1 DEF Segmented, Current, Provisional, LongRuns
<1>4. Mapped'
  BY <1>1, <1>3 DEF SegmentInv, Mapped
<1>5. RegionsAreTiles'
  BY <1>1, TilesStay DEF SegmentInv
<1>6. KindsAreKept'
  <2>1. PICK f \in DOMAIN package \ Segmented : f = Current
    BY <1>2
  <2>2. /\ Provisional(f) \in [DOMAIN package[f] -> PageKinds]
    BY <2>1, ProvisionalIs DEF SegmentInv, Mapped
  <2>3. \A u \in LongRuns(f) : \A i \in u[1] .. u[2] : Provisional(f)[i] = Provisional(f)[u[1]]
    BY DEF LongRuns, Runs
  <2> QED
    BY <1>1, <1>3, <2>1, <2>2, <2>3 DEF KindsAreKept
<1> QED
  BY <1>4, <1>5, <1>6 DEF SegmentInv

\* An absorbed stray touches no edge that remains, and no long run.
LEMMA AbsorbStep ==
  ASSUME SegmentInv, AbsorbStray
  PROVE  SegmentInv'
<1>1. /\ mapping = "segment" /\ Strays(kinds) # {}
      /\ UNCHANGED <<package, mapping, regions, artifacts>>
  BY DEF AbsorbStray
<1>2. kinds # <<>>
  BY <1>1 DEF Strays, Runs
<1>3. PICK f \in DOMAIN package \ Segmented : f = Current
  BY <1>2 DEF SegmentInv, KindsAreKept
<1>4. PICK n \in Nat : n = Len(package[f]) /\ DOMAIN package[f] = 1 .. n
  BY <1>3, PackageIs DEF SegmentInv, Mapped
<1> DEFINE P == Provisional(f)
           L == LongRuns(f)
<1>5. /\ kinds \in [1 .. n -> PageKinds]
      /\ \A i \in 1 .. n : AtEdge(kinds, i) => kinds[i] = P[i]
      /\ \A u \in L : \A i \in u[1] .. u[2] : kinds[i] = P[u[1]]
  <2>1. /\ kinds \in [DOMAIN package[Current] -> PageKinds]
        /\ \A i \in DOMAIN kinds : AtEdge(kinds, i) => kinds[i] = Provisional(Current)[i]
        /\ \A u \in LongRuns(Current) : \A i \in u[1] .. u[2] : kinds[i] = Provisional(Current)[u[1]]
    BY <1>2 DEF SegmentInv, KindsAreKept
  <2> QED
    BY <1>3, <1>4, <2>1
<1>6. DOMAIN kinds = 1 .. n /\ Len(kinds) = n
  BY <1>5, LenProperties
<1>7. PICK r \in Strays(kinds) : r = First(Strays(kinds))
  BY <1>1, <1>6, FirstStray
<1>8. /\ r \in Runs(kinds) /\ r[1] > 1 /\ r[2] < n /\ PageCount(r) < MinRun
      /\ kinds[r[1] - 1] = kinds[r[2] + 1]
  BY <1>6 DEF Strays
<1>9. /\ r[1] \in 1 .. n /\ r[2] \in 1 .. n /\ r[1] <= r[2]
      /\ \A i \in r[1] .. r[2] : kinds[i] = kinds[r[1]]
      /\ kinds[r[1] - 1] # kinds[r[1]]
      /\ kinds[r[2] + 1] # kinds[r[2]]
  BY <1>6, <1>8, RunIs
<1>10. kinds' = [i \in 1 .. n |-> IF i \in r[1] .. r[2] THEN kinds[r[1] - 1] ELSE kinds[i]]
  BY <1>6, <1>7 DEF AbsorbStray
<1>11. kinds' \in [1 .. n -> PageKinds]
  <2>1. r[1] - 1 \in 1 .. n
    BY <1>8, <1>9
  <2> HIDE DEF PageKinds
  <2> QED
    BY <1>5, <1>10, <2>1
<1>12. DOMAIN kinds' = 1 .. n /\ Len(kinds') = n
  BY <1>11, LenProperties
<1>13. ASSUME NEW i \in 1 .. n, AtEdge(kinds', i) PROVE kinds'[i] = P[i]
  <2>1. r[1] - 1 \in 1 .. n /\ r[2] + 1 \in 1 .. n /\ r[1] - 1 \notin r[1] .. r[2] /\ r[2] + 1 \notin r[1] .. r[2]
    BY <1>8, <1>9
  <2>2. /\ kinds'[r[1] - 1] = kinds[r[1] - 1] /\ kinds'[r[2] + 1] = kinds[r[1] - 1]
        /\ \A j \in r[1] .. r[2] : kinds'[j] = kinds[r[1] - 1]
        /\ \A j \in 1 .. n : j \notin r[1] .. r[2] => kinds'[j] = kinds[j]
    <3>1. \A j \in r[1] .. r[2] : j \in 1 .. n
      BY <1>9
    <3> QED
      BY <1>8, <1>10, <2>1, <3>1
  <2>3. i = 1 \/ i = n \/ kinds'[i - 1] # kinds'[i] \/ kinds'[i + 1] # kinds'[i]
    BY <1>12, <1>13 DEF AtEdge
  <2>4. i \notin r[1] .. r[2]
    <3> SUFFICES ASSUME i \in r[1] .. r[2] PROVE FALSE
      OBVIOUS
    <3>1. i # 1 /\ i # n
      BY <1>8, <1>9
    <3>2. i - 1 \in r[1] .. r[2] \/ i - 1 = r[1] - 1
      BY <1>9
    <3>3. i + 1 \in r[1] .. r[2] \/ i + 1 = r[2] + 1
      BY <1>9
    <3> QED
      BY <2>2, <2>3, <3>1, <3>2, <3>3
  <2>5. kinds'[i] = kinds[i]
    BY <2>2, <2>4
  <2>6. AtEdge(kinds, i)
    <3> SUFFICES ASSUME i # 1, i # n PROVE kinds[i - 1] # kinds[i] \/ kinds[i + 1] # kinds[i]
      BY <1>6 DEF AtEdge
    <3>1. i - 1 \in 1 .. n /\ i + 1 \in 1 .. n
      OBVIOUS
    <3>2. i - 1 \in r[1] .. r[2] => i = r[2] + 1
      BY <1>9, <2>4
    <3>3. i + 1 \in r[1] .. r[2] => i = r[1] - 1
      BY <1>9, <2>4
    <3>4. CASE kinds'[i - 1] # kinds'[i]
      <4>1. i - 1 \notin r[1] .. r[2]
        BY <2>2, <3>2, <3>4
      <4> QED
        BY <2>2, <2>5, <3>1, <3>4, <4>1
    <3>5. CASE kinds'[i + 1] # kinds'[i]
      <4>1. i + 1 \notin r[1] .. r[2]
        BY <2>2, <3>3, <3>5
      <4> QED
        BY <2>2, <2>5, <3>1, <3>5, <4>1
    <3> QED
      BY <2>3, <3>4, <3>5
  <2> QED
    BY <1>5, <2>5, <2>6
<1>14. ASSUME NEW u \in L, NEW i \in u[1] .. u[2] PROVE kinds'[i] = P[u[1]]
  <2>0. DOMAIN P = 1 .. n /\ Len(P) = n
    BY <1>3, <1>4, ProvisionalIs DEF SegmentInv, Mapped
  <2>1. u \in Runs(P) /\ PageCount(u) >= MinRun
    BY DEF LongRuns
  <2>2. u[1] \in 1 .. n /\ u[2] \in 1 .. n /\ u[1] <= u[2]
    BY <2>0, <2>1, RunIs
  <2>3. i \in 1 .. n /\ \A j \in u[1] .. u[2] : kinds[j] = P[u[1]]
    BY <1>5, <2>2
  <2>4. i \notin r[1] .. r[2]
    <3> SUFFICES ASSUME i \in r[1] .. r[2] PROVE FALSE
      OBVIOUS
    <3>1. r[1] <= u[1]
      <4> SUFFICES ASSUME u[1] < r[1] PROVE FALSE
        BY <1>9, <2>2
      <4>1. r[1] - 1 \in u[1] .. u[2] /\ r[1] \in u[1] .. u[2]
        BY <1>9, <2>2
      <4> QED
        BY <1>9, <2>3, <4>1
    <3>2. u[2] <= r[2]
      <4> SUFFICES ASSUME r[2] < u[2] PROVE FALSE
        BY <1>9, <2>2
      <4>1. r[2] + 1 \in u[1] .. u[2] /\ r[2] \in u[1] .. u[2]
        BY <1>9, <2>2
      <4> QED
        BY <1>9, <2>3, <4>1
    <3> QED
      BY <1>8, <1>9, <2>1, <2>2, <3>1, <3>2, MinRunAssumption DEF PageCount
  <2> QED
    BY <1>10, <2>3, <2>4
<1>15. Segmented' = Segmented /\ Current' = f
  BY <1>1, <1>3 DEF Segmented, Current
<1>16. Mapped'
  BY <1>1, <1>15 DEF SegmentInv, Mapped
<1>17. RegionsAreTiles'
  BY <1>1, TilesStay DEF SegmentInv
<1>18. KindsAreKept'
  <2>1. Provisional(f)' = P /\ LongRuns(f)' = L /\ package' = package
    BY <1>1 DEF Provisional, LongRuns
  <2> HIDE DEF P, L
  <2> QED
    BY <1>3, <1>4, <1>11, <1>12, <1>13, <1>14, <1>15, <2>1 DEF KindsAreKept
<1> QED
  BY <1>16, <1>17, <1>18 DEF SegmentInv

\* A region of the file fits.
LEMMA RegionFits ==
  ASSUME SegmentInv, kinds # <<>>, NEW n \in Nat, DOMAIN kinds = 1 .. n, Len(kinds) = n,
         DOMAIN package[Current] = 1 .. n, NEW r \in Runs(kinds)
  PROVE  Fits(RegionOf(Current, r))
<1> DEFINE f == Current
           reg == RegionOf(f, r)
<1>1. /\ f \in DOMAIN package
      /\ \A i \in 1 .. n : kinds[i] \in PageKinds
      /\ \A i \in 1 .. n : AtEdge(kinds, i) => kinds[i] = Provisional(f)[i]
  BY DEF SegmentInv, KindsAreKept
<1>2. f \in Nat /\ \A i \in 1 .. n : Provisional(f)[i] = ProvisionalKind(package[f][i])
  BY <1>1, PackageIs, ProvisionalIs DEF SegmentInv, Mapped
<1> HIDE DEF f
<1>3. /\ reg.file = f /\ reg.first = r[1] /\ reg.last = r[2]
      /\ reg.kind = "drawings" <=> kinds[r[1]] = "drawings"
  BY <1>1, <1>2, RegionIs
<1>4. /\ r[1] \in 1 .. n /\ r[2] \in 1 .. n /\ r[1] <= r[2]
      /\ \A i \in r[1] .. r[2] : kinds[i] = kinds[r[1]]
      /\ r[1] = 1 \/ kinds[r[1] - 1] # kinds[r[1]]
      /\ r[2] = n \/ kinds[r[2] + 1] # kinds[r[2]]
  BY RunIs
<1>5. AtEdge(kinds, r[1]) /\ AtEdge(kinds, r[2])
  BY <1>4 DEF AtEdge
<1>6. kinds[r[1]] = ProvisionalKind(package[f][r[1]]) /\ kinds[r[2]] = ProvisionalKind(package[f][r[2]])
  BY <1>1, <1>2, <1>4, <1>5
<1>7. kinds[r[2]] = kinds[r[1]]
  BY <1>4
<1>8. r[1] \in 1 .. r[2] /\ DOMAIN package[f] = 1 .. n
  BY <1>4 DEF f
<1> HIDE DEF reg
<1>9. Fits(reg)
  BY <1>3, <1>4, <1>6, <1>7, <1>8 DEF Fits
<1> QED
  BY <1>9 DEF reg, f

\* A long run of a file's pages is in a region of its kind.
LEMMA LongRunIsKept ==
  ASSUME SegmentInv, kinds # <<>>, NEW n \in Nat, DOMAIN kinds = 1 .. n, Len(kinds) = n,
         DOMAIN package[Current] = 1 .. n, NEW u \in LongRuns(Current)
  PROVE  \E r \in Runs(kinds) :
           /\ Holds(RegionOf(Current, r), Current, u[1]) /\ Holds(RegionOf(Current, r), Current, u[2])
           /\ RegionOf(Current, r).kind = Provisional(Current)[u[1]]
<1> DEFINE f == Current
           P == Provisional(f)
<1>1. /\ f \in DOMAIN package
      /\ \A i \in 1 .. n : kinds[i] \in PageKinds
      /\ \A i \in u[1] .. u[2] : kinds[i] = P[u[1]]
  BY DEF SegmentInv, KindsAreKept
<1>2. f \in Nat /\ DOMAIN P = 1 .. n /\ Len(P) = n
  <2>1. DOMAIN P = DOMAIN package[f] /\ Len(P) = Len(package[f])
    BY <1>1, ProvisionalIs DEF SegmentInv, Mapped
  <2>2. DOMAIN package = 1 .. Len(package) /\ DOMAIN package[f] = 1 .. Len(package[f])
        /\ Len(package[f]) \in Nat /\ Len(package) \in Nat
    BY <1>1, PackageIs DEF SegmentInv, Mapped
  <2> QED
    BY <1>1, <2>1, <2>2
<1>3. u \in Runs(P) /\ PageCount(u) >= MinRun
  BY DEF LongRuns
<1> HIDE DEF f, P
<1>4. u[1] \in 1 .. n /\ u[2] \in 1 .. n /\ u[1] <= u[2]
  BY <1>2, <1>3, RunIs
<1>5. PICK r \in Runs(kinds) : r[1] <= u[1] /\ u[1] <= r[2]
  BY <1>4, RunOver
<1>6. /\ r[1] \in 1 .. n /\ r[2] \in 1 .. n /\ r[1] <= r[2]
      /\ \A i \in r[1] .. r[2] : kinds[i] = kinds[r[1]]
      /\ r[2] = n \/ kinds[r[2] + 1] # kinds[r[2]]
  BY RunIs
<1>7. u[2] <= r[2]
  <2> SUFFICES ASSUME r[2] < u[2] PROVE FALSE
    BY <1>4, <1>6
  <2>1. r[2] \in u[1] .. u[2] /\ r[2] + 1 \in u[1] .. u[2] /\ r[2] # n
    BY <1>4, <1>5, <1>6
  <2> QED
    BY <1>1, <1>6, <2>1
<1>8. PageCount(r) >= MinRun
  BY <1>3, <1>4, <1>5, <1>6, <1>7, MinRunAssumption DEF PageCount
<1>9. kinds[r[1]] = P[u[1]]
  <2>1. u[1] \in r[1] .. r[2] /\ u[1] \in u[1] .. u[2]
    BY <1>4, <1>5, <1>6
  <2> QED
    BY <1>1, <1>6, <2>1
<1>10. /\ RegionOf(f, r).file = f /\ RegionOf(f, r).first = r[1] /\ RegionOf(f, r).last = r[2]
       /\ RegionOf(f, r).kind = kinds[r[1]]
  BY <1>1, <1>2, <1>8, RegionIs
<1>11. Holds(RegionOf(f, r), f, u[1]) /\ Holds(RegionOf(f, r), f, u[2])
  BY <1>4, <1>5, <1>6, <1>7, <1>10 DEF Holds
<1> QED
  BY <1>9, <1>10, <1>11 DEF f, P

\* The regions of a file tile it, and those of other files stay.
LEMMA EmitStep ==
  ASSUME SegmentInv, EmitRegions
  PROVE  SegmentInv'
<1>1. /\ mapping = "segment" /\ kinds # <<>> /\ kinds' = <<>>
      /\ regions' = regions \o FileRegions(Current)
      /\ UNCHANGED <<package, mapping, artifacts>>
  BY DEF EmitRegions
<1>2. PICK f \in DOMAIN package \ Segmented : f = Current
  BY <1>1 DEF SegmentInv, KindsAreKept
<1>3. PICK n \in Nat : n = Len(package[f]) /\ DOMAIN package[f] = 1 .. n
  BY <1>2, PackageIs DEF SegmentInv, Mapped
<1>4. f \in Nat
  BY <1>2, PackageIs DEF SegmentInv, Mapped
<1>5. kinds \in [1 .. n -> PageKinds]
  BY <1>1, <1>2, <1>3 DEF SegmentInv, KindsAreKept
<1>6. DOMAIN kinds = 1 .. n /\ Len(kinds) = n /\ \A i \in 1 .. n : kinds[i] \in PageKinds
  BY <1>5, LenProperties
<1>7. n \in Nat \ {0}
  <2>1. kinds \in Seq(PageKinds)
    BY <1>5, SeqDef
  <2> QED
    BY <1>1, <1>6, <2>1, EmptySeq
<1> DEFINE R == FileRegions(f)
           M == Len(regions)
<1>8. PICK N \in Nat \ {0} :
        /\ R \in Seq(Regions) /\ Len(R) = N
        /\ \A k \in 1 .. N : \E r \in Runs(kinds) : R[k] = RegionOf(f, r)
        /\ \A r \in Runs(kinds) : \E k \in 1 .. N : R[k] = RegionOf(f, r)
        /\ \A k, l \in 1 .. N : k < l =>
             /\ R[k].last < R[l].first
             /\ l = k + 1 => R[l].first = R[k].last + 1
  BY <1>4, <1>6, <1>7, FileRegionsAre
<1>9. /\ regions \in Seq(Regions) /\ M \in Nat /\ DOMAIN regions = 1 .. M
      /\ \A k \in 1 .. M : regions[k].file \in Segmented /\ regions[k].file # f
  BY <1>2 DEF SegmentInv, Mapped, Segmented
<1>10. regions' = regions \o R
  BY <1>1, <1>2
<1> HIDE DEF R
<1>11. /\ regions' \in Seq(Regions) /\ DOMAIN regions' = 1 .. M + N
       /\ \A k \in 1 .. M : regions'[k] = regions[k]
       /\ \A k \in 1 .. N : regions'[M + k] = R[k]
       /\ \A k \in 1 .. M + N : k \in 1 .. M \/ \E j \in 1 .. N : k = M + j
  <2>1. regions' \in Seq(Regions) /\ Len(regions') = M + N
        /\ \A k \in 1 .. M + N : regions'[k] = IF k <= M THEN regions[k] ELSE R[k - M]
    <3>0. regions \in Seq(Regions) /\ R \in Seq(Regions) /\ Len(regions) = M /\ Len(R) = N
      BY <1>8, <1>9
    <3>1. Len(regions \o R) = M + N /\ regions \o R \in Seq(Regions)
      <4> HIDE DEF M
      <4>1. Len(regions \o R) = Len(regions) + Len(R) /\ regions \o R \in Seq(Regions)
        BY <3>0, ConcatProperties, Zenon
      <4> QED
        BY <3>0, <4>1, Zenon
    <3>2. \A k \in 1 .. Len(regions) + Len(R) :
            (regions \o R)[k] = IF k <= Len(regions) THEN regions[k] ELSE R[k - Len(regions)]
      BY <3>0, ConcatProperties
    <3> QED
      BY <1>8, <1>10, <3>1, <3>2
  <2> HIDE DEF M
  <2>2. \A k \in 1 .. M + N : k \in 1 .. M \/ (k - M \in 1 .. N /\ k = M + (k - M))
    BY <1>9
  <2>3. \A k \in 1 .. M : k \in 1 .. M + N /\ k <= M
    BY <1>9
  <2>4. \A k \in 1 .. N : M + k \in 1 .. M + N /\ ~(M + k <= M) /\ (M + k) - M = k
    BY <1>9
  <2> QED
    BY <2>1, <2>2, <2>3, <2>4, LenProperties
<1>12. \A k \in 1 .. N : R[k].file = f
  <2>1. \A r \in Runs(kinds) : RegionOf(f, r).file = f
    BY DEF RegionOf
  <2> QED
    BY <1>8, <2>1
<1> HIDE DEF M
<1>13. Segmented' = Segmented \cup {f}
  <2>1. Segmented' = {regions'[k].file : k \in 1 .. M + N} /\ Segmented = {regions[k].file : k \in 1 .. M}
    BY <1>9, <1>11 DEF Segmented
  <2>2. \A k \in 1 .. M + N : regions'[k].file \in Segmented \cup {f}
    <3>1. \A k \in 1 .. M : regions'[k].file \in Segmented
      BY <1>9, <1>11, Zenon
    <3>2. \A k \in 1 .. N : regions'[M + k].file = f
      BY <1>11, <1>12, Zenon
    <3> QED
      BY <1>11, <3>1, <3>2, Zenon
  <2>3. \A k \in 1 .. M : k \in 1 .. M + N /\ regions'[k].file = regions[k].file
    BY <1>9, <1>11
  <2>4. M + 1 \in 1 .. M + N /\ regions'[M + 1].file = f
    BY <1>8, <1>9, <1>11, <1>12, SMTT(30)
  <2> QED
    BY <2>1, <2>2, <2>3, <2>4
<1>14. Mapped'
  BY <1>1, <1>2, <1>11, <1>13 DEF SegmentInv, Mapped
<1>15. KindsAreKept'
  BY <1>1 DEF KindsAreKept
<1>16. \A r : Fits(r)' <=> Fits(r)
  BY <1>1 DEF Fits
<1>17. \A k \in DOMAIN regions' : Fits(regions'[k])
  <2>1. \A k \in 1 .. M : Fits(regions[k])
    BY <1>9 DEF SegmentInv, RegionsAreTiles
  <2>2. \A r \in Runs(kinds) : Fits(RegionOf(f, r))
    BY <1>1, <1>2, <1>3, <1>6, RegionFits
  <2>3. \A k \in 1 .. N : Fits(R[k])
    BY <1>8, <2>2
  <2> QED
    BY <1>11, <2>1, <2>3
<1>18. ASSUME NEW k \in 1 .. N, NEW l \in 1 .. N, R[l].first = R[k].last + 1
       PROVE  R[k].kind # R[l].kind
  <2>1. PICK r \in Runs(kinds) : R[k] = RegionOf(f, r)
    BY <1>8
  <2>2. PICK o \in Runs(kinds) : R[l] = RegionOf(f, o)
    BY <1>8
  <2>3. /\ R[k].last = r[2] /\ R[l].first = o[1]
        /\ R[k].kind = "drawings" <=> kinds[r[1]] = "drawings"
        /\ R[l].kind = "drawings" <=> kinds[o[1]] = "drawings"
    <3>1. \A q \in Runs(kinds) :
            /\ RegionOf(f, q).first = q[1] /\ RegionOf(f, q).last = q[2]
            /\ RegionOf(f, q).kind = "drawings" <=> kinds[q[1]] = "drawings"
      BY <1>4, <1>6, RegionIs
    <3>2. R[k].last = r[2] /\ (R[k].kind = "drawings" <=> kinds[r[1]] = "drawings")
      BY <2>1, <3>1, Zenon
    <3>3. R[l].first = o[1] /\ (R[l].kind = "drawings" <=> kinds[o[1]] = "drawings")
      BY <2>2, <3>1, Zenon
    <3> QED
      BY <3>2, <3>3
  <2>4. /\ r[1] \in 1 .. n /\ r[2] \in 1 .. n /\ r[1] <= r[2] /\ o[1] \in 1 .. n
    BY <1>6, RunIs
  <2>5. kinds[r[1]] # kinds[o[1]]
    <3>1. o[1] = r[2] + 1 /\ r[1] <= o[1]
      BY <1>18, <2>3, <2>4
    <3> QED
      BY <1>6, <3>1, RunsApart
  <2> QED
    BY <1>6, <2>3, <2>4, <2>5 DEF PageKinds
<1>19. RegionsAreOrdered'
  <2> SUFFICES ASSUME NEW k \in 1 .. M + N, NEW l \in 1 .. M + N, regions'[k].file = regions'[l].file
               PROVE  /\ k < l => /\ regions'[k].last < regions'[l].first
                                  /\ l = k + 1 => regions'[l].first = regions'[k].last + 1
                      /\ regions'[l].first = regions'[k].last + 1 => regions'[k].kind # regions'[l].kind
    BY <1>11 DEF RegionsAreOrdered
  <2>1. CASE k \in 1 .. M /\ l \in 1 .. M
    <3>1. regions'[k] = regions[k] /\ regions'[l] = regions[l] /\ k \in DOMAIN regions /\ l \in DOMAIN regions
      BY <1>9, <1>11, <2>1
    <3>2. RegionsAreOrdered
      BY DEF SegmentInv, RegionsAreTiles
    <3> QED
      BY <3>1, <3>2 DEF RegionsAreOrdered
  <2>2. ASSUME NEW i \in 1 .. N, NEW j \in 1 .. N, k = M + i, l = M + j
        PROVE  /\ k < l => /\ regions'[k].last < regions'[l].first
                           /\ l = k + 1 => regions'[l].first = regions'[k].last + 1
               /\ regions'[l].first = regions'[k].last + 1 => regions'[k].kind # regions'[l].kind
    <3>1. regions'[k] = R[i] /\ regions'[l] = R[j] /\ (k < l => i < j) /\ (l = k + 1 => j = i + 1)
      BY <1>9, <1>11, <2>2
    <3>2. i < j => /\ R[i].last < R[j].first
                   /\ j = i + 1 => R[j].first = R[i].last + 1
      BY <1>8
    <3>3. R[j].first = R[i].last + 1 => R[i].kind # R[j].kind
      BY <1>18
    <3> QED
      BY <3>1, <3>2, <3>3
  <2>3. ASSUME k \in 1 .. M, NEW j \in 1 .. N, l = M + j PROVE FALSE
    BY <1>9, <1>11, <1>12, <2>3
  <2>4. ASSUME l \in 1 .. M, NEW i \in 1 .. N, k = M + i PROVE FALSE
    BY <1>9, <1>11, <1>12, <2>4
  <2> QED
    BY <1>11, <2>1, <2>2, <2>3, <2>4
<1>20. \A g : LongRuns(g)' = LongRuns(g) /\ Provisional(g)' = Provisional(g)
  BY <1>1 DEF LongRuns, Provisional
<1>21. ASSUME NEW g \in Segmented PROVE Covered(g)'
  <2>1. Covered(g)
    BY DEF SegmentInv, RegionsAreTiles
  <2>2. \A k \in DOMAIN regions : k \in DOMAIN regions' /\ regions'[k] = regions[k]
    BY <1>9, <1>11
  <2> QED
    BY <1>1, <1>20, <2>1, <2>2, SMTT(30) DEF Covered
<1>22. Covered(f)'
  <2>1. \A r \in Runs(kinds) : \E k \in DOMAIN regions' : regions'[k] = RegionOf(f, r)
    <3>1. \A k \in 1 .. N : M + k \in DOMAIN regions'
      BY <1>9, <1>11
    <3> QED
      BY <1>8, <1>11, <3>1
  <2>2. ASSUME NEW i \in 1 .. n PROVE \E k \in DOMAIN regions' : Holds(regions'[k], f, i)
    <3>1. PICK r \in Runs(kinds) : r[1] <= i /\ i <= r[2]
      BY <1>6, RunOver
    <3>2. Holds(RegionOf(f, r), f, i)
      <4>1. r[1] \in 1 .. n /\ r[2] \in 1 .. n
        BY <1>6, RunIs
      <4> QED
        BY <3>1, <4>1 DEF Holds, RegionOf
    <3> QED
      BY <2>1, <3>2
  <2>3. ASSUME NEW u \in LongRuns(f)
        PROVE  \E k \in DOMAIN regions' :
                 /\ Holds(regions'[k], f, u[1]) /\ Holds(regions'[k], f, u[2])
                 /\ regions'[k].kind = Provisional(f)[u[1]]
    <3>1. \E r \in Runs(kinds) :
            /\ Holds(RegionOf(f, r), f, u[1]) /\ Holds(RegionOf(f, r), f, u[2])
            /\ RegionOf(f, r).kind = Provisional(f)[u[1]]
      BY <1>1, <1>2, <1>3, <1>6, LongRunIsKept
    <3> QED
      BY <2>1, <3>1
  <2> QED
    BY <1>1, <1>3, <1>20, <2>2, <2>3 DEF Covered
<1>23. RegionsAreTiles'
  BY <1>13, <1>16, <1>17, <1>19, <1>21, <1>22 DEF RegionsAreTiles
<1> QED
  BY <1>14, <1>15, <1>23 DEF SegmentInv

\* Nothing but segmentation is about the kinds and the regions.
LEMMA SegmentStays ==
  ASSUME SegmentInv, UNCHANGED <<package, kinds, regions>>,
         mapping' # "segment" => mapping # "segment" \/ (Segmented = DOMAIN package /\ kinds = <<>>)
  PROVE  SegmentInv'
<1>1. Segmented' = Segmented /\ Current' = Current
  BY DEF Segmented, Current
<1>2. Mapped'
  BY <1>1 DEF SegmentInv, Mapped
<1>3. \A f : Provisional(f)' = Provisional(f) /\ LongRuns(f)' = LongRuns(f)
  BY DEF Provisional, LongRuns
<1>4. KindsAreKept'
  BY <1>1, <1>3 DEF SegmentInv, KindsAreKept
<1>5. RegionsAreTiles'
  BY TilesStay DEF SegmentInv
<1> QED
  BY <1>2, <1>4, <1>5 DEF SegmentInv

\* A file no page of which is segmented.
LEMMA SegmentBegins == MapInit => SegmentInv
<1> SUFFICES ASSUME MapInit PROVE SegmentInv
  OBVIOUS
<1>1. package \in Packages /\ mapping = "segment" /\ kinds = <<>> /\ regions = <<>>
  BY DEF MapInit
<1>2. DOMAIN regions = {} /\ regions \in Seq(Regions) /\ Segmented = {}
  BY <1>1 DEF Segmented
<1>3. Mapped
  BY <1>1, <1>2 DEF Mapped
<1>4. KindsAreKept
  BY <1>1 DEF KindsAreKept
<1>5. RegionsAreTiles
  BY <1>2 DEF RegionsAreTiles, RegionsAreOrdered
<1> QED
  BY <1>3, <1>4, <1>5 DEF SegmentInv

\* The invariant of segmentation holds in every state.
THEOREM SegmentInvariant == Spec => []SegmentInv
<1>1. Init => SegmentInv
  BY SegmentBegins DEF Init
<1>2. SegmentInv /\ [Next]_vars => SegmentInv'
  <2> SUFFICES ASSUME SegmentInv, [Next]_vars PROVE SegmentInv'
    OBVIOUS
  <2>1. CASE MapNext
    <3>1. CASE SegmentFile
      BY <3>1, SegmentStep
    <3>2. CASE AbsorbStray
      BY <3>2, AbsorbStep
    <3>3. CASE EmitRegions
      BY <3>3, EmitStep
    <3>4. CASE StartLocating
      <4>1. Segmented = DOMAIN package /\ kinds = <<>> /\ UNCHANGED <<package, kinds, regions>>
        BY <3>4 DEF StartLocating
      <4> QED
        BY <4>1, SegmentStays
    <3>5. CASE Locate
      <4>1. mapping # "segment" /\ UNCHANGED <<package, kinds, regions>>
        BY <3>5 DEF Locate
      <4> QED
        BY <4>1, SegmentStays
    <3> QED
      BY <2>1, <3>1, <3>2, <3>3, <3>4, <3>5 DEF MapNext
  <2>2. CASE UNCHANGED mapVars
    <3>1. UNCHANGED <<package, kinds, regions, mapping>>
      BY <2>2 DEF mapVars
    <3> QED
      BY <3>1, SegmentStays
  <2>3. MapNext \/ UNCHANGED mapVars
    BY DEF Next, vars, Parse, Link, LinkRaises, Trace, AddDoor, DoorsDone, AddFinishes,
           RoomsDone, AddReferences, Report, Finished
  <2> QED
    BY <2>1, <2>2, <2>3
<1> QED
  BY <1>1, <1>2, PTL DEF Spec

\* segment_package: the regions tile the pages of every file, neighbours differ,
\* and no run of min_run pages is absorbed, for every package and every min_run.
THEOREM RegionsAreTiled == Spec => []RegionsTile
<1>1. SegmentInv => RegionsTile
  <2> SUFFICES ASSUME SegmentInv, mapping # "segment" PROVE RegionsTile
    BY DEF RegionsTile
  <2>0. Segmented = DOMAIN package /\ \A f \in DOMAIN package : Covered(f)
    BY DEF SegmentInv, Mapped, RegionsAreTiles
  <2>1. ASSUME NEW p \in Everywhere PROVE \E r \in ToSet(regions) : Holds(r, p[1], p[2])
    <3>1. p[1] \in DOMAIN package /\ p[2] \in DOMAIN package[p[1]]
      BY DEF Everywhere
    <3>2. PICK k \in DOMAIN regions : Holds(regions[k], p[1], p[2])
      BY <2>0, <3>1 DEF Covered
    <3> QED
      BY <3>2 DEF ToSet
  <2>2. ASSUME NEW k \in DOMAIN regions, NEW l \in DOMAIN regions, k < l, regions[k].file = regions[l].file
        PROVE  /\ regions[k].last < regions[l].first
               /\ l = k + 1 => regions[k].kind # regions[l].kind
    BY <2>2 DEF SegmentInv, RegionsAreTiles, RegionsAreOrdered
  <2>3. ASSUME NEW r \in ToSet(regions), NEW i \in {r.first, r.last}
        PROVE  (ProvisionalKind(package[r.file][i]) = "drawings") <=> (r.kind = "drawings")
    <3>1. Fits(r)
      BY DEF SegmentInv, RegionsAreTiles, ToSet
    <3> QED
      BY <3>1 DEF Fits
  <2>4. ASSUME NEW f \in DOMAIN package, NEW u \in Runs(Provisional(f)), PageCount(u) >= MinRun
        PROVE  \E r \in OfKind(Provisional(f)[u[1]]) : Holds(r, f, u[1]) /\ Holds(r, f, u[2])
    <3>1. u \in LongRuns(f)
      BY <2>4 DEF LongRuns
    <3>2. PICK k \in DOMAIN regions :
            /\ Holds(regions[k], f, u[1]) /\ Holds(regions[k], f, u[2])
            /\ regions[k].kind = Provisional(f)[u[1]]
      BY <2>0, <3>1 DEF Covered
    <3> QED
      BY <3>2 DEF OfKind, ToSet
  <2> QED
    BY <2>1, <2>2, <2>3, <2>4 DEF RegionsTile
<1> QED
  BY <1>1, SegmentInvariant, PTL

-----------------------------------------------------------------------------
(***************************************************************************)
(* Location: the best place                                                *)
(***************************************************************************)

\* There is a running sum of numbers: of the sums up to a place a least one that
\* does not exist would have the one before it.
LEMMA SumExists ==
  \A g : \A a \in Nat \ {0} : \A b \in Nat :
    (\A i \in a .. b : g[i] \in Nat) =>
      \E sum \in [a - 1 .. b -> Nat] :
        \A i \in a - 1 .. b : sum[i] = IF i < a THEN 0 ELSE sum[i - 1] + g[i]
<1> SUFFICES ASSUME NEW g, NEW a \in Nat \ {0}, NEW b \in Nat, \A i \in a .. b : g[i] \in Nat
             PROVE  \E sum \in [a - 1 .. b -> Nat] :
                      \A i \in a - 1 .. b : sum[i] = IF i < a THEN 0 ELSE sum[i - 1] + g[i]
  OBVIOUS
<1> DEFINE Sums(m, sum) == \A i \in a - 1 .. m : sum[i] = IF i < a THEN 0 ELSE sum[i - 1] + g[i]
           Bad == {m \in a - 1 .. b : ~\E sum \in [a - 1 .. m -> Nat] : Sums(m, sum)}
<1>1. Bad = {}
  <2> SUFFICES ASSUME Bad # {} PROVE FALSE
    OBVIOUS
  <2>1. PICK m \in Bad : \A l \in Bad : m <= l
    <3>1. Bad \subseteq Nat
      OBVIOUS
    <3> HIDE DEF Bad
    <3> QED
      BY <3>1, LeastNat
  <2>2. CASE m = a - 1
    <3>1. Sums(m, [i \in a - 1 .. m |-> 0]) /\ [i \in a - 1 .. m |-> 0] \in [a - 1 .. m -> Nat]
      BY <2>2
    <3> QED
      BY <3>1, <2>1
  <2>3. CASE m # a - 1
    <3>1. m - 1 \in a - 1 .. b /\ m \in a .. b /\ m - 1 \notin Bad
      <4>1. m \in a - 1 .. b
        BY <2>1
      <4>2. m - 1 \in a - 1 .. b /\ m \in a .. b /\ ~(m <= m - 1)
        BY <4>1, <2>3
      <4> HIDE DEF Bad
      <4> QED
        BY <4>2, <2>1
    <3>2. PICK sum \in [a - 1 .. m - 1 -> Nat] : Sums(m - 1, sum)
      BY <3>1
    <3> DEFINE next == [i \in a - 1 .. m |-> IF i = m THEN sum[m - 1] + g[m] ELSE sum[i]]
    <3>3. next \in [a - 1 .. m -> Nat]
      BY <3>1, <3>2
    <3>4. Sums(m, next)
      <4> SUFFICES ASSUME NEW i \in a - 1 .. m
                   PROVE  next[i] = IF i < a THEN 0 ELSE next[i - 1] + g[i]
        OBVIOUS
      <4>1. CASE i = m
        <5>1. next[m] = sum[m - 1] + g[m] /\ next[m - 1] = sum[m - 1] /\ ~(m < a)
          BY <3>1
        <5> QED
          BY <4>1, <5>1
      <4>2. CASE i # m
        <5>1. i \in a - 1 .. m - 1 /\ next[i] = sum[i]
          BY <3>1, <4>2
        <5>2. sum[i] = IF i < a THEN 0 ELSE sum[i - 1] + g[i]
          BY <3>2, <5>1
        <5>3. ~(i < a) => next[i - 1] = sum[i - 1]
          BY <3>1, <4>2, <5>1
        <5> HIDE DEF next
        <5> QED
          BY <5>1, <5>2, <5>3
      <4> QED
        BY <4>1, <4>2
    <3> QED
      BY <3>3, <3>4, <2>1
  <2> QED
    BY <2>2, <2>3
<1>2. CASE b >= a - 1
  BY <1>1, <1>2
<1>3. CASE b < a - 1
  <2>1. [i \in a - 1 .. b |-> 0] \in [a - 1 .. b -> Nat] /\ Sums(b, [i \in a - 1 .. b |-> 0])
    BY <1>3
  <2> QED
    BY <2>1
<1> QED
  BY <1>2, <1>3

\* Summed is the running sum of the confidence.
LEMMA SummedIs ==
  ASSUME NEW name, NEW s, s.first \in Nat \ {0}, s.last \in Nat,
         \A i \in s.first .. s.last : Confidence(name, <<s.file, i>>) \in Nat
  PROVE  \A i \in s.first - 1 .. s.last :
           Summed(name, s)[i] = IF i < s.first THEN 0
                                ELSE Summed(name, s)[i - 1] + Confidence(name, <<s.file, i>>)
<1> DEFINE g == [i \in s.first .. s.last |-> Confidence(name, <<s.file, i>>)]
<1>1. \A i \in s.first .. s.last : g[i] \in Nat
  OBVIOUS
<1>2. PICK sum \in [s.first - 1 .. s.last -> Nat] :
        \A i \in s.first - 1 .. s.last : sum[i] = IF i < s.first THEN 0 ELSE sum[i - 1] + g[i]
  <2> HIDE DEF g
  <2> QED
    BY <1>1, SumExists
<1>3. sum = [i \in s.first - 1 .. s.last |->
               IF i < s.first THEN 0 ELSE sum[i - 1] + Confidence(name, <<s.file, i>>)]
  <2> DEFINE Step(i) == IF i < s.first THEN 0 ELSE sum[i - 1] + Confidence(name, <<s.file, i>>)
  <2>1. \A i \in s.first - 1 .. s.last : sum[i] = Step(i)
    <3>1. \A i \in s.first - 1 .. s.last : ~(i < s.first) => i \in s.first .. s.last
      OBVIOUS
    <3>2. \A i \in s.first .. s.last : g[i] = Confidence(name, <<s.file, i>>)
      OBVIOUS
    <3> HIDE DEF g
    <3> QED
      BY <1>2, <3>1, <3>2, Zenon
  <2>2. sum = [i \in s.first - 1 .. s.last |-> sum[i]]
    OBVIOUS
  <2>3. [i \in s.first - 1 .. s.last |-> sum[i]] = [i \in s.first - 1 .. s.last |-> Step(i)]
    <3> HIDE DEF Step
    <3> QED
      BY <2>1, Zenon
  <2> QED
    BY <2>2, <2>3
<1>4. Summed(name, s) = [i \in s.first - 1 .. s.last |->
               IF i < s.first THEN 0 ELSE Summed(name, s)[i - 1] + Confidence(name, <<s.file, i>>)]
  BY <1>3, Zenon DEF Summed
<1> DEFINE total == Summed(name, s)
<1>5. total = [i \in s.first - 1 .. s.last |->
               IF i < s.first THEN 0 ELSE total[i - 1] + Confidence(name, <<s.file, i>>)]
  BY <1>4
<1> HIDE DEF total
<1>6. \A i \in s.first - 1 .. s.last :
           total[i] = IF i < s.first THEN 0 ELSE total[i - 1] + Confidence(name, <<s.file, i>>)
  BY <1>5, Zenon
<1> QED
  BY <1>6 DEF total

\* The total of confirmed pages is a number.
LEMMA TotalIsNat ==
  ASSUME NEW name, NEW s, s.first \in Nat \ {0}, s.last \in Nat, s.first <= s.last,
         \A i \in s.first .. s.last : Confidence(name, <<s.file, i>>) \in Nat
  PROVE  Total(name, s) \in Nat
<1> DEFINE sum == Summed(name, s)
<1>1. \A i \in s.first - 1 .. s.last :
        sum[i] = IF i < s.first THEN 0 ELSE sum[i - 1] + Confidence(name, <<s.file, i>>)
  BY SummedIs
<1>0. \A i \in s.first .. s.last : \E c \in Nat : sum[i] = sum[i - 1] + c
  <2> SUFFICES ASSUME NEW i \in s.first .. s.last PROVE \E c \in Nat : sum[i] = sum[i - 1] + c
    OBVIOUS
  <2>1. i \in s.first - 1 .. s.last /\ ~(i < s.first)
    OBVIOUS
  <2>2. sum[i] = sum[i - 1] + Confidence(name, <<s.file, i>>)
    <3> HIDE DEF sum
    <3> QED
      BY <1>1, <2>1, Zenon
  <2>3. Confidence(name, <<s.file, i>>) \in Nat
    BY Zenon
  <2> HIDE DEF sum
  <2> QED
    BY <2>2, <2>3
<1>9. sum[s.first - 1] = 0
  <2>1. s.first - 1 \in s.first - 1 .. s.last /\ s.first - 1 < s.first
    OBVIOUS
  <2> HIDE DEF sum
  <2> QED
    BY <1>1, <2>1
<1> HIDE DEF sum
<1> DEFINE Bad == {i \in s.first - 1 .. s.last : sum[i] \notin Nat}
<1>2. Bad = {}
  <2> SUFFICES ASSUME Bad # {} PROVE FALSE
    OBVIOUS
  <2>1. PICK i \in Bad : \A j \in Bad : i <= j
    <3>1. Bad \subseteq Nat
      OBVIOUS
    <3> HIDE DEF Bad
    <3> QED
      BY <3>1, LeastNat
  <2>2. i \in s.first - 1 .. s.last /\ sum[i] \notin Nat
    BY <2>1
  <2>3. ~(i < s.first)
    BY <1>9, <2>2
  <2>4. i - 1 \in s.first - 1 .. s.last /\ i \in s.first .. s.last
    BY <2>2, <2>3
  <2>5. sum[i - 1] \in Nat
    <3>1. i - 1 \notin Bad
      <4> HIDE DEF Bad
      <4> QED
        BY <2>1, <2>2, <2>4
    <3> QED
      BY <2>4, <3>1
  <2> QED
    BY <1>0, <2>2, <2>4, <2>5
<1>3. s.last \in s.first - 1 .. s.last
  OBVIOUS
<1> QED
  BY <1>2, <1>3 DEF Total, sum

\* A value on a finite set is greatest somewhere.
LEMMA GreatestOf ==
  ASSUME NEW T, IsFiniteSet(T), T # {}, NEW v \in [T -> Nat]
  PROVE  \E x \in T : \A y \in T : v[y] <= v[x]
<1> DEFINE V == {v[x] : x \in T}
<1>1. v \in Surjection(T, V)
  BY DEF Surjection
<1>2. IsFiniteSet(V)
  <2> HIDE DEF V
  <2> QED
    BY <1>1, FS_Surjection
<1>3. V # {} /\ V \subseteq Nat
  OBVIOUS
<1>4. Max(V) \in V /\ \A m \in V : m <= Max(V)
  <2> HIDE DEF V
  <2> QED
    BY <1>2, <1>3, MaxOfFinite
<1>5. PICK x \in T : v[x] = Max(V)
  BY <1>4
<1>6. \A y \in T : v[y] \in V
  OBVIOUS
<1> HIDE DEF V
<1>7. \A y \in T : v[y] <= v[x]
  BY <1>4, <1>5, <1>6
<1> QED
  BY <1>7

\* The artifacts that are looked for.
LEMMA SpecIs ==
  /\ LOCATORS \in Seq(ToSet(LOCATORS)) /\ Len(LOCATORS) = 5 /\ DOMAIN LOCATORS = 1 .. 5
  /\ \A spec \in ToSet(LOCATORS) :
       /\ spec.kind \in PageKinds /\ spec.many \in BOOLEAN
       /\ spec.name \in DOMAIN ARTIFACT_REGION /\ ARTIFACT_REGION[spec.name] = spec.kind
  /\ \A i, j \in 1 .. 5 : LOCATORS[i].name = LOCATORS[j].name => i = j
<1>1. Len(LOCATORS) = 5 /\ DOMAIN LOCATORS = 1 .. 5
  BY DEF LOCATORS
<1>2. \A i \in 1 .. 5 : i = 1 \/ i = 2 \/ i = 3 \/ i = 4 \/ i = 5
  OBVIOUS
<1>3. \A i \in 1 .. 5 :
        /\ LOCATORS[i].kind \in PageKinds /\ LOCATORS[i].many \in BOOLEAN
        /\ LOCATORS[i].name \in DOMAIN ARTIFACT_REGION
        /\ ARTIFACT_REGION[LOCATORS[i].name] = LOCATORS[i].kind
  <2>0. DOMAIN ARTIFACT_REGION = {"spec_toc", "spec_section", "drawing_index", "door_schedule", "finish_schedule", "abbreviations"}
        /\ ARTIFACT_REGION["spec_toc"] = "manual" /\ ARTIFACT_REGION["drawing_index"] = "drawings"
        /\ ARTIFACT_REGION["door_schedule"] = "drawings" /\ ARTIFACT_REGION["finish_schedule"] = "drawings"
        /\ ARTIFACT_REGION["abbreviations"] = "drawings"
    BY DEF ARTIFACT_REGION
  <2>1. /\ LOCATORS[1].name = "spec_toc" /\ LOCATORS[1].kind = "manual" /\ LOCATORS[1].many = TRUE
        /\ LOCATORS[2].name = "drawing_index" /\ LOCATORS[2].kind = "drawings" /\ LOCATORS[2].many = FALSE
        /\ LOCATORS[3].name = "door_schedule" /\ LOCATORS[3].kind = "drawings" /\ LOCATORS[3].many = TRUE
        /\ LOCATORS[4].name = "finish_schedule" /\ LOCATORS[4].kind = "drawings" /\ LOCATORS[4].many = TRUE
        /\ LOCATORS[5].name = "abbreviations" /\ LOCATORS[5].kind = "drawings" /\ LOCATORS[5].many = FALSE
    BY DEF LOCATORS
  <2>2. TAKE i \in 1 .. 5
  <2> QED
    <3>1. CASE i = 1
      BY <2>0, <2>1, <3>1, Zenon DEF PageKinds
    <3>2. CASE i = 2
      BY <2>0, <2>1, <3>2, Zenon DEF PageKinds
    <3>3. CASE i = 3
      BY <2>0, <2>1, <3>3, Zenon DEF PageKinds
    <3>4. CASE i = 4
      BY <2>0, <2>1, <3>4, Zenon DEF PageKinds
    <3>5. CASE i = 5
      BY <2>0, <2>1, <3>5, Zenon DEF PageKinds
    <3> QED
      BY <1>2, <3>1, <3>2, <3>3, <3>4, <3>5, Zenon
<1>4. \A i, j \in 1 .. 5 : LOCATORS[i].name = LOCATORS[j].name => i = j
  BY <1>2 DEF LOCATORS
<1>5. LOCATORS \in Seq(ToSet(LOCATORS))
  <2>1. LOCATORS \in Seq({LOCATORS[1], LOCATORS[2], LOCATORS[3], LOCATORS[4], LOCATORS[5]})
    BY DEF LOCATORS
  <2>2. ToSet(LOCATORS) = {LOCATORS[1], LOCATORS[2], LOCATORS[3], LOCATORS[4], LOCATORS[5]}
    BY <1>1, <1>2 DEF ToSet
  <2> QED
    BY <2>1, <2>2
<1> QED
  BY <1>1, <1>3, <1>4, <1>5 DEF ToSet

\* The pages that answer to a name.
LEMMA ConfirmedIs ==
  ASSUME package \in Packages, NEW spec
  PROVE  /\ IsFiniteSet(Confirmed(spec))
         /\ \A p \in Confirmed(spec) :
              /\ p = <<p[1], p[2]>> /\ p[1] \in DOMAIN package /\ p[2] \in DOMAIN package[p[1]]
              /\ p[1] \in Nat /\ p[2] \in Nat \ {0}
              /\ Confidence(spec.name, p) \in Nat
              /\ \E r \in OfKind(spec.kind) : Holds(r, p[1], p[2])
<1>1. /\ Len(package) \in Nat /\ DOMAIN package = 1 .. Len(package)
      /\ \A f \in DOMAIN package : Len(package[f]) \in Nat /\ DOMAIN package[f] = 1 .. Len(package[f])
  BY PackageIs
<1>2. IsFiniteSet(Everywhere)
  <2> DEFINE G == [f \in DOMAIN package |-> {f} \X DOMAIN package[f]]
             U == {{f} \X DOMAIN package[f] : f \in DOMAIN package}
  <2>1. IsFiniteSet(DOMAIN package)
    BY <1>1, FS_Interval
  <2>2. G \in Surjection(DOMAIN package, U)
    BY DEF Surjection
  <2>3. IsFiniteSet(U)
    <3> HIDE DEF G, U
    <3> QED
      BY <2>1, <2>2, FS_Surjection
  <2>4. \A f \in DOMAIN package : IsFiniteSet({f} \X DOMAIN package[f])
    <3> TAKE f \in DOMAIN package
    <3>1. IsFiniteSet({f})
      BY FS_Singleton
    <3>2. IsFiniteSet(DOMAIN package[f])
      <4>1. Len(package[f]) \in Int /\ DOMAIN package[f] = 1 .. Len(package[f])
        BY <1>1
      <4>2. IsFiniteSet(1 .. Len(package[f]))
        BY <4>1, FS_Interval
      <4> QED
        BY <4>1, <4>2
    <3> QED
      BY <3>1, <3>2, FS_Product
  <2>5. \A T \in U : IsFiniteSet(T)
    BY <2>4
  <2>6. Everywhere = UNION U
    BY DEF Everywhere
  <2> HIDE DEF U
  <2> QED
    BY <2>3, <2>5, <2>6, FS_UNION
<1>3. \A p \in Everywhere : p = <<p[1], p[2]>> /\ p[1] \in DOMAIN package /\ p[2] \in DOMAIN package[p[1]]
  BY DEF Everywhere
<1>4. Confirmed(spec) \subseteq Everywhere
  BY DEF Confirmed
<1>5. IsFiniteSet(Confirmed(spec))
  BY <1>2, <1>4, FS_Subset
<1>6. \A f \in DOMAIN package : \A i \in DOMAIN package[f] : f \in Nat /\ i \in Nat \ {0}
  BY <1>1
<1>7. \A p \in Confirmed(spec) :
        /\ Confidence(spec.name, p) \in Nat
        /\ \E r \in OfKind(spec.kind) : Holds(r, p[1], p[2])
  BY <1>3, <1>4, PackagesAssumption DEF Confirmed, Confidence
<1> QED
  BY <1>3, <1>4, <1>5, <1>6, <1>7

\* A place: pages in a row of one file.
Place(name, s) ==
  /\ s = [file |-> s.file, first |-> s.first, last |-> s.last]
  /\ s.file \in Nat /\ s.first \in Nat /\ s.last \in Nat /\ s.first <= s.last
  /\ Total(name, s) \in Nat

\* Of finitely many places one is best, and none of them beats it.
LEMMA BestIs ==
  ASSUME NEW name, NEW ss, IsFiniteSet(ss), ss # {}, \A s \in ss : Place(name, s)
  PROVE  Best(name, ss) \in ss /\ \A t \in ss : ~Beats(name, t, Best(name, ss))
<1> DEFINE size == [s \in ss |-> s.last - s.first]
           total == [s \in ss |-> Total(name, s)]
<1>0. \A s \in ss : /\ s = [file |-> s.file, first |-> s.first, last |-> s.last]
                    /\ s.file \in Nat /\ s.first \in Nat /\ s.last \in Nat /\ s.first <= s.last
                    /\ Total(name, s) \in Nat
  BY DEF Place
<1>1. size \in [ss -> Nat] /\ total \in [ss -> Nat]
      /\ \A s \in ss : size[s] = s.last - s.first /\ total[s] = Total(name, s)
  BY <1>0
<1>2. \A s, t \in ss : Beats(name, s, t) <=> size[s] > size[t] \/ (size[s] = size[t] /\ total[s] > total[t])
  BY <1>1 DEF Beats
<1> HIDE DEF size, total
<1>3. PICK a \in ss : \A t \in ss : size[t] <= size[a]
  BY <1>1, GreatestOf
<1> DEFINE A == {s \in ss : size[s] = size[a]}
           totalA == [s \in A |-> total[s]]
<1>4. PICK b \in A : \A t \in A : total[t] <= total[b]
  <2>1. IsFiniteSet(A) /\ A # {}
    BY FS_Subset
  <2>2. totalA \in [A -> Nat] /\ \A t \in A : totalA[t] = total[t]
    BY <1>1
  <2> HIDE DEF A, totalA
  <2>3. PICK b \in A : \A t \in A : totalA[t] <= totalA[b]
    BY <2>1, <2>2, GreatestOf
  <2> QED
    BY <2>2, <2>3
<1> DEFINE B == {s \in A : total[s] = total[b]}
           Fs == {s.file : s \in B}
<1>5. PICK f \in Fs : \A g \in Fs : f <= g
  <2>1. Fs \subseteq Nat /\ Fs # {}
    BY <1>0
  <2> HIDE DEF Fs
  <2> QED
    BY <2>1, LeastNat
<1> DEFINE Ps == {s.first : s \in {t \in B : t.file = f}}
<1>6. PICK p \in Ps : \A q \in Ps : p <= q
  <2>1. Ps \subseteq Nat /\ Ps # {}
    BY <1>0, <1>5
  <2> HIDE DEF Ps
  <2> QED
    BY <2>1, LeastNat
<1>7. PICK c \in B : c.file = f /\ c.first = p
  BY <1>6
<1>8. c \in ss /\ size[c] = size[a] /\ total[c] = total[b]
  BY <1>7
<1>9. ASSUME NEW t \in ss, t # c
      PROVE  Beats(name, c, t) \/ (~Beats(name, t, c) /\ Before(c, t))
  <2>1. CASE size[t] # size[a]
    <3>1. size[t] < size[c]
      BY <1>1, <1>3, <1>8, <2>1
    <3> QED
      BY <1>2, <1>8, <3>1
  <2>2. CASE size[t] = size[a] /\ total[t] # total[b]
    <3>1. t \in A
      BY <2>2
    <3>2. total[t] < total[c]
      BY <1>1, <1>4, <1>8, <2>2, <3>1
    <3> QED
      BY <1>2, <1>8, <2>2, <3>2
  <2>3. CASE size[t] = size[a] /\ total[t] = total[b]
    <3>1. t \in B /\ t.file \in Fs
      BY <2>3
    <3>2. f <= t.file /\ (t.file = f => p <= t.first)
      BY <1>5, <1>6, <3>1
    <3>3. ~(t.file = f /\ t.first = p)
      <4> SUFFICES ASSUME t.file = f, t.first = p PROVE FALSE
        OBVIOUS
      <4>1. t.last = c.last
        <5>1. t.last - t.first = c.last - c.first
          BY <1>1, <1>8, <2>3
        <5>2. t.first = c.first /\ t.first \in Nat /\ t.last \in Nat /\ c.last \in Nat
          BY <1>0, <1>7, <1>8
        <5> QED
          BY <5>1, <5>2
      <4>2. t = c
        BY <1>0, <1>7, <1>8, <4>1
      <4> QED
        BY <1>9, <4>2
    <3>4. Before(c, t)
      BY <1>0, <1>7, <1>8, <3>2, <3>3 DEF Before
    <3>5. ~Beats(name, t, c)
      BY <1>1, <1>2, <1>8, <2>3
    <3> QED
      BY <3>4, <3>5
  <2> QED
    BY <2>1, <2>2, <2>3
<1> DEFINE Is(s) == \A t \in ss \ {s} : Beats(name, s, t) \/ (~Beats(name, t, s) /\ Before(s, t))
<1>10. \E s \in ss : Is(s)
  BY <1>8, <1>9
<1>11. Best(name, ss) = CHOOSE s \in ss : Is(s)
  BY DEF Best
<1> HIDE DEF Is
<1>12. Best(name, ss) \in ss /\ Is(Best(name, ss))
  BY <1>10, <1>11
<1>13. ASSUME NEW t \in ss PROVE ~Beats(name, t, Best(name, ss))
  <2>1. PICK s \in ss : s = Best(name, ss) /\ Is(s)
    BY <1>12
  <2>2. \A x, y \in ss : Beats(name, x, y) => ~Beats(name, y, x)
    BY <1>1, <1>2
  <2>3. Beats(name, s, t) => ~Beats(name, t, s)
    BY <2>2
  <2>4. ~Beats(name, s, s)
    BY <2>2
  <2>5. CASE t = s
    BY <2>1, <2>4, <2>5
  <2>6. CASE t # s
    BY <2>1, <2>3, <2>6 DEF Is
  <2> QED
    BY <2>5, <2>6
<1> QED
  BY <1>12, <1>13

Row(f, a, b) == [file |-> f, first |-> a, last |-> b]

\* Pages in a row of those that answer to a name are a place.
LEMMA RowIs ==
  ASSUME package \in Packages, NEW spec, NEW s,
         s = Row(s.file, s.first, s.last), s.first \in Nat \ {0}, s.last \in Nat, s.first <= s.last,
         PagesOf(s) \subseteq Confirmed(spec)
  PROVE  /\ Place(spec.name, s)
         /\ <<s.file, s.first>> \in Confirmed(spec) /\ <<s.file, s.last>> \in Confirmed(spec)
<1>1. s.first \in s.first .. s.last /\ s.last \in s.first .. s.last
  OBVIOUS
<1>2. \A i \in s.first .. s.last : <<s.file, i>> \in Confirmed(spec)
  BY DEF PagesOf
<1>3. \A p \in Confirmed(spec) : p[1] \in Nat /\ Confidence(spec.name, p) \in Nat
  BY ConfirmedIs
<1>4. \A i \in s.first .. s.last : Confidence(spec.name, <<s.file, i>>) \in Nat
  BY <1>2, <1>3
<1>5. Total(spec.name, s) \in Nat
  BY <1>4, TotalIsNat
<1>6. s.file \in Nat
  <2>1. <<s.file, s.first>> \in Confirmed(spec) /\ <<s.file, s.first>>[1] = s.file
    BY <1>1, <1>2
  <2> QED
    BY <1>3, <2>1
<1> QED
  BY <1>1, <1>2, <1>5, <1>6 DEF Place, Row

\* The spans are places.
LEMMA SpansArePlaces ==
  ASSUME package \in Packages, NEW spec, NEW s \in Spans(Confirmed(spec))
  PROVE  /\ s = Row(s.file, s.first, s.last) /\ s.first \in Nat \ {0} /\ s.last \in Nat /\ s.first <= s.last
         /\ PagesOf(s) \subseteq Confirmed(spec)
<1> DEFINE ps == Confirmed(spec)
<1>1. \A p \in ps : p[2] \in Nat \ {0}
  BY ConfirmedIs
<1> HIDE DEF ps
<1>2. /\ s \in [file : {p[1] : p \in ps}, first : {p[2] : p \in ps}, last : {p[2] : p \in ps}]
      /\ s.first <= s.last /\ PagesOf(s) \subseteq ps
  <2>1. s \in Spans(ps)
    BY DEF ps
  <2> QED
    BY <2>1 DEF Spans
<1>3. s.first \in {p[2] : p \in ps} /\ s.last \in {p[2] : p \in ps} /\ s = Row(s.file, s.first, s.last)
  BY <1>2 DEF Row
<1> QED
  BY <1>1, <1>2, <1>3 DEF ps

\* There are finitely many.
LEMMA SpansAreFinite ==
  ASSUME package \in Packages, NEW spec
  PROVE  IsFiniteSet(Spans(Confirmed(spec)))
<1> DEFINE C == Confirmed(spec)
           S == Spans(C)
           ends == [s \in S |-> <<<<s.file, s.first>>, <<s.file, s.last>>>>]
<1>1. \A s \in S : /\ s = Row(s.file, s.first, s.last)
                   /\ <<s.file, s.first>> \in C /\ <<s.file, s.last>> \in C
  <2> TAKE s \in S
  <2>1. /\ s = Row(s.file, s.first, s.last) /\ s.first \in Nat \ {0} /\ s.last \in Nat /\ s.first <= s.last
        /\ PagesOf(s) \subseteq Confirmed(spec)
    BY SpansArePlaces
  <2> QED
    BY <2>1, RowIs
<1>2. IsFiniteSet(C)
  BY ConfirmedIs
<1>3. IsFiniteSet(C \X C)
  BY <1>2, FS_Product
<1> HIDE DEF C, S
<1>4. ends \in Injection(S, C \X C)
  <2>1. ends \in [S -> C \X C]
    BY <1>1
  <2>2. ASSUME NEW s \in S, NEW t \in S, ends[s] = ends[t] PROVE s = t
    <3>1. s.file = t.file /\ s.first = t.first /\ s.last = t.last
      BY <2>2
    <3> QED
      BY <1>1, <3>1
  <2> QED
    BY <2>1, <2>2 DEF Injection, IsInjective
<1> HIDE DEF ends
<1>5. IsFiniteSet(S)
  BY <1>3, <1>4, FS_Injection
<1> QED
  BY <1>5 DEF S, C

\* Every row of pages is in a span.
LEMMA RowIsInSpan ==
  ASSUME package \in Packages, NEW spec, NEW f, NEW a \in Nat \ {0}, NEW b \in Nat, a <= b,
         PagesOf(Row(f, a, b)) \subseteq Confirmed(spec)
  PROVE  \E s \in Spans(Confirmed(spec)) : s.file = f /\ s.first <= a /\ b <= s.last
<1> DEFINE C == Confirmed(spec)
<1>1. \A i \in a .. b : <<f, i>> \in C
  BY DEF PagesOf, Row
<1>2. \A i : <<f, i>> \in C => i \in Nat \ {0} /\ f \in DOMAIN package /\ i \in DOMAIN package[f]
  <2>1. \A p \in C : p[2] \in Nat \ {0} /\ p[1] \in DOMAIN package /\ p[2] \in DOMAIN package[p[1]]
    BY ConfirmedIs
  <2> HIDE DEF C
  <2> QED
    BY <2>1
<1>3. f \in DOMAIN package
  <2>1. a \in a .. b
    OBVIOUS
  <2> QED
    BY <1>1, <1>2, <2>1
<1>4. PICK n \in Nat : DOMAIN package[f] = 1 .. n
  BY <1>3, PackageIs
<1> HIDE DEF C
<1> DEFINE T == {x \in 1 .. a : \A i \in x .. b : <<f, i>> \in C}
<1>5. a \in T
  BY <1>1
<1>6. PICK x \in T : \A y \in T : x <= y
  <2>1. T \subseteq Nat /\ T # {}
    BY <1>5
  <2> HIDE DEF T
  <2> QED
    BY <2>1, LeastNat
<1>7. x \in 1 .. a /\ \A i \in x .. b : <<f, i>> \in C
  BY <1>6
<1>8. <<f, x - 1>> \notin C
  <2> SUFFICES ASSUME <<f, x - 1>> \in C PROVE FALSE
    OBVIOUS
  <2>1. x - 1 \in 1 .. a
    BY <1>2, <1>7
  <2>2. \A i \in x - 1 .. b : i = x - 1 \/ i \in x .. b
    BY <1>7
  <2>3. x - 1 \in T
    BY <1>7, <2>1, <2>2
  <2> HIDE DEF T
  <2>4. x <= x - 1
    BY <1>6, <2>3
  <2> QED
    BY <1>7, <2>4
<1> DEFINE U == {y \in Nat : y >= b /\ <<f, y + 1>> \notin C}
<1>9. n \in U
  <2>1. b \in 1 .. n
    <3>1. b \in a .. b
      OBVIOUS
    <3> QED
      BY <1>1, <1>2, <1>4, <3>1
  <2>2. n + 1 \notin 1 .. n
    BY <1>4
  <2> QED
    BY <1>2, <1>4, <2>1, <2>2
<1>10. PICK y \in U : \A z \in U : y <= z
  <2>1. U \subseteq Nat /\ U # {}
    BY <1>9
  <2> HIDE DEF U
  <2> QED
    BY <2>1, LeastNat
<1>11. y \in Nat /\ y >= b /\ <<f, y + 1>> \notin C
  BY <1>10
<1>12. \A i \in x .. y : <<f, i>> \in C
  <2> SUFFICES ASSUME NEW i \in x .. y, <<f, i>> \notin C PROVE FALSE
    OBVIOUS
  <2>1. ~(i <= b)
    BY <1>7
  <2>2. i - 1 \in Nat /\ i - 1 >= b /\ (i - 1) + 1 = i /\ i - 1 < y
    BY <1>7, <1>11, <2>1
  <2>3. i - 1 \in U
    BY <2>2
  <2> HIDE DEF U
  <2>4. y <= i - 1
    BY <1>10, <2>3
  <2> QED
    BY <1>11, <2>2, <2>4
<1> DEFINE s == Row(f, x, y)
<1>13. s.file = f /\ s.first = x /\ s.last = y
  BY DEF Row
<1>14. x <= y /\ <<f, x>> \in C /\ <<f, y>> \in C
  <2>1. x \in x .. y /\ y \in x .. y
    BY <1>7, <1>11
  <2> QED
    BY <1>7, <1>11, <1>12, <2>1
<1>15. s \in [file : {p[1] : p \in C}, first : {p[2] : p \in C}, last : {p[2] : p \in C}]
  <2>1. f \in {p[1] : p \in C} /\ x \in {p[2] : p \in C} /\ y \in {p[2] : p \in C}
    <3>1. <<f, x>>[1] = f /\ <<f, x>>[2] = x /\ <<f, y>>[2] = y
      OBVIOUS
    <3> QED
      BY <1>14, <3>1
  <2> QED
    BY <2>1 DEF Row
<1>16. PagesOf(s) \subseteq C
  BY <1>12, <1>13 DEF PagesOf
<1> HIDE DEF s
<1>17. s \in Spans(C)
  BY <1>8, <1>11, <1>13, <1>14, <1>15, <1>16 DEF Spans
<1> QED
  BY <1>7, <1>11, <1>13, <1>17 DEF C

Candidate(spec) == IF spec.many THEN Spans(Confirmed(spec)) ELSE Singles(Confirmed(spec))

\* What is located are pages of its name, and no row of them is better.
LEMMA CandidateIsBest ==
  ASSUME package \in Packages, NEW spec, spec.many \in BOOLEAN, Confirmed(spec) # {},
         NEW at, at = Best(spec.name, Candidate(spec))
  PROVE  /\ at.first \in Nat /\ at.last \in Nat /\ at.first <= at.last
         /\ PagesOf(at) \subseteq Confirmed(spec)
         /\ \A f : \A a, b \in Nat \ {0} :
              (a <= b /\ PagesOf(Row(f, a, b)) \subseteq Confirmed(spec) /\ (spec.many \/ a = b)) =>
                /\ b - a <= at.last - at.first
                /\ b - a = at.last - at.first =>
                     Total(spec.name, Row(f, a, b)) <= Total(spec.name, at)
<1> DEFINE C == Confirmed(spec)
           S == Candidate(spec)
           name == spec.name
<1>1. \A p \in C : p = <<p[1], p[2]>> /\ p[2] \in Nat \ {0}
  BY ConfirmedIs
<1>2. \A s \in S : /\ s = Row(s.file, s.first, s.last) /\ s.first \in Nat \ {0} /\ s.last \in Nat
                   /\ s.first <= s.last /\ PagesOf(s) \subseteq C
  <2>1. CASE spec.many
    <3>1. S = Spans(C)
      BY <2>1 DEF Candidate
    <3> QED
      BY <3>1, SpansArePlaces
  <2>2. CASE ~spec.many
    <3>1. S = Singles(C)
      BY <2>2 DEF Candidate
    <3> SUFFICES ASSUME NEW s \in S
                 PROVE  /\ s = Row(s.file, s.first, s.last) /\ s.first \in Nat \ {0} /\ s.last \in Nat
                        /\ s.first <= s.last /\ PagesOf(s) \subseteq C
      OBVIOUS
    <3> HIDE DEF C, S
    <3>2. PICK p \in C : s = Row(p[1], p[2], p[2])
      BY <3>1 DEF Singles, Row
    <3>3. s.file = p[1] /\ s.first = p[2] /\ s.last = p[2]
      BY <3>2 DEF Row
    <3>4. p[2] \in Nat \ {0} /\ p = <<p[1], p[2]>>
      BY <1>1
    <3>5. \A i \in p[2] .. p[2] : i = p[2]
      BY <3>4
    <3>6. PagesOf(s) \subseteq C
      BY <3>3, <3>4, <3>5 DEF PagesOf
    <3> QED
      BY <3>2, <3>3, <3>4, <3>6
  <2> QED
    BY <2>1, <2>2
<1>3. \A s \in S : Place(name, s)
  BY <1>2, RowIs
<1>4. ASSUME NEW f, NEW a \in Nat \ {0}, NEW b \in Nat \ {0}, a <= b, PagesOf(Row(f, a, b)) \subseteq C,
             spec.many \/ a = b
      PROVE  \E s \in S : s.file = f /\ s.first <= a /\ b <= s.last
  <2>1. CASE spec.many
    <3>1. S = Spans(C)
      BY <2>1 DEF Candidate
    <3>2. \E s \in Spans(C) : s.file = f /\ s.first <= a /\ b <= s.last
      BY <1>4, RowIsInSpan
    <3> QED
      BY <3>1, <3>2
  <2>2. CASE ~spec.many
    <3>1. S = Singles(C) /\ a = b
      BY <1>4, <2>2 DEF Candidate
    <3>2. a \in a .. b /\ Row(f, a, b).file = f /\ Row(f, a, b).first = a /\ Row(f, a, b).last = b
      BY <1>4 DEF Row
    <3>3. <<f, a>> \in C
      BY <1>4, <3>2 DEF PagesOf
    <3> HIDE DEF C, S
    <3>4. Row(f, a, a) \in Singles(C)
      <4>1. <<f, a>>[1] = f /\ <<f, a>>[2] = a
        OBVIOUS
      <4> QED
        BY <3>3, <4>1 DEF Singles, Row
    <3> QED
      BY <3>1, <3>2, <3>4
  <2> QED
    BY <2>1, <2>2
<1>5. S # {}
  <2>1. PICK p \in C : TRUE
    OBVIOUS
  <2>2. p = <<p[1], p[2]>> /\ p[2] \in Nat \ {0}
    BY <1>1
  <2>3. PagesOf(Row(p[1], p[2], p[2])) \subseteq C
    <3>1. \A i \in p[2] .. p[2] : i = p[2]
      BY <2>2
    <3>2. Row(p[1], p[2], p[2]).file = p[1] /\ Row(p[1], p[2], p[2]).first = p[2]
          /\ Row(p[1], p[2], p[2]).last = p[2]
      BY DEF Row
    <3> HIDE DEF C
    <3> QED
      BY <2>2, <3>1, <3>2 DEF PagesOf
  <2> HIDE DEF C, S
  <2>4. \E s \in S : s.file = p[1] /\ s.first <= p[2] /\ p[2] <= s.last
    BY <1>4, <2>2, <2>3
  <2> QED
    BY <2>4
<1>6. IsFiniteSet(S)
  <2>1. CASE spec.many
    BY <2>1, SpansAreFinite DEF Candidate
  <2>2. CASE ~spec.many
    <3>1. S = Singles(C)
      BY <2>2 DEF Candidate
    <3> DEFINE single == [p \in C |-> [file |-> p[1], first |-> p[2], last |-> p[2]]]
    <3>2. IsFiniteSet(C)
      BY ConfirmedIs
    <3> HIDE DEF C, S
    <3>3. single \in Surjection(C, Singles(C))
      BY DEF Surjection, Singles
    <3> HIDE DEF single
    <3> QED
      BY <3>1, <3>2, <3>3, FS_Surjection
  <2> QED
    BY <2>1, <2>2
<1> HIDE DEF S
<1>7. at \in S /\ \A t \in S : ~Beats(name, t, at)
  BY <1>3, <1>5, <1>6, BestIs DEF S
<1>8. at = Row(at.file, at.first, at.last) /\ at.first \in Nat \ {0} /\ at.last \in Nat
      /\ at.first <= at.last /\ PagesOf(at) \subseteq C
  BY <1>2, <1>7
<1>9. ASSUME NEW f, NEW a \in Nat \ {0}, NEW b \in Nat \ {0}, a <= b, PagesOf(Row(f, a, b)) \subseteq C,
             spec.many \/ a = b
      PROVE  /\ b - a <= at.last - at.first
             /\ b - a = at.last - at.first => Total(name, Row(f, a, b)) <= Total(name, at)
  <2>1. PICK s \in S : s.file = f /\ s.first <= a /\ b <= s.last
    BY <1>4, <1>9
  <2>2. s = Row(f, s.first, s.last) /\ s.first \in Nat \ {0} /\ s.last \in Nat /\ Place(name, s)
    BY <1>2, <1>3, <2>1
  <2>3. Total(name, s) \in Nat /\ Total(name, at) \in Nat
    BY <1>3, <1>7, <2>2 DEF Place
  <2>4. /\ s.last - s.first <= at.last - at.first
        /\ s.last - s.first = at.last - at.first => Total(name, s) <= Total(name, at)
    BY <1>7, <1>8, <2>2, <2>3 DEF Beats
  <2>5. b - a <= s.last - s.first /\ (b - a = s.last - s.first => s.first = a /\ s.last = b)
    BY <1>9, <2>1, <2>2
  <2>6. b - a = at.last - at.first => s = Row(f, a, b) /\ s.last - s.first = at.last - at.first
    BY <1>8, <2>2, <2>4, <2>5
  <2> QED
    BY <1>8, <2>2, <2>4, <2>5, <2>6
<1> HIDE DEF C
<1>10. \A f : \A a, b \in Nat \ {0} :
         (a <= b /\ PagesOf(Row(f, a, b)) \subseteq C /\ (spec.many \/ a = b)) =>
           /\ b - a <= at.last - at.first
           /\ b - a = at.last - at.first => Total(name, Row(f, a, b)) <= Total(name, at)
  BY <1>9
<1> QED
  BY <1>8, <1>10 DEF C

\* Pages of one kind in a row are of one region.
LEMMA RowIsInRegion ==
  ASSUME SegmentInv, NEW kind, NEW f, NEW a \in Nat, NEW b \in Nat, a <= b,
         \A i \in a .. b : \E r \in OfKind(kind) : Holds(r, f, i)
  PROVE  \E r \in OfKind(kind) : Holds(r, f, a) /\ Holds(r, f, b)
<1>1. a \in a .. b /\ b \in a .. b
  OBVIOUS
<1>2. \A i \in a .. b : \E k \in DOMAIN regions : regions[k].kind = kind /\ Holds(regions[k], f, i)
  BY DEF OfKind, ToSet
<1>3. PICK k \in DOMAIN regions : regions[k].kind = kind /\ Holds(regions[k], f, a)
  BY <1>1, <1>2
<1>4. regions \in Seq(Regions) /\ RegionsAreOrdered
  BY DEF SegmentInv, Mapped, RegionsAreTiles
<1>5. \A j \in DOMAIN regions : j \in Nat /\ regions[j].first \in Nat /\ regions[j].last \in Nat
  <2>1. \A r \in Regions : r.first \in Nat /\ r.last \in Nat
    BY DEF Regions
  <2>2. DOMAIN regions \subseteq Nat /\ \A j \in DOMAIN regions : regions[j] \in Regions
    BY <1>4
  <2> QED
    BY <2>1, <2>2
<1> DEFINE T == {i \in a .. b : ~Holds(regions[k], f, i)}
<1>6. T = {}
  <2> SUFFICES ASSUME T # {} PROVE FALSE
    OBVIOUS
  <2>1. PICK i \in T : \A j \in T : i <= j
    <3>1. T \subseteq Nat
      OBVIOUS
    <3> HIDE DEF T
    <3> QED
      BY <3>1, LeastNat
  <2>2. i \in a .. b /\ ~Holds(regions[k], f, i)
    BY <2>1
  <2>3. i # a
    BY <1>3, <2>2
  <2>4. i - 1 \in a .. b /\ ~(i <= i - 1)
    BY <2>2, <2>3
  <2>5. Holds(regions[k], f, i - 1)
    <3>1. i - 1 \notin T
      <4> HIDE DEF T
      <4> QED
        BY <2>1, <2>4
    <3> QED
      BY <2>4, <3>1
  <2>6. PICK l \in DOMAIN regions : regions[l].kind = kind /\ Holds(regions[l], f, i)
    BY <1>2, <2>2
  <2>7. /\ regions[k].file = f /\ regions[l].file = f
        /\ regions[k].first <= i - 1 /\ i - 1 <= regions[k].last /\ ~(i <= regions[k].last)
        /\ regions[l].first <= i /\ i <= regions[l].last
    BY <1>5, <2>2, <2>5, <2>6 DEF Holds
  <2>8. ~(l < k)
    BY <1>4, <1>5, <2>2, <2>7, SMTT(30) DEF RegionsAreOrdered
  <2>9. k # l
    BY <2>2, <2>6
  <2>10. regions[k].last < regions[l].first
    BY <1>4, <1>5, <2>7, <2>8, <2>9 DEF RegionsAreOrdered
  <2>11. regions[l].first = regions[k].last + 1
    BY <1>5, <2>2, <2>7, <2>10
  <2> QED
    BY <1>3, <1>4, <2>6, <2>7, <2>11 DEF RegionsAreOrdered
<1>7. Holds(regions[k], f, b)
  BY <1>1, <1>6
<1> QED
  BY <1>3, <1>7 DEF OfKind, ToSet

-----------------------------------------------------------------------------
(***************************************************************************)
(* Location: its inductive invariant and its steps                         *)
(***************************************************************************)

\* What is located is what _assemble makes of the regions, one artifact after another.
ArtifactsAreAssembled ==
  \E n \in 0 .. 5 :
    /\ mapping \in {"segment", "locate", "mapped"}
    /\ mapping = "segment" => n = 0
    /\ mapping = "mapped" <=> n = 5
    /\ IsFiniteSet(DOMAIN artifacts) /\ Cardinality(DOMAIN artifacts) = n
    /\ DOMAIN artifacts = {LOCATORS[i].name : i \in 1 .. n}
    /\ \A i \in 1 .. n : artifacts[LOCATORS[i].name] = Assembled(LOCATORS[i])

\* What is assembled is from the package and its regions.
LEMMA AssembledStays ==
  ASSUME UNCHANGED <<package, regions>>, NEW spec
  PROVE  Assembled(spec)' = Assembled(spec)
<1>1. Confirmed(spec)' = Confirmed(spec) /\ OfKind(spec.kind)' = OfKind(spec.kind)
  BY DEF Confirmed, OfKind, Everywhere
<1>2. \A name, p : Confidence(name, p)' = Confidence(name, p)
  BY DEF Confidence
<1>3. \A name, s : Summed(name, s)' = Summed(name, s)
  BY <1>2 DEF Summed, Confidence
<1>4. \A name, s : Total(name, s)' = Total(name, s)
  BY <1>3 DEF Total
<1>5. \A name, ss : Best(name, ss)' = Best(name, ss)
  BY <1>4 DEF Best, Beats
<1> QED
  BY <1>1, <1>2, <1>5 DEF Assembled

\* The states of an artifact.
LEMMA AssembledIs ==
  ASSUME package \in Packages, NEW spec
  PROVE  /\ Confirmed(spec) # {} => OfKind(spec.kind) # {}
         /\ Assembled(spec).status \in {"found", "low_confidence"} <=> Confirmed(spec) # {}
         /\ Assembled(spec).status = "absent" <=> OfKind(spec.kind) # {} /\ Confirmed(spec) = {}
         /\ Confirmed(spec) # {} => Assembled(spec).at = Best(spec.name, Candidate(spec))
<1>1. Confirmed(spec) # {} => OfKind(spec.kind) # {}
  BY DEF Confirmed
<1>2. CASE OfKind(spec.kind) = {}
  <2>1. Assembled(spec) = [status |-> "not_applicable", at |-> Nowhere]
    BY <1>2 DEF Assembled
  <2> QED
    BY <1>1, <1>2, <2>1
<1>3. CASE OfKind(spec.kind) # {} /\ Confirmed(spec) = {}
  <2>1. Assembled(spec) = [status |-> "absent", at |-> Nowhere]
    BY <1>3 DEF Assembled
  <2> QED
    BY <1>3, <2>1
<1>4. CASE Confirmed(spec) # {}
  <2>1. \E sure \in BOOLEAN : Assembled(spec) = [status |-> IF sure THEN "found" ELSE "low_confidence",
                                                 at |-> Best(spec.name, Candidate(spec))]
    BY <1>1, <1>4 DEF Assembled, Candidate
  <2> QED
    BY <1>1, <1>4, <2>1
<1> QED
  BY <1>1, <1>2, <1>3, <1>4

\* Nothing but the locator is about the artifacts, and it starts after the last region.
LEMMA ArtifactsStay ==
  ASSUME ArtifactsAreAssembled, UNCHANGED <<package, artifacts>>,
         \/ UNCHANGED <<mapping, regions>>
         \/ mapping = "segment" /\ mapping' \in {"segment", "locate"}
  PROVE  ArtifactsAreAssembled'
<1>1. PICK n \in 0 .. 5 :
        /\ mapping \in {"segment", "locate", "mapped"}
        /\ mapping = "segment" => n = 0
        /\ mapping = "mapped" <=> n = 5
        /\ IsFiniteSet(DOMAIN artifacts) /\ Cardinality(DOMAIN artifacts) = n
        /\ DOMAIN artifacts = {LOCATORS[i].name : i \in 1 .. n}
        /\ \A i \in 1 .. n : artifacts[LOCATORS[i].name] = Assembled(LOCATORS[i])
  BY DEF ArtifactsAreAssembled
<1>2. \A i \in 1 .. n : artifacts'[LOCATORS[i].name] = Assembled(LOCATORS[i])'
  <2>1. CASE UNCHANGED <<mapping, regions>>
    <3>1. \A i \in 1 .. n : Assembled(LOCATORS[i])' = Assembled(LOCATORS[i])
      BY <2>1, AssembledStays DEF LOCATORS
    <3> QED
      BY <1>1, <3>1
  <2>2. CASE mapping = "segment"
    <3>1. n = 0
      BY <1>1, <2>2
    <3> QED
      BY <3>1
  <2> QED
    BY <2>1, <2>2
<1>3. /\ mapping' \in {"segment", "locate", "mapped"}
      /\ mapping' = "segment" => n = 0
      /\ mapping' = "mapped" <=> n = 5
  BY <1>1
<1>4. LOCATORS' = LOCATORS
  BY DEF LOCATORS
<1> QED
  BY <1>1, <1>2, <1>3, <1>4 DEF ArtifactsAreAssembled

\* Each turn of the locator adds the next artifact.
LEMMA LocateStep ==
  ASSUME ArtifactsAreAssembled, Locate
  PROVE  ArtifactsAreAssembled'
<1>1. PICK n \in 0 .. 5 :
        /\ mapping \in {"segment", "locate", "mapped"} /\ (mapping = "mapped" <=> n = 5)
        /\ IsFiniteSet(DOMAIN artifacts) /\ Cardinality(DOMAIN artifacts) = n
        /\ DOMAIN artifacts = {LOCATORS[i].name : i \in 1 .. n}
        /\ \A i \in 1 .. n : artifacts[LOCATORS[i].name] = Assembled(LOCATORS[i])
  BY DEF ArtifactsAreAssembled
<1>2. /\ mapping = "locate" /\ UNCHANGED <<package, kinds, regions>>
      /\ mapping' = IF Cardinality(DOMAIN artifacts') = Len(LOCATORS) THEN "mapped" ELSE "locate"
  BY DEF Locate
<1>3. n \in 0 .. 4 /\ n + 1 \in 1 .. 5
  BY <1>1, <1>2
<1>4. PICK spec \in ToSet(LOCATORS) :
        spec = LOCATORS[n + 1] /\ artifacts' = Put(artifacts, spec.name, Assembled(spec))
  BY <1>1 DEF Locate
<1> DEFINE N(i) == LOCATORS[i].name
<1>5. \A i \in 1 .. n : N(i) # spec.name
  BY <1>3, <1>4, SpecIs
<1>6. /\ DOMAIN artifacts' = DOMAIN artifacts \cup {spec.name}
      /\ artifacts'[spec.name] = Assembled(spec)
      /\ \A x \in DOMAIN artifacts : x # spec.name => artifacts'[x] = artifacts[x]
  BY <1>4 DEF Put
<1>7. \A i \in 1 .. n + 1 : i \in 1 .. n \/ i = n + 1
  BY <1>3
<1>8. DOMAIN artifacts' = {N(i) : i \in 1 .. n + 1}
  <2>1. \A i \in 1 .. n : i \in 1 .. n + 1
    BY <1>3
  <2>2. N(n + 1) = spec.name /\ n + 1 \in 1 .. n + 1
    BY <1>3, <1>4
  <2>3. DOMAIN artifacts = {N(i) : i \in 1 .. n}
    BY <1>1
  <2> HIDE DEF N
  <2> QED
    BY <1>6, <1>7, <2>1, <2>2, <2>3
<1>9. IsFiniteSet(DOMAIN artifacts') /\ Cardinality(DOMAIN artifacts') = n + 1
  <2>1. spec.name \notin DOMAIN artifacts
    BY <1>1, <1>5
  <2> QED
    BY <1>1, <1>6, <2>1, FS_AddElement, SMTT(30)
<1>10. \A i \in 1 .. 5 : Assembled(LOCATORS[i])' = Assembled(LOCATORS[i])
  BY <1>2, AssembledStays DEF LOCATORS
<1>11. \A i \in 1 .. n + 1 : artifacts'[N(i)] = Assembled(LOCATORS[i])'
  <2> TAKE i \in 1 .. n + 1
  <2>1. i \in 1 .. 5
    BY <1>3
  <2>2. CASE i = n + 1
    BY <1>4, <1>6, <1>10, <2>1, <2>2
  <2>3. CASE i \in 1 .. n
    <3>1. artifacts[N(i)] = Assembled(LOCATORS[i]) /\ N(i) \in DOMAIN artifacts
      BY <1>1, <2>3
    <3>2. artifacts'[N(i)] = artifacts[N(i)]
      BY <1>5, <1>6, <2>3, <3>1
    <3> QED
      BY <1>10, <2>1, <3>1, <3>2
  <2> QED
    BY <1>7, <2>2, <2>3
<1>12. mapping' = IF n + 1 = 5 THEN "mapped" ELSE "locate"
  BY <1>2, <1>9, SpecIs
<1>13. LOCATORS' = LOCATORS
  BY DEF LOCATORS
<1>14. PICK m \in 0 .. 5 : m = n + 1
  BY <1>3
<1>15. /\ mapping' \in {"segment", "locate", "mapped"}
       /\ mapping' = "segment" => m = 0
       /\ mapping' = "mapped" <=> m = 5
  BY <1>3, <1>12, <1>14
<1>16. /\ IsFiniteSet(DOMAIN artifacts') /\ Cardinality(DOMAIN artifacts') = m
       /\ DOMAIN artifacts' = {LOCATORS[i].name : i \in 1 .. m}
  BY <1>8, <1>9, <1>14
<1>17. \A i \in 1 .. m : artifacts'[LOCATORS[i].name] = Assembled(LOCATORS[i])'
  BY <1>11, <1>14
<1> QED
  BY <1>13, <1>15, <1>16, <1>17 DEF ArtifactsAreAssembled

\* The invariant of location holds in every state.
THEOREM ArtifactsInvariant == Spec => []ArtifactsAreAssembled
<1>1. Init => ArtifactsAreAssembled
  <2> SUFFICES ASSUME MapInit PROVE ArtifactsAreAssembled
    BY DEF Init
  <2>1. mapping = "segment" /\ DOMAIN artifacts = {}
    BY DEF MapInit
  <2>2. IsFiniteSet(DOMAIN artifacts) /\ Cardinality(DOMAIN artifacts) = 0
    BY <2>1, FS_EmptySet
  <2> QED
    BY <2>1, <2>2 DEF ArtifactsAreAssembled
<1>2. ArtifactsAreAssembled /\ [Next]_vars => ArtifactsAreAssembled'
  <2> SUFFICES ASSUME ArtifactsAreAssembled, [Next]_vars PROVE ArtifactsAreAssembled'
    OBVIOUS
  <2>1. CASE Locate
    BY <2>1, LocateStep
  <2>2. CASE SegmentFile \/ AbsorbStray \/ EmitRegions \/ StartLocating
    BY <2>2, ArtifactsStay DEF SegmentFile, AbsorbStray, EmitRegions, StartLocating
  <2>3. CASE UNCHANGED mapVars
    BY <2>3, ArtifactsStay DEF mapVars
  <2>4. MapNext \/ UNCHANGED mapVars
    BY DEF Next, vars, Parse, Link, LinkRaises, Trace, AddDoor, DoorsDone, AddFinishes,
           RoomsDone, AddReferences, Report, Finished
  <2> QED
    BY <2>1, <2>2, <2>3, <2>4 DEF MapNext
<1> QED
  BY <1>1, <1>2, PTL DEF Spec

\* locate_all: what is located is the longest row of confirmed pages of one region,
\* or as long with the most confidence, and the completeness report is exact.
THEOREM BestIsLocated == Spec => []LocatedIsBest
<1>1. ASSUME SegmentInv, ArtifactsAreAssembled PROVE LocatedIsBest
  <2> SUFFICES ASSUME NEW spec \in ToSet(LOCATORS), spec.name \in DOMAIN artifacts
               PROVE  LET at == artifacts[spec.name].at
                      IN  /\ Located(spec.name) =>
                               /\ PagesOf(at) \subseteq Confirmed(spec)
                               /\ \E r \in OfKind(spec.kind) :
                                    Holds(r, at.file, at.first) /\ Holds(r, at.file, at.last)
                               /\ \A p, q \in Confirmed(spec) :
                                    LET row == [file |-> p[1], first |-> p[2], last |-> q[2]]
                                    IN  (/\ p[1] = q[1] /\ p[2] <= q[2] /\ PagesOf(row) \subseteq Confirmed(spec)
                                         /\ spec.many \/ p = q) =>
                                         /\ q[2] - p[2] <= at.last - at.first
                                         /\ q[2] - p[2] = at.last - at.first =>
                                              Total(spec.name, row) <= Total(spec.name, at)
                          /\ mapping = "mapped" =>
                               /\ spec.name \in Completeness.missing <=> OfKind(spec.kind) # {} /\ Confirmed(spec) = {}
                               /\ spec.name \in Completeness.found <=> Confirmed(spec) # {}
                               /\ spec.name \in Completeness.not_applicable <=> OfKind(spec.kind) = {}
    BY DEF LocatedIsBest
  <2>1. package \in Packages
    BY <1>1 DEF SegmentInv, Mapped
  <2>2. PICK n \in 0 .. 5 :
          /\ DOMAIN artifacts = {LOCATORS[i].name : i \in 1 .. n}
          /\ \A i \in 1 .. n : artifacts[LOCATORS[i].name] = Assembled(LOCATORS[i])
    BY <1>1 DEF ArtifactsAreAssembled
  <2>3. artifacts[spec.name] = Assembled(spec)
    <3>1. PICK i \in 1 .. n : spec.name = LOCATORS[i].name
      BY <2>2
    <3>2. PICK j \in 1 .. 5 : spec = LOCATORS[j]
      BY SpecIs DEF ToSet
    <3>3. i = j
      BY <3>1, <3>2, SpecIs
    <3> QED
      BY <2>2, <3>1, <3>2, <3>3
  <2> DEFINE at == artifacts[spec.name].at
             C == Confirmed(spec)
  <2>4. spec.many \in BOOLEAN /\ ARTIFACT_REGION[spec.name] = spec.kind
    BY SpecIs
  <2>5. /\ C # {} => OfKind(spec.kind) # {}
        /\ Located(spec.name) <=> C # {}
        /\ artifacts[spec.name].status = "absent" <=> OfKind(spec.kind) # {} /\ C = {}
        /\ C # {} => at = Best(spec.name, Candidate(spec))
    BY <2>1, <2>3, AssembledIs DEF Located
  <2>6. ASSUME Located(spec.name)
        PROVE  /\ PagesOf(at) \subseteq C
               /\ \E r \in OfKind(spec.kind) : Holds(r, at.file, at.first) /\ Holds(r, at.file, at.last)
               /\ \A p, q \in C :
                    (/\ p[1] = q[1] /\ p[2] <= q[2] /\ PagesOf(Row(p[1], p[2], q[2])) \subseteq C
                     /\ spec.many \/ p = q) =>
                     /\ q[2] - p[2] <= at.last - at.first
                     /\ q[2] - p[2] = at.last - at.first =>
                          Total(spec.name, Row(p[1], p[2], q[2])) <= Total(spec.name, at)
    <3>1. /\ at.first \in Nat /\ at.last \in Nat /\ at.first <= at.last /\ PagesOf(at) \subseteq C
          /\ \A f : \A a, b \in Nat \ {0} :
               (a <= b /\ PagesOf(Row(f, a, b)) \subseteq C /\ (spec.many \/ a = b)) =>
                 /\ b - a <= at.last - at.first
                 /\ b - a = at.last - at.first => Total(spec.name, Row(f, a, b)) <= Total(spec.name, at)
      BY <2>1, <2>4, <2>5, <2>6, CandidateIsBest
    <3>2. \A p \in C : p[2] \in Nat \ {0} /\ \E r \in OfKind(spec.kind) : Holds(r, p[1], p[2])
      BY <2>1, ConfirmedIs
    <3> HIDE DEF at, C
    <3>3. \A i \in at.first .. at.last : \E r \in OfKind(spec.kind) : Holds(r, at.file, i)
      <4> TAKE i \in at.first .. at.last
      <4>1. <<at.file, i>> \in C
        BY <3>1 DEF PagesOf
      <4>2. <<at.file, i>>[1] = at.file /\ <<at.file, i>>[2] = i
        OBVIOUS
      <4> QED
        BY <3>2, <4>1, <4>2
    <3>4. \E r \in OfKind(spec.kind) : Holds(r, at.file, at.first) /\ Holds(r, at.file, at.last)
      BY <1>1, <3>1, <3>3, RowIsInRegion
    <3> QED
      BY <3>1, <3>2, <3>4
  <2>7. /\ spec.name \in Completeness.missing <=> OfKind(spec.kind) # {} /\ C = {}
        /\ spec.name \in Completeness.found <=> C # {}
        /\ spec.name \in Completeness.not_applicable <=> OfKind(spec.kind) = {}
    <3> DEFINE Expected == {x \in DOMAIN artifacts : ARTIFACT_REGION[x] \in {r.kind : r \in ToSet(regions)}}
    <3>1. spec.name \in Expected <=> OfKind(spec.kind) # {}
      BY <2>4 DEF OfKind
    <3>2. /\ Completeness.missing = {x \in Expected : artifacts[x].status = "absent"}
          /\ Completeness.found = {x \in Expected : Located(x)}
          /\ Completeness.not_applicable = DOMAIN artifacts \ Expected
      BY DEF Completeness
    <3> HIDE DEF Expected, C
    <3> QED
      BY <2>5, <3>1, <3>2
  <2> HIDE DEF C
  <2> QED
    BY <2>6, <2>7 DEF C, Row
<1> QED
  BY <1>1, SegmentInvariant, ArtifactsInvariant, PTL

-----------------------------------------------------------------------------
(***************************************************************************)
(* The graph: its inductive invariant                                      *)
(***************************************************************************)

\* Whatever was derived, a link leads to the hand-authored section; all codes
\* are linked before the graph grows.
LinksAreSeeded ==
  /\ \A c \in DOMAIN links : c \in Codes /\ links[c].section = Seed(c)
  /\ building \in {"trace", "doors", "rooms", "refs", "built", "reported"} => DOMAIN links = Codes

\* A node is of the kind its id says, and a section is one of the contents
\* unless it is bare.
Proper(n, node) ==
  /\ n[1] = "section" => /\ node.type \in {"spec_section", "untyped"}
                         /\ node.type = "spec_section" => n[2] \in project.toc
  /\ n[1] = "room" => node = [type |-> "room", carried |-> node.carried, unresolved |-> node.unresolved]
  /\ n[1] # "section" => node.type # "untyped"
  /\ node.type = "room" <=> n[1] = "room"
  /\ node.type = "door" <=> n[1] = "door"
  /\ node.type = "untyped" => node = Untyped

\* Bare nodes come with the references, and no report is made of them; the rooms
\* of the finish schedule are there before their rows are read.
NodesAreProper ==
  /\ \A n \in DOMAIN nodes : Proper(n, nodes[n])
  /\ building \notin {"built", "raised"} => \A n \in DOMAIN nodes : nodes[n].type # "untyped"
  /\ building \in {"doors", "rooms"} =>
       \A i \in DOMAIN Rooms : <<"room", Rooms[i].room>> \in DOMAIN nodes
  /\ building = "idle" => edges = {}
  /\ done \in Nat /\ project.rooms \in Seq(ToSet(project.rooms))
  /\ project.doors \in Seq(ToSet(project.doors))

SeededRels == {"DOOR_SPECIFIED_IN", "FRAME_SPECIFIED_IN", "FINISH_SPECIFIED_IN"}

\* Every code of a node has its edge or is noted as unresolved, and what is noted
\* is not in the contents.
CodesAreNoted ==
  \A n \in DOMAIN nodes : n[1] \in {"door", "room"} =>
    /\ \A c \in nodes[n].carried :
         \/ c \in nodes[n].unresolved
         \/ c \in Codes /\ \E e \in edges : e[1] = n /\ e[3] = Sid(Seed(c)) /\ e[2] \in SeededRels
    /\ \A c \in nodes[n].unresolved :
         (c \in Table(n) /\ Sid(Seed(c)) \in DOMAIN nodes) => nodes[Sid(Seed(c))].type = "untyped"

ReportIsCurrent == building = "reported" => report.missing = Missing

GraphInv == LinksAreSeeded /\ NodesAreProper /\ EdgesAreGrounded /\ CodesAreNoted /\ ReportIsCurrent

-----------------------------------------------------------------------------
(***************************************************************************)
(* Links and nodes                                                         *)
(***************************************************************************)

\* What a step of the map leaves alone, and what stutters with it.
LEMMA MapStep == GraphInv /\ UNCHANGED graphVars => GraphInv'
<1> SUFFICES ASSUME GraphInv, UNCHANGED graphVars PROVE GraphInv'
  OBVIOUS
<1>1. UNCHANGED <<project, building, available, links, done, nodes, edges, report>>
  BY DEF graphVars
<1>2. LinksAreSeeded' /\ ReportIsCurrent'
  BY <1>1, Zenon DEF GraphInv, LinksAreSeeded, ReportIsCurrent, Missing
<1>3. NodesAreProper'
  BY <1>1, Zenon DEF GraphInv, NodesAreProper, Proper, Rooms
<1>4. EdgesAreGrounded'
  BY <1>1, Zenon DEF GraphInv, EdgesAreGrounded, Gives, Doors, Rooms
<1>5. CodesAreNoted'
  <2>1. \A n : Table(n)' = Table(n)
    BY <1>1, Zenon DEF Table
  <2> QED
    BY <1>1, <2>1 DEF GraphInv, CodesAreNoted
<1> QED
  BY <1>2, <1>3, <1>4, <1>5 DEF GraphInv

\* Every link that is made leads to the section of the table.
LEMMA LinkStep ==
  ASSUME LinksAreSeeded, Link
  PROVE  LinksAreSeeded'
<1>0. PICK c \in Codes \ DOMAIN links : \E got, method : links' = Put(links, c, LinkOf(c, got, method))
  <2>1. Codes \ DOMAIN links # {}
    BY DEF Link, LinksAreSeeded
  <2>2. NextCode \in Codes \ DOMAIN links
    BY <2>1 DEF NextCode
  <2> QED
    BY <2>2 DEF Link
<1>1. PICK got, method : links' = Put(links, c, LinkOf(c, got, method))
  BY <1>0
<1>2. LinkOf(c, got, method).section = Seed(c)
  BY DEF LinkOf
<1> DEFINE link == LinkOf(c, got, method)
<1> HIDE DEF link
<1>3. DOMAIN links' = DOMAIN links \cup {c} /\ links'[c] = link
      /\ \A d \in DOMAIN links : links'[d] = links[d]
  BY <1>1 DEF Put, link
<1>4. \A d \in DOMAIN links' : d \in Codes /\ links'[d].section = Seed(d)
  BY <1>0, <1>2, <1>3 DEF LinksAreSeeded, link
<1>5. building' = IF DOMAIN links' = Codes THEN "trace" ELSE "link"
  BY DEF Link
<1> QED
  BY <1>4, <1>5 DEF LinksAreSeeded

\* The links are there before the graph is.
LEMMA LinksStep ==
  ASSUME Next, LinksAreSeeded
  PROVE  LinksAreSeeded'
<1>1. CASE Link
  BY <1>1, LinkStep
<1>2. CASE UNCHANGED <<links, building>>
  BY <1>2 DEF LinksAreSeeded
<1>3. CASE UNCHANGED links /\ building' \in {"link", "raised"}
  BY <1>3 DEF LinksAreSeeded
<1>4. CASE /\ UNCHANGED links
           /\ building \in {"trace", "doors", "rooms", "refs", "built"}
           /\ building' \in {"doors", "rooms", "refs", "built", "reported", "raised"}
  BY <1>4 DEF LinksAreSeeded
<1> QED
  BY <1>1, <1>2, <1>3, <1>4 DEF Next, graphVars, Parse, LinkRaises, Trace, AddDoor, DoorsDone,
     AddFinishes, RoomsDone, AddReferences, Report, Finished, vars

\* A code that finds its section while the graph grows finds one of the contents.
LEMMA LinkedIsListed ==
  ASSUME LinksAreSeeded, NodesAreProper, building \in {"doors", "rooms"}, NEW c, Linked(c)
  PROVE  /\ c \in Codes /\ links[c].section = Seed(c)
         /\ Sid(Seed(c)) \in DOMAIN nodes
         /\ nodes[Sid(Seed(c))].type # "untyped"
         /\ Seed(c) \in project.toc
<1>1. c \in Codes /\ links[c].section = Seed(c) /\ Sid(Seed(c)) \in DOMAIN nodes
  BY DEF Linked, LinksAreSeeded
<1>2. Sid(Seed(c))[1] = "section" /\ Sid(Seed(c))[2] = Seed(c)
  BY DEF Sid
<1> QED
  BY <1>1, <1>2 DEF NodesAreProper, Proper

\* A code of the tables that does not find it has none in the graph.
LEMMA UnlinkedIsUnlisted ==
  ASSUME LinksAreSeeded, building \in {"doors", "rooms"}, NEW c \in Codes, ~Linked(c)
  PROVE  Sid(Seed(c)) \notin DOMAIN nodes
BY DEF Linked, LinksAreSeeded

\* What WithNodes gives.
LEMMA WithNodesGives ==
  ASSUME NEW g, NEW ids, NEW node
  PROVE  /\ DOMAIN WithNodes(g, ids, node) = DOMAIN g \cup ids
         /\ \A n \in DOMAIN g : WithNodes(g, ids, node)[n] = g[n]
         /\ \A n \in ids \ DOMAIN g : WithNodes(g, ids, node)[n] = node
BY DEF WithNodes

\* The nodes that stand alone, and the sections.
LEMMA PlainNodes ==
  /\ \A s : Proper(<<"sheet", s>>, Node("sheet"))
  /\ \A s : Proper(<<"abbr", s>>, Node("abbreviation"))
  /\ \A s : Proper(<<"room", s>>, Node("room"))
  /\ \A s \in project.toc : Proper(Sid(s), Node("spec_section"))
  /\ \A s : Proper(Sid(s), Untyped)
BY DEF Proper, Node, Untyped, Sid

-----------------------------------------------------------------------------
(***************************************************************************)
(* The graph grows                                                         *)
(***************************************************************************)

GoodEdge(e) ==
  /\ {e[1], e[3]} \subseteq DOMAIN nodes
  /\ nodes[e[3]].type # "untyped"
  /\ nodes[e[1]].type = "untyped" => e[2] = "REFERENCES"
  /\ e[2] \in SeededRels =>
       \E c \in Codes : Gives(e[1], e[2], c) /\ e[3] = Sid(Seed(c)) /\ Seed(c) \in project.toc

Noted(n) ==
  /\ \A c \in nodes[n].carried :
       \/ c \in nodes[n].unresolved
       \/ c \in Codes /\ \E e \in edges : e[1] = n /\ e[3] = Sid(Seed(c)) /\ e[2] \in SeededRels
  /\ \A c \in nodes[n].unresolved :
       (c \in Table(n) /\ Sid(Seed(c)) \in DOMAIN nodes) => nodes[Sid(Seed(c))].type = "untyped"

\* Nothing is taken away, nodes keep their type, and no section is added but a
\* bare one.
Grows ==
  /\ UNCHANGED <<project, available>> /\ edges \subseteq edges'
  /\ DOMAIN nodes \subseteq DOMAIN nodes'
  /\ \A n \in DOMAIN nodes : nodes'[n].type = nodes[n].type
  /\ \A n \in DOMAIN nodes' \ DOMAIN nodes : n[1] = "section" => nodes'[n].type = "untyped"

\* The two invariants, element by element.
LEMMA EdgeByEdge ==
  /\ EdgesAreGrounded <=> \A e \in edges : GoodEdge(e)
  /\ CodesAreNoted <=> \A n \in DOMAIN nodes : n[1] \in {"door", "room"} => Noted(n)
<1>1. EdgesAreGrounded <=> \A e \in edges : GoodEdge(e)
  BY DEF EdgesAreGrounded, GoodEdge, SeededRels
<1>2. CodesAreNoted <=> \A n \in DOMAIN nodes : n[1] \in {"door", "room"} => Noted(n)
  BY DEF CodesAreNoted, Noted
<1> QED
  BY <1>1, <1>2

\* What the schedules give is read once.
LEMMA GivesStays ==
  ASSUME UNCHANGED <<project, available>>, NEW n, NEW rel, NEW c
  PROVE  Gives(n, rel, c)' <=> Gives(n, rel, c)
<1>1. Doors' = Doors /\ Rooms' = Rooms
  BY Zenon DEF Doors, Rooms
<1> QED
  BY <1>1, Zenon DEF Gives

\* An edge that was grounded stays so in a graph that grows.
LEMMA EdgeStays ==
  ASSUME Grows, NEW e, GoodEdge(e)
  PROVE  GoodEdge(e)'
<1>1. {e[1], e[3]} \subseteq DOMAIN nodes'
  BY DEF Grows, GoodEdge
<1>2. nodes'[e[3]].type = nodes[e[3]].type /\ nodes'[e[1]].type = nodes[e[1]].type
  BY DEF Grows, GoodEdge
<1>3. project' = project /\ \A c : Gives(e[1], e[2], c)' <=> Gives(e[1], e[2], c)
  BY GivesStays DEF Grows
<1> QED
  BY <1>1, <1>2, <1>3 DEF GoodEdge

\* A node that is left alone stays accounted for.
LEMMA NotedStays ==
  ASSUME Grows, NEW n \in DOMAIN nodes, Noted(n), nodes'[n] = nodes[n]
  PROVE  Noted(n)'
<1>1. Table(n)' = Table(n)
  BY DEF Table
<1>2. ASSUME NEW c \in nodes[n].carried
      PROVE  \/ c \in nodes[n].unresolved
             \/ c \in Codes /\ \E e \in edges' : e[1] = n /\ e[3] = Sid(Seed(c)) /\ e[2] \in SeededRels
  BY <1>2 DEF Grows, Noted
<1>3. ASSUME NEW c \in nodes[n].unresolved, c \in Table(n), Sid(Seed(c)) \in DOMAIN nodes'
      PROVE  nodes'[Sid(Seed(c))].type = "untyped"
  <2>1. Sid(Seed(c))[1] = "section"
    BY DEF Sid
  <2>2. CASE Sid(Seed(c)) \in DOMAIN nodes
    BY <1>3, <2>2 DEF Grows, Noted
  <2>3. CASE Sid(Seed(c)) \notin DOMAIN nodes
    BY <1>3, <2>1, <2>3 DEF Grows
  <2> QED
    BY <2>2, <2>3
<1> QED
  BY <1>1, <1>2, <1>3 DEF Noted

\* The steps that leave the graph alone.
LEMMA QuietStep ==
  ASSUME GraphInv, Link \/ LinkRaises \/ DoorsDone \/ RoomsDone \/ Report \/ Finished
  PROVE  NodesAreProper' /\ EdgesAreGrounded' /\ CodesAreNoted' /\ ReportIsCurrent'
<1>1. UNCHANGED <<project, available, nodes, edges>>
  BY DEF Link, LinkRaises, DoorsDone, RoomsDone, Report, Finished, vars, graphVars
<1>2. EdgesAreGrounded'
  BY <1>1, Zenon DEF GraphInv, EdgesAreGrounded, Gives, Doors, Rooms
<1>3. CodesAreNoted'
  <2>1. \A n : Table(n)' = Table(n)
    BY <1>1, Zenon DEF Table
  <2> QED
    BY <1>1, <2>1 DEF GraphInv, CodesAreNoted
<1>4. \A n, node : Proper(n, node)' <=> Proper(n, node)
  BY <1>1, Zenon DEF Proper
<1>5. Rooms' = Rooms /\ building' # "idle" /\ done' \in Nat
  BY <1>1 DEF Rooms, GraphInv, NodesAreProper, Link, LinkRaises, DoorsDone, RoomsDone, Report, Finished,
     vars, graphVars
<1>6. building' \notin {"built", "raised"} => \A n \in DOMAIN nodes : nodes[n].type # "untyped"
  <2>1. CASE Link \/ LinkRaises \/ DoorsDone \/ RoomsDone
    BY <2>1 DEF GraphInv, NodesAreProper, Link, LinkRaises, DoorsDone, RoomsDone
  <2>2. CASE Finished
    BY <2>2 DEF GraphInv, NodesAreProper, Finished, vars, graphVars
  <2>3. CASE Report /\ ~Reportable
    BY <2>3 DEF Report
  <2>4. CASE Report /\ Reportable
    BY <2>4 DEF GraphInv, NodesAreProper, Proper, Range, Reportable
  <2> QED
    BY <2>1, <2>2, <2>3, <2>4
<1>7. building' \in {"doors", "rooms"} => building \in {"doors", "rooms"}
  BY DEF Link, LinkRaises, DoorsDone, RoomsDone, Report, Finished, vars, graphVars
<1>8. NodesAreProper'
  BY <1>1, <1>4, <1>5, <1>6, <1>7 DEF GraphInv, NodesAreProper
<1>9. ReportIsCurrent'
  <2>1. Missing' = Missing
    BY <1>1, Zenon DEF Missing
  <2>2. CASE Report
    BY <2>1, <2>2, Zenon DEF Report, ReportIsCurrent
  <2>3. CASE Finished
    BY <2>1, <2>3, Zenon DEF Finished, vars, graphVars, GraphInv, ReportIsCurrent
  <2>4. CASE Link \/ LinkRaises \/ DoorsDone \/ RoomsDone
    BY <2>4 DEF Link, LinkRaises, DoorsDone, RoomsDone, ReportIsCurrent
  <2> QED
    BY <2>2, <2>3, <2>4
<1> QED
  BY <1>2, <1>3, <1>8, <1>9

\* The sections of the contents are the first nodes.
LEMMA ParseStep ==
  ASSUME GraphInv, Parse
  PROVE  NodesAreProper' /\ EdgesAreGrounded' /\ CodesAreNoted' /\ ReportIsCurrent'
<1>1. /\ building = "idle" /\ building' \in {"raised", "link"}
      /\ UNCHANGED <<project, done, edges>> /\ edges = {}
  BY DEF Parse, GraphInv, NodesAreProper
<1>2. \/ nodes' = <<>>
      \/ nodes' = [n \in {Sid(s) : s \in project.toc} |-> Node("spec_section")]
  BY DEF Parse
<1>3. \A n \in DOMAIN nodes' : \E s \in project.toc :
        n = Sid(s) /\ nodes'[n] = Node("spec_section")
  BY <1>2
<1>5. \A n \in DOMAIN nodes' : Proper(n, nodes'[n]) /\ nodes'[n].type = "spec_section"
  <2>1. Node("spec_section").type = "spec_section"
    BY DEF Node
  <2> QED
    BY <1>3, <2>1, PlainNodes
<1>6. NodesAreProper'
  BY <1>1, <1>5 DEF GraphInv, NodesAreProper, Proper
<1>7. EdgesAreGrounded'
  BY <1>1 DEF EdgesAreGrounded
<1>8. CodesAreNoted'
  <2>1. \A n \in DOMAIN nodes' : n[1] = "section"
    BY <1>3 DEF Sid
  <2> QED
    BY <2>1 DEF CodesAreNoted
<1> QED
  BY <1>1, <1>6, <1>7, <1>8 DEF ReportIsCurrent

AllProper(g) == \A n \in DOMAIN g : Proper(n, g[n]) /\ g[n].type # "untyped"

\* The graph h has all of g, and otherwise nodes without codes.
PlainlyMore(g, h) ==
  /\ DOMAIN g \subseteq DOMAIN h
  /\ \A n \in DOMAIN g : h[n] = g[n]
  /\ \A n \in DOMAIN h \ DOMAIN g : n[1] # "section" /\ h[n].carried = {} /\ h[n].unresolved = {}

\* Nodes that were not there and have no codes.
LEMMA WithPlainNodes ==
  ASSUME NEW g, NEW ids, NEW type, AllProper(g), type # "untyped",
         \A n \in ids : Proper(n, Node(type)) /\ n[1] # "section"
  PROVE  /\ AllProper(WithNodes(g, ids, Node(type)))
         /\ PlainlyMore(g, WithNodes(g, ids, Node(type)))
         /\ DOMAIN WithNodes(g, ids, Node(type)) = DOMAIN g \cup ids
<1> DEFINE h == WithNodes(g, ids, Node(type))
<1>1. /\ DOMAIN h = DOMAIN g \cup ids
      /\ \A n \in DOMAIN g : h[n] = g[n]
      /\ \A n \in ids \ DOMAIN g : h[n] = Node(type)
  BY WithNodesGives
<1>2. Node(type).type = type /\ Node(type).carried = {} /\ Node(type).unresolved = {}
  BY DEF Node
<1> HIDE DEF h
<1>3. \A n \in DOMAIN h \ DOMAIN g : h[n] = Node(type) /\ n[1] # "section" /\ n \in ids
  BY <1>1
<1>4. AllProper(h)
  <2> SUFFICES ASSUME NEW n \in DOMAIN h PROVE Proper(n, h[n]) /\ h[n].type # "untyped"
    BY DEF AllProper
  <2>1. CASE n \in DOMAIN g
    BY <1>1, <2>1 DEF AllProper
  <2>2. CASE n \notin DOMAIN g
    BY <1>2, <1>3, <2>2
  <2> QED
    BY <2>1, <2>2
<1>5. PlainlyMore(g, h)
  BY <1>1, <1>2, <1>3 DEF PlainlyMore
<1> QED
  BY <1>1, <1>4, <1>5 DEF h

\* Sheets, abbreviations and rooms stand alone.
LEMMA TraceStep ==
  ASSUME GraphInv, Trace
  PROVE  NodesAreProper' /\ EdgesAreGrounded' /\ CodesAreNoted' /\ ReportIsCurrent'
<1> DEFINE Abbrs == {<<"abbr", Base[c]>> : c \in {m \in Material : Base[m] \in Abbrev}}
           Rs    == {<<"room", Rooms[i].room>> : i \in DOMAIN Rooms}
           Ss    == {<<"sheet", s>> : s \in Sheets}
           g1    == WithNodes(nodes, Ss, Node("sheet"))
           g2    == WithNodes(g1, Abbrs, Node("abbreviation"))
           g3    == WithNodes(g2, Rs, Node("room"))
<1>1. /\ building = "trace" /\ building' \in {"doors", "raised"}
      /\ UNCHANGED <<project, available, done, edges>>
  BY DEF Trace
<1>2. (nodes' = nodes /\ building' = "raised") \/ nodes' = g3
  BY DEF Trace
<1>3. /\ \A n \in Ss : Proper(n, Node("sheet")) /\ n[1] # "section"
      /\ \A n \in Abbrs : Proper(n, Node("abbreviation")) /\ n[1] # "section"
      /\ \A n \in Rs : Proper(n, Node("room")) /\ n[1] # "section"
  BY PlainNodes
<1>4. AllProper(nodes)
  BY <1>1 DEF GraphInv, NodesAreProper, AllProper
<1> HIDE DEF Ss, Abbrs, Rs
<1>5. AllProper(g1) /\ PlainlyMore(nodes, g1)
  BY <1>3, <1>4, WithPlainNodes
<1> HIDE DEF g1
<1>6. AllProper(g2) /\ PlainlyMore(g1, g2)
  BY <1>3, <1>5, WithPlainNodes
<1> HIDE DEF g2
<1>7. AllProper(g3) /\ PlainlyMore(g2, g3) /\ DOMAIN g3 = DOMAIN g2 \cup Rs
  BY <1>3, <1>6, WithPlainNodes
<1> HIDE DEF g3
<1>8. AllProper(nodes') /\ PlainlyMore(nodes, nodes')
  <2>1. CASE nodes' = nodes
    BY <1>4, <2>1 DEF PlainlyMore
  <2>2. CASE nodes' = g3
    BY <1>5, <1>6, <1>7, <2>2 DEF PlainlyMore
  <2> QED
    BY <1>2, <2>1, <2>2
<1>10. building' = "doors" => \A i \in DOMAIN Rooms : <<"room", Rooms[i].room>> \in DOMAIN nodes'
  BY <1>2, <1>7 DEF Rs
<1>11. Rooms' = Rooms
  BY <1>1, Zenon DEF Rooms
<1>12. NodesAreProper'
  BY <1>1, <1>8, <1>10, <1>11 DEF GraphInv, NodesAreProper, AllProper, Proper
<1>13. Grows
  BY <1>1, <1>8 DEF Grows, PlainlyMore
<1>14. \A e \in edges' : GoodEdge(e)'
  BY <1>1, <1>13, EdgeStays, EdgeByEdge DEF GraphInv
<1>15. ASSUME NEW n \in DOMAIN nodes', n[1] \in {"door", "room"} PROVE Noted(n)'
  <2>1. CASE n \in DOMAIN nodes
    BY <1>8, <1>13, <1>15, <2>1, NotedStays, EdgeByEdge DEF GraphInv, PlainlyMore
  <2>2. CASE n \notin DOMAIN nodes
    BY <1>8, <1>15, <2>2 DEF Noted, PlainlyMore
  <2> QED
    BY <2>1, <2>2
<1>16. EdgesAreGrounded'
  BY <1>14 DEF EdgesAreGrounded, GoodEdge, SeededRels
<1>17. CodesAreNoted'
  BY <1>15 DEF CodesAreNoted, Noted
<1> QED
  BY <1>1, <1>12, <1>16, <1>17 DEF ReportIsCurrent

\* The edges of one material, and the code that has none.
LEMMA MaterialIsLinked ==
  ASSUME LinksAreSeeded, NodesAreProper, building = "doors",
         NEW id \in DOMAIN nodes', NEW m, NEW rel, Grows, nodes'[id].type # "untyped",
         Gives(id, rel, m)
  PROVE  /\ \A e \in MaterialEdges(id, m, rel) : GoodEdge(e)'
         /\ (m \notin Existing /\ m \in Material /\ Linked(m)) =>
              \E e \in MaterialEdges(id, m, rel) : e = <<id, rel, Sid(Seed(m))>>
<1>1. CASE m \in Material /\ Linked(m)
  <2>1. /\ m \in Codes /\ links[m].section = Seed(m) /\ Sid(Seed(m)) \in DOMAIN nodes
        /\ nodes[Sid(Seed(m))].type # "untyped" /\ Seed(m) \in project.toc
    BY <1>1, LinkedIsListed
  <2>2. MaterialEdges(id, m, rel) =
          {<<id, rel, Sid(Seed(m))>>} \cup
          {<<id, "HAS_MATERIAL", a>> : a \in {<<"abbr", Base[m]>>} \cap DOMAIN nodes}
    BY <1>1, <2>1 DEF MaterialEdges
  <2>3. GoodEdge(<<id, rel, Sid(Seed(m))>>)'
    <3>1. Gives(id, rel, m)'
      BY GivesStays DEF Grows
    <3> QED
      BY <2>1, <3>1 DEF GoodEdge, Grows
  <2>4. ASSUME NEW a \in DOMAIN nodes, a[1] = "abbr"
        PROVE  GoodEdge(<<id, "HAS_MATERIAL", a>>)'
    <3>1. nodes[a].type # "untyped"
      BY <2>4 DEF NodesAreProper
    <3>2. a \in DOMAIN nodes' /\ nodes'[a].type # "untyped"
      BY <3>1 DEF Grows
    <3> QED
      BY <3>2 DEF GoodEdge, SeededRels
  <2>5. <<"abbr", Base[m]>>[1] = "abbr"
    OBVIOUS
  <2> QED
    BY <2>2, <2>3, <2>4, <2>5
<1>2. CASE ~(m \in Material /\ Linked(m))
  BY <1>2 DEF MaterialEdges
<1> QED
  BY <1>1, <1>2

\* A door is linked by its materials, its hardware, its glazing, its room and
\* the sheets it is on.
LEMMA DoorStep ==
  ASSUME GraphInv, AddDoor
  PROVE  NodesAreProper' /\ EdgesAreGrounded' /\ CodesAreNoted' /\ ReportIsCurrent'
<1>1. /\ building = "doors" /\ building' = "doors" /\ done' = done + 1
      /\ UNCHANGED <<project, available, links>>
  BY DEF AddDoor
<1>0. PICK d : d = Doors[done + 1]
  OBVIOUS
<1>row. done + 1 \in DOMAIN Doors
  <2>1. done < Len(Doors) /\ done \in Nat /\ project.doors \in Seq(ToSet(project.doors))
    BY DEF AddDoor, GraphInv, NodesAreProper
  <2>2. \A S : <<>> \in Seq(S)
    OBVIOUS
  <2>3. Doors \in Seq(ToSet(project.doors))
    BY <2>1, <2>2 DEF Doors
  <2> QED
    BY <2>1, <2>3, LenProperties
<1> DEFINE id   == <<"door", d.mark>>
           room == <<"room", d.room>>
           node == [type |-> "door", carried |-> {d.door, d.frame} \ Existing,
                    unresolved |-> Unlinked({d.door, d.frame}),
                    hardware |-> d.hardware, frame |-> d.frame # ""]
           put  == Put(nodes, id, node)
           new  == MaterialEdges(id, d.door, "DOOR_SPECIFIED_IN")
                     \cup MaterialEdges(id, d.frame, "FRAME_SPECIFIED_IN")
           other == SpecEdge(id, d.hardware, "HARDWARE_SPECIFIED_IN", HardwareSection)
                     \cup SpecEdge(id, d.glazing, "GLAZING_SPECIFIED_IN", GlazingSection)
                     \cup {<<id, "LOCATED_IN", room>>} \cup SheetEdges(id, DoorSheets)
<1>2. nodes' = WithNodes(put, {room}, Node("room")) /\ edges' = edges \cup new \cup other
  BY <1>0, Zenon DEF AddDoor
<1>3. /\ node.type = "door" /\ node.carried = {d.door, d.frame} \ Existing
      /\ node.unresolved = Unlinked({d.door, d.frame})
  OBVIOUS
<1>4. id[1] = "door" /\ room[1] = "room" /\ Proper(id, node)
  BY DEF Proper
<1>5. Proper(room, Node("room")) /\ Node("room").type = "room"
      /\ Node("room").carried = {} /\ Node("room").unresolved = {}
  BY PlainNodes DEF Node
<1>given. Gives(id, "DOOR_SPECIFIED_IN", d.door) /\ Gives(id, "FRAME_SPECIFIED_IN", d.frame)
  BY <1>0, <1>row, Zenon DEF Gives
<1> HIDE DEF node, id, room
<1>6. /\ DOMAIN put = DOMAIN nodes \cup {id} /\ put[id] = node
      /\ \A n \in DOMAIN nodes \ {id} : put[n] = nodes[n]
  BY DEF Put
<1> HIDE DEF put
<1>7. /\ DOMAIN nodes' = DOMAIN nodes \cup {id, room}
      /\ \A n \in DOMAIN put : nodes'[n] = put[n]
      /\ room \notin DOMAIN put => nodes'[room] = Node("room")
  BY <1>2, <1>6 DEF WithNodes
<1>8. nodes'[id] = node /\ \A n \in DOMAIN nodes \ {id} : nodes'[n] = nodes[n]
  BY <1>6, <1>7
<1>9. id # room
  BY <1>4
<1>10. room \notin DOMAIN nodes => nodes'[room] = Node("room")
  BY <1>6, <1>7, <1>9
<1>11. \A n \in DOMAIN nodes : Proper(n, nodes[n]) /\ nodes[n].type # "untyped"
  BY <1>1 DEF GraphInv, NodesAreProper
<1>12. \A n \in DOMAIN nodes' : Proper(n, nodes'[n]) /\ nodes'[n].type # "untyped"
  <2> SUFFICES ASSUME NEW n \in DOMAIN nodes' PROVE Proper(n, nodes'[n]) /\ nodes'[n].type # "untyped"
    OBVIOUS
  <2>1. CASE n = id
    BY <1>3, <1>4, <1>8, <2>1
  <2>2. CASE n # id /\ n \in DOMAIN nodes
    BY <1>8, <1>11, <2>2
  <2>3. CASE n = room /\ room \notin DOMAIN nodes
    BY <1>5, <1>10, <2>3
  <2> QED
    BY <1>7, <2>1, <2>2, <2>3
<1>13. Rooms' = Rooms /\ done' \in Nat
  BY <1>1 DEF Rooms, GraphInv, NodesAreProper
<1>14. NodesAreProper'
  <2>1. \A i \in DOMAIN Rooms : <<"room", Rooms[i].room>> \in DOMAIN nodes'
    BY <1>1, <1>7 DEF GraphInv, NodesAreProper
  <2> QED
    BY <1>1, <1>12, <1>13, <2>1 DEF GraphInv, NodesAreProper, Proper
<1>15. Grows
  <2>1. id \in DOMAIN nodes => nodes[id].type = "door"
    BY <1>4, <1>11 DEF Proper
  <2>2. \A n \in DOMAIN nodes : nodes'[n].type = nodes[n].type
    BY <1>3, <1>8, <2>1
  <2>3. \A n \in DOMAIN nodes' \ DOMAIN nodes : n[1] # "section"
    BY <1>4, <1>7
  <2> QED
    BY <1>1, <1>2, <1>7, <2>2, <2>3 DEF Grows
<1>16. id \in DOMAIN nodes' /\ nodes'[id].type # "untyped" /\ room \in DOMAIN nodes'
  BY <1>7, <1>12
<1>17. \A e \in other : GoodEdge(e)'
  <2>1. ASSUME NEW n \in DOMAIN nodes', NEW rel, rel \notin SeededRels
        PROVE  GoodEdge(<<id, rel, n>>)'
    BY <1>12, <1>16, <2>1 DEF GoodEdge
  <2>2. ASSUME NEW has, NEW rel, NEW s, NEW e \in SpecEdge(id, has, rel, s)
        PROVE  \E n \in DOMAIN nodes : e = <<id, rel, n>>
    BY DEF SpecEdge
  <2>3. ASSUME NEW e \in SheetEdges(id, DoorSheets)
        PROVE  \E n \in DOMAIN nodes : e = <<id, "APPEARS_ON", n>>
    BY DEF SheetEdges
  <2>4. ASSUME NEW e \in other
        PROVE  \E n \in DOMAIN nodes' : \E rel : rel \notin SeededRels /\ e = <<id, rel, n>>
    <3>1. {"HARDWARE_SPECIFIED_IN", "GLAZING_SPECIFIED_IN", "LOCATED_IN", "APPEARS_ON"}
            \cap SeededRels = {}
      BY DEF SeededRels
    <3>2. DOMAIN nodes \subseteq DOMAIN nodes'
      BY <1>7
    <3> QED
      BY <1>16, <2>2, <2>3, <2>4, <3>1, <3>2
  <2> QED
    BY <2>1, <2>4
<1>18. \A e \in new : GoodEdge(e)'
  BY <1>1, <1>15, <1>16, <1>given, MaterialIsLinked DEF GraphInv
<1>19. \A e \in edges' : GoodEdge(e)'
  BY <1>2, <1>15, <1>17, <1>18, EdgeStays, EdgeByEdge DEF GraphInv
<1>20. Noted(id)'
  <2>1. Table(id)' = Material
    BY <1>3, <1>8 DEF Table
  <2>2. ASSUME NEW c \in {d.door, d.frame}, c \notin Existing, c \notin node.unresolved
        PROVE  c \in Codes /\ \E e \in edges' :
                 e[1] = id /\ e[3] = Sid(Seed(c)) /\ e[2] \in SeededRels
    <3>1. c \in Material /\ Linked(c)
      BY <1>3, <2>2 DEF Unlinked
    <3>2. PICK rel \in SeededRels : MaterialEdges(id, c, rel) \subseteq new /\ Gives(id, rel, c)
      BY <1>given, <2>2 DEF SeededRels
    <3>3. <<id, rel, Sid(Seed(c))>> \in edges'
      BY <1>1, <1>2, <1>15, <1>16, <2>2, <3>1, <3>2, MaterialIsLinked DEF GraphInv
    <3> QED
      <4>1. c \in Codes
        BY <3>1 DEF Codes, Material
      <4> QED
        BY <3>3, <4>1
  <2>3. ASSUME NEW c \in node.unresolved, c \in Material, Sid(Seed(c)) \in DOMAIN nodes'
        PROVE  FALSE
    <3>1. ~Linked(c) /\ c \in Codes
      BY <1>3, <2>3 DEF Unlinked, Codes, Material
    <3>2. Sid(Seed(c)) \notin DOMAIN nodes
      BY <1>1, <3>1, UnlinkedIsUnlisted DEF GraphInv
    <3>3. Sid(Seed(c))[1] = "section"
      BY DEF Sid
    <3> QED
      BY <1>4, <1>7, <2>3, <3>2, <3>3
  <2> QED
    BY <1>3, <1>8, <2>1, <2>2, <2>3 DEF Noted
<1>21. ASSUME NEW n \in DOMAIN nodes', n[1] \in {"door", "room"} PROVE Noted(n)'
  <2>1. CASE n = id
    BY <1>20, <2>1
  <2>2. CASE n # id /\ n \in DOMAIN nodes
    BY <1>8, <1>15, <1>21, <2>2, NotedStays, EdgeByEdge DEF GraphInv
  <2>3. CASE n = room /\ n \notin DOMAIN nodes
    BY <1>5, <1>10, <2>3 DEF Noted
  <2> QED
    BY <1>7, <2>1, <2>2, <2>3
<1>22. EdgesAreGrounded'
  BY <1>19 DEF EdgesAreGrounded, GoodEdge, SeededRels
<1>23. CodesAreNoted'
  BY <1>21 DEF CodesAreNoted, Noted
<1> QED
  BY <1>1, <1>14, <1>22, <1>23 DEF ReportIsCurrent

\* A room is linked by its finishes and the sheets it is on.
LEMMA RoomStep ==
  ASSUME GraphInv, AddFinishes
  PROVE  NodesAreProper' /\ EdgesAreGrounded' /\ CodesAreNoted' /\ ReportIsCurrent'
<1>0. PICK r : r = Rooms[done + 1]
  OBVIOUS
<1>1. /\ building = "rooms" /\ building' = "rooms" /\ done' = done + 1 /\ done < Len(Rooms)
      /\ UNCHANGED <<project, available, links>>
  BY DEF AddFinishes
<1> DEFINE id   == <<"room", r.room>>
           In   == {p \in r.finishes : p \in DOMAIN FINISH_SECTION /\ Linked(p)}
           new  == {<<id, "FINISH_SPECIFIED_IN", Sid(links[p].section)>> : p \in In}
           left == IF r.finishes \ In = {} THEN nodes[id].unresolved ELSE r.finishes \ In
           node == [type |-> "room", carried |-> r.finishes, unresolved |-> left]
<1>row. done + 1 \in DOMAIN Rooms
  <2>1. Rooms \in Seq(ToSet(project.rooms))
    <3>1. \A S : <<>> \in Seq(S)
      OBVIOUS
    <3> QED
      BY <3>1 DEF Rooms, GraphInv, NodesAreProper
  <2> QED
    BY <1>1, <2>1, LenProperties DEF GraphInv, NodesAreProper
<1>2. id \in DOMAIN nodes
  BY <1>0, <1>1, <1>row DEF GraphInv, NodesAreProper
<1>3. \A n \in DOMAIN nodes : Proper(n, nodes[n]) /\ nodes[n].type # "untyped"
  BY <1>1 DEF GraphInv, NodesAreProper
<1>4. edges' = edges \cup new \cup SheetEdges(id, RoomSheets)
  BY <1>0, Zenon DEF AddFinishes
<1>5. /\ DOMAIN nodes' = DOMAIN nodes /\ nodes'[id] = node
      /\ \A n \in DOMAIN nodes \ {id} : nodes'[n] = nodes[n]
  <2>1. nodes' = [nodes EXCEPT ![id].carried = r.finishes,
                               ![id].unresolved = IF r.finishes \ In = {} THEN @ ELSE r.finishes \ In]
    BY <1>0, Zenon DEF AddFinishes
  <2>2. PICK u, c : nodes[id] = [type |-> "room", carried |-> c, unresolved |-> u]
    BY <1>2, <1>3 DEF Proper
  <2>3. nodes[id].unresolved = u
    BY <2>2
  <2> DEFINE kept == IF r.finishes \ In = {} THEN u ELSE r.finishes \ In
             row(v)  == [type |-> "room", carried |-> r.finishes, unresolved |-> v]
             once == [nodes EXCEPT ![id] = row(u)]
  <2>4. [nodes[id] EXCEPT !.carried = r.finishes] = row(u)
    <3>1. [[type |-> "room", carried |-> c, unresolved |-> u] EXCEPT !.carried = r.finishes] = row(u)
      OBVIOUS
    <3> QED
      BY <2>2, <3>1
  <2>5. nodes' = [once EXCEPT ![id].unresolved = IF r.finishes \ In = {} THEN @ ELSE r.finishes \ In]
    BY <2>1, <2>4, Zenon
  <2>6. once[id] = row(u) /\ row(u).unresolved = u
    BY <1>2
  <2>7. [once[id] EXCEPT !.unresolved = kept] = row(kept)
    <3> HIDE DEF kept
    <3>1. [row(u) EXCEPT !.unresolved = kept] = row(kept)
      OBVIOUS
    <3> QED
      BY <2>6, <3>1
  <2>8. nodes' = [once EXCEPT ![id] = row(kept)]
    <3>1. nodes' = [once EXCEPT ![id].unresolved = kept]
      BY <2>5, <2>6
    <3> HIDE DEF kept, once, row
    <3> QED
      BY <2>7, <3>1, Zenon
  <2>9. node = row(kept)
    BY <2>3
  <2> HIDE DEF node, row, kept, In
  <2> QED
    BY <1>2, <2>8, <2>9
<1>6. node.type = "room" /\ node.carried = r.finishes /\ node.unresolved = left
  OBVIOUS
<1>7. id[1] = "room" /\ Proper(id, node)
  BY DEF Proper
<1> HIDE DEF node, new, In
<1>8. \A n \in DOMAIN nodes' : Proper(n, nodes'[n]) /\ nodes'[n].type # "untyped"
  BY <1>3, <1>5, <1>6, <1>7
<1>9. Rooms' = Rooms /\ done' \in Nat
  BY <1>1 DEF Rooms, GraphInv, NodesAreProper
<1>10. NodesAreProper'
  BY <1>1, <1>5, <1>8, <1>9 DEF GraphInv, NodesAreProper, Proper
<1>11. Grows
  <2>1. nodes[id].type = "room"
    BY <1>2, <1>3, <1>7 DEF Proper
  <2> QED
    BY <1>1, <1>4, <1>5, <1>6, <2>1 DEF Grows
<1>12. \A p \in In : /\ p \in Codes /\ links[p].section = Seed(p)
                     /\ Sid(Seed(p)) \in DOMAIN nodes
                     /\ nodes[Sid(Seed(p))].type # "untyped" /\ Seed(p) \in project.toc
  BY <1>1, LinkedIsListed DEF GraphInv, In
<1>13. ASSUME NEW p \in In PROVE GoodEdge(<<id, "FINISH_SPECIFIED_IN", Sid(Seed(p))>>)'
  <2>1. Gives(id, "FINISH_SPECIFIED_IN", p)
    BY <1>0, <1>row, Zenon DEF Gives, In
  <2>2. Gives(id, "FINISH_SPECIFIED_IN", p)'
    BY <1>1, <2>1, GivesStays
  <2> QED
    BY <1>2, <1>5, <1>8, <1>11, <1>12, <2>2 DEF GoodEdge, Grows
<1>14. \A e \in new : GoodEdge(e)'
  BY <1>12, <1>13 DEF new
<1>15. \A e \in SheetEdges(id, RoomSheets) : GoodEdge(e)'
  <2>1. ASSUME NEW n \in DOMAIN nodes PROVE GoodEdge(<<id, "APPEARS_ON", n>>)'
    BY <1>2, <1>5, <1>8 DEF GoodEdge, SeededRels
  <2> QED
    BY <2>1 DEF SheetEdges
<1>16. \A e \in edges' : GoodEdge(e)'
  BY <1>4, <1>11, <1>14, <1>15, EdgeStays, EdgeByEdge DEF GraphInv
<1>17. Noted(id)'
  <2>1. Table(id) = DOMAIN FINISH_SECTION /\ Table(id)' = DOMAIN FINISH_SECTION
    BY <1>2, <1>3, <1>5, <1>6, <1>7 DEF Table, Proper
  <2>2. ASSUME NEW c \in r.finishes
        PROVE  \/ c \in left
               \/ c \in Codes /\ \E e \in edges' :
                    e[1] = id /\ e[3] = Sid(Seed(c)) /\ e[2] \in SeededRels
    <3>1. CASE c \in In
      <4>1. <<id, "FINISH_SPECIFIED_IN", Sid(Seed(c))>> \in edges'
        BY <1>4, <1>12, <3>1 DEF new
      <4> QED
        BY <1>12, <3>1, <4>1 DEF SeededRels
    <3>2. CASE c \notin In
      BY <3>2
    <3> QED
      BY <3>1, <3>2
  <2>3. ASSUME NEW c \in left, c \in DOMAIN FINISH_SECTION, Sid(Seed(c)) \in DOMAIN nodes
        PROVE  nodes[Sid(Seed(c))].type = "untyped"
    <3>1. CASE c \in r.finishes \ In
      <4>1. c \in Codes /\ ~Linked(c)
        BY <2>3, <3>1 DEF In, Codes
      <4> QED
        BY <1>1, <2>3, <4>1, UnlinkedIsUnlisted DEF GraphInv
    <3>2. CASE c \in nodes[id].unresolved
      <4>1. Noted(id)
        BY <1>2, <1>7, EdgeByEdge DEF GraphInv
      <4> QED
        BY <2>1, <2>3, <3>2, <4>1 DEF Noted
    <3> QED
      BY <3>1, <3>2
  <2>4. \A n \in DOMAIN nodes : nodes'[n].type = nodes[n].type
    BY <1>11 DEF Grows
  <2> HIDE DEF left
  <2> QED
    BY <1>5, <1>6, <2>1, <2>2, <2>3, <2>4 DEF Noted
<1>18. ASSUME NEW n \in DOMAIN nodes', n[1] \in {"door", "room"} PROVE Noted(n)'
  <2>1. CASE n = id
    BY <1>17, <2>1
  <2>2. CASE n # id
    BY <1>5, <1>11, <1>18, <2>2, NotedStays, EdgeByEdge DEF GraphInv
  <2> QED
    BY <2>1, <2>2
<1>19. EdgesAreGrounded'
  BY <1>16 DEF EdgesAreGrounded, GoodEdge, SeededRels
<1>20. CodesAreNoted'
  BY <1>18 DEF CodesAreNoted, Noted
<1> QED
  BY <1>1, <1>10, <1>19, <1>20 DEF ReportIsCurrent

\* References come last; their sources are bare nodes where they were none.
LEMMA ReferencesStep ==
  ASSUME GraphInv, AddReferences
  PROVE  NodesAreProper' /\ EdgesAreGrounded' /\ CodesAreNoted' /\ ReportIsCurrent'
<1> DEFINE Refs == {<<Sid(st[1]), "REFERENCES", Sid(st[2])>> : st \in
                      {r \in project.refs : r[1] \in TraceSections /\ Sid(r[2]) \in DOMAIN nodes}}
           Sources == {e[1] : e \in Refs}
<1>1. /\ building = "refs" /\ building' = "built"
      /\ UNCHANGED <<project, available, links, done>>
      /\ edges' = edges \cup Refs /\ nodes' = WithNodes(nodes, Sources, Untyped)
  BY Zenon DEF AddReferences
<1>2. \A e \in Refs : /\ e[2] = "REFERENCES" /\ e[3] \in DOMAIN nodes
                      /\ \E s : e[1] = Sid(s)
  OBVIOUS
<1> HIDE DEF Refs
<1>3. \A n \in Sources : \E s : n = Sid(s)
  BY <1>2
<1>4. \A e \in Refs : e[1] \in Sources
  OBVIOUS
<1> HIDE DEF Sources
<1>5. /\ DOMAIN nodes' = DOMAIN nodes \cup Sources
      /\ \A n \in DOMAIN nodes : nodes'[n] = nodes[n]
      /\ \A n \in DOMAIN nodes' \ DOMAIN nodes : nodes'[n] = Untyped /\ n \in Sources
  BY <1>1 DEF WithNodes
<1>6. \A n \in DOMAIN nodes : Proper(n, nodes[n]) /\ nodes[n].type # "untyped"
  BY <1>1 DEF GraphInv, NodesAreProper
<1>7. \A n \in DOMAIN nodes' : Proper(n, nodes'[n])
  BY <1>3, <1>5, <1>6, PlainNodes
<1>8. NodesAreProper'
  BY <1>1, <1>7 DEF GraphInv, NodesAreProper, Proper
<1>9. Grows
  <2>1. Untyped.type = "untyped"
    BY DEF Untyped, Node
  <2> QED
    BY <1>1, <1>5, <2>1 DEF Grows
<1>10. ASSUME NEW e \in Refs PROVE GoodEdge(e)'
  <2>1. e[3] \in DOMAIN nodes' /\ nodes'[e[3]].type # "untyped"
    BY <1>2, <1>5, <1>6
  <2>2. e[1] \in DOMAIN nodes' /\ e[2] = "REFERENCES" /\ e[2] \notin SeededRels
    BY <1>2, <1>4, <1>5 DEF SeededRels
  <2> QED
    BY <2>1, <2>2 DEF GoodEdge
<1>11. \A e \in edges' : GoodEdge(e)'
  BY <1>1, <1>9, <1>10, EdgeStays, EdgeByEdge DEF GraphInv
<1>12. ASSUME NEW n \in DOMAIN nodes', n[1] \in {"door", "room"} PROVE Noted(n)'
  <2>1. n \in DOMAIN nodes
    BY <1>3, <1>5, <1>12 DEF Sid
  <2> QED
    BY <1>5, <1>9, <1>12, <2>1, NotedStays, EdgeByEdge DEF GraphInv
<1>13. EdgesAreGrounded'
  BY <1>11 DEF EdgesAreGrounded, GoodEdge, SeededRels
<1>14. CodesAreNoted'
  BY <1>12 DEF CodesAreNoted, Noted
<1> QED
  BY <1>1, <1>8, <1>13, <1>14 DEF ReportIsCurrent

-----------------------------------------------------------------------------
(***************************************************************************)
(* The theorems about the graph                                            *)
(***************************************************************************)

\* The graph begins empty.
LEMMA GraphBegins == Init => GraphInv
<1> SUFFICES ASSUME Init PROVE GraphInv
  OBVIOUS
<1>1. /\ building = "idle" /\ links = <<>> /\ nodes = <<>> /\ edges = {} /\ done = 0
      /\ project.rooms \in Seq(ToSet(project.rooms))
      /\ project.doors \in Seq(ToSet(project.doors))
  BY InputsAssumption DEF Init, GraphInit
<1> QED
  BY <1>1 DEF GraphInv, LinksAreSeeded, NodesAreProper, EdgesAreGrounded, CodesAreNoted, ReportIsCurrent

\* Links, nodes, edges and codes keep together, in whatever order the rows of the
\* schedules come: the inductive invariant.
THEOREM GraphInvariant == Spec => []GraphInv
<1>1. ASSUME GraphInv, [Next]_vars PROVE GraphInv'
  <2>1. CASE UNCHANGED graphVars
    BY <1>1, <2>1, MapStep
  <2>2. CASE Parse \/ Link \/ LinkRaises \/ Trace \/ AddDoor \/ DoorsDone \/ AddFinishes
             \/ RoomsDone \/ AddReferences \/ Report \/ Finished
    <3>1. LinksAreSeeded'
      BY <1>1, <2>2, LinksStep DEF Next, GraphInv
    <3>2. NodesAreProper' /\ EdgesAreGrounded' /\ CodesAreNoted' /\ ReportIsCurrent'
      BY <1>1, <2>2, QuietStep, ParseStep, TraceStep, DoorStep, RoomStep, ReferencesStep
    <3> QED
      BY <3>1, <3>2 DEF GraphInv
  <2> QED
    BY <1>1, <2>1, <2>2 DEF Next, vars
<1> QED
  BY <1>1, GraphBegins, PTL DEF Spec

\* Whatever is matched, answered or listed, every edge leads to a node that was
\* read, and a material or a finish to the hand-authored section, one of the
\* contents, of a code that the schedules give the element
\* (phase5_graph_builder.py, section_llm.py).
THEOREM GraphIsGrounded == Spec => []EdgesAreGrounded
BY GraphInvariant, PTL DEF GraphInv

\* A report loses no code: each has its edge, or its element is missing it; and
\* none is missing that has a section (link_material, find_missing_connections).
THEOREM NoCodeIsLost == Spec => []CodesAreAccounted
<1>1. GraphInv => CodesAreAccounted
  <2> SUFFICES ASSUME GraphInv, building = "reported", NEW n \in OfType("door") \cup OfType("room")
               PROVE  /\ \A c \in nodes[n].carried :
                           \/ c \in nodes[n].unresolved /\ n \in report.missing
                           \/ /\ c \in Codes
                              /\ \E e \in edges : e[1] = n /\ e[3] = Sid(Seed(c))
                                   /\ e[2] \in DoorRels \cup RoomRels
                      /\ \A c \in nodes[n].unresolved : c \in Table(n) => ~Linked(c)
                      /\ nodes[n].unresolved # {} <=> n \in report.missing
    BY DEF CodesAreAccounted
  <2>1. n \in DOMAIN nodes /\ n[1] \in {"door", "room"}
    BY DEF OfType, GraphInv, NodesAreProper, Proper
  <2>2. nodes[n].unresolved # {} <=> n \in report.missing
    BY <2>1 DEF GraphInv, ReportIsCurrent, Missing
  <2>3. Noted(n)
    BY <2>1, EdgeByEdge DEF GraphInv
  <2>4. ASSUME NEW c \in nodes[n].unresolved, c \in Table(n) PROVE ~Linked(c)
    <3>1. \A m \in DOMAIN nodes : nodes[m].type # "untyped"
      BY DEF GraphInv, NodesAreProper
    <3>2. Linked(c) => Sid(Seed(c)) \in DOMAIN nodes
      BY DEF Linked, GraphInv, LinksAreSeeded
    <3> QED
      BY <2>3, <2>4, <3>1, <3>2 DEF Noted
  <2>5. SeededRels \subseteq DoorRels \cup RoomRels
    BY DEF SeededRels, DoorRels, RoomRels
  <2> QED
    BY <2>2, <2>3, <2>4, <2>5 DEF Noted
<1> QED
  BY <1>1, GraphInvariant, PTL
=============================================================================
