-------------------------- MODULE Schedules_proofs --------------------------
(***************************************************************************)
(* Proofs about the sharded report and about the extraction of one         *)
(* document.  The first part is about Sharding, for every document, range  *)
(* and budget: the loops of the planner and of the merge compute what the  *)
(* windows and the report are specified by, whichever shards die.  The     *)
(* second is about Extraction, for every set of drawings, registry and     *)
(* failing pull: what it keeps, gives to rooms and counts.                 *)
(***************************************************************************)
EXTENDS Sharding, Extraction, SequenceTheorems, FiniteSetTheorems, WellFoundedInduction, TLAPS

-----------------------------------------------------------------------------
(***************************************************************************)
(* Loops                                                                   *)
(***************************************************************************)

\* Every nonempty set of natural numbers has a least element.
LEMMA LeastNat ==
  ASSUME NEW T, T \subseteq Nat, T # {}
  PROVE  \E x \in T : \A y \in T : x <= y
<1>1. PICK x \in T : \A y \in T : ~(<<y, x>> \in OpToRel(<, Nat))
  BY WFMin, NatLessThanWellFounded
<1>2. \A y \in T : ~(y < x)
  BY <1>1 DEF OpToRel
<1> QED
  BY <1>2

\* What holds of the first round of a loop and is kept by every round holds of
\* them all: the rounds of which it does not hold would have a least.
LEMMA EveryRound ==
  ASSUME NEW a \in Nat, NEW b \in Nat, NEW G,
         a \in G, \A i \in a .. b : i < b /\ i \in G => i + 1 \in G
  PROVE  \A i \in a .. b : i \in G
<1> DEFINE Bad == {i \in a .. b : i \notin G}
<1>1. SUFFICES ASSUME Bad # {} PROVE FALSE
  OBVIOUS
<1>2. Bad \subseteq Nat
  OBVIOUS
<1>3. PICK m \in Bad : \A l \in Bad : m <= l
  <2> HIDE DEF Bad
  <2> QED
    BY <1>1, <1>2, LeastNat
<1>4. m \in a .. b /\ m # a
  BY <1>3
<1>5. m - 1 \in a .. b /\ m - 1 < b /\ ~(m <= m - 1)
  BY <1>4
<1>6. m - 1 \in G
  BY <1>3, <1>5
<1>7. (m - 1) + 1 \in G
  BY <1>5, <1>6
<1>8. (m - 1) + 1 = m
  BY <1>4
<1> QED
  BY <1>3, <1>7, <1>8

\* f has what a loop has after every round from a to b.
IsLoop(f, a, b, base, Step) ==
  \A i \in a .. b : f[i] = IF i = a THEN base ELSE Step[<<i, f[i - 1]>>]

\* A loop has a value in every round.
LEMMA LoopExists ==
  \A a, b \in Nat : \A St : \A base \in St : \A Step \in [(a .. b) \X St -> St] :
    a <= b => \E f \in [a .. b -> St] : IsLoop(f, a, b, base, Step)
<1> TAKE a, b \in Nat
<1> TAKE St
<1> TAKE base \in St
<1> TAKE Step \in [(a .. b) \X St -> St]
<1> HAVE a <= b
<1> DEFINE G == {m \in a .. b : \E f \in [a .. m -> St] : IsLoop(f, a, m, base, Step)}
<1>1. a \in G
  <2>1. [i \in a .. a |-> base] \in [a .. a -> St] /\ IsLoop([i \in a .. a |-> base], a, a, base, Step)
    BY DEF IsLoop
  <2>2. a \in a .. b
    OBVIOUS
  <2> QED
    BY <2>1, <2>2
<1>2. ASSUME NEW m \in a .. b, m < b, m \in G PROVE m + 1 \in G
  <2>1. PICK f \in [a .. m -> St] : IsLoop(f, a, m, base, Step)
    BY <1>2
  <2> DEFINE g == [i \in a .. m + 1 |-> IF i = m + 1 THEN Step[<<m + 1, f[m]>>] ELSE f[i]]
  <2>2. m + 1 \in a .. b /\ m \in a .. m /\ m \in a .. m + 1 /\ m + 1 # m /\ (m + 1) - 1 = m /\ m + 1 # a
    BY <1>2
  <2>3. Step[<<m + 1, f[m]>>] \in St
    BY <2>1, <2>2
  <2>4. g \in [a .. m + 1 -> St]
    <3>1. \A i \in a .. m + 1 : i = m + 1 \/ i \in a .. m
      OBVIOUS
    <3> QED
      BY <2>1, <2>3, <3>1
  <2>5. ASSUME NEW i \in a .. m + 1 PROVE g[i] = IF i = a THEN base ELSE Step[<<i, g[i - 1]>>]
    <3>1. CASE i = m + 1
      <4>1. g[m + 1] = Step[<<m + 1, f[m]>>] /\ g[m] = f[m]
        BY <2>2
      <4> QED
        BY <2>2, <3>1, <4>1
    <3>2. CASE i # m + 1
      <4>1. i \in a .. m /\ g[i] = f[i]
        BY <3>2
      <4>2. f[i] = IF i = a THEN base ELSE Step[<<i, f[i - 1]>>]
        BY <2>1, <4>1 DEF IsLoop
      <4>3. i # a => g[i - 1] = f[i - 1]
        BY <3>2
      <4> HIDE DEF g
      <4> QED
        BY <4>1, <4>2, <4>3
    <3> QED
      BY <3>1, <3>2
  <2> HIDE DEF g
  <2> QED
    BY <2>2, <2>4, <2>5 DEF IsLoop
<1> HIDE DEF G
<1>3. b \in G
  <2>1. \A i \in a .. b : i < b /\ i \in G => i + 1 \in G
    BY <1>2
  <2>2. \A i \in a .. b : i \in G
    BY <1>1, <2>1, EveryRound
  <2> QED
    BY <2>2
<1> QED
  BY <1>3 DEF G

-----------------------------------------------------------------------------
(***************************************************************************)
(* What the seen-set loop keeps                                            *)
(***************************************************************************)

\* The positions of what the loop keeps.
KeptOf(found) ==
  {i \in 1 .. Len(found) :
     ~(found[i].mark = NoMark \/ \E j \in 1 .. i - 1 : found[j].mark = found[i].mark)}

\* kept has what is at those positions, in order.
Keeps(kept, found) ==
  /\ {kept[n] : n \in DOMAIN kept} = {found[i] : i \in KeptOf(found)}
  /\ \A m, n \in DOMAIN kept : m < n =>
       \E i, j \in KeptOf(found) : i < j /\ kept[m] = found[i] /\ kept[n] = found[j]

\* FirstWins keeps what has a mark no earlier item has.
LEMMA FirstWinsIs ==
  ASSUME NEW S, NEW found \in Seq(S)
  PROVE  FirstWins(found) \in Seq(S) /\ Keeps(FirstWins(found), found)
<1> DEFINE len == Len(found)
           Seen(i) == found[i].mark = NoMark \/ \E j \in 1 .. i - 1 : found[j].mark = found[i].mark
<1>1. len \in Nat /\ \A i \in 1 .. len : found[i] \in S
  BY LenProperties, ElementOfSeq
<1> DEFINE Body(g, i) == IF i = 0 THEN <<>> ELSE IF Seen(i) THEN g[i - 1] ELSE Append(g[i - 1], found[i])
           Is(g) == g = [i \in 0 .. len |-> Body(g, i)]
           out == CHOOSE g : Is(g)
<1>2. \E f \in [0 .. len -> Seq(S)] : \A i \in 0 .. len : f[i] = Body(f, i)
  <2> DEFINE Step == [x \in (0 .. len) \X Seq(S) |->
                        IF x[1] = 0 \/ Seen(x[1]) THEN x[2] ELSE Append(x[2], found[x[1]])]
  <2>1. Step \in [(0 .. len) \X Seq(S) -> Seq(S)]
    <3>1. \A i \in 0 .. len : \A s \in Seq(S) : i # 0 => Append(s, found[i]) \in Seq(S)
      <4> SUFFICES ASSUME NEW i \in 0 .. len, NEW s \in Seq(S), i # 0 PROVE Append(s, found[i]) \in Seq(S)
        OBVIOUS
      <4>1. found[i] \in S
        BY <1>1
      <4> HIDE DEF len
      <4> QED
        BY <4>1, AppendProperties
    <3>2. \A x \in (0 .. len) \X Seq(S) : x[1] \in 0 .. len /\ x[2] \in Seq(S)
      OBVIOUS
    <3> HIDE DEF len, Seen
    <3> QED
      BY <3>1, <3>2
  <2>2. <<>> \in Seq(S)
    BY EmptySeq
  <2>3. \E f \in [0 .. len -> Seq(S)] : IsLoop(f, 0, len, <<>>, Step)
    <3>1. 0 \in Nat /\ 0 <= len
      BY <1>1
    <3> HIDE DEF len, Step
    <3> QED
      BY <1>1, <2>1, <2>2, <3>1, LoopExists
  <2>4. \A i \in 0 .. len : \A s \in Seq(S) : i # 0 =>
          Step[<<i, s>>] = IF Seen(i) THEN s ELSE Append(s, found[i])
    BY DEF Step
  <2>5. \A f \in [0 .. len -> Seq(S)] : \A i \in 0 .. len : i # 0 => f[i - 1] \in Seq(S)
    <3>1. \A i \in 0 .. len : i # 0 => i - 1 \in 0 .. len
      BY <1>1
    <3> HIDE DEF len
    <3> QED
      BY <3>1
  <2> HIDE DEF len, Step, Seen
  <2> QED
    BY <2>3, <2>4, <2>5 DEF IsLoop
<1>3. Is(out)
  <2>1. PICK f \in [0 .. len -> Seq(S)] : \A i \in 0 .. len : f[i] = Body(f, i)
    BY <1>2
  <2>2. f = [i \in 0 .. len |-> f[i]]
    OBVIOUS
  <2>3. [i \in 0 .. len |-> f[i]] = [i \in 0 .. len |-> Body(f, i)]
    <3> HIDE DEF Body
    <3> QED
      BY <2>1, Zenon
  <2>4. Is(f)
    BY <2>2, <2>3
  <2> HIDE DEF Is
  <2> QED
    BY <2>4, Zenon
<1>4. FirstWins(found) = out[len]
  BY Zenon DEF FirstWins
<1> HIDE DEF out
<1>5. \A i \in 0 .. len : out[i] = Body(out, i)
  <2> HIDE DEF Body, len
  <2> QED
    BY <1>3, Zenon
<1> DEFINE Kept(i) == {k \in KeptOf(found) : k <= i}
           Shape(o, K) == /\ {o[n] : n \in DOMAIN o} = {found[k] : k \in K}
                          /\ \A m, n \in DOMAIN o : m < n =>
                               \E k, l \in K : k < l /\ o[m] = found[k] /\ o[n] = found[l]
           G == {i \in 0 .. len : out[i] \in Seq(S) /\ Shape(out[i], Kept(i))}
<1>6. 0 \in G
  <2>1. 0 \in 0 .. len
    BY <1>1
  <2>2. out[0] = <<>>
    <3> HIDE DEF len
    <3> QED
      BY <1>5, <2>1
  <2>3. <<>> \in Seq(S)
    BY EmptySeq
  <2>4. Kept(0) = {}
    BY DEF KeptOf
  <2>5. Shape(<<>>, Kept(0))
    BY <2>4
  <2> HIDE DEF Shape, len
  <2> QED
    BY <2>1, <2>2, <2>3, <2>5
<1>7. ASSUME NEW i \in 0 .. len, i < len, i \in G PROVE i + 1 \in G
  <2> DEFINE o == out[i]
  <2>1. o \in Seq(S) /\ Shape(o, Kept(i))
    BY <1>7
  <2>2. i + 1 \in 0 .. len /\ i + 1 \in 1 .. len /\ i + 1 # 0 /\ (i + 1) - 1 = i
    BY <1>1, <1>7
  <2>3. out[i + 1] = IF Seen(i + 1) THEN o ELSE Append(o, found[i + 1])
    <3>1. out[i + 1] = Body(out, i + 1)
      <4> HIDE DEF len, Body
      <4> QED
        BY <1>5, <2>2
    <3> HIDE DEF len, Seen
    <3> QED
      BY <2>2, <3>1
  <2>4. i + 1 \in KeptOf(found) <=> ~Seen(i + 1)
    BY <2>2 DEF KeptOf
  <2>5. KeptOf(found) \subseteq Nat
    BY <1>1 DEF KeptOf
  <2>6. CASE Seen(i + 1)
    <3>1. Kept(i + 1) = Kept(i)
      <4>1. \A k \in KeptOf(found) : k <= i + 1 => k <= i
        BY <2>2, <2>4, <2>5, <2>6
      <4>2. \A k \in KeptOf(found) : k <= i => k <= i + 1
        BY <2>2, <2>5
      <4> QED
        BY <4>1, <4>2
    <3>2. Shape(o, Kept(i + 1))
      <4> HIDE DEF Shape, Kept, o
      <4> QED
        BY <2>1, <3>1
    <3>3. out[i + 1] = o
      <4> HIDE DEF o, Seen
      <4> QED
        BY <2>3, <2>6
    <3> HIDE DEF Shape, o
    <3> QED
      BY <2>1, <2>2, <3>2, <3>3
  <2>7. CASE ~Seen(i + 1)
    <3> DEFINE q == Append(o, found[i + 1])
    <3>1. found[i + 1] \in S
      BY <1>1, <2>2
    <3>2. /\ q \in Seq(S) /\ Len(q) = Len(o) + 1 /\ q[Len(o) + 1] = found[i + 1]
          /\ \A n \in 1 .. Len(o) : q[n] = o[n]
          /\ DOMAIN q = 1 .. Len(q) /\ DOMAIN o = 1 .. Len(o) /\ Len(o) \in Nat
      <4> HIDE DEF o
      <4>1. /\ q \in Seq(S) /\ Len(q) = Len(o) + 1 /\ q[Len(o) + 1] = found[i + 1]
            /\ \A n \in 1 .. Len(o) : q[n] = o[n]
        BY <2>1, <3>1, AppendProperties
      <4> HIDE DEF q
      <4> QED
        BY <2>1, <4>1, LenProperties
    <3>3. Kept(i + 1) = Kept(i) \cup {i + 1} /\ \A k \in Kept(i) : k < i + 1
      <4>1. \A k \in KeptOf(found) : k <= i + 1 => k <= i \/ k = i + 1
        BY <2>2, <2>5
      <4>2. \A k \in KeptOf(found) : k <= i => k <= i + 1 /\ k < i + 1
        BY <2>2, <2>5
      <4>3. i + 1 <= i + 1
        BY <2>2
      <4>4. i + 1 \in KeptOf(found)
        BY <2>4, <2>7
      <4> QED
        BY <4>1, <4>2, <4>3, <4>4
    <3> HIDE DEF Kept
    <3>4. {q[n] : n \in DOMAIN q} = {o[n] : n \in DOMAIN o} \cup {found[i + 1]}
      <4>1. DOMAIN q = DOMAIN o \cup {Len(o) + 1}
        <5> HIDE DEF q, o
        <5> QED
          BY <3>2
      <4> HIDE DEF q, o
      <4>2. {q[n] : n \in DOMAIN q} = {q[n] : n \in DOMAIN o} \cup {q[Len(o) + 1]}
        BY <4>1
      <4>3. \A n \in DOMAIN o : q[n] = o[n]
        BY <3>2
      <4>4. {q[n] : n \in DOMAIN o} = {o[n] : n \in DOMAIN o}
        BY <4>3
      <4> QED
        BY <3>2, <4>2, <4>4
    <3>5. {q[n] : n \in DOMAIN q} = {found[k] : k \in Kept(i + 1)}
      <4> HIDE DEF q, o
      <4>1. {o[n] : n \in DOMAIN o} = {found[k] : k \in Kept(i)}
        BY <2>1
      <4>2. {found[k] : k \in Kept(i + 1)} = {found[k] : k \in Kept(i)} \cup {found[i + 1]}
        BY <3>3
      <4> QED
        BY <3>4, <4>1, <4>2
    <3>6. ASSUME NEW m \in DOMAIN q, NEW n \in DOMAIN q, m < n
          PROVE  \E k, l \in Kept(i + 1) : k < l /\ q[m] = found[k] /\ q[n] = found[l]
      <4>1. m \in DOMAIN o /\ q[m] = o[m]
        <5> HIDE DEF q, o
        <5> QED
          BY <3>2, <3>6
      <4>2. CASE n = Len(o) + 1
        <5>1. PICK k \in Kept(i) : o[m] = found[k]
          <6> HIDE DEF o
          <6> QED
            BY <2>1, <4>1
        <5>2. k \in Kept(i + 1) /\ i + 1 \in Kept(i + 1) /\ k < i + 1
          BY <3>3
        <5> HIDE DEF q, o
        <5> QED
          BY <3>2, <4>1, <4>2, <5>1, <5>2
      <4>3. CASE n # Len(o) + 1
        <5>1. n \in DOMAIN o /\ q[n] = o[n]
          <6> HIDE DEF q, o
          <6> QED
            BY <3>2, <3>6, <4>3
        <5>2. \E k, l \in Kept(i) : k < l /\ o[m] = found[k] /\ o[n] = found[l]
          <6> HIDE DEF q, o
          <6> QED
            BY <2>1, <3>6, <4>1, <5>1
        <5> HIDE DEF q, o
        <5> QED
          BY <3>3, <4>1, <5>1, <5>2
      <4> QED
        BY <4>2, <4>3
    <3>7. Shape(q, Kept(i + 1))
      BY <3>5, <3>6
    <3>8. out[i + 1] = q
      <4> HIDE DEF o, Seen
      <4> QED
        BY <2>3, <2>7
    <3> HIDE DEF Shape, o, q
    <3> QED
      BY <2>2, <3>2, <3>7, <3>8
  <2> QED
    BY <2>6, <2>7
<1> HIDE DEF G
<1>8. len \in G
  <2>1. \A i \in 0 .. len : i < len /\ i \in G => i + 1 \in G
    BY <1>7
  <2>2. \A i \in 0 .. len : i \in G
    <3> HIDE DEF len
    <3> QED
      BY <1>1, <1>6, <2>1, EveryRound
  <2> QED
    BY <1>1, <2>2
<1>9. Kept(len) = KeptOf(found)
  BY <1>1 DEF KeptOf
<1>10. FirstWins(found) \in Seq(S) /\ Shape(FirstWins(found), Kept(len))
  <2> HIDE DEF Shape
  <2> QED
    BY <1>4, <1>8 DEF G
<1>11. Shape(FirstWins(found), KeptOf(found))
  <2> HIDE DEF Shape, Kept
  <2> QED
    BY <1>9, <1>10
<1> QED
  BY <1>10, <1>11 DEF Keeps

-----------------------------------------------------------------------------
(***************************************************************************)
(* Flattened sequences                                                     *)
(***************************************************************************)

\* The places in a sequence of sequences.
PlacesOf(segs) == {x \in (DOMAIN segs) \X (Nat \ {0}) : x[2] \in DOMAIN segs[x[1]]}
PlacesUpto(segs, i) == {x \in PlacesOf(segs) : x[1] <= i}

\* s lists what is at the places P, and pos says at which.
Lists(s, pos, segs, P) ==
  /\ pos \in [DOMAIN s -> P]
  /\ \A n \in DOMAIN s : s[n] = segs[pos[n][1]][pos[n][2]]
  /\ \A m, n \in DOMAIN s : m < n => Sooner(pos[m], pos[n])
  /\ \A x \in P : \E n \in DOMAIN s : pos[n] = x

\* One more sequence is listed behind those before it.
LEMMA ListMore ==
  ASSUME NEW S, NEW segs \in Seq(Seq(S)), NEW i \in 0 .. Len(segs), i < Len(segs),
         NEW s \in Seq(S), NEW pos, Lists(s, pos, segs, PlacesUpto(segs, i))
  PROVE  \E p : Lists(s \o segs[i + 1], p, segs, PlacesUpto(segs, i + 1))
<1> DEFINE t == segs[i + 1]
           q == s \o t
           P == PlacesUpto(segs, i)
           Q == PlacesUpto(segs, i + 1)
           p == [n \in DOMAIN q |-> IF n <= Len(s) THEN pos[n] ELSE <<i + 1, n - Len(s)>>]
<1>1. Len(segs) \in Nat /\ DOMAIN segs = 1 .. Len(segs) /\ i + 1 \in DOMAIN segs /\ i \in Nat /\ t \in Seq(S)
  <2>1. Len(segs) \in Nat /\ DOMAIN segs = 1 .. Len(segs)
    BY LenProperties
  <2>2. i + 1 \in 1 .. Len(segs) /\ i \in Nat
    BY <2>1
  <2> QED
    BY <2>1, <2>2, ElementOfSeq
<1> HIDE DEF t
<1>2. /\ Len(s) \in Nat /\ DOMAIN s = 1 .. Len(s) /\ Len(t) \in Nat /\ DOMAIN t = 1 .. Len(t)
      /\ DOMAIN q = 1 .. Len(s) + Len(t)
      /\ \A n \in 1 .. Len(s) + Len(t) : q[n] = IF n <= Len(s) THEN s[n] ELSE t[n - Len(s)]
  <2>1. Len(s) \in Nat /\ DOMAIN s = 1 .. Len(s) /\ Len(t) \in Nat /\ DOMAIN t = 1 .. Len(t)
    BY <1>1, LenProperties
  <2>2. /\ q \in Seq(S) /\ Len(q) = Len(s) + Len(t)
        /\ \A n \in 1 .. Len(s) + Len(t) : q[n] = IF n <= Len(s) THEN s[n] ELSE t[n - Len(s)]
    BY <1>1, ConcatProperties
  <2> HIDE DEF q
  <2>3. DOMAIN q = 1 .. Len(q)
    BY <2>2, LenProperties
  <2> QED
    BY <2>1, <2>2, <2>3
<1> HIDE DEF q
<1>3. Q = P \cup {<<i + 1, k>> : k \in 1 .. Len(t)}
  <2>1. ASSUME NEW x \in Q PROVE x \in P \cup {<<i + 1, k>> : k \in 1 .. Len(t)}
    <3>1. x \in PlacesOf(segs) /\ x[1] <= i + 1 /\ x[1] \in Nat /\ x = <<x[1], x[2]>> /\ x[2] \in DOMAIN segs[x[1]]
      BY <1>1 DEF PlacesUpto, PlacesOf
    <3>2. CASE x[1] = i + 1
      BY <1>2, <3>1, <3>2 DEF t
    <3>3. CASE x[1] # i + 1
      BY <1>1, <3>1, <3>3 DEF PlacesUpto
    <3> QED
      BY <3>2, <3>3
  <2>2. P \subseteq Q
    BY <1>1 DEF PlacesUpto, PlacesOf
  <2>3. ASSUME NEW k \in 1 .. Len(t) PROVE <<i + 1, k>> \in Q
    <3>1. k \in Nat \ {0} /\ k \in DOMAIN segs[i + 1]
      BY <1>2 DEF t
    <3> QED
      BY <1>1, <3>1 DEF PlacesUpto, PlacesOf
  <2> QED
    BY <2>1, <2>2, <2>3
<1>4. /\ pos \in [DOMAIN s -> P]
      /\ \A n \in DOMAIN s : s[n] = segs[pos[n][1]][pos[n][2]]
      /\ \A m, n \in DOMAIN s : m < n => Sooner(pos[m], pos[n])
      /\ \A x \in P : \E n \in DOMAIN s : pos[n] = x
  BY DEF Lists
<1>5. \A x \in P : x[1] \in Nat /\ x[1] < i + 1
  BY <1>1 DEF PlacesUpto, PlacesOf
<1> HIDE DEF P, Q
<1>6. ASSUME NEW n \in DOMAIN q
      PROVE  \/ n \in DOMAIN s /\ p[n] = pos[n] /\ p[n] \in P /\ q[n] = s[n]
             \/ /\ n - Len(s) \in 1 .. Len(t) /\ p[n] = <<i + 1, n - Len(s)>> /\ n \notin DOMAIN s
                /\ q[n] = t[n - Len(s)]
  <2>1. CASE n <= Len(s)
    <3>1. n \in DOMAIN s
      BY <1>2, <2>1
    <3> QED
      BY <1>2, <1>4, <2>1, <3>1
  <2>2. CASE ~(n <= Len(s))
    <3>1. n - Len(s) \in 1 .. Len(t) /\ n \notin DOMAIN s
      BY <1>2, <2>2
    <3> QED
      BY <1>2, <2>2, <3>1
  <2> QED
    BY <2>1, <2>2
<1>7. p \in [DOMAIN q -> Q]
  <2>1. \A n \in DOMAIN q : p[n] \in Q
    BY <1>3, <1>6
  <2> QED
    BY <2>1
<1>8. \A n \in DOMAIN q : q[n] = segs[p[n][1]][p[n][2]]
  <2> SUFFICES ASSUME NEW n \in DOMAIN q PROVE q[n] = segs[p[n][1]][p[n][2]]
    OBVIOUS
  <2> HIDE DEF p
  <2> QED
    BY <1>4, <1>6 DEF t
<1>9. ASSUME NEW m \in DOMAIN q, NEW n \in DOMAIN q, m < n PROVE Sooner(p[m], p[n])
  <2> HIDE DEF p
  <2>1. m \in Nat /\ n \in Nat
    BY <1>2
  <2>2. CASE n \in DOMAIN s
    <3>1. m \in DOMAIN s
      BY <1>2, <1>9, <2>1, <2>2
    <3> QED
      BY <1>4, <1>6, <1>9, <2>2, <3>1
  <2>3. CASE n \notin DOMAIN s
    <3>1. p[n] = <<i + 1, n - Len(s)>>
      BY <1>6, <2>3
    <3>2. CASE m \in DOMAIN s
      <4>1. p[m][1] < i + 1
        BY <1>5, <1>6, <3>2
      <4> QED
        BY <3>1, <4>1 DEF Sooner
    <3>3. CASE m \notin DOMAIN s
      <4>1. p[m] = <<i + 1, m - Len(s)>>
        BY <1>6, <3>3
      <4>2. m - Len(s) < n - Len(s)
        BY <1>2, <1>9, <2>1
      <4> QED
        BY <3>1, <4>1, <4>2 DEF Sooner
    <3> QED
      BY <3>2, <3>3
  <2> QED
    BY <2>2, <2>3
<1>10. ASSUME NEW x \in Q PROVE \E n \in DOMAIN q : p[n] = x
  <2>1. CASE x \in P
    <3>1. PICK n \in DOMAIN s : pos[n] = x
      BY <1>4, <2>1
    <3>2. n \in DOMAIN q /\ n <= Len(s)
      BY <1>2
    <3> QED
      BY <3>1, <3>2
  <2>2. CASE x \notin P
    <3>1. PICK k \in 1 .. Len(t) : x = <<i + 1, k>>
      BY <1>3, <2>2
    <3>2. Len(s) + k \in DOMAIN q /\ ~(Len(s) + k <= Len(s)) /\ (Len(s) + k) - Len(s) = k
      BY <1>2
    <3>3. p[Len(s) + k] = x
      BY <3>1, <3>2
    <3> QED
      BY <3>2, <3>3
  <2> QED
    BY <2>1, <2>2
<1>11. Lists(q, p, segs, Q)
  <2> HIDE DEF p
  <2> QED
    BY <1>7, <1>8, <1>9, <1>10 DEF Lists
<1> QED
  BY <1>11 DEF q, t, Q

\* Flattened sequences list what they hold, sequence by sequence.
LEMMA FlattenIs ==
  ASSUME NEW S, NEW segs \in Seq(Seq(S))
  PROVE  /\ FlattenSeq(segs) \in Seq(S)
         /\ \E pos : Lists(FlattenSeq(segs), pos, segs, PlacesOf(segs))
<1> DEFINE len == Len(segs)
<1>1. len \in Nat /\ DOMAIN segs = 1 .. len /\ \A i \in 1 .. len : segs[i] \in Seq(S)
  BY LenProperties, ElementOfSeq
<1>2. CASE len = 0
  <2>1. FlattenSeq(segs) = segs /\ segs = <<>>
    BY <1>1, <1>2 DEF FlattenSeq
  <2>2. <<>> \in Seq(S) /\ DOMAIN segs = {}
    BY <1>1, <1>2, EmptySeq
  <2>3. PlacesOf(segs) = {}
    BY <2>2 DEF PlacesOf
  <2>4. Lists(segs, segs, segs, PlacesOf(segs))
    BY <2>1, <2>2, <2>3 DEF Lists
  <2> QED
    BY <2>1, <2>2, <2>4
<1>3. CASE len # 0
  <2>0. 1 \in Nat /\ 1 <= len /\ len \in Nat /\ 1 \in 1 .. len
    BY <1>1, <1>3
  <2> DEFINE Body(g, i) == IF i = 1 THEN segs[i] ELSE g[i - 1] \o segs[i]
             Is(g) == g = [i \in 1 .. len |-> Body(g, i)]
             out == CHOOSE g : Is(g)
  <2>1. \E f \in [1 .. len -> Seq(S)] : \A i \in 1 .. len : f[i] = Body(f, i)
    <3> DEFINE Step == [x \in (1 .. len) \X Seq(S) |-> x[2] \o segs[x[1]]]
               first == segs[1]
    <3>1. Step \in [(1 .. len) \X Seq(S) -> Seq(S)]
      <4>1. \A i \in 1 .. len : \A s \in Seq(S) : s \o segs[i] \in Seq(S)
        <5> HIDE DEF len
        <5> QED
          BY <1>1, ConcatProperties
      <4>2. \A x \in (1 .. len) \X Seq(S) : x[1] \in 1 .. len /\ x[2] \in Seq(S)
        OBVIOUS
      <4> HIDE DEF len
      <4> QED
        BY <4>1, <4>2
    <3>2. first \in Seq(S)
      BY <1>1, <2>0
    <3>3. \E f \in [1 .. len -> Seq(S)] : IsLoop(f, 1, len, first, Step)
      <4> HIDE DEF len, Step, first
      <4> QED
        BY <2>0, <3>1, <3>2, LoopExists
    <3>4. \A i \in 1 .. len : \A s \in Seq(S) : Step[<<i, s>>] = s \o segs[i]
      OBVIOUS
    <3>5. \A f \in [1 .. len -> Seq(S)] : \A i \in 1 .. len : i # 1 => f[i - 1] \in Seq(S)
      <4>1. \A i \in 1 .. len : i # 1 => i - 1 \in 1 .. len
        BY <2>0
      <4> HIDE DEF len
      <4> QED
        BY <4>1
    <3> HIDE DEF len, Step
    <3>6. PICK f \in [1 .. len -> Seq(S)] : IsLoop(f, 1, len, first, Step)
      BY <3>3
    <3>7. ASSUME NEW i \in 1 .. len PROVE f[i] = Body(f, i)
      <4>1. f[i] = IF i = 1 THEN first ELSE Step[<<i, f[i - 1]>>]
        BY <3>6 DEF IsLoop
      <4>2. i # 1 => Step[<<i, f[i - 1]>>] = f[i - 1] \o segs[i]
        BY <3>4, <3>5
      <4> QED
        BY <4>1, <4>2
    <3> HIDE DEF Body
    <3> QED
      BY <3>7
  <2>2. Is(out)
    <3>1. PICK f \in [1 .. len -> Seq(S)] : \A i \in 1 .. len : f[i] = Body(f, i)
      BY <2>1
    <3>2. f = [i \in 1 .. len |-> f[i]]
      OBVIOUS
    <3>3. [i \in 1 .. len |-> f[i]] = [i \in 1 .. len |-> Body(f, i)]
      <4> HIDE DEF Body
      <4> QED
        BY <3>1, Zenon
    <3>4. Is(f)
      BY <3>2, <3>3
    <3> HIDE DEF Is
    <3> QED
      BY <3>4, Zenon
  <2>3. FlattenSeq(segs) = out[len]
    BY <1>3, Zenon DEF FlattenSeq
  <2> HIDE DEF out
  <2>4. \A i \in 1 .. len : out[i] = Body(out, i)
    <3> HIDE DEF Body, len
    <3> QED
      BY <2>2, Zenon
  <2> DEFINE Good(i) == out[i] \in Seq(S) /\ \E pos : Lists(out[i], pos, segs, PlacesUpto(segs, i))
             G == {i \in 1 .. len : Good(i)}
  <2>5. 1 \in G
    <3>1. out[1] = segs[1] /\ segs[1] \in Seq(S)
      <4>1. out[1] = Body(out, 1)
        <5> HIDE DEF len, Body
        <5> QED
          BY <2>0, <2>4
      <4> QED
        BY <1>1, <2>0, <4>1
    <3> DEFINE s == segs[1]
               pos == [n \in DOMAIN s |-> <<1, n>>]
    <3>2. DOMAIN s = 1 .. Len(s) /\ Len(s) \in Nat
      BY <3>1, LenProperties
    <3>3. PlacesUpto(segs, 1) = {<<1, n>> : n \in DOMAIN s}
      <4>1. ASSUME NEW x \in PlacesUpto(segs, 1) PROVE x \in {<<1, n>> : n \in DOMAIN s}
        <5>1. x = <<x[1], x[2]>> /\ x[1] = 1 /\ x[2] \in DOMAIN segs[x[1]]
          BY <1>1 DEF PlacesUpto, PlacesOf
        <5> QED
          BY <5>1
      <4>2. ASSUME NEW n \in DOMAIN s PROVE <<1, n>> \in PlacesUpto(segs, 1)
        <5>1. n \in Nat \ {0} /\ 1 \in DOMAIN segs
          BY <1>1, <2>0, <3>2
        <5> QED
          BY <5>1 DEF PlacesUpto, PlacesOf
      <4> QED
        BY <4>1, <4>2
    <3>4. Lists(s, pos, segs, PlacesUpto(segs, 1))
      <4>1. pos \in [DOMAIN s -> PlacesUpto(segs, 1)]
        BY <3>3
      <4>2. \A n \in DOMAIN s : s[n] = segs[pos[n][1]][pos[n][2]]
        OBVIOUS
      <4>3. \A m, n \in DOMAIN s : m < n => Sooner(pos[m], pos[n])
        BY DEF Sooner
      <4>4. \A x \in PlacesUpto(segs, 1) : \E n \in DOMAIN s : pos[n] = x
        BY <3>3
      <4> HIDE DEF pos
      <4> QED
        BY <4>1, <4>2, <4>3, <4>4 DEF Lists
    <3> HIDE DEF pos
    <3> QED
      BY <2>0, <3>1, <3>4
  <2>6. ASSUME NEW i \in 1 .. len, i < len, i \in G PROVE i + 1 \in G
    <3>1. i + 1 \in 1 .. len /\ i + 1 # 1 /\ (i + 1) - 1 = i /\ i \in 0 .. len
      BY <2>0, <2>6
    <3>2. out[i + 1] = out[i] \o segs[i + 1]
      <4>1. out[i + 1] = Body(out, i + 1)
        <5> HIDE DEF len, Body
        <5> QED
          BY <2>4, <3>1
      <4> HIDE DEF len
      <4> QED
        BY <3>1, <4>1
    <3>3. out[i] \in Seq(S)
      BY <2>6
    <3>4. PICK pos : Lists(out[i], pos, segs, PlacesUpto(segs, i))
      BY <2>6
    <3>5. \E p : Lists(out[i + 1], p, segs, PlacesUpto(segs, i + 1))
      <4>1. \E p : Lists(out[i] \o segs[i + 1], p, segs, PlacesUpto(segs, i + 1))
        BY <2>6, <3>1, <3>3, <3>4, ListMore
      <4> QED
        BY <3>2, <4>1
    <3>6. out[i + 1] \in Seq(S)
      <4> HIDE DEF len
      <4> QED
        BY <1>1, <3>1, <3>2, <3>3, ConcatProperties
    <3> QED
      BY <3>1, <3>5, <3>6
  <2> HIDE DEF G
  <2>7. len \in G
    <3>1. \A i \in 1 .. len : i < len /\ i \in G => i + 1 \in G
      BY <2>6
    <3>2. \A i \in 1 .. len : i \in G
      <4> HIDE DEF len
      <4> QED
        BY <2>0, <2>5, <3>1, EveryRound
    <3> QED
      BY <2>0, <3>2
  <2>8. PlacesUpto(segs, len) = PlacesOf(segs)
    BY <1>1 DEF PlacesUpto, PlacesOf
  <2> QED
    BY <2>3, <2>7, <2>8 DEF G
<1> QED
  BY <1>2, <1>3

-----------------------------------------------------------------------------
(***************************************************************************)
(* Deduplicating twice                                                     *)
(***************************************************************************)

\* The order of places is strict.
LEMMA SoonerIsStrict ==
  \A x, y : (x[1] \in Nat /\ x[2] \in Nat /\ y[1] \in Nat /\ y[2] \in Nat) =>
    /\ ~Sooner(x, x)
    /\ ~(Sooner(x, y) /\ Sooner(y, x))
BY DEF Sooner

\* The places of the first items of their mark.
FirstsOf(segs) ==
  {x \in PlacesOf(segs) :
     /\ segs[x[1]][x[2]].mark # NoMark
     /\ \A y \in PlacesOf(segs) : Sooner(y, x) => segs[y[1]][y[2]].mark # segs[x[1]][x[2]].mark}

\* out has what is at those places, in order.
KeepsFirsts(out, segs) ==
  /\ {out[n] : n \in DOMAIN out} = {segs[x[1]][x[2]] : x \in FirstsOf(segs)}
  /\ \A m, n \in DOMAIN out : m < n =>
       \E x, y \in FirstsOf(segs) :
         Sooner(x, y) /\ out[m] = segs[x[1]][x[2]] /\ out[n] = segs[y[1]][y[2]]

\* FirstWins over flattened sequences keeps the first items of their mark.
LEMMA FirstsIs ==
  ASSUME NEW S, NEW segs \in Seq(Seq(S))
  PROVE  FirstWins(FlattenSeq(segs)) \in Seq(S) /\ KeepsFirsts(FirstWins(FlattenSeq(segs)), segs)
<1> DEFINE flat == FlattenSeq(segs)
           out == FirstWins(flat)
           V(x) == segs[x[1]][x[2]]
<1>1. PICK pos : Lists(flat, pos, segs, PlacesOf(segs))
  BY FlattenIs
<1>2. flat \in Seq(S)
  BY FlattenIs
<1> HIDE DEF flat
<1>3. Len(flat) \in Nat /\ DOMAIN flat = 1 .. Len(flat)
  BY <1>2, LenProperties
<1>4. /\ \A n \in 1 .. Len(flat) : pos[n] \in PlacesOf(segs) /\ flat[n] = V(pos[n])
      /\ \A m, n \in 1 .. Len(flat) : m < n => Sooner(pos[m], pos[n])
      /\ \A x \in PlacesOf(segs) : \E n \in 1 .. Len(flat) : pos[n] = x
  BY <1>1, <1>3 DEF Lists
<1>5. \A x \in PlacesOf(segs) : x[1] \in Nat /\ x[2] \in Nat
  <2>1. DOMAIN segs \subseteq Nat
    BY LenProperties
  <2> QED
    BY <2>1 DEF PlacesOf
<1>6. \A m, n \in 1 .. Len(flat) : Sooner(pos[m], pos[n]) => m < n
  <2> SUFFICES ASSUME NEW m \in 1 .. Len(flat), NEW n \in 1 .. Len(flat), Sooner(pos[m], pos[n]), ~(m < n)
               PROVE  FALSE
    OBVIOUS
  <2>1. m = n \/ n < m
    BY <1>3
  <2>2. pos[m] \in PlacesOf(segs) /\ pos[n] \in PlacesOf(segs)
    BY <1>4
  <2>3. ~Sooner(pos[m], pos[m]) /\ ~(Sooner(pos[m], pos[n]) /\ Sooner(pos[n], pos[m]))
    BY <1>5, <2>2, SoonerIsStrict
  <2> QED
    BY <1>4, <2>1, <2>3
<1>7. \A n \in 1 .. Len(flat) : n \in KeptOf(flat) <=> pos[n] \in FirstsOf(segs)
  <2>1. ASSUME NEW n \in KeptOf(flat) PROVE n \in 1 .. Len(flat) /\ pos[n] \in FirstsOf(segs)
    <3>1. /\ n \in 1 .. Len(flat) /\ flat[n].mark # NoMark
          /\ \A j \in 1 .. n - 1 : flat[j].mark # flat[n].mark
      BY DEF KeptOf
    <3>2. ASSUME NEW y \in PlacesOf(segs), Sooner(y, pos[n]) PROVE V(y).mark # V(pos[n]).mark
      <4>1. PICK j \in 1 .. Len(flat) : pos[j] = y
        BY <1>4
      <4>2. j < n
        BY <1>6, <3>1, <3>2, <4>1
      <4>3. j \in 1 .. n - 1
        BY <1>3, <3>1, <4>2
      <4>4. flat[j].mark # flat[n].mark
        BY <3>1, <4>3
      <4>5. V(y) = flat[j] /\ V(pos[n]) = flat[n]
        BY <1>4, <3>1, <4>1
      <4> HIDE DEF V
      <4> QED
        BY <4>4, <4>5
    <3> QED
      BY <1>4, <3>1, <3>2 DEF FirstsOf
  <2>2. ASSUME NEW n \in 1 .. Len(flat), pos[n] \in FirstsOf(segs) PROVE n \in KeptOf(flat)
    <3>1. V(pos[n]).mark # NoMark /\ \A y \in PlacesOf(segs) : Sooner(y, pos[n]) => V(y).mark # V(pos[n]).mark
      BY <2>2 DEF FirstsOf
    <3>2. ASSUME NEW j \in 1 .. n - 1 PROVE flat[j].mark # flat[n].mark
      <4>1. j \in 1 .. Len(flat) /\ j < n
        BY <1>3
      <4>2. pos[j] \in PlacesOf(segs) /\ Sooner(pos[j], pos[n])
        BY <1>4, <2>2, <4>1
      <4>3. V(pos[j]).mark # V(pos[n]).mark
        BY <3>1, <4>2
      <4> QED
        BY <1>4, <4>1, <4>3
    <3> QED
      BY <1>4, <3>1, <3>2 DEF KeptOf
  <2> QED
    BY <2>1, <2>2
<1>8. KeptOf(flat) \subseteq 1 .. Len(flat)
  BY DEF KeptOf
<1>9. {flat[i] : i \in KeptOf(flat)} = {V(x) : x \in FirstsOf(segs)}
  <2>1. ASSUME NEW i \in KeptOf(flat) PROVE flat[i] \in {V(x) : x \in FirstsOf(segs)}
    BY <1>4, <1>7, <1>8
  <2>2. ASSUME NEW x \in FirstsOf(segs) PROVE V(x) \in {flat[i] : i \in KeptOf(flat)}
    <3>1. x \in PlacesOf(segs)
      BY DEF FirstsOf
    <3>2. PICK i \in 1 .. Len(flat) : pos[i] = x
      BY <1>4, <3>1
    <3> QED
      BY <1>4, <1>7, <3>2
  <2> QED
    BY <2>1, <2>2
<1> HIDE DEF out
<1>10. /\ out \in Seq(S)
       /\ {out[n] : n \in DOMAIN out} = {flat[i] : i \in KeptOf(flat)}
       /\ \A m, n \in DOMAIN out : m < n =>
            \E i, j \in KeptOf(flat) : i < j /\ out[m] = flat[i] /\ out[n] = flat[j]
  <2>1. out = FirstWins(flat)
    BY DEF out
  <2> QED
    <3>1. out \in Seq(S) /\ Keeps(out, flat)
      BY <1>2, <2>1, FirstWinsIs
    <3> QED
      BY <3>1 DEF Keeps
<1>11. ASSUME NEW m \in DOMAIN out, NEW n \in DOMAIN out, m < n
       PROVE  \E x, y \in FirstsOf(segs) : Sooner(x, y) /\ out[m] = V(x) /\ out[n] = V(y)
  <2>1. \E i, j \in KeptOf(flat) : i < j /\ out[m] = flat[i] /\ out[n] = flat[j]
    BY <1>10, <1>11
  <2>2. PICK i \in KeptOf(flat) : \E j \in KeptOf(flat) : i < j /\ out[m] = flat[i] /\ out[n] = flat[j]
    BY <2>1
  <2>3. PICK j \in KeptOf(flat) : i < j /\ out[m] = flat[i] /\ out[n] = flat[j]
    BY <2>2
  <2>4. i \in 1 .. Len(flat) /\ j \in 1 .. Len(flat)
    BY <1>8
  <2>5. pos[i] \in FirstsOf(segs) /\ pos[j] \in FirstsOf(segs)
    BY <1>7, <2>4
  <2>6. Sooner(pos[i], pos[j]) /\ out[m] = V(pos[i]) /\ out[n] = V(pos[j])
    BY <1>4, <2>3, <2>4
  <2> QED
    BY <2>5, <2>6
<1>12. KeepsFirsts(out, segs)
  BY <1>9, <1>10, <1>11 DEF KeepsFirsts
<1> QED
  BY <1>10, <1>12 DEF out, flat

\* Every mark on some pages has a first place there.
LEMMA HasFirst ==
  ASSUME NEW pages \in SUBSET Nat, NEW x \in Places(pages), Item(x).mark # NoMark,
         \A p \in pages : DOMAIN PageItems(p) \subseteq Nat
  PROVE  \E y \in FirstPlaces(pages) : Item(y).mark = Item(x).mark
<1> DEFINE T == {p \in pages : \E k \in DOMAIN PageItems(p) : PageItems(p)[k].mark = Item(x).mark}
<1>1. x[1] \in T
  BY DEF Places, Item
<1>2. PICK p \in T : \A q \in T : p <= q
  <2>1. T \subseteq Nat
    OBVIOUS
  <2> HIDE DEF T
  <2> QED
    BY <1>1, <2>1, LeastNat
<1> DEFINE K == {k \in DOMAIN PageItems(p) : PageItems(p)[k].mark = Item(x).mark}
<1>3. PICK k \in K : \A l \in K : k <= l
  <2>1. K \subseteq Nat /\ K # {}
    BY <1>2
  <2> HIDE DEF K
  <2> QED
    BY <2>1, LeastNat
<1>4. <<p, k>> \in Places(pages) /\ Item(<<p, k>>).mark = Item(x).mark
  BY <1>2, <1>3 DEF Places, Item
<1>5. ASSUME NEW y \in Places(pages), Sooner(y, <<p, k>>), Item(y).mark = Item(x).mark
      PROVE  FALSE
  <2>1. y[1] \in pages /\ y[2] \in DOMAIN PageItems(y[1]) /\ PageItems(y[1])[y[2]].mark = Item(x).mark
    BY <1>5 DEF Places, Item
  <2>2. y[1] \in T
    BY <2>1
  <2>3. y[1] \in Nat /\ p \in Nat /\ p <= y[1]
    BY <1>2, <2>1, <2>2
  <2>4. y[1] = p /\ y[2] < k
    BY <1>5, <2>3 DEF Sooner
  <2>5. y[2] \in K
    BY <2>1, <2>4
  <2>6. k <= y[2] /\ k \in Nat /\ y[2] \in Nat
    BY <1>2, <1>3, <2>5
  <2> QED
    BY <2>4, <2>6
<1>6. <<p, k>> \in FirstPlaces(pages)
  BY <1>4, <1>5 DEF FirstPlaces
<1> QED
  BY <1>4, <1>6

\* What is on the pages of a document.
Marks == UNION {ToSet(v) : v \in PageValues \ {NotCandidate, Unreadable}}
Found == [mark : Marks, page : Nat]

ADocument == DOMAIN page \subseteq Nat /\ \A p \in DOMAIN page : page[p] \in PageValues

\* The items of a page are a sequence, and each says which page it is from.
LEMMA PageItemsIs ==
  ASSUME ADocument, NEW p \in DOMAIN page
  PROVE  PageItems(p) \in Seq(Found) /\ \A k \in DOMAIN PageItems(p) : k \in Nat \ {0} /\ Item(<<p, k>>).page = p
<1>1. CASE page[p] \in {NotCandidate, Unreadable}
  <2>1. PageItems(p) = <<>>
    BY <1>1 DEF PageItems
  <2>2. <<>> \in Seq(Found) /\ DOMAIN <<>> = {}
    BY EmptySeq
  <2> QED
    BY <2>1, <2>2
<1>2. CASE page[p] \notin {NotCandidate, Unreadable}
  <2> DEFINE v == page[p]
  <2>1. v \in PageValues \ {NotCandidate, Unreadable} /\ v \in Seq(ToSet(v)) /\ p \in Nat
    BY <1>2, PagesAssumption DEF ADocument
  <2>2. Len(v) \in Nat /\ DOMAIN v = 1 .. Len(v)
    <3> HIDE DEF v
    <3> QED
      BY <2>1, LenProperties
  <2>3. \A k \in 1 .. Len(v) : v[k] \in Marks
    BY <2>1, <2>2 DEF Marks, ToSet
  <2>4. PageItems(p) = [k \in 1 .. Len(v) |-> [mark |-> v[k], page |-> p]]
    BY <1>2 DEF PageItems
  <2>5. \A k \in 1 .. Len(v) : [mark |-> v[k], page |-> p] \in Found
    BY <2>1, <2>3 DEF Found
  <2> HIDE DEF v
  <2>6. PageItems(p) \in [1 .. Len(v) -> Found]
    BY <2>4, <2>5
  <2>7. PageItems(p) \in Seq(Found)
    BY <2>2, <2>6, SeqDef
  <2>8. ASSUME NEW k \in DOMAIN PageItems(p) PROVE k \in Nat \ {0} /\ Item(<<p, k>>).page = p
    <3>1. k \in 1 .. Len(v)
      BY <2>4
    <3> QED
      BY <2>2, <2>4, <3>1 DEF Item
  <2> QED
    BY <2>7, <2>8
<1> QED
  BY <1>1, <1>2

\* A list of the first items of their mark on each part, in the order of the
\* parts, is that of all the pages: deduplicating part by part and then over the
\* parts is deduplicating once.
LEMMA MergeIsGolden ==
  ASSUME NEW S, NEW segs \in Seq(Seq(S)), NEW parts, ADocument,
         \A s \in DOMAIN segs : parts[s] \subseteq DOMAIN page /\ Golden(segs[s], parts[s]),
         \A s, t \in DOMAIN segs : s < t => \A p \in parts[s], q \in parts[t] : p < q,
         NEW U, \A p : p \in U <=> \E s \in DOMAIN segs : p \in parts[s]
  PROVE  Golden(FirstWins(FlattenSeq(segs)), U)
<1> DEFINE V(x) == segs[x[1]][x[2]]
           out == FirstWins(FlattenSeq(segs))
<1>1. DOMAIN segs \subseteq Nat
  BY LenProperties
<1>2. \A s \in DOMAIN segs : parts[s] \subseteq Nat /\ \A p \in parts[s] : DOMAIN PageItems(p) \subseteq Nat
  BY PageItemsIs DEF ADocument
<1>3. \A s \in DOMAIN segs : \A k \in DOMAIN segs[s] : \E z \in FirstPlaces(parts[s]) : segs[s][k] = Item(z)
  <2>1. \A o, P : Golden(o, P) => \A k \in DOMAIN o : \E z \in FirstPlaces(P) : o[k] = Item(z)
    <3> SUFFICES ASSUME NEW o, NEW P, Golden(o, P), NEW k \in DOMAIN o
                 PROVE  \E z \in FirstPlaces(P) : o[k] = Item(z)
      OBVIOUS
    <3>1. o[k] \in {o[n] : n \in DOMAIN o}
      OBVIOUS
    <3>2. {o[n] : n \in DOMAIN o} = {Item(z) : z \in FirstPlaces(P)}
      BY DEF Golden
    <3> QED
      BY <3>1, <3>2
  <2> QED
    BY <2>1
<1>4. \A s \in DOMAIN segs : \A z \in FirstPlaces(parts[s]) : \E k \in DOMAIN segs[s] : segs[s][k] = Item(z)
  <2>1. \A o, P : Golden(o, P) => \A z \in FirstPlaces(P) : \E k \in DOMAIN o : o[k] = Item(z)
    <3> SUFFICES ASSUME NEW o, NEW P, Golden(o, P), NEW z \in FirstPlaces(P)
                 PROVE  \E k \in DOMAIN o : o[k] = Item(z)
      OBVIOUS
    <3>1. Item(z) \in {Item(x) : x \in FirstPlaces(P)}
      OBVIOUS
    <3>2. {o[n] : n \in DOMAIN o} = {Item(x) : x \in FirstPlaces(P)}
      BY DEF Golden
    <3> QED
      BY <3>1, <3>2
  <2> QED
    BY <2>1
<1>5. \A s \in DOMAIN segs : \A j, k \in DOMAIN segs[s] : j < k =>
        \E x, y \in FirstPlaces(parts[s]) : Sooner(x, y) /\ segs[s][j] = Item(x) /\ segs[s][k] = Item(y)
  BY DEF Golden
<1>6. \A s, t \in DOMAIN segs : \A x \in Places(parts[s]), y \in Places(parts[t]) :
        /\ s < t => x[1] < y[1] /\ Sooner(x, y)
        /\ Sooner(x, y) => s <= t
  <2> SUFFICES ASSUME NEW s \in DOMAIN segs, NEW t \in DOMAIN segs,
                      NEW x \in Places(parts[s]), NEW y \in Places(parts[t])
               PROVE  /\ s < t => x[1] < y[1] /\ Sooner(x, y)
                      /\ Sooner(x, y) => s <= t
    OBVIOUS
  <2>1. x[1] \in parts[s] /\ y[1] \in parts[t]
    BY DEF Places
  <2>2. s \in Nat /\ t \in Nat /\ x[1] \in Nat /\ y[1] \in Nat
    BY <1>1, <1>2, <2>1
  <2>3. s < t => x[1] < y[1]
    BY <2>1
  <2>4. t < s => y[1] < x[1]
    BY <2>1
  <2> QED
    BY <2>2, <2>3, <2>4 DEF Sooner
<1>7. \A x \in PlacesOf(segs) : x[1] \in DOMAIN segs /\ x[2] \in DOMAIN segs[x[1]] /\ x[1] \in Nat /\ x[2] \in Nat
  BY <1>1 DEF PlacesOf
<1>8. \A s \in DOMAIN segs : \A k \in DOMAIN segs[s] : <<s, k>> \in PlacesOf(segs)
  <2> SUFFICES ASSUME NEW s \in DOMAIN segs, NEW k \in DOMAIN segs[s] PROVE <<s, k>> \in PlacesOf(segs)
    OBVIOUS
  <2>1. segs[s] \in Seq(S)
    BY LenProperties
  <2>2. DOMAIN segs[s] = 1 .. Len(segs[s]) /\ Len(segs[s]) \in Nat
    BY <2>1, LenProperties
  <2> QED
    BY <2>2 DEF PlacesOf
<1>9. \A s \in DOMAIN segs : \A y \in Places(parts[s]) : y \in Places(U)
  BY DEF Places
<1>10. \A y \in Places(U) : \E s \in DOMAIN segs : y \in Places(parts[s])
  BY DEF Places
<1>11. \A pages : \A z \in FirstPlaces(pages) :
         /\ z \in Places(pages) /\ Item(z).mark # NoMark
         /\ \A y \in Places(pages) : Sooner(y, z) => Item(y).mark # Item(z).mark
  BY DEF FirstPlaces
<1>12. \A pages : \A z \in Places(pages) :
         (Item(z).mark # NoMark /\ \A y \in Places(pages) : Sooner(y, z) => Item(y).mark # Item(z).mark)
           => z \in FirstPlaces(pages)
  BY DEF FirstPlaces
\* What is kept of a part comes from a place that is first of all pages.
<1>13. ASSUME NEW x \in FirstsOf(segs), NEW z \in FirstPlaces(parts[x[1]]), V(x) = Item(z)
       PROVE  z \in FirstPlaces(U)
  <2>1. x \in PlacesOf(segs) /\ \A y \in PlacesOf(segs) : Sooner(y, x) => V(y).mark # V(x).mark
    BY DEF FirstsOf
  <2>2. x[1] \in DOMAIN segs
    BY <1>7, <2>1
  <2>3. z \in Places(parts[x[1]]) /\ z \in Places(U) /\ Item(z).mark # NoMark
    BY <1>9, <1>11, <2>2
  <2>4. ASSUME NEW y \in Places(U), Sooner(y, z), Item(y).mark = Item(z).mark PROVE FALSE
    <3>1. PICK t \in DOMAIN segs : y \in Places(parts[t])
      BY <1>10
    <3>2. t <= x[1]
      BY <1>6, <2>2, <2>3, <2>4, <3>1
    <3>3. CASE t = x[1]
      BY <1>11, <2>4, <3>1, <3>3
    <3>4. CASE t # x[1]
      <4>1. parts[t] \in SUBSET Nat /\ \A p \in parts[t] : DOMAIN PageItems(p) \subseteq Nat
        BY <1>2
      <4>2. PICK w \in FirstPlaces(parts[t]) : Item(w).mark = Item(y).mark
        BY <2>3, <2>4, <3>1, <4>1, HasFirst
      <4>3. PICK j \in DOMAIN segs[t] : segs[t][j] = Item(w)
        BY <1>4
      <4>4. <<t, j>> \in PlacesOf(segs) /\ V(<<t, j>>) = Item(w)
        BY <1>8, <4>3
      <4>5. t < x[1]
        BY <1>1, <2>2, <3>2, <3>4
      <4>6. Sooner(<<t, j>>, x)
        BY <4>5 DEF Sooner
      <4> QED
        BY <1>13, <2>1, <2>4, <4>2, <4>4, <4>6
    <3> QED
      BY <3>3, <3>4
  <2> QED
    BY <1>12, <2>3, <2>4
\* A place that is first of all pages is kept of its part.
<1>14. ASSUME NEW z \in FirstPlaces(U) PROVE \E x \in FirstsOf(segs) : V(x) = Item(z)
  <2>1. z \in Places(U) /\ Item(z).mark # NoMark
        /\ \A y \in Places(U) : Sooner(y, z) => Item(y).mark # Item(z).mark
    <3> QED
      BY <1>11
  <2>2. PICK s \in DOMAIN segs : z \in Places(parts[s])
    BY <1>10, <2>1
  <2>3. z \in FirstPlaces(parts[s])
    BY <1>9, <1>12, <2>1, <2>2
  <2>4. PICK k \in DOMAIN segs[s] : segs[s][k] = Item(z)
    BY <1>4, <2>3
  <2>5. <<s, k>> \in PlacesOf(segs) /\ V(<<s, k>>) = Item(z)
    BY <1>8, <2>4
  <2>6. ASSUME NEW y \in PlacesOf(segs), Sooner(y, <<s, k>>) PROVE V(y).mark # Item(z).mark
    <3>1. y[1] \in DOMAIN segs /\ y[2] \in DOMAIN segs[y[1]] /\ y[1] \in Nat /\ s \in Nat
      BY <1>1, <1>7
    <3>2. y[1] < s \/ (y[1] = s /\ y[2] < k)
      BY <2>6 DEF Sooner
    <3>3. CASE y[1] < s
      <4>1. PICK w \in FirstPlaces(parts[y[1]]) : V(y) = Item(w)
        BY <1>3, <3>1
      <4>2. w \in Places(parts[y[1]])
        BY <1>11
      <4>3. Sooner(w, z) /\ w \in Places(U)
        BY <1>6, <1>9, <2>2, <3>1, <3>3, <4>2
      <4> QED
        BY <2>1, <4>1, <4>3
    <3>4. CASE y[1] = s /\ y[2] < k
      <4>1. \E a, b \in FirstPlaces(parts[s]) : Sooner(a, b) /\ V(y) = Item(a) /\ segs[s][k] = Item(b)
        BY <1>5, <3>1, <3>4
      <4> QED
        BY <1>11, <2>4, <4>1
    <3> QED
      BY <3>2, <3>3, <3>4
  <2>7. <<s, k>> \in FirstsOf(segs)
    BY <2>1, <2>5, <2>6 DEF FirstsOf
  <2> QED
    BY <2>5, <2>7
<1>15. \A x \in FirstsOf(segs) : x \in PlacesOf(segs)
  BY DEF FirstsOf
<1>16. {V(x) : x \in FirstsOf(segs)} = {Item(z) : z \in FirstPlaces(U)}
  <2>1. ASSUME NEW x \in FirstsOf(segs) PROVE \E z \in FirstPlaces(U) : V(x) = Item(z)
    <3>1. PICK z \in FirstPlaces(parts[x[1]]) : V(x) = Item(z)
      BY <1>3, <1>7, <1>15
    <3> QED
      BY <1>13, <3>1
  <2> HIDE DEF V
  <2> QED
    BY <1>14, <2>1
<1>17. ASSUME NEW x \in FirstsOf(segs), NEW y \in FirstsOf(segs), Sooner(x, y)
       PROVE  \E a, b \in FirstPlaces(U) : Sooner(a, b) /\ V(x) = Item(a) /\ V(y) = Item(b)
  <2>1. /\ x[1] \in DOMAIN segs /\ x[2] \in DOMAIN segs[x[1]]
        /\ y[1] \in DOMAIN segs /\ y[2] \in DOMAIN segs[y[1]]
    BY <1>7, <1>15
  <2>2. x[1] < y[1] \/ (x[1] = y[1] /\ x[2] < y[2])
    BY <1>17 DEF Sooner
  <2>3. CASE x[1] < y[1]
    <3>1. PICK a \in FirstPlaces(parts[x[1]]) : V(x) = Item(a)
      BY <1>3, <2>1
    <3>2. PICK b \in FirstPlaces(parts[y[1]]) : V(y) = Item(b)
      BY <1>3, <2>1
    <3>3. Sooner(a, b)
      <4>1. a \in Places(parts[x[1]]) /\ b \in Places(parts[y[1]])
        BY <1>11
      <4> QED
        BY <1>6, <2>1, <2>3, <4>1
    <3>4. a \in FirstPlaces(U) /\ b \in FirstPlaces(U)
      BY <1>13, <3>1, <3>2
    <3> QED
      BY <3>1, <3>2, <3>3, <3>4
  <2>4. CASE x[1] = y[1] /\ x[2] < y[2]
    <3>1. \E a, b \in FirstPlaces(parts[x[1]]) : Sooner(a, b) /\ V(x) = Item(a) /\ V(y) = Item(b)
      <4> DEFINE s == x[1]
                 j == x[2]
                 k == y[2]
      <4>1. s \in DOMAIN segs /\ j \in DOMAIN segs[s] /\ k \in DOMAIN segs[s] /\ j < k
        BY <2>1, <2>4
      <4>2. V(x) = segs[s][j] /\ V(y) = segs[s][k]
        BY <2>4
      <4> HIDE DEF s, j, k
      <4>3. \E a, b \in FirstPlaces(parts[s]) : Sooner(a, b) /\ segs[s][j] = Item(a) /\ segs[s][k] = Item(b)
        BY <1>5, <4>1
      <4> HIDE DEF V
      <4> QED
        BY <4>2, <4>3 DEF s
    <3>2. PICK a \in FirstPlaces(parts[x[1]]) :
            \E b \in FirstPlaces(parts[x[1]]) : Sooner(a, b) /\ V(x) = Item(a) /\ V(y) = Item(b)
      BY <3>1
    <3>3. PICK b \in FirstPlaces(parts[x[1]]) : Sooner(a, b) /\ V(x) = Item(a) /\ V(y) = Item(b)
      BY <3>2
    <3>4. a \in FirstPlaces(U) /\ b \in FirstPlaces(U)
      BY <1>13, <2>4, <3>3
    <3> QED
      BY <3>3, <3>4
  <2> QED
    BY <2>2, <2>3, <2>4
<1>18. /\ {out[n] : n \in DOMAIN out} = {V(x) : x \in FirstsOf(segs)}
       /\ \A m, n \in DOMAIN out : m < n =>
            \E x, y \in FirstsOf(segs) : Sooner(x, y) /\ out[m] = V(x) /\ out[n] = V(y)
  <2>1. KeepsFirsts(out, segs)
    BY FirstsIs
  <2> HIDE DEF out
  <2> QED
    BY <2>1 DEF KeepsFirsts
<1> HIDE DEF V, out
<1>19. \A m, n \in DOMAIN out : m < n =>
         \E a, b \in FirstPlaces(U) : Sooner(a, b) /\ out[m] = Item(a) /\ out[n] = Item(b)
  <2> SUFFICES ASSUME NEW m \in DOMAIN out, NEW n \in DOMAIN out, m < n
               PROVE  \E a, b \in FirstPlaces(U) : Sooner(a, b) /\ out[m] = Item(a) /\ out[n] = Item(b)
    OBVIOUS
  <2>1. \E x, y \in FirstsOf(segs) : Sooner(x, y) /\ out[m] = V(x) /\ out[n] = V(y)
    BY <1>18
  <2> QED
    BY <1>17, <2>1
<1>20. Golden(out, U)
  BY <1>16, <1>18, <1>19 DEF Golden
<1> QED
  BY <1>20 DEF out

\* The extraction of some pages of the document is golden.
LEMMA ExtractIsGolden ==
  ASSUME ADocument, NEW lo \in Nat, NEW hi \in Nat, lo <= hi, lo .. hi - 1 \subseteq DOMAIN page
  PROVE  Extract(lo, hi) \in Seq(Found) /\ Golden(Extract(lo, hi), Pages(lo, hi))
<1> DEFINE segs == [k \in 1 .. hi - lo |-> PageItems(lo + k - 1)]
           P == Pages(lo, hi)
           V(x) == segs[x[1]][x[2]]
           To(x) == <<lo + x[1] - 1, x[2]>>
           out == Extract(lo, hi)
<1>1. P = lo .. hi - 1
  BY DEF Pages, ADocument
<1>2. \A k \in 1 .. hi - lo : lo + k - 1 \in P /\ lo + k - 1 \in DOMAIN page
  BY <1>1
<1>3. \A p \in P : PageItems(p) \in Seq(Found) /\ DOMAIN PageItems(p) \subseteq Nat \ {0}
  BY <1>1, PageItemsIs
<1>4. segs \in Seq(Seq(Found)) /\ DOMAIN segs = 1 .. hi - lo
  <2>1. segs \in [1 .. hi - lo -> Seq(Found)]
    BY <1>2, <1>3
  <2>2. hi - lo \in Nat
    OBVIOUS
  <2> HIDE DEF segs
  <2> QED
    BY <2>1, <2>2, SeqDef
<1>5. out \in Seq(Found) /\ KeepsFirsts(out, segs)
  <2>1. out = FirstWins(FlattenSeq(segs))
    BY DEF Extract
  <2> HIDE DEF out, segs
  <2> QED
    BY <1>4, <2>1, FirstsIs
<1> HIDE DEF P
<1>6. ASSUME NEW x \in PlacesOf(segs)
      PROVE  To(x) \in Places(P) /\ V(x) = Item(To(x)) /\ x[1] \in 1 .. hi - lo
  <2>1. x[1] \in 1 .. hi - lo /\ x[2] \in DOMAIN segs[x[1]]
    BY <1>4 DEF PlacesOf
  <2>2. lo + x[1] - 1 \in P /\ segs[x[1]] = PageItems(lo + x[1] - 1)
    BY <1>2, <2>1
  <2> HIDE DEF segs
  <2> QED
    BY <2>1, <2>2 DEF Places, Item
<1>7. ASSUME NEW y \in Places(P) PROVE \E x \in PlacesOf(segs) : To(x) = y
  <2>1. y = <<y[1], y[2]>> /\ y[1] \in P /\ y[2] \in DOMAIN PageItems(y[1])
    BY DEF Places
  <2>2. y[1] \in lo .. hi - 1 /\ y[2] \in Nat \ {0}
    BY <1>1, <1>3, <2>1
  <2> DEFINE k == y[1] - lo + 1
  <2>3. k \in 1 .. hi - lo /\ lo + k - 1 = y[1]
    BY <2>2
  <2>4. segs[k] = PageItems(y[1])
    BY <2>3
  <2> HIDE DEF k
  <2>5. <<k, y[2]>> \in PlacesOf(segs)
    <3> HIDE DEF segs
    <3> QED
      BY <1>4, <2>1, <2>2, <2>3, <2>4 DEF PlacesOf
  <2> QED
    BY <2>1, <2>3, <2>5
<1>8. \A x, y \in PlacesOf(segs) : Sooner(x, y) <=> Sooner(To(x), To(y))
  <2> SUFFICES ASSUME NEW x \in PlacesOf(segs), NEW y \in PlacesOf(segs)
               PROVE  Sooner(x, y) <=> Sooner(To(x), To(y))
    OBVIOUS
  <2>1. x[1] \in 1 .. hi - lo /\ y[1] \in 1 .. hi - lo
    BY <1>6
  <2> QED
    BY <2>1 DEF Sooner
<1>9. ASSUME NEW x \in PlacesOf(segs) PROVE x \in FirstsOf(segs) <=> To(x) \in FirstPlaces(P)
  <2>1. ASSUME x \in FirstsOf(segs) PROVE To(x) \in FirstPlaces(P)
    <3>1. V(x).mark # NoMark /\ \A y \in PlacesOf(segs) : Sooner(y, x) => V(y).mark # V(x).mark
      BY <2>1 DEF FirstsOf
    <3>2. ASSUME NEW z \in Places(P), Sooner(z, To(x)) PROVE Item(z).mark # Item(To(x)).mark
      <4>1. PICK y \in PlacesOf(segs) : To(y) = z
        BY <1>7
      <4> HIDE DEF V, To
      <4> QED
        BY <1>6, <1>8, <3>1, <3>2, <4>1
    <3> HIDE DEF V, To
    <3> QED
      BY <1>6, <3>1, <3>2 DEF FirstPlaces
  <2>2. ASSUME To(x) \in FirstPlaces(P) PROVE x \in FirstsOf(segs)
    <3>1. /\ Item(To(x)).mark # NoMark
          /\ \A z \in Places(P) : Sooner(z, To(x)) => Item(z).mark # Item(To(x)).mark
      BY <2>2 DEF FirstPlaces
    <3>2. ASSUME NEW y \in PlacesOf(segs), Sooner(y, x) PROVE V(y).mark # V(x).mark
      <4> HIDE DEF V, To
      <4> QED
        BY <1>6, <1>8, <3>1, <3>2
    <3>3. V(x).mark # NoMark
      <4> HIDE DEF V, To
      <4> QED
        BY <1>6, <3>1
    <3> QED
      BY <3>2, <3>3 DEF FirstsOf
  <2> QED
    BY <2>1, <2>2
<1>10. \A x \in FirstsOf(segs) : x \in PlacesOf(segs)
  BY DEF FirstsOf
<1>11. \A z \in FirstPlaces(P) : z \in Places(P)
  BY DEF FirstPlaces
<1>12. /\ {out[n] : n \in DOMAIN out} = {V(x) : x \in FirstsOf(segs)}
       /\ \A m, n \in DOMAIN out : m < n =>
            \E x, y \in FirstsOf(segs) : Sooner(x, y) /\ out[m] = V(x) /\ out[n] = V(y)
  <2> HIDE DEF out
  <2> QED
    BY <1>5 DEF KeepsFirsts
<1> HIDE DEF out, segs, V, To
<1>13. {V(x) : x \in FirstsOf(segs)} = {Item(z) : z \in FirstPlaces(P)}
  <2>1. ASSUME NEW x \in FirstsOf(segs) PROVE \E z \in FirstPlaces(P) : V(x) = Item(z)
    BY <1>6, <1>9, <1>10
  <2>2. ASSUME NEW z \in FirstPlaces(P) PROVE \E x \in FirstsOf(segs) : V(x) = Item(z)
    <3>1. PICK x \in PlacesOf(segs) : To(x) = z
      BY <1>7, <1>11
    <3> QED
      BY <1>6, <1>9, <3>1
  <2> QED
    BY <2>1, <2>2
<1>14. ASSUME NEW m \in DOMAIN out, NEW n \in DOMAIN out, m < n
       PROVE  \E a, b \in FirstPlaces(P) : Sooner(a, b) /\ out[m] = Item(a) /\ out[n] = Item(b)
  <2>1. \E x, y \in FirstsOf(segs) : Sooner(x, y) /\ out[m] = V(x) /\ out[n] = V(y)
    BY <1>12, <1>14
  <2>2. PICK x \in FirstsOf(segs) : \E y \in FirstsOf(segs) : Sooner(x, y) /\ out[m] = V(x) /\ out[n] = V(y)
    BY <2>1
  <2>3. PICK y \in FirstsOf(segs) : Sooner(x, y) /\ out[m] = V(x) /\ out[n] = V(y)
    BY <2>2
  <2>4. /\ To(x) \in FirstPlaces(P) /\ To(y) \in FirstPlaces(P)
        /\ V(x) = Item(To(x)) /\ V(y) = Item(To(y)) /\ Sooner(To(x), To(y))
    BY <1>6, <1>8, <1>9, <1>10, <2>3
  <2> QED
    BY <2>3, <2>4
<1>15. Golden(out, P)
  BY <1>12, <1>13, <1>14 DEF Golden
<1> QED
  BY <1>5, <1>15 DEF out, P

-----------------------------------------------------------------------------
(***************************************************************************)
(* The planner                                                             *)
(***************************************************************************)

\* The document, the range and the budget of a job.
Inputs ==
  /\ \E n \in Nat \ {0} : page \in [0 .. n - 1 -> PageValues]
  /\ range \in Ranges
  /\ cap \in Nat \ {0}

\* What the inputs say of the document and of the range.
LEMMA InputsAre ==
  ASSUME Inputs
  PROVE  /\ ADocument /\ cap \in Nat \ {0}
         /\ Total \in Nat \ {0} /\ DOMAIN page = 0 .. Total - 1
         /\ Lo \in Nat /\ Hi \in Nat /\ Hi <= Total
         /\ RangeInDocument => Lo < Hi
<1>1. PICK n \in Nat \ {0} : page \in [0 .. n - 1 -> PageValues]
  BY DEF Inputs
<1>2. Cardinality(0 .. n - 1) = n
  <2>1. 0 \in Int /\ n - 1 \in Int /\ ~(0 > n - 1) /\ (n - 1) - 0 + 1 = n
    OBVIOUS
  <2> QED
    BY <2>1, FS_Interval
<1>3. Total = n /\ DOMAIN page = 0 .. n - 1
  BY <1>1, <1>2 DEF Total
<1>4. range # NoRange => range[1] \in Nat /\ range[2] \in Nat /\ range[1] < range[2]
  BY BoundsAssumption DEF Inputs, Ranges
<1>5. ADocument
  BY <1>1 DEF ADocument
<1> QED
  BY <1>3, <1>4, <1>5 DEF Inputs, Lo, Hi, RangeInDocument

\* The candidates of a window, page by page.
LEMMA CandidatesGrow ==
  ASSUME Inputs, NEW a \in Nat, NEW b \in Nat
  PROVE  /\ CandidatesIn(<<a, a>>) = {}
         /\ Cardinality(CandidatesIn(<<a, a>>)) = 0
         /\ IsFiniteSet(CandidatesIn(<<a, b>>)) /\ Cardinality(CandidatesIn(<<a, b>>)) \in Nat
         /\ a <= b => Cardinality(CandidatesIn(<<a, b + 1>>)) =
                        Cardinality(CandidatesIn(<<a, b>>)) + IF b \in Candidates THEN 1 ELSE 0
<1>1. DOMAIN page \subseteq Nat
  BY InputsAre DEF ADocument
<1>2. \A x, y : CandidatesIn(<<x, y>>) = {p \in DOMAIN page : x <= p /\ p < y /\ p \in Candidates}
  BY DEF CandidatesIn, Pages
<1>3. CandidatesIn(<<a, a>>) = {}
  BY <1>1, <1>2
<1>4. IsFiniteSet(CandidatesIn(<<a, b>>))
  <2>1. CandidatesIn(<<a, b>>) \subseteq a .. b
    BY <1>1, <1>2
  <2>2. IsFiniteSet(a .. b)
    BY FS_Interval
  <2> QED
    BY <2>1, <2>2, FS_Subset
<1>5. ASSUME a <= b
      PROVE  Cardinality(CandidatesIn(<<a, b + 1>>)) =
               Cardinality(CandidatesIn(<<a, b>>)) + IF b \in Candidates THEN 1 ELSE 0
  <2>1. \A p \in DOMAIN page : p < b + 1 <=> p < b \/ p = b
    BY <1>1
  <2>2. CASE b \in Candidates
    <3>1. b \in DOMAIN page /\ b \notin CandidatesIn(<<a, b>>)
      BY <1>1, <1>2, <2>2 DEF Candidates
    <3>2. CandidatesIn(<<a, b + 1>>) = CandidatesIn(<<a, b>>) \cup {b}
      BY <1>2, <1>5, <2>1, <2>2, <3>1
    <3> QED
      BY <1>4, <2>2, <3>1, <3>2, FS_AddElement
  <2>3. CASE b \notin Candidates
    <3>1. CandidatesIn(<<a, b + 1>>) = CandidatesIn(<<a, b>>)
      BY <1>2, <1>5, <2>1, <2>3
    <3>2. Cardinality(CandidatesIn(<<a, b>>)) \in Nat
      BY <1>4, FS_CardinalityType
    <3> QED
      BY <2>3, <3>1, <3>2
  <2> QED
    BY <2>2, <2>3
<1> QED
  BY <1>3, <1>4, <1>5, FS_EmptySet, FS_CardinalityType

\* The cuts up to a page: from Lo on and increasing, with cap candidates
\* between neighbours and fewer since the last.
AreCuts(e, p) ==
  /\ e \in Seq(Nat) /\ Len(e) >= 1
  /\ e[1] = Lo /\ e[Len(e)] <= p
  /\ \A k \in 1 .. Len(e) - 1 :
       e[k] < e[k + 1] /\ Cardinality(CandidatesIn(<<e[k], e[k + 1]>>)) = cap
  /\ Cardinality(CandidatesIn(<<e[Len(e)], p>>)) < cap

\* One more page leaves the cuts, or adds one behind it.
LEMMA CutsGrow ==
  ASSUME Inputs, NEW p \in Nat, NEW e, AreCuts(e, p)
  PROVE  LET c == Cardinality(CandidatesIn(<<e[Len(e)], p>>))
         IN  /\ p \notin Candidates =>
                  AreCuts(e, p + 1) /\ Cardinality(CandidatesIn(<<e[Len(e)], p + 1>>)) = c
             /\ p \in Candidates /\ c + 1 # cap =>
                  AreCuts(e, p + 1) /\ Cardinality(CandidatesIn(<<e[Len(e)], p + 1>>)) = c + 1
             /\ p \in Candidates /\ c + 1 = cap =>
                  LET q == Append(e, p + 1)
                  IN  AreCuts(q, p + 1) /\ Cardinality(CandidatesIn(<<q[Len(q)], p + 1>>)) = 0
<1> DEFINE l == e[Len(e)]
           c == Cardinality(CandidatesIn(<<l, p>>))
<1>1. /\ e \in Seq(Nat) /\ Len(e) >= 1 /\ e[1] = Lo /\ l <= p
      /\ \A k \in 1 .. Len(e) - 1 :
           e[k] < e[k + 1] /\ Cardinality(CandidatesIn(<<e[k], e[k + 1]>>)) = cap
      /\ c < cap
  BY DEF AreCuts
<1>2. Len(e) \in Nat /\ DOMAIN e = 1 .. Len(e) /\ Len(e) \in 1 .. Len(e)
  <2>1. Len(e) \in Nat /\ DOMAIN e = 1 .. Len(e)
    BY <1>1, LenProperties
  <2> QED
    BY <1>1, <2>1
<1>3. l \in Nat
  BY <1>1, <1>2, ElementOfSeq
<1> HIDE DEF l
<1>4. c \in Nat /\ Cardinality(CandidatesIn(<<l, p + 1>>)) = c + IF p \in Candidates THEN 1 ELSE 0
  BY <1>1, <1>3, CandidatesGrow
<1>5. cap \in Nat \ {0}
  BY DEF Inputs
<1> HIDE DEF c
<1>6. l <= p + 1
  BY <1>1, <1>3
<1>7. CASE p \notin Candidates
  <2>1. Cardinality(CandidatesIn(<<l, p + 1>>)) = c
    BY <1>4, <1>7
  <2>2. AreCuts(e, p + 1)
    BY <1>1, <1>6, <2>1 DEF AreCuts, l
  <2> QED
    BY <1>7, <2>1, <2>2 DEF l, c
<1>8. CASE p \in Candidates /\ c + 1 # cap
  <2>1. Cardinality(CandidatesIn(<<l, p + 1>>)) = c + 1 /\ c + 1 < cap
    BY <1>1, <1>4, <1>5, <1>8
  <2>2. AreCuts(e, p + 1)
    BY <1>1, <1>6, <2>1 DEF AreCuts, l
  <2> QED
    BY <1>8, <2>1, <2>2 DEF l, c
<1>9. CASE p \in Candidates /\ c + 1 = cap
  <2> DEFINE q == Append(e, p + 1)
  <2>1. /\ q \in Seq(Nat) /\ Len(q) = Len(e) + 1 /\ q[Len(e) + 1] = p + 1
        /\ \A k \in 1 .. Len(e) : q[k] = e[k]
    BY <1>1, AppendProperties
  <2> HIDE DEF q
  <2>2. q[1] = Lo /\ q[Len(q)] = p + 1 /\ Len(q) >= 1
    BY <1>1, <1>2, <2>1
  <2>3. ASSUME NEW k \in 1 .. Len(q) - 1
        PROVE  q[k] < q[k + 1] /\ Cardinality(CandidatesIn(<<q[k], q[k + 1]>>)) = cap
    <3>1. CASE k = Len(e)
      <4>1. q[k] = l /\ q[k + 1] = p + 1
        BY <1>2, <2>1, <3>1 DEF l
      <4> QED
        BY <1>1, <1>3, <1>4, <1>9, <4>1
    <3>2. CASE k # Len(e)
      <4>1. k \in 1 .. Len(e) - 1 /\ k \in 1 .. Len(e) /\ k + 1 \in 1 .. Len(e)
        <5> DEFINE n == Len(e)
        <5>1. n \in Nat /\ k \in 1 .. (n + 1) - 1 /\ k # n
          BY <1>2, <2>1, <2>3, <3>2
        <5> HIDE DEF n
        <5>2. k \in 1 .. n - 1 /\ k \in 1 .. n /\ k + 1 \in 1 .. n
          BY <5>1
        <5> QED
          BY <5>2 DEF n
      <4>2. q[k] = e[k] /\ q[k + 1] = e[k + 1]
        BY <2>1, <4>1
      <4> QED
        BY <1>1, <4>1, <4>2
    <3> QED
      BY <3>1, <3>2
  <2>4. Cardinality(CandidatesIn(<<q[Len(q)], p + 1>>)) = 0
    <3>1. p + 1 \in Nat
      OBVIOUS
    <3>2. Cardinality(CandidatesIn(<<p + 1, p + 1>>)) = 0
      BY <3>1, CandidatesGrow
    <3> QED
      BY <2>2, <3>2
  <2>5. AreCuts(q, p + 1)
    BY <1>5, <2>1, <2>2, <2>3, <2>4 DEF AreCuts
  <2> QED
    BY <1>9, <2>4, <2>5 DEF q, c, l
<1> QED
  BY <1>7, <1>8, <1>9 DEF c, l

\* The loop of the planner ends with the cuts of the whole range.
LEMMA BoundariesAre ==
  ASSUME Inputs, Lo < Hi
  PROVE  AreCuts(Boundaries, Hi)
<1>1. Lo \in Nat /\ Hi \in Nat /\ Lo <= Hi /\ cap \in Nat \ {0}
  BY InputsAre
<1> DEFINE CountBody(g, p) == IF p = Lo THEN 0
                              ELSE IF p - 1 \notin Candidates THEN g[p - 1]
                              ELSE IF g[p - 1] + 1 = cap THEN 0 ELSE g[p - 1] + 1
           IsCount(g) == g = [p \in Lo .. Hi |-> CountBody(g, p)]
           count == CHOOSE g : IsCount(g)
<1>2. \E f \in [Lo .. Hi -> Nat] : \A p \in Lo .. Hi : f[p] = CountBody(f, p)
  <2> DEFINE Step == [x \in (Lo .. Hi) \X Nat |->
                        IF x[1] - 1 \notin Candidates THEN x[2]
                        ELSE IF x[2] + 1 = cap THEN 0 ELSE x[2] + 1]
  <2>1. Step \in [(Lo .. Hi) \X Nat -> Nat]
    OBVIOUS
  <2>2. \E f \in [Lo .. Hi -> Nat] : IsLoop(f, Lo, Hi, 0, Step)
    <3> HIDE DEF Step
    <3> QED
      BY <1>1, <2>1, LoopExists
  <2>3. \A p \in Lo .. Hi : \A c \in Nat :
          Step[<<p, c>>] = IF p - 1 \notin Candidates THEN c ELSE IF c + 1 = cap THEN 0 ELSE c + 1
    BY DEF Step
  <2>4. \A f \in [Lo .. Hi -> Nat] : \A p \in Lo .. Hi : p # Lo => f[p - 1] \in Nat
    <3>1. \A p \in Lo .. Hi : p # Lo => p - 1 \in Lo .. Hi
      BY <1>1
    <3> QED
      BY <3>1
  <2> HIDE DEF Step
  <2>5. PICK f \in [Lo .. Hi -> Nat] : IsLoop(f, Lo, Hi, 0, Step)
    BY <2>2
  <2>6. ASSUME NEW p \in Lo .. Hi PROVE f[p] = CountBody(f, p)
    <3>1. f[p] = IF p = Lo THEN 0 ELSE Step[<<p, f[p - 1]>>]
      BY <2>5 DEF IsLoop
    <3>2. p # Lo => f[p - 1] \in Nat
      BY <2>4, <2>5
    <3> QED
      BY <2>3, <3>1, <3>2, Zenon
  <2> HIDE DEF CountBody
  <2> QED
    BY <2>5, <2>6, Zenon
<1>3. IsCount(count)
  <2>1. PICK f \in [Lo .. Hi -> Nat] : \A p \in Lo .. Hi : f[p] = CountBody(f, p)
    BY <1>2
  <2>2. f = [p \in Lo .. Hi |-> f[p]]
    OBVIOUS
  <2>3. [p \in Lo .. Hi |-> f[p]] = [p \in Lo .. Hi |-> CountBody(f, p)]
    <3> HIDE DEF CountBody
    <3> QED
      BY <2>1, Zenon
  <2>4. IsCount(f)
    BY <2>2, <2>3
  <2> HIDE DEF IsCount
  <2> QED
    BY <2>4, Zenon
<1> DEFINE EdgesBody(g, p) == IF p = Lo THEN <<Lo>>
                              ELSE IF p - 1 \in Candidates /\ count[p] = 0 THEN Append(g[p - 1], p)
                              ELSE g[p - 1]
           IsEdges(g) == g = [p \in Lo .. Hi |-> EdgesBody(g, p)]
           edges == CHOOSE g : IsEdges(g)
<1>4. Boundaries = edges[Hi]
  BY Zenon DEF Boundaries
<1> HIDE DEF count
<1>5. \A p \in Lo .. Hi : count[p] = CountBody(count, p)
  <2> HIDE DEF CountBody
  <2> QED
    BY <1>3, Zenon
<1>6. \E f \in [Lo .. Hi -> Seq(Nat)] : \A p \in Lo .. Hi : f[p] = EdgesBody(f, p)
  <2> DEFINE Step == [x \in (Lo .. Hi) \X Seq(Nat) |->
                        IF x[1] - 1 \in Candidates /\ count[x[1]] = 0 THEN Append(x[2], x[1]) ELSE x[2]]
  <2>1. Step \in [(Lo .. Hi) \X Seq(Nat) -> Seq(Nat)]
    <3>1. \A x \in (Lo .. Hi) \X Seq(Nat) : x[1] \in Nat /\ x[2] \in Seq(Nat)
      BY <1>1
    <3>2. \A x \in (Lo .. Hi) \X Seq(Nat) : Append(x[2], x[1]) \in Seq(Nat)
      BY <3>1, AppendProperties
    <3> QED
      BY <3>1, <3>2
  <2>2. <<Lo>> \in Seq(Nat)
    BY <1>1
  <2>3. \E f \in [Lo .. Hi -> Seq(Nat)] : IsLoop(f, Lo, Hi, <<Lo>>, Step)
    <3> HIDE DEF Step
    <3> QED
      BY <1>1, <2>1, <2>2, LoopExists
  <2>4. \A p \in Lo .. Hi : \A e \in Seq(Nat) :
          Step[<<p, e>>] = IF p - 1 \in Candidates /\ count[p] = 0 THEN Append(e, p) ELSE e
    BY DEF Step
  <2>5. \A f \in [Lo .. Hi -> Seq(Nat)] : \A p \in Lo .. Hi : p # Lo => f[p - 1] \in Seq(Nat)
    <3>1. \A p \in Lo .. Hi : p # Lo => p - 1 \in Lo .. Hi
      BY <1>1
    <3> QED
      BY <3>1
  <2> HIDE DEF Step
  <2>6. PICK f \in [Lo .. Hi -> Seq(Nat)] : IsLoop(f, Lo, Hi, <<Lo>>, Step)
    BY <2>3
  <2>7. ASSUME NEW p \in Lo .. Hi PROVE f[p] = EdgesBody(f, p)
    <3>1. f[p] = IF p = Lo THEN <<Lo>> ELSE Step[<<p, f[p - 1]>>]
      BY <2>6 DEF IsLoop
    <3>2. p # Lo => f[p - 1] \in Seq(Nat)
      BY <2>5, <2>6
    <3> QED
      BY <2>4, <3>1, <3>2, Zenon
  <2> HIDE DEF EdgesBody
  <2> QED
    BY <2>6, <2>7, Zenon
<1>7. IsEdges(edges)
  <2>1. PICK f \in [Lo .. Hi -> Seq(Nat)] : \A p \in Lo .. Hi : f[p] = EdgesBody(f, p)
    BY <1>6
  <2>2. f = [p \in Lo .. Hi |-> f[p]]
    OBVIOUS
  <2>3. [p \in Lo .. Hi |-> f[p]] = [p \in Lo .. Hi |-> EdgesBody(f, p)]
    <3> HIDE DEF EdgesBody
    <3> QED
      BY <2>1, Zenon
  <2>4. IsEdges(f)
    BY <2>2, <2>3
  <2> HIDE DEF IsEdges
  <2> QED
    BY <2>4, Zenon
<1> HIDE DEF edges
<1>8. \A p \in Lo .. Hi : edges[p] = EdgesBody(edges, p)
  <2> HIDE DEF EdgesBody
  <2> QED
    BY <1>7, Zenon
<1> DEFINE Since(p) == Cardinality(CandidatesIn(<<edges[p][Len(edges[p])], p>>))
           G == {p \in Lo .. Hi : AreCuts(edges[p], p) /\ count[p] = Since(p)}
<1>9. Lo \in G
  <2>1. Lo \in Lo .. Hi
    BY <1>1
  <2>2. edges[Lo] = <<Lo>> /\ count[Lo] = 0
    BY <1>5, <1>8, <2>1
  <2>3. Len(<<Lo>>) = 1 /\ <<Lo>>[1] = Lo /\ <<Lo>> \in Seq(Nat)
    BY <1>1
  <2>4. Cardinality(CandidatesIn(<<Lo, Lo>>)) = 0
    BY <1>1, CandidatesGrow
  <2>5. AreCuts(<<Lo>>, Lo)
    BY <1>1, <2>3, <2>4 DEF AreCuts
  <2>6. Since(Lo) = 0
    BY <2>2, <2>3, <2>4
  <2> HIDE DEF Since
  <2> QED
    BY <2>1, <2>2, <2>5, <2>6
<1>10. ASSUME NEW p \in Lo .. Hi, p < Hi, p \in G PROVE p + 1 \in G
  <2> DEFINE e == edges[p]
             c == Cardinality(CandidatesIn(<<e[Len(e)], p>>))
             q == Append(e, p + 1)
  <2>1. p \in Nat /\ p + 1 \in Lo .. Hi /\ p + 1 # Lo /\ (p + 1) - 1 = p
    BY <1>1, <1>10
  <2>2. AreCuts(e, p) /\ count[p] = c
    BY <1>10
  <2>3. count[p + 1] = IF p \notin Candidates THEN c ELSE IF c + 1 = cap THEN 0 ELSE c + 1
    <3>1. count[p + 1] = CountBody(count, p + 1)
      BY <1>5, <2>1
    <3> HIDE DEF c
    <3> QED
      BY <2>1, <2>2, <3>1
  <2>4. edges[p + 1] = IF p \in Candidates /\ count[p + 1] = 0 THEN q ELSE e
    <3>1. edges[p + 1] = EdgesBody(edges, p + 1)
      BY <1>8, <2>1
    <3> HIDE DEF q
    <3> QED
      BY <2>1, <3>1 DEF q
  <2>5. c \in Nat
    <3>1. e \in Seq(Nat) /\ Len(e) >= 1
      BY <2>2 DEF AreCuts
    <3>2. Len(e) \in 1 .. Len(e)
      <4>1. Len(e) \in Nat
        BY <3>1, LenProperties
      <4> QED
        BY <3>1, <4>1
    <3>3. e[Len(e)] \in Nat
      BY <3>1, <3>2, ElementOfSeq
    <3> HIDE DEF e
    <3> QED
      BY <2>1, <3>3, CandidatesGrow
  <2>6. /\ p \notin Candidates =>
             AreCuts(e, p + 1) /\ Cardinality(CandidatesIn(<<e[Len(e)], p + 1>>)) = c
        /\ p \in Candidates /\ c + 1 # cap =>
             AreCuts(e, p + 1) /\ Cardinality(CandidatesIn(<<e[Len(e)], p + 1>>)) = c + 1
        /\ p \in Candidates /\ c + 1 = cap =>
             AreCuts(q, p + 1) /\ Cardinality(CandidatesIn(<<q[Len(q)], p + 1>>)) = 0
    <3> HIDE DEF e
    <3> QED
      BY <2>1, <2>2, CutsGrow
  <2> HIDE DEF e, q, c
  <2>7. CASE p \notin Candidates
    <3>1. edges[p + 1] = e /\ count[p + 1] = c
      BY <2>3, <2>4, <2>7
    <3> QED
      BY <2>1, <2>6, <2>7, <3>1
  <2>8. CASE p \in Candidates /\ c + 1 # cap
    <3>1. edges[p + 1] = e /\ count[p + 1] = c + 1
      BY <2>3, <2>4, <2>5, <2>8
    <3> QED
      BY <2>1, <2>6, <2>8, <3>1
  <2>9. CASE p \in Candidates /\ c + 1 = cap
    <3>1. edges[p + 1] = q /\ count[p + 1] = 0
      BY <2>3, <2>4, <2>9
    <3> QED
      BY <2>1, <2>6, <2>9, <3>1
  <2> QED
    BY <2>7, <2>8, <2>9
<1> HIDE DEF G
<1>11. Hi \in G
  <2>1. \A p \in Lo .. Hi : p < Hi /\ p \in G => p + 1 \in G
    BY <1>10
  <2>2. \A p \in Lo .. Hi : p \in G
    BY <1>1, <1>9, <2>1, EveryRound
  <2> QED
    BY <1>1, <2>2
<1> QED
  BY <1>4, <1>11 DEF G

\* Edges from Lo to Hi, increasing, with a full share of candidates between
\* neighbours, the last two excepted.
AreEdges(e) ==
  /\ e \in Seq(Nat) /\ Len(e) >= 2
  /\ e[1] = Lo /\ e[Len(e)] = Hi
  /\ \A k \in 1 .. Len(e) - 1 :
       /\ e[k] < e[k + 1]
       /\ Cardinality(CandidatesIn(<<e[k], e[k + 1]>>)) <= cap
       /\ k < Len(e) - 1 => Cardinality(CandidatesIn(<<e[k], e[k + 1]>>)) = cap

\* ws are the windows between such edges, one only if the range fits the budget.
Planned(ws) ==
  IF Lo >= Hi THEN ws = <<>>
  ELSE \E e : /\ AreEdges(e)
              /\ ws = WindowsBetween(e)
              /\ Len(e) = 2 <=> Cardinality(CandidatesIn(<<Lo, Hi>>)) <= cap

\* plan_shard_windows gives the windows between such edges.
LEMMA PlanIs ==
  ASSUME Inputs
  PROVE  Planned(PlanShardWindows)
<1> DEFINE Full == Cardinality(CandidatesIn(<<Lo, Hi>>))
<1>1. Lo \in Nat /\ Hi \in Nat /\ cap \in Nat \ {0} /\ Full \in Nat
  BY InputsAre, CandidatesGrow
<1> HIDE DEF Full
<1>2. CASE Lo >= Hi
  BY <1>2 DEF PlanShardWindows, Planned
<1>3. CASE Lo < Hi /\ Full <= cap
  <2> DEFINE e == <<Lo, Hi>>
  <2>1. e \in Seq(Nat) /\ Len(e) = 2 /\ e[1] = Lo /\ e[2] = Hi
    BY <1>1
  <2>2. WindowsBetween(e) = <<Window(Lo, Hi)>>
    <3>1. 1 .. 2 - 1 = 1 .. 1
      OBVIOUS
    <3>2. [k \in 1 .. 1 |-> Window(e[k], e[k + 1])] = <<Window(Lo, Hi)>>
      OBVIOUS
    <3> QED
      BY <2>1, <3>1, <3>2 DEF WindowsBetween
  <2>3. PlanShardWindows = WindowsBetween(e)
    BY <1>1, <1>3, <2>2 DEF PlanShardWindows, Full
  <2> HIDE DEF e
  <2>4. AreEdges(e)
    BY <1>1, <1>3, <2>1 DEF AreEdges, Full
  <2> QED
    BY <1>1, <1>3, <2>1, <2>3, <2>4 DEF Planned, Full
<1>4. CASE Lo < Hi /\ ~(Full <= cap)
  <2> DEFINE b == Boundaries
             e == IF b[Len(b)] < Hi THEN Append(b, Hi) ELSE b
  <2>1. /\ b \in Seq(Nat) /\ Len(b) >= 1 /\ b[1] = Lo /\ b[Len(b)] <= Hi
        /\ \A k \in 1 .. Len(b) - 1 :
             b[k] < b[k + 1] /\ Cardinality(CandidatesIn(<<b[k], b[k + 1]>>)) = cap
        /\ Cardinality(CandidatesIn(<<b[Len(b)], Hi>>)) < cap
    BY <1>4, BoundariesAre DEF AreCuts
  <2>2. PlanShardWindows = WindowsBetween(e)
    BY <1>1, <1>4 DEF PlanShardWindows, Full, Last
  <2> HIDE DEF b
  <2>3. Len(b) \in Nat
    BY <2>1, LenProperties
  <2>4. AreEdges(e) /\ Len(e) # 2
    <3>1. CASE b[Len(b)] < Hi
      <4> DEFINE q == Append(b, Hi)
      <4>1. /\ q \in Seq(Nat) /\ Len(q) = Len(b) + 1 /\ q[Len(b) + 1] = Hi
            /\ \A k \in 1 .. Len(b) : q[k] = b[k]
        BY <1>1, <2>1, AppendProperties
      <4> HIDE DEF q
      <4> DEFINE n == Len(b)
      <4>2. n \in Nat /\ n >= 1 /\ Len(q) = n + 1
        BY <2>1, <2>3, <4>1
      <4>3. Len(b) # 1
        BY <1>4, <2>1, <1>1 DEF Full
      <4> HIDE DEF n
      <4>4. q[1] = Lo /\ q[Len(q)] = Hi /\ Len(q) >= 2 /\ Len(q) # 2
        <5>1. n # 1 /\ 1 \in 1 .. n
          BY <4>2, <4>3 DEF n
        <5>2. q[1] = b[1]
          BY <4>1, <5>1 DEF n
        <5>3. n + 1 >= 2 /\ n + 1 # 2
          BY <4>2, <5>1
        <5> QED
          BY <2>1, <4>1, <4>2, <5>2, <5>3 DEF n
      <4>5. ASSUME NEW k \in 1 .. Len(q) - 1
            PROVE  /\ q[k] < q[k + 1]
                   /\ Cardinality(CandidatesIn(<<q[k], q[k + 1]>>)) <= cap
                   /\ k < Len(q) - 1 => Cardinality(CandidatesIn(<<q[k], q[k + 1]>>)) = cap
        <5>1. CASE k = n
          <6>1. q[k] = b[Len(b)] /\ q[k + 1] = Hi
            <7>1. n \in 1 .. n
              BY <4>2
            <7> QED
              BY <4>1, <5>1, <7>1 DEF n
          <6>2. Cardinality(CandidatesIn(<<b[Len(b)], Hi>>)) <= cap
            <7>1. b[Len(b)] \in Nat
              <8>1. n \in 1 .. n
                BY <4>2
              <8> QED
                BY <2>1, <8>1, ElementOfSeq DEF n
            <7> DEFINE c == Cardinality(CandidatesIn(<<b[Len(b)], Hi>>))
            <7>2. c \in Nat
              <8> DEFINE l == b[Len(b)]
              <8>1. l \in Nat
                BY <7>1
              <8> HIDE DEF l
              <8>2. Cardinality(CandidatesIn(<<l, Hi>>)) \in Nat
                BY <1>1, <8>1, CandidatesGrow
              <8> QED
                BY <8>2 DEF l
            <7>3. c < cap
              BY <2>1
            <7> HIDE DEF c
            <7>4. c <= cap
              BY <1>1, <7>2, <7>3
            <7> QED
              BY <7>4 DEF c
          <6>3. ~(k < Len(q) - 1)
            BY <4>2, <5>1
          <6> QED
            BY <3>1, <6>1, <6>2, <6>3
        <5>2. CASE k # n
          <6>1. k \in 1 .. n - 1 /\ k \in 1 .. n /\ k + 1 \in 1 .. n
            <7>1. k \in 1 .. (n + 1) - 1
              BY <4>2
            <7> QED
              BY <4>2, <5>2, <7>1
          <6>2. q[k] = b[k] /\ q[k + 1] = b[k + 1]
            BY <4>1, <6>1 DEF n
          <6>3. b[k] < b[k + 1] /\ Cardinality(CandidatesIn(<<b[k], b[k + 1]>>)) = cap
            BY <2>1, <6>1 DEF n
          <6> QED
            BY <1>1, <6>2, <6>3
        <5> QED
          BY <5>1, <5>2
      <4>6. AreEdges(q)
        BY <4>1, <4>4, <4>5 DEF AreEdges
      <4>7. e = q
        BY <3>1 DEF q
      <4> HIDE DEF e
      <4> QED
        BY <4>4, <4>6, <4>7
    <3>2. CASE ~(b[Len(b)] < Hi)
      <4>1. b[Len(b)] \in Nat
        <5>1. Len(b) \in 1 .. Len(b)
          BY <2>1, <2>3
        <5> QED
          BY <2>1, <5>1, ElementOfSeq
      <4>2. b[Len(b)] = Hi
        BY <1>1, <2>1, <3>2, <4>1
      <4>3. Len(b) # 1
        BY <1>1, <1>4, <2>1, <4>2
      <4>4. Len(b) >= 2
        <5>1. \A m \in Nat : m >= 1 /\ m # 1 => m >= 2
          OBVIOUS
        <5> QED
          BY <2>1, <2>3, <4>3, <5>1
      <4>5. Len(b) # 2
        <5>1. SUFFICES ASSUME Len(b) = 2 PROVE FALSE
          OBVIOUS
        <5>2. 1 \in 1 .. Len(b) - 1
          BY <5>1
        <5>3. Cardinality(CandidatesIn(<<b[1], b[1 + 1]>>)) = cap
          BY <2>1, <5>2
        <5>4. 1 + 1 = 2
          OBVIOUS
        <5>5. Full = cap
          BY <2>1, <4>2, <5>1, <5>3, <5>4 DEF Full
        <5> QED
          BY <1>1, <1>4, <5>5
      <4>6. AreEdges(b)
        BY <1>1, <2>1, <4>2, <4>4 DEF AreEdges
      <4>7. e = b
        BY <3>2
      <4> HIDE DEF e
      <4> QED
        BY <4>5, <4>6, <4>7
    <3> QED
      BY <3>1, <3>2
  <2> HIDE DEF e
  <2> QED
    BY <1>1, <1>4, <2>2, <2>4 DEF Planned, Full
<1> QED
  BY <1>1, <1>2, <1>3, <1>4

\* The windows between the edges, one by one.
LEMMA WindowsAre ==
  ASSUME Inputs, NEW e, AreEdges(e), windows = WindowsBetween(e)
  PROVE  /\ Len(e) \in Nat /\ Len(windows) = Len(e) - 1 /\ Len(windows) \in Nat \ {0}
         /\ DOMAIN windows = 1 .. Len(e) - 1
         /\ windows # <<>>
         /\ \A k \in 1 .. Len(e) : e[k] \in Nat
         /\ \A k \in DOMAIN windows :
              /\ windows[k][1] = e[k] /\ windows[k][2] = e[k + 1]
              /\ windows[k][3] = Cardinality(CandidatesIn(<<e[k], e[k + 1]>>))
              /\ CandidatesIn(windows[k]) = CandidatesIn(<<e[k], e[k + 1]>>)
<1>1. e \in Seq(Nat) /\ Len(e) >= 2
  BY DEF AreEdges
<1>2. Len(e) \in Nat /\ \A k \in 1 .. Len(e) : e[k] \in Nat
  BY <1>1, LenProperties, ElementOfSeq
<1>3. DOMAIN windows = 1 .. Len(e) - 1
  BY DEF WindowsBetween
<1>4. \A k \in DOMAIN windows :
        /\ windows[k][1] = e[k] /\ windows[k][2] = e[k + 1]
        /\ windows[k][3] = Cardinality(CandidatesIn(<<e[k], e[k + 1]>>))
  <2>1. \A k \in DOMAIN windows : windows[k] = Window(e[k], e[k + 1])
    BY DEF WindowsBetween
  <2>2. \A x, y : /\ Window(x, y)[1] = x /\ Window(x, y)[2] = y
                  /\ Window(x, y)[3] = Cardinality(CandidatesIn(<<x, y>>))
    BY DEF Window
  <2> QED
    BY <2>1, <2>2
<1>5. Len(e) - 1 \in Nat \ {0} /\ 1 \in 1 .. Len(e) - 1
  BY <1>1, <1>2
<1>6. Len(windows) = Len(e) - 1
  <2> DEFINE n == Len(e) - 1
  <2> HIDE DEF n
  <2>1. windows = [k \in 1 .. n |-> Window(e[k], e[k + 1])] /\ n \in Nat
    BY <1>5 DEF WindowsBetween, n
  <2>2. Len([k \in 1 .. n |-> Window(e[k], e[k + 1])]) = n
    BY <2>1
  <2> QED
    BY <2>1, <2>2 DEF n
<1>7. windows # <<>>
  BY <1>3, <1>5
<1>8. \A k \in DOMAIN windows : CandidatesIn(windows[k]) = CandidatesIn(<<e[k], e[k + 1]>>)
  <2>1. \A x, y : CandidatesIn(<<x, y>>) = Pages(x, y) \cap Candidates
    BY DEF CandidatesIn
  <2>2. \A k \in DOMAIN windows : CandidatesIn(windows[k]) = Pages(windows[k][1], windows[k][2]) \cap Candidates
    BY DEF CandidatesIn
  <2>3. ASSUME NEW k \in DOMAIN windows
        PROVE  CandidatesIn(windows[k]) = CandidatesIn(<<e[k], e[k + 1]>>)
    <3>1. CandidatesIn(windows[k]) = Pages(e[k], e[k + 1]) \cap Candidates
      BY <1>4, <2>2
    <3> QED
      BY <2>1, <3>1
  <2> QED
    BY <2>3
<1>9. Len(windows) \in Nat \ {0}
  BY <1>5, <1>6
<1> QED
  BY <1>2, <1>3, <1>4, <1>6, <1>7, <1>8, <1>9

\* Such windows tile the range and keep to the budget.
LEMMA PlannedTile ==
  ASSUME Inputs, Planned(windows)
  PROVE  WindowsTile
<1>1. CASE Lo >= Hi
  <2>1. windows = <<>> /\ DOMAIN <<>> = {}
    BY <1>1 DEF Planned
  <2> QED
    BY <2>1 DEF WindowsTile, Gapless, WithinBudget
<1>2. CASE ~(Lo >= Hi)
  <2>1. PICK e : /\ AreEdges(e) /\ windows = WindowsBetween(e)
                 /\ Len(e) = 2 <=> Cardinality(CandidatesIn(<<Lo, Hi>>)) <= cap
    BY <1>2 DEF Planned
  <2> DEFINE n == Len(e) - 1
  <2>2. /\ e[1] = Lo /\ e[Len(e)] = Hi /\ Len(e) >= 2
        /\ \A k \in 1 .. n :
             /\ e[k] < e[k + 1]
             /\ Cardinality(CandidatesIn(<<e[k], e[k + 1]>>)) <= cap
             /\ k < n => Cardinality(CandidatesIn(<<e[k], e[k + 1]>>)) = cap
    BY <2>1 DEF AreEdges
  <2>3. /\ Len(e) \in Nat /\ Len(windows) = n /\ DOMAIN windows = 1 .. n /\ windows # <<>>
        /\ \A k \in 1 .. n :
             /\ windows[k][1] = e[k] /\ windows[k][2] = e[k + 1]
             /\ windows[k][3] = Cardinality(CandidatesIn(<<e[k], e[k + 1]>>))
             /\ CandidatesIn(windows[k]) = CandidatesIn(<<e[k], e[k + 1]>>)
    BY <2>1, WindowsAre
  <2>4. n \in Nat \ {0} /\ n + 1 = Len(e) /\ 1 \in 1 .. n /\ n \in 1 .. n
    BY <2>2, <2>3
  <2> HIDE DEF n
  <2>5. Gapless
    <3>1. windows[1][1] = Lo
      BY <2>2, <2>3, <2>4
    <3>2. Last(windows)[2] = Hi
      BY <2>2, <2>3, <2>4 DEF Last
    <3>3. \A k \in DOMAIN windows : windows[k][1] < windows[k][2]
      BY <2>2, <2>3
    <3>4. ASSUME NEW k \in 2 .. Len(windows) PROVE windows[k][1] = windows[k - 1][2]
      <4>1. k \in 1 .. n /\ k - 1 \in 1 .. n /\ (k - 1) + 1 = k
        BY <2>3, <2>4
      <4>2. windows[k][1] = e[k] /\ windows[k - 1][2] = e[(k - 1) + 1]
        BY <2>3, <4>1
      <4> QED
        BY <4>1, <4>2
    <3> QED
      BY <3>1, <3>2, <3>3, <3>4 DEF Gapless
  <2>6. WithinBudget
    <3>1. ASSUME NEW k \in DOMAIN windows
          PROVE  /\ windows[k][3] = Cardinality(CandidatesIn(windows[k]))
                 /\ windows[k][3] <= cap
                 /\ k < Len(windows) => windows[k][3] = cap
      <4>1. windows[k][3] = Cardinality(CandidatesIn(<<e[k], e[k + 1]>>))
        BY <2>3
      <4> QED
        BY <2>2, <2>3, <4>1
    <3>2. Len(windows) = 1 <=> Cardinality(CandidatesIn(<<Lo, Hi>>)) <= cap
      <4>1. n = 1 <=> Len(e) = 2
        BY <2>3, <2>4
      <4> QED
        BY <2>1, <2>3, <4>1
    <3> QED
      BY <3>1, <3>2 DEF WithinBudget
  <2> QED
    BY <2>5, <2>6 DEF WindowsTile
<1> QED
  BY <1>1, <1>2

\* Edges that increase step by step increase.
LEMMA EdgesOrdered ==
  ASSUME Inputs, NEW e, AreEdges(e)
  PROVE  \A j, k \in 1 .. Len(e) : j <= k => e[j] <= e[k]
<1>1. e \in Seq(Nat) /\ \A k \in 1 .. Len(e) - 1 : e[k] < e[k + 1]
  BY DEF AreEdges
<1> DEFINE n == Len(e)
<1>2. n \in Nat /\ \A k \in 1 .. n : e[k] \in Nat
  BY <1>1, LenProperties, ElementOfSeq
<1>3. \A k \in 1 .. n - 1 : e[k] < e[k + 1]
  BY <1>1
<1> HIDE DEF n
<1>4. SUFFICES ASSUME NEW j \in 1 .. n, NEW k \in 1 .. n, j <= k PROVE e[j] <= e[k]
  BY DEF n
<1> DEFINE G == {i \in j .. n : e[j] <= e[i]}
<1>5. j \in Nat /\ j \in G
  BY <1>2
<1>6. ASSUME NEW i \in j .. n, i < n, i \in G PROVE i + 1 \in G
  <2>1. i \in 1 .. n /\ i \in 1 .. n - 1 /\ i + 1 \in 1 .. n /\ i + 1 \in j .. n
    BY <1>2, <1>6
  <2>2. e[i] \in Nat /\ e[i + 1] \in Nat /\ e[j] \in Nat /\ e[i] < e[i + 1]
    BY <1>2, <1>3, <2>1
  <2>3. e[j] <= e[i]
    BY <1>6
  <2>4. e[j] <= e[i + 1]
    BY <2>2, <2>3
  <2> QED
    BY <2>1, <2>4
<1> HIDE DEF G
<1>7. \A i \in j .. n : i \in G
  <2>1. \A i \in j .. n : i < n /\ i \in G => i + 1 \in G
    BY <1>6
  <2> QED
    BY <1>2, <1>5, <2>1, EveryRound
<1>8. k \in j .. n
  BY <1>2, <1>4
<1> QED
  BY <1>7, <1>8 DEF G

\* The planned windows keep the order of the pages and leave none out.
LEMMA PlannedCover ==
  ASSUME Inputs, RangeInDocument, Planned(windows)
  PROVE  /\ Len(windows) \in Nat /\ DOMAIN windows = 1 .. Len(windows)
         /\ \A k \in DOMAIN windows :
              /\ windows[k][1] \in Nat /\ windows[k][2] \in Nat
              /\ Lo <= windows[k][1] /\ windows[k][1] <= windows[k][2] /\ windows[k][2] <= Hi
         /\ \A j, k \in DOMAIN windows : j < k => windows[j][2] <= windows[k][1]
         /\ \A p \in Pages(Lo, Hi) : \E k \in DOMAIN windows : windows[k][1] <= p /\ p < windows[k][2]
<1>1. Lo \in Nat /\ Hi \in Nat /\ Lo < Hi /\ ~(Lo >= Hi) /\ DOMAIN page \subseteq Nat
  BY InputsAre DEF ADocument
<1>2. PICK e : AreEdges(e) /\ windows = WindowsBetween(e)
  BY <1>1 DEF Planned
<1> DEFINE n == Len(e)
<1>3. e[1] = Lo /\ e[n] = Hi /\ n >= 2 /\ \A k \in 1 .. n - 1 : e[k] < e[k + 1]
  BY <1>2 DEF AreEdges
<1>4. /\ n \in Nat /\ Len(windows) = n - 1 /\ DOMAIN windows = 1 .. n - 1
      /\ \A k \in 1 .. n : e[k] \in Nat
      /\ \A k \in 1 .. n - 1 : windows[k][1] = e[k] /\ windows[k][2] = e[k + 1]
  <2>1. DOMAIN windows = 1 .. n - 1 /\ Len(windows) = n - 1 /\ n \in Nat
    BY <1>2, WindowsAre
  <2>2. \A k \in DOMAIN windows : windows[k][1] = e[k] /\ windows[k][2] = e[k + 1]
    BY <1>2, WindowsAre
  <2>3. \A k \in 1 .. n : e[k] \in Nat
    BY <1>2, WindowsAre
  <2> HIDE DEF n
  <2> QED
    BY <2>1, <2>2, <2>3
<1>5. \A j, k \in 1 .. n : j <= k => e[j] <= e[k]
  BY <1>2, EdgesOrdered
<1> HIDE DEF n
<1>6. Len(windows) \in Nat /\ DOMAIN windows = 1 .. Len(windows)
  BY <1>3, <1>4
<1>7. ASSUME NEW k \in DOMAIN windows
      PROVE  /\ windows[k][1] \in Nat /\ windows[k][2] \in Nat
             /\ Lo <= windows[k][1] /\ windows[k][1] <= windows[k][2] /\ windows[k][2] <= Hi
  <2>1. k \in 1 .. n - 1 /\ k \in 1 .. n /\ k + 1 \in 1 .. n /\ 1 \in 1 .. n /\ n \in 1 .. n
    BY <1>3, <1>4
  <2>2. windows[k][1] = e[k] /\ windows[k][2] = e[k + 1] /\ e[k] \in Nat /\ e[k + 1] \in Nat
    BY <1>4, <2>1
  <2>3. 1 <= k /\ k + 1 <= n /\ k <= k + 1
    BY <1>4, <2>1
  <2>4. Lo <= e[k] /\ e[k] <= e[k + 1] /\ e[k + 1] <= Hi
    BY <1>3, <1>5, <2>1, <2>3
  <2> QED
    BY <2>2, <2>4
<1>8. ASSUME NEW j \in DOMAIN windows, NEW k \in DOMAIN windows, j < k
      PROVE  windows[j][2] <= windows[k][1]
  <2>1. j \in 1 .. n - 1 /\ k \in 1 .. n - 1 /\ j + 1 \in 1 .. n /\ k \in 1 .. n /\ j + 1 <= k
    BY <1>4, <1>8
  <2>2. windows[j][2] = e[j + 1] /\ windows[k][1] = e[k]
    BY <1>4, <2>1
  <2> QED
    BY <1>5, <2>1, <2>2
<1>9. ASSUME NEW p \in Pages(Lo, Hi)
      PROVE  \E k \in DOMAIN windows : windows[k][1] <= p /\ p < windows[k][2]
  <2>1. p \in Nat /\ Lo <= p /\ p < Hi
    BY <1>1 DEF Pages
  <2> DEFINE T == {k \in 1 .. n : p < e[k]}
  <2>2. n \in T /\ T \subseteq Nat
    <3>1. n \in 1 .. n
      BY <1>3, <1>4
    <3> QED
      BY <1>3, <2>1, <3>1
  <2>3. PICK m \in T : \A k \in T : m <= k
    <3> HIDE DEF T
    <3> QED
      BY <2>2, LeastNat
  <2>4. m \in 1 .. n /\ p < e[m] /\ m # 1
    BY <1>1, <1>3, <2>1, <2>3
  <2>5. m - 1 \in 1 .. n - 1 /\ m - 1 \in 1 .. n /\ (m - 1) + 1 = m /\ ~(m <= m - 1)
    BY <1>4, <2>4
  <2>6. ~(p < e[m - 1])
    BY <2>3, <2>5
  <2>7. e[m - 1] <= p
    BY <1>4, <2>1, <2>5, <2>6
  <2>8. windows[m - 1][1] = e[m - 1] /\ windows[m - 1][2] = e[m]
    BY <1>4, <2>5
  <2> QED
    BY <1>4, <2>4, <2>5, <2>7, <2>8
<1> QED
  BY <1>6, <1>7, <1>8, <1>9

-----------------------------------------------------------------------------
(***************************************************************************)
(* The inductive invariant                                                 *)
(***************************************************************************)

\* every result is that of the code on what it read.
ShardingInv ==
  /\ Inputs
  /\ status \in JobStatus
  /\ IF status = "planning" THEN windows = <<>> ELSE Planned(windows)
  /\ dead \subseteq Shards
  /\ DOMAIN partials \subseteq Shards \ dead
  /\ \A i \in DOMAIN partials : partials[i] = Extract(windows[i + 1][1], windows[i + 1][2])
  /\ status \in {"planning", "running"} => dead = {} /\ DOMAIN partials = {}
  /\ status = "reducing" => Shards = dead \cup DOMAIN partials
  /\ status = "succeeded" =>
       /\ RangeInDocument
       /\ \/ dead = {} /\ reportItems = Extract(Lo, Hi)
          \/ Shards = dead \cup DOMAIN partials /\ reportItems = MergePartials

\* The invariant holds of a job that was submitted.
LEMMA InitSharding == Init => ShardingInv
<1> SUFFICES ASSUME Init PROVE ShardingInv
  OBVIOUS
<1>1. Inputs
  BY BoundsAssumption DEF Init, Inputs
<1>2. Shards = {}
  BY DEF Init, Shards
<1> QED
  BY <1>1, <1>2 DEF Init, ShardingInv, JobStatus

\* What a job computes depends on what it was submitted with.
LEMMA SameInputs ==
  ASSUME UNCHANGED inputs
  PROVE  /\ Inputs' <=> Inputs
         /\ Lo' = Lo /\ Hi' = Hi
         /\ \A ws : Planned(ws)' <=> Planned(ws)
         /\ \A lo, hi : Extract(lo, hi)' = Extract(lo, hi)
         /\ RangeInDocument' <=> RangeInDocument
<1>1. page' = page /\ range' = range /\ cap' = cap
  BY DEF inputs
<1>2. Total' = Total /\ Candidates' = Candidates
  BY <1>1 DEF Total, Candidates
<1>3. Lo' = Lo /\ Hi' = Hi
  BY <1>1, <1>2 DEF Lo, Hi
<1>4. Inputs' <=> Inputs
  BY <1>1 DEF Inputs
<1>5. RangeInDocument' <=> RangeInDocument
  BY <1>1, <1>2 DEF RangeInDocument
<1>6. \A w : CandidatesIn(w)' = CandidatesIn(w)
  BY <1>1, <1>2 DEF CandidatesIn, Pages
<1>7. \A e : AreEdges(e)' <=> AreEdges(e)
  BY <1>1, <1>3, <1>6 DEF AreEdges
<1>8. \A e : WindowsBetween(e)' = WindowsBetween(e)
  BY <1>6 DEF WindowsBetween, Window
<1>9. \A ws : Planned(ws)' <=> Planned(ws)
  BY <1>1, <1>3, <1>6, <1>7, <1>8 DEF Planned
<1>10. \A p : PageItems(p)' = PageItems(p)
  BY <1>1 DEF PageItems
<1>11. \A lo, hi : Extract(lo, hi)' = Extract(lo, hi)
  BY <1>10 DEF Extract
<1> QED
  BY <1>3, <1>4, <1>5, <1>9, <1>11

\* Every step keeps the invariant.
LEMMA NextSharding ==
  ASSUME ShardingInv, [Next]_vars
  PROVE  ShardingInv'
<1> USE DEF ShardingInv
<1>1. CASE UNCHANGED vars
  <2>1. UNCHANGED inputs
    BY <1>1 DEF vars
  <2> QED
    BY <1>1, <2>1, SameInputs DEF vars, output, Shards, MergePartials
<1>2. CASE PlanAndDispatch
  <2>1. UNCHANGED inputs /\ windows' = PlanShardWindows /\ status' \in {"running", "mapping"}
        /\ partials' = partials /\ dead' = dead /\ status = "planning"
    BY <1>2 DEF PlanAndDispatch
  <2>2. Planned(PlanShardWindows)
    BY PlanIs
  <2>3. Planned(windows)'
    BY <2>1, <2>2, SameInputs
  <2>4. dead = {} /\ DOMAIN partials = {}
    BY <2>1
  <2> QED
    BY <2>1, <2>3, <2>4, SameInputs DEF JobStatus
<1>3. CASE ProcessJob
  <2>1. /\ UNCHANGED inputs /\ windows' = windows /\ partials' = partials /\ dead' = dead
        /\ status = "running" /\ status' \in {"succeeded", "failed"}
        /\ status' = "succeeded" => RangeInDocument /\ reportItems' = Extract(Lo, Hi)
    BY <1>3 DEF ProcessJob
  <2> QED
    BY <2>1, SameInputs DEF JobStatus, Shards
<1>4. ASSUME NEW i \in Shards, RunShard(i) PROVE ShardingInv'
  <2>1. /\ UNCHANGED inputs /\ windows' = windows /\ dead' = dead
        /\ status' = status /\ status = "mapping"
        /\ i \notin dead
        /\ DOMAIN partials' = DOMAIN partials \cup {i}
        /\ \A j \in DOMAIN partials' :
             partials'[j] = IF j = i THEN Extract(windows[i + 1][1], windows[i + 1][2]) ELSE partials[j]
    BY <1>4 DEF RunShard, Unfinished
  <2>2. Shards' = Shards
    BY <2>1 DEF Shards
  <2>3. \A j \in DOMAIN partials' : partials'[j] = Extract(windows[j + 1][1], windows[j + 1][2])
    BY <2>1
  <2> QED
    BY <2>1, <2>2, <2>3, SameInputs
<1>5. ASSUME NEW i \in Shards, ShardDies(i) PROVE ShardingInv'
  <2>1. /\ UNCHANGED inputs /\ windows' = windows /\ partials' = partials /\ dead' = dead \cup {i}
        /\ status' = status /\ status = "mapping"
        /\ i \notin DOMAIN partials
    BY <1>5 DEF ShardDies, Unfinished
  <2>2. Shards' = Shards
    BY <2>1 DEF Shards
  <2> QED
    BY <2>1, <2>2, SameInputs
<1>6. CASE ReduceBegin
  <2>1. /\ UNCHANGED inputs /\ windows' = windows /\ partials' = partials /\ dead' = dead
        /\ status = "mapping" /\ status' = "reducing"
        /\ \A i \in Shards : i \in dead \cup DOMAIN partials
    BY <1>6 DEF ReduceBegin, Unfinished
  <2>2. Shards' = Shards
    BY <2>1 DEF Shards
  <2>3. Shards = dead \cup DOMAIN partials
    BY <2>1
  <2> QED
    BY <2>1, <2>2, <2>3, SameInputs DEF JobStatus
<1>7. CASE ReducePublish
  <2>1. /\ UNCHANGED inputs /\ windows' = windows /\ partials' = partials /\ dead' = dead
        /\ status = "reducing" /\ status' = "succeeded"
        /\ RangeInDocument /\ reportItems' = MergePartials
    BY <1>7 DEF ReducePublish
  <2>2. Shards' = Shards /\ MergePartials' = MergePartials
    BY <2>1 DEF Shards, MergePartials
  <2> QED
    BY <2>1, <2>2, SameInputs DEF JobStatus
<1> QED
  BY <1>1, <1>2, <1>3, <1>4, <1>5, <1>6, <1>7 DEF Next

\* The job goes by what the planner and the shards computed, whatever the order
\* in which its shards finish or die (plan_and_dispatch, run_shard, reduce_job).
THEOREM ShardingInvariant == Spec => []ShardingInv
<1>1. Init => ShardingInv
  BY InitSharding
<1>2. ShardingInv /\ [Next]_vars => ShardingInv'
  BY NextSharding
<1> QED
  BY <1>1, <1>2, PTL DEF Spec

\* The windows of a job are non-empty, ordered and gapless from the first page
\* of its range to the last the document has, none is over the budget and only
\* the last is under it (plan_shard_windows).
THEOREM WindowsTiling == Spec => []WindowsTile
<1>1. ShardingInv => WindowsTile
  <2> SUFFICES ASSUME ShardingInv PROVE WindowsTile
    OBVIOUS
  <2>1. CASE status = "planning"
    <3>1. windows = <<>> /\ DOMAIN <<>> = {}
      BY <2>1 DEF ShardingInv
    <3> QED
      BY <3>1 DEF WindowsTile, Gapless, WithinBudget
  <2>2. CASE status # "planning"
    BY <2>2, PlannedTile DEF ShardingInv
  <2> QED
    BY <2>1, <2>2
<1> QED
  BY <1>1, ShardingInvariant, PTL

\* The extraction of pages of the range is golden.
LEMMA PagesInRange ==
  ASSUME Inputs, NEW lo \in Nat, NEW hi \in Nat, lo <= hi, hi <= Hi
  PROVE  /\ Extract(lo, hi) \in Seq(Found) /\ Golden(Extract(lo, hi), Pages(lo, hi))
         /\ Pages(lo, hi) = lo .. hi - 1
<1>1. ADocument /\ DOMAIN page = 0 .. Total - 1 /\ Total \in Nat /\ Hi \in Nat /\ Hi <= Total
  BY InputsAre
<1>2. lo .. hi - 1 \subseteq DOMAIN page
  BY <1>1
<1>3. Pages(lo, hi) = lo .. hi - 1
  BY <1>1 DEF Pages
<1> QED
  BY <1>1, <1>2, <1>3, ExtractIsGolden

\* The shards that are not dead cover the pages of the others' complement.
LEMMA MergedIsGolden ==
  ASSUME Inputs, RangeInDocument, Planned(windows), dead \subseteq Shards,
         DOMAIN partials \subseteq Shards \ dead, Shards = dead \cup DOMAIN partials,
         \A i \in DOMAIN partials : partials[i] = Extract(windows[i + 1][1], windows[i + 1][2])
  PROVE  Golden(MergePartials,
                Pages(Lo, Hi) \ UNION {Pages(windows[i + 1][1], windows[i + 1][2]) : i \in dead})
<1> DEFINE n == Len(windows)
           Its(k) == Pages(windows[k][1], windows[k][2])
           segs == [k \in 1 .. n |-> IF k - 1 \in DOMAIN partials THEN partials[k - 1] ELSE <<>>]
           parts == [k \in 1 .. n |-> IF k - 1 \in DOMAIN partials THEN Its(k) ELSE {}]
<1>1. /\ n \in Nat /\ DOMAIN windows = 1 .. n
      /\ \A k \in 1 .. n :
           /\ windows[k][1] \in Nat /\ windows[k][2] \in Nat
           /\ Lo <= windows[k][1] /\ windows[k][1] <= windows[k][2] /\ windows[k][2] <= Hi
      /\ \A j, k \in 1 .. n : j < k => windows[j][2] <= windows[k][1]
      /\ \A p \in Pages(Lo, Hi) : \E k \in 1 .. n : windows[k][1] <= p /\ p < windows[k][2]
  <2>1. /\ Len(windows) \in Nat /\ DOMAIN windows = 1 .. Len(windows)
        /\ \A k \in DOMAIN windows :
             /\ windows[k][1] \in Nat /\ windows[k][2] \in Nat
             /\ Lo <= windows[k][1] /\ windows[k][1] <= windows[k][2] /\ windows[k][2] <= Hi
        /\ \A j, k \in DOMAIN windows : j < k => windows[j][2] <= windows[k][1]
        /\ \A p \in Pages(Lo, Hi) : \E k \in DOMAIN windows : windows[k][1] <= p /\ p < windows[k][2]
    BY PlannedCover
  <2> QED
    BY <2>1
<1>2. ADocument /\ DOMAIN page \subseteq Nat /\ Lo \in Nat /\ Hi \in Nat
  BY InputsAre DEF ADocument
<1>3. Shards = 0 .. n - 1
  BY DEF Shards
<1> HIDE DEF n
<1>4. \A k \in 1 .. n : Extract(windows[k][1], windows[k][2]) \in Seq(Found)
                        /\ Golden(Extract(windows[k][1], windows[k][2]), Its(k))
                        /\ Its(k) \subseteq DOMAIN page
  <2> SUFFICES ASSUME NEW k \in 1 .. n
               PROVE  Extract(windows[k][1], windows[k][2]) \in Seq(Found)
                      /\ Golden(Extract(windows[k][1], windows[k][2]), Its(k))
                      /\ Its(k) \subseteq DOMAIN page
    OBVIOUS
  <2>1. /\ windows[k][1] \in Nat /\ windows[k][2] \in Nat
        /\ windows[k][1] <= windows[k][2] /\ windows[k][2] <= Hi
    BY <1>1
  <2>2. Its(k) \subseteq DOMAIN page
    BY DEF Pages
  <2> QED
    BY <2>1, <2>2, PagesInRange
<1>5. \A i \in DOMAIN partials : i + 1 \in 1 .. n /\ partials[i] = Extract(windows[i + 1][1], windows[i + 1][2])
  BY <1>1, <1>3
<1>6. \A k \in 1 .. n : k - 1 \in DOMAIN partials => partials[k - 1] = Extract(windows[k][1], windows[k][2])
  <2>1. \A k \in 1 .. n : (k - 1) + 1 = k
    BY <1>1
  <2> QED
    BY <1>5, <2>1
<1>7. segs \in Seq(Seq(Found)) /\ DOMAIN segs = 1 .. n
  <2>1. \A k \in 1 .. n : segs[k] \in Seq(Found)
    <3>1. <<>> \in Seq(Found)
      BY EmptySeq
    <3> QED
      BY <1>4, <1>6, <3>1
  <2>2. segs \in [1 .. n -> Seq(Found)]
    BY <2>1
  <2> HIDE DEF segs
  <2> QED
    BY <1>1, <2>2
<1>8. \A k \in DOMAIN segs : parts[k] \subseteq DOMAIN page /\ Golden(segs[k], parts[k])
  <2> SUFFICES ASSUME NEW k \in 1 .. n PROVE parts[k] \subseteq DOMAIN page /\ Golden(segs[k], parts[k])
    BY <1>7
  <2>1. CASE k - 1 \in DOMAIN partials
    <3>1. segs[k] = Extract(windows[k][1], windows[k][2]) /\ parts[k] = Its(k)
      BY <1>6, <2>1
    <3> HIDE DEF segs, parts
    <3> QED
      BY <1>4, <3>1
  <2>2. CASE k - 1 \notin DOMAIN partials
    <3>1. segs[k] = <<>> /\ parts[k] = {}
      BY <2>2
    <3>2. Golden(<<>>, {})
      BY DEF Golden, FirstPlaces, Places
    <3> HIDE DEF segs, parts
    <3> QED
      BY <3>1, <3>2
  <2> QED
    BY <2>1, <2>2
<1>9. \A j, k \in DOMAIN segs : j < k => \A p \in parts[j], q \in parts[k] : p < q
  <2> SUFFICES ASSUME NEW j \in 1 .. n, NEW k \in 1 .. n, j < k, NEW p \in parts[j], NEW q \in parts[k]
               PROVE  p < q
    BY <1>7
  <2>1. p \in Its(j) /\ q \in Its(k)
    OBVIOUS
  <2>2. p \in Nat /\ q \in Nat /\ p < windows[j][2] /\ windows[k][1] <= q
    BY <1>2, <2>1 DEF Pages
  <2>3. windows[j][2] \in Nat /\ windows[k][1] \in Nat /\ windows[j][2] <= windows[k][1]
    BY <1>1
  <2> QED
    BY <2>2, <2>3
<1>10. MergePartials = FirstWins(FlattenSeq(segs))
  BY DEF MergePartials, n
<1>11. UNION {parts[k] : k \in DOMAIN segs} =
         Pages(Lo, Hi) \ UNION {Pages(windows[i + 1][1], windows[i + 1][2]) : i \in dead}
  <2> DEFINE Dead == UNION {Pages(windows[i + 1][1], windows[i + 1][2]) : i \in dead}
  <2>1. \A j, k \in 1 .. n : \A p : p \in Its(j) /\ p \in Its(k) => j = k
    <3> SUFFICES ASSUME NEW j \in 1 .. n, NEW k \in 1 .. n, NEW p \in DOMAIN page, p \in Its(j), p \in Its(k)
                 PROVE  j = k
      BY DEF Pages
    <3>1. p \in Nat /\ windows[j][1] <= p /\ p < windows[j][2] /\ windows[k][1] <= p /\ p < windows[k][2]
      BY <1>2 DEF Pages
    <3>2. ~(j < k)
      BY <1>1, <3>1
    <3>3. ~(k < j)
      BY <1>1, <3>1
    <3> QED
      BY <1>1, <3>2, <3>3
  <2>2. \A i \in dead : i + 1 \in 1 .. n /\ i \notin DOMAIN partials /\ (i + 1) - 1 = i
    BY <1>1, <1>3
  <2>3. \A k \in 1 .. n : k - 1 \in dead \/ k - 1 \in DOMAIN partials
    BY <1>1, <1>3
  <2>4. \A k \in 1 .. n : (k - 1) + 1 = k
    BY <1>1
  <2>5. \A k \in 1 .. n : Its(k) \subseteq Pages(Lo, Hi)
    <3> SUFFICES ASSUME NEW k \in 1 .. n, NEW p \in Its(k) PROVE p \in Pages(Lo, Hi)
      OBVIOUS
    <3>1. p \in Nat /\ p \in DOMAIN page /\ windows[k][1] <= p /\ p < windows[k][2]
      BY <1>2 DEF Pages
    <3>2. Lo <= p /\ p < Hi
      BY <1>1, <1>2, <3>1
    <3> QED
      BY <3>1, <3>2 DEF Pages
  <2>6. \A p \in Pages(Lo, Hi) : \E k \in 1 .. n : p \in Its(k)
    BY <1>1 DEF Pages
  <2>7. \A k \in 1 .. n : parts[k] = IF k - 1 \in DOMAIN partials THEN Its(k) ELSE {}
    OBVIOUS
  <2>8. Dead = UNION {Its(i + 1) : i \in dead}
    OBVIOUS
  <2> HIDE DEF parts, segs, Its, Dead
  <2>9. ASSUME NEW k \in 1 .. n, NEW p \in parts[k] PROVE p \in Pages(Lo, Hi) \ Dead
    <3>1. k - 1 \in DOMAIN partials /\ p \in Its(k)
      BY <2>7, <2>9
    <3>2. \A i \in dead : p \notin Its(i + 1)
      <4> SUFFICES ASSUME NEW i \in dead, p \in Its(i + 1) PROVE FALSE
        OBVIOUS
      <4>1. i + 1 = k
        BY <2>1, <2>2, <3>1
      <4> QED
        BY <2>2, <3>1, <4>1
    <3> QED
      BY <2>5, <2>8, <3>1, <3>2
  <2>10. ASSUME NEW p \in Pages(Lo, Hi) \ Dead PROVE \E k \in 1 .. n : p \in parts[k]
    <3>1. PICK k \in 1 .. n : p \in Its(k)
      BY <2>6
    <3>2. k - 1 \notin dead
      <4> SUFFICES ASSUME k - 1 \in dead PROVE FALSE
        OBVIOUS
      <4>1. p \in Its((k - 1) + 1)
        BY <2>4, <3>1
      <4> QED
        BY <2>8, <4>1
    <3> QED
      BY <2>3, <2>7, <3>1, <3>2
  <2>11. UNION {parts[k] : k \in DOMAIN segs} = Pages(Lo, Hi) \ Dead
    BY <1>7, <2>9, <2>10
  <2> QED
    BY <2>11 DEF Dead
<1> HIDE DEF segs, parts
<1>12. Golden(FirstWins(FlattenSeq(segs)), UNION {parts[k] : k \in DOMAIN segs})
  <2> DEFINE U == UNION {parts[k] : k \in DOMAIN segs}
  <2>1. \A p : p \in U <=> \E k \in DOMAIN segs : p \in parts[k]
    OBVIOUS
  <2> HIDE DEF U
  <2>2. Golden(FirstWins(FlattenSeq(segs)), U)
    BY <1>2, <1>7, <1>8, <1>9, <2>1, MergeIsGolden
  <2> QED
    BY <2>2 DEF U
<1> QED
  BY <1>10, <1>11, <1>12

\* The items of a published report are those that one serial pass would give,
\* in its order, less the pages of the shards that died, however the document
\* was cut and in whatever order its shards finished (decision D5).
THEOREM ReportGolden == Spec => []ReportIsGolden
<1>1. ShardingInv => ReportIsGolden
  <2> SUFFICES ASSUME ShardingInv, status = "succeeded"
               PROVE  Golden(reportItems, Pages(Lo, Hi) \ UNION {Pages(windows[i + 1][1], windows[i + 1][2]) : i \in dead})
    BY DEF ReportIsGolden
  <2>1. Inputs /\ RangeInDocument /\ Planned(windows)
    BY DEF ShardingInv
  <2>2. CASE dead = {} /\ reportItems = Extract(Lo, Hi)
    <3>1. Lo \in Nat /\ Hi \in Nat /\ Lo <= Hi /\ Hi <= Hi
      BY <2>1, InputsAre
    <3>2. Golden(Extract(Lo, Hi), Pages(Lo, Hi))
      BY <2>1, <3>1, PagesInRange
    <3>3. Pages(Lo, Hi) \ UNION {Pages(windows[i + 1][1], windows[i + 1][2]) : i \in dead} = Pages(Lo, Hi)
      BY <2>2
    <3> QED
      BY <2>2, <3>2, <3>3
  <2>3. CASE Shards = dead \cup DOMAIN partials /\ reportItems = MergePartials
    BY <2>1, <2>3, MergedIsGolden DEF ShardingInv
  <2> QED
    BY <2>2, <2>3 DEF ShardingInv
<1> QED
  BY <1>1, ShardingInvariant, PTL

-----------------------------------------------------------------------------
(***************************************************************************)
(* Sequences of anything                                                   *)
(***************************************************************************)

\* A sequence has its entries at 1 .. Len.
LEMMA SeqIs ==
  ASSUME NEW s, IsSeq(s)
  PROVE  /\ Len(s) \in Nat /\ DOMAIN s = 1 .. Len(s)
         /\ \A i \in DOMAIN s : s[i] \in ToSet(s)
         /\ s = [i \in DOMAIN s |-> s[i]]
<1>1. s \in Seq(ToSet(s))
  BY DEF IsSeq
<1>2. Len(s) \in Nat /\ DOMAIN s = 1 .. Len(s) /\ s \in [1 .. Len(s) -> ToSet(s)]
  BY <1>1, LenProperties
<1> QED
  BY <1>2 DEF ToSet

\* A sequence over some set is a sequence, and its entries are in the set.
LEMMA SeqOver ==
  ASSUME NEW S, NEW s \in Seq(S)
  PROVE  IsSeq(s) /\ ToSet(s) \subseteq S
<1>1. Len(s) \in Nat /\ DOMAIN s = 1 .. Len(s) /\ s \in [1 .. Len(s) -> S]
  BY LenProperties
<1>2. ToSet(s) \subseteq S
  BY <1>1 DEF ToSet
<1>3. s \in [1 .. Len(s) -> ToSet(s)]
  BY <1>1 DEF ToSet
<1> HIDE DEF ToSet
<1>4. s \in Seq(ToSet(s))
  BY <1>1, <1>3, SeqDef
<1> QED
  BY <1>2, <1>4 DEF IsSeq

\* What is defined at 1 .. n is a sequence.
LEMMA SeqFrom ==
  ASSUME NEW n \in Nat, NEW f, f = [i \in 1 .. n |-> f[i]]
  PROVE  IsSeq(f) /\ Len(f) = n
<1>1. f \in [1 .. n -> {f[i] : i \in 1 .. n}]
  BY Zenon
<1>2. f \in Seq({f[i] : i \in 1 .. n})
  BY <1>1, SeqDef
<1>3. IsSeq(f)
  BY <1>2, SeqOver
<1>4. DOMAIN f = 1 .. n
  BY <1>1
<1> QED
  BY <1>2, <1>3, <1>4, LenProperties

\* The empty sequence has no entry.
LEMMA EmptyIsSeq == IsSeq(<<>>) /\ ToSet(<<>>) = {}
<1>1. <<>> \in Seq({}) /\ DOMAIN <<>> = {}
  BY EmptySeq
<1>2. IsSeq(<<>>)
  BY <1>1, SeqOver, Zenon
<1> QED
  BY <1>1, <1>2 DEF ToSet

\* A sequence of one entry.
LEMMA SingleIsSeq ==
  ASSUME NEW x
  PROVE  IsSeq(<<x>>) /\ Len(<<x>>) = 1 /\ ToSet(<<x>>) = {x} /\ DOMAIN <<x>> = {1} /\ <<x>>[1] = x
<1>1. <<x>> \in Seq({x}) /\ Len(<<x>>) = 1 /\ <<x>>[1] = x
  OBVIOUS
<1>2. DOMAIN <<x>> = {1}
  BY <1>1, LenProperties
<1>3. IsSeq(<<x>>)
  BY <1>1, SeqOver
<1> QED
  BY <1>1, <1>2, <1>3 DEF ToSet

\* One after the other, two sequences have the entries of both.
LEMMA ConcatIs ==
  ASSUME NEW a, NEW b, IsSeq(a), IsSeq(b)
  PROVE  /\ IsSeq(a \o b) /\ ToSet(a \o b) = ToSet(a) \cup ToSet(b)
         /\ Len(a \o b) = Len(a) + Len(b)
         /\ \A i \in 1 .. Len(a) + Len(b) : (a \o b)[i] = IF i <= Len(a) THEN a[i] ELSE b[i - Len(a)]
<1> DEFINE S == ToSet(a) \cup ToSet(b)
           c == a \o b
<1>1. a \in Seq(S) /\ b \in Seq(S)
  BY SeqIs, SeqDef DEF IsSeq
<1> HIDE DEF S
<1>2. /\ c \in Seq(S) /\ Len(c) = Len(a) + Len(b)
      /\ \A i \in 1 .. Len(a) + Len(b) : c[i] = IF i <= Len(a) THEN a[i] ELSE b[i - Len(a)]
  BY <1>1, ConcatProperties
<1>3. IsSeq(c)
  BY <1>2, SeqOver
<1> HIDE DEF c
<1>4. /\ Len(a) \in Nat /\ DOMAIN a = 1 .. Len(a) /\ Len(b) \in Nat /\ DOMAIN b = 1 .. Len(b)
      /\ DOMAIN c = 1 .. Len(a) + Len(b)
  BY <1>2, <1>3, SeqIs
<1>5. ASSUME NEW i \in DOMAIN c PROVE c[i] \in ToSet(a) \cup ToSet(b)
  <2>1. CASE i <= Len(a)
    BY <1>2, <1>4, <2>1 DEF ToSet
  <2>2. CASE ~(i <= Len(a))
    <3>1. i - Len(a) \in DOMAIN b
      BY <1>4, <2>2
    <3> QED
      BY <1>2, <1>4, <2>2, <3>1 DEF ToSet
  <2> QED
    BY <2>1, <2>2
<1>6. ASSUME NEW i \in DOMAIN a PROVE a[i] \in ToSet(c)
  BY <1>2, <1>4 DEF ToSet
<1>7. ASSUME NEW i \in DOMAIN b PROVE b[i] \in ToSet(c)
  <2>1. Len(a) + i \in DOMAIN c /\ ~(Len(a) + i <= Len(a)) /\ (Len(a) + i) - Len(a) = i
    BY <1>4
  <2> QED
    BY <1>2, <1>4, <2>1 DEF ToSet
<1>8. ToSet(c) = ToSet(a) \cup ToSet(b)
  BY <1>5, <1>6, <1>7 DEF ToSet
<1> QED
  BY <1>2, <1>3, <1>8 DEF c

\* Flattened sequences are a sequence of what they hold.
LEMMA FlattenWhole ==
  ASSUME NEW segs, IsSeq(segs), \A i \in DOMAIN segs : IsSeq(segs[i])
  PROVE  /\ IsSeq(FlattenSeq(segs))
         /\ ToSet(FlattenSeq(segs)) = UNION {ToSet(segs[i]) : i \in DOMAIN segs}
         /\ \E pos : Lists(FlattenSeq(segs), pos, segs, PlacesOf(segs))
<1> DEFINE S == UNION {ToSet(segs[i]) : i \in DOMAIN segs}
           out == FlattenSeq(segs)
<1>1. segs \in Seq(Seq(S))
  <2>1. \A i \in DOMAIN segs : segs[i] \in Seq(S)
    <3> SUFFICES ASSUME NEW i \in DOMAIN segs PROVE segs[i] \in Seq(S)
      OBVIOUS
    <3>1. /\ Len(segs[i]) \in Nat /\ DOMAIN segs[i] = 1 .. Len(segs[i])
          /\ segs[i] = [k \in DOMAIN segs[i] |-> segs[i][k]]
          /\ \A k \in DOMAIN segs[i] : segs[i][k] \in S
      BY SeqIs
    <3> HIDE DEF S
    <3>2. segs[i] \in [1 .. Len(segs[i]) -> S]
      BY <3>1
    <3> QED
      BY <3>1, <3>2, SeqDef
  <2>2. Len(segs) \in Nat /\ DOMAIN segs = 1 .. Len(segs) /\ segs = [i \in DOMAIN segs |-> segs[i]]
    BY SeqIs
  <2> HIDE DEF S
  <2>3. segs \in [1 .. Len(segs) -> Seq(S)]
    BY <2>1, <2>2
  <2> QED
    BY <2>2, <2>3, SeqDef
<1>2. out \in Seq(S) /\ \E pos : Lists(out, pos, segs, PlacesOf(segs))
  <2> HIDE DEF S
  <2> QED
    BY <1>1, FlattenIs
<1>3. IsSeq(out) /\ ToSet(out) \subseteq S
  <2> HIDE DEF S, out
  <2> QED
    BY <1>2, SeqOver
<1>4. S \subseteq ToSet(out)
  <2> SUFFICES ASSUME NEW i \in DOMAIN segs, NEW x \in ToSet(segs[i]) PROVE x \in ToSet(out)
    OBVIOUS
  <2>1. PICK k \in DOMAIN segs[i] : x = segs[i][k]
    BY DEF ToSet
  <2>2. PICK pos : Lists(out, pos, segs, PlacesOf(segs))
    BY <1>2
  <2>3. <<i, k>> \in PlacesOf(segs)
    BY SeqIs DEF PlacesOf
  <2> HIDE DEF out
  <2>4. PICK n \in DOMAIN out : pos[n] = <<i, k>>
    BY <2>2, <2>3 DEF Lists
  <2>5. out[n] = x
    BY <2>1, <2>2, <2>4 DEF Lists
  <2> QED
    BY <2>5 DEF ToSet
<1> HIDE DEF S, out
<1> QED
  BY <1>2, <1>3, <1>4 DEF S, out

\* The chosen entries, in order.
LEMMA ChosenIs ==
  ASSUME NEW s, IsSeq(s), NEW P, P \subseteq DOMAIN s
  PROVE  /\ IsSeq(Chosen(s, P)) /\ ToSet(Chosen(s, P)) = {s[i] : i \in P}
         /\ \A m, n \in DOMAIN Chosen(s, P) : m < n =>
              \E i, j \in P : i < j /\ Chosen(s, P)[m] = s[i] /\ Chosen(s, P)[n] = s[j]
<1> DEFINE segs == [i \in DOMAIN s |-> IF i \in P THEN <<s[i]>> ELSE <<>>]
<1>1. Len(s) \in Nat /\ DOMAIN s = 1 .. Len(s)
  BY SeqIs
<1>2. IsSeq(segs) /\ DOMAIN segs = DOMAIN s
  <2>1. segs = [i \in 1 .. Len(s) |-> segs[i]]
    BY <1>1
  <2> HIDE DEF segs
  <2> QED
    BY <1>1, <2>1, SeqFrom
<1>3. \A i \in DOMAIN segs : segs[i] = IF i \in P THEN <<s[i]>> ELSE <<>>
  OBVIOUS
<1>4. Chosen(s, P) = FlattenSeq(segs)
  BY DEF Chosen
<1> HIDE DEF segs
<1>5. \A i \in P : IsSeq(<<s[i]>>) /\ ToSet(<<s[i]>>) = {s[i]} /\ DOMAIN <<s[i]>> = {1} /\ <<s[i]>>[1] = s[i]
  BY SingleIsSeq
<1>6. \A i \in DOMAIN segs : IsSeq(segs[i])
  BY <1>3, <1>5, EmptyIsSeq
<1> DEFINE out == FlattenSeq(segs)
<1>7. /\ IsSeq(out) /\ ToSet(out) = UNION {ToSet(segs[i]) : i \in DOMAIN segs}
      /\ \E pos : Lists(out, pos, segs, PlacesOf(segs))
  BY <1>2, <1>6, FlattenWhole
<1> HIDE DEF out
<1>8. ToSet(out) = {s[i] : i \in P}
  <2>1. \A i \in DOMAIN segs : ToSet(segs[i]) = IF i \in P THEN {s[i]} ELSE {}
    BY <1>3, <1>5, EmptyIsSeq
  <2> QED
    BY <1>2, <1>7, <2>1
<1>9. PICK pos : Lists(out, pos, segs, PlacesOf(segs))
  BY <1>7
<1>10. ASSUME NEW n \in DOMAIN out PROVE pos[n][1] \in P /\ pos[n][1] \in Nat /\ pos[n][2] = 1 /\ out[n] = s[pos[n][1]]
  <2>1. pos[n] \in PlacesOf(segs) /\ out[n] = segs[pos[n][1]][pos[n][2]]
    BY <1>9 DEF Lists
  <2>2. pos[n][1] \in DOMAIN segs /\ pos[n][2] \in DOMAIN segs[pos[n][1]]
    BY <2>1 DEF PlacesOf
  <2>3. DOMAIN <<>> = {}
    OBVIOUS
  <2>4. pos[n][1] \in P
    BY <1>3, <2>2, <2>3
  <2>5. segs[pos[n][1]] = <<s[pos[n][1]]>>
    BY <1>3, <2>2, <2>4
  <2> QED
    BY <1>1, <1>2, <1>5, <2>1, <2>2, <2>4, <2>5
<1>11. ASSUME NEW m \in DOMAIN out, NEW n \in DOMAIN out, m < n
       PROVE  \E i, j \in P : i < j /\ out[m] = s[i] /\ out[n] = s[j]
  <2>1. Sooner(pos[m], pos[n])
    BY <1>9, <1>11 DEF Lists
  <2>2. pos[m][1] < pos[n][1]
    BY <1>10, <2>1 DEF Sooner
  <2> QED
    BY <1>10, <2>2
<1> QED
  BY <1>4, <1>7, <1>8, <1>11 DEF out

-----------------------------------------------------------------------------
(***************************************************************************)
(* What a schedule is read as                                              *)
(***************************************************************************)

IsRow(row) == IsSeq(row) /\ \A cell \in ToSet(row) : IsSeq(cell)
IsTable(t) == IsSeq(t) /\ \A row \in ToSet(t) : IsRow(row)

\* The rows of the mark grammar are a sequence.
LEMMA MarkRowsAre ==
  ASSUME NEW t, IsTable(t), NEW k, NEW words, NEW merges
  PROVE  IsSeq(MarkRows(t, k, words, merges))
<1> DEFINE Of(row) ==
             LET cell == CellAt(row, k)
             IN  IF merges /\ Len(cell) >= 2 /\ ToSet(cell) \subseteq words THEN Expand(row, k)
                 ELSE IF IsWordOf(cell, words) THEN <<row>> ELSE <<>>
           segs == [i \in DOMAIN t |-> Of(t[i])]
<1>1. ASSUME NEW i \in DOMAIN t PROVE IsSeq(Of(t[i]))
  <2> DEFINE row == t[i]
  <2>1. IsRow(row)
    BY SeqIs DEF IsTable
  <2> HIDE DEF row
  <2>2. CASE Len(CellAt(row, k)) >= 2
    <3>1. k \in DOMAIN row
      <4>1. Len(<<>>) = 0
        OBVIOUS
      <4> QED
        BY <2>2, <4>1 DEF CellAt
    <3>2. IsSeq(row[k])
      BY <2>1, <3>1, SeqIs DEF IsRow
    <3>3. Len(row[k]) \in Nat
      BY <3>2, SeqIs
    <3>4. IsSeq(Expand(row, k))
      <4> DEFINE n == Len(row[k])
                 e == Expand(row, k)
      <4>1. e = [j \in 1 .. n |-> e[j]]
        BY DEF Expand
      <4> HIDE DEF n, e
      <4>2. n \in Nat
        BY <3>3 DEF n
      <4> QED
        BY <4>1, <4>2, SeqFrom DEF e
    <3> QED
      BY <3>4, EmptyIsSeq, SingleIsSeq DEF row
  <2>3. CASE ~(Len(CellAt(row, k)) >= 2)
    BY <2>3, EmptyIsSeq, SingleIsSeq DEF row
  <2> QED
    BY <2>2, <2>3
<1>2. IsSeq(segs) /\ \A i \in DOMAIN segs : IsSeq(segs[i])
  <2>1. Len(t) \in Nat /\ DOMAIN t = 1 .. Len(t)
    BY SeqIs DEF IsTable
  <2>2. segs = [i \in 1 .. Len(t) |-> segs[i]] /\ DOMAIN segs = DOMAIN t
    BY <2>1
  <2>3. \A i \in DOMAIN segs : segs[i] = Of(t[i])
    OBVIOUS
  <2> HIDE DEF segs, Of
  <2> QED
    BY <1>1, <2>1, <2>2, <2>3, SeqFrom
<1>3. MarkRows(t, k, words, merges) = FlattenSeq(segs)
  BY DEF MarkRows
<1> HIDE DEF segs
<1> QED
  BY <1>2, <1>3, FlattenWhole

\* The rows selected are a sequence, and in a catalog the key of each is a word.
LEMMA SelectedAre ==
  ASSUME NEW t, IsTable(t), NEW by, NEW s
  PROVE  /\ IsSeq(SelectRows(t, by, s))
         /\ s.shape = "catalog" =>
              LET k == IF s.key \in DOMAIN by THEN by[s.key] ELSE 1
              IN  \A row \in ToSet(SelectRows(t, by, s)) : row \in ToSet(t) /\ Len(CellAt(row, k)) = 1
<1> DEFINE k == IF s.key \in DOMAIN by THEN by[s.key] ELSE 1
           out == SelectRows(t, by, s)
<1>0. IsSeq(t)
  BY DEF IsTable
<1>1. CASE s.shape = "catalog"
  <2>1. out = CatalogRows(t, k)
    BY <1>1 DEF SelectRows
  <2> DEFINE typed == {i \in DOMAIN t : IsWordOf(CellAt(t[i], k), TagLike) /\ Cardinality(Filled(t[i])) >= 2}
             kept == {i \in typed : \A j \in typed : j < i => t[j][k] # t[i][k]}
  <2>2. CatalogRows(t, k) = Chosen(t, kept)
    BY DEF CatalogRows
  <2>3. kept \subseteq typed /\ typed \subseteq DOMAIN t
    OBVIOUS
  <2>4. \A i \in typed : Len(CellAt(t[i], k)) = 1
    BY DEF IsWordOf
  <2> HIDE DEF typed, kept, k
  <2>5. IsSeq(out) /\ ToSet(out) = {t[i] : i \in kept}
    BY <1>0, <2>1, <2>2, <2>3, ChosenIs
  <2>6. \A row \in ToSet(out) : row \in ToSet(t) /\ Len(CellAt(row, k)) = 1
    <3> HIDE DEF out
    <3> QED
      BY <2>3, <2>4, <2>5 DEF ToSet
  <2> QED
    BY <2>5, <2>6 DEF k
<1>2. CASE s.shape # "catalog" /\ s.shape = "instance" /\ s.grammar = "free"
  <2>1. out = FreeRows(t, s, k)
    BY <1>2 DEF SelectRows
  <2> DEFINE P == {i \in DOMAIN t : i >= DataStart(t, s) /\ CellAt(t[i], k) # <<>>}
  <2>2. FreeRows(t, s, k) = Chosen(t, P)
    BY DEF FreeRows
  <2>3. P \subseteq DOMAIN t
    OBVIOUS
  <2> HIDE DEF P, k
  <2> QED
    BY <1>0, <1>2, <2>1, <2>2, <2>3, ChosenIs
<1>3. CASE s.shape # "catalog" /\ ~(s.shape = "instance" /\ s.grammar = "free")
  <2>1. out = MarkRowsAuto(t, k, s)
    BY <1>3 DEF SelectRows
  <2> HIDE DEF k
  <2>2. IsSeq(MarkRowsAuto(t, k, s))
    BY MarkRowsAre DEF MarkRowsAuto
  <2> QED
    BY <1>3, <2>1, <2>2
<1> QED
  BY <1>1, <1>2, <1>3

\* What an item read from page p under schema s says of the two.
IsOf(item, s, p) ==
  /\ DOMAIN item = {"schedule", "page", "quantity", "basis", "mark"}
  /\ item.schedule = s.name /\ item.page = p
  /\ s.shape = "catalog" => item.mark = <<>> \/ (IsSeq(item.mark) /\ Len(item.mark) = 1)
  /\ s.shape = "instance" => item.basis # "unknown_plan_count"

\* A page is read as a sequence of items of its own, and the mark of an item of
\* a catalog is one word.
LEMMA ParsedAre ==
  ASSUME NEW tables, IsSeq(tables), \A t \in ToSet(tables) : IsTable(t), NEW s, NEW p
  PROVE  /\ IsSeq(ParsePage(tables, s, p))
         /\ \A item \in ToSet(ParsePage(tables, s, p)) : IsOf(item, s, p)
<1> DEFINE Of(t) ==
             LET by   == ByField(t, s)
                 rows == SelectRows(t, by, s)
             IN  IF t # <<>> /\ Len(t[1]) >= MinCols /\ Resolves(by, s)
                 THEN [i \in DOMAIN rows |-> BuildItem(rows[i], by, s, p)] ELSE <<>>
           segs == [i \in DOMAIN tables |-> Of(tables[i])]
<1>1. ASSUME NEW i \in DOMAIN tables
      PROVE  IsSeq(Of(tables[i])) /\ \A item \in ToSet(Of(tables[i])) : IsOf(item, s, p)
  <2> DEFINE t == tables[i]
             by == ByField(t, s)
             rows == SelectRows(t, by, s)
             read == [n \in DOMAIN rows |-> BuildItem(rows[n], by, s, p)]
             k == IF s.key \in DOMAIN by THEN by[s.key] ELSE 1
  <2>1. IsTable(t)
    BY SeqIs
  <2> HIDE DEF t, by
  <2>2. IsSeq(rows)
    BY <2>1, SelectedAre
  <2>3. s.shape = "catalog" => \A row \in ToSet(rows) : row \in ToSet(t) /\ Len(CellAt(row, k)) = 1
    BY <2>1, SelectedAre
  <2> HIDE DEF rows
  <2>4. IsSeq(read)
    <3>1. Len(rows) \in Nat /\ DOMAIN rows = 1 .. Len(rows)
      BY <2>2, SeqIs
    <3>2. read = [n \in 1 .. Len(rows) |-> read[n]]
      BY <3>1
    <3> HIDE DEF read
    <3> QED
      BY <3>1, <3>2, SeqFrom
  <2>5. ASSUME NEW n \in DOMAIN rows PROVE IsOf(read[n], s, p)
    <3> DEFINE row == rows[n]
               attrs == [f \in {g \in DOMAIN by : by[g] \in DOMAIN row} |-> row[by[f]]]
               item == read[n]
    <3>1. /\ item.schedule = s.name /\ item.page = p /\ item.basis = Quantity(s, attrs)[2]
          /\ item.mark = IF s.key \in DOMAIN attrs THEN attrs[s.key] ELSE <<>>
      BY DEF BuildItem
    <3>2. s.shape = "instance" => item.basis # "unknown_plan_count"
      <4> HIDE DEF attrs, item
      <4> QED
        BY <3>1 DEF Quantity
    <3>3. ASSUME s.shape = "catalog", item.mark # <<>> PROVE IsSeq(item.mark) /\ Len(item.mark) = 1
      <4>1. row \in ToSet(t) /\ Len(CellAt(row, k)) = 1
        BY <2>2, <2>3, <3>3, SeqIs
      <4>2. s.key \in DOMAIN by /\ by[s.key] \in DOMAIN row /\ item.mark = row[by[s.key]]
        BY <3>1, <3>3
      <4>3. item.mark = CellAt(row, k) /\ k \in DOMAIN row
        BY <4>2 DEF CellAt
      <4>4. IsRow(row)
        BY <2>1, <4>1 DEF IsTable
      <4> HIDE DEF item, row, k
      <4>5. IsSeq(row[k])
        BY <4>3, <4>4, SeqIs DEF IsRow
      <4> QED
        BY <4>1, <4>3, <4>5 DEF CellAt
    <3>4. DOMAIN item = {"schedule", "page", "quantity", "basis", "mark"}
      BY DEF BuildItem
    <3> HIDE DEF item, attrs, row
    <3>5. IsOf(item, s, p)
      BY <3>1, <3>2, <3>3, <3>4 DEF IsOf
    <3> QED
      BY <3>5 DEF item
  <2>6. \A item \in ToSet(read) : IsOf(item, s, p)
    <3>1. DOMAIN read = DOMAIN rows
      OBVIOUS
    <3> HIDE DEF read
    <3> QED
      BY <2>5, <3>1 DEF ToSet
  <2>7. Of(tables[i]) = read \/ Of(tables[i]) = <<>>
    BY DEF t, by, rows
  <2> HIDE DEF read, Of
  <2> QED
    BY <2>4, <2>6, <2>7, EmptyIsSeq
<1>2. IsSeq(segs) /\ \A i \in DOMAIN segs : IsSeq(segs[i])
  <2>1. Len(tables) \in Nat /\ DOMAIN tables = 1 .. Len(tables)
    BY SeqIs
  <2>2. segs = [i \in 1 .. Len(tables) |-> segs[i]] /\ DOMAIN segs = DOMAIN tables
    BY <2>1
  <2>3. \A i \in DOMAIN segs : segs[i] = Of(tables[i])
    OBVIOUS
  <2> HIDE DEF segs, Of
  <2> QED
    BY <1>1, <2>1, <2>2, <2>3, SeqFrom
<1>3. ParsePage(tables, s, p) = FlattenSeq(segs)
  BY DEF ParsePage
<1>4. \A i \in DOMAIN segs : \A item \in ToSet(segs[i]) : IsOf(item, s, p)
  <2>1. \A i \in DOMAIN segs : i \in DOMAIN tables /\ segs[i] = Of(tables[i])
    OBVIOUS
  <2> HIDE DEF segs, Of
  <2> QED
    BY <1>1, <2>1
<1> HIDE DEF segs
<1>5. IsSeq(FlattenSeq(segs)) /\ ToSet(FlattenSeq(segs)) = UNION {ToSet(segs[i]) : i \in DOMAIN segs}
  BY <1>2, FlattenWhole
<1> QED
  BY <1>3, <1>4, <1>5

-----------------------------------------------------------------------------
(***************************************************************************)
(* Which label gives which room its area                                   *)
(***************************************************************************)

\* Of the members of a nonempty set, the first by one rank and then by another.
LEMMA LeastOf ==
  ASSUME NEW C, C # {}, NEW d \in [C -> Nat], NEW e \in [C -> Nat]
  PROVE  \E x \in C : \A y \in C : d[x] < d[y] \/ (d[x] = d[y] /\ e[x] <= e[y])
<1>1. PICK u \in {d[x] : x \in C} : \A v \in {d[x] : x \in C} : u <= v
  <2>1. {d[x] : x \in C} \subseteq Nat /\ {d[x] : x \in C} # {}
    OBVIOUS
  <2> QED
    BY <2>1, LeastNat
<1> DEFINE D == {x \in C : d[x] = u}
<1>2. PICK v \in {e[x] : x \in D} : \A w \in {e[x] : x \in D} : v <= w
  <2>1. {e[x] : x \in D} \subseteq Nat /\ {e[x] : x \in D} # {}
    BY <1>1
  <2> HIDE DEF D
  <2> QED
    BY <2>1, LeastNat
<1>3. PICK x \in D : e[x] = v
  BY <1>2
<1>4. ASSUME NEW y \in C PROVE d[x] < d[y] \/ (d[x] = d[y] /\ e[x] <= e[y])
  <2>1. d[x] = u /\ u <= d[y] /\ u \in Nat /\ d[y] \in Nat
    BY <1>1, <1>3
  <2>2. CASE d[y] = u
    <3>1. v <= e[y]
      BY <1>2, <2>2
    <3> QED
      BY <1>3, <2>1, <2>2, <3>1
  <2>3. CASE d[y] # u
    BY <2>1, <2>3
  <2> QED
    BY <2>2, <2>3
<1> QED
  BY <1>3, <1>4

\* The words of a sheet, each with a position.
IsWords(ws) == IsSeq(ws) /\ \A i \in DOMAIN ws : ws[i].at \in Int

\* A distance is a natural number, and the words have numbers.
LEMMA DistIs ==
  ASSUME NEW ws, IsWords(ws)
  PROVE  /\ DOMAIN ws \subseteq Nat
         /\ \A i, j \in DOMAIN ws : Dist(ws, i, j) \in Nat /\ Dist(ws, i, j) = Dist(ws, j, i)
<1>1. DOMAIN ws \subseteq Nat
  BY SeqIs DEF IsWords
<1>2. ASSUME NEW i \in DOMAIN ws, NEW j \in DOMAIN ws
      PROVE  Dist(ws, i, j) \in Nat /\ Dist(ws, i, j) = Dist(ws, j, i)
  BY DEF Dist, IsWords
<1> QED
  BY <1>1, <1>2

\* There is a nearest candidate.
LEMMA NearestIs ==
  ASSUME NEW ws, IsWords(ws), NEW C, C # {}, C \subseteq DOMAIN ws, NEW i \in DOMAIN ws
  PROVE  Nearest(ws, C, i) \in C /\ \A q \in C : Dist(ws, i, Nearest(ws, C, i)) <= Dist(ws, i, q)
<1> DEFINE Is(r) == \A q \in C : Dist(ws, i, r) < Dist(ws, i, q)
                                  \/ (Dist(ws, i, r) = Dist(ws, i, q) /\ r <= q)
           d == [r \in C |-> Dist(ws, i, r)]
           e == [r \in C |-> r]
<1>1. d \in [C -> Nat] /\ e \in [C -> Nat]
  BY DistIs
<1>2. \E r \in C : Is(r)
  <2>1. \E r \in C : \A q \in C : d[r] < d[q] \/ (d[r] = d[q] /\ e[r] <= e[q])
    <3> HIDE DEF d, e
    <3> QED
      BY <1>1, LeastOf
  <2> QED
    BY <2>1
<1>3. Nearest(ws, C, i) \in C /\ Is(Nearest(ws, C, i))
  <2> DEFINE n == CHOOSE r \in C : Is(r)
  <2>1. n \in C /\ Is(n)
    <3> HIDE DEF Is
    <3> QED
      BY <1>2, Zenon
  <2>2. n = Nearest(ws, C, i)
    BY Zenon DEF Nearest
  <2> HIDE DEF n, Is
  <2> QED
    BY <2>1, <2>2
<1> DEFINE n == Nearest(ws, C, i)
<1>4. ASSUME NEW q \in C PROVE Dist(ws, i, n) <= Dist(ws, i, q)
  <2>1. Dist(ws, i, n) \in Nat /\ Dist(ws, i, q) \in Nat
    <3> HIDE DEF n
    <3> QED
      BY <1>3, DistIs DEF n
  <2> QED
    BY <1>3, <2>1
<1> QED
  BY <1>3, <1>4

\* A binding has an eligible label and a token that it owns; an eligible label
\* that owns a token is bound to one.
LEMMA BindingsAre ==
  ASSUME NEW ws, IsWords(ws)
  PROVE  /\ \A b \in Bindings(ws) :
              /\ b[1] \in Eligible(ws) /\ b[2] \in RoomTokens(ws) /\ Owns(ws, b[1], b[2])
              /\ \A o \in Bindings(ws) : o[1] = b[1] => o = b
         /\ \A l \in Eligible(ws), r \in RoomTokens(ws) : Owns(ws, l, r) =>
              \E b \in Bindings(ws) : b[1] = l /\ Dist(ws, l, b[2]) = Dist(ws, l, r)
<1> DEFINE InReach(l) == {r \in RoomTokens(ws) : Dist(ws, l, r) <= MaxDist}
           bound == {l \in SfLabels(ws) : SquareFeet(ws[l].w) <= MaxSF /\ InReach(l) # {}}
           near(l) == Nearest(ws, InReach(l), l)
<1>1. Bindings(ws) = {<<l, near(l)>> : l \in bound}
  BY DEF Bindings
<1>2. bound = {l \in Eligible(ws) : InReach(l) # {}}
  BY DEF Eligible
<1>3. Eligible(ws) \subseteq DOMAIN ws /\ RoomTokens(ws) \subseteq DOMAIN ws
  BY DEF Eligible, SfLabels, RoomTokens
<1>4. \A l \in Eligible(ws), q \in RoomTokens(ws) : Dist(ws, l, q) \in Nat
  BY <1>3, DistIs
<1>5. ASSUME NEW l \in bound
      PROVE  /\ l \in Eligible(ws) /\ near(l) \in RoomTokens(ws) /\ Owns(ws, l, near(l))
  <2> DEFINE R == InReach(l)
  <2>1. l \in Eligible(ws) /\ R # {} /\ R \subseteq RoomTokens(ws)
    BY <1>2
  <2>2. near(l) \in R /\ \A q \in R : Dist(ws, l, near(l)) <= Dist(ws, l, q)
    <3>1. R \subseteq DOMAIN ws /\ l \in DOMAIN ws
      BY <1>3, <2>1
    <3> HIDE DEF R
    <3>2. Nearest(ws, R, l) \in R /\ \A q \in R : Dist(ws, l, Nearest(ws, R, l)) <= Dist(ws, l, q)
      BY <2>1, <3>1, NearestIs
    <3> QED
      BY <3>2 DEF R
  <2>3. near(l) \in RoomTokens(ws) /\ Dist(ws, l, near(l)) <= MaxDist
    <3> HIDE DEF near
    <3> QED
      BY <2>2
  <2>4. ASSUME NEW q \in RoomTokens(ws) PROVE Dist(ws, l, near(l)) <= Dist(ws, l, q)
    <3> HIDE DEF near
    <3>1. Dist(ws, l, near(l)) \in Nat /\ Dist(ws, l, q) \in Nat
      BY <1>4, <2>1, <2>3
    <3>2. CASE q \in R
      BY <2>2, <3>2
    <3>3. CASE q \notin R
      BY <2>3, <3>1, <3>3, DistanceAssumption
    <3> QED
      BY <3>2, <3>3
  <2> HIDE DEF near
  <2> QED
    BY <2>1, <2>3, <2>4 DEF Owns
<1>6. ASSUME NEW l \in Eligible(ws), NEW r \in RoomTokens(ws), Owns(ws, l, r)
      PROVE  \E b \in Bindings(ws) : b[1] = l /\ Dist(ws, l, b[2]) = Dist(ws, l, r)
  <2>1. l \in bound
    BY <1>2, <1>6 DEF Owns
  <2>2. Dist(ws, l, near(l)) <= Dist(ws, l, r) /\ Dist(ws, l, r) <= Dist(ws, l, near(l))
    <3> HIDE DEF near, bound
    <3> QED
      BY <1>5, <1>6, <2>1 DEF Owns
  <2>3. Dist(ws, l, near(l)) \in Nat /\ Dist(ws, l, r) \in Nat
    <3> HIDE DEF near, bound
    <3> QED
      BY <1>4, <1>5, <2>1
  <2>4. Dist(ws, l, near(l)) = Dist(ws, l, r)
    <3> HIDE DEF near
    <3> QED
      BY <2>2, <2>3
  <2> HIDE DEF near, bound
  <2>5. <<l, near(l)>> \in Bindings(ws)
    BY <1>1, <2>1
  <2> QED
    BY <2>4, <2>5
<1> HIDE DEF near, bound
<1>7. ASSUME NEW b \in Bindings(ws)
      PROVE  /\ b[1] \in Eligible(ws) /\ b[2] \in RoomTokens(ws) /\ Owns(ws, b[1], b[2])
             /\ \A o \in Bindings(ws) : o[1] = b[1] => o = b
  <2>1. PICK l \in bound : b = <<l, near(l)>>
    BY <1>1
  <2>2. \A o \in Bindings(ws) : o = <<o[1], near(o[1])>>
    BY <1>1
  <2> QED
    BY <1>5, <2>1, <2>2
<1> QED
  BY <1>6, <1>7

\* An area of a plan is that of a label that owns a token of its room, at least
\* as near as any that owns only that room; there is one for a room, and one
\* for every room that a label owns only.
LEMMA JoinedAre ==
  ASSUME NEW ws, IsWords(ws), NEW p
  PROVE  /\ \A a \in JoinAreas(ws, p) :
              /\ a.page = p
              /\ \E l \in Eligible(ws), r \in RoomTokens(ws) :
                   /\ ws[r].w = a.room /\ SquareFeet(ws[l].w) = a.sf /\ Owns(ws, l, r)
                   /\ \A m \in Eligible(ws), q \in RoomTokens(ws) :
                        ws[q].w = a.room /\ Only(ws, m, q) => Dist(ws, l, r) <= Dist(ws, m, q)
              /\ \A o \in JoinAreas(ws, p) : o.room = a.room => o = a
         /\ \A l \in Eligible(ws), r \in RoomTokens(ws) :
              Only(ws, l, r) => \E a \in JoinAreas(ws, p) : a.room = ws[r].w
<1> DEFINE B == Bindings(ws)
           D(b) == Dist(ws, b[1], b[2])
           Closer(a, b) == D(a) < D(b) \/ (D(a) = D(b) /\ a[1] <= b[1])
           won == {b \in B : \A o \in B : ws[o[2]].w = ws[b[2]].w => Closer(b, o)}
           areaOf(b) == [room |-> ws[b[2]].w, sf |-> SquareFeet(ws[b[1]].w), page |-> p]
<1>1. JoinAreas(ws, p) = {areaOf(b) : b \in won}
  BY DEF JoinAreas
<1>2. Eligible(ws) \subseteq DOMAIN ws /\ RoomTokens(ws) \subseteq DOMAIN ws
  BY DEF Eligible, SfLabels, RoomTokens
<1>3. \A b \in B : /\ b[1] \in Eligible(ws) /\ b[2] \in RoomTokens(ws) /\ Owns(ws, b[1], b[2])
                   /\ \A o \in B : o[1] = b[1] => o = b
  BY BindingsAre
<1>4. \A l \in Eligible(ws), r \in RoomTokens(ws) : Owns(ws, l, r) =>
        \E b \in B : b[1] = l /\ Dist(ws, l, b[2]) = Dist(ws, l, r)
  BY BindingsAre
<1> HIDE DEF B
<1>5. \A b \in B : D(b) \in Nat /\ b[1] \in Nat
  BY <1>2, <1>3, DistIs
<1>6. won \subseteq B
  OBVIOUS
<1>7. ASSUME NEW l \in Eligible(ws), NEW r \in RoomTokens(ws), Only(ws, l, r)
      PROVE  \E b \in B : b[1] = l /\ D(b) = Dist(ws, l, r) /\ ws[b[2]].w = ws[r].w
  <2>1. PICK b \in B : b[1] = l /\ Dist(ws, l, b[2]) = Dist(ws, l, r)
    BY <1>4, <1>7 DEF Only
  <2>2. ws[b[2]].w = ws[r].w
    BY <1>3, <1>7, <2>1 DEF Only
  <2> QED
    BY <2>1, <2>2
<1>8. ASSUME NEW a \in JoinAreas(ws, p)
      PROVE  /\ a.page = p
             /\ \E l \in Eligible(ws), r \in RoomTokens(ws) :
                  /\ ws[r].w = a.room /\ SquareFeet(ws[l].w) = a.sf /\ Owns(ws, l, r)
                  /\ \A m \in Eligible(ws), q \in RoomTokens(ws) :
                       ws[q].w = a.room /\ Only(ws, m, q) => Dist(ws, l, r) <= Dist(ws, m, q)
             /\ \A o \in JoinAreas(ws, p) : o.room = a.room => o = a
  <2>1. PICK b \in won : a = areaOf(b)
    BY <1>1
  <2>2. /\ a.page = p /\ a.room = ws[b[2]].w /\ a.sf = SquareFeet(ws[b[1]].w)
        /\ b[1] \in Eligible(ws) /\ b[2] \in RoomTokens(ws) /\ Owns(ws, b[1], b[2])
    <3> HIDE DEF won
    <3> QED
      BY <1>3, <1>6, <2>1
  <2>3. ASSUME NEW m \in Eligible(ws), NEW q \in RoomTokens(ws), ws[q].w = a.room, Only(ws, m, q)
        PROVE  Dist(ws, b[1], b[2]) <= Dist(ws, m, q)
    <3>1. PICK o \in B : o[1] = m /\ D(o) = Dist(ws, m, q) /\ ws[o[2]].w = ws[q].w
      BY <1>7, <2>3
    <3>2. Closer(b, o)
      BY <2>2, <2>3, <3>1
    <3>3. b \in B
      BY <1>6
    <3> HIDE DEF won
    <3> QED
      BY <1>5, <3>1, <3>2, <3>3
  <2>4. ASSUME NEW o \in JoinAreas(ws, p), o.room = a.room PROVE o = a
    <3>1. PICK c \in won : o = areaOf(c)
      BY <1>1
    <3>2. ws[c[2]].w = ws[b[2]].w
      BY <2>1, <2>4, <3>1
    <3>3. Closer(b, c) /\ Closer(c, b) /\ b \in B /\ c \in B
      BY <3>2
    <3>4. b[1] = c[1]
      <4> HIDE DEF won
      <4> QED
        BY <1>5, <3>3
    <3>5. b = c
      BY <1>3, <3>3, <3>4
    <3> QED
      BY <2>1, <3>1, <3>5
  <2> HIDE DEF won
  <2> QED
    BY <2>2, <2>3, <2>4
<1>9. ASSUME NEW l \in Eligible(ws), NEW r \in RoomTokens(ws), Only(ws, l, r)
      PROVE  \E a \in JoinAreas(ws, p) : a.room = ws[r].w
  <2> DEFINE C == {b \in B : ws[b[2]].w = ws[r].w}
             d == [b \in C |-> D(b)]
             e == [b \in C |-> b[1]]
  <2>1. C # {}
    BY <1>7, <1>9
  <2>2. d \in [C -> Nat] /\ e \in [C -> Nat]
    BY <1>5
  <2>3. \E x \in C : \A y \in C : d[x] < d[y] \/ (d[x] = d[y] /\ e[x] <= e[y])
    <3> HIDE DEF C, d, e
    <3> QED
      BY <2>1, <2>2, LeastOf
  <2>4. PICK x \in C : \A y \in C : Closer(x, y)
    BY <2>3
  <2>5. x \in won
    BY <2>4
  <2>6. areaOf(x) \in JoinAreas(ws, p)
    <3> HIDE DEF won, areaOf
    <3> QED
      BY <1>1, <2>5
  <2>7. areaOf(x).room = ws[r].w
    BY <2>4
  <2> HIDE DEF areaOf
  <2> QED
    BY <2>6, <2>7
<1> QED
  BY <1>8, <1>9

-----------------------------------------------------------------------------
(***************************************************************************)
(* The invariant of the extraction                                         *)
(***************************************************************************)

\* Where the driver is.
PlaceInv ==
  /\ doc \in Documents
  /\ IsSeq(items) /\ IsSeq(failures) /\ IsSeq(counts)
  /\ catalog \in DOMAIN CountedCatalogs
  /\ pass \in {"text", "tables", "words", "areas", "count", "verify", "flip", "done",
              "raised", "aborted"}
  /\ pass \in {"text", "tables", "words", "areas", "count"} => at \in DOMAIN doc
  /\ pass = "verify" => at \in DOMAIN counts

\* The pages that the first two passes and the harvest are through with.
TextRead   == {p \in DOMAIN doc : pass # "raised" /\ (pass = "text" => p < at)}
TablesRead == {p \in DOMAIN doc : pass \notin {"text", "raised"} /\ (pass = "tables" => p < at)}
Harvested  == {p \in DOMAIN doc : /\ pass \notin {"text", "tables", "words", "raised"}
                                  /\ pass = "areas" => p < at}

Noted(p) == {k \in DOMAIN failures : failures[k].page = p}
Lost(p)  == {q \in DOMAIN memo : q[1] = p /\ ~memo[q]}

\* The ledger and the memo agree, pull by pull, and no text was not asked for.
LedgerInv ==
  /\ IsFiniteSet(DOMAIN memo) /\ memo \in [DOMAIN memo -> BOOLEAN]
  /\ \A p \in DOMAIN doc : Cardinality(Noted(p)) = Cardinality(Lost(p))
  /\ \A q \in DOMAIN memo : ~memo[q] => InLedger(q[1])
  /\ \A p \in TextRead : <<p, "text">> \in DOMAIN memo

\* The items are those of the pages read, as they are listed there until the
\* counts are put in.
ItemsInv ==
  /\ \A i, j \in DOMAIN items : i # j => ~Same(items[i], items[j])
  /\ \A i \in ToSet(items) :
       /\ i.page \in TablesRead /\ i.mark # <<>>
       /\ \E l \in Listed(i.page) : Same(i, l)
       /\ pass # "done" => i \in Listed(i.page)
  /\ \A p \in TablesRead : \A l \in Listed(p) :
       \/ l.mark = <<>> \/ InLedger(p)
       \/ \E i \in ToSet(items) : Same(i, l) /\ i.page <= p

\* What AreasAreMutual says of an area and of a plan.
IsJoined(ws, a) ==
  \E l \in Eligible(ws), r \in RoomTokens(ws) :
    /\ ws[r].w = a.room /\ SquareFeet(ws[l].w) = a.sf /\ Owns(ws, l, r)
    /\ \A m \in Eligible(ws), q \in RoomTokens(ws) :
         ws[q].w = a.room /\ Only(ws, m, q) => Dist(ws, l, r) <= Dist(ws, m, q)
GivesAll(ws, p) ==
  \A l \in Eligible(ws), r \in RoomTokens(ws) :
    Only(ws, l, r) => \E a \in roomAreas : a.room = ws[r].w /\ a.page <= p

\* The areas are those of the pages harvested, one for a room.
AreasInv ==
  /\ \A a \in roomAreas :
       /\ a.page \in Harvested /\ IsJoined(doc[a.page].words, a)
       /\ \A o \in roomAreas : o.room = a.room => o = a
  /\ \A p \in Harvested :
       Got(p, "words") /\ IsAreaPlan(doc[p].words) => GivesAll(doc[p].words, p)

\* A count is that of a tag of a catalog on a sheet that is not its schedule.
IsCount(c) ==
  /\ c.page \in DOMAIN doc
  /\ c.count = Cardinality({i \in DOMAIN doc[c.page].words : doc[c.page].words[i].w = c.symbol})
  /\ c.count > 0 /\ c.count \in Nat
  /\ \E k \in ToSet(CountedCatalogs) :
       /\ \E i \in ToSet(items) : i.schedule = k /\ i.mark = <<c.symbol>>
       /\ \A i \in ToSet(items) : i.schedule = k => i.page # c.page

CountsInv ==
  /\ counts # <<>> => pass \in {"count", "verify", "flip", "done", "aborted"}
  /\ \A c \in ToSet(counts) : IsCount(c)

\* What the quantity of an item rests on once the counts are put in.
IsCounted(i) ==
  LET sheets == {c \in ToSet(counts) : i.mark = <<c.symbol>>}
  IN  \/ /\ i.basis = "plan_count"
         /\ sheets # {} /\ \A c \in sheets : c.verified /\ c.count <= i.quantity
         /\ \E c \in sheets : c.count = i.quantity
      \/ /\ i \in Listed(i.page)
         /\ i.basis = "unknown_plan_count" => sheets = {} \/ \E c \in sheets : ~c.verified

QuantityInv == pass = "done" => \A i \in ToSet(items) : IsCounted(i)

ExtractionInv == PlaceInv /\ LedgerInv /\ ItemsInv /\ AreasInv /\ CountsInv /\ QuantityInv

-----------------------------------------------------------------------------
(***************************************************************************)
(* The drawings and what they list                                         *)
(***************************************************************************)

\* What the assumption on the drawings says of those that are open.
LEMMA DocIs ==
  ASSUME doc \in Documents
  PROVE  /\ IsSeq(doc) /\ doc # <<>> /\ DOMAIN doc = 1 .. PageCount /\ PageCount \in Nat \ {0}
         /\ \A p \in DOMAIN doc :
              /\ IsWords(doc[p].words)
              /\ IsSeq(doc[p].tables) /\ \A t \in ToSet(doc[p].tables) : IsTable(t)
<1>1. /\ IsSeq(doc) /\ doc # <<>>
      /\ \A p \in DOMAIN doc :
           /\ IsSeq(doc[p].words) /\ \A i \in DOMAIN doc[p].words : doc[p].words[i].at \in Int
           /\ IsSeq(doc[p].tables)
           /\ \A t \in ToSet(doc[p].tables) :
                IsSeq(t) /\ \A row \in ToSet(t) : IsSeq(row) /\ \A cell \in ToSet(row) : IsSeq(cell)
  BY DocumentsAssumption
<1>2. DOMAIN doc = 1 .. Len(doc) /\ Len(doc) \in Nat
  BY <1>1, SeqIs
<1>3. Len(doc) # 0
  <2>1. doc \in Seq(ToSet(doc))
    BY <1>1 DEF IsSeq
  <2> QED
    BY <1>1, <2>1, EmptySeq
<1> QED
  BY <1>1, <1>2, <1>3 DEF IsWords, IsTable, IsRow, PageCount

\* What is listed on a page names a schema of the registry and the page.
LEMMA ListedAre ==
  ASSUME doc \in Documents, NEW p \in DOMAIN doc, NEW l \in Listed(p)
  PROVE  \E s \in ToSet(SCHEDULE_REGISTRY) : IsOf(l, s, p)
<1>1. PICK s \in Matched(p) : l \in ToSet(ParsePage(doc[p].tables, s, p))
  BY DEF Listed
<1>2. s \in ToSet(SCHEDULE_REGISTRY)
  BY DEF Matched
<1>3. IsOf(l, s, p)
  BY <1>1, DocIs, ParsedAre
<1> QED
  BY <1>2, <1>3

\* The items found on a page are those listed there.
LEMMA OnPageIs ==
  ASSUME doc \in Documents, NEW p \in DOMAIN doc
  PROVE  IsSeq(OnPage(p)) /\ ToSet(OnPage(p)) = Listed(p)
<1> DEFINE part(s) == IF s \in Matched(p) THEN ParsePage(doc[p].tables, s, p) ELSE <<>>
           segs == [i \in DOMAIN SCHEDULE_REGISTRY |-> part(SCHEDULE_REGISTRY[i])]
<1>1. IsSeq(SCHEDULE_REGISTRY)
  BY SchemasAssumption
<1>2. \A s : IsSeq(part(s))
  BY DocIs, ParsedAre, EmptyIsSeq
<1>3. /\ DOMAIN segs = DOMAIN SCHEDULE_REGISTRY
      /\ \A i \in DOMAIN SCHEDULE_REGISTRY : segs[i] = part(SCHEDULE_REGISTRY[i])
  OBVIOUS
<1>4. IsSeq(segs)
  <2>1. Len(SCHEDULE_REGISTRY) \in Nat /\ DOMAIN SCHEDULE_REGISTRY = 1 .. Len(SCHEDULE_REGISTRY)
    BY <1>1, SeqIs
  <2>2. segs = [i \in 1 .. Len(SCHEDULE_REGISTRY) |-> segs[i]]
    BY <2>1
  <2> HIDE DEF segs
  <2> QED
    BY <2>1, <2>2, SeqFrom
<1>5. OnPage(p) = FlattenSeq(segs)
  BY DEF OnPage
<1> HIDE DEF segs
<1>6. IsSeq(FlattenSeq(segs)) /\ ToSet(FlattenSeq(segs)) = UNION {ToSet(segs[i]) : i \in DOMAIN segs}
  <2>1. \A i \in DOMAIN segs : IsSeq(segs[i])
    <3> HIDE DEF part
    <3> QED
      BY <1>2, <1>3
  <2> QED
    BY <1>4, <2>1, FlattenWhole
<1>7. UNION {ToSet(segs[i]) : i \in DOMAIN segs} = Listed(p)
  <2>1. ASSUME NEW i \in DOMAIN segs PROVE ToSet(segs[i]) \subseteq Listed(p)
    BY <1>3, EmptyIsSeq DEF Listed
  <2>2. ASSUME NEW s \in Matched(p), NEW x \in ToSet(ParsePage(doc[p].tables, s, p))
        PROVE  \E i \in DOMAIN segs : x \in ToSet(segs[i])
    <3>1. PICK i \in DOMAIN SCHEDULE_REGISTRY : s = SCHEDULE_REGISTRY[i]
      BY DEF Matched, ToSet
    <3>2. segs[i] = ParsePage(doc[p].tables, s, p)
      BY <1>3, <3>1
    <3> QED
      BY <1>3, <2>2, <3>1, <3>2
  <2> QED
    BY <2>1, <2>2 DEF Listed
<1> QED
  BY <1>5, <1>6, <1>7

\* Nothing about the drawings changes while they are open.
LEMMA SameDoc ==
  ASSUME doc' = doc
  PROVE  /\ \A p : Listed(p)' = Listed(p)
         /\ PageCount' = PageCount
<1>1. ASSUME NEW p PROVE Listed(p)' = Listed(p)
  BY DEF Listed, Matched
<1> QED
  BY <1>1 DEF PageCount

-----------------------------------------------------------------------------
(***************************************************************************)
(* The memo and the ledger                                                 *)
(***************************************************************************)

\* A pull adds what it produced to the memo, and when it failed for the first
\* time one entry to the ledger.
LEMMA PullStep ==
  ASSUME PlaceInv, IsFiniteSet(DOMAIN memo), memo \in [DOMAIN memo -> BOOLEAN],
         \A p \in DOMAIN doc : Cardinality(Noted(p)) = Cardinality(Lost(p)),
         \A q \in DOMAIN memo : ~memo[q] => InLedger(q[1]),
         NEW n \in DOMAIN doc, NEW pull, NEW ok \in BOOLEAN, Pull(n, pull, ok), doc' = doc
  PROVE  /\ IsSeq(failures)'
         /\ DOMAIN memo' = DOMAIN memo \cup {<<n, pull>>} /\ memo'[<<n, pull>>] = ok
         /\ \A q \in DOMAIN memo : memo'[q] = memo[q]
         /\ \A p : InLedger(p) => InLedger(p)'
         /\ IsFiniteSet(DOMAIN memo') /\ memo' \in [DOMAIN memo' -> BOOLEAN]
         /\ \A p \in DOMAIN doc : Cardinality(Noted(p)') = Cardinality(Lost(p)')
         /\ \A q \in DOMAIN memo' : ~memo'[q] => InLedger(q[1])'
<1> DEFINE new == <<n, pull>>
<1>0. IsSeq(failures)
  BY DEF PlaceInv
<1>1. CASE new \in DOMAIN memo
  <2>1. ok = memo[new] /\ memo' = memo /\ failures' = failures
    BY <1>1 DEF Pull
  <2>2. DOMAIN memo' = DOMAIN memo \cup {new}
    BY <1>1, <2>1
  <2>3. \A p : InLedger(p) <=> InLedger(p)'
    BY <2>1 DEF InLedger
  <2>4. \A p \in DOMAIN doc : Noted(p)' = Noted(p) /\ Lost(p)' = Lost(p)
    BY <2>1 DEF Noted, Lost
  <2> HIDE DEF new
  <2> QED
    BY <1>0, <2>1, <2>2, <2>3, <2>4 DEF new
<1>2. CASE new \notin DOMAIN memo
  <2>1. /\ memo' = [q \in DOMAIN memo \cup {new} |-> IF q = new THEN ok ELSE memo[q]]
        /\ failures' = IF ok THEN failures ELSE Append(failures, [page |-> n, op |-> Op(pull)])
    BY <1>2 DEF Pull
  <2> HIDE DEF new
  <2>2. /\ DOMAIN memo' = DOMAIN memo \cup {new} /\ memo'[new] = ok
        /\ \A q \in DOMAIN memo : memo'[q] = memo[q]
    BY <1>2, <2>1
  <2>3. IsFiniteSet(DOMAIN memo') /\ memo' \in [DOMAIN memo' -> BOOLEAN]
    <3>1. IsFiniteSet(DOMAIN memo \cup {new})
      BY FS_AddElement
    <3> QED
      BY <2>1, <2>2, <3>1
  <2>4. new[1] = n
    BY DEF new
  <2>5. CASE ok
    <3>1. failures' = failures
      BY <2>1, <2>5
    <3>2. \A p : InLedger(p) <=> InLedger(p)'
      BY <3>1 DEF InLedger
    <3>3. \A p \in DOMAIN doc : Noted(p)' = Noted(p) /\ Lost(p)' = Lost(p)
      BY <2>2, <2>5, <3>1 DEF Noted, Lost
    <3>4. \A q \in DOMAIN memo' : ~memo'[q] => InLedger(q[1])'
      BY <2>2, <2>5, <3>2
    <3>5. \A p \in DOMAIN doc : Cardinality(Noted(p)') = Cardinality(Lost(p)')
      BY <3>3
    <3> QED
      BY <1>0, <2>2, <2>3, <3>1, <3>2, <3>4, <3>5 DEF new
  <2>6. CASE ~ok
    <3> DEFINE note == [page |-> n, op |-> Op(pull)]
               len == Len(failures)
    <3>0. note.page = n
      OBVIOUS
    <3> HIDE DEF note
    <3>1. failures' = Append(failures, note)
      BY <2>1, <2>6 DEF note
    <3>2. /\ IsSeq(failures)' /\ len \in Nat /\ DOMAIN failures = 1 .. len /\ DOMAIN failures' = 1 .. len + 1
          /\ failures'[len + 1] = note /\ \A k \in 1 .. len : failures'[k] = failures[k]
      <4> DEFINE S == ToSet(failures) \cup {note}
      <4>1. failures \in Seq(S) /\ note \in S
        BY <1>0, SeqIs, SeqDef DEF IsSeq
      <4> HIDE DEF S
      <4>2. /\ Append(failures, note) \in Seq(S) /\ Len(Append(failures, note)) = len + 1
            /\ Append(failures, note)[len + 1] = note
            /\ \A k \in 1 .. len : Append(failures, note)[k] = failures[k]
        BY <4>1, AppendProperties
      <4>3. IsSeq(Append(failures, note))
        BY <4>2, SeqOver
      <4>4. DOMAIN Append(failures, note) = 1 .. len + 1 /\ len \in Nat /\ DOMAIN failures = 1 .. len
        BY <1>0, <4>2, <4>3, SeqIs
      <4> QED
        BY <3>1, <4>2, <4>3, <4>4 DEF IsSeq
    <3> HIDE DEF len
    <3>3. \A p : InLedger(p) => InLedger(p)'
      <4> SUFFICES ASSUME NEW p, InLedger(p) PROVE InLedger(p)'
        OBVIOUS
      <4>1. PICK k \in DOMAIN failures : failures[k].page = p
        BY DEF InLedger, ToSet
      <4>2. k \in DOMAIN failures' /\ failures'[k].page = p
        BY <3>2, <4>1
      <4> QED
        BY <4>2 DEF InLedger, ToSet
    <3>4. InLedger(n)'
      <4>1. len + 1 \in DOMAIN failures' /\ failures'[len + 1].page = n
        BY <3>0, <3>2
      <4> QED
        BY <4>1 DEF InLedger, ToSet
    <3>5. \A q \in DOMAIN memo' : ~memo'[q] => InLedger(q[1])'
      BY <2>2, <2>4, <3>3, <3>4
    <3>6. ASSUME NEW p \in DOMAIN doc PROVE Cardinality(Noted(p)') = Cardinality(Lost(p)')
      <4>1. CASE p # n
        <5>1. Noted(p)' = Noted(p)
          BY <3>0, <3>2, <4>1 DEF Noted
        <5>2. Lost(p)' = Lost(p)
          BY <1>2, <2>2, <2>4, <4>1 DEF Lost
        <5> QED
          BY <5>1, <5>2
      <4>2. CASE p = n
        <5>1. Noted(p)' = Noted(p) \cup {len + 1} /\ len + 1 \notin Noted(p)
          BY <3>0, <3>2, <4>2 DEF Noted
        <5>2. Lost(p)' = Lost(p) \cup {new} /\ new \notin Lost(p)
          BY <1>2, <2>2, <2>4, <2>6, <4>2 DEF Lost
        <5>3. IsFiniteSet(Noted(p))
          <6>1. Noted(p) \subseteq 1 .. len
            BY <3>2 DEF Noted
          <6>2. IsFiniteSet(1 .. len)
            BY <3>2, FS_Interval
          <6> QED
            BY <6>1, <6>2, FS_Subset
        <5>4. IsFiniteSet(Lost(p))
          BY FS_Subset DEF Lost
        <5>5. Cardinality(Noted(p) \cup {len + 1}) = Cardinality(Noted(p)) + 1
          BY <5>1, <5>3, FS_AddElement
        <5>6. Cardinality(Lost(p) \cup {new}) = Cardinality(Lost(p)) + 1
          BY <5>2, <5>4, FS_AddElement
        <5> QED
          BY <5>1, <5>2, <5>5, <5>6
      <4> QED
        BY <4>1, <4>2
    <3> QED
      BY <2>2, <2>3, <3>2, <3>3, <3>5, <3>6 DEF new
  <2> QED
    BY <2>5, <2>6
<1> QED
  BY <1>1, <1>2

-----------------------------------------------------------------------------
(***************************************************************************)
(* What a step leaves alone                                                *)
(***************************************************************************)

\* The words on a plan that are rooms depend on the rooms alone.
LEMMA SameRooms ==
  ASSUME KnownRooms' = KnownRooms
  PROVE  /\ \A ws : RoomTokens(ws)' = RoomTokens(ws)
         /\ \A ws : IsAreaPlan(ws)' <=> IsAreaPlan(ws)
         /\ \A ws, l, r : (Owns(ws, l, r)' <=> Owns(ws, l, r)) /\ (Only(ws, l, r)' <=> Only(ws, l, r))
         /\ \A ws, a : IsJoined(ws, a)' <=> IsJoined(ws, a)
<1>1. ASSUME NEW ws PROVE RoomTokens(ws)' = RoomTokens(ws)
  BY DEF RoomTokens
<1>2. ASSUME NEW ws PROVE IsAreaPlan(ws)' <=> IsAreaPlan(ws)
  BY <1>1 DEF IsAreaPlan, SfLabels
<1>3. ASSUME NEW ws, NEW l, NEW r PROVE Owns(ws, l, r)' <=> Owns(ws, l, r)
  BY <1>1 DEF Owns, Dist
<1>4. ASSUME NEW ws, NEW l, NEW r PROVE Only(ws, l, r)' <=> Only(ws, l, r)
  BY <1>1, <1>3 DEF Only
<1>5. ASSUME NEW ws, NEW a PROVE IsJoined(ws, a)' <=> IsJoined(ws, a)
  BY <1>1, <1>3, <1>4 DEF IsJoined, Eligible, SfLabels, Dist
<1> QED
  BY <1>1, <1>2, <1>3, <1>4, <1>5

\* A step that pulls nothing leaves the ledger as it is.
LEMMA LedgerStays ==
  ASSUME LedgerInv, UNCHANGED <<doc, memo, failures>>, TextRead' \subseteq TextRead
  PROVE  LedgerInv'
<1>1. \A p : InLedger(p)' <=> InLedger(p)
  BY DEF InLedger
<1>2. \A p : Noted(p)' = Noted(p) /\ Lost(p)' = Lost(p)
  BY DEF Noted, Lost
<1>3. doc' = doc /\ memo' = memo
  OBVIOUS
<1> QED
  BY <1>1, <1>2, <1>3 DEF LedgerInv

\* The items stay those of the pages read while neither changes.
LEMMA ItemsStay ==
  ASSUME ItemsInv, doc' = doc, items' = items, TablesRead' = TablesRead,
         pass = "done" => pass' = "done", \A p : InLedger(p) => InLedger(p)'
  PROVE  ItemsInv'
<1>1. \A p : Listed(p)' = Listed(p)
  BY SameDoc
<1>2. \A i, j : Same(i, j)' <=> Same(i, j)
  BY DEF Same
<1>3. \A i \in ToSet(items) :
        /\ i.page \in TablesRead /\ i.mark # <<>>
        /\ \E l \in Listed(i.page) : Same(i, l)
        /\ pass' # "done" => i \in Listed(i.page)
  BY DEF ItemsInv
<1>4. \A p \in TablesRead : \A l \in Listed(p) :
        \/ l.mark = <<>> \/ InLedger(p)'
        \/ \E i \in ToSet(items) : Same(i, l) /\ i.page <= p
  BY DEF ItemsInv
<1>5. \A i, j \in DOMAIN items : i # j => ~Same(items[i], items[j])
  BY DEF ItemsInv
<1> QED
  BY <1>1, <1>2, <1>3, <1>4, <1>5 DEF ItemsInv

\* The areas stay those of the pages harvested while neither changes.
LEMMA AreasStay ==
  ASSUME AreasInv, doc' = doc, KnownRooms' = KnownRooms, roomAreas' = roomAreas,
         Harvested' = Harvested, \A p \in Harvested : Got(p, "words")' => Got(p, "words")
  PROVE  AreasInv'
<1>1. /\ \A ws : RoomTokens(ws)' = RoomTokens(ws)
      /\ \A ws : IsAreaPlan(ws)' <=> IsAreaPlan(ws)
      /\ \A ws, l, r : Only(ws, l, r)' <=> Only(ws, l, r)
      /\ \A ws, a : IsJoined(ws, a)' <=> IsJoined(ws, a)
  BY SameRooms
<1>2. \A ws, p : GivesAll(ws, p)' <=> GivesAll(ws, p)
  <2> SUFFICES ASSUME NEW ws, NEW p PROVE GivesAll(ws, p)' <=> GivesAll(ws, p)
    OBVIOUS
  <2> QED
    BY <1>1 DEF GivesAll, Eligible, SfLabels
<1> QED
  BY <1>1, <1>2 DEF AreasInv

\* A count depends on the drawings and on the marks of the items.
LEMMA CountIs ==
  ASSUME doc' = doc,
         \A i \in ToSet(items) : \E j \in ToSet(items') :
           j.schedule = i.schedule /\ j.mark = i.mark /\ j.page = i.page,
         \A j \in ToSet(items') : \E i \in ToSet(items) :
           j.schedule = i.schedule /\ j.mark = i.mark /\ j.page = i.page,
         NEW c, IsCount(c)
  PROVE  IsCount(c)'
<1>1. PICK k \in ToSet(CountedCatalogs) :
        /\ \E i \in ToSet(items) : i.schedule = k /\ i.mark = <<c.symbol>>
        /\ \A i \in ToSet(items) : i.schedule = k => i.page # c.page
  BY DEF IsCount
<1>2. \E i \in ToSet(items') : i.schedule = k /\ i.mark = <<c.symbol>>
  BY <1>1
<1>3. \A i \in ToSet(items') : i.schedule = k => i.page # c.page
  BY <1>1
<1> QED
  BY <1>1, <1>2, <1>3 DEF IsCount

\* The counts stay counts of the same items.
LEMMA CountsStay ==
  ASSUME CountsInv, doc' = doc, items' = items, counts' = counts,
         counts # <<>> => pass' \in {"count", "verify", "flip", "done", "aborted"}
  PROVE  CountsInv'
<1>1. \A c \in ToSet(counts) : IsCount(c)'
  <2> SUFFICES ASSUME NEW c \in ToSet(counts) PROVE IsCount(c)'
    OBVIOUS
  <2>1. IsCount(c)
    BY DEF CountsInv
  <2> QED
    BY <2>1, CountIs
<1> QED
  BY <1>1 DEF CountsInv

-----------------------------------------------------------------------------
(***************************************************************************)
(* The passes over the pages                                               *)
(***************************************************************************)

\* A pass is through with one page more, and the last one ends it.
LEMMA TurnIs ==
  ASSUME PlaceInv, doc' = doc, NEW next,
         pass \in {"text", "tables", "words", "areas", "count"}, Turn(next),
         CASE pass = "text" -> next = "tables" [] pass = "tables" -> next = "words"
           [] pass = "words" -> next = "areas" [] pass = "areas" -> next = "count"
           [] OTHER -> next \in {"flip", "verify"}
  PROVE  /\ pass' = pass \/ pass' = next
         /\ pass' \in {"text", "tables", "words", "areas", "count"} => at' \in DOMAIN doc
         /\ pass' = "verify" => at' = 1
         /\ TextRead' = IF pass = "text" THEN TextRead \cup {at} ELSE TextRead
         /\ TablesRead' = IF pass = "tables" THEN TablesRead \cup {at} ELSE TablesRead
         /\ Harvested' = IF pass = "areas" THEN Harvested \cup {at} ELSE Harvested
         /\ at \in DOMAIN doc
<1>1. DOMAIN doc = 1 .. PageCount /\ PageCount \in Nat \ {0} /\ at \in DOMAIN doc
  BY DocIs DEF PlaceInv
<1>2. CASE at < PageCount
  <2>1. pass' = pass /\ at' = at + 1 /\ at + 1 \in DOMAIN doc
    BY <1>1, <1>2 DEF Turn
  <2>2. \A p \in DOMAIN doc : p < at + 1 <=> (p < at \/ p = at)
    BY <1>1
  <2>3. pass # "verify"
    OBVIOUS
  <2>4. TextRead' = IF pass = "text" THEN TextRead \cup {at} ELSE TextRead
    BY <1>1, <2>1, <2>2 DEF TextRead
  <2>5. TablesRead' = IF pass = "tables" THEN TablesRead \cup {at} ELSE TablesRead
    BY <1>1, <2>1, <2>2 DEF TablesRead
  <2>6. Harvested' = IF pass = "areas" THEN Harvested \cup {at} ELSE Harvested
    BY <1>1, <2>1, <2>2 DEF Harvested
  <2> QED
    BY <1>1, <2>1, <2>3, <2>4, <2>5, <2>6
<1>3. CASE ~(at < PageCount)
  <2>1. pass' = next /\ at' = 1 /\ 1 \in DOMAIN doc
    BY <1>1, <1>3 DEF Turn
  <2>2. \A p \in DOMAIN doc : ~(p < 1) /\ (p < at \/ p = at)
    BY <1>1, <1>3
  <2>3. next # "done" /\ next # "raised"
    OBVIOUS
  <2>4. TextRead' = IF pass = "text" THEN TextRead \cup {at} ELSE TextRead
    BY <1>1, <2>1, <2>2 DEF TextRead
  <2>5. TablesRead' = IF pass = "tables" THEN TablesRead \cup {at} ELSE TablesRead
    BY <1>1, <2>1, <2>2 DEF TablesRead
  <2>6. Harvested' = IF pass = "areas" THEN Harvested \cup {at} ELSE Harvested
    BY <1>1, <2>1, <2>2 DEF Harvested
  <2> QED
    BY <1>1, <2>1, <2>4, <2>5, <2>6
<1> QED
  BY <1>2, <1>3

\* Before the tables are read there are no items, and before the harvest no areas.
LEMMA NoneYet ==
  ASSUME ExtractionInv
  PROVE  /\ pass \in {"text", "raised"} => ToSet(items) = {} /\ TablesRead = {}
         /\ pass \in {"text", "tables", "words", "raised"} =>
              roomAreas = {} /\ Harvested = {} /\ counts = <<>>
         /\ pass = "areas" => counts = <<>>
<1>1. pass \in {"text", "raised"} => TablesRead = {}
  BY SMT DEF ExtractionInv, PlaceInv, TablesRead
<1>2. pass \in {"text", "tables", "words", "raised"} => Harvested = {}
  BY DEF Harvested
<1> QED
  BY <1>1, <1>2 DEF ExtractionInv, ItemsInv, AreasInv, CountsInv

\* Asking for the text of a page notes in the ledger when there is none.
LEMMA ReadTextStep == ExtractionInv /\ ReadText => ExtractionInv'
<1> SUFFICES ASSUME ExtractionInv, ReadText PROVE ExtractionInv'
  OBVIOUS
<1>1. /\ pass = "text" /\ UNCHANGED <<doc, catalog, items, roomAreas, counts>>
      /\ doc' = doc /\ items' = items /\ counts' = counts /\ roomAreas' = roomAreas /\ catalog' = catalog
  BY DEF ReadText
<1>2. PlaceInv /\ LedgerInv /\ ItemsInv /\ AreasInv /\ CountsInv
  BY DEF ExtractionInv
<1>3. /\ ToSet(items) = {} /\ TablesRead = {} /\ roomAreas = {} /\ Harvested = {} /\ counts = <<>>
  BY <1>1, NoneYet
<1>4. DOMAIN doc = 1 .. PageCount /\ at \in DOMAIN doc /\ DOMAIN doc' = DOMAIN doc
  BY <1>1, <1>2, DocIs DEF PlaceInv
<1>5. CASE doc[at].loads
  <2>1. PICK ok \in BOOLEAN : Pull(at, "text", ok)
    BY <1>5 DEF ReadText
  <2>2. /\ pass' = pass \/ pass' = "tables"
        /\ at' \in DOMAIN doc /\ TextRead' = TextRead \cup {at}
        /\ TablesRead' = TablesRead /\ Harvested' = Harvested
    <3>1. Turn("tables")
      BY <1>5 DEF ReadText
    <3> QED
      BY <1>1, <1>2, <3>1, TurnIs
  <2>3. /\ IsSeq(failures)'
        /\ DOMAIN memo' = DOMAIN memo \cup {<<at, "text">>}
        /\ \A p : InLedger(p) => InLedger(p)'
        /\ IsFiniteSet(DOMAIN memo') /\ memo' \in [DOMAIN memo' -> BOOLEAN]
        /\ \A p \in DOMAIN doc : Cardinality(Noted(p)') = Cardinality(Lost(p)')
        /\ \A q \in DOMAIN memo' : ~memo'[q] => InLedger(q[1])'
    BY <1>1, <1>2, <1>4, <2>1, PullStep DEF LedgerInv
  <2>4. PlaceInv'
    BY <1>1, <1>2, <1>3, <1>4, <2>2, <2>3 DEF PlaceInv, IsSeq
  <2>5. LedgerInv'
    BY <1>1, <1>2, <2>2, <2>3 DEF LedgerInv
  <2>6. ItemsInv'
    BY <1>1, <1>2, <2>2, <2>3, ItemsStay
  <2>7. AreasInv'
    BY <1>1, <1>3, <2>2 DEF AreasInv
  <2>8. CountsInv' /\ QuantityInv'
    BY <1>1, <1>2, <1>3, <2>2, EmptyIsSeq DEF CountsInv, QuantityInv
  <2> QED
    BY <2>4, <2>5, <2>6, <2>7, <2>8 DEF ExtractionInv
<1>6. CASE ~doc[at].loads
  <2>1. pass' = "raised" /\ UNCHANGED <<at, memo, failures>>
    BY <1>6 DEF ReadText
  <2>2. TextRead' = {} /\ TablesRead' = {} /\ Harvested' = {}
    BY <2>1 DEF TextRead, TablesRead, Harvested
  <2>3. PlaceInv'
    BY <1>1, <1>2, <2>1 DEF PlaceInv, IsSeq
  <2>4. LedgerInv'
    BY <1>1, <1>2, <2>1, <2>2, LedgerStays
  <2>5. ItemsInv'
    <3>1. \A p : InLedger(p) => InLedger(p)'
      BY <2>1 DEF InLedger
    <3> QED
      BY <1>1, <1>2, <1>3, <2>1, <2>2, <3>1, ItemsStay
  <2>6. AreasInv'
    BY <1>1, <1>3, <2>2 DEF AreasInv
  <2>7. CountsInv' /\ QuantityInv'
    BY <1>1, <1>2, <1>3, <2>1, EmptyIsSeq DEF CountsInv, QuantityInv
  <2> QED
    BY <2>3, <2>4, <2>5, <2>6, <2>7 DEF ExtractionInv
<1> QED
  BY <1>5, <1>6

\* Of what is found, the first with a mark and a key that no item has.
LEMMA FreshIs ==
  ASSUME NEW found, IsSeq(found)
  PROVE  /\ IsSeq(Fresh(found))
         /\ \A x \in ToSet(Fresh(found)) : x \in ToSet(found) /\ x.mark # <<>> /\ \A o \in ToSet(items) : ~Same(o, x)
         /\ \A i, j \in DOMAIN Fresh(found) : i # j => ~Same(Fresh(found)[i], Fresh(found)[j])
         /\ \A x \in ToSet(found) :
              x.mark = <<>> \/ \E o \in ToSet(items) \cup ToSet(Fresh(found)) : Same(o, x)
<1> DEFINE P == {n \in DOMAIN found :
                   /\ found[n].mark # <<>>
                   /\ \A o \in ToSet(items) : Key(o) # Key(found[n])
                   /\ \A m \in 1 .. n - 1 : Key(found[m]) # Key(found[n])}
           out == Fresh(found)
<1>1. out = Chosen(found, P)
  BY DEF Fresh
<1>2. P \subseteq DOMAIN found
  OBVIOUS
<1>3. \A x, y : Key(x) = Key(y) <=> Same(x, y)
  BY DEF Key, Same
<1>4. DOMAIN found = 1 .. Len(found) /\ Len(found) \in Nat
  BY SeqIs
<1>5. /\ IsSeq(out) /\ ToSet(out) = {found[i] : i \in P}
      /\ \A m, n \in DOMAIN out : m < n => \E i, j \in P : i < j /\ out[m] = found[i] /\ out[n] = found[j]
  <2> HIDE DEF P, out
  <2> QED
    BY <1>1, <1>2, ChosenIs
<1>6. ASSUME NEW x \in ToSet(out) PROVE x \in ToSet(found) /\ x.mark # <<>> /\ \A o \in ToSet(items) : ~Same(o, x)
  <2> HIDE DEF out
  <2>1. PICK i \in P : x = found[i]
    BY <1>5
  <2> QED
    BY <1>3, <2>1 DEF ToSet
<1>7. ASSUME NEW m \in DOMAIN out, NEW n \in DOMAIN out, m < n PROVE ~Same(out[m], out[n])
  <2> HIDE DEF out
  <2>1. PICK i, j \in P : i < j /\ out[m] = found[i] /\ out[n] = found[j]
    BY <1>5, <1>7
  <2>2. i \in 1 .. j - 1
    BY <1>2, <1>4, <2>1
  <2>3. Key(found[i]) # Key(found[j])
    BY <2>2
  <2> HIDE DEF P
  <2> QED
    BY <1>3, <2>1, <2>3
<1>8. ASSUME NEW m \in DOMAIN out, NEW n \in DOMAIN out, m # n PROVE ~Same(out[m], out[n])
  <2> HIDE DEF P, out
  <2>1. m < n \/ n < m
    <3>1. DOMAIN out = 1 .. Len(out) /\ Len(out) \in Nat
      BY <1>5, SeqIs
    <3> QED
      BY <1>8, <3>1
  <2>2. CASE m < n
    BY <1>7, <2>2
  <2>3. CASE n < m
    <3>1. ~Same(out[n], out[m])
      BY <1>7, <2>3
    <3> QED
      BY <3>1 DEF Same
  <2> QED
    BY <2>1, <2>2, <2>3
<1>9. ASSUME NEW x \in ToSet(found), x.mark # <<>>
      PROVE  \E o \in ToSet(items) \cup ToSet(out) : Same(o, x)
  <2> DEFINE N == {m \in DOMAIN found : Key(found[m]) = Key(x)}
  <2>1. N # {} /\ N \subseteq Nat
    BY <1>4 DEF ToSet
  <2>2. PICK n \in N : \A m \in N : n <= m
    <3> HIDE DEF N
    <3> QED
      BY <2>1, LeastNat
  <2>3. found[n].mark # <<>> /\ Same(found[n], x) /\ n \in DOMAIN found /\ n \in Nat
    BY <1>3, <1>4, <1>9, <2>2 DEF Same
  <2>4. ASSUME NEW m \in 1 .. n - 1 PROVE Key(found[m]) # Key(found[n])
    <3>1. m \in DOMAIN found /\ ~(n <= m)
      BY <1>4, <2>3
    <3> QED
      BY <2>2, <3>1
  <2>5. CASE \A o \in ToSet(items) : Key(o) # Key(found[n])
    <3>1. n \in P
      BY <2>3, <2>4, <2>5
    <3> HIDE DEF P, out
    <3> QED
      BY <1>5, <2>3, <3>1
  <2>6. CASE \E o \in ToSet(items) : Key(o) = Key(found[n])
    <3>1. PICK o \in ToSet(items) : Key(o) = Key(found[n])
      BY <2>6
    <3>2. Same(o, found[n])
      BY <1>3, <3>1
    <3> HIDE DEF N, out
    <3> QED
      BY <2>3, <3>1, <3>2 DEF Same
  <2> QED
    BY <2>5, <2>6
<1> HIDE DEF out
<1> QED
  BY <1>5, <1>6, <1>8, <1>9 DEF out

\* The items of one more page join those of the pages before it.
LEMMA ItemsGrow ==
  ASSUME PlaceInv, ItemsInv, doc' = doc, pass # "done", pass' # "done", at \in DOMAIN doc,
         \A p \in TablesRead : p < at,
         items' = items \o Fresh(OnPage(at)), TablesRead' = TablesRead \cup {at},
         \A p : InLedger(p) => InLedger(p)'
  PROVE  IsSeq(items)' /\ ItemsInv'
<1> DEFINE fresh == Fresh(OnPage(at))
           len == Len(items)
<1>1. doc \in Documents /\ IsSeq(items)
  BY DEF PlaceInv
<1>2. IsSeq(OnPage(at)) /\ ToSet(OnPage(at)) = Listed(at)
  BY <1>1, OnPageIs
<1>3. /\ IsSeq(fresh)
      /\ \A x \in ToSet(fresh) : x \in Listed(at) /\ x.mark # <<>> /\ \A o \in ToSet(items) : ~Same(o, x)
      /\ \A i, j \in DOMAIN fresh : i # j => ~Same(fresh[i], fresh[j])
      /\ \A x \in Listed(at) : x.mark = <<>> \/ \E o \in ToSet(items) \cup ToSet(fresh) : Same(o, x)
  BY <1>2, FreshIs
<1> HIDE DEF fresh
<1>4. /\ IsSeq(items') /\ ToSet(items') = ToSet(items) \cup ToSet(fresh)
      /\ Len(items') = len + Len(fresh)
      /\ \A i \in 1 .. len + Len(fresh) : items'[i] = IF i <= len THEN items[i] ELSE fresh[i - len]
  <2>1. items' = items \o fresh
    BY DEF fresh
  <2> QED
    BY <1>1, <1>3, <2>1, ConcatIs
<1>5. /\ len \in Nat /\ Len(fresh) \in Nat /\ DOMAIN items = 1 .. len /\ DOMAIN fresh = 1 .. Len(fresh)
      /\ DOMAIN items' = 1 .. len + Len(fresh)
  BY <1>1, <1>3, <1>4, SeqIs
<1> HIDE DEF len
<1>6. \A p : Listed(p)' = Listed(p)
  BY SameDoc
<1>7. \A i, j : Same(i, j) => Same(j, i)
  BY DEF Same
<1>8. ASSUME NEW i \in DOMAIN items', NEW j \in DOMAIN items', i < j PROVE ~Same(items'[i], items'[j])
  <2>1. CASE j <= len
    <3>1. i \in DOMAIN items /\ j \in DOMAIN items /\ i # j /\ items'[i] = items[i] /\ items'[j] = items[j]
      BY <1>4, <1>5, <1>8, <2>1
    <3> QED
      BY <3>1 DEF ItemsInv
  <2>2. CASE i <= len /\ ~(j <= len)
    <3>1. i \in DOMAIN items /\ j - len \in DOMAIN fresh /\ items'[i] = items[i] /\ items'[j] = fresh[j - len]
      BY <1>4, <1>5, <2>2
    <3>2. items[i] \in ToSet(items) /\ fresh[j - len] \in ToSet(fresh)
      BY <3>1 DEF ToSet
    <3> QED
      BY <1>3, <3>1, <3>2
  <2>3. CASE ~(i <= len)
    <3>1. i \in 1 .. len + Len(fresh) /\ j \in 1 .. len + Len(fresh) /\ ~(i <= len) /\ ~(j <= len)
      BY <1>5, <1>8, <2>3
    <3>2. items'[i] = fresh[i - len] /\ items'[j] = fresh[j - len]
      BY <1>4, <3>1
    <3>3. i - len \in 1 .. Len(fresh) /\ j - len \in 1 .. Len(fresh) /\ i - len # j - len
      BY <1>5, <1>8, <3>1
    <3> QED
      BY <1>3, <1>5, <3>2, <3>3
  <2> QED
    BY <1>5, <2>1, <2>2, <2>3
<1>9. ASSUME NEW i \in DOMAIN items', NEW j \in DOMAIN items', i # j PROVE ~Same(items'[i], items'[j])
  <2>1. i < j \/ j < i
    BY <1>5, <1>9
  <2> QED
    BY <1>7, <1>8, <2>1
<1>10. \A x \in ToSet(fresh) : x \in Listed(at) /\ x.page = at
  <2> SUFFICES ASSUME NEW x \in ToSet(fresh) PROVE x \in Listed(at) /\ x.page = at
    OBVIOUS
  <2>1. x \in Listed(at)
    BY <1>3
  <2> QED
    BY <1>1, <2>1, ListedAre DEF IsOf
<1>11. ASSUME NEW i \in ToSet(items')
       PROVE  /\ i.page \in TablesRead \cup {at} /\ i.mark # <<>> /\ i \in Listed(i.page) /\ i.page <= at
              /\ \E l \in Listed(i.page) : Same(i, l)
  <2>0. at \in Nat /\ \A p \in TablesRead : p \in Nat
    BY <1>1, DocIs DEF TablesRead
  <2>1. CASE i \in ToSet(items)
    BY <2>0, <2>1 DEF ItemsInv
  <2>2. CASE i \in ToSet(fresh)
    BY <1>3, <1>10, <2>0, <2>2 DEF Same
  <2> QED
    BY <1>4, <2>1, <2>2
<1>12. ASSUME NEW p \in TablesRead \cup {at}, NEW l \in Listed(p)
       PROVE  \/ l.mark = <<>> \/ InLedger(p)'
              \/ \E i \in ToSet(items') : Same(i, l) /\ i.page <= p
  <2>1. CASE p \in TablesRead
    <3>1. \/ l.mark = <<>> \/ InLedger(p)
          \/ \E i \in ToSet(items) : Same(i, l) /\ i.page <= p
      BY <2>1 DEF ItemsInv
    <3> QED
      BY <1>4, <3>1
  <2>2. CASE p = at
    BY <1>3, <1>4, <1>11, <2>2
  <2> QED
    BY <2>1, <2>2
<1>13. \A i, j : Same(i, j)' <=> Same(i, j)
  BY DEF Same
<1>14. ItemsInv'
  BY <1>6, <1>9, <1>11, <1>12, <1>13 DEF ItemsInv
<1> QED
  BY <1>4, <1>14 DEF IsSeq

\* A page without items that are missed needs none.
LEMMA ItemsPass ==
  ASSUME ItemsInv, doc' = doc, pass # "done", pass' # "done", items' = items,
         NEW n, TablesRead' = TablesRead \cup {n}, Listed(n) = {} \/ InLedger(n)',
         \A p : InLedger(p) => InLedger(p)'
  PROVE  ItemsInv'
<1>1. \A p : Listed(p)' = Listed(p)
  BY SameDoc
<1>2. \A i, j : Same(i, j)' <=> Same(i, j)
  BY DEF Same
<1>3. \A i \in ToSet(items) :
        /\ i.page \in TablesRead \cup {n} /\ i.mark # <<>>
        /\ \E l \in Listed(i.page) : Same(i, l)
        /\ i \in Listed(i.page)
  <2> SUFFICES ASSUME NEW i \in ToSet(items)
               PROVE  /\ i.page \in TablesRead \cup {n} /\ i.mark # <<>>
                      /\ \E l \in Listed(i.page) : Same(i, l)
                      /\ i \in Listed(i.page)
    OBVIOUS
  <2>1. /\ i.page \in TablesRead /\ i.mark # <<>>
        /\ \E l \in Listed(i.page) : Same(i, l)
        /\ pass # "done" => i \in Listed(i.page)
    BY DEF ItemsInv
  <2> QED
    BY <2>1
<1>4. \A p \in TablesRead \cup {n} : \A l \in Listed(p) :
        \/ l.mark = <<>> \/ InLedger(p)'
        \/ \E i \in ToSet(items) : Same(i, l) /\ i.page <= p
  <2>1. \A p \in TablesRead : \A l \in Listed(p) :
          \/ l.mark = <<>> \/ InLedger(p)
          \/ \E i \in ToSet(items) : Same(i, l) /\ i.page <= p
    BY DEF ItemsInv
  <2> QED
    BY <2>1
<1>5. \A i, j \in DOMAIN items : i # j => ~Same(items[i], items[j])
  BY DEF ItemsInv
<1> QED
  BY <1>1, <1>2, <1>3, <1>4, <1>5 DEF ItemsInv

\* Reading the tables of a page adds what is first listed there, or is noted.
LEMMA ReadTablesStep == ExtractionInv /\ ReadTables => ExtractionInv'
<1> SUFFICES ASSUME ExtractionInv, ReadTables PROVE ExtractionInv'
  OBVIOUS
<1>1. /\ pass = "tables" /\ Turn("words") /\ doc' = doc /\ catalog' = catalog
      /\ roomAreas' = roomAreas /\ counts' = counts
  BY DEF ReadTables
<1>2. PlaceInv /\ LedgerInv /\ ItemsInv /\ AreasInv /\ CountsInv
  BY DEF ExtractionInv
<1>3. roomAreas = {} /\ Harvested = {} /\ counts = <<>>
  BY <1>1, NoneYet
<1>4. /\ pass' = pass \/ pass' = "words"
      /\ at' \in DOMAIN doc /\ TextRead' = TextRead
      /\ TablesRead' = TablesRead \cup {at} /\ Harvested' = Harvested /\ at \in DOMAIN doc
  BY <1>1, <1>2, TurnIs
<1>5. /\ TextRead = DOMAIN doc /\ \A p \in TablesRead : p < at
  BY <1>1 DEF TextRead, TablesRead
<1>6. AreasInv' /\ CountsInv' /\ QuantityInv'
  <2>1. AreasInv'
    BY <1>1, <1>3, <1>4 DEF AreasInv
  <2>2. CountsInv'
    BY <1>1, <1>3, EmptyIsSeq DEF CountsInv
  <2>3. QuantityInv'
    BY <1>1, <1>4 DEF QuantityInv
  <2> QED
    BY <2>1, <2>2, <2>3
<1>7. IsSeq(items)' /\ IsSeq(failures)' => PlaceInv'
  BY <1>1, <1>2, <1>3, <1>4 DEF PlaceInv, IsSeq
<1>0. PICK n : n = at
  OBVIOUS
<1>8. CASE ~Got(at, "text") \/ Matched(at) = {}
  <2>1. UNCHANGED <<memo, failures, items>>
    BY <1>8 DEF ReadTables
  <2>2. \A p : InLedger(p) <=> InLedger(p)'
    BY <2>1 DEF InLedger
  <2>3. Listed(n) = {} \/ InLedger(n)'
    <3>1. CASE Matched(at) = {}
      BY <1>0, <3>1 DEF Listed
    <3>2. CASE ~Got(at, "text")
      <4>1. <<n, "text">> \in DOMAIN memo /\ ~memo[<<n, "text">>]
        BY <1>0, <1>2, <1>4, <1>5, <3>2 DEF LedgerInv, Got
      <4>2. InLedger(<<n, "text">>[1]) /\ <<n, "text">>[1] = n
        BY <1>2, <4>1 DEF LedgerInv
      <4> QED
        BY <2>2, <4>2
    <3> QED
      BY <1>8, <3>1, <3>2
  <2>4. ItemsInv'
    BY <1>0, <1>1, <1>2, <1>4, <2>1, <2>2, <2>3, ItemsPass
  <2>5. LedgerInv'
    BY <1>1, <1>2, <1>4, <2>1, LedgerStays
  <2>6. IsSeq(items)' /\ IsSeq(failures)'
    BY <1>2, <2>1 DEF PlaceInv, IsSeq
  <2> QED
    BY <1>6, <1>7, <2>4, <2>5, <2>6 DEF ExtractionInv
<1>9. CASE ~(~Got(at, "text") \/ Matched(at) = {})
  <2>1. PICK ok \in BOOLEAN : /\ Pull(at, "tables", ok)
                              /\ items' = IF ok THEN items \o Fresh(OnPage(at)) ELSE items
    BY <1>9 DEF ReadTables
  <2>2. /\ IsSeq(failures)'
        /\ DOMAIN memo' = DOMAIN memo \cup {<<at, "tables">>} /\ memo'[<<at, "tables">>] = ok
        /\ \A p : InLedger(p) => InLedger(p)'
        /\ IsFiniteSet(DOMAIN memo') /\ memo' \in [DOMAIN memo' -> BOOLEAN]
        /\ \A p \in DOMAIN doc : Cardinality(Noted(p)') = Cardinality(Lost(p)')
        /\ \A q \in DOMAIN memo' : ~memo'[q] => InLedger(q[1])'
    BY <1>1, <1>2, <1>4, <2>1, PullStep DEF LedgerInv
  <2>3. LedgerInv'
    BY <1>1, <1>2, <1>4, <2>2 DEF LedgerInv
  <2>4. IsSeq(items)' /\ ItemsInv'
    <3>1. CASE ok
      <4>1. items' = items \o Fresh(OnPage(at))
        BY <2>1, <3>1
      <4> QED
        BY <1>1, <1>2, <1>4, <1>5, <2>2, <4>1, ItemsGrow
    <3>2. CASE ~ok
      <4>1. items' = items
        BY <2>1, <3>2
      <4> DEFINE mine == <<n, "tables">>
      <4>2. mine \in DOMAIN memo' /\ ~memo'[mine] /\ mine[1] = n
        BY <1>0, <2>2, <3>2
      <4> HIDE DEF mine
      <4>3. InLedger(n)'
        BY <2>2, <4>2
      <4>4. IsSeq(items)'
        BY <1>2, <4>1 DEF PlaceInv, IsSeq
      <4> QED
        BY <1>0, <1>1, <1>2, <1>4, <2>2, <4>1, <4>3, <4>4, ItemsPass
    <3> QED
      BY <3>1, <3>2
  <2> QED
    BY <1>6, <1>7, <2>2, <2>3, <2>4 DEF ExtractionInv
<1> QED
  BY <1>8, <1>9

\* Asking for the words of a page notes in the ledger when there are none.
LEMMA ReadWordsStep == ExtractionInv /\ ReadWords => ExtractionInv'
<1> SUFFICES ASSUME ExtractionInv, ReadWords PROVE ExtractionInv'
  OBVIOUS
<1>1. /\ pass = "words" /\ Turn("areas") /\ doc' = doc /\ catalog' = catalog /\ items' = items
      /\ roomAreas' = roomAreas /\ counts' = counts
  BY DEF ReadWords
<1>2. PlaceInv /\ LedgerInv /\ ItemsInv /\ AreasInv /\ CountsInv
  BY DEF ExtractionInv
<1>3. roomAreas = {} /\ Harvested = {} /\ counts = <<>>
  BY <1>1, NoneYet
<1>4. /\ pass' = pass \/ pass' = "areas"
      /\ at' \in DOMAIN doc /\ TextRead' = TextRead
      /\ TablesRead' = TablesRead /\ Harvested' = Harvested /\ at \in DOMAIN doc
  BY <1>1, <1>2, TurnIs
<1>5. PICK ok \in BOOLEAN : Pull(at, "words", ok)
  BY DEF ReadWords
<1>6. /\ IsSeq(failures)' /\ DOMAIN memo' = DOMAIN memo \cup {<<at, "words">>}
      /\ \A p : InLedger(p) => InLedger(p)'
      /\ IsFiniteSet(DOMAIN memo') /\ memo' \in [DOMAIN memo' -> BOOLEAN]
      /\ \A p \in DOMAIN doc : Cardinality(Noted(p)') = Cardinality(Lost(p)')
      /\ \A q \in DOMAIN memo' : ~memo'[q] => InLedger(q[1])'
  BY <1>1, <1>2, <1>4, <1>5, PullStep DEF LedgerInv
<1>7. LedgerInv'
  BY <1>1, <1>2, <1>4, <1>6 DEF LedgerInv
<1>8. ItemsInv'
  BY <1>1, <1>2, <1>4, <1>6, ItemsStay
<1>9. AreasInv'
  BY <1>1, <1>3, <1>4 DEF AreasInv
<1>10. CountsInv' /\ QuantityInv'
  BY <1>1, <1>3, <1>4, EmptyIsSeq DEF CountsInv, QuantityInv
<1>11. PlaceInv'
  BY <1>1, <1>2, <1>3, <1>4, <1>6 DEF PlaceInv, IsSeq
<1> QED
  BY <1>7, <1>8, <1>9, <1>10, <1>11 DEF ExtractionInv

\* A plan without words gives no area.
LEMMA NoWords ==
  ASSUME NEW p
  PROVE  JoinAreas(<<>>, p) = {}
<1>1. IsWords(<<>>) /\ DOMAIN <<>> = {}
  BY EmptyIsSeq DEF IsWords
<1>2. Eligible(<<>>) = {}
  BY <1>1 DEF Eligible, SfLabels
<1> QED
  BY <1>1, <1>2, JoinedAre

\* What an area plan gives when the areas of its page have joined the others.
LEMMA GivesMore ==
  ASSUME KnownRooms' = KnownRooms, roomAreas \subseteq roomAreas', NEW ws, NEW p
  PROVE  GivesAll(ws, p) => GivesAll(ws, p)'
<1>1. /\ RoomTokens(ws)' = RoomTokens(ws)
      /\ \A l, r : Only(ws, l, r)' <=> Only(ws, l, r)
  BY SameRooms
<1>2. Eligible(ws)' = Eligible(ws)
  BY DEF Eligible, SfLabels
<1> QED
  BY <1>1, <1>2 DEF GivesAll

\* Harvesting a page gives the rooms of its plan that have no area yet theirs.
LEMMA HarvestStep == ExtractionInv /\ Harvest => ExtractionInv'
<1> SUFFICES ASSUME ExtractionInv, Harvest PROVE ExtractionInv'
  OBVIOUS
<1>1. /\ pass = "areas" /\ Turn("count") /\ UNCHANGED <<doc, memo, failures>>
      /\ doc' = doc /\ memo' = memo /\ failures' = failures
      /\ catalog' = catalog /\ items' = items /\ counts' = counts
  BY DEF Harvest
<1>2. PlaceInv /\ LedgerInv /\ ItemsInv /\ AreasInv /\ CountsInv
  BY DEF ExtractionInv
<1>3. counts = <<>>
  BY <1>1, NoneYet
<1>4. PICK n : n = at
  OBVIOUS
<1>5. /\ pass' = pass \/ pass' = "count"
      /\ at' \in DOMAIN doc /\ TextRead' = TextRead
      /\ TablesRead' = TablesRead /\ Harvested' = Harvested \cup {n} /\ n \in DOMAIN doc
  BY <1>1, <1>2, <1>4, TurnIs
<1>6. /\ n \in Nat /\ \A p \in Harvested : p \in Nat /\ p < n
      /\ IsWords(doc[n].words)
  BY <1>1, <1>2, <1>4, <1>5, DocIs DEF PlaceInv, Harvested
<1>7. KnownRooms' = KnownRooms
  BY <1>1 DEF KnownRooms
<1> DEFINE ws    == doc[n].words
           new   == IF IsAreaPlan(Words(n)) THEN JoinAreas(Words(n), n) ELSE {}
           added == {a \in new : \A o \in roomAreas : o.room # a.room}
<1>8. roomAreas' = roomAreas \cup added
  BY <1>4 DEF Harvest
<1>9. new = IF Got(n, "words") /\ IsAreaPlan(ws) THEN JoinAreas(ws, n) ELSE {}
  BY NoWords DEF Words
<1> HIDE DEF ws, new
<1>10. ASSUME NEW a \in new
       PROVE  a.page = n /\ IsJoined(doc[a.page].words, a) /\ \A o \in new : o.room = a.room => o = a
  <2>1. a \in JoinAreas(ws, n) /\ \A o \in new : o \in JoinAreas(ws, n)
    BY <1>9
  <2>2. a.page = n /\ \A o \in JoinAreas(ws, n) : o.room = a.room => o = a
    BY <1>6, <2>1, JoinedAre DEF ws
  <2>3. IsJoined(ws, a)
    BY <1>6, <2>1, JoinedAre DEF ws, IsJoined
  <2> QED
    BY <2>1, <2>2, <2>3 DEF ws
<1>11. ASSUME NEW a \in roomAreas'
       PROVE  /\ a.page \in Harvested \cup {n} /\ IsJoined(doc[a.page].words, a)
              /\ \A o \in roomAreas' : o.room = a.room => o = a
  <2>1. CASE a \in roomAreas
    <3>1. /\ a.page \in Harvested /\ IsJoined(doc[a.page].words, a)
          /\ \A o \in roomAreas : o.room = a.room => o = a
      BY <1>2, <2>1 DEF AreasInv
    <3>2. \A o \in added : o.room # a.room
      BY <2>1
    <3> QED
      BY <1>8, <3>1, <3>2
  <2>2. CASE a \in added
    <3>1. a \in new /\ \A o \in roomAreas : o.room # a.room
      BY <2>2
    <3>2. \A o \in added : o \in new
      OBVIOUS
    <3> QED
      BY <1>8, <1>10, <3>1, <3>2
  <2> QED
    BY <1>8, <2>1, <2>2
<1>12. ASSUME NEW p \in Harvested \cup {n}, Got(p, "words"), IsAreaPlan(doc[p].words)
       PROVE  GivesAll(doc[p].words, p)'
  <2> DEFINE own == doc[p].words
  <2>1. own' = own
    BY <1>1
  <2>2. PICK xs : xs = own
    OBVIOUS
  <2>3. CASE p \in Harvested
    <3>1. GivesAll(xs, p)
      BY <1>2, <1>12, <2>2, <2>3 DEF AreasInv
    <3>2. GivesAll(xs, p)'
      BY <1>7, <1>8, <3>1, GivesMore
    <3> QED
      BY <1>1, <2>2, <3>2
  <2>4. CASE p = n
    <3>1. new = JoinAreas(xs, n) /\ IsWords(xs)
      BY <1>6, <1>9, <1>12, <2>2, <2>4 DEF ws
    <3>2. ASSUME NEW l \in Eligible(xs), NEW r \in RoomTokens(xs), Only(xs, l, r)
          PROVE  \E a \in roomAreas' : a.room = xs[r].w /\ a.page <= n
      <4>1. PICK a \in new : a.room = xs[r].w
        BY <3>1, <3>2, JoinedAre
      <4>2. CASE a \in added
        BY <1>6, <1>8, <1>10, <4>1, <4>2
      <4>3. CASE a \notin added
        <5>1. PICK o \in roomAreas : o.room = a.room
          BY <4>3
        <5>2. o.page \in Harvested
          BY <1>2 DEF AreasInv
        <5> QED
          BY <1>6, <1>8, <4>1, <5>1, <5>2
      <4> QED
        BY <4>2, <4>3
    <3>3. /\ RoomTokens(xs)' = RoomTokens(xs) /\ Eligible(xs)' = Eligible(xs)
          /\ \A l, r : Only(xs, l, r)' <=> Only(xs, l, r)
      BY <1>7, SameRooms DEF Eligible, SfLabels
    <3>4. GivesAll(xs, p)'
      BY <2>4, <3>2, <3>3 DEF GivesAll
    <3> QED
      BY <1>1, <2>2, <3>4
  <2> QED
    BY <2>3, <2>4
<1>13. AreasInv'
  <2>1. /\ \A xs : IsAreaPlan(xs)' <=> IsAreaPlan(xs)
        /\ \A xs, a : IsJoined(xs, a)' <=> IsJoined(xs, a)
    BY <1>7, SameRooms
  <2>2. \A p : Got(p, "words")' <=> Got(p, "words")
    BY <1>1 DEF Got
  <2> QED
    BY <1>1, <1>5, <1>11, <1>12, <2>1, <2>2 DEF AreasInv
<1>14. PlaceInv'
  BY <1>1, <1>2, <1>5 DEF PlaceInv, IsSeq
<1>15. LedgerInv'
  BY <1>1, <1>2, <1>5, LedgerStays
<1>16. ItemsInv'
  <2>1. \A p : InLedger(p) => InLedger(p)'
    BY <1>1 DEF InLedger
  <2> QED
    BY <1>1, <1>2, <1>5, <2>1, ItemsStay
<1>17. CountsInv' /\ QuantityInv'
  BY <1>1, <1>3, <1>5, EmptyIsSeq DEF CountsInv, QuantityInv
<1> QED
  BY <1>13, <1>14, <1>15, <1>16, <1>17 DEF ExtractionInv

-----------------------------------------------------------------------------
(***************************************************************************)
(* The counts                                                              *)
(***************************************************************************)

\* A finite set is the entries of a sequence.
LEMMA SeqOfSet ==
  ASSUME NEW S, IsFiniteSet(S)
  PROVE  IsSeq(SetToSeq(S)) /\ ToSet(SetToSeq(S)) \subseteq S
<1> DEFINE n == Cardinality(S)
<1>1. n \in Nat /\ \E f \in [1 .. n -> S] : IsInjective(f)
  BY FS_CardinalityType DEF ExistsBijection, Bijection, Injection
<1>2. SetToSeq(S) \in [1 .. n -> S]
  BY <1>1 DEF SetToSeq
<1>3. SetToSeq(S) \in Seq(S)
  BY <1>1, <1>2, SeqDef
<1> QED
  BY <1>3, SeqOver

\* A sequence of one word is that word.
LEMMA OneWord ==
  ASSUME NEW s, IsSeq(s), Len(s) = 1
  PROVE  s = <<Word(s)>>
<1>1. DOMAIN s = {1} /\ s = [i \in {1} |-> s[i]]
  BY SeqIs
<1>2. <<s[1]>> = [i \in {1} |-> <<s[1]>>[i]] /\ <<s[1]>>[1] = s[1]
  BY SingleIsSeq, SeqIs
<1>3. s = <<s[1]>>
  BY <1>1, <1>2
<1> QED
  BY <1>3 DEF Word

\* A sequence that is not empty has a first entry.
LEMMA FirstOf ==
  ASSUME NEW s, IsSeq(s), s # <<>>
  PROVE  1 \in DOMAIN s
<1>1. s \in Seq(ToSet(s)) /\ Len(s) \in Nat /\ DOMAIN s = 1 .. Len(s)
  BY SeqIs DEF IsSeq
<1>2. Len(s) # 0
  BY <1>1, EmptySeq
<1> QED
  BY <1>1, <1>2

\* An item of a counted catalog has one word for its mark.
LEMMA CatalogMark ==
  ASSUME PlaceInv, ItemsInv, NEW i \in ToSet(items), i.schedule \in ToSet(CountedCatalogs),
         i \in Listed(i.page)
  PROVE  i.mark = <<Word(i.mark)>>
<1>1. i.page \in DOMAIN doc /\ i.mark # <<>>
  BY DEF ItemsInv, TablesRead
<1>2. PICK s \in ToSet(SCHEDULE_REGISTRY) : IsOf(i, s, i.page)
  BY <1>1, ListedAre DEF PlaceInv
<1>3. s.shape = "catalog"
  BY <1>2, SchemasAssumption DEF IsOf
<1>4. IsSeq(i.mark) /\ Len(i.mark) = 1
  BY <1>1, <1>2, <1>3 DEF IsOf
<1> QED
  BY <1>4, OneWord

\* What a sheet counts, it counts of the tags of the catalog under way.
LEMMA CountsOnAre ==
  ASSUME PlaceInv, ItemsInv, pass # "done", NEW n \in DOMAIN doc
  PROVE  IsFiniteSet(CountsOn(n)) /\ \A c \in CountsOn(n) : IsCount(c)
<1> DEFINE ws == Words(n)
           found(t) == {i \in DOMAIN ws : ws[i].w = t}
           count(t) == [symbol |-> t, page |-> n, count |-> Cardinality(found(t)),
                        confidence |-> 70, verified |-> FALSE]
           tags == TagTokens(ws)
<1>1. IsSeq(ws) /\ IsFiniteSet(DOMAIN ws)
  <2>1. IsSeq(doc[n].words)
    BY DocIs DEF PlaceInv, IsWords
  <2>2. IsSeq(ws)
    BY <2>1, EmptyIsSeq DEF Words
  <2> HIDE DEF ws
  <2>3. DOMAIN ws = 1 .. Len(ws) /\ Len(ws) \in Nat
    BY <2>2, SeqIs
  <2> QED
    BY <2>2, <2>3, FS_Interval
<1>2. CountsOn(n) = IF n \notin SchedulePages /\ IsInstancePlan(ws)
                    THEN {count(ws[i].w) : i \in tags} ELSE {}
  BY DEF CountsOn
<1>3. tags \subseteq DOMAIN ws /\ \A i \in tags : ws[i].w \in Tags
  BY DEF TagTokens
<1> HIDE DEF ws, tags
<1>4. IsFiniteSet({count(ws[i].w) : i \in tags})
  <2> DEFINE all == {count(ws[i].w) : i \in tags}
             f == [i \in tags |-> count(ws[i].w)]
  <2>1. IsFiniteSet(tags)
    BY <1>1, <1>3, FS_Subset
  <2>2. f \in Surjection(tags, all)
    <3> HIDE DEF count
    <3> QED
      BY DEF Surjection
  <2> HIDE DEF f, all
  <2>3. IsFiniteSet(all)
    BY <2>1, <2>2, FS_Surjection
  <2> QED
    BY <2>3 DEF all
<1>5. ASSUME NEW c \in CountsOn(n) PROVE IsCount(c)
  <2>1. n \notin SchedulePages
    BY <1>2
  <2>2. PICK i \in tags : c = count(ws[i].w)
    BY <1>2
  <2> DEFINE t == ws[i].w
             k == CountedCatalogs[catalog]
  <2>3. i \in found(t) /\ IsFiniteSet(found(t))
    <3>1. found(t) \subseteq DOMAIN ws
      OBVIOUS
    <3> QED
      BY <1>1, <1>3, <3>1, FS_Subset
  <2>4. Cardinality(found(t)) \in Nat /\ Cardinality(found(t)) > 0
    <3> HIDE DEF found, t
    <3> QED
      BY <2>3, FS_EmptySet, FS_CardinalityType
  <2>5. Got(n, "words") /\ ws = doc[n].words
    <3>1. DOMAIN ws # {}
      BY <1>3
    <3>2. ws # <<>>
      BY <3>1, EmptyIsSeq
    <3> QED
      BY <3>2 DEF ws, Words
  <2>6. c.symbol = t /\ c.page = n /\ c.count = Cardinality(found(t))
    BY <2>2
  <2>7. k \in ToSet(CountedCatalogs)
    BY DEF PlaceInv, ToSet
  <2>8. PICK x \in Cataloged : Word(x.mark) = t
    BY <1>3 DEF Tags
  <2>9. x \in ToSet(items) /\ x.schedule = k
    BY <2>8 DEF Cataloged
  <2>10. x.mark = <<t>>
    <3>1. x \in Listed(x.page)
      BY <2>9 DEF ItemsInv
    <3> HIDE DEF k, t
    <3> QED
      BY <2>7, <2>8, <2>9, <3>1, CatalogMark
  <2>11. \A o \in ToSet(items) : o.schedule = k => o.page # n
    BY <2>1 DEF SchedulePages, Cataloged
  <2>12. c.count = Cardinality({j \in DOMAIN doc[c.page].words : doc[c.page].words[j].w = c.symbol})
    BY <2>5, <2>6
  <2> HIDE DEF k, t, found
  <2>13. \E q \in ToSet(CountedCatalogs) :
          /\ \E o \in ToSet(items) : o.schedule = q /\ o.mark = <<c.symbol>>
          /\ \A o \in ToSet(items) : o.schedule = q => o.page # c.page
    BY <2>6, <2>7, <2>9, <2>10, <2>11
  <2> QED
    BY <2>4, <2>6, <2>12, <2>13 DEF IsCount
<1> QED
  BY <1>2, <1>4, <1>5, FS_EmptySet

\* Counting the catalog under way on a sheet adds counts of its tags.
LEMMA CountPageStep == ExtractionInv /\ CountPage => ExtractionInv'
<1> SUFFICES ASSUME ExtractionInv, CountPage PROVE ExtractionInv'
  OBVIOUS
<1>1. /\ pass = "count" /\ UNCHANGED <<doc, memo, failures>>
      /\ doc' = doc /\ memo' = memo /\ failures' = failures
      /\ items' = items /\ roomAreas' = roomAreas
      /\ counts' = counts \o SetToSeq(CountsOn(at))
  BY DEF CountPage
<1>2. PlaceInv /\ LedgerInv /\ ItemsInv /\ AreasInv /\ CountsInv
  BY DEF ExtractionInv
<1>3. at \in DOMAIN doc /\ DOMAIN doc = 1 .. PageCount /\ PageCount \in Nat \ {0}
  BY <1>1, <1>2, DocIs DEF PlaceInv
<1>4. /\ IsSeq(counts') /\ ToSet(counts') \subseteq ToSet(counts) \cup CountsOn(at)
      /\ \A c \in CountsOn(at) : IsCount(c)
  <2>1. IsFiniteSet(CountsOn(at)) /\ \A c \in CountsOn(at) : IsCount(c)
    BY <1>1, <1>2, <1>3, CountsOnAre
  <2>2. IsSeq(SetToSeq(CountsOn(at))) /\ ToSet(SetToSeq(CountsOn(at))) \subseteq CountsOn(at)
    BY <2>1, SeqOfSet
  <2>3. IsSeq(counts)
    BY <1>2 DEF PlaceInv
  <2> QED
    BY <1>1, <2>1, <2>2, <2>3, ConcatIs
<1>5. ASSUME NEW c \in ToSet(counts') PROVE IsCount(c)'
  <2>1. IsCount(c)
    BY <1>2, <1>4 DEF CountsInv
  <2> QED
    BY <1>1, <2>1, CountIs
<1>6. PICK next : next = IF counts' = <<>> THEN "flip" ELSE "verify"
  OBVIOUS
<1>7. /\ pass' = pass \/ pass' = next
      /\ pass' = "count" => at' \in DOMAIN doc
      /\ pass' = "verify" => at' = 1
      /\ TextRead' = TextRead /\ TablesRead' = TablesRead /\ Harvested' = Harvested
      /\ catalog' \in DOMAIN CountedCatalogs
  <2>1. catalog \in DOMAIN CountedCatalogs
    BY <1>2 DEF PlaceInv
  <2>2. CASE at < PageCount \/ catalog = Len(CountedCatalogs)
    <3>1. Turn(next) /\ catalog' = catalog
      BY <1>6, <2>2 DEF CountPage
    <3>2. next \in {"flip", "verify"}
      BY <1>6
    <3> QED
      BY <1>1, <1>2, <2>1, <3>1, <3>2, TurnIs
  <2>3. CASE ~(at < PageCount \/ catalog = Len(CountedCatalogs))
    <3>1. catalog' = catalog + 1 /\ at' = 1 /\ pass' = pass
      BY <2>3 DEF CountPage
    <3>2. catalog + 1 \in DOMAIN CountedCatalogs
      <4>1. DOMAIN CountedCatalogs = 1 .. Len(CountedCatalogs) /\ Len(CountedCatalogs) \in Nat
        BY CatalogsAssumption, SeqIs
      <4> QED
        BY <2>1, <2>3, <4>1
    <3>3. 1 \in DOMAIN doc
      BY <1>3
    <3>4. TextRead' = TextRead /\ TablesRead' = TablesRead /\ Harvested' = Harvested
      BY <1>1, <3>1 DEF TextRead, TablesRead, Harvested
    <3> QED
      BY <1>1, <3>1, <3>2, <3>3, <3>4
  <2> QED
    BY <2>2, <2>3
<1>8. PlaceInv'
  <2>1. pass' \in {"count", "flip", "verify"}
    BY <1>1, <1>6, <1>7
  <2>2. pass' = "verify" => at' \in DOMAIN counts'
    <3> SUFFICES ASSUME pass' = "verify" PROVE at' \in DOMAIN counts'
      OBVIOUS
    <3>1. counts' # <<>> /\ at' = 1
      BY <1>1, <1>6, <1>7
    <3> QED
      BY <1>4, <3>1, FirstOf
  <2> QED
    BY <1>1, <1>2, <1>4, <1>7, <2>1, <2>2 DEF PlaceInv, IsSeq
<1>9. LedgerInv'
  BY <1>1, <1>2, <1>7, LedgerStays
<1>10. ItemsInv'
  <2>1. \A p : InLedger(p) => InLedger(p)'
    BY <1>1 DEF InLedger
  <2> QED
    BY <1>1, <1>2, <1>7, <2>1, ItemsStay
<1>11. AreasInv'
  <2>1. KnownRooms' = KnownRooms
    BY <1>1 DEF KnownRooms
  <2>2. \A p \in Harvested : Got(p, "words")' => Got(p, "words")
    BY <1>1 DEF Got
  <2> QED
    BY <1>1, <1>2, <1>7, <2>1, <2>2, AreasStay
<1>12. CountsInv'
  BY <1>1, <1>5, <1>6, <1>7 DEF CountsInv
<1>13. QuantityInv'
  BY <1>1, <1>6, <1>7 DEF QuantityInv
<1> QED
  BY <1>8, <1>9, <1>10, <1>11, <1>12, <1>13 DEF ExtractionInv

\* An answer of the verifier changes neither what was counted nor where.
LEMMA VerifyStep == ExtractionInv /\ Verify => ExtractionInv'
<1> SUFFICES ASSUME ExtractionInv, Verify PROVE ExtractionInv'
  OBVIOUS
<1>1. /\ pass = "verify" /\ UNCHANGED <<doc, memo, failures>>
      /\ doc' = doc /\ memo' = memo /\ failures' = failures
      /\ items' = items /\ roomAreas' = roomAreas /\ catalog' = catalog
      /\ IF at < Len(counts) THEN at' = at + 1 /\ pass' = pass ELSE at' = 1 /\ pass' = "flip"
  BY DEF Verify
<1>2. PlaceInv /\ LedgerInv /\ ItemsInv /\ AreasInv /\ CountsInv
  BY DEF ExtractionInv
<1>3. /\ at \in DOMAIN counts /\ DOMAIN counts = 1 .. Len(counts) /\ Len(counts) \in Nat
      /\ counts = [i \in DOMAIN counts |-> counts[i]]
  BY <1>1, <1>2, SeqIs DEF PlaceInv
<1>4. /\ IsSeq(counts') /\ DOMAIN counts' = DOMAIN counts
      /\ \A i \in DOMAIN counts :
           /\ counts'[i].symbol = counts[i].symbol /\ counts'[i].page = counts[i].page
           /\ counts'[i].count = counts[i].count
  <2>1. CASE counts' = counts
    BY <1>2, <2>1 DEF PlaceInv, IsSeq
  <2>2. CASE counts' # counts
    <3>1. PICK agrees \in BOOLEAN, conf \in Confidences :
            counts' = [counts EXCEPT ![at] = Merge(@, agrees, conf)]
      BY <2>2 DEF Verify
    <3> DEFINE new == Merge(counts[at], agrees, conf)
    <3>2. counts' = [i \in DOMAIN counts |-> IF i = at THEN new ELSE counts[i]]
      BY <1>3, <3>1
    <3>3. new.symbol = counts[at].symbol /\ new.page = counts[at].page /\ new.count = counts[at].count
      BY DEF Merge
    <3> HIDE DEF new
    <3>4. IsSeq(counts')
      <4>1. counts' = [i \in 1 .. Len(counts) |-> counts'[i]]
        BY <1>3, <3>2
      <4> QED
        BY <1>3, <4>1, SeqFrom
    <3> QED
      BY <3>2, <3>3, <3>4
  <2> QED
    BY <2>1, <2>2
<1>5. ASSUME NEW c \in ToSet(counts') PROVE IsCount(c)'
  <2>1. PICK i \in DOMAIN counts' : c = counts'[i]
    BY DEF ToSet
  <2>2. PICK o : o = counts[i] /\ IsCount(o)
    BY <1>2, <1>4 DEF CountsInv, ToSet
  <2>3. c.symbol = o.symbol /\ c.page = o.page /\ c.count = o.count
    BY <1>4, <2>1, <2>2
  <2>4. IsCount(c)
    BY <2>2, <2>3 DEF IsCount
  <2> QED
    BY <1>1, <2>4, CountIs
<1>6. TextRead' = TextRead /\ TablesRead' = TablesRead /\ Harvested' = Harvested
  BY <1>1 DEF TextRead, TablesRead, Harvested
<1>7. PlaceInv'
  <2>1. pass' = "verify" => at' \in DOMAIN counts'
    BY <1>1, <1>3, <1>4
  <2> QED
    BY <1>1, <1>2, <1>4, <2>1 DEF PlaceInv, IsSeq
<1>8. LedgerInv'
  BY <1>1, <1>2, <1>6, LedgerStays
<1>9. ItemsInv'
  <2>1. \A p : InLedger(p) => InLedger(p)'
    BY <1>1 DEF InLedger
  <2> QED
    BY <1>1, <1>2, <1>6, <2>1, ItemsStay
<1>10. AreasInv'
  <2>1. KnownRooms' = KnownRooms
    BY <1>1 DEF KnownRooms
  <2>2. \A p \in Harvested : Got(p, "words")' => Got(p, "words")
    BY <1>1 DEF Got
  <2> QED
    BY <1>1, <1>2, <1>6, <2>1, <2>2, AreasStay
<1>11. CountsInv'
  BY <1>1, <1>5 DEF CountsInv
<1>12. QuantityInv'
  BY <1>1 DEF QuantityInv
<1> QED
  BY <1>7, <1>8, <1>9, <1>10, <1>11, <1>12 DEF ExtractionInv

\* An extraction that is aborted keeps what it had.
LEMMA VerifyRaisesStep == ExtractionInv /\ VerifyRaises => ExtractionInv'
<1> SUFFICES ASSUME ExtractionInv, VerifyRaises PROVE ExtractionInv'
  OBVIOUS
<1>1. /\ pass = "verify" /\ pass' = "aborted"
      /\ doc' = doc /\ memo' = memo /\ failures' = failures /\ at' = at
      /\ catalog' = catalog /\ items' = items /\ roomAreas' = roomAreas /\ counts' = counts
  BY DEF VerifyRaises
<1>2. PlaceInv /\ LedgerInv /\ ItemsInv /\ AreasInv /\ CountsInv
  BY DEF ExtractionInv
<1>3. TextRead' = TextRead /\ TablesRead' = TablesRead /\ Harvested' = Harvested
  BY <1>1 DEF TextRead, TablesRead, Harvested
<1>4. PlaceInv'
  BY <1>1, <1>2 DEF PlaceInv, IsSeq
<1>5. LedgerInv'
  BY <1>1, <1>2, <1>3, LedgerStays
<1>6. ItemsInv'
  <2>1. \A p : InLedger(p) => InLedger(p)'
    BY <1>1 DEF InLedger
  <2> QED
    BY <1>1, <1>2, <1>3, <2>1, ItemsStay
<1>7. AreasInv'
  <2>1. KnownRooms' = KnownRooms
    BY <1>1 DEF KnownRooms
  <2>2. \A p \in Harvested : Got(p, "words")' => Got(p, "words")
    BY <1>1 DEF Got
  <2> QED
    BY <1>1, <1>2, <1>3, <2>1, <2>2, AreasStay
<1>8. CountsInv'
  BY <1>1, <1>2, CountsStay DEF CountsInv
<1>9. QuantityInv'
  BY <1>1 DEF QuantityInv
<1> QED
  BY <1>4, <1>5, <1>6, <1>7, <1>8, <1>9 DEF ExtractionInv

\* Of finitely many numbers none is above them all.
LEMMA Bounded ==
  ASSUME NEW n \in Nat, NEW f \in [1 .. n -> Nat]
  PROVE  \E b \in Nat : \A i \in 1 .. n : f[i] <= b
<1> DEFINE G == {k \in 0 .. n : \E b \in Nat : \A i \in 1 .. k : f[i] <= b}
<1>1. 0 \in G
  OBVIOUS
<1>2. ASSUME NEW k \in 0 .. n, k < n, k \in G PROVE k + 1 \in G
  <2>1. PICK b \in Nat : \A i \in 1 .. k : f[i] <= b
    BY <1>2
  <2>2. k + 1 \in 1 .. n /\ f[k + 1] \in Nat
    BY <1>2
  <2>3. PICK c \in Nat : b <= c /\ f[k + 1] <= c
    <3>1. CASE b <= f[k + 1]
      BY <2>2, <3>1
    <3>2. CASE ~(b <= f[k + 1])
      BY <2>2, <3>2
    <3> QED
      BY <3>1, <3>2
  <2>4. ASSUME NEW i \in 1 .. k + 1 PROVE f[i] <= c
    <3>1. CASE i = k + 1
      BY <2>3, <3>1
    <3>2. CASE i # k + 1
      <4>1. i \in 1 .. k /\ f[i] \in Nat
        BY <1>2, <3>2
      <4>2. f[i] <= b
        BY <2>1, <4>1
      <4> QED
        BY <2>3, <4>1, <4>2
    <3> QED
      BY <3>1, <3>2
  <2> QED
    BY <2>2, <2>4
<1> HIDE DEF G
<1>3. n \in G
  <2>1. \A k \in 0 .. n : k < n /\ k \in G => k + 1 \in G
    BY <1>2
  <2>2. 0 \in Nat
    OBVIOUS
  <2>3. \A k \in 0 .. n : k \in G
    BY <1>1, <2>1, <2>2, EveryRound
  <2> QED
    BY <2>3
<1> QED
  BY <1>3 DEF G

\* Numbers with a bound have a greatest: the least of their bounds.
LEMMA GreatestIs ==
  ASSUME NEW T, T \subseteq Nat, T # {}, NEW b \in Nat, \A t \in T : t <= b
  PROVE  MaxOf(T) \in T /\ \A t \in T : t <= MaxOf(T)
<1> DEFINE U == {u \in Nat : \A t \in T : t <= u}
<1>1. PICK u \in U : \A v \in U : u <= v
  <2>1. U # {} /\ U \subseteq Nat
    OBVIOUS
  <2> HIDE DEF U
  <2> QED
    BY <2>1, LeastNat
<1>2. u \in T
  <2> SUFFICES ASSUME u \notin T PROVE FALSE
    OBVIOUS
  <2>1. \A t \in T : t <= u - 1
    BY <1>1
  <2>2. u - 1 \in Nat
    <3>1. PICK t \in T : t \in Nat /\ t <= u - 1
      BY <2>1
    <3>2. u \in Nat
      BY <1>1
    <3> QED
      BY <3>1, <3>2
  <2>3. u - 1 \in U
    BY <2>1, <2>2
  <2> QED
    BY <1>1, <2>3
<1>3. \E m \in T : \A t \in T : t <= m
  BY <1>1, <1>2
<1> QED
  BY <1>3 DEF MaxOf

\* What flipping an item leaves alone, and what its quantity rests on then.
LEMMA FlipIs ==
  ASSUME PlaceInv, ItemsInv, CountsInv, pass # "done", NEW i \in ToSet(items)
  PROVE  /\ Flip(i).schedule = i.schedule /\ Flip(i).mark = i.mark /\ Flip(i).page = i.page
         /\ IsCounted(Flip(i))
<1> DEFINE results == IF Len(i.mark) = 1 THEN ResultsOf(Word(i.mark)) ELSE {}
           sheets  == {c \in ToSet(counts) : i.mark = <<c.symbol>>}
           most    == MaxOf({c.count : c \in results})
<1>1. i.page \in DOMAIN doc /\ i.mark # <<>> /\ i \in Listed(i.page)
  BY DEF ItemsInv, TablesRead
<1>2. PICK s \in ToSet(SCHEDULE_REGISTRY) : IsOf(i, s, i.page)
  BY <1>1, ListedAre DEF PlaceInv
<1>3. Flip(i) = IF i.basis = "unknown_plan_count" /\ results # {} /\ AllVerified(results)
                THEN [i EXCEPT !.quantity = most, !.basis = "plan_count"] ELSE i
  BY DEF Flip
<1>4. ASSUME i.basis = "unknown_plan_count" PROVE results = sheets
  <2>1. s.shape = "catalog"
    BY <1>2, <1>4, SchemasAssumption DEF IsOf
  <2>2. IsSeq(i.mark) /\ Len(i.mark) = 1
    BY <1>1, <1>2, <2>1 DEF IsOf
  <2>3. i.mark = <<Word(i.mark)>>
    BY <2>2, OneWord
  <2>4. \A c : i.mark = <<c.symbol>> <=> c.symbol = Word(i.mark)
    BY <2>3
  <2> QED
    BY <2>2, <2>4 DEF ResultsOf
<1>5. CASE i.basis = "unknown_plan_count" /\ results # {} /\ AllVerified(results)
  <2> DEFINE new == [i EXCEPT !.quantity = most, !.basis = "plan_count"]
             many == {c.count : c \in sheets}
  <2>1. Flip(i) = new
    BY <1>3, <1>5
  <2>2. /\ new.schedule = i.schedule /\ new.mark = i.mark /\ new.page = i.page
        /\ new.quantity = most /\ new.basis = "plan_count"
    <3> HIDE DEF most
    <3> QED
      BY <1>2 DEF IsOf
  <2>3. sheets # {} /\ (\A c \in sheets : c.verified) /\ most = MaxOf(many)
    BY <1>4, <1>5 DEF AllVerified
  <2>4. many \subseteq Nat /\ many # {}
    <3>1. \A c \in sheets : IsCount(c)
      BY DEF CountsInv
    <3>2. \A c \in sheets : c.count \in Nat
      BY <3>1 DEF IsCount
    <3> HIDE DEF sheets
    <3> QED
      BY <2>3, <3>2
  <2>5. \E b \in Nat : \A t \in many : t <= b
    <3> DEFINE f == [n \in 1 .. Len(counts) |-> counts[n].count]
    <3>1. /\ Len(counts) \in Nat /\ DOMAIN counts = 1 .. Len(counts)
          /\ \A n \in DOMAIN counts : counts[n] \in ToSet(counts)
      BY SeqIs DEF PlaceInv
    <3>2. f \in [1 .. Len(counts) -> Nat]
      BY <3>1 DEF CountsInv, IsCount
    <3>3. PICK b \in Nat : \A n \in 1 .. Len(counts) : f[n] <= b
      <4> HIDE DEF f
      <4> QED
        BY <3>1, <3>2, Bounded
    <3>4. ASSUME NEW c \in sheets PROVE c.count <= b
      <4>1. PICK n \in 1 .. Len(counts) : c = counts[n]
        BY <3>1 DEF ToSet
      <4> QED
        BY <3>3, <4>1
    <3> QED
      BY <3>4
  <2> HIDE DEF many
  <2>6. most \in many /\ \A t \in many : t <= most
    BY <2>3, <2>4, <2>5, GreatestIs
  <2>7. (\A c \in sheets : c.count <= most) /\ \E c \in sheets : c.count = most
    BY <2>6 DEF many
  <2> HIDE DEF new, most
  <2>8. {c \in ToSet(counts) : new.mark = <<c.symbol>>} = sheets
    BY <2>2
  <2>9. IsCounted(new)
    BY <2>2, <2>3, <2>7, <2>8 DEF IsCounted
  <2> QED
    BY <2>1, <2>2, <2>9
<1>6. CASE ~(i.basis = "unknown_plan_count" /\ results # {} /\ AllVerified(results))
  <2>1. Flip(i) = i
    BY <1>3, <1>6
  <2>2. i.basis = "unknown_plan_count" => sheets = {} \/ \E c \in sheets : ~c.verified
    BY <1>4, <1>6 DEF AllVerified
  <2>3. IsCounted(i)
    BY <1>1, <2>2 DEF IsCounted
  <2> QED
    BY <2>1, <2>3
<1> QED
  BY <1>5, <1>6

\* Flipping the items gives each the quantity its counts allow, and keeps the rest.
LEMMA FlipItemsStep == ExtractionInv /\ FlipItems => ExtractionInv'
<1> SUFFICES ASSUME ExtractionInv, FlipItems PROVE ExtractionInv'
  OBVIOUS
<1>1. /\ pass = "flip" /\ pass' = "done" /\ UNCHANGED <<doc, memo, failures>>
      /\ doc' = doc /\ memo' = memo /\ failures' = failures
      /\ catalog' = catalog /\ roomAreas' = roomAreas /\ counts' = counts
      /\ items' = [i \in DOMAIN items |-> Flip(items[i])]
  BY DEF FlipItems
<1>2. PlaceInv /\ LedgerInv /\ ItemsInv /\ AreasInv /\ CountsInv
  BY DEF ExtractionInv
<1>3. DOMAIN items = 1 .. Len(items) /\ Len(items) \in Nat /\ \A i \in DOMAIN items : items[i] \in ToSet(items)
  BY <1>2, SeqIs DEF PlaceInv
<1>4. \A i \in ToSet(items) : /\ Flip(i).schedule = i.schedule /\ Flip(i).mark = i.mark
                              /\ Flip(i).page = i.page /\ IsCounted(Flip(i))
  BY <1>1, <1>2, FlipIs
<1>5. /\ DOMAIN items' = DOMAIN items /\ \A i \in DOMAIN items : items'[i] = Flip(items[i])
      /\ IsSeq(items')
  <2>1. DOMAIN items' = DOMAIN items /\ \A i \in DOMAIN items : items'[i] = Flip(items[i])
    BY <1>1
  <2>2. items' = [i \in 1 .. Len(items) |-> items'[i]]
    BY <1>1, <1>3, <2>1
  <2> QED
    BY <1>3, <2>1, <2>2, SeqFrom
<1>6. ToSet(items') = {Flip(i) : i \in ToSet(items)}
  BY <1>5 DEF ToSet
<1>7. /\ TextRead' = TextRead /\ TablesRead' = TablesRead /\ Harvested' = Harvested
  BY <1>1 DEF TextRead, TablesRead, Harvested
<1>8. PlaceInv'
  BY <1>1, <1>2, <1>5 DEF PlaceInv, IsSeq
<1>9. LedgerInv'
  BY <1>1, <1>2, <1>7, LedgerStays
<1>10. ItemsInv'
  <2>1. \A p : Listed(p)' = Listed(p)
    BY <1>1, SameDoc
  <2>2. \A p : InLedger(p)' <=> InLedger(p)
    BY <1>1 DEF InLedger
  <2>3. \A i, j : Same(i, j)' <=> Same(i, j)
    BY DEF Same
  <2>4. ASSUME NEW i \in DOMAIN items', NEW j \in DOMAIN items', i # j PROVE ~Same(items'[i], items'[j])
    <3>1. i \in DOMAIN items /\ j \in DOMAIN items /\ items'[i] = Flip(items[i]) /\ items'[j] = Flip(items[j])
      BY <1>5
    <3>2. ~Same(items[i], items[j])
      BY <1>2, <2>4, <3>1 DEF ItemsInv
    <3> QED
      BY <1>3, <1>4, <3>1, <3>2 DEF Same
  <2>5. ASSUME NEW y \in ToSet(items')
        PROVE  /\ y.page \in TablesRead /\ y.mark # <<>>
               /\ \E l \in Listed(y.page) : Same(y, l)
    <3>1. PICK x \in ToSet(items) : y = Flip(x)
      BY <1>6
    <3>2. y.schedule = x.schedule /\ y.mark = x.mark /\ y.page = x.page
      BY <1>4, <3>1
    <3>3. x.page \in TablesRead /\ x.mark # <<>> /\ \E l \in Listed(x.page) : Same(x, l)
      BY <1>2 DEF ItemsInv
    <3> QED
      BY <3>2, <3>3 DEF Same
  <2>6. ASSUME NEW p \in TablesRead, NEW l \in Listed(p)
        PROVE  \/ l.mark = <<>> \/ InLedger(p)
               \/ \E i \in ToSet(items') : Same(i, l) /\ i.page <= p
    <3>1. \/ l.mark = <<>> \/ InLedger(p)
          \/ \E i \in ToSet(items) : Same(i, l) /\ i.page <= p
      BY <1>2 DEF ItemsInv
    <3>2. ASSUME NEW x \in ToSet(items), Same(x, l), x.page <= p
          PROVE  \E i \in ToSet(items') : Same(i, l) /\ i.page <= p
      <4>1. Flip(x) \in ToSet(items') /\ Same(Flip(x), l) /\ Flip(x).page <= p
        BY <1>4, <1>6, <3>2 DEF Same
      <4> QED
        BY <4>1
    <3> QED
      BY <3>1, <3>2
  <2> QED
    BY <1>1, <1>7, <2>1, <2>2, <2>3, <2>4, <2>5, <2>6 DEF ItemsInv
<1>11. AreasInv'
  <2>1. KnownRooms' = KnownRooms
    <3>1. ASSUME NEW w PROVE w \in KnownRooms' <=> w \in KnownRooms
      <4>1. w \in KnownRooms' <=> \E y \in ToSet(items') : y.schedule = "finish" /\ w = Word(y.mark)
        BY DEF KnownRooms
      <4>2. w \in KnownRooms <=> \E x \in ToSet(items) : x.schedule = "finish" /\ w = Word(x.mark)
        BY DEF KnownRooms
      <4>3. (\E y \in ToSet(items') : y.schedule = "finish" /\ w = Word(y.mark))
              <=> \E x \in ToSet(items) : x.schedule = "finish" /\ w = Word(x.mark)
        BY <1>4, <1>6
      <4> QED
        BY <4>1, <4>2, <4>3
    <3> QED
      BY <3>1
  <2>2. \A p \in Harvested : Got(p, "words")' => Got(p, "words")
    BY <1>1 DEF Got
  <2> QED
    BY <1>1, <1>2, <1>7, <2>1, <2>2, AreasStay
<1>12. CountsInv'
  <2>1. /\ \A i \in ToSet(items) : \E j \in ToSet(items') :
             j.schedule = i.schedule /\ j.mark = i.mark /\ j.page = i.page
        /\ \A j \in ToSet(items') : \E i \in ToSet(items) :
             j.schedule = i.schedule /\ j.mark = i.mark /\ j.page = i.page
    BY <1>4, <1>6
  <2>2. ASSUME NEW c \in ToSet(counts) PROVE IsCount(c)'
    <3>1. IsCount(c)
      BY <1>2 DEF CountsInv
    <3> QED
      BY <1>1, <2>1, <3>1, CountIs
  <2> QED
    BY <1>1, <2>2 DEF CountsInv
<1>13. QuantityInv'
  <2>1. ASSUME NEW y \in ToSet(items') PROVE IsCounted(y)'
    <3>1. IsCounted(y)
      BY <1>4, <1>6
    <3>2. \A p : Listed(p)' = Listed(p)
      BY <1>1, SameDoc
    <3> QED
      BY <1>1, <3>1, <3>2 DEF IsCounted
  <2> QED
    BY <2>1 DEF QuantityInv
<1> QED
  BY <1>8, <1>9, <1>10, <1>11, <1>12, <1>13 DEF ExtractionInv

-----------------------------------------------------------------------------
(***************************************************************************)
(* What every extraction keeps                                             *)
(***************************************************************************)

\* Nothing is read, listed or counted when the drawings have just been opened.
LEMMA InitExtraction == ExtractionInit => ExtractionInv
<1> SUFFICES ASSUME ExtractionInit PROVE ExtractionInv
  OBVIOUS
<1>1. /\ doc \in Documents /\ memo = <<>> /\ failures = <<>> /\ pass = "text" /\ at = 1 /\ catalog = 1
      /\ items = <<>> /\ roomAreas = {} /\ counts = <<>>
  BY DEF ExtractionInit
<1>2. IsSeq(<<>>) /\ ToSet(<<>>) = {} /\ DOMAIN <<>> = {}
  BY EmptyIsSeq
<1>3. DOMAIN doc = 1 .. PageCount /\ PageCount \in Nat \ {0}
  BY <1>1, DocIs
<1>4. TextRead = {} /\ TablesRead = {} /\ Harvested = {}
  BY <1>1, <1>3 DEF TextRead, TablesRead, Harvested
<1>5. PlaceInv
  BY <1>1, <1>2, <1>3, FirstOf, CatalogsAssumption DEF PlaceInv
<1>6. LedgerInv
  <2>1. \A p : Noted(p) = {} /\ Lost(p) = {}
    BY <1>1, <1>2 DEF Noted, Lost
  <2>2. IsFiniteSet(DOMAIN memo) /\ memo \in [DOMAIN memo -> BOOLEAN]
    BY <1>1, <1>2, FS_EmptySet
  <2> QED
    BY <1>1, <1>2, <1>4, <2>1, <2>2 DEF LedgerInv
<1>7. ItemsInv /\ AreasInv /\ CountsInv /\ QuantityInv
  BY <1>1, <1>2, <1>4 DEF ItemsInv, AreasInv, CountsInv, QuantityInv
<1> QED
  BY <1>5, <1>6, <1>7 DEF ExtractionInv

\* Every step of an extraction keeps the invariant.
LEMMA NextExtraction == ExtractionInv /\ [ExtractionNext]_extractionVars => ExtractionInv'
<1> SUFFICES ASSUME ExtractionInv, [ExtractionNext]_extractionVars PROVE ExtractionInv'
  OBVIOUS
<1>1. CASE ReadText
  BY <1>1, ReadTextStep
<1>2. CASE ReadTables
  BY <1>2, ReadTablesStep
<1>3. CASE ReadWords
  BY <1>3, ReadWordsStep
<1>4. CASE Harvest
  BY <1>4, HarvestStep
<1>5. CASE CountPage
  BY <1>5, CountPageStep
<1>6. CASE Verify
  BY <1>6, VerifyStep
<1>7. CASE FlipItems
  BY <1>7, FlipItemsStep
<1>8. CASE VerifyRaises
  BY <1>8, VerifyRaisesStep
<1>9. CASE UNCHANGED extractionVars
  <2>1. /\ doc' = doc /\ memo' = memo /\ failures' = failures /\ pass' = pass /\ at' = at
        /\ catalog' = catalog /\ items' = items /\ roomAreas' = roomAreas /\ counts' = counts
    BY <1>9 DEF extractionVars
  <2>2. PlaceInv /\ LedgerInv /\ ItemsInv /\ AreasInv /\ CountsInv /\ QuantityInv
    BY DEF ExtractionInv
  <2>3. TextRead' = TextRead /\ TablesRead' = TablesRead /\ Harvested' = Harvested
    BY <2>1 DEF TextRead, TablesRead, Harvested
  <2>4. PlaceInv'
    BY <2>1, <2>2 DEF PlaceInv, IsSeq
  <2>5. LedgerInv'
    BY <2>1, <2>2, <2>3, LedgerStays
  <2>6. ItemsInv'
    <3>1. \A p : InLedger(p) => InLedger(p)'
      BY <2>1 DEF InLedger
    <3> QED
      BY <2>1, <2>2, <2>3, <3>1, ItemsStay
  <2>7. AreasInv'
    <3>1. KnownRooms' = KnownRooms
      BY <2>1 DEF KnownRooms
    <3>2. \A p \in Harvested : Got(p, "words")' => Got(p, "words")
      BY <2>1 DEF Got
    <3> QED
      BY <2>1, <2>2, <2>3, <3>1, <3>2, AreasStay
  <2>8. CountsInv'
    BY <2>1, <2>2, CountsStay DEF CountsInv
  <2>9. QuantityInv'
    <3>1. \A y : IsCounted(y)' <=> IsCounted(y)
      BY <2>1, SameDoc DEF IsCounted
    <3> QED
      BY <2>1, <2>2, <3>1 DEF QuantityInv
  <2> QED
    BY <2>4, <2>5, <2>6, <2>7, <2>8, <2>9 DEF ExtractionInv
<1> QED
  BY <1>1, <1>2, <1>3, <1>4, <1>5, <1>6, <1>7, <1>8, <1>9 DEF ExtractionNext, Ended

\* The invariant holds throughout every extraction.
THEOREM ExtractionInvariant == ExtractionSpec => []ExtractionInv
<1>1. ExtractionInit => ExtractionInv
  BY InitExtraction
<1>2. ExtractionInv /\ [ExtractionNext]_extractionVars => ExtractionInv'
  BY NextExtraction
<1> QED
  BY <1>1, <1>2, PTL DEF ExtractionSpec

\* The items are whole but for the pages of the ledger, and the ledger names
\* every failed pull once (extract_schedule_items, Page._cached, Document._safe).
THEOREM ItemsWhole == ExtractionSpec => []ItemsAreWhole
<1>1. ExtractionInv => ItemsAreWhole
  <2> SUFFICES ASSUME ExtractionInv PROVE ItemsAreWhole
    OBVIOUS
  <2>1. LedgerInv /\ ItemsInv
    BY DEF ExtractionInv
  <2>2. ASSUME pass = "done" PROVE TablesRead = DOMAIN doc
    BY <2>2 DEF TablesRead
  <2>3. \A p \in DOMAIN doc :
          Cardinality({k \in DOMAIN failures : failures[k].page = p})
            = Cardinality({q \in DOMAIN memo : q[1] = p /\ ~memo[q]})
    BY <2>1 DEF LedgerInv, Noted, Lost
  <2>4. ASSUME pass = "done"
        PROVE  /\ \A i, j \in DOMAIN items : i # j => ~Same(items[i], items[j])
               /\ \A p \in DOMAIN doc : \A l \in Listed(p) :
                    \/ l.mark = <<>> \/ InLedger(p)
                    \/ \E i \in ToSet(items) : Same(i, l) /\ i.page <= p
               /\ \A i \in ToSet(items) : \E l \in Listed(i.page) : Same(i, l)
    BY <2>1, <2>2, <2>4 DEF ItemsInv
  <2> QED
    BY <2>3, <2>4 DEF ItemsAreWhole
<1> QED
  BY <1>1, ExtractionInvariant, PTL

\* An area joins a room and a label that are each other's nearest, a room has
\* one, and a plan gives every room it can (join_areas, harvest_room_areas).
THEOREM AreasMutual == ExtractionSpec => []AreasAreMutual
<1>1. ExtractionInv => AreasAreMutual
  <2> SUFFICES ASSUME ExtractionInv PROVE AreasAreMutual
    OBVIOUS
  <2>1. AreasInv
    BY DEF ExtractionInv
  <2>2. ASSUME pass \in {"count", "verify", "flip", "done"} PROVE Harvested = DOMAIN doc
    BY <2>2 DEF Harvested
  <2>3. \A a \in roomAreas : IsJoined(doc[a.page].words, a) /\ \A o \in roomAreas : o.room = a.room => o = a
    BY <2>1 DEF AreasInv
  <2>4. ASSUME pass \in {"count", "verify", "flip", "done"}
        PROVE  \A p \in DOMAIN doc :
                 Got(p, "words") /\ IsAreaPlan(doc[p].words) => GivesAll(doc[p].words, p)
    BY <2>1, <2>2, <2>4 DEF AreasInv
  <2> QED
    BY <2>3, <2>4 DEF AreasAreMutual, IsJoined, GivesAll
<1> QED
  BY <1>1, ExtractionInvariant, PTL

\* A quantity put in by the counts is the greatest one of its symbol, and every
\* sheet it rests on was verified (extract_counts, merge, flip_fixture_items).
THEOREM QuantitiesCounted == ExtractionSpec => []QuantitiesAreCounted
<1>1. ExtractionInv => QuantitiesAreCounted
  <2> SUFFICES ASSUME ExtractionInv PROVE QuantitiesAreCounted
    OBVIOUS
  <2>1. \A c \in ToSet(counts) : IsCount(c)
    BY DEF ExtractionInv, CountsInv
  <2>2. pass = "done" => \A i \in ToSet(items) : IsCounted(i)
    BY DEF ExtractionInv, QuantityInv
  <2>3. pass = "done" => \A c \in ToSet(counts) :
          /\ c.count = Cardinality({i \in DOMAIN doc[c.page].words : doc[c.page].words[i].w = c.symbol})
          /\ c.count > 0
          /\ \E k \in ToSet(CountedCatalogs) :
               /\ \E i \in ToSet(items) : i.schedule = k /\ i.mark = <<c.symbol>>
               /\ \A i \in ToSet(items) : i.schedule = k => i.page # c.page
    <3> SUFFICES ASSUME NEW c \in ToSet(counts)
                 PROVE  /\ c.count = Cardinality({i \in DOMAIN doc[c.page].words : doc[c.page].words[i].w = c.symbol})
                        /\ c.count > 0
                        /\ \E k \in ToSet(CountedCatalogs) :
                             /\ \E i \in ToSet(items) : i.schedule = k /\ i.mark = <<c.symbol>>
                             /\ \A i \in ToSet(items) : i.schedule = k => i.page # c.page
      OBVIOUS
    <3>1. IsCount(c)
      BY <2>1
    <3> QED
      BY <3>1 DEF IsCount
  <2> QED
    BY <2>2, <2>3 DEF QuantitiesAreCounted, IsCounted
<1> QED
  BY <1>1, ExtractionInvariant, PTL
=============================================================================
