------------------------- MODULE PerformanceProofs -------------------------
(***************************************************************************)
(* What the audio engine keeps true of voices, decoded sounds and          *)
(* protected sample files, for any voice plans, polyphony and cache size,  *)
(* whatever the performer does and whichever calls fail.                   *)
(***************************************************************************)
EXTENDS Performance, FiniteSetTheorems, TLAPS

-----------------------------------------------------------------------------
(* Induction, as in AssetCacheProofs.                                      *)
LEMMA NatSetInduction ==
  ASSUME NEW T \in SUBSET Nat, 0 \in T, \A n \in T : n + 1 \in T
  PROVE  T = Nat
<1> DEFINE R == OpToRel(<, Nat)
           U == Nat \ T
<1>1. IsWellFoundedOn(R, Nat)
  BY NatLessThanWellFounded
<1>2. SUFFICES ASSUME U # {} PROVE FALSE
  OBVIOUS
<1>3. PICK n \in U : \A m \in U : <<m, n>> \notin R
  <2> HIDE DEF R, U
  <2>1. U \subseteq Nat
    BY DEF U
  <2> QED
    BY <1>1, <1>2, <2>1, WFMin
<1>4. n # 0 /\ n - 1 \in Nat /\ n - 1 + 1 = n
  OBVIOUS
<1>5. <<n - 1, n>> \in R
  BY <1>4 DEF OpToRel
<1>6. n - 1 \in T
  BY <1>3, <1>4, <1>5
<1> QED
  BY <1>4, <1>6

LEMMA LeastExists ==
  ASSUME NEW T \in SUBSET Nat, T # {}
  PROVE  \E n \in T : \A m \in T : n <= m
<1> DEFINE R == OpToRel(<, Nat)
<1>1. IsWellFoundedOn(R, Nat)
  BY NatLessThanWellFounded
<1>2. PICK n \in T : \A m \in T : <<m, n>> \notin R
  <2> HIDE DEF R
  <2> QED
    BY <1>1, WFMin
<1>3. ASSUME NEW m \in T, ~(n <= m) PROVE FALSE
  <2>1. m < n /\ m \in Nat /\ n \in Nat
    BY <1>3
  <2>2. <<m, n>> \in R
    BY <2>1 DEF OpToRel
  <2> QED
    BY <1>2, <2>2
<1> QED
  BY <1>3

LEMMA MinIsLeast ==
  ASSUME NEW T \in SUBSET Nat, T # {}
  PROVE  Min(T) \in T /\ \A m \in T : Min(T) <= m
BY LeastExists DEF Min

-----------------------------------------------------------------------------
(* A sequence without the elements of a set is that sequence, read at some *)
(* of its places, in their order: at those whose element is not in the     *)
(* set.                                                                    *)
Drops(k, s, D) ==
  k = [n \in 0..Len(s) |-> IF n = 0 THEN <<>>
                           ELSE IF s[n] \in D THEN k[n - 1]
                           ELSE Append(k[n - 1], s[n])]

Selects(h, t, s, n, D) ==
  /\ h \in [1..Len(t) -> 1..n]
  /\ \A i \in 1..Len(t) : t[i] = s[h[i]] /\ s[h[i]] \notin D
  /\ \A i, j \in 1..Len(t) : i < j => h[i] < h[j]
  /\ \A m \in 1..n : s[m] \notin D => \E i \in 1..Len(t) : h[i] = m

LEMMA DropsExists == ASSUME NEW S, NEW s \in Seq(S), NEW D PROVE \E k : Drops(k, s, D)
<1> DEFINE Value(k, n) == IF n = 0 THEN <<>>
                          ELSE IF s[n] \in D THEN k[n - 1]
                          ELSE Append(k[n - 1], s[n])
           Has(n) == \E k : k = [m \in 0..n |-> Value(k, m)]
           T == {n \in Nat : Has(n)}
<1>1. Has(0)
  <2> DEFINE k == [m \in 0..0 |-> <<>>]
  <2>1. k = [m \in 0..0 |-> Value(k, m)]
    OBVIOUS
  <2> QED
    BY <2>1
<1>2. ASSUME NEW n \in Nat, Has(n) PROVE Has(n + 1)
  <2>1. PICK k : k = [m \in 0..n |-> Value(k, m)]
    BY <1>2
  <2> DEFINE l == [m \in 0..(n + 1) |-> Value(k, m)]
  <2>2. \A m \in 0..n : l[m] = k[m]
    <3> SUFFICES ASSUME NEW m \in 0..n PROVE l[m] = k[m]
      OBVIOUS
    <3>1. m \in 0..(n + 1)
      OBVIOUS
    <3>2. l[m] = Value(k, m)
      BY <3>1
    <3>3. k[m] = Value(k, m)
      BY <2>1
    <3> QED
      BY <3>2, <3>3
  <2>3. \A m \in 0..(n + 1) : Value(k, m) = Value(l, m)
    <3> SUFFICES ASSUME NEW m \in 0..(n + 1), m # 0 PROVE k[m - 1] = l[m - 1]
      OBVIOUS
    <3>1. m - 1 \in 0..n
      OBVIOUS
    <3> QED
      BY <2>2, <3>1
  <2>4. l = [m \in 0..(n + 1) |-> Value(l, m)]
    BY <2>3
  <2> HIDE DEF l
  <2> QED
    BY <2>4
<1>3. T = Nat
  <2> HIDE DEF Has
  <2>1. T \subseteq Nat /\ 0 \in T /\ \A n \in T : n + 1 \in T
    BY <1>1, <1>2
  <2> HIDE DEF T
  <2> QED
    BY <2>1, NatSetInduction
<1>4. Has(Len(s))
  BY <1>3
<1> QED
  BY <1>4 DEF Drops

LEMMA WithoutSelects ==
  ASSUME NEW S, NEW s \in Seq(S), NEW D
  PROVE  /\ Without(s, D) \in Seq(S)
         /\ \E h : Selects(h, Without(s, D), s, Len(s), D)
<1> DEFINE k == CHOOSE f : Drops(f, s, D)
           Good(n) == k[n] \in Seq(S) /\ \E h : Selects(h, k[n], s, n, D)
           T == {n \in Nat : n <= Len(s) => Good(n)}
<1>1. Without(s, D) = k[Len(s)]
  BY DEF Without, Drops
<1>2. Drops(k, s, D)
  BY DropsExists
<1> HIDE DEF k
<1>3. Good(0)
  <2>1. k[0] = <<>>
    BY <1>2 DEF Drops
  <2> DEFINE h == [i \in 1..0 |-> 0]
  <2>2. Selects(h, k[0], s, 0, D)
    BY <2>1 DEF Selects
  <2> HIDE DEF h
  <2> QED
    BY <2>1, <2>2
<1>4. ASSUME NEW n \in Nat, n + 1 <= Len(s), Good(n) PROVE Good(n + 1)
  <2>1. n + 1 \in 0..Len(s) /\ n \in 0..Len(s) /\ n + 1 # 0 /\ n + 1 - 1 = n /\ s[n + 1] \in S
    BY <1>4
  <2>2. k[n + 1] = IF s[n + 1] \in D THEN k[n] ELSE Append(k[n], s[n + 1])
    <3>1. PICK m : m = n + 1
      OBVIOUS
    <3>2. m \in 0..Len(s) /\ m # 0 /\ m - 1 = n
      BY <2>1, <3>1
    <3>3. k[m] = IF m = 0 THEN <<>>
                 ELSE IF s[m] \in D THEN k[m - 1] ELSE Append(k[m - 1], s[m])
      BY <1>2, <3>2, Zenon DEF Drops
    <3>4. k[m] = IF s[m] \in D THEN k[n] ELSE Append(k[n], s[m])
      BY <3>2, <3>3, Zenon
    <3> QED
      BY <3>1, <3>4, Zenon
  <2>3. PICK h : Selects(h, k[n], s, n, D)
    BY <1>4
  <2>4. k[n] \in Seq(S) /\ Len(k[n]) \in Nat
    BY <1>4
  <2>5. CASE s[n + 1] \in D
    <3>1. k[n + 1] = k[n]
      BY <2>2, <2>5
    <3>2. Selects(h, k[n], s, n + 1, D)
      <4>1. h \in [1..Len(k[n]) -> 1..(n + 1)]
        BY <2>3 DEF Selects
      <4>2. \A m \in 1..(n + 1) : s[m] \notin D => m \in 1..n
        BY <2>5
      <4> QED
        BY <2>3, <4>1, <4>2 DEF Selects
    <3> QED
      BY <2>4, <3>1, <3>2
  <2>6. CASE s[n + 1] \notin D
    <3> DEFINE t == Append(k[n], s[n + 1])
               l == [i \in 1..(Len(k[n]) + 1) |-> IF i <= Len(k[n]) THEN h[i] ELSE n + 1]
    <3>1. k[n + 1] = t
      BY <2>2, <2>6
    <3>2. /\ t \in Seq(S) /\ Len(t) = Len(k[n]) + 1 /\ t[Len(t)] = s[n + 1]
          /\ \A i \in 1..Len(k[n]) : t[i] = k[n][i]
      BY <2>1, <2>4
    <3>3. \A i \in 1..Len(k[n]) : l[i] = h[i] /\ h[i] \in 1..n
      BY <2>3, <2>4 DEF Selects
    <3>4. l[Len(t)] = n + 1 /\ Len(t) \in 1..Len(t)
      BY <2>4, <3>2
    <3> HIDE DEF t
    <3>5. l \in [1..Len(t) -> 1..(n + 1)]
      BY <2>3, <2>4, <3>2 DEF Selects
    <3> HIDE DEF l
    <3>6. \A i \in 1..Len(t) : i \in 1..Len(k[n]) \/ i = Len(t)
      BY <2>4, <3>2
    <3>7. \A i \in 1..Len(t) : t[i] = s[l[i]] /\ s[l[i]] \notin D
      <4> SUFFICES ASSUME NEW i \in 1..Len(t) PROVE t[i] = s[l[i]] /\ s[l[i]] \notin D
        OBVIOUS
      <4>1. CASE i \in 1..Len(k[n])
        BY <2>3, <3>2, <3>3, <4>1 DEF Selects
      <4>2. CASE i = Len(t)
        BY <2>6, <3>2, <3>4, <4>2
      <4> QED
        BY <3>6, <4>1, <4>2
    <3>8. \A i, j \in 1..Len(t) : i < j => l[i] < l[j]
      <4> SUFFICES ASSUME NEW i \in 1..Len(t), NEW j \in 1..Len(t), i < j PROVE l[i] < l[j]
        OBVIOUS
      <4>1. i \in 1..Len(k[n])
        BY <2>4, <3>2
      <4>2. CASE j \in 1..Len(k[n])
        BY <2>3, <3>3, <4>1, <4>2 DEF Selects
      <4>3. CASE j = Len(t)
        BY <3>3, <3>4, <4>1, <4>3
      <4> QED
        BY <3>6, <4>2, <4>3
    <3>9. ASSUME NEW m \in 1..(n + 1), s[m] \notin D PROVE \E i \in 1..Len(t) : l[i] = m
      <4>1. CASE m = n + 1
        BY <3>4, <4>1
      <4>2. CASE m \in 1..n
        <5>1. PICK i \in 1..Len(k[n]) : h[i] = m
          BY <2>3, <3>9, <4>2 DEF Selects
        <5>2. i \in 1..Len(t)
          BY <2>4, <3>2
        <5> QED
          BY <3>3, <5>1, <5>2
      <4> QED
        BY <4>1, <4>2
    <3>10. Selects(l, t, s, n + 1, D)
      BY <3>5, <3>7, <3>8, <3>9 DEF Selects
    <3> QED
      BY <3>1, <3>2, <3>10
  <2> QED
    BY <2>5, <2>6
<1>5. T = Nat
  <2> HIDE DEF Good
  <2>1. 0 \in T
    BY <1>3
  <2>2. ASSUME NEW n \in T PROVE n + 1 \in T
    <3>1. n \in Nat /\ (n + 1 <= Len(s) => n <= Len(s))
      OBVIOUS
    <3> QED
      BY <1>4, <3>1
  <2>3. T \subseteq Nat
    OBVIOUS
  <2> HIDE DEF T
  <2> QED
    BY <2>1, <2>2, <2>3, NatSetInduction
<1>6. Len(s) \in T /\ Len(s) <= Len(s)
  BY <1>5
<1> QED
  BY <1>1, <1>6

-----------------------------------------------------------------------------
NoRepeats(s) == \A i, j \in DOMAIN s : s[i] = s[j] => i = j

(* What comes after an element of A is in A.                               *)
Last(s, A) == \A i, j \in DOMAIN s : i < j /\ s[i] \in A => s[j] \in A

LEMMA WithoutKeeps ==
  ASSUME NEW S, NEW s \in Seq(S), NEW D, NEW A
  PROVE  /\ Range(Without(s, D)) = Range(s) \ D
         /\ NoRepeats(s) => NoRepeats(Without(s, D))
         /\ Last(s, A) => Last(Without(s, D), A)
<1> DEFINE t == Without(s, D)
<1>1. t \in Seq(S) /\ DOMAIN s = 1..Len(s) /\ DOMAIN t = 1..Len(t)
  BY WithoutSelects
<1>2. PICK h : Selects(h, t, s, Len(s), D)
  BY WithoutSelects
<1> HIDE DEF t
<1>3. \A i \in DOMAIN t : h[i] \in DOMAIN s /\ t[i] = s[h[i]] /\ t[i] \notin D
  BY <1>1, <1>2 DEF Selects
<1>4. Range(t) \subseteq Range(s) \ D
  BY <1>3 DEF Range
<1>5. ASSUME NEW m \in DOMAIN s, s[m] \notin D PROVE s[m] \in Range(t)
  <2>1. PICK i \in DOMAIN t : h[i] = m
    BY <1>1, <1>2, <1>5 DEF Selects
  <2> QED
    BY <1>3, <2>1 DEF Range
<1>6. \A i, j \in DOMAIN t : i < j => h[i] < h[j]
  BY <1>1, <1>2 DEF Selects
<1>7. ASSUME NoRepeats(s) PROVE NoRepeats(t)
  <2> SUFFICES ASSUME NEW i \in DOMAIN t, NEW j \in DOMAIN t, t[i] = t[j] PROVE i = j
    BY DEF NoRepeats
  <2>1. h[i] = h[j]
    BY <1>3, <1>7 DEF NoRepeats
  <2>2. h[i] \in Nat /\ h[j] \in Nat /\ i \in Nat /\ j \in Nat
    BY <1>1, <1>3
  <2> QED
    BY <1>6, <2>1, <2>2
<1>8. ASSUME Last(s, A) PROVE Last(t, A)
  <2> SUFFICES ASSUME NEW i \in DOMAIN t, NEW j \in DOMAIN t, i < j, t[i] \in A PROVE t[j] \in A
    BY DEF Last
  <2> QED
    BY <1>3, <1>6, <1>8 DEF Last
<1>9. Range(s) \ D \subseteq Range(t)
  BY <1>5 DEF Range
<1> QED
  BY <1>4, <1>7, <1>8, <1>9 DEF t

LEMMA LengthCounts ==
  ASSUME NEW S, NEW s \in Seq(S), NoRepeats(s)
  PROVE  IsFiniteSet(Range(s)) /\ Cardinality(Range(s)) = Len(s)
<1>1. DOMAIN s = 1..Len(s) /\ Len(s) \in Nat
  OBVIOUS
<1>2. IsFiniteSet(1..Len(s)) /\ Cardinality(1..Len(s)) = Len(s)
  BY <1>1, FS_Interval
<1>3. s \in Surjection(1..Len(s), Range(s)) /\ s \in Injection(1..Len(s), Range(s))
  BY <1>1 DEF Range, NoRepeats, Surjection, Injection, IsInjective
<1> QED
  BY <1>2, <1>3, FS_Surjection

LEMMA PlansAreFinite == IsFiniteSet(Plan) /\ Plan \subseteq Nat
<1>1. Plan = 1..Len(Plans) /\ Len(Plans) \in Nat
  BY PlansAreVoicePlans DEF Plan
<1> QED
  BY <1>1, FS_Interval

LEMMA PlanTypes == \A p \in Plan : SoundOf(p) \in Sound /\ Plans[p].gate \in Gate
<1>1. \A p \in Plan : Plans[p] \in PlanType
  BY PlansAreVoicePlans DEF Plan
<1> QED
  BY <1>1 DEF SoundOf, PlanType

(* As many sounds as voices, at most.                                      *)
Sounds(S) == {SoundOf(p) : p \in S}

LEMMA FewerSounds ==
  ASSUME NEW P \in SUBSET Plan
  PROVE  /\ IsFiniteSet(P) /\ Cardinality(P) \in Nat
         /\ IsFiniteSet(Sounds(P)) /\ Cardinality(Sounds(P)) \in Nat
         /\ Cardinality(Sounds(P)) <= Cardinality(P)
<1> DEFINE f == [p \in P |-> SoundOf(p)]
<1>1. IsFiniteSet(P)
  BY PlansAreFinite, FS_Subset
<1>2. f \in Surjection(P, Sounds(P))
  <2>1. f \in [P -> Sounds(P)]
    BY DEF Sounds
  <2>2. \A x \in Sounds(P) : \E p \in P : f[p] = x
    BY DEF Sounds
  <2> QED
    BY <2>1, <2>2 DEF Surjection
<1> HIDE DEF f
<1>3. IsFiniteSet(Sounds(P)) /\ Cardinality(Sounds(P)) <= Cardinality(P)
  BY <1>1, <1>2, FS_Surjection
<1> QED
  BY <1>1, <1>3, FS_CardinalityType

-----------------------------------------------------------------------------
(* Pruning, at most one sound over the limit, takes none of the sounds of  *)
(* the voices v, nor of the sounds A used last, when those are no more     *)
(* than the cache holds: the least recent sound no voice plays is not one  *)
(* of A, because some sound that nobody needs is less recent than A.       *)
Free(s, v) == {i \in DOMAIN s : s[i] \notin Sounds(Playing(v))}

Earlier(s, v, i) == {j \in Free(s, v) : j < i}

LEMMA SurplusIsFree ==
  ASSUME NEW s, NEW v
  PROVE  Surplus(s, v) =
           {s[i] : i \in {j \in Free(s, v) : Cardinality(Earlier(s, v, j)) + MaxSounds < Len(s)}}
BY DEF Surplus, Free, Earlier, Sounds

LEMMA PruneSpares ==
  ASSUME NEW s \in Seq(Sound), NoRepeats(s), Len(s) <= MaxSounds + 1,
         NEW v, NEW A, Last(s, A),
         NEW N, N = Sounds(Playing(v)) \cup A, IsFiniteSet(N), Cardinality(N) <= MaxSounds
  PROVE  /\ Without(s, Surplus(s, v)) \in Seq(Sound)
         /\ NoRepeats(Without(s, Surplus(s, v)))
         /\ Last(Without(s, Surplus(s, v)), A)
         /\ Range(Without(s, Surplus(s, v))) = Range(s) \ Surplus(s, v)
         /\ Len(Without(s, Surplus(s, v))) <= MaxSounds
         /\ Surplus(s, v) \cap N = {}
<1> DEFINE D == Surplus(s, v)
           t == Without(s, D)
<1>1. /\ t \in Seq(Sound) /\ NoRepeats(t) /\ Last(t, A) /\ Range(t) = Range(s) \ D
  BY WithoutSelects, WithoutKeeps
<1>2. /\ IsFiniteSet(Range(s)) /\ Cardinality(Range(s)) = Len(s) /\ Len(s) \in Nat
      /\ DOMAIN s = 1..Len(s)
  BY LengthCounts
<1>3. Cardinality(Range(t)) = Len(t) /\ Len(t) \in Nat
  <2>1. t \in Seq(Sound) /\ NoRepeats(t)
    BY <1>1
  <2> HIDE DEF t
  <2>2. Cardinality(Range(t)) = Len(t)
    BY <2>1, LengthCounts, Zenon
  <2> QED
    BY <2>1, <2>2
<1>4. MaxSounds \in Nat /\ Cardinality(N) \in Nat
  BY CacheHoldsPolyphony, FS_CardinalityType
<1>5. Free(s, v) \subseteq 1..Len(s)
  BY <1>2 DEF Free
<1>6. ASSUME NEW i \in Free(s, v)
      PROVE  IsFiniteSet(Earlier(s, v, i)) /\ Cardinality(Earlier(s, v, i)) \in Nat
  <2>1. IsFiniteSet(1..Len(s))
    BY <1>2, FS_Interval
  <2>2. Earlier(s, v, i) \subseteq 1..Len(s)
    BY <1>5 DEF Earlier
  <2>3. IsFiniteSet(Earlier(s, v, i))
    BY <2>1, <2>2, FS_Subset
  <2> QED
    BY <2>3, FS_CardinalityType
<1>7. CASE Len(s) <= MaxSounds
  <2>1. D = {}
    <3>1. \A i \in Free(s, v) : ~(Cardinality(Earlier(s, v, i)) + MaxSounds < Len(s))
      <4> SUFFICES ASSUME NEW i \in Free(s, v)
                   PROVE  ~(Cardinality(Earlier(s, v, i)) + MaxSounds < Len(s))
        OBVIOUS
      <4> DEFINE c == Cardinality(Earlier(s, v, i))
      <4>1. c \in Nat
        BY <1>6
      <4> HIDE DEF c
      <4>2. ~(c + MaxSounds < Len(s))
        BY <1>2, <1>4, <1>7, <4>1
      <4> QED
        BY <4>2 DEF c
    <3> QED
      BY <3>1, SurplusIsFree
  <2>2. Range(t) \subseteq Range(s)
    BY <1>1
  <2>3. Cardinality(Range(t)) <= Cardinality(Range(s))
    <3> HIDE DEF t
    <3> QED
      BY <1>2, <2>2, FS_Subset
  <2> QED
    BY <1>1, <1>2, <1>3, <1>4, <1>7, <2>1, <2>3
<1>8. CASE Len(s) = MaxSounds + 1
  <2>1. PICK k \in DOMAIN s : s[k] \notin N
    <3>1. SUFFICES ASSUME Range(s) \subseteq N PROVE FALSE
      BY DEF Range
    <3>2. Cardinality(Range(s)) <= Cardinality(N)
      BY <3>1, FS_Subset
    <3>3. IsFiniteSet(N)
      OBVIOUS
    <3> QED
      BY <1>2, <1>4, <1>8, <3>2
  <2>2. k \in Free(s, v)
    BY <2>1 DEF Free
  <2>3. PICK first \in Free(s, v) : \A i \in Free(s, v) : first <= i
    <3>1. Free(s, v) \in SUBSET Nat
      BY <1>5
    <3> QED
      BY <2>2, <3>1, LeastExists
  <2>4. Earlier(s, v, first) = {}
    BY <1>5, <2>3 DEF Earlier
  <2>5. \A i \in Free(s, v) : Earlier(s, v, i) = {} => i = first
    <3> SUFFICES ASSUME NEW i \in Free(s, v), Earlier(s, v, i) = {} PROVE i = first
      OBVIOUS
    <3>1. ~(first < i)
      BY <2>3 DEF Earlier
    <3> QED
      BY <1>5, <2>3, <3>1
  <2>6. D = {s[first]}
    <3>1. \A i \in Free(s, v) :
            (Cardinality(Earlier(s, v, i)) + MaxSounds < Len(s)) <=> i = first
      <4> SUFFICES ASSUME NEW i \in Free(s, v)
                   PROVE  (Cardinality(Earlier(s, v, i)) + MaxSounds < Len(s)) <=> i = first
        OBVIOUS
      <4> DEFINE c == Cardinality(Earlier(s, v, i))
      <4>1. c \in Nat /\ (c = 0 <=> Earlier(s, v, i) = {})
        BY <1>6, FS_EmptySet, Zenon
      <4>2. Earlier(s, v, i) = {} <=> i = first
        BY <2>4, <2>5
      <4> HIDE DEF c
      <4>3. (c + MaxSounds < Len(s)) <=> c = 0
        BY <1>4, <1>8, <4>1
      <4> QED
        BY <4>1, <4>2, <4>3, Zenon DEF c
    <3>2. {i \in Free(s, v) : Cardinality(Earlier(s, v, i)) + MaxSounds < Len(s)} = {first}
      BY <2>3, <3>1
    <3> QED
      BY <3>2, SurplusIsFree
  <2>7. first \in DOMAIN s /\ s[first] \notin Sounds(Playing(v))
    BY <2>3 DEF Free
  <2>8. s[first] \notin A
    <3>1. SUFFICES ASSUME s[first] \in A PROVE FALSE
      OBVIOUS
    <3>2. first # k
      BY <2>1, <3>1
    <3>3. first < k
      BY <1>2, <2>1, <2>2, <2>3, <2>7, <3>2
    <3>4. s[k] \in A
      BY <2>1, <2>7, <3>1, <3>3 DEF Last
    <3> QED
      BY <2>1, <3>4
  <2>9. s[first] \in Range(s)
    BY <2>7 DEF Range
  <2>10. Cardinality(Range(t)) = Cardinality(Range(s)) - 1
    <3>1. Range(t) = Range(s) \ {s[first]}
      BY <1>1, <2>6
    <3> HIDE DEF t
    <3> QED
      BY <1>2, <2>9, <3>1, FS_RemoveElement
  <2> QED
    BY <1>1, <1>2, <1>3, <1>4, <1>8, <2>6, <2>7, <2>8, <2>10
<1> QED
  BY <1>2, <1>4, <1>7, <1>8

-----------------------------------------------------------------------------
(* Where an open_gate stands: it resolves the sounds of all the selected   *)
(* voices of a silent gate before it starts any, and while it starts them  *)
(* the gate's voices are those started and those ready to start.           *)
CallState ==
  /\ phase # "idle" =>
       /\ opening \in Gate /\ caller # "none"
       /\ caller = "preview" => previews[opening] < MaxPreviews
  /\ phase \notin {"resolve", "play"} => todo = {} /\ ready = {}
  /\ phase = "resolve" => ByGate(opening) = {} /\ todo \cup ready = Selected(opening)
  /\ phase = "play" => todo = {} /\ ByGate(opening) \cup ready = Selected(opening)

(* The voices that play and those the call has yet to start fit.           *)
Room == Cardinality(Playing(voice) \cup todo \cup ready) <= MaxPolyphony

(* The sounds resolved for the call are the ones used last.                *)
Recent == phase = "resolve" => Last(sounds, Sounds(ready))

SoundState == NeededSoundsHeld /\ NoRepeats(sounds) /\ Room

UserTypeOK ==
  /\ mode \in BOOLEAN
  /\ keys \subseteq Gate
  /\ mouse \in Gate \cup {NoGate}
  /\ pressed \subseteq Gate

EngineInv == EngineTypeOK /\ CallState /\ SoundState /\ Recent

Inv == EngineInv /\ UserTypeOK

LEMMA PlayingOnly == ASSUME NEW v PROVE Playing(v) \subseteq Plan
BY DEF Playing

(* Voices that are stopped, or change but keep playing, give up no sound   *)
(* that another needs.                                                     *)
LEMMA BecomeKeeps ==
  ASSUME EngineTypeOK, SoundState,
         NEW v, v \in [Plan -> {"off", "attack", "sustain", "release"}],
         Playing(v) \subseteq Playing(voice), Become(v)
  PROVE  /\ voice' = v /\ sounds' \in Seq(Sound) /\ held' \subseteq Sound
         /\ NoRepeats(sounds')
         /\ \A p \in Playing(v) : SoundOf(p) \in Range(sounds')
         /\ held' = Range(sounds') /\ Len(sounds') <= MaxSounds
         /\ Cardinality(Playing(v)) <= MaxPolyphony
<1> DEFINE N == Sounds(Playing(v))
           D == Surplus(sounds, v)
<1>1. voice' = v /\ sounds' = Without(sounds, D) /\ held' = held \ D
  BY DEF Become, Prune
<1>2. /\ IsFiniteSet(N) /\ Cardinality(N) \in Nat /\ Cardinality(Playing(v)) \in Nat
      /\ Cardinality(N) <= Cardinality(Playing(v))
  BY PlayingOnly, FewerSounds
<1>3. Cardinality(Playing(v)) <= MaxPolyphony
  <2> DEFINE P == Playing(voice) \cup todo \cup ready
  <2>1. P \subseteq Plan
    BY PlayingOnly DEF EngineTypeOK
  <2>2. IsFiniteSet(P) /\ Cardinality(P) \in Nat
    BY <2>1, FewerSounds
  <2>3. Cardinality(P) <= MaxPolyphony
    BY DEF SoundState, Room
  <2>4. Playing(v) \subseteq P
    OBVIOUS
  <2> HIDE DEF P
  <2>5. Cardinality(Playing(v)) <= Cardinality(P)
    BY <2>2, <2>4, FS_Subset
  <2> QED
    BY <1>2, <2>2, <2>3, <2>5, PolyphonyIsPositive
<1>4. Cardinality(N) <= MaxSounds
  BY <1>2, <1>3, PolyphonyIsPositive, CacheHoldsPolyphony
<1>5. /\ sounds \in Seq(Sound) /\ Len(sounds) \in Nat /\ Len(sounds) <= MaxSounds
      /\ NoRepeats(sounds) /\ held = Range(sounds) /\ held \subseteq Sound
      /\ \A p \in Playing(voice) : SoundOf(p) \in Range(sounds)
  BY DEF EngineTypeOK, SoundState, NeededSoundsHeld
<1>6. Len(sounds) <= MaxSounds + 1
  BY <1>5, CacheHoldsPolyphony
<1>7. Last(sounds, {})
  BY DEF Last
<1>8. N = Sounds(Playing(v)) \cup {}
  OBVIOUS
<1> HIDE DEF N
<1>9. /\ Without(sounds, D) \in Seq(Sound) /\ NoRepeats(Without(sounds, D))
      /\ Range(Without(sounds, D)) = Range(sounds) \ D
      /\ Len(Without(sounds, D)) <= MaxSounds
      /\ D \cap N = {}
  BY <1>2, <1>4, <1>5, <1>6, <1>7, <1>8, PruneSpares
<1> HIDE DEF D
<1>10. \A p \in Playing(v) : SoundOf(p) \in Range(sounds) /\ SoundOf(p) \in N
  BY <1>5, <1>8 DEF Sounds
<1> QED
  BY <1>1, <1>3, <1>5, <1>9, <1>10

(* What a call leaves when it no longer resolves or starts voices.         *)
Rests ==
  /\ phase' \in {"idle", "return", "failed"} /\ todo' = {} /\ ready' = {}
  /\ opening' \in Gate \cup {NoGate} /\ caller' \in {"none", "press", "preview"}
  /\ previews' \in [Gate -> 0..MaxPreviews] /\ configs' \subseteq Config
  /\ phase' # "idle" =>
       /\ opening' \in Gate /\ caller' # "none"
       /\ caller' = "preview" => previews'[opening'] < MaxPreviews

LEMMA RestsAfterBecome ==
  ASSUME EngineInv, Rests,
         NEW v, v \in [Plan -> {"off", "attack", "sustain", "release"}],
         Playing(v) \subseteq Playing(voice), Become(v)
  PROVE  EngineInv'
<1>1. /\ voice' = v /\ sounds' \in Seq(Sound) /\ held' \subseteq Sound
      /\ NoRepeats(sounds')
      /\ \A p \in Playing(v) : SoundOf(p) \in Range(sounds')
      /\ held' = Range(sounds') /\ Len(sounds') <= MaxSounds
      /\ Cardinality(Playing(v)) <= MaxPolyphony
  BY BecomeKeeps DEF EngineInv
<1>2. EngineTypeOK'
  BY <1>1 DEF Rests, EngineTypeOK
<1>3. CallState'
  BY DEF Rests, CallState
<1>4. Playing(voice') \cup todo' \cup ready' = Playing(v)
  BY <1>1 DEF Rests
<1>5. SoundState'
  <2>1. \A p \in Playing(voice') \cup ready' : SoundOf(p) \in Range(sounds')
    BY <1>1 DEF Rests
  <2>2. Room'
    BY <1>1, <1>4 DEF Room
  <2> QED
    BY <1>1, <2>1, <2>2 DEF SoundState, NeededSoundsHeld
<1>6. Recent'
  BY DEF Recent, Rests
<1> QED
  BY <1>2, <1>3, <1>5, <1>6 DEF EngineInv

LEMMA RestsUndisturbed ==
  ASSUME EngineInv, Rests,
         voice' \in [Plan -> {"off", "attack", "sustain", "release"}],
         Playing(voice') = Playing(voice), UNCHANGED <<sounds, held>>
  PROVE  EngineInv'
<1>1. EngineTypeOK'
  BY DEF Rests, EngineTypeOK, EngineInv
<1>2. CallState'
  BY DEF Rests, CallState
<1>3. Cardinality(Playing(voice)) <= MaxPolyphony
  <2> DEFINE P == Playing(voice) \cup todo \cup ready
  <2>1. P \subseteq Plan
    BY PlayingOnly DEF EngineTypeOK, EngineInv
  <2>2. IsFiniteSet(P) /\ Cardinality(P) \in Nat /\ Cardinality(Playing(voice)) \in Nat
    BY <2>1, PlayingOnly, FewerSounds
  <2>3. Cardinality(P) <= MaxPolyphony
    BY DEF EngineInv, SoundState, Room
  <2>4. Playing(voice) \subseteq P
    OBVIOUS
  <2> HIDE DEF P
  <2>5. Cardinality(Playing(voice)) <= Cardinality(P)
    BY <2>2, <2>4, FS_Subset
  <2> QED
    BY <2>2, <2>3, <2>5, PolyphonyIsPositive
<1>4. SoundState'
  <2>1. \A p \in Playing(voice') \cup ready' : SoundOf(p) \in Range(sounds')
    BY DEF Rests, EngineInv, SoundState, NeededSoundsHeld
  <2>2. Playing(voice') \cup todo' \cup ready' = Playing(voice)
    BY DEF Rests
  <2>3. Room'
    BY <1>3, <2>2 DEF Room
  <2> QED
    BY <2>1, <2>3 DEF EngineInv, SoundState, NeededSoundsHeld, NoRepeats
<1>5. Recent'
  BY DEF Recent, Rests
<1> QED
  BY <1>1, <1>2, <1>4, <1>5 DEF EngineInv

LEMMA RestsAfterShutdown ==
  ASSUME EngineInv, Rests, Shutdown
  PROVE  EngineInv'
<1>1. /\ voice' = [p \in Plan |-> "off"] /\ sounds' = <<>> /\ held' = {}
  BY DEF Shutdown
<1>2. Playing(voice') = {}
  BY <1>1 DEF Playing
<1>3. /\ Range(sounds') = {} /\ Len(sounds') = 0 /\ sounds' \in Seq(Sound)
      /\ NoRepeats(sounds')
  BY <1>1 DEF Range, NoRepeats
<1>4. EngineTypeOK'
  BY <1>1, <1>3 DEF Rests, EngineTypeOK
<1>5. CallState'
  BY DEF Rests, CallState
<1>6. SoundState'
  <2>1. Playing(voice') \cup todo' \cup ready' = {}
    BY <1>2 DEF Rests
  <2>2. Room'
    BY <2>1, FS_EmptySet, PolyphonyIsPositive DEF Room
  <2> QED
    BY <1>1, <1>2, <1>3, <2>2, CacheHoldsPolyphony DEF Rests, SoundState, NeededSoundsHeld
<1>7. Recent'
  BY DEF Recent, Rests
<1> QED
  BY <1>4, <1>5, <1>6, <1>7 DEF EngineInv

(* The handlers that end in these.                                         *)
LEMMA CloseGateRests ==
  ASSUME EngineInv, Rests, NEW g, CloseGate(g)
  PROVE  EngineInv'
<1>1. PICK ramped \in SUBSET {p \in ByGate(g) : Plans[p].release} :
        Become([p \in Plan |-> IF p \in ramped THEN "release"
                               ELSE IF p \in PlansOf(g) THEN "off" ELSE voice[p]])
  BY DEF CloseGate
<1> DEFINE v == [p \in Plan |-> IF p \in ramped THEN "release"
                                ELSE IF p \in PlansOf(g) THEN "off" ELSE voice[p]]
<1>2. voice \in [Plan -> {"off", "attack", "sustain", "release"}]
  BY DEF EngineInv, EngineTypeOK
<1>3. v \in [Plan -> {"off", "attack", "sustain", "release"}]
  BY <1>2
<1>4. Playing(v) \subseteq Playing(voice)
  BY <1>1 DEF Playing, ByGate
<1> HIDE DEF v
<1> QED
  BY <1>1, <1>3, <1>4, RestsAfterBecome DEF v

LEMMA StopsRest ==
  ASSUME EngineInv, Rests, NEW S, Become(Stopped(S))
  PROVE  EngineInv'
<1>1. voice \in [Plan -> {"off", "attack", "sustain", "release"}]
  BY DEF EngineInv, EngineTypeOK
<1>2. Stopped(S) \in [Plan -> {"off", "attack", "sustain", "release"}]
  BY <1>1 DEF Stopped
<1>3. Playing(Stopped(S)) \subseteq Playing(voice)
  BY DEF Playing, Stopped
<1> QED
  BY <1>2, <1>3, RestsAfterBecome

-----------------------------------------------------------------------------
(* The steps of a call.                                                    *)
LEMMA OpenKeeps ==
  ASSUME EngineInv, NEW g \in Gate, NEW who \in {"press", "preview"},
         who = "preview" => previews[g] < MaxPreviews,
         Open(g, who), configs' = configs
  PROVE  EngineInv'
<1>1. /\ phase = "idle" /\ phase' = "resolve" /\ opening' = g /\ todo' = Selected(g)
      /\ ready' = {} /\ caller' = who /\ UNCHANGED <<voice, sounds, held, previews>>
      /\ ByGate(g) = {} /\ Fits(g)
  BY DEF Open, Startable, engine
<1>2. Selected(g) \subseteq Plan
  BY DEF Selected, PlansOf
<1>3. EngineTypeOK'
  BY <1>1, <1>2 DEF EngineInv, EngineTypeOK
<1>4. CallState'
  <2>1. ByGate(opening)' = {} /\ Selected(opening)' = Selected(g)
    BY <1>1 DEF ByGate, PlansOf, Playing, Selected
  <2> QED
    BY <1>1, <2>1 DEF CallState
<1>5. Cardinality(Playing(voice) \cup Selected(g)) <= MaxPolyphony
  <2>1. /\ IsFiniteSet(Playing(voice)) /\ Cardinality(Playing(voice)) \in Nat
        /\ IsFiniteSet(Selected(g)) /\ Cardinality(Selected(g)) \in Nat
    BY <1>2, PlayingOnly, FewerSounds
  <2>2. Playing(voice) \cap Selected(g) = {}
    BY <1>1 DEF Selected, ByGate
  <2>3. Cardinality(Playing(voice) \cup Selected(g)) =
          Cardinality(Playing(voice)) + Cardinality(Selected(g)) - Cardinality({})
    BY <2>1, <2>2, FS_Union
  <2>4. Cardinality(Playing(voice)) + Cardinality(Selected(g)) <= MaxPolyphony
    BY <1>1 DEF Fits
  <2> QED
    BY <2>1, <2>3, <2>4, FS_EmptySet
<1>6. SoundState'
  <2>1. Playing(voice') \cup todo' \cup ready' = Playing(voice) \cup Selected(g)
    BY <1>1
  <2>2. Room'
    BY <1>5, <2>1 DEF Room
  <2> QED
    BY <1>1, <2>2 DEF EngineInv, SoundState, NeededSoundsHeld, NoRepeats
<1>7. Recent'
  BY <1>1 DEF Recent, Last, Sounds
<1> QED
  BY <1>3, <1>4, <1>6, <1>7 DEF EngineInv

LEMMA RejectKeeps ==
  ASSUME EngineInv, NEW g \in Gate, NEW who \in {"press", "preview"},
         who = "preview" => previews[g] < MaxPreviews,
         Reject(g, who), configs' = configs
  PROVE  EngineInv'
<1>1. Rests /\ UNCHANGED <<voice, sounds, held>>
  BY DEF Reject, Rests, engine, EngineInv, EngineTypeOK, CallState
<1>2. voice' \in [Plan -> {"off", "attack", "sustain", "release"}] /\ Playing(voice') = Playing(voice)
  BY <1>1 DEF EngineInv, EngineTypeOK
<1> QED
  BY <1>1, <1>2, RestsUndisturbed

LEMMA LatestLast ==
  ASSUME NEW S, NEW t \in Seq(S), NEW x \in S, NoRepeats(t), x \notin Range(t),
         NEW B, Last(t, B)
  PROVE  /\ Append(t, x) \in Seq(S) /\ NoRepeats(Append(t, x))
         /\ Last(Append(t, x), B \cup {x})
         /\ Range(Append(t, x)) = Range(t) \cup {x}
         /\ Len(Append(t, x)) = Len(t) + 1
<1> DEFINE u == Append(t, x)
<1>1. /\ Len(t) \in Nat /\ DOMAIN t = 1..Len(t) /\ u \in Seq(S)
      /\ Len(u) = Len(t) + 1 /\ DOMAIN u = 1..(Len(t) + 1) /\ u[Len(t) + 1] = x
      /\ \A i \in DOMAIN t : u[i] = t[i]
  OBVIOUS
<1> HIDE DEF u
<1>2. \A i \in DOMAIN t : u[i] = t[i] /\ t[i] \in Range(t)
  BY <1>1 DEF Range
<1>3. \A i \in DOMAIN u : i \in DOMAIN t \/ i = Len(t) + 1
  BY <1>1
<1>4. \A i \in DOMAIN t : i \in DOMAIN u /\ i < Len(t) + 1
  BY <1>1
<1>5. NoRepeats(u)
  <2> SUFFICES ASSUME NEW i \in DOMAIN u, NEW j \in DOMAIN u, u[i] = u[j] PROVE i = j
    BY DEF NoRepeats
  <2>1. CASE i \in DOMAIN t /\ j \in DOMAIN t
    BY <1>2, <2>1 DEF NoRepeats
  <2>2. CASE i = Len(t) + 1 /\ j \in DOMAIN t
    BY <1>1, <1>2, <2>2
  <2>3. CASE i \in DOMAIN t /\ j = Len(t) + 1
    BY <1>1, <1>2, <2>3
  <2> QED
    BY <1>3, <2>1, <2>2, <2>3
<1>6. Last(u, B \cup {x})
  <2> SUFFICES ASSUME NEW i \in DOMAIN u, NEW j \in DOMAIN u, i < j, u[i] \in B \cup {x}
               PROVE  u[j] \in B \cup {x}
    BY DEF Last
  <2>1. CASE j = Len(t) + 1
    BY <1>1, <2>1
  <2>2. CASE j \in DOMAIN t
    <3>1. i \in DOMAIN t
      BY <1>1, <2>2
    <3>2. t[i] \in B
      BY <1>2, <3>1
    <3> QED
      BY <1>2, <2>2, <3>1, <3>2 DEF Last
  <2> QED
    BY <1>3, <2>1, <2>2
<1>7. Range(u) = Range(t) \cup {x}
  <2>1. Range(u) \subseteq Range(t) \cup {x}
    BY <1>1, <1>2, <1>3 DEF Range
  <2>2. Range(t) \subseteq Range(u)
    BY <1>2, <1>4 DEF Range
  <2>3. x \in Range(u)
    BY <1>1 DEF Range
  <2> QED
    BY <2>1, <2>2, <2>3
<1> QED
  BY <1>1, <1>5, <1>6, <1>7 DEF u

(* The next sound of a chord: a cached one becomes the latest, another one *)
(* may cost a sound that neither a voice nor the chord needs.              *)
LEMMA ResolveKeeps ==
  ASSUME EngineInv, Resolve, configs' = configs
  PROVE  EngineInv'
<1> DEFINE p == Min(todo)
           x == SoundOf(p)
<1>1. /\ phase = "resolve" /\ todo # {} /\ todo' = todo \ {p} /\ ready' = ready \cup {p}
      /\ UNCHANGED <<voice, previews, phase, opening, caller>>
      /\ \/ (x \in Range(sounds) /\ sounds' = Append(Without(sounds, {x}), x) /\ held' = held)
         \/ (x \notin Range(sounds) /\ Prune(Append(sounds, x), held \cup {x}, voice))
  BY DEF Resolve
<1>2. /\ sounds \in Seq(Sound) /\ held \subseteq Sound /\ todo \subseteq Plan /\ ready \subseteq Plan
      /\ NoRepeats(sounds) /\ held = Range(sounds) /\ Len(sounds) <= MaxSounds
      /\ Last(sounds, Sounds(ready)) /\ Len(sounds) \in Nat
      /\ \A q \in Playing(voice) \cup ready : SoundOf(q) \in Range(sounds)
  BY <1>1 DEF EngineInv, EngineTypeOK, SoundState, NeededSoundsHeld, Recent
<1>3. p \in todo /\ p \in Plan /\ x \in Sound
  <2>1. todo \in SUBSET Nat
    BY <1>2, PlansAreFinite
  <2>2. p \in todo
    BY <1>1, <2>1, MinIsLeast
  <2> QED
    BY <1>2, <2>2, PlanTypes
<1> HIDE DEF p
<1>4. Sounds(ready \cup {p}) = Sounds(ready) \cup {x}
  BY DEF Sounds
<1>5. Playing(voice) \cup todo' \cup ready' = Playing(voice) \cup todo \cup ready
  BY <1>1, <1>3
<1> DEFINE A == Sounds(ready) \cup {x}
(* What has to be shown of the sounds, in either case.                     *)
<1>6. ASSUME sounds' \in Seq(Sound), NoRepeats(sounds'), Last(sounds', A),
             held' = Range(sounds'), Len(sounds') <= MaxSounds,
             \A q \in Playing(voice) \cup ready \cup {p} : SoundOf(q) \in Range(sounds')
      PROVE  EngineInv'
  <2>1. EngineTypeOK'
    <3>1. Range(sounds') \subseteq Sound
      BY <1>6 DEF Range
    <3> QED
      BY <1>1, <1>2, <1>3, <1>6, <3>1 DEF EngineInv, EngineTypeOK
  <2>2. CallState'
    <3>1. ByGate(opening)' = ByGate(opening) /\ Selected(opening)' = Selected(opening)
      BY <1>1 DEF ByGate, PlansOf, Playing, Selected
    <3>2. todo' \cup ready' = todo \cup ready
      BY <1>1, <1>3
    <3> QED
      BY <1>1, <3>1, <3>2 DEF EngineInv, CallState
  <2>3. SoundState'
    <3>1. Room'
      BY <1>1, <1>5 DEF EngineInv, SoundState, Room
    <3> QED
      BY <1>1, <1>6, <3>1 DEF SoundState, NeededSoundsHeld
  <2>4. Recent'
    BY <1>1, <1>4, <1>6 DEF Recent
  <2> QED
    BY <2>1, <2>2, <2>3, <2>4 DEF EngineInv
<1> HIDE DEF x
<1>7. CASE x \in Range(sounds) /\ sounds' = Append(Without(sounds, {x}), x) /\ held' = held
  <2> DEFINE t == Without(sounds, {x})
  <2>1. /\ t \in Seq(Sound) /\ NoRepeats(t) /\ Last(t, Sounds(ready))
        /\ Range(t) = Range(sounds) \ {x}
    BY <1>2, WithoutSelects, WithoutKeeps
  <2>2. sounds' = Append(t, x) /\ x \notin Range(t)
    BY <1>7, <2>1
  <2>3. Len(t) + 1 <= Len(sounds)
    <3> HIDE DEF t
    <3>1. Cardinality(Range(t)) = Len(t) /\ Cardinality(Range(sounds)) = Len(sounds)
      BY <1>2, <2>1, LengthCounts, Zenon
    <3>2. IsFiniteSet(Range(sounds)) /\ x \in Range(sounds)
      BY <1>2, <1>7, LengthCounts
    <3>3. Cardinality(Range(t)) = Cardinality(Range(sounds)) - 1
      BY <2>1, <3>2, FS_RemoveElement
    <3>4. Len(t) \in Nat
      BY <2>1
    <3> QED
      BY <1>2, <3>1, <3>3, <3>4
  <2> HIDE DEF t
  <2>4. /\ sounds' \in Seq(Sound) /\ NoRepeats(sounds') /\ Last(sounds', A)
        /\ Range(sounds') = Range(t) \cup {x} /\ Len(sounds') = Len(t) + 1
    BY <1>3, <2>1, <2>2, LatestLast
  <2>5. Range(sounds') = Range(sounds)
    BY <1>7, <2>1, <2>4
  <2>6. Len(sounds') <= MaxSounds
    BY <1>2, <2>1, <2>3, <2>4, CacheHoldsPolyphony
  <2>7. \A q \in Playing(voice) \cup ready \cup {p} : SoundOf(q) \in Range(sounds')
    BY <1>2, <1>7, <2>5 DEF x
  <2> QED
    BY <1>2, <1>6, <1>7, <2>4, <2>5, <2>6, <2>7
<1>8. CASE x \notin Range(sounds) /\ Prune(Append(sounds, x), held \cup {x}, voice)
  <2> DEFINE t == Append(sounds, x)
             D == Surplus(t, voice)
             P == Playing(voice) \cup ready \cup {p}
             N == Sounds(P)
  <2>1. /\ t \in Seq(Sound) /\ NoRepeats(t) /\ Last(t, A)
        /\ Range(t) = Range(sounds) \cup {x} /\ Len(t) = Len(sounds) + 1
    BY <1>2, <1>3, <1>8, LatestLast
  <2>2. sounds' = Without(t, D) /\ held' = (held \cup {x}) \ D
    BY <1>8 DEF Prune
  <2>3. N = Sounds(Playing(voice)) \cup A
    BY DEF Sounds, x
  <2>4. P \subseteq Plan
    BY <1>2, <1>3, PlayingOnly
  <2>5. /\ IsFiniteSet(P) /\ Cardinality(P) \in Nat
        /\ IsFiniteSet(N) /\ Cardinality(N) \in Nat /\ Cardinality(N) <= Cardinality(P)
    <3> HIDE DEF P
    <3> QED
      BY <2>4, FewerSounds
  <2>6. Cardinality(P) <= MaxPolyphony
    <3> DEFINE Q == Playing(voice) \cup todo \cup ready
    <3>1. IsFiniteSet(Q) /\ Cardinality(Q) \in Nat
      <4>1. Q \subseteq Plan
        BY <1>2, PlayingOnly
      <4> HIDE DEF Q
      <4> QED
        BY <4>1, FewerSounds
    <3>2. P \subseteq Q
      BY <1>3
    <3>3. Cardinality(Q) <= MaxPolyphony
      BY DEF EngineInv, SoundState, Room
    <3> HIDE DEF P, Q
    <3>4. Cardinality(P) <= Cardinality(Q)
      BY <3>1, <3>2, FS_Subset
    <3> QED
      BY <2>5, <3>1, <3>3, <3>4, PolyphonyIsPositive
  <2>7. Cardinality(N) <= MaxSounds /\ Len(t) <= MaxSounds + 1
    <3> HIDE DEF P, N, t
    <3> QED
      BY <1>2, <2>1, <2>5, <2>6, PolyphonyIsPositive, CacheHoldsPolyphony
  <2> HIDE DEF t, N, A, P
  <2>8. /\ Without(t, D) \in Seq(Sound) /\ NoRepeats(Without(t, D)) /\ Last(Without(t, D), A)
        /\ Range(Without(t, D)) = Range(t) \ D /\ Len(Without(t, D)) <= MaxSounds
        /\ D \cap N = {}
    BY <2>1, <2>3, <2>5, <2>7, PruneSpares
  <2> HIDE DEF D
  <2>9. \A q \in P : SoundOf(q) \in Range(t) /\ SoundOf(q) \in N
    BY <1>2, <2>1 DEF P, N, Sounds, x
  <2>10. \A q \in P : SoundOf(q) \in Range(sounds')
    BY <2>2, <2>8, <2>9
  <2>11. held' = Range(sounds')
    BY <1>2, <2>1, <2>2, <2>8
  <2> QED
    BY <1>6, <2>2, <2>8, <2>10, <2>11 DEF P, A
<1> QED
  BY <1>1, <1>7, <1>8

LEMMA ResolveFailsKeeps ==
  ASSUME EngineInv, ResolveFails, configs' = configs
  PROVE  EngineInv'
<1>1. SoundOf(Min(todo)) \notin Range(sounds) /\ held' = held \ {SoundOf(Min(todo))} /\ held = Range(sounds)
  BY DEF ResolveFails, EngineInv, SoundState, NeededSoundsHeld
<1>2. UNCHANGED <<sounds, held, voice>>
  BY <1>1 DEF ResolveFails
<1>3. Rests
  BY DEF ResolveFails, Fail, Rests, EngineInv, EngineTypeOK, CallState
<1>4. voice' \in [Plan -> {"off", "attack", "sustain", "release"}] /\ Playing(voice') = Playing(voice)
  BY <1>2 DEF EngineInv, EngineTypeOK
<1> QED
  BY <1>2, <1>3, <1>4, RestsUndisturbed

LEMMA LockDeviceKeeps ==
  ASSUME EngineInv, LockDevice, configs' = configs
  PROVE  EngineInv'
<1>1. /\ phase = "resolve" /\ todo = {} /\ phase' = "play"
      /\ UNCHANGED <<voice, sounds, held, previews, opening, todo, ready, caller>>
  BY DEF LockDevice, engine
<1>2. EngineTypeOK'
  BY <1>1 DEF EngineInv, EngineTypeOK
<1>3. CallState'
  <2>1. ByGate(opening)' = ByGate(opening) /\ Selected(opening)' = Selected(opening)
    BY <1>1 DEF ByGate, PlansOf, Playing, Selected
  <2> QED
    BY <1>1, <2>1 DEF EngineInv, CallState
<1>4. SoundState'
  BY <1>1 DEF EngineInv, SoundState, NeededSoundsHeld, NoRepeats, Room, Playing
<1>5. Recent'
  BY <1>1 DEF Recent
<1> QED
  BY <1>2, <1>3, <1>4, <1>5 DEF EngineInv

LEMMA PlayKeeps ==
  ASSUME EngineInv, Play, configs' = configs
  PROVE  EngineInv'
<1> DEFINE p == Min(ready)
<1>1. /\ phase = "play" /\ ready # {} /\ voice' = [voice EXCEPT ![p] = "sustain"]
      /\ ready' = ready \ {p}
      /\ UNCHANGED <<sounds, held, previews, phase, opening, todo, caller>>
  BY DEF Play
<1>2. ready \subseteq Plan /\ voice \in [Plan -> {"off", "attack", "sustain", "release"}]
  BY DEF EngineInv, EngineTypeOK
<1>3. p \in ready /\ p \in Plan
  <2>1. ready \in SUBSET Nat
    BY <1>2, PlansAreFinite
  <2>2. p \in ready
    BY <1>1, <2>1, MinIsLeast
  <2> QED
    BY <1>2, <2>2
<1> HIDE DEF p
<1>4. Playing(voice') = Playing(voice) \cup {p}
  BY <1>1, <1>2, <1>3 DEF Playing
<1>5. EngineTypeOK'
  BY <1>1, <1>2 DEF EngineInv, EngineTypeOK
<1>6. CallState'
  <2>1. Selected(opening)' = Selected(opening)
    BY <1>1 DEF PlansOf, Selected
  <2>2. p \in PlansOf(opening)
    BY <1>1, <1>3 DEF EngineInv, CallState, Selected
  <2>3. ByGate(opening)' = ByGate(opening) \cup {p}
    BY <1>1, <1>4, <2>2 DEF ByGate, PlansOf
  <2>4. ByGate(opening)' \cup ready' = ByGate(opening) \cup ready
    BY <1>1, <1>3, <2>3
  <2> QED
    BY <1>1, <2>1, <2>4 DEF EngineInv, CallState
<1>7. SoundState'
  <2>1. Playing(voice') \cup ready' = Playing(voice) \cup ready
    BY <1>1, <1>3, <1>4
  <2>2. Playing(voice') \cup todo' \cup ready' = Playing(voice) \cup todo \cup ready
    BY <1>1, <2>1
  <2>3. Room'
    BY <2>2 DEF EngineInv, SoundState, Room
  <2> QED
    BY <1>1, <2>1, <2>3 DEF EngineInv, SoundState, NeededSoundsHeld, NoRepeats
<1>8. Recent'
  BY <1>1 DEF Recent
<1> QED
  BY <1>5, <1>6, <1>7, <1>8 DEF EngineInv

LEMMA PlayFailsKeeps ==
  ASSUME EngineInv, PlayFails, configs' = configs
  PROVE  EngineInv'
<1>1. Rests
  BY DEF PlayFails, Fail, Rests, EngineInv, EngineTypeOK, CallState
<1> QED
  BY <1>1, StopsRest DEF PlayFails

LEMMA UnlockDeviceKeeps ==
  ASSUME EngineInv, UnlockDevice, configs' = configs
  PROVE  EngineInv'
<1> DEFINE fading == {p \in ByGate(opening) : Plans[p].attack}
<1>1. PICK fate \in [fading -> {"attack", "sustain", "off"}] :
        Become([p \in Plan |-> IF p \in fading THEN fate[p] ELSE voice[p]])
  BY DEF UnlockDevice
<1> DEFINE v == [p \in Plan |-> IF p \in fading THEN fate[p] ELSE voice[p]]
<1>2. voice \in [Plan -> {"off", "attack", "sustain", "release"}]
  BY DEF EngineInv, EngineTypeOK
<1>3. v \in [Plan -> {"off", "attack", "sustain", "release"}]
  BY <1>1, <1>2
<1>4. Playing(v) \subseteq Playing(voice)
  BY DEF Playing, ByGate
<1>5. Rests
  BY DEF UnlockDevice, Rests, EngineInv, EngineTypeOK, CallState
<1> HIDE DEF v
<1> QED
  BY <1>1, <1>3, <1>4, <1>5, RestsAfterBecome DEF v

LEMMA CallKeeps ==
  ASSUME Inv, Call
  PROVE  Inv'
<1>1. UNCHANGED <<configs, mode, keys, mouse, pressed>>
  BY DEF Call, user
<1>2. EngineInv'
  BY <1>1, ResolveKeeps, ResolveFailsKeeps, LockDeviceKeeps, PlayKeeps, PlayFailsKeeps, UnlockDeviceKeeps
     DEF Inv, Call
<1> QED
  BY <1>1, <1>2 DEF Inv, UserTypeOK

-----------------------------------------------------------------------------
(* The timers, and what the performer does.                                *)
LEMMA TimersKeep ==
  ASSUME Inv, Timers
  PROVE  Inv'
<1>1. UNCHANGED <<mode, keys, mouse, pressed>>
  BY DEF Timers, user
<1>2. voice \in [Plan -> {"off", "attack", "sustain", "release"}]
  BY DEF Inv, EngineInv, EngineTypeOK
<1>3. ASSUME NEW p \in Plan, RampEnds(p) PROVE EngineInv'
  <2>1. Rests
    BY <1>3 DEF RampEnds, Rests, call, Inv, EngineInv, EngineTypeOK, CallState
  <2>2. CASE voice[p] = "attack" /\ voice' = [voice EXCEPT ![p] = "sustain"] /\ UNCHANGED <<sounds, held>>
    <3>1. voice' \in [Plan -> {"off", "attack", "sustain", "release"}] /\ Playing(voice') = Playing(voice)
      BY <1>2, <2>2 DEF Playing
    <3> QED
      BY <2>1, <2>2, <3>1, RestsUndisturbed DEF Inv
  <2>3. CASE Become(Stopped({p}))
    BY <2>1, <2>3, StopsRest DEF Inv
  <2> QED
    BY <1>3, <2>2, <2>3 DEF RampEnds
<1>4. ASSUME NEW p \in Plan, RampFails(p) PROVE EngineInv'
  <2>1. Rests
    BY <1>4 DEF RampFails, Rests, call, Inv, EngineInv, EngineTypeOK, CallState
  <2> QED
    BY <1>4, <2>1, StopsRest DEF Inv, RampFails
<1>5. ASSUME NEW g \in Gate, PreviewEnds(g) PROVE EngineInv'
  <2>1. previews' \in [Gate -> 0..MaxPreviews]
    BY <1>5, PreviewBound DEF PreviewEnds, Inv, EngineInv, EngineTypeOK
  <2>2. Rests
    BY <1>5, <2>1 DEF PreviewEnds, Rests, call, Inv, EngineInv, EngineTypeOK, CallState
  <2> QED
    BY <1>5, <2>2, CloseGateRests DEF Inv, PreviewEnds
<1>6. EngineInv'
  BY <1>3, <1>4, <1>5 DEF Timers
<1> QED
  BY <1>1, <1>6 DEF Inv, UserTypeOK

LEMMA GateDownKeeps ==
  ASSUME EngineInv, NEW g \in Gate, phase = "idle", GateDown(g), configs' = configs
  PROVE  EngineInv'
<1>1. CASE Open(g, "press")
  BY <1>1, OpenKeeps
<1>2. CASE Reject(g, "press")
  BY <1>2, RejectKeeps
<1>3. CASE UNCHANGED <<engine, call>>
  <2>1. Rests /\ UNCHANGED <<voice, sounds, held>>
    BY <1>3 DEF Rests, engine, call, EngineInv, EngineTypeOK, CallState
  <2>2. voice' \in [Plan -> {"off", "attack", "sustain", "release"}] /\ Playing(voice') = Playing(voice)
    BY <2>1 DEF EngineInv, EngineTypeOK
  <2> QED
    BY <2>1, <2>2, RestsUndisturbed
<1> QED
  BY <1>1, <1>2, <1>3 DEF GateDown

LEMMA GateUpKeeps ==
  ASSUME EngineInv, NEW g \in Gate, phase = "idle", GateUp(g), UNCHANGED <<configs, call>>
  PROVE  EngineInv'
<1>1. Rests
  BY DEF Rests, GateUp, call, EngineInv, EngineTypeOK, CallState
<1> QED
  BY <1>1, CloseGateRests DEF GateUp

LEMMA ShutdownKeeps ==
  ASSUME EngineInv, Shutdown, configs' = configs,
         (phase = "idle" /\ UNCHANGED call) \/ (Over /\ todo = {} /\ ready = {})
  PROVE  EngineInv'
<1>1. previews' \in [Gate -> 0..MaxPreviews]
  BY PreviewBound DEF Shutdown
<1>2. Rests
  BY <1>1 DEF Rests, Over, call, EngineInv, EngineTypeOK, CallState
<1> QED
  BY <1>2, RestsAfterShutdown

LEMMA KeyboardKeeps ==
  ASSUME Inv, NEW g \in Gate, KeyPress(g) \/ KeyRelease(g) \/ MousePress(g) \/ Preview(g)
  PROVE  Inv'
<1>1. CASE KeyPress(g)
  <2>1. EngineInv'
    BY <1>1, GateDownKeeps DEF Inv, KeyPress, Idle
  <2> QED
    BY <1>1, <2>1 DEF Inv, UserTypeOK, KeyPress
<1>2. CASE KeyRelease(g)
  <2>1. EngineInv'
    BY <1>2, GateUpKeeps DEF Inv, KeyRelease, Idle
  <2> QED
    BY <1>2, <2>1 DEF Inv, UserTypeOK, KeyRelease, GateUp
<1>3. CASE MousePress(g)
  <2>1. EngineInv'
    BY <1>3, GateDownKeeps DEF Inv, MousePress, Idle
  <2> QED
    BY <1>3, <2>1 DEF Inv, UserTypeOK, MousePress
<1>4. CASE Preview(g)
  <2>1. EngineInv'
    BY <1>4, OpenKeeps, RejectKeeps DEF Inv, Preview
  <2> QED
    BY <1>4, <2>1 DEF Inv, UserTypeOK, Preview, user
<1> QED
  BY <1>1, <1>2, <1>3, <1>4

LEMMA ModeKeeps ==
  ASSUME Inv, Enter \/ Finish \/ StopAudio \/ MouseRelease \/ \E c \in Config : PickConfiguration(c)
  PROVE  Inv'
<1>1. ASSUME phase = "idle", UNCHANGED <<engine, call>>, configs' \subseteq Config PROVE EngineInv'
  <2>1. Rests /\ UNCHANGED <<voice, sounds, held>>
    BY <1>1 DEF Rests, engine, call, Inv, EngineInv, EngineTypeOK, CallState
  <2>2. voice' \in [Plan -> {"off", "attack", "sustain", "release"}] /\ Playing(voice') = Playing(voice)
    BY <2>1 DEF Inv, EngineInv, EngineTypeOK
  <2> QED
    BY <2>1, <2>2, RestsUndisturbed DEF Inv
<1>2. CASE Enter
  <2>1. EngineInv'
    BY <1>1, <1>2 DEF Enter, Idle, Inv, EngineInv, EngineTypeOK
  <2> QED
    BY <1>2, <2>1 DEF Inv, UserTypeOK, Enter
<1>3. CASE Finish
  <2>1. EngineInv'
    BY <1>3, ShutdownKeeps DEF Finish, Idle, Inv
  <2> QED
    BY <1>3, <2>1 DEF Inv, UserTypeOK, Finish
<1>4. CASE StopAudio
  <2>1. EngineInv'
    BY <1>4, ShutdownKeeps DEF StopAudio, Idle, Inv
  <2> QED
    BY <1>4, <2>1 DEF Inv, UserTypeOK, StopAudio
<1>5. CASE MouseRelease
  <2>1. PICK g \in Gate : g = mouse
    BY <1>5 DEF MouseRelease, Inv, UserTypeOK
  <2>2. GateUp(g) /\ mouse' = NoGate
    BY <1>5, <2>1 DEF MouseRelease
  <2>3. EngineInv'
    BY <1>5, <2>2, GateUpKeeps DEF MouseRelease, Idle, Inv
  <2> QED
    BY <1>5, <2>2, <2>3 DEF Inv, UserTypeOK, MouseRelease, GateUp
<1>6. ASSUME NEW c \in Config, PickConfiguration(c) PROVE Inv'
  <2>1. configs' \subseteq Config /\ UNCHANGED <<engine, call>> /\ phase = "idle"
    BY <1>6 DEF PickConfiguration, Idle, Inv, EngineInv, EngineTypeOK
  <2>2. EngineInv'
    BY <1>1, <2>1
  <2> QED
    BY <1>6, <2>2 DEF Inv, UserTypeOK, PickConfiguration, user
<1> QED
  BY <1>2, <1>3, <1>4, <1>5, <1>6

LEMMA ReturnsKeep ==
  ASSUME Inv, ReturnPress \/ ReturnPreview \/ RaisePress \/ RaisePreview
  PROVE  Inv'
<1>1. /\ voice \in [Plan -> {"off", "attack", "sustain", "release"}]
      /\ previews \in [Gate -> 0..MaxPreviews] /\ configs \subseteq Config
      /\ phase \in {"return", "failed"} /\ opening \in Gate /\ todo = {} /\ ready = {}
  BY DEF Inv, EngineInv, EngineTypeOK, CallState, ReturnPress, ReturnPreview, RaisePress, RaisePreview
<1>2. ASSUME UNCHANGED <<voice, sounds, held, configs>>, Over, previews' \in [Gate -> 0..MaxPreviews]
      PROVE  EngineInv'
  <2>1. Rests /\ voice' \in [Plan -> {"off", "attack", "sustain", "release"}]
        /\ Playing(voice') = Playing(voice)
    BY <1>1, <1>2 DEF Rests, Over
  <2> QED
    BY <1>2, <2>1, RestsUndisturbed DEF Inv
<1>3. CASE ReturnPress
  <2>1. EngineInv'
    BY <1>1, <1>2, <1>3 DEF ReturnPress, engine
  <2> QED
    BY <1>1, <1>3, <2>1 DEF Inv, UserTypeOK, ReturnPress
<1>4. CASE ReturnPreview
  <2>1. ASSUME previews' = [previews EXCEPT ![opening] = @ + 1], UNCHANGED <<voice, sounds, held>>
        PROVE  EngineInv'
    <3>1. previews[opening] < MaxPreviews /\ previews[opening] \in 0..MaxPreviews
      BY <1>1, <1>4 DEF ReturnPreview, Inv, EngineInv, CallState
    <3>2. previews' \in [Gate -> 0..MaxPreviews]
      BY <1>1, <2>1, <3>1, PreviewBound
    <3> QED
      BY <1>2, <1>4, <2>1, <3>2 DEF ReturnPreview
  <2>2. ASSUME CloseGate(opening), UNCHANGED previews
        PROVE  EngineInv'
    <3>1. Rests
      BY <1>1, <1>4, <2>2 DEF Rests, Over, ReturnPreview
    <3> QED
      BY <2>2, <3>1, CloseGateRests DEF Inv
  <2>3. EngineInv'
    BY <1>4, <2>1, <2>2 DEF ReturnPreview
  <2> QED
    BY <1>4, <2>3 DEF Inv, UserTypeOK, ReturnPreview, user
<1>5. CASE RaisePress
  <2>1. EngineInv'
    BY <1>1, <1>5, ShutdownKeeps DEF RaisePress, Inv
  <2> QED
    BY <1>5, <2>1 DEF Inv, UserTypeOK, RaisePress
<1>6. CASE RaisePreview
  <2>1. EngineInv'
    BY <1>1, <1>2, <1>6 DEF RaisePreview, engine
  <2> QED
    BY <1>6, <2>1 DEF Inv, UserTypeOK, RaisePreview, user
<1> QED
  BY <1>3, <1>4, <1>5, <1>6

LEMMA InitInv == Init => Inv
<1> SUFFICES ASSUME Init PROVE Inv
  OBVIOUS
<1>1. /\ voice = [p \in Plan |-> "off"] /\ sounds = <<>> /\ held = {}
      /\ phase = "idle" /\ opening = NoGate /\ todo = {} /\ ready = {} /\ caller = "none"
      /\ previews = [g \in Gate |-> 0] /\ configs \subseteq Config
  BY DEF Init, EngineInit
<1>2. Playing(voice) = {} /\ Range(sounds) = {} /\ Len(sounds) = 0 /\ sounds \in Seq(Sound)
  BY <1>1 DEF Playing, Range
<1>3. EngineTypeOK
  BY <1>1, <1>2, PreviewBound DEF EngineTypeOK
<1>4. CallState /\ Recent
  BY <1>1 DEF CallState, Recent
<1>5. Room
  <2>1. Playing(voice) \cup todo \cup ready = {}
    BY <1>1, <1>2
  <2> QED
    BY <2>1, FS_EmptySet, PolyphonyIsPositive DEF Room
<1>6. SoundState
  BY <1>1, <1>2, <1>5, CacheHoldsPolyphony DEF SoundState, NeededSoundsHeld, NoRepeats
<1>7. UserTypeOK
  BY DEF Init, UserTypeOK
<1> QED
  BY <1>3, <1>4, <1>6, <1>7 DEF Inv, EngineInv

LEMMA StutterKeeps == ASSUME Inv, UNCHANGED vars PROVE Inv'
BY DEF Inv, EngineInv, EngineTypeOK, CallState, SoundState, NeededSoundsHeld, NoRepeats, Room, Recent,
       Last, UserTypeOK, ByGate, PlansOf, Selected, Playing, Sounds, vars, engine, call, user

LEMMA StepInv == Inv /\ [Next]_vars => Inv'
BY CallKeeps, TimersKeep, KeyboardKeeps, ModeKeeps, ReturnsKeep, StutterKeeps DEF Next

LEMMA Invariant == Spec => []Inv
BY InitInv, StepInv, PTL DEF Spec

-----------------------------------------------------------------------------
(* Every variable keeps its type.                                          *)
THEOREM TypeCorrect == Spec => []TypeOK
<1>1. Inv => TypeOK
  BY DEF Inv, EngineInv, UserTypeOK, TypeOK
<1> QED
  BY <1>1, Invariant, PTL

(* A sound somebody needs is cached and its sample file is protected; none *)
(* is protected that is not cached; and the cache keeps to its size.  The  *)
(* engine prunes the least recently used idle sound after each sample it   *)
(* decodes, never that of an earlier voice of the same chord.              *)
THEOREM SoundsStayHeld == Spec => []NeededSoundsHeld
<1>1. Inv => NeededSoundsHeld
  BY DEF Inv, EngineInv, SoundState
<1> QED
  BY <1>1, Invariant, PTL

(* The device never plays more voices than the configured polyphony.       *)
THEOREM PolyphonyHolds == Spec => []WithinPolyphony
<1>1. Inv => WithinPolyphony
  <2> SUFFICES ASSUME Inv PROVE WithinPolyphony
    OBVIOUS
  <2> DEFINE P == Playing(voice) \cup todo \cup ready
  <2>1. P \subseteq Plan
    BY PlayingOnly DEF Inv, EngineInv, EngineTypeOK
  <2>2. IsFiniteSet(P) /\ Cardinality(P) \in Nat /\ Cardinality(Playing(voice)) \in Nat
    BY <2>1, PlayingOnly, FewerSounds
  <2>3. Cardinality(P) <= MaxPolyphony
    BY DEF Inv, EngineInv, SoundState, Room
  <2>4. Playing(voice) \subseteq P
    OBVIOUS
  <2> HIDE DEF P
  <2>5. Cardinality(Playing(voice)) <= Cardinality(P)
    BY <2>2, <2>4, FS_Subset
  <2> QED
    BY <2>2, <2>3, <2>5, PolyphonyIsPositive DEF WithinPolyphony
<1> QED
  BY <1>1, Invariant, PTL

(* The device is unlocked with every selected voice of the gate playing,   *)
(* or open_gate fails with none of the gate's voices playing.              *)
THEOREM GatesStartWhole == Spec => NoPartialGate
<1> DEFINE Whole ==
             phase = "play" /\ phase' # "play" =>
               \/ phase' = "return" /\ \A p \in Selected(opening) : voice[p] # "off"
               \/ phase' = "failed" /\ \A p \in PlansOf(opening) : voice'[p] = "off"
<1>1. Inv /\ [Next]_vars => [Whole]_<<engine, call>>
  <2> SUFFICES ASSUME Inv, [Next]_vars, phase = "play", phase' # "play" PROVE Whole
    OBVIOUS
  <2>1. UnlockDevice \/ PlayFails
    BY DEF Next, vars, call, Call, Timers, Resolve, ResolveFails, LockDevice, Play, RampEnds, RampFails,
           PreviewEnds, Enter, Finish, StopAudio, MouseRelease, KeyPress, KeyRelease, MousePress, Preview,
           PickConfiguration, ReturnPress, ReturnPreview, RaisePress, RaisePreview, Idle
  <2>2. CASE UnlockDevice
    <3>1. phase' = "return" /\ ready = {} /\ ByGate(opening) = Selected(opening)
      BY <2>2 DEF UnlockDevice, Inv, EngineInv, CallState
    <3> QED
      BY <3>1 DEF ByGate, Playing
  <2>3. CASE PlayFails
    <3>1. phase' = "failed" /\ voice' = Stopped(ByGate(opening))
      BY <2>3 DEF PlayFails, Fail, Become
    <3>2. \A p \in PlansOf(opening) : p \in Plan /\ (p \in ByGate(opening) \/ voice[p] = "off")
      BY DEF ByGate, Playing, PlansOf
    <3> QED
      BY <3>1, <3>2 DEF Stopped
  <2> QED
    BY <2>1, <2>2, <2>3
<1> QED
  BY <1>1, Invariant, PTL DEF Spec, NoPartialGate
=============================================================================
