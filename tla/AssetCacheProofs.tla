-------------------------- MODULE AssetCacheProofs --------------------------
(***************************************************************************)
(* The cache keeps the promise of ProtectedStore for any number of         *)
(* processes and assets, any sizes and quotas; and the lock under which it *)
(* does is a mutex, for any number of processes and threads.               *)
(***************************************************************************)
EXTENDS AssetCache, CacheLock, FiniteSetTheorems, TLAPS

-----------------------------------------------------------------------------
(* Induction, and what the bytes of the files of a set of assets come to.  *)
(* The library states induction of an operator, which the provers cannot   *)
(* instantiate, and well-foundedness of a relation, which they can: a set  *)
(* of naturals, or of subsets of a finite set, that has every element      *)
(* whose predecessors it has is all of them.                               *)
LEMMA NatSetInduction ==
  ASSUME NEW T \in SUBSET Nat, 0 \in T, \A n \in T : n + 1 \in T
  PROVE  T = Nat
<1> DEFINE R == OpToRel(<, Nat)
           U == Nat \ T
<1>1. IsWellFoundedOn(R, Nat)
  BY NatLessThanWellFounded
<1>2. SUFFICES ASSUME U # {} PROVE FALSE
  OBVIOUS
<1>3. PICK n \in U : \A m \in U : <<m, n>> \notin R
  <2> HIDE DEF R, U
  <2>1. U \subseteq Nat
    BY DEF U
  <2> QED
    BY <1>1, <1>2, <2>1, WFMin
<1>4. n # 0 /\ n - 1 \in Nat /\ n - 1 + 1 = n
  OBVIOUS
<1>5. <<n - 1, n>> \in R
  BY <1>4 DEF OpToRel
<1>6. n - 1 \in T
  BY <1>3, <1>4, <1>5
<1> QED
  BY <1>4, <1>6

(* SumFunctionOnSet adds the values of a function on a set in the order in *)
(* which CHOOSE takes the elements, by a function on the subsets.          *)
One(S) == CHOOSE x \in S : TRUE

Unfolds(g, f, S) == g = [s \in SUBSET S |-> IF s = {} THEN 0 ELSE f[One(s)] + g[s \ {One(s)}]]

Fold(f, S) == CHOOSE g : Unfolds(g, f, S)

LEMMA SumIsFold == ASSUME NEW f, NEW S PROVE SumFunctionOnSet(f, S) = Fold(f, S)[S]
BY DEF SumFunctionOnSet, FoldFunctionOnSet, MapThenFoldSet, Fold, Unfolds, One

(* There is such a function: on the sets of at most n elements, for all n. *)
LEMMA FoldExists ==
  ASSUME NEW f, NEW S, IsFiniteSet(S)
  PROVE  \E g : Unfolds(g, f, S)
<1> DEFINE D(n) == {s \in SUBSET S : Cardinality(s) <= n}
           Value(g, s) == IF s = {} THEN 0 ELSE f[One(s)] + g[s \ {One(s)}]
           Has(n) == \E g : g = [s \in D(n) |-> Value(g, s)]
           T == {n \in Nat : Has(n)}
<1>1. Has(0)
  <2> DEFINE g == [s \in D(0) |-> 0]
  <2>1. \A s \in D(0) : s = {}
    <3> SUFFICES ASSUME NEW s \in SUBSET S, Cardinality(s) <= 0 PROVE s = {}
      OBVIOUS
    <3>1. IsFiniteSet(s)
      BY FS_Subset
    <3>2. Cardinality(s) \in Nat
      BY <3>1, FS_CardinalityType
    <3>3. Cardinality(s) = 0
      BY <3>2
    <3> QED
      BY <3>1, <3>3, FS_EmptySet
  <2>2. g = [s \in D(0) |-> Value(g, s)]
    BY <2>1
  <2> QED
    BY <2>2
<1>2. ASSUME NEW n \in Nat, Has(n) PROVE Has(n + 1)
  <2>1. PICK g : g = [s \in D(n) |-> Value(g, s)]
    BY <1>2
  <2> DEFINE h == [s \in D(n + 1) |-> Value(g, s)]
  <2>2. ASSUME NEW s \in D(n + 1), s # {}
        PROVE  s \ {One(s)} \in D(n) /\ s \ {One(s)} \in D(n + 1)
    <3>1. One(s) \in s
      BY <2>2 DEF One
    <3>2. IsFiniteSet(s) /\ Cardinality(s) \in Nat /\ Cardinality(s) <= n + 1
      BY FS_Subset, FS_CardinalityType
    <3>3. Cardinality(s \ {One(s)}) = Cardinality(s) - 1
      BY <3>1, <3>2, FS_RemoveElement
    <3> QED
      BY <3>2, <3>3
  <2>3. ASSUME NEW s \in D(n + 1), s # {}
        PROVE  h[s \ {One(s)}] = g[s \ {One(s)}]
    <3> DEFINE t == s \ {One(s)}
    <3>1. t \in D(n) /\ t \in D(n + 1)
      BY <2>2, <2>3
    <3>2. h[t] = Value(g, t)
      BY <3>1
    <3>3. g[t] = Value(g, t)
      BY <2>1, <3>1
    <3> QED
      BY <3>2, <3>3
  <2>4. \A s \in D(n + 1) : Value(g, s) = Value(h, s)
    BY <2>3
  <2>5. h = [s \in D(n + 1) |-> Value(h, s)]
    BY <2>4
  <2> HIDE DEF h, D
  <2> QED
    BY <2>5
<1>3. T = Nat
  <2> HIDE DEF Has
  <2>1. T \subseteq Nat /\ 0 \in T /\ \A n \in T : n + 1 \in T
    BY <1>1, <1>2
  <2> HIDE DEF T
  <2> QED
    BY <2>1, NatSetInduction
<1>4. Cardinality(S) \in Nat
  BY FS_CardinalityType
<1>5. D(Cardinality(S)) = SUBSET S
  <2>1. \A s \in SUBSET S : Cardinality(s) <= Cardinality(S)
    BY FS_Subset
  <2> QED
    BY <2>1
<1>6. PICK g : g = [s \in D(Cardinality(S)) |-> Value(g, s)]
  BY <1>3, <1>4
<1> QED
  BY <1>5, <1>6 DEF Unfolds

LEMMA FoldUnfolds ==
  ASSUME NEW f, NEW S, IsFiniteSet(S)
  PROVE  Unfolds(Fold(f, S), f, S)
BY FoldExists DEF Fold

(* ... and of subsets.                                                     *)
LEMMA SubsetInduction ==
  ASSUME NEW S, IsFiniteSet(S), NEW T \in SUBSET (SUBSET S),
         \A s \in SUBSET S : (\A t \in SUBSET s : t # s => t \in T) => s \in T
  PROVE  T = SUBSET S
<1> DEFINE R == StrictSubsetOrdering(S)
           U == (SUBSET S) \ T
<1>1. IsWellFoundedOn(R, SUBSET S)
  BY FS_StrictSubsetOrderingWellFounded, FS_FiniteSubsetsOfFinite
<1>2. SUFFICES ASSUME U # {} PROVE FALSE
  OBVIOUS
<1>3. PICK s \in U : \A t \in U : <<t, s>> \notin R
  <2> HIDE DEF R, U
  <2>1. U \subseteq SUBSET S
    BY DEF U
  <2> QED
    BY <1>1, <1>2, <2>1, WFMin
<1>4. PICK t \in SUBSET s : t # s /\ t \notin T
  OBVIOUS
<1>5. t \in U /\ <<t, s>> \in R
  BY <1>4 DEF StrictSubsetOrdering
<1> QED
  BY <1>3, <1>5

(* The functions of two sets agree where both are defined.                 *)
LEMMA FoldOfSubset ==
  ASSUME NEW f, NEW S, IsFiniteSet(S), NEW s \in SUBSET S
  PROVE  Fold(f, S)[s] = Fold(f, s)[s]
<1> DEFINE T == {t \in SUBSET s : Fold(f, S)[t] = Fold(f, s)[t]}
<1>1. IsFiniteSet(s)
  BY FS_Subset
<1>2. Unfolds(Fold(f, S), f, S) /\ Unfolds(Fold(f, s), f, s)
  BY <1>1, FoldUnfolds
<1>3. ASSUME NEW t \in SUBSET s, \A u \in SUBSET t : u # t => u \in T
      PROVE  t \in T
  <2>1. CASE t = {}
    BY <1>2, <2>1 DEF Unfolds
  <2>2. CASE t # {}
    <3>1. One(t) \in t
      BY <2>2 DEF One
    <3>2. t \ {One(t)} \in T
      BY <1>3, <3>1
    <3>3. /\ Fold(f, S)[t] = f[One(t)] + Fold(f, S)[t \ {One(t)}]
          /\ Fold(f, s)[t] = f[One(t)] + Fold(f, s)[t \ {One(t)}]
      BY <1>2, <2>2 DEF Unfolds
    <3> QED
      BY <3>2, <3>3
  <2> QED
    BY <2>1, <2>2
<1>4. T = SUBSET s
  <2>1. T \in SUBSET (SUBSET s)
    OBVIOUS
  <2> HIDE DEF T
  <2> QED
    BY <1>1, <1>3, <2>1, SubsetInduction
<1> QED
  BY <1>4

(* The recursion of the sum itself.                                        *)
LEMMA SumUnfolds ==
  ASSUME NEW f, NEW S, IsFiniteSet(S)
  PROVE  SumFunctionOnSet(f, S) = IF S = {} THEN 0 ELSE f[One(S)] + SumFunctionOnSet(f, S \ {One(S)})
<1>1. Unfolds(Fold(f, S), f, S)
  BY FoldUnfolds
<1>2. Fold(f, S)[S] = IF S = {} THEN 0 ELSE f[One(S)] + Fold(f, S)[S \ {One(S)}]
  BY <1>1 DEF Unfolds
<1>3. Fold(f, S)[S \ {One(S)}] = Fold(f, S \ {One(S)})[S \ {One(S)}]
  BY FoldOfSubset
<1> QED
  BY <1>2, <1>3, SumIsFold

LEMMA SumType ==
  ASSUME NEW f, NEW S, IsFiniteSet(S), \A x \in S : f[x] \in Nat
  PROVE  SumFunctionOnSet(f, S) \in Nat
<1> DEFINE T == {s \in SUBSET S : SumFunctionOnSet(f, s) \in Nat}
<1>1. ASSUME NEW s \in SUBSET S, \A t \in SUBSET s : t # s => t \in T
      PROVE  s \in T
  <2>1. SumFunctionOnSet(f, s) = IF s = {} THEN 0 ELSE f[One(s)] + SumFunctionOnSet(f, s \ {One(s)})
    BY SumUnfolds, FS_Subset
  <2>2. CASE s # {}
    <3>1. One(s) \in s
      BY <2>2 DEF One
    <3>2. SumFunctionOnSet(f, s \ {One(s)}) \in Nat
      BY <1>1, <3>1
    <3> QED
      BY <2>1, <2>2, <3>1, <3>2
  <2> QED
    BY <2>1, <2>2
<1>2. T = SUBSET S
  <2>1. T \in SUBSET (SUBSET S)
    OBVIOUS
  <2> HIDE DEF T
  <2> QED
    BY <1>1, <2>1, SubsetInduction
<1> QED
  BY <1>2

(* The order does not matter: any element may be taken first.              *)
LEMMA SumWithout ==
  ASSUME NEW f, NEW S, IsFiniteSet(S), \A x \in S : f[x] \in Nat, NEW a \in S
  PROVE  SumFunctionOnSet(f, S) = f[a] + SumFunctionOnSet(f, S \ {a})
<1> DEFINE T == {s \in SUBSET S : \A b \in s : SumFunctionOnSet(f, s) = f[b] + SumFunctionOnSet(f, s \ {b})}
<1>1. ASSUME NEW s \in SUBSET S, \A t \in SUBSET s : t # s => t \in T, NEW b \in s
      PROVE  SumFunctionOnSet(f, s) = f[b] + SumFunctionOnSet(f, s \ {b})
  <2> DEFINE c == One(s)
  <2>1. c \in s
    BY DEF One
  <2>2. SumFunctionOnSet(f, s) = f[c] + SumFunctionOnSet(f, s \ {c})
    BY SumUnfolds, FS_Subset
  <2>3. CASE b # c
    <3>1. /\ SumFunctionOnSet(f, s \ {c}) = f[b] + SumFunctionOnSet(f, (s \ {c}) \ {b})
          /\ SumFunctionOnSet(f, s \ {b}) = f[c] + SumFunctionOnSet(f, (s \ {b}) \ {c})
      BY <1>1, <2>1, <2>3
    <3>2. (s \ {c}) \ {b} = (s \ {b}) \ {c}
      OBVIOUS
    <3>3. SumFunctionOnSet(f, (s \ {b}) \ {c}) \in Nat
      BY SumType, FS_Subset
    <3>4. f[b] \in Nat /\ f[c] \in Nat
      BY <2>1
    <3> QED
      BY <2>2, <3>1, <3>2, <3>3, <3>4
  <2> QED
    BY <2>2, <2>3
<1>2. T = SUBSET S
  <2>1. T \in SUBSET (SUBSET S)
    OBVIOUS
  <2>2. ASSUME NEW s \in SUBSET S, \A t \in SUBSET s : t # s => t \in T PROVE s \in T
    BY <1>1, <2>2
  <2> HIDE DEF T
  <2> QED
    BY <2>1, <2>2, SubsetInduction
<1> QED
  BY <1>2

(* Only the values on the set matter.                                      *)
LEMMA SumSame ==
  ASSUME NEW f, NEW g, NEW S, IsFiniteSet(S), \A x \in S : f[x] = g[x]
  PROVE  SumFunctionOnSet(f, S) = SumFunctionOnSet(g, S)
<1> DEFINE T == {s \in SUBSET S : SumFunctionOnSet(f, s) = SumFunctionOnSet(g, s)}
<1>1. ASSUME NEW s \in SUBSET S, \A t \in SUBSET s : t # s => t \in T
      PROVE  s \in T
  <2>1. /\ SumFunctionOnSet(f, s) = IF s = {} THEN 0 ELSE f[One(s)] + SumFunctionOnSet(f, s \ {One(s)})
        /\ SumFunctionOnSet(g, s) = IF s = {} THEN 0 ELSE g[One(s)] + SumFunctionOnSet(g, s \ {One(s)})
    BY SumUnfolds, FS_Subset
  <2>2. CASE s # {}
    <3>1. One(s) \in s
      BY <2>2 DEF One
    <3>2. s \ {One(s)} \in T
      BY <1>1, <3>1
    <3> QED
      BY <2>1, <2>2, <3>1, <3>2
  <2> QED
    BY <2>1, <2>2
<1>2. T = SUBSET S
  <2>1. T \in SUBSET (SUBSET S)
    OBVIOUS
  <2> HIDE DEF T
  <2> QED
    BY <1>1, <2>1, SubsetInduction
<1> QED
  BY <1>2

LEMMA SumZero ==
  ASSUME NEW f, NEW S, IsFiniteSet(S), \A x \in S : f[x] = 0
  PROVE  SumFunctionOnSet(f, S) = 0
<1> DEFINE T == {s \in SUBSET S : SumFunctionOnSet(f, s) = 0}
<1>1. ASSUME NEW s \in SUBSET S, \A t \in SUBSET s : t # s => t \in T
      PROVE  s \in T
  <2>1. SumFunctionOnSet(f, s) = IF s = {} THEN 0 ELSE f[One(s)] + SumFunctionOnSet(f, s \ {One(s)})
    BY SumUnfolds, FS_Subset
  <2>2. CASE s # {}
    <3>1. One(s) \in s
      BY <2>2 DEF One
    <3>2. s \ {One(s)} \in T
      BY <1>1, <3>1
    <3> QED
      BY <2>1, <2>2, <3>1, <3>2
  <2> QED
    BY <2>1, <2>2
<1>2. T = SUBSET S
  <2>1. T \in SUBSET (SUBSET S)
    OBVIOUS
  <2> HIDE DEF T
  <2> QED
    BY <1>1, <2>1, SubsetInduction
<1> QED
  BY <1>2

(* One value that changes changes the sum by as much.                      *)
LEMMA SumChange ==
  ASSUME NEW f, NEW g, NEW S, IsFiniteSet(S), NEW a \in S,
         \A x \in S : f[x] \in Nat /\ g[x] \in Nat, \A x \in S \ {a} : f[x] = g[x]
  PROVE  SumFunctionOnSet(g, S) + f[a] = SumFunctionOnSet(f, S) + g[a]
<1>1. IsFiniteSet(S \ {a})
  BY FS_Subset
<1>2. SumFunctionOnSet(f, S \ {a}) = SumFunctionOnSet(g, S \ {a})
  BY <1>1, SumSame
<1>3. SumFunctionOnSet(f, S \ {a}) \in Nat
  BY <1>1, SumType
<1>4. /\ SumFunctionOnSet(f, S) = f[a] + SumFunctionOnSet(f, S \ {a})
      /\ SumFunctionOnSet(g, S) = g[a] + SumFunctionOnSet(g, S \ {a})
  BY SumWithout
<1> QED
  BY <1>2, <1>3, <1>4

-----------------------------------------------------------------------------

(* The quota of a process is at most the largest one.                      *)
LEMMA LargestIsLargest ==
  ASSUME NEW p \in Proc
  PROVE  LargestQuota \in Nat /\ Quota[p] <= LargestQuota
<1> DEFINE Q == {Quota[q] : q \in Proc}
           T == {s \in SUBSET Q : s # {} => \E m \in s : \A n \in s : m >= n}
<1>1. Q \subseteq Nat /\ Q # {}
  BY QuotasAreNatural
<1>2. IsFiniteSet(Q)
  <2>1. [q \in Proc |-> Quota[q]] \in Surjection(Proc, Q)
    BY DEF Surjection
  <2> HIDE DEF Q
  <2> QED
    BY <2>1, CacheIsFinite, FS_Surjection
<1>3. ASSUME NEW s \in SUBSET Q, \A t \in SUBSET s : t # s => t \in T
      PROVE  s \in T
  <2>1. ASSUME NEW x \in s, s \ {x} # {}
        PROVE  \E m \in s : \A n \in s : m >= n
    <3>1. PICK m \in s \ {x} : \A n \in s \ {x} : m >= n
      <4>1. s \ {x} \in SUBSET s /\ s \ {x} # s
        OBVIOUS
      <4>2. s \ {x} \in T
        BY <1>3, <4>1
      <4> QED
        BY <2>1, <4>2
    <3>2. m \in Nat /\ x \in Nat
      BY <1>1
    <3>3. \A n \in s : (IF m >= x THEN m ELSE x) >= n
      BY <1>1, <3>1, <3>2
    <3> QED
      BY <3>3
  <2>2. ASSUME NEW x \in s, s \ {x} = {}
        PROVE  \E m \in s : \A n \in s : m >= n
    BY <1>1, <2>2
  <2> QED
    BY <2>1, <2>2
<1>4. T = SUBSET Q
  <2>1. T \in SUBSET (SUBSET Q)
    OBVIOUS
  <2> HIDE DEF T, Q
  <2> QED
    BY <1>2, <1>3, <2>1, SubsetInduction
<1>5. \E m \in Q : \A n \in Q : m >= n
  BY <1>1, <1>4
<1>6. LargestQuota \in Q /\ \A n \in Q : LargestQuota >= n
  <2> HIDE DEF Q
  <2>1. Max(Q) \in Q /\ \A n \in Q : Max(Q) >= n
    BY <1>5 DEF Max
  <2> QED
    BY <2>1 DEF LargestQuota, Q
<1> QED
  BY <1>1, <1>6

(* What files and copies weigh.                                            *)
LEMMA FilesWeigh ==
  ASSUME NEW S \in SUBSET Asset
  PROVE  /\ SumFunctionOnSet(Size, S) \in Nat
         /\ \A a \in S : SumFunctionOnSet(Size, S) = SumFunctionOnSet(Size, S \ {a}) + Size[a]
<1>1. IsFiniteSet(S) /\ \A a \in S : Size[a] \in Nat
  BY CacheIsFinite, SizesAreNatural, FS_Subset
<1>2. SumFunctionOnSet(Size, S) \in Nat
  BY <1>1, SumType
<1>3. ASSUME NEW a \in S
      PROVE  SumFunctionOnSet(Size, S) = SumFunctionOnSet(Size, S \ {a}) + Size[a]
  <2>1. SumFunctionOnSet(Size, S \ {a}) \in Nat
    BY <1>1, SumType, FS_Subset
  <2>2. SumFunctionOnSet(Size, S) = Size[a] + SumFunctionOnSet(Size, S \ {a})
    BY <1>1, SumWithout
  <2> QED
    BY <1>1, <2>1, <2>2
<1> QED
  BY <1>2, <1>3

LEMMA CopiesWeigh ==
  ASSUME NEW q \in [Asset -> Nat]
  PROVE  BytesOf(q) \in Nat
<1>1. \A a \in Asset : [b \in Asset |-> Size[b] * q[b]][a] \in Nat
  BY SizesAreNatural
<1> QED
  BY <1>1, CacheIsFinite, SumType DEF BytesOf

LEMMA NoCopiesWeighNothing ==
  ASSUME NEW q, \A a \in Asset : q[a] = 0
  PROVE  BytesOf(q) = 0
<1>1. \A a \in Asset : [b \in Asset |-> Size[b] * q[b]][a] = 0
  BY SizesAreNatural
<1> QED
  BY <1>1, CacheIsFinite, SumZero DEF BytesOf

LEMMA AnotherCopy ==
  ASSUME NEW q \in [Asset -> Nat], NEW r \in [Asset -> Nat], NEW a \in Asset,
         r[a] = q[a] + 1, \A b \in Asset \ {a} : r[b] = q[b]
  PROVE  BytesOf(r) = BytesOf(q) + Size[a]
<1> DEFINE f == [b \in Asset |-> Size[b] * q[b]]
           g == [b \in Asset |-> Size[b] * r[b]]
<1>1. \A b \in Asset : f[b] \in Nat /\ g[b] \in Nat
  BY SizesAreNatural
<1>2. \A b \in Asset \ {a} : f[b] = g[b]
  OBVIOUS
<1>3. g[a] = f[a] + Size[a] /\ Size[a] \in Nat
  BY SizesAreNatural
<1>4. SumFunctionOnSet(g, Asset) + f[a] = SumFunctionOnSet(f, Asset) + g[a]
  <2> HIDE DEF f, g
  <2> QED
    BY <1>1, <1>2, CacheIsFinite, SumChange
<1>5. SumFunctionOnSet(g, Asset) \in Nat /\ SumFunctionOnSet(f, Asset) \in Nat
  <2> HIDE DEF f, g
  <2> QED
    BY <1>1, CacheIsFinite, SumType
<1>6. BytesOf(q) = SumFunctionOnSet(f, Asset) /\ BytesOf(r) = SumFunctionOnSet(g, Asset)
  BY DEF BytesOf
<1>7. f[a] \in Nat /\ g[a] \in Nat
  BY <1>1
<1> HIDE DEF f, g
<1> QED
  BY <1>3, <1>4, <1>5, <1>6, <1>7

-----------------------------------------------------------------------------
(* The locals of the operation inside the lock say what it is.             *)
Frame ==
  /\ pc # "idle" <=> lock # Nobody
  /\ pc \notin {"idle", "clear", "done"} => asset \in Asset
  /\ goal \in {"hit", "published"} =>
       asset \in Asset /\ pc \in {"sweep", "evict", "register", "count", "done"}
  /\ goal \in {"tampered", "reserve"} => asset \in Asset
  /\ pc \in {"idle", "check", "clear"} => goal = "none"
  /\ pc \in {"room", "write"} => goal = "reserve"

(* A partial file is there to be renamed or removed.                       *)
Writing == pc = "write" => partials[asset] > 0

(* What the operation inside the lock knows of the files it may not touch, *)
(* and of the one it hands out or is about to write.                       *)
Files ==
  /\ PS!HeldIsPresent
  /\ pc = "evict" => \A a \in Asset : Leased(a) => a \in active
  /\ pc = "clear" => leases = {}
  /\ goal \in {"tampered", "reserve"} => store[asset] = "absent"
  /\ goal \in {"hit", "published"} => store[asset] # "absent"
  /\ goal \in {"hit", "published"} /\ pc = "evict" => asset \in active
  /\ pc = "register" => store[asset] # "absent"

IInv == TypeOK /\ Frame /\ Writing /\ Files

-----------------------------------------------------------------------------
LEMMA InitIInv == Init => IInv
<1> SUFFICES ASSUME Init PROVE IInv
  OBVIOUS
<1>1. TypeOK
  <2>1. /\ store \in [Asset -> {"absent", "good", "bad"}]
        /\ quarantine \in [Asset -> Nat]
        /\ partials \in [Asset -> Nat]
        /\ count \in [Proc -> [Asset -> Nat]]
    BY DEF Init
  <2>2. /\ leases \subseteq Proc \X Asset
        /\ stale \subseteq Asset
        /\ active \subseteq Asset
        /\ lock \in Proc \cup {Nobody}
        /\ asset \in Asset \cup {NoAsset}
    BY DEF Init
  <2>3. pc \in Phases /\ goal \in Goals /\ protect \in BOOLEAN
    BY DEF Init, Phases, Goals
  <2>4. tampers \in Nat /\ crashes \in Nat
    BY DEF Init
  <2>5. QED
    BY <2>1, <2>2, <2>3, <2>4 DEF TypeOK
<1>2. Frame /\ Writing /\ Files
  BY DEF Init, Frame, Writing, Files, PS!HeldIsPresent, Leased
<1>3. QED
  BY <1>1, <1>2 DEF IInv

LEMMA StepFrame == ASSUME IInv, [Next]_vars PROVE Frame' /\ Writing'
<1> USE NobodyIsNoProcess DEF IInv, TypeOK, Phases, Frame, Writing, disk, prot, frame, Goto,
        Enter, Leave, Enforce
<1>1. ASSUME NEW p \in Proc, Begin(p) PROVE Frame' /\ Writing'
  BY <1>1 DEF Begin, BeginExtract, BeginEnforce, BeginRegister, BeginClear
<1>2. CASE Oversize \/ Hit \/ Miss \/ Quarantine \/ RefuseTampered
  BY <1>2 DEF Oversize, Hit, Miss, Quarantine, RefuseTampered, Fits
<1>3. CASE Sweep \/ (\E a \in Asset : EvictAsset(a) \/ EvictQuarantined(a))
  BY <1>3 DEF Sweep, EvictAsset, EvictQuarantined
<1>4. CASE AfterTampered \/ AfterReserve \/ AfterExtract \/ AfterOthers
  BY <1>4 DEF AfterTampered, AfterReserve, AfterExtract, AfterOthers, Enforced
<1>5. CASE Write \/ Publish \/ TakeLease \/ Register \/ Release \/ Return \/ Raise
  <2>1. CASE Write
    BY <2>1 DEF Write
  <2>2. CASE Publish
    BY <2>2 DEF Publish
  <2>3. CASE TakeLease \/ Register
    BY <2>3 DEF TakeLease, Register
  <2>4. CASE Release \/ Return \/ Raise
    BY <2>4 DEF Release, Return, Raise
  <2>5. QED
    BY <1>5, <2>1, <2>2, <2>3, <2>4
<1>6. CASE (\E a \in Asset : ClearFile(a)) \/ Cleared
  BY <1>6 DEF ClearFile, Cleared
<1>7. CASE \E p \in Proc, a \in Asset : Unregister(p, a)
  BY <1>7 DEF Unregister
<1>8. CASE \E a \in Asset : Tamper(a)
  BY <1>8 DEF Tamper
<1>9. CASE \E p \in Proc : Crash(p)
  BY <1>9 DEF Crash
<1>10. CASE UNCHANGED vars
  BY <1>10 DEF vars
<1>11. QED
  BY <1>1, <1>2, <1>3, <1>4, <1>5, <1>6, <1>7, <1>8, <1>9, <1>10
     DEF Next, Advance

LEMMA StepFiles == ASSUME IInv, [Next]_vars PROVE Files'
<1> USE NobodyIsNoProcess DEF IInv, TypeOK, Phases, Frame, Files, PS!HeldIsPresent, Leased,
        disk, prot, frame, Goto, Enter, Leave, Enforce
<1>1. ASSUME NEW p \in Proc, Begin(p) PROVE Files'
  <2>1. ASSUME NEW a \in Asset, NEW keep \in BOOLEAN, BeginExtract(p, a, keep)
        PROVE  Files'
    BY <2>1 DEF BeginExtract
  <2>2. ASSUME NEW a \in Asset, NEW keep \in BOOLEAN, BeginEnforce(p, a, keep)
        PROVE  Files'
    BY <2>2 DEF BeginEnforce
  <2>3. ASSUME NEW a \in Asset, BeginRegister(p, a)
        PROVE  Files'
    <3>1. store[asset'] # "absent" /\ goal' = "none" /\ pc' = "register"
      BY <2>3 DEF BeginRegister
    <3>2. UNCHANGED <<store, leases>>
      BY <2>3 DEF BeginRegister
    <3>3. QED
      BY <3>1, <3>2
  <2>4. CASE BeginClear(p)
    <3>1. UNCHANGED <<store, leases, asset, goal, active>>
      BY <2>4 DEF BeginClear
    <3>2. CASE UNCHANGED pc
      BY <3>1, <3>2
    <3>3. CASE pc' = "clear" /\ \A a \in Present : ~Leased(a)
      <4>1. \A q \in Proc, a \in Asset : <<q, a>> \notin leases
        BY <3>3 DEF Present
      <4>2. leases = {}
        BY <4>1
      <4>3. goal = "none"
        BY <2>4, <3>2, <3>3 DEF BeginClear
      <4>4. QED
        BY <3>1, <3>3, <4>2, <4>3
    <3>4. QED
      BY <2>4, <3>2, <3>3 DEF BeginClear
  <2>5. QED
    BY <1>1, <2>1, <2>2, <2>3, <2>4 DEF Begin
<1>2. CASE Oversize \/ Hit \/ Miss
  BY <1>2 DEF Oversize, Hit, Miss, Fits
<1>3. CASE Quarantine
  BY <1>3 DEF Quarantine, Fits, InUse
<1>4. CASE RefuseTampered
  BY <1>4 DEF RefuseTampered, Fits
<1>5. CASE Sweep
  BY <1>5 DEF Sweep, Present, Shield
<1>6. CASE \E a \in Asset : EvictAsset(a) \/ EvictQuarantined(a)
  BY <1>6 DEF EvictAsset, EvictQuarantined, Evictable
<1>7. CASE AfterTampered \/ AfterReserve \/ AfterExtract \/ AfterOthers
  BY <1>7 DEF AfterTampered, AfterReserve, AfterExtract, AfterOthers, Enforced
<1>8. CASE Write \/ Return \/ Raise
  BY <1>8 DEF Write, Return, Raise
<1>9. CASE Publish
  BY <1>9 DEF Publish
<1>10. CASE TakeLease \/ Register \/ Release
  BY <1>10 DEF TakeLease, Register, Release
<1>11. CASE (\E a \in Asset : ClearFile(a)) \/ Cleared
  BY <1>11 DEF ClearFile, Cleared
<1>12. CASE \E p \in Proc, a \in Asset : Unregister(p, a)
  BY <1>12 DEF Unregister
<1>13. CASE \E a \in Asset : Tamper(a)
  BY <1>13 DEF Tamper
<1>14. ASSUME NEW p \in Proc, Crash(p) PROVE Files'
  <2>1. leases' \subseteq leases /\ UNCHANGED store
    BY <1>14 DEF Crash
  <2>2. CASE lock = p
    <3>1. pc' = "idle" /\ goal' = "none"
      BY <1>14, <2>2 DEF Crash
    <3>2. QED
      BY <2>1, <3>1
  <2>3. CASE lock # p
    <3>1. UNCHANGED <<pc, goal, asset, active>>
      BY <1>14, <2>3 DEF Crash
    <3>2. QED
      BY <2>1, <3>1
  <2>4. QED
    BY <2>2, <2>3
<1>15. CASE UNCHANGED vars
  BY <1>15 DEF vars
<1>16. QED
  BY <1>1, <1>2, <1>3, <1>4, <1>5, <1>6, <1>7, <1>8, <1>9, <1>10, <1>11,
     <1>12, <1>13, <1>14, <1>15 DEF Next, Advance
LEMMA StepType == ASSUME IInv, [Next]_vars PROVE TypeOK'
<1> USE NobodyIsNoProcess DEF IInv, TypeOK, Phases, Goals, Frame, disk, prot, frame,
        Goto, Enter, Leave, Enforce
<1>1. ASSUME NEW p \in Proc, Begin(p) PROVE TypeOK'
  BY <1>1 DEF Begin, BeginExtract, BeginEnforce, BeginRegister, BeginClear, ScanLeases
<1>2. CASE Oversize \/ Hit \/ Miss
  BY <1>2 DEF Oversize, Hit, Miss, Fits
<1>3. CASE Quarantine \/ RefuseTampered
  <2>1. stale' \subseteq Asset
    BY <1>3 DEF Quarantine, RefuseTampered, ScanLeases
  <2>2. CASE Quarantine
    BY <2>1, <2>2 DEF Quarantine, Fits
  <2>3. CASE RefuseTampered
    BY <2>1, <2>3 DEF RefuseTampered
  <2>4. QED
    BY <1>3, <2>2, <2>3
<1>4. CASE Sweep
  BY <1>4 DEF Sweep, Present, Registered, Shield, ScanLeases
<1>5. CASE \E a \in Asset : EvictAsset(a) \/ EvictQuarantined(a)
  BY <1>5 DEF EvictAsset, EvictQuarantined, Quarantined
<1>6. CASE AfterTampered \/ AfterReserve \/ AfterExtract \/ AfterOthers
  BY <1>6 DEF AfterTampered, AfterReserve, AfterExtract, AfterOthers, Enforced
<1>7. CASE Write \/ Publish
  BY <1>7 DEF Write, Publish, Writing
<1>8. CASE Return \/ Raise
  <2>1. CASE Return
    BY <2>1 DEF Return
  <2>2. CASE Raise
    <3>1. partials' \in [Asset -> Nat]
      BY <2>2 DEF Raise, Writing
    <3>2. stale' \subseteq Asset
      BY <2>2 DEF Raise, MayLeave, UnfinishedLease
    <3>3. QED
      BY <2>2, <3>1, <3>2 DEF Raise
  <2>3. QED
    BY <1>8, <2>1, <2>2
<1>9. CASE TakeLease \/ Register \/ Release
  <2>1. CASE TakeLease
    BY <2>1 DEF TakeLease
  <2>2. CASE Register
    BY <2>2 DEF Register
  <2>3. CASE Release
    BY <2>3 DEF Release, MayLeave
  <2>4. QED
    BY <1>9, <2>1, <2>2, <2>3
<1>10. CASE (\E a \in Asset : ClearFile(a)) \/ Cleared
  BY <1>10 DEF ClearFile, Cleared
<1>11. CASE \E p \in Proc, a \in Asset : Unregister(p, a)
  BY <1>11 DEF Unregister
<1>12. CASE \E a \in Asset : Tamper(a)
  BY <1>12 DEF Tamper
<1>13. ASSUME NEW p \in Proc, Crash(p) PROVE TypeOK'
  <2>1. /\ count' \in [Proc -> [Asset -> Nat]]
        /\ leases' \subseteq Proc \X Asset
        /\ crashes' \in Nat
    BY <1>13 DEF Crash
  <2>2. stale' \subseteq Asset
    BY <1>13 DEF Crash, UnfinishedLease
  <2>3. /\ lock' \in Proc \cup {Nobody}
        /\ pc' \in Phases
        /\ asset' \in Asset \cup {NoAsset}
        /\ protect' \in BOOLEAN
        /\ goal' \in Goals
        /\ active' \subseteq Asset
    BY <1>13 DEF Crash
  <2>4. UNCHANGED <<store, quarantine, partials, tampers>>
    BY <1>13 DEF Crash
  <2>5. QED
    BY <2>1, <2>2, <2>3, <2>4
<1>14. CASE UNCHANGED vars
  BY <1>14 DEF vars
<1>15. QED
  BY <1>1, <1>2, <1>3, <1>4, <1>5, <1>6, <1>7, <1>8, <1>9, <1>10, <1>11,
     <1>12, <1>13, <1>14 DEF Next, Advance

(* The inductive invariant.                                                *)
LEMMA Inductive == Spec => []IInv
<1>1. IInv /\ [Next]_vars => IInv'
  BY StepFrame, StepFiles, StepType DEF IInv
<1>2. QED
  BY InitIInv, <1>1, PTL DEF Spec

(* Every variable always has its type (the state AssetCache declares): in  *)
(* particular no count of registrations or files ever becomes negative.    *)
THEOREM TypeCorrect == Spec => []TypeOK
<1>1. IInv => TypeOK
  BY DEF IInv
<1>2. QED
  BY Inductive, <1>1, PTL

(* A file some living process holds a lease on exists, whatever eviction,  *)
(* quarantine, clearing, cancellation or a crash did in any process.       *)
THEOREM LeasedFilesExist == Spec => []HeldIsPresent
<1>1. IInv => HeldIsPresent
  BY DEF IInv, Files, HeldIsPresent
<1>2. QED
  BY Inductive, <1>1, PTL

(* The cache implements ProtectedStore: no operation of any process moves, *)
(* removes or replaces a file while some process holds a lease on it.      *)
THEOREM CacheKeepsPromise == Spec => KeepsPromise
<1> USE DEF PS!svars
<1>1. Init => PS!Init
  BY DEF Init, PS!Init
<1>2. ASSUME IInv, [Next]_vars PROVE [PS!Next]_(PS!svars)
  <2> USE NobodyIsNoProcess DEF disk, prot, frame, PS!Next
  <2>1. CASE Quarantine
    <3>1. PS!Withdraw(asset)
      BY <1>2, <2>1 DEF Quarantine, Fits, InUse, Leased, PS!Withdraw, PS!Free
    <3>2. asset \in Asset
      BY <1>2, <2>1 DEF IInv, Frame, Quarantine, Fits
    <3>3. QED
      BY <3>1, <3>2
  <2>2. ASSUME NEW a \in Asset, EvictAsset(a) PROVE PS!Withdraw(a)
    BY <1>2, <2>2 DEF EvictAsset, Evictable, Present, IInv, Files, Leased,
                      PS!Withdraw, PS!Free
  <2>3. ASSUME NEW a \in Asset, ClearFile(a) PROVE [PS!Next]_(PS!svars)
    <3>1. PS!Free(a)
      BY <1>2, <2>3 DEF ClearFile, IInv, Files, PS!Free
    <3>2. PS!Withdraw(a) \/ UNCHANGED <<store, leases>>
      BY <2>3, <3>1 DEF ClearFile, PS!Withdraw
    <3>3. QED
      BY <3>2
  <2>4. CASE Publish
    <3>1. asset \in Asset /\ store[asset] = "absent"
      BY <1>2, <2>4 DEF IInv, Frame, Files, Publish
    <3>2. PS!Publish(asset)
      BY <2>4, <3>1 DEF Publish, PS!Publish
    <3>3. QED
      BY <3>1, <3>2
  <2>5. CASE TakeLease
    <3>1. asset \in Asset /\ store[asset] # "absent" /\ lock \in Proc
      BY <1>2, <2>5 DEF IInv, TypeOK, Frame, Files, TakeLease, Goto
    <3>2. PS!Hold(lock, asset) \/ UNCHANGED <<store, leases>>
      BY <2>5, <3>1 DEF TakeLease, PS!Hold
    <3>3. QED
      BY <3>1, <3>2
  <2>6. CASE Release
    <3>1. asset \in Asset /\ lock \in Proc
      BY <1>2, <2>6 DEF IInv, TypeOK, Frame, Release
    <3>2. PS!Drop(lock, asset)
      BY <2>6, <3>1 DEF Release, PS!Drop
    <3>3. QED
      BY <3>1, <3>2
  <2>7. ASSUME NEW a \in Asset, Tamper(a) PROVE PS!Damage(a)
    BY <2>7 DEF Tamper, PS!Damage
  <2>8. ASSUME NEW p \in Proc, Crash(p) PROVE PS!Die(p)
    BY <2>8 DEF Crash, PS!Die
  <2>9. CASE \/ \E p \in Proc : Begin(p)
             \/ Oversize \/ Hit \/ Miss \/ RefuseTampered \/ Sweep
             \/ \E a \in Asset : EvictQuarantined(a)
             \/ AfterTampered \/ AfterReserve \/ AfterExtract \/ AfterOthers
             \/ Write \/ Register \/ Return \/ Raise \/ Cleared
             \/ \E p \in Proc, a \in Asset : Unregister(p, a)
    BY <2>9 DEF Begin, BeginExtract, BeginEnforce, BeginRegister, BeginClear,
                Enforce, Leave, Oversize, Hit, Miss, RefuseTampered, Sweep,
                EvictQuarantined, AfterTampered, AfterReserve, AfterExtract,
                AfterOthers, Write, Register, Return, Raise, Cleared,
                Unregister
  <2>10. CASE UNCHANGED vars
    BY <2>10 DEF vars
  <2>11. QED
    BY <1>2, <2>1, <2>2, <2>3, <2>4, <2>5, <2>6, <2>7, <2>8, <2>9, <2>10
       DEF Next, Advance
<1>3. QED
  BY <1>1, <1>2, Inductive, PTL DEF Spec, KeepsPromise, PS!Spec

-----------------------------------------------------------------------------
(* What is half done: a lease taken but not yet counted, and one no longer *)
(* counted but not yet released.                                           *)
Registrations ==
  /\ LeaseIffRegistered
  /\ pc = "count" => <<lock, asset>> \in leases
  /\ pc = "release" => count[lock][asset] = 0

LEMMA StepLeases == ASSUME IInv, Registrations, [Next]_vars PROVE Registrations'
<1> USE NobodyIsNoProcess DEF disk, prot, frame, Goto, Enter, Leave, Enforce, HalfRegistered
<1>0. /\ count \in [Proc -> [Asset -> Nat]]
      /\ leases \subseteq Proc \X Asset
      /\ pc # "idle" <=> lock # Nobody
      /\ pc \in {"register", "count", "release"} => lock \in Proc /\ asset \in Asset
  BY DEF IInv, TypeOK, Frame
<1>1. ASSUME UNCHANGED <<count, leases>>, pc \notin {"count", "release"},
             pc' \notin {"count", "release"}
      PROVE  Registrations'
  BY <1>1 DEF Registrations, LeaseIffRegistered
<1>2. ASSUME UNCHANGED <<count, leases, pc, lock, asset>>
      PROVE  Registrations'
  BY <1>2 DEF Registrations, LeaseIffRegistered
<1>3. CASE TakeLease
  <2>1. /\ lock \in Proc /\ asset \in Asset
        /\ pc' = "count" /\ lock' = lock /\ asset' = asset /\ count' = count /\ pc = "register"
    BY <1>0, <1>3 DEF TakeLease
  <2>2. leases' = leases \cup {<<lock, asset>>}
    <3>1. CASE asset \in Registered(lock)
      <4>1. <<lock, asset>> \in leases
        BY <2>1, <3>1 DEF Registered, Registrations, LeaseIffRegistered
      <4> QED
        BY <1>3, <3>1, <4>1 DEF TakeLease
    <3>2. CASE asset \notin Registered(lock)
      BY <1>3, <3>2 DEF TakeLease
    <3> QED
      BY <3>1, <3>2
  <2> QED
    BY <2>1, <2>2 DEF Registrations, LeaseIffRegistered
<1>4. CASE Register
  <2>1. /\ lock \in Proc /\ asset \in Asset /\ pc = "count" /\ pc' = "done"
        /\ leases' = leases /\ <<lock, asset>> \in leases
    BY <1>0, <1>4 DEF Register, Registrations
  <2> SUFFICES ASSUME NEW p \in Proc, NEW a \in Asset
               PROVE  /\ count'[p][a] > 0 => <<p, a>> \in leases
                      /\ <<p, a>> \in leases => count'[p][a] > 0
    BY <2>1 DEF Registrations, LeaseIffRegistered
  <2>2. /\ count[p][a] \in Nat
        /\ count[p][a] > 0 => <<p, a>> \in leases
        /\ <<p, a>> \in leases => count[p][a] > 0 \/ (p = lock /\ a = asset)
    BY <1>0 DEF Registrations, LeaseIffRegistered
  <2>3. count'[p][a] = IF p = lock /\ a = asset THEN count[p][a] + 1 ELSE count[p][a]
    BY <1>0, <1>4, <2>1 DEF Register
  <2> QED
    BY <2>1, <2>2, <2>3
<1>5. ASSUME NEW q \in Proc, NEW b \in Asset, Unregister(q, b) PROVE Registrations'
  <2>1. /\ lock = Nobody /\ pc = "idle" /\ leases' = leases
        /\ count[q][b] \in Nat /\ count[q][b] > 0 /\ <<q, b>> \in leases
        /\ count'[q][b] = count[q][b] - 1
    BY <1>0, <1>5 DEF Unregister, Registrations, LeaseIffRegistered
  <2>2. /\ count[q][b] = 1 => lock' = q /\ asset' = b /\ pc' = "release"
        /\ count[q][b] # 1 => pc' = "idle"
    BY <1>5, <2>1 DEF Unregister
  <2>3. ASSUME NEW p \in Proc, NEW a \in Asset
        PROVE  /\ count'[p][a] > 0 => <<p, a>> \in leases
               /\ <<p, a>> \in leases => count'[p][a] > 0 \/ HalfRegistered(p, a)'
    <3>1. /\ count[p][a] \in Nat
          /\ count[p][a] > 0 <=> <<p, a>> \in leases
      BY <1>0, <2>1 DEF Registrations, LeaseIffRegistered
    <3>2. count'[p][a] = IF p = q /\ a = b THEN count[p][a] - 1 ELSE count[p][a]
      BY <1>0, <1>5 DEF Unregister
    <3> QED
      BY <2>1, <2>2, <3>1, <3>2
  <2>4. pc' = "release" => count'[lock'][asset'] = 0
    BY <2>1, <2>2
  <2> QED
    BY <2>1, <2>2, <2>3, <2>4 DEF Registrations, LeaseIffRegistered
<1>6. CASE Release
  <2>1. /\ lock \in Proc /\ asset \in Asset /\ pc = "release" /\ pc' = "idle"
        /\ count' = count /\ leases' = leases \ {<<lock, asset>>}
        /\ count[lock][asset] = 0
    BY <1>0, <1>6 DEF Release, Registrations
  <2> SUFFICES ASSUME NEW p \in Proc, NEW a \in Asset
               PROVE  /\ count[p][a] > 0 => <<p, a>> \in leases'
                      /\ <<p, a>> \in leases' => count[p][a] > 0
    BY <2>1 DEF Registrations, LeaseIffRegistered
  <2>2. /\ count[p][a] > 0 => <<p, a>> \in leases
        /\ <<p, a>> \in leases => count[p][a] > 0 \/ (p = lock /\ a = asset)
    BY DEF Registrations, LeaseIffRegistered
  <2>3. <<p, a>> \in leases' <=> <<p, a>> \in leases /\ ~(p = lock /\ a = asset)
    BY <2>1
  <2> QED
    BY <2>1, <2>2, <2>3
<1>7. ASSUME NEW q \in Proc, Crash(q) PROVE Registrations'
  <2>1. leases' = {l \in leases : l[1] # q}
    BY <1>7 DEF Crash
  <2>2. /\ lock = q => lock' = Nobody /\ pc' = "idle"
        /\ lock # q => UNCHANGED <<lock, pc, asset>>
    BY <1>7 DEF Crash
  <2>3. ASSUME NEW p \in Proc, NEW a \in Asset
        PROVE  /\ count'[p][a] > 0 => <<p, a>> \in leases'
               /\ <<p, a>> \in leases' => count'[p][a] > 0 \/ HalfRegistered(p, a)'
    <3>1. /\ count[p][a] > 0 => <<p, a>> \in leases
          /\ <<p, a>> \in leases => count[p][a] > 0 \/ HalfRegistered(p, a)
      BY DEF Registrations, LeaseIffRegistered
    <3>2. count'[p][a] = IF p = q THEN 0 ELSE count[p][a]
      BY <1>0, <1>7 DEF Crash
    <3>3. <<p, a>> \in leases' <=> <<p, a>> \in leases /\ p # q
      BY <2>1
    <3> QED
      BY <2>2, <3>1, <3>2, <3>3
  <2>4. pc' = "count" => <<lock', asset'>> \in leases'
    BY <2>1, <2>2 DEF Registrations
  <2>5. pc' = "release" => count'[lock'][asset'] = 0
    <3>1. CASE pc' = "release"
      <4>1. lock # q /\ lock' = lock /\ asset' = asset /\ pc = "release"
        BY <2>2, <3>1
      <4>2. count'[lock][asset] = count[lock][asset]
        BY <1>0, <1>7, <4>1 DEF Crash
      <4> QED
        BY <4>1, <4>2 DEF Registrations
    <3> QED
      BY <3>1
  <2> QED
    BY <2>3, <2>4, <2>5 DEF Registrations, LeaseIffRegistered
<1>8. CASE \/ \E p \in Proc : Begin(p)
           \/ Oversize \/ Hit \/ Miss \/ Quarantine \/ RefuseTampered \/ Sweep
           \/ AfterTampered \/ AfterReserve \/ AfterExtract \/ AfterOthers
           \/ Write \/ Publish \/ Return \/ Raise \/ Cleared
  <2>1. /\ UNCHANGED <<count, leases>>
        /\ \/ pc \notin {"count", "release"} /\ pc' \notin {"count", "release"}
           \/ UNCHANGED <<pc, lock, asset>>
    BY <1>8 DEF Begin, BeginExtract, BeginEnforce, BeginRegister, BeginClear, Oversize, Hit,
       Miss, Fits, Quarantine, RefuseTampered, Sweep, AfterTampered, AfterReserve, AfterExtract,
       AfterOthers, Enforced, Write, Publish, Return, Raise, Cleared
  <2> QED
    BY <1>1, <1>2, <2>1
<1>9. CASE \/ \E a \in Asset : EvictAsset(a) \/ EvictQuarantined(a)
           \/ \E a \in Asset : ClearFile(a)
           \/ \E a \in Asset : Tamper(a)
  BY <1>2, <1>9 DEF EvictAsset, EvictQuarantined, ClearFile, Tamper
<1>10. CASE UNCHANGED vars
  BY <1>2, <1>10 DEF vars
<1> QED
  BY <1>3, <1>4, <1>5, <1>6, <1>7, <1>8, <1>9, <1>10 DEF Next, Advance

LEMMA RegistrationsInductive == Spec => []Registrations
<1>1. Init => Registrations
  BY DEF Init, Registrations, LeaseIffRegistered
<1> QED
  BY <1>1, StepLeases, Inductive, PTL DEF Spec

(* No lease leaks and no registration is invisible to other processes,     *)
(* whoever registers, unregisters or dies, and whichever of the two steps  *)
(* fails (_register_protected_locked(), unregister_protected()).           *)
THEOREM LeasesAreRegistrations == Spec => []LeaseIffRegistered
<1>1. Registrations => LeaseIffRegistered
  BY DEF Registrations
<1> QED
  BY <1>1, RegistrationsInductive, PTL

(* What enforcement spares is what it shields and what living processes    *)
(* registered: the lease files of the dead pin nothing.                    *)
THEOREM TheDeadPinNothing == Spec => OnlyLiveUsersPin
<1>1. ASSUME IInv, LeaseIffRegistered, Next, pc = "sweep", pc' = "evict"
      PROVE  active' \subseteq Shield \cup UNION {Registered(p) : p \in Proc}
  <2>1. Sweep
    BY <1>1 DEF Next, Begin, BeginExtract, BeginEnforce, BeginRegister, BeginClear, Enter, Advance,
       Oversize, Hit, Miss, Fits, Quarantine, RefuseTampered, EvictAsset, EvictQuarantined,
       AfterTampered, AfterReserve, AfterExtract, AfterOthers, Enforced, Write, Publish, TakeLease,
       Register, Release, Return, Raise, ClearFile, Cleared, Unregister, Tamper, Crash, Leave, Enforce, Goto, frame
  <2>2. lock \in Proc
    BY <1>1 DEF IInv, TypeOK, Frame
  <2>3. \A a \in Asset : Leased(a) => a \in UNION {Registered(p) : p \in Proc}
    BY <1>1 DEF LeaseIffRegistered, HalfRegistered, Leased, Registered
  <2>4. active' = Shield \cup Registered(lock) \cup {a \in Present : Leased(a)}
    BY <2>1 DEF Sweep
  <2>5. /\ \A a \in Present : Leased(a) => a \in UNION {Registered(p) : p \in Proc}
        /\ Registered(lock) \subseteq UNION {Registered(p) : p \in Proc}
    BY <2>2, <2>3 DEF Present
  <2> QED
    BY Zenon, <2>4, <2>5
<1>2. IInv /\ LeaseIffRegistered /\ [Next]_vars
        => [pc = "sweep" /\ pc' = "evict"
              => active' \subseteq Shield \cup UNION {Registered(p) : p \in Proc}]_vars
  BY <1>1
<1> QED
  BY <1>2, Inductive, LeasesAreRegistrations, PTL DEF Spec, OnlyLiveUsersPin

-----------------------------------------------------------------------------
(* Partial files do not survive the sweep before room is reserved, so what *)
(* is reserved is free; what is published had its room reserved.           *)
Room ==
  /\ WithinQuota
  /\ pc \in {"evict", "room"} => \A a \in Asset : partials[a] = 0
  /\ pc \in {"room", "write"} => Bytes + Size[asset] <= Quota[lock]
  /\ goal = "published" => Bytes <= Quota[lock]

LEMMA Weights ==
  ASSUME TypeOK
  PROVE  /\ SumFunctionOnSet(Size, Present) \in Nat
         /\ BytesOf(quarantine) \in Nat
         /\ BytesOf(partials) \in Nat
         /\ Bytes \in Nat
<1>1. Present \in SUBSET Asset
  BY DEF Present
<1>2. SumFunctionOnSet(Size, Present) \in Nat
  BY <1>1, FilesWeigh
<1>3. BytesOf(quarantine) \in Nat /\ BytesOf(partials) \in Nat
  BY CopiesWeigh DEF TypeOK
<1> QED
  BY <1>2, <1>3 DEF Bytes

(* Removing a file, or a copy, takes away its size.                        *)
LEMMA FileGone ==
  ASSUME TypeOK, NEW a \in Asset, store[a] # "absent",
         store' = [store EXCEPT ![a] = "absent"]
  PROVE  SumFunctionOnSet(Size, Present) = SumFunctionOnSet(Size, Present') + Size[a]
<1>1. Present \in SUBSET Asset /\ a \in Present
  BY DEF Present
<1>2. Present' = Present \ {a}
  BY DEF Present, TypeOK
<1> QED
  BY <1>1, <1>2, FilesWeigh

LEMMA FileThere ==
  ASSUME TypeOK, NEW a \in Asset, store[a] = "absent",
         store' = [store EXCEPT ![a] = "good"]
  PROVE  SumFunctionOnSet(Size, Present') = SumFunctionOnSet(Size, Present) + Size[a]
<1>1. Present' \in SUBSET Asset /\ a \in Present'
  BY DEF Present, TypeOK
<1>2. Present = Present' \ {a}
  BY DEF Present, TypeOK
<1> QED
  BY <1>1, <1>2, FilesWeigh

LEMMA CopyGone ==
  ASSUME NEW q \in [Asset -> Nat], NEW a \in Asset, q[a] > 0
  PROVE  BytesOf(q) = BytesOf([q EXCEPT ![a] = @ - 1]) + Size[a]
<1> DEFINE r == [q EXCEPT ![a] = @ - 1]
<1>1. r \in [Asset -> Nat] /\ q[a] = r[a] + 1 /\ \A b \in Asset \ {a} : q[b] = r[b]
  OBVIOUS
<1> HIDE DEF r
<1>2. BytesOf(q) = BytesOf(r) + Size[a]
  BY <1>1, AnotherCopy
<1> QED
  BY <1>2 DEF r

LEMMA CopyThere ==
  ASSUME NEW q \in [Asset -> Nat], NEW a \in Asset
  PROVE  BytesOf([q EXCEPT ![a] = @ + 1]) = BytesOf(q) + Size[a]
<1> DEFINE r == [q EXCEPT ![a] = @ + 1]
<1>1. r \in [Asset -> Nat] /\ r[a] = q[a] + 1 /\ \A b \in Asset \ {a} : r[b] = q[b]
  OBVIOUS
<1> HIDE DEF r
<1>2. BytesOf(r) = BytesOf(q) + Size[a]
  BY <1>1, AnotherCopy
<1> QED
  BY <1>2 DEF r

(* Only writing a partial file and publishing it make the cache heavier.   *)
Lighter == Bytes' <= Bytes /\ Bytes' + BytesOf(partials') <= Bytes + BytesOf(partials)

LEMMA MostStepsLighten ==
  ASSUME IInv, [Next]_vars, ~Write, ~Publish
  PROVE  Lighter
<1> USE DEF Lighter, disk
<1>0. /\ Bytes \in Nat /\ BytesOf(partials) \in Nat /\ BytesOf(quarantine) \in Nat
      /\ SumFunctionOnSet(Size, Present) \in Nat
  BY Weights DEF IInv
<1>1. /\ BytesOf(partials') \in Nat /\ BytesOf(quarantine') \in Nat /\ Bytes' \in Nat
      /\ SumFunctionOnSet(Size, Present') \in Nat
  <2>1. TypeOK'
    BY StepType
  <2>2. partials' \in [Asset -> Nat] /\ quarantine' \in [Asset -> Nat]
    BY <2>1 DEF TypeOK
  <2>3. Present' \in SUBSET Asset
    BY DEF Present
  <2>4. SumFunctionOnSet(Size, Present') \in Nat
    BY <2>3, FilesWeigh
  <2>5. BytesOf(partials') \in Nat /\ BytesOf(quarantine') \in Nat
    BY <2>2, CopiesWeigh
  <2> QED
    BY <2>4, <2>5 DEF Bytes
<1>2. /\ Bytes = SumFunctionOnSet(Size, Present) + BytesOf(quarantine)
      /\ Bytes' = SumFunctionOnSet(Size, Present') + BytesOf(quarantine')
  BY DEF Bytes
<1>3. \A a \in Asset : Size[a] \in Nat
  BY SizesAreNatural
<1>4. TypeOK /\ Frame /\ Files /\ Writing
  BY DEF IInv
<1>5. store' = store => Present' = Present
  BY DEF Present
<1>6. CASE UNCHANGED disk
  <2>1. Present' = Present /\ quarantine' = quarantine /\ partials' = partials
    BY <1>5, <1>6
  <2> QED
    BY <1>0, <1>2, <2>1
<1>7. CASE Quarantine
  <2>1. asset \in Asset /\ store[asset] # "absent"
    BY <1>4, <1>7 DEF Quarantine, Fits, Frame
  <2>2. SumFunctionOnSet(Size, Present) = SumFunctionOnSet(Size, Present') + Size[asset]
    BY <1>4, <1>7, <2>1, FileGone DEF Quarantine
  <2>3. BytesOf(quarantine') = BytesOf(quarantine) + Size[asset] /\ partials' = partials
    BY <1>4, <1>7, <2>1, CopyThere DEF Quarantine, TypeOK
  <2> QED
    BY <1>0, <1>1, <1>2, <1>3, <2>1, <2>2, <2>3
<1>8. CASE Sweep
  <2>1. store' = store /\ quarantine' = quarantine /\ \A a \in Asset : partials'[a] = 0
    BY <1>8 DEF Sweep
  <2>2. BytesOf(partials') = 0
    BY <2>1, NoCopiesWeighNothing
  <2> QED
    BY <1>0, <1>1, <1>2, <1>5, <2>1, <2>2
<1>9. ASSUME NEW a \in Asset, store[a] # "absent", store' = [store EXCEPT ![a] = "absent"],
             UNCHANGED <<quarantine, partials>>
      PROVE  Lighter
  <2>1. SumFunctionOnSet(Size, Present) = SumFunctionOnSet(Size, Present') + Size[a]
    BY <1>4, <1>9, FileGone
  <2> QED
    BY <1>0, <1>1, <1>2, <1>3, <1>9, <2>1
<1>10. ASSUME NEW a \in Asset, quarantine[a] > 0,
              quarantine' = [quarantine EXCEPT ![a] = @ - 1], UNCHANGED <<store, partials>>
       PROVE  Lighter
  <2>1. BytesOf(quarantine) = BytesOf(quarantine') + Size[a]
    BY <1>4, <1>10, CopyGone DEF TypeOK
  <2> QED
    BY <1>0, <1>1, <1>2, <1>3, <1>5, <1>10, <2>1
<1>11. ASSUME NEW a \in Asset, partials[a] > 0,
              partials' = [partials EXCEPT ![a] = @ - 1], UNCHANGED <<store, quarantine>>
       PROVE  Lighter
  <2>1. BytesOf(partials) = BytesOf(partials') + Size[a]
    BY <1>4, <1>11, CopyGone DEF TypeOK
  <2> QED
    BY <1>0, <1>1, <1>2, <1>3, <1>5, <1>11, <2>1
<1>12. ASSUME NEW a \in Asset, EvictAsset(a)
       PROVE  Lighter
  BY <1>9, <1>12 DEF EvictAsset, Evictable, Present
<1>13. ASSUME NEW a \in Asset, EvictQuarantined(a)
       PROVE  Lighter
  BY <1>10, <1>13 DEF EvictQuarantined, Quarantined
<1>14. CASE Raise
  <2>1. CASE pc = "write"
    BY <1>4, <1>11, <1>14, <2>1 DEF Raise, Writing, Frame
  <2>2. CASE pc # "write"
    BY <1>6, <1>14, <2>2 DEF Raise
  <2> QED
    BY <2>1, <2>2
<1>15. ASSUME NEW a \in Asset, ClearFile(a)
       PROVE  Lighter
  BY <1>9, <1>10, <1>11, <1>15 DEF ClearFile
<1>16. ASSUME NEW a \in Asset, Tamper(a)
       PROVE  Lighter
  <2>1. Present' = Present
    BY <1>4, <1>16 DEF Tamper, Present, TypeOK
  <2>2. quarantine' = quarantine /\ partials' = partials
    BY <1>16 DEF Tamper
  <2> QED
    BY <1>0, <1>2, <2>1, <2>2
<1>17. CASE \/ \E p \in Proc : Begin(p)
            \/ Oversize \/ Hit \/ Miss \/ RefuseTampered
            \/ AfterTampered \/ AfterReserve \/ AfterExtract \/ AfterOthers
            \/ TakeLease \/ Register \/ Release \/ Return \/ Cleared
            \/ \E p \in Proc, a \in Asset : Unregister(p, a)
            \/ \E p \in Proc : Crash(p)
            \/ UNCHANGED vars
  <2>1. UNCHANGED disk
    BY <1>17 DEF Begin, BeginExtract, BeginEnforce, BeginRegister, BeginClear, Oversize, Hit, Miss,
       RefuseTampered, AfterTampered, AfterReserve, AfterExtract, AfterOthers, TakeLease,
       Register, Release, Return, Cleared, Unregister, Crash, vars
  <2> QED
    BY <1>6, <2>1
<1> QED
  BY <1>7, <1>8, <1>12, <1>13, <1>14, <1>15, <1>16, <1>17 DEF Next, Advance

LEMMA InitRoom == Init => Room
<1> SUFFICES ASSUME Init PROVE Room
  OBVIOUS
<1>1. \A a \in Asset : partials[a] = 0 /\ quarantine[a] = 0
  BY DEF Init
<1>2. BytesOf(partials) = 0 /\ BytesOf(quarantine) = 0
  BY <1>1, NoCopiesWeighNothing
<1>3. SumFunctionOnSet(Size, Present) = 0
  <2>1. Present = {}
    BY DEF Init, Present
  <2>2. \A x \in {} : Size[x] = 0
    OBVIOUS
  <2>3. SumFunctionOnSet(Size, {}) = 0
    BY <2>2, SumZero, FS_EmptySet
  <2> QED
    BY <2>1, <2>3
<1>4. Bytes + BytesOf(partials) = 0
  BY <1>2, <1>3 DEF Bytes
<1>5. LargestQuota \in Nat
  BY CacheIsFinite, LargestIsLargest
<1>6. WithinQuota
  BY <1>4, <1>5 DEF WithinQuota
<1> QED
  BY <1>6 DEF Init, Room

LEMMA StepRoom == ASSUME IInv, Room, [Next]_vars PROVE Room'
<1> USE NobodyIsNoProcess DEF disk, prot, frame, Goto, Enter, Leave, Enforce
<1>0. /\ Bytes \in Nat /\ BytesOf(partials) \in Nat
      /\ Bytes' \in Nat /\ BytesOf(partials') \in Nat
      /\ LargestQuota \in Nat
  <2>1. TypeOK /\ TypeOK'
    BY StepType DEF IInv
  <2>2. (TypeOK => Bytes \in Nat)'
    BY Weights, PTL
  <2>3. partials' \in [Asset -> Nat]
    BY <2>1 DEF TypeOK
  <2>4. BytesOf(partials') \in Nat
    BY <2>3, CopiesWeigh
  <2>5. LargestQuota \in Nat
    BY CacheIsFinite, LargestIsLargest
  <2> QED
    BY <2>1, <2>2, <2>4, <2>5, Weights
<1>1. \A a \in Asset : Size[a] \in Nat
  BY SizesAreNatural
<1>2. \A p \in Proc : Quota[p] \in Nat /\ Quota[p] <= LargestQuota
  BY LargestIsLargest, QuotasAreNatural
<1>3. TypeOK /\ Frame /\ Frame'
  BY StepFrame DEF IInv
<1>4. pc # "idle" => lock \in Proc
  BY <1>3 DEF Frame, TypeOK
<1>5. CASE Write
  <2>1. asset \in Asset /\ lock \in Proc /\ \A a \in Asset : partials[a] = 0
    BY <1>3, <1>4, <1>5 DEF Write, Frame, Room
  <2>2. BytesOf(partials) = 0
    BY <2>1, NoCopiesWeighNothing
  <2>3. BytesOf(partials') = BytesOf(partials) + Size[asset]
    BY <1>3, <1>5, <2>1, CopyThere DEF Write, TypeOK
  <2>4. Bytes' = Bytes
    BY <1>5 DEF Write, Bytes, Present
  <2>5. Bytes + Size[asset] <= Quota[lock]
    BY <1>5 DEF Write, Room
  <2>6. WithinQuota'
    <3>1. Bytes' + BytesOf(partials') <= LargestQuota
      BY <1>0, <1>1, <1>2, <2>1, <2>2, <2>3, <2>4, <2>5
    <3> QED
      BY <3>1 DEF WithinQuota
  <2>7. pc' = "write" /\ goal' = goal /\ asset' = asset /\ lock' = lock /\ goal = "reserve"
    BY <1>3, <1>5 DEF Write, Frame
  <2> QED
    BY <2>4, <2>5, <2>6, <2>7 DEF Room
<1>6. CASE Publish
  <2>1. asset \in Asset /\ lock \in Proc /\ store[asset] = "absent" /\ partials[asset] > 0
    BY <1>3, <1>4, <1>6 DEF Publish, Frame, IInv, Writing, Files
  <2>2. SumFunctionOnSet(Size, Present') = SumFunctionOnSet(Size, Present) + Size[asset]
    BY <1>3, <1>6, <2>1, FileThere DEF Publish
  <2>3. BytesOf(partials) = BytesOf(partials') + Size[asset]
    BY <1>3, <1>6, <2>1, CopyGone DEF Publish, TypeOK
  <2>4. Bytes' = Bytes + Size[asset]
    <3>1. /\ Bytes = SumFunctionOnSet(Size, Present) + BytesOf(quarantine)
          /\ Bytes' = SumFunctionOnSet(Size, Present') + BytesOf(quarantine)
      BY <1>6 DEF Publish, Bytes
    <3> QED
      BY <1>1, <1>3, <2>1, <2>2, <3>1, Weights
  <2>5. Bytes + Size[asset] <= Quota[lock]
    BY <1>6 DEF Publish, Room
  <2>6. WithinQuota'
    <3>1. Bytes + BytesOf(partials) <= LargestQuota
      BY DEF Room, WithinQuota
    <3>2. Bytes' + BytesOf(partials') <= LargestQuota
      BY <1>0, <1>1, <2>1, <2>3, <2>4, <3>1
    <3> QED
      BY <3>2 DEF WithinQuota
  <2>7. pc' = "sweep" /\ lock' = lock
    BY <1>6 DEF Publish
  <2> QED
    BY <2>4, <2>5, <2>6, <2>7 DEF Room
<1>7. ASSUME ~Write, ~Publish
      PROVE  Room'
  <2>1. Lighter
    BY <1>7, MostStepsLighten
  <2>2. WithinQuota'
    <3>1. Bytes' + BytesOf(partials') <= LargestQuota
      BY <1>0, <2>1 DEF Lighter, Room, WithinQuota
    <3> QED
      BY <3>1 DEF WithinQuota
  <2>3. Bytes' <= Bytes
    BY <2>1 DEF Lighter
  <2>4. pc' \in {"evict", "room"} => \A a \in Asset : partials'[a] = 0
    <3>1. CASE Sweep
      BY <3>1 DEF Sweep
    <3>2. CASE ~Sweep /\ pc' \in {"evict", "room"}
      <4>1. pc \in {"evict", "room"} /\ partials' = partials
        BY <1>7, <3>2 DEF Next, Begin, BeginExtract, BeginEnforce, BeginRegister, BeginClear, Advance,
           Oversize, Hit, Miss, Fits, Quarantine, RefuseTampered, EvictAsset, EvictQuarantined,
           AfterTampered, AfterReserve, AfterExtract, AfterOthers, Enforced, TakeLease, Register, Release,
           Return, Raise, ClearFile, Cleared, Unregister, Tamper, Crash, vars
      <4> QED
        BY <4>1 DEF Room
    <3> QED
      BY <3>1, <3>2
  <2>5. pc' \in {"room", "write"} => Bytes' + Size[asset'] <= Quota[lock']
    <3>1. CASE AfterReserve
      <4>1. Bytes + Size[asset] <= Quota[lock] /\ asset \in Asset /\ lock \in Proc
            /\ asset' = asset /\ lock' = lock
        BY <1>3, <1>4, <3>1 DEF AfterReserve, Enforced, Frame
      <4> QED
        BY <1>0, <1>1, <1>2, <2>3, <4>1
    <3>2. CASE ~AfterReserve /\ pc' \in {"room", "write"}
      <4>1. pc \in {"room", "write"} /\ asset' = asset /\ lock' = lock
        BY <1>4, <1>7, <3>2 DEF Next, Begin, BeginExtract, BeginEnforce, BeginRegister, BeginClear, Advance,
           Oversize, Hit, Miss, Fits, Quarantine, RefuseTampered, Sweep, EvictAsset, EvictQuarantined,
           AfterTampered, AfterExtract, AfterOthers, Enforced, TakeLease, Register, Release,
           Return, Raise, ClearFile, Cleared, Unregister, Tamper, Crash, vars
      <4>2. Bytes + Size[asset] <= Quota[lock] /\ asset \in Asset /\ lock \in Proc
        BY <1>3, <1>4, <4>1 DEF Room, Frame
      <4> QED
        BY <1>0, <1>1, <1>2, <2>3, <4>1, <4>2
    <3> QED
      BY <3>1, <3>2
  <2>6. goal' = "published" => Bytes' <= Quota[lock']
    <3>1. CASE goal' = "published"
      <4>1. goal = "published" /\ lock' = lock
        BY <1>3, <1>7, <3>1 DEF Next, Begin, BeginExtract, BeginEnforce, BeginRegister, BeginClear, Advance,
           Oversize, Hit, Miss, Fits, Quarantine, RefuseTampered, Sweep, EvictAsset, EvictQuarantined,
           AfterTampered, AfterReserve, AfterExtract, AfterOthers, Enforced, TakeLease, Register, Release,
           Return, Raise, ClearFile, Cleared, Unregister, Tamper, Crash, vars, Frame
      <4>2. Bytes <= Quota[lock] /\ lock \in Proc
        BY <1>3, <1>4, <4>1 DEF Room, Frame
      <4> QED
        BY <1>0, <1>2, <2>3, <4>1, <4>2
    <3> QED
      BY <3>1
  <2> QED
    BY <2>2, <2>4, <2>5, <2>6 DEF Room
<1> QED
  BY <1>5, <1>6, <1>7

(* Everything on disk, partial files included, stays within the largest    *)
(* quota, whatever crashes left behind and whichever process extracts      *)
(* (extract(), _enforce_quota_locked()).                                   *)
THEOREM CacheStaysWithinQuota == Spec => []WithinQuota
<1>1. Spec => []Room
  BY InitRoom, StepRoom, Inductive, PTL DEF Spec
<1>2. Room => WithinQuota
  BY DEF Room
<1> QED
  BY <1>1, <1>2, PTL

-----------------------------------------------------------------------------
(* What an extraction that has only its registration left to do knows: its *)
(* enforcement ended below the quota or with nothing left to evict, and    *)
(* the registration is what the caller asked for.                          *)
Delivery ==
  /\ goal = "hit" /\ pc \in {"register", "count", "done"} =>
       Bytes <= Quota[lock] \/ (Present \subseteq active /\ Quarantined = {})
  /\ goal \in {"hit", "published"} /\ pc \in {"register", "count"} => protect
  /\ goal \in {"hit", "published"} /\ pc = "done" /\ protect => <<lock, asset>> \in leases

LEMMA StepDelivery == ASSUME IInv, Registrations, Delivery, [Next]_vars PROVE Delivery'
<1> USE NobodyIsNoProcess DEF disk, prot, frame, Goto, Enter, Leave, Enforce
<1>1. TypeOK /\ Frame
  BY DEF IInv
<1>2. pc # "idle" => lock \in Proc
  BY <1>1 DEF Frame, TypeOK
<1>3. /\ store' = store => Present' = Present
      /\ UNCHANGED <<store, quarantine>> => Bytes' = Bytes /\ Quarantined' = Quarantined
  BY DEF Present, Bytes, Quarantined
<1>4. CASE AfterExtract
  <2>1. Bytes <= Target \/ (Present \subseteq active /\ Quarantined = {})
    BY <1>4 DEF AfterExtract, Enforced, Evictable
  <2>2. goal = "hit" => Target = Quota[lock]
    <3>1. Quota[lock] \in Nat
      BY <1>2, <1>4, QuotasAreNatural DEF AfterExtract, Enforced
    <3> QED
      BY <3>1 DEF Target
  <2>3. /\ UNCHANGED <<store, quarantine, lock, asset, protect, goal, active, leases>>
        /\ pc' = IF protect THEN "register" ELSE "done"
    BY <1>4 DEF AfterExtract
  <2>4. Bytes' = Bytes /\ Present' = Present /\ Quarantined' = Quarantined
    BY <1>3, <2>3
  <2>5. goal' = "hit" => Bytes' <= Quota[lock'] \/ (Present' \subseteq active' /\ Quarantined' = {})
    BY <2>1, <2>2, <2>3, <2>4
  <2> QED
    BY <2>3, <2>5 DEF Delivery
<1>5. CASE TakeLease \/ Register
  <2>1. /\ UNCHANGED <<store, quarantine, lock, asset, protect, goal, active>>
        /\ \/ pc = "register" /\ pc' = "count"
           \/ pc = "count" /\ pc' = "done" /\ <<lock, asset>> \in leases /\ leases' = leases
    BY <1>5 DEF TakeLease, Register, Registrations
  <2>2. Bytes' = Bytes /\ Present' = Present /\ Quarantined' = Quarantined
    BY <1>3, <2>1
  <2> QED
    BY <2>1, <2>2 DEF Delivery
<1>6. ASSUME NEW a \in Asset, Tamper(a)
      PROVE  Delivery'
  <2>1. Present' = Present
    BY <1>1, <1>6 DEF Tamper, Present, TypeOK
  <2>2. UNCHANGED <<quarantine, lock, pc, asset, protect, goal, active, leases>>
    BY <1>6 DEF Tamper
  <2>3. Bytes' = Bytes /\ Quarantined' = Quarantined
    BY <2>1, <2>2 DEF Bytes, Quarantined
  <2> QED
    BY <2>1, <2>2, <2>3 DEF Delivery
<1>7. ASSUME NEW p \in Proc, Crash(p)
      PROVE  Delivery'
  <2>1. CASE lock = p
    BY <1>7, <2>1 DEF Crash, Delivery
  <2>2. CASE lock # p
    <3>1. /\ UNCHANGED <<store, quarantine, lock, pc, asset, protect, goal, active>>
          /\ leases' = {l \in leases : l[1] # p}
      BY <1>7, <2>2 DEF Crash
    <3>2. <<lock, asset>> \in leases => <<lock, asset>> \in leases'
      BY <2>2, <3>1
    <3>3. Bytes' = Bytes /\ Present' = Present /\ Quarantined' = Quarantined
      BY <1>3, <3>1
    <3> QED
      BY <3>1, <3>2, <3>3 DEF Delivery
  <2> QED
    BY <2>1, <2>2
<1>8. CASE UNCHANGED vars
  <2>1. UNCHANGED <<store, quarantine, leases, lock, pc, asset, protect, goal, active>>
    BY <1>8 DEF vars
  <2>2. Bytes' = Bytes /\ Present' = Present /\ Quarantined' = Quarantined
    BY <1>3, <2>1
  <2> QED
    BY <2>1, <2>2 DEF Delivery
<1>9. CASE \/ \E p \in Proc : Begin(p)
           \/ Oversize \/ Hit \/ Miss \/ Quarantine \/ RefuseTampered \/ Sweep
           \/ \E a \in Asset : EvictAsset(a) \/ EvictQuarantined(a)
           \/ AfterTampered \/ AfterReserve \/ AfterOthers
           \/ Write \/ Publish \/ Release \/ Return \/ Raise
           \/ (\E a \in Asset : ClearFile(a)) \/ Cleared
           \/ \E p \in Proc, a \in Asset : Unregister(p, a)
  <2>1. pc' \in {"register", "count", "done"} => goal' = "none"
    BY <1>1, <1>9 DEF Begin, BeginExtract, BeginEnforce, BeginRegister, BeginClear, Oversize, Hit,
       Miss, Fits, Quarantine, RefuseTampered, Sweep, EvictAsset, EvictQuarantined, AfterTampered,
       AfterReserve, AfterOthers, Enforced, Write, Publish, Release, Return, Raise, ClearFile,
       Cleared, Unregister, Frame
  <2> QED
    BY <2>1 DEF Delivery
<1> QED
  BY <1>4, <1>5, <1>6, <1>7, <1>8, <1>9 DEF Next, Advance

(* An extraction that succeeds hands out a file that is there and, if the  *)
(* caller asked, leased, and leaves the cache within its own quota unless  *)
(* files in use prevent it (extract()).                                    *)
THEOREM ExtractionKeepsItsWord == Spec => []ExtractionDelivers
<1>1. Init => Delivery
  BY DEF Init, Delivery
<1>2. Spec => []Delivery
  BY <1>1, StepDelivery, RegistrationsInductive, Inductive, PTL DEF Spec
<1>3. Spec => []Room
  BY InitRoom, StepRoom, Inductive, PTL DEF Spec
<1>4. IInv /\ Delivery /\ Room => ExtractionDelivers
  BY DEF IInv, Files, Delivery, Room, ExtractionDelivers
<1> QED
  BY <1>2, <1>3, <1>4, Inductive, PTL

-----------------------------------------------------------------------------
(* The lock.                                                               *)

(* The advisory lock belongs exactly to the thread inside.                 *)
FileLockInv ==
  /\ \A t \in Thread : Critical(t) => fileLock = t
  /\ fileLock # NoThread => Critical(fileLock)

(* Every variable always has its type (the state CacheLock declares).      *)
THEOREM LockTypeCorrect == LockSpec => []LockTypeOK
<1> USE DEF LockTypeOK, LockPhases
<1>1. LockInit => LockTypeOK
  <2> SUFFICES ASSUME LockInit PROVE LockTypeOK
    OBVIOUS
  <2>1. /\ root \in {"empty", "foreign", "mismarked", "managed"}
        /\ locksDir \in BOOLEAN /\ ready \in BOOLEAN
    BY DEF LockInit
  <2>2. deaths \in 0..MaxDeaths
    BY CrashBound DEF LockInit
  <2>3. /\ initLock \in [Process -> Thread \cup {NoThread}]
        /\ threadLock \in [Process -> Thread \cup {NoThread}]
        /\ fileLock \in Thread \cup {NoThread}
    BY DEF LockInit
  <2>4. /\ at \in [Thread -> LockPhases]
        /\ stage \in [Thread -> {"init", "body"}]
        /\ token \in [Thread -> {"none", "live", "cancelled"}]
    BY DEF LockInit
  <2>5. QED
    BY <2>1, <2>2, <2>3, <2>4
<1>2. LockTypeOK /\ [LockNext]_lockVars => LockTypeOK'
  <2> SUFFICES ASSUME LockTypeOK, [LockNext]_lockVars
               PROVE  LockTypeOK'
    OBVIOUS
  <2> USE ThreadsBelongToProcesses, CrashBound DEF Moves, Own, Free, rootFiles
  <2>1. ASSUME NEW t \in Thread, BeginOperation(t) \/ BeginClearing(t)
        PROVE  LockTypeOK'
    BY <2>1 DEF BeginOperation, BeginClearing
  <2>2. ASSUME NEW t \in Thread,
               TakeInitLock(t) \/ Inspect(t) \/ PublishMarker(t) \/ AwaitMarker(t)
        PROVE  LockTypeOK'
    BY <2>2 DEF TakeInitLock, Inspect, PublishMarker, AwaitMarker
  <2>3. ASSUME NEW t \in Thread, Refuse(t) \/ TakeThreadLock(t) \/ TakeFileLock(t)
        PROVE  LockTypeOK'
    BY <2>3 DEF Refuse, TakeThreadLock, TakeFileLock
  <2>4. ASSUME NEW t \in Thread, LeaveCritical(t) \/ Unlock(t)
        PROVE  LockTypeOK'
    BY <2>4 DEF LeaveCritical, Unlock
  <2>5. ASSUME NEW t \in Thread, GiveUp(t) \/ Cancel(t)
        PROVE  LockTypeOK'
    BY <2>5 DEF GiveUp, Cancel
  <2>6. ASSUME NEW p \in Process, ProcessDies(p)
        PROVE  LockTypeOK'
    BY <2>6 DEF ProcessDies
  <2>7. CASE UNCHANGED lockVars
    BY <2>7 DEF lockVars
  <2>8. QED
    BY <2>1, <2>2, <2>3, <2>4, <2>5, <2>6, <2>7 DEF LockNext, Step
<1>3. QED
  BY <1>1, <1>2, PTL DEF LockSpec

LEMMA FileLockInductive == LockSpec => []FileLockInv
<1> USE DEF FileLockInv, Critical
<1>1. LockInit => FileLockInv
  BY DEF LockInit
<1>2. LockTypeOK /\ FileLockInv /\ [LockNext]_lockVars => FileLockInv'
  <2> SUFFICES ASSUME LockTypeOK, FileLockInv, [LockNext]_lockVars
               PROVE  FileLockInv'
    OBVIOUS
  <2> USE NobodyIsNoThread DEF LockTypeOK, Moves, rootFiles
  <2>1. ASSUME NEW t \in Thread, BeginOperation(t) \/ BeginClearing(t)
        PROVE  FileLockInv'
    BY <2>1 DEF BeginOperation, BeginClearing
  <2>2. ASSUME NEW t \in Thread,
               TakeInitLock(t) \/ Inspect(t) \/ PublishMarker(t) \/ AwaitMarker(t)
        PROVE  FileLockInv'
    BY <2>2 DEF TakeInitLock, Inspect, PublishMarker, AwaitMarker
  <2>3. ASSUME NEW t \in Thread, Refuse(t) \/ TakeThreadLock(t)
        PROVE  FileLockInv'
    BY <2>3 DEF Refuse, TakeThreadLock
  <2>4. ASSUME NEW t \in Thread, TakeFileLock(t)
        PROVE  FileLockInv'
    BY <2>4 DEF TakeFileLock
  <2>5. ASSUME NEW t \in Thread, LeaveCritical(t)
        PROVE  FileLockInv'
    BY <2>5 DEF LeaveCritical
  <2>6. ASSUME NEW t \in Thread, Unlock(t) \/ GiveUp(t) \/ Cancel(t)
        PROVE  FileLockInv'
    BY <2>6 DEF Unlock, GiveUp, Cancel
  <2>7. ASSUME NEW p \in Process, ProcessDies(p)
        PROVE  FileLockInv'
    BY <2>7 DEF ProcessDies
  <2>8. CASE UNCHANGED lockVars
    BY <2>8 DEF lockVars
  <2>9. QED
    BY <2>1, <2>2, <2>3, <2>4, <2>5, <2>6, <2>7, <2>8 DEF LockNext, Step
<1>3. QED
  BY <1>1, <1>2, LockTypeCorrect, PTL DEF LockSpec

(* Two threads, of one process or of two, are never both inside the        *)
(* mutation lock (_ProcessFileLock).                                       *)
THEOREM Exclusion == LockSpec => []MutualExclusion
<1>1. FileLockInv => MutualExclusion
  BY DEF FileLockInv, MutualExclusion
<1>2. QED
  BY <1>1, FileLockInductive, PTL

(* Nothing is created in a directory that carries other files or another   *)
(* program's marker, however many threads find it at once, wait for each   *)
(* other's marker, give up or die (initialize(), clear()).                 *)
THEOREM RootsAreOurs == LockSpec => []OnlyManagedRoots
<1> USE DEF OnlyManagedRoots
<1>1. LockInit => OnlyManagedRoots
  BY DEF LockInit
<1>2. LockTypeOK /\ OnlyManagedRoots /\ [LockNext]_lockVars => OnlyManagedRoots'
  <2> SUFFICES ASSUME LockTypeOK, OnlyManagedRoots, [LockNext]_lockVars
               PROVE  OnlyManagedRoots'
    OBVIOUS
  <2> USE DEF LockTypeOK, Moves, rootFiles
  <2>1. ASSUME NEW t \in Thread, BeginOperation(t) \/ BeginClearing(t)
        PROVE  OnlyManagedRoots'
    BY <2>1 DEF BeginOperation, BeginClearing
  <2>2. ASSUME NEW t \in Thread, TakeInitLock(t) \/ Inspect(t)
        PROVE  OnlyManagedRoots'
    BY <2>2 DEF TakeInitLock, Inspect
  <2>9. ASSUME NEW t \in Thread, PublishMarker(t) \/ AwaitMarker(t)
        PROVE  OnlyManagedRoots'
    <3>3. locksDir => locksDir'
      BY <2>9 DEF PublishMarker, AwaitMarker
    <3>4. root = "managed" => root' = "managed"
      BY <2>9 DEF PublishMarker, AwaitMarker
    <3>5. /\ ready' = ready
          /\ \A u \in Thread : u # t => at'[u] = at[u]
          /\ at'[t] \in {"thread", "await"}
          /\ at'[t] = "thread" => root' = "managed" /\ locksDir' = TRUE
      BY <2>9 DEF PublishMarker, AwaitMarker
    <3>6. locksDir' => root' = "managed"
      BY <2>9, <3>4 DEF PublishMarker, AwaitMarker
    <3> QED
      BY <3>3, <3>4, <3>5, <3>6
  <2>3. ASSUME NEW t \in Thread, Refuse(t) \/ TakeThreadLock(t) \/ TakeFileLock(t)
        PROVE  OnlyManagedRoots'
    BY <2>3 DEF Refuse, TakeThreadLock, TakeFileLock
  <2>4. ASSUME NEW t \in Thread, LeaveCritical(t) \/ Unlock(t)
        PROVE  OnlyManagedRoots'
    BY <2>4 DEF LeaveCritical, Unlock
  <2>5. ASSUME NEW t \in Thread, GiveUp(t) \/ Cancel(t)
        PROVE  OnlyManagedRoots'
    BY <2>5 DEF GiveUp, Cancel
  <2>6. ASSUME NEW p \in Process, ProcessDies(p)
        PROVE  OnlyManagedRoots'
    BY <2>6 DEF ProcessDies
  <2>7. CASE UNCHANGED lockVars
    BY <2>7 DEF lockVars
  <2>8. QED
    BY <2>1, <2>2, <2>3, <2>4, <2>5, <2>6, <2>7, <2>9 DEF LockNext, Step
<1>3. QED
  BY <1>1, <1>2, LockTypeCorrect, PTL DEF LockSpec

(* What the other threads and processes see as the owner of the critical   *)
(* section is the owner of the advisory lock.                              *)
LEMMA OwnerIsFileLock ==
  ASSUME LockTypeOK, FileLockInv
  PROVE  Owner = fileLock
<1>1. CASE fileLock = NoThread
  BY <1>1, NobodyIsNoThread DEF Owner, FileLockInv
<1>2. CASE fileLock # NoThread
  <2>1. fileLock \in Thread /\ Critical(fileLock)
    BY <1>2 DEF LockTypeOK, FileLockInv
  <2>2. \A t \in Thread : Critical(t) => t = fileLock
    BY DEF FileLockInv
  <2>3. QED
    BY <2>1, <2>2 DEF Owner
<1>3. QED
  BY <1>1, <1>2

(* The lock of _ProcessFileLock implements Mutex: initialization, waiting, *)
(* cancellation and crashes included, ownership only passes through a free *)
(* lock.                                                                   *)
THEOREM LockIsMutex == LockSpec => IsMutex
<1>1. LockInit => M!Init
  BY DEF LockInit, M!Init, Owner, Critical
<1>2. /\ LockTypeOK /\ FileLockInv /\ LockTypeOK' /\ FileLockInv'
      /\ [LockNext]_lockVars
      => [M!Next]_Owner
  <2> SUFFICES ASSUME LockTypeOK, FileLockInv, LockTypeOK', FileLockInv', [LockNext]_lockVars
               PROVE  [M!Next]_Owner
    OBVIOUS
  <2>1. Owner = fileLock /\ Owner' = fileLock'
    <3>1. Owner = fileLock
      BY OwnerIsFileLock
    <3>2. (LockTypeOK /\ FileLockInv => Owner = fileLock)'
      BY OwnerIsFileLock, PTL
    <3>3. QED
      BY <3>1, <3>2
  <2>2. CASE UNCHANGED fileLock
    BY <2>1, <2>2
  <2>3. ASSUME NEW t \in Thread, TakeFileLock(t)
        PROVE  M!Next
    BY <2>1, <2>3 DEF TakeFileLock, M!Next, M!Acquire
  <2>4. ASSUME NEW t \in Thread, LeaveCritical(t)
        PROVE  M!Next
    BY <2>1, <2>4 DEF LeaveCritical, Moves, FileLockInv, Critical, M!Next, M!Release
  <2>5. ASSUME NEW p \in Process, ProcessDies(p), fileLock' # fileLock
        PROVE  M!Next
    BY <2>1, <2>5 DEF ProcessDies, LockTypeOK, M!Next, M!Release
  <2>6. ASSUME fileLock' # fileLock
        PROVE  \/ \E t \in Thread : TakeFileLock(t) \/ LeaveCritical(t)
               \/ \E p \in Process : ProcessDies(p)
    BY <2>6 DEF LockNext, Step, lockVars, BeginOperation, BeginClearing, TakeInitLock, Inspect,
                PublishMarker, AwaitMarker, Refuse, TakeThreadLock, Unlock, GiveUp,
                Cancel
  <2>7. QED
    BY <2>2, <2>3, <2>4, <2>5, <2>6
<1>3. QED
  BY <1>1, <1>2, LockTypeCorrect, FileLockInductive, PTL DEF LockSpec, IsMutex, M!Spec
=============================================================================
