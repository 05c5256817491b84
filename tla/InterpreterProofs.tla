------------------------- MODULE InterpreterProofs -------------------------
(* Theorems about the reference interpreter for every manifest, trace and  *)
(* generator: what it executes stays in the declared domains, what the     *)
(* validator accepts does not trip it, conflicts are decided as declared,  *)
(* and what was recorded replays.                                          *)
EXTENDS Interpreter, FiniteSetTheorems, TLAPS

(* The invariant has to know the pending writes: a relative write starts   *)
(* from them, and the end of a cycle makes them the state.                 *)
Domains ==
  Accepted =>
    /\ \A v \in DOMAIN state : v \in DOMAIN manifest.vars /\ state[v] \in manifest.vars[v].domain
    /\ \A v \in DOMAIN writes : v \in DOMAIN manifest.vars
                                /\ writes[v].value \in manifest.vars[v].domain

(* An accepted trace starts every variable in its domain: the defaults are *)
(* checked with the manifest, the overrides with the trace.                *)
LEMMA StartInDomain ==
  ASSUME NEW m, NEW t, Accepts(m), AcceptsTrace(m, t), NEW v \in DOMAIN Start(m, t)
  PROVE  v \in DOMAIN m.vars /\ Start(m, t)[v] \in m.vars[v].domain
<1>1. v \in DOMAIN m.vars
  BY DEF Start
<1>2. m.vars[v].default \in m.vars[v].domain
  BY <1>1 DEF Accepts, StateFits
<1>3. v \in DOMAIN t.initial => t.initial[v] \in m.vars[v].domain
  BY DEF AcceptsTrace
<1> QED
  BY <1>1, <1>2, <1>3 DEF Start

(* A write enters the set of pending writes only after its value was found *)
(* in the domain of its target.                                            *)
LEMMA WrittenInDomain ==
  ASSUME Domains, Write, Accepted, NEW v \in DOMAIN writes'
  PROVE  v \in DOMAIN manifest.vars /\ writes'[v].value \in manifest.vars[v].domain
<1>1. CASE Outranked(Top)
  <2>1. writes' = writes
    BY <1>1 DEF Write
  <2> QED
    BY <2>1 DEF Domains
<1>2. CASE ~Outranked(Top)
  <2>1. writes' = [t \in DOMAIN writes \cup {Top.action.target} |->
                     IF t = Top.action.target THEN Noted(Top) ELSE writes[t]]
    BY <1>2 DEF Write
  <2>2. ErrorOf(Top) = "none" /\ Top.action.op \in StateOps
    BY DEF Write, Step, Acting
  <2>3. InDomain(Top)
    BY <1>2, <2>2 DEF ErrorOf, StateOps
  <2>4. Noted(Top).value = Proposed(Top)
    BY DEF Noted
  <2>5. CASE v = Top.action.target
    BY <2>1, <2>3, <2>4, <2>5 DEF InDomain
  <2>6. CASE v # Top.action.target
    BY <2>1, <2>6 DEF Domains
  <2> QED
    BY <2>5, <2>6
<1> QED
  BY <1>1, <1>2

(* Each step keeps the values in their domains.                            *)
LEMMA DomainsStep == Domains /\ [Next]_vars => Domains'
<1> SUFFICES ASSUME Domains, [Next]_vars, Accepted' PROVE Domains'
  BY DEF Domains
<1>1. UNCHANGED <<manifest, trace>>
  BY DEF Next, vars, input, NextEvent, RefuseAction, Fail, Write, Step, Emit, SelectBinding,
         StartProcess, Enter, RefuseEntry, ListActions, ListChildren, RefuseChild, Leave, Expand,
         EmitProcessAction, RefuseDelayed, Draw, RefuseDraw, Exhaust, EndCycle, Finish, Verify
<1>2. Accepted
  BY <1>1 DEF Accepted
<1>3. CASE NextEvent
  <2>1. state' = state /\ DOMAIN writes' = {}
    BY <1>3 DEF NextEvent
  <2> QED
    BY <1>1, <1>2, <2>1 DEF Domains
<1>4. CASE Write
  <2>1. state' = state
    BY <1>4 DEF Write, Step
  <2>2. \A v \in DOMAIN writes' : v \in DOMAIN manifest.vars
                                  /\ writes'[v].value \in manifest.vars[v].domain
    BY <1>2, <1>4, WrittenInDomain
  <2> QED
    BY <1>1, <1>2, <2>1, <2>2 DEF Domains
<1>5. CASE EndCycle
  <2>1. writes' = writes
    BY <1>5 DEF EndCycle
  <2>2. state' = [v \in DOMAIN state |-> IF v \in DOMAIN writes THEN writes[v].value ELSE state[v]]
    BY <1>5 DEF EndCycle
  <2> QED
    BY <1>1, <1>2, <2>1, <2>2 DEF Domains
<1>6. CASE Verify
  <2>1. state' = Start(manifest, trace) /\ DOMAIN writes' = {}
    BY <1>6 DEF Verify
  <2>2. Accepts(manifest) /\ AcceptsTrace(manifest, trace)
    BY <1>2 DEF Accepted
  <2> QED
    BY <1>1, <2>1, <2>2, StartInDomain DEF Domains
<1>7. CASE UNCHANGED <<state, writes>>
  BY <1>1, <1>2, <1>7 DEF Domains
<1>8. Emit \/ SelectBinding \/ StartProcess => UNCHANGED <<state, writes>>
  BY DEF Emit, SelectBinding, StartProcess, Step
<1>9. Enter \/ ListActions \/ ListChildren \/ Leave \/ EmitProcessAction \/ Draw
        => UNCHANGED <<state, writes>>
  BY DEF Enter, ListActions, ListChildren, Leave, EmitProcessAction, Draw, Expand
<1>10. RefuseAction \/ RefuseEntry \/ RefuseChild \/ RefuseDelayed \/ RefuseDraw \/ Exhaust
         => UNCHANGED <<state, writes>>
  BY DEF RefuseAction, RefuseEntry, RefuseChild, RefuseDelayed, RefuseDraw, Exhaust, Fail
<1>11. Finish \/ UNCHANGED vars => UNCHANGED <<state, writes>>
  BY DEF Finish, vars
<1> QED
  BY <1>3, <1>4, <1>5, <1>6, <1>7, <1>8, <1>9, <1>10, <1>11 DEF Next

(* At every moment of every accepted trace each state variable has a value *)
(* of its domain, whatever the writes were and in which order they came.   *)
THEOREM DomainsKept == Spec => []StateInDomain
<1>1. Init => Domains
  <2> SUFFICES ASSUME Init, Accepted PROVE Domains
    BY DEF Domains
  <2>1. state = Start(manifest, trace) /\ DOMAIN writes = {}
    BY DEF Init
  <2>2. Accepts(manifest) /\ AcceptsTrace(manifest, trace)
    BY DEF Accepted
  <2> QED
    BY <2>1, <2>2, StartInDomain DEF Domains
<1>2. Domains /\ [Next]_vars => Domains'
  BY DomainsStep
<1>3. Domains => StateInDomain
  BY DEF Domains, StateInDomain
<1> QED
  BY <1>1, <1>2, <1>3, PTL DEF Spec

-----------------------------------------------------------------------------
LEMMA NatSetInduction ==
  ASSUME NEW T \in SUBSET Nat, 0 \in T, \A n \in T : n + 1 \in T
  PROVE  T = Nat
<1> DEFINE R == OpToRel(<, Nat)
           U == Nat \ T
<1>1. IsWellFoundedOn(R, Nat)
  BY NatLessThanWellFounded
<1>2. SUFFICES ASSUME U # {} PROVE FALSE
  OBVIOUS
<1>3. PICK n \in U : \A m \in U : <<m, n>> \notin R
  <2> HIDE DEF R, U
  <2>1. U \subseteq Nat
    BY DEF U
  <2> QED
    BY <1>1, <1>2, <2>1, WFMin
<1>4. n # 0 /\ n - 1 \in Nat /\ n - 1 + 1 = n
  OBVIOUS
<1>5. <<n - 1, n>> \in R
  BY <1>4 DEF OpToRel
<1>6. n - 1 \in T
  BY <1>3, <1>4, <1>5
<1> QED
  BY <1>4, <1>6

(* Induction over the subsets of a finite set.                             *)
LEMMA SubsetInduction ==
  ASSUME NEW S, IsFiniteSet(S), NEW T \in SUBSET (SUBSET S),
         \A s \in SUBSET S : (\A t \in SUBSET s : t # s => t \in T) => s \in T
  PROVE  T = SUBSET S
<1> DEFINE R == StrictSubsetOrdering(S)
           U == (SUBSET S) \ T
<1>1. IsWellFoundedOn(R, SUBSET S)
  BY FS_StrictSubsetOrderingWellFounded, FS_FiniteSubsetsOfFinite
<1>2. SUFFICES ASSUME U # {} PROVE FALSE
  OBVIOUS
<1>3. PICK s \in U : \A t \in U : <<t, s>> \notin R
  <2> HIDE DEF R, U
  <2>1. U \subseteq SUBSET S
    BY DEF U
  <2> QED
    BY <1>1, <1>2, <2>1, WFMin
<1>4. PICK t \in SUBSET s : t # s /\ t \notin T
  OBVIOUS
<1>5. t \in U /\ <<t, s>> \in R
  BY <1>4 DEF StrictSubsetOrdering
<1> QED
  BY <1>3, <1>5

(* A number with a property makes a least one.                             *)
LEMMA LeastOf ==
  ASSUME NEW S \in SUBSET Nat, S # {}
  PROVE  \E n \in S : \A k \in 0..(n - 1) : k \notin S
<1> DEFINE R == OpToRel(<, Nat)
<1>1. IsWellFoundedOn(R, Nat)
  BY NatLessThanWellFounded
<1>2. PICK n \in S : \A k \in S : <<k, n>> \notin R
  <2> HIDE DEF R
  <2> QED
    BY <1>1, WFMin
<1>3. \A k \in 0..(n - 1) : k \notin S
  <2> SUFFICES ASSUME NEW k \in 0..(n - 1), k \in S PROVE FALSE
    OBVIOUS
  <2>1. k \in Nat /\ n \in Nat /\ k < n
    OBVIOUS
  <2>2. <<k, n>> \in R
    BY <2>1 DEF OpToRel
  <2> QED
    BY <1>2, <2>2
<1> QED
  BY <1>3

-----------------------------------------------------------------------------
(* Weights: the recurrence of their partial sums.                          *)
Share(w, n) == IF n \in DOMAIN w THEN w[n] ELSE 0

Adds(f, w, k) == f = [n \in 0..k |-> Share(w, n) + (IF n = 0 THEN 0 ELSE f[n - 1])]

(* There is a function of partial sums for every index: the one for the    *)
(* index below is extended.                                                *)
LEMMA AddsExists == ASSUME NEW w, NEW k \in Nat PROVE \E f : Adds(f, w, k)
<1> DEFINE Value(f, n) == Share(w, n) + (IF n = 0 THEN 0 ELSE f[n - 1])
           Some(n) == \E f : f = [i \in 0..n |-> Value(f, i)]
           T == {n \in Nat : Some(n)}
<1> HIDE DEF Share
<1>1. Some(0)
  <2> DEFINE f == [i \in 0..0 |-> Share(w, i) + 0]
  <2>1. f = [i \in 0..0 |-> Value(f, i)]
    OBVIOUS
  <2> QED
    BY <2>1
<1>2. ASSUME NEW n \in Nat, Some(n) PROVE Some(n + 1)
  <2>1. PICK f : f = [i \in 0..n |-> Value(f, i)]
    BY <1>2
  <2> DEFINE g == [i \in 0..(n + 1) |-> Value(f, i)]
  <2>2. \A i \in 0..n : g[i] = f[i]
    <3> SUFFICES ASSUME NEW i \in 0..n PROVE g[i] = f[i]
      OBVIOUS
    <3>1. i \in 0..(n + 1)
      OBVIOUS
    <3>2. g[i] = Value(f, i)
      BY <3>1
    <3>3. f[i] = Value(f, i)
      BY <2>1
    <3> QED
      BY <3>2, <3>3
  <2>3. \A i \in 0..(n + 1) : Value(f, i) = Value(g, i)
    <3> SUFFICES ASSUME NEW i \in 0..(n + 1), i # 0 PROVE f[i - 1] = g[i - 1]
      OBVIOUS
    <3>1. i - 1 \in 0..n
      OBVIOUS
    <3> QED
      BY <2>2, <3>1
  <2>4. g = [i \in 0..(n + 1) |-> Value(g, i)]
    BY <2>3
  <2> HIDE DEF g
  <2> QED
    BY <2>4
<1>3. T = Nat
  <2> HIDE DEF Some
  <2>1. T \subseteq Nat /\ 0 \in T /\ \A n \in T : n + 1 \in T
    BY <1>1, <1>2
  <2> HIDE DEF T
  <2> QED
    BY <2>1, NatSetInduction
<1>4. Some(k)
  BY <1>3
<1> QED
  BY <1>4 DEF Adds

(* The sum up to an index is the last value of such a function.            *)
LEMMA UpToAdds ==
  ASSUME NEW w, NEW k \in Nat
  PROVE  \E f : Adds(f, w, k) /\ UpTo(w, k) = f[k]
<1> DEFINE f == CHOOSE x : Adds(x, w, k)
<1>1. Adds(f, w, k)
  BY AddsExists
<1>2. UpTo(w, k) = f[k]
  BY DEF UpTo, Adds, Share
<1> HIDE DEF f
<1> QED
  BY <1>1, <1>2

(* Sums follow the recurrence that they are computed by.                   *)
LEMMA UpToSteps ==
  ASSUME NEW w
  PROVE  /\ UpTo(w, 0) = Share(w, 0) + 0
         /\ \A k \in Nat : UpTo(w, k + 1) = Share(w, k + 1) + UpTo(w, k)
<1>1. UpTo(w, 0) = Share(w, 0) + 0
  <2>1. PICK f : Adds(f, w, 0) /\ UpTo(w, 0) = f[0]
    BY UpToAdds
  <2>2. 0 \in 0..0
    OBVIOUS
  <2> QED
    BY <2>1, <2>2 DEF Adds
<1>2. ASSUME NEW k \in Nat PROVE UpTo(w, k + 1) = Share(w, k + 1) + UpTo(w, k)
  <2>1. PICK f : Adds(f, w, k) /\ UpTo(w, k) = f[k]
    BY UpToAdds
  <2>2. PICK g : Adds(g, w, k + 1) /\ UpTo(w, k + 1) = g[k + 1]
    BY UpToAdds
  <2> DEFINE T == {n \in Nat : n <= k => f[n] = g[n]}
  <2> HIDE DEF Share
  <2>3. 0 \in T
    <3>1. 0 \in 0..k /\ 0 \in 0..(k + 1)
      OBVIOUS
    <3> QED
      BY <2>1, <2>2, <3>1 DEF Adds
  <2>4. ASSUME NEW n \in T PROVE n + 1 \in T
    <3> SUFFICES ASSUME n + 1 <= k PROVE f[n + 1] = g[n + 1]
      OBVIOUS
    <3>1. n + 1 \in 0..k /\ n + 1 \in 0..(k + 1) /\ n + 1 # 0 /\ (n + 1) - 1 = n
      OBVIOUS
    <3>2. f[n + 1] = Share(w, n + 1) + f[n]
      BY <2>1, <3>1 DEF Adds
    <3>3. g[n + 1] = Share(w, n + 1) + g[n]
      BY <2>2, <3>1 DEF Adds
    <3> QED
      BY <3>2, <3>3
  <2>5. T = Nat
    <3>1. T \in SUBSET Nat
      OBVIOUS
    <3> HIDE DEF T
    <3> QED
      BY <2>3, <2>4, <3>1, NatSetInduction
  <2>6. f[k] = g[k]
    BY <2>5
  <2>7. k + 1 \in 0..(k + 1) /\ k + 1 # 0 /\ (k + 1) - 1 = k
    OBVIOUS
  <2> QED
    BY <2>1, <2>2, <2>6, <2>7 DEF Adds
<1> QED
  BY <1>1, <1>2

(* Sums of positive weights are numbers, positive from the first weight    *)
(* on, and stay as they are after the last one.                            *)
LEMMA UpToGrows ==
  ASSUME NEW w, \A k \in DOMAIN w : k \in Nat /\ w[k] \in Nat \ {0}
  PROVE  /\ \A k \in Nat : UpTo(w, k) \in Nat
         /\ \A k \in DOMAIN w : UpTo(w, k) >= 1
         /\ \A last, k \in Nat : last <= k /\ (\A n \in DOMAIN w : n <= last) => UpTo(w, k) = UpTo(w, last)
<1>1. \A k \in Nat : Share(w, k) \in Nat
  BY DEF Share
<1>2. \A k \in Nat : UpTo(w, k) \in Nat
  <2> DEFINE T == {k \in Nat : UpTo(w, k) \in Nat}
  <2>1. 0 \in T
    BY <1>1, UpToSteps
  <2>2. \A k \in T : k + 1 \in T
    BY <1>1, UpToSteps
  <2>3. T = Nat
    <3>1. T \in SUBSET Nat
      OBVIOUS
    <3> HIDE DEF T
    <3> QED
      BY <2>1, <2>2, <3>1, NatSetInduction
  <2> QED
    BY <2>3
<1>3. ASSUME NEW k \in DOMAIN w PROVE UpTo(w, k) >= 1
  <2>1. k \in Nat /\ Share(w, k) >= 1
    BY DEF Share
  <2>2. CASE k = 0
    BY <1>1, <2>1, <2>2, UpToSteps
  <2>3. CASE k # 0
    <3>1. k - 1 \in Nat /\ (k - 1) + 1 = k
      BY <2>1, <2>3
    <3>2. UpTo(w, (k - 1) + 1) = Share(w, (k - 1) + 1) + UpTo(w, k - 1)
      BY <3>1, UpToSteps
    <3> QED
      BY <1>1, <1>2, <2>1, <3>1, <3>2
  <2> QED
    BY <2>2, <2>3
<1>4. ASSUME NEW last \in Nat, \A n \in DOMAIN w : n <= last, NEW k \in Nat, last <= k
      PROVE  UpTo(w, k) = UpTo(w, last)
  <2> DEFINE T == {n \in Nat : UpTo(w, last + n) = UpTo(w, last)}
  <2>1. 0 \in T
    <3>1. last + 0 = last
      OBVIOUS
    <3> QED
      BY <3>1
  <2>2. ASSUME NEW n \in T PROVE n + 1 \in T
    <3>1. last + n \in Nat /\ last + (n + 1) = (last + n) + 1
      OBVIOUS
    <3>2. Share(w, (last + n) + 1) = 0
      <4>1. (last + n) + 1 \notin DOMAIN w
        BY <1>4
      <4> QED
        BY <4>1 DEF Share
    <3>3. UpTo(w, (last + n) + 1) = UpTo(w, last + n)
      BY <1>2, <3>1, <3>2, UpToSteps
    <3> QED
      BY <3>1, <3>3
  <2>3. T = Nat
    <3>1. T \in SUBSET Nat
      OBVIOUS
    <3> HIDE DEF T
    <3> QED
      BY <2>1, <2>2, <3>1, NatSetInduction
  <2>4. k - last \in Nat /\ last + (k - last) = k
    BY <1>4
  <2> QED
    BY <2>3, <2>4
<1> QED
  BY <1>2, <1>3, <1>4

(* A finite set of numbers has a greatest one.                             *)
LEMMA GreatestExists ==
  ASSUME NEW S \in SUBSET Nat, IsFiniteSet(S), S # {}
  PROVE  \E n \in S : \A k \in S : k <= n
<1> DEFINE Above == {n \in Nat : \A k \in S : k <= n}
<1>1. Above # {}
  <2> DEFINE T == {s \in SUBSET S : \E n \in Nat : \A k \in s : k <= n}
  <2>1. \A s \in SUBSET S : (\A t \in SUBSET s : t # s => t \in T) => s \in T
    <3> SUFFICES ASSUME NEW s \in SUBSET S, \A t \in SUBSET s : t # s => t \in T
                 PROVE  \E n \in Nat : \A k \in s : k <= n
      OBVIOUS
    <3>1. CASE s = {}
      BY <3>1
    <3>2. CASE s # {}
      <4>1. PICK x \in s : TRUE
        BY <3>2
      <4>2. PICK n \in Nat : \A k \in s \ {x} : k <= n
        <5>1. s \ {x} \in SUBSET s /\ s \ {x} # s
          OBVIOUS
        <5>2. s \ {x} \in T
          BY <5>1
        <5> QED
          BY <5>2
      <4>3. (IF x <= n THEN n ELSE x) \in Nat /\ \A k \in s : k <= (IF x <= n THEN n ELSE x)
        BY <4>2
      <4> QED
        BY <4>3
    <3> QED
      BY <3>1, <3>2
  <2>2. S \in T
    <3>1. T \in SUBSET (SUBSET S)
      OBVIOUS
    <3> HIDE DEF T
    <3>2. T = SUBSET S
      BY <2>1, <3>1, SubsetInduction
    <3> QED
      BY <3>2
  <2> QED
    BY <2>2
<1>2. PICK n \in Above : \A k \in 0..(n - 1) : k \notin Above
  <2> HIDE DEF Above
  <2>1. Above \in SUBSET Nat
    BY DEF Above
  <2> QED
    BY <1>1, <2>1, LeastOf
<1>3. n \in S
  <2> SUFFICES ASSUME n \notin S PROVE FALSE
    OBVIOUS
  <2>1. PICK x \in S : TRUE
    OBVIOUS
  <2>2. \A k \in S : k <= n - 1
    OBVIOUS
  <2>3. n - 1 \in Nat /\ n - 1 \in 0..(n - 1)
    BY <2>1, <2>2
  <2> QED
    BY <1>2, <2>2, <2>3
<1> QED
  BY <1>3

(* Two lengths make a number.                                              *)
LEMMA LengthsAdd ==
  ASSUME NEW S, NEW T, NEW s \in Seq(S), NEW t \in Seq(T)
  PROVE  Len(s) + Len(t) \in Nat
OBVIOUS

(* So a process has a number of candidates.                                *)
LEMMA CandidatesCount ==
  ASSUME NEW p, IsList(p.actions), IsList(p.children)
  PROVE  Candidates(p) \in Nat
BY LengthsAdd DEF IsList, Candidates

(* What the validator asks of a distribution is what a draw needs.         *)
LEMMA DistributionFits ==
  ASSUME NEW m, WellFormed(m), NEW i \in DOMAIN m.processes, m.processes[i].kind = "stochastic",
         StochasticFits(m, m.processes[i])
  PROVE  LET p == m.processes[i] IN
         /\ p.source \in DOMAIN m.sources
         /\ Candidates(p) \in Nat /\ Candidates(p) >= 1
         /\ \A k \in 0..(Candidates(p) - 1) : Cumulative(p, k) \in Nat
         /\ TotalWeight(p) \in 1..m.sources[p.source]
<1> DEFINE p == m.processes[i]
           w == p.weights
           c == Candidates(p)
<1>1. p.source \in DOMAIN m.sources /\ c >= 1
  BY DEF StochasticFits, Candidates
<1>2. c \in Nat
  BY CandidatesCount DEF WellFormed
<1>3. \A k \in DOMAIN w : k \in Nat /\ w[k] \in Nat \ {0}
  BY DEF WellFormed
<1>4. m.sources[p.source] \in Nat
  BY <1>1 DEF WellFormed
<1>5. CASE Uniform(p)
  <2>1. c <= m.sources[p.source]
    BY <1>5 DEF StochasticFits, Candidates
  <2>2. TotalWeight(p) = c /\ \A k \in 0..(c - 1) : Cumulative(p, k) \in Nat
    BY <1>1, <1>2, <1>5 DEF TotalWeight, Cumulative
  <2> QED
    BY <1>1, <1>2, <1>4, <2>1, <2>2
<1>6. CASE ~Uniform(p)
  <2> DEFINE last == CHOOSE k \in DOMAIN w : \A n \in DOMAIN w : n <= k
  <2>1. last \in DOMAIN w /\ \A n \in DOMAIN w : n <= last
    <3>1. DOMAIN w \in SUBSET Nat /\ DOMAIN w # {} /\ IsFiniteSet(DOMAIN w)
      BY <1>3, <1>6 DEF Uniform, WellFormed
    <3>2. \E k \in DOMAIN w : \A n \in DOMAIN w : n <= k
      BY <3>1, GreatestExists
    <3> QED
      BY <3>2
  <2>2. UpTo(w, last) = Total(w)
    BY DEF Total
  <2> HIDE DEF last
  <2>3. Total(w) <= m.sources[p.source] /\ last < c
    BY <1>6, <2>1 DEF StochasticFits, Candidates
  <2>4. last \in Nat /\ c - 1 \in Nat /\ last <= c - 1
    BY <1>1, <1>2, <1>3, <2>1, <2>3
  <2>5. UpTo(w, c - 1) = UpTo(w, last) /\ UpTo(w, last) >= 1 /\ \A k \in Nat : UpTo(w, k) \in Nat
    BY <1>3, <2>1, <2>4, UpToGrows
  <2>6. TotalWeight(p) = UpTo(w, c - 1) /\ \A k \in 0..(c - 1) : Cumulative(p, k) = UpTo(w, k)
    BY <1>6, <2>4 DEF TotalWeight, Cumulative
  <2> QED
    BY <1>1, <1>2, <1>4, <2>2, <2>3, <2>4, <2>5, <2>6
<1> QED
  BY <1>5, <1>6

(* Every word that is not rejected selects a candidate.                    *)
LEMMA SelectsCandidate ==
  ASSUME NEW p, NEW R \in Nat, NEW word \in 0..(R - 1), ~Rejected(p, R, word),
         Candidates(p) \in Nat, Candidates(p) >= 1,
         \A k \in 0..(Candidates(p) - 1) : Cumulative(p, k) \in Nat,
         TotalWeight(p) \in 1..R
  PROVE  Selected(p, R, word) \in 0..(Candidates(p) - 1)
<1> DEFINE T == TotalWeight(p)
           c == Candidates(p)
           q == R \div T
           ticket == word \div (Limit(p, R) \div T)
           S == {k \in 0..(c - 1) : ticket < Cumulative(p, k)}
<1>1. T \in Nat /\ T >= 1 /\ T <= R
  OBVIOUS
<1>2. q \in Nat /\ R = T * q + (R % T) /\ R % T \in 0..(T - 1)
  <2> HIDE DEF T
  <2> QED
    BY <1>1
<1>3. Limit(p, R) = T * q
  <2> HIDE DEF q
  <2>1. T * q \in Nat
    BY <1>1, <1>2
  <2> QED
    BY <1>1, <1>2, <2>1 DEF Limit
<1>4. q >= 1
  <2> HIDE DEF q, T
  <2>1. q = 0 => T * q = 0
    BY <1>1
  <2> QED
    BY <1>1, <1>2, <2>1
<1>5. (T * q) \div T = q
  <2> HIDE DEF q, T
  <2> QED
    BY <1>1, <1>2
<1>6. word < T * q
  BY <1>3 DEF Rejected
<1>7. ticket \in Nat /\ ticket < T
  <2>1. ticket = word \div q
    BY <1>3, <1>5
  <2> HIDE DEF q, T, ticket
  <2>2. word = q * (word \div q) + (word % q) /\ word % q \in 0..(q - 1) /\ word \div q \in Nat
    BY <1>2, <1>4
  <2> DEFINE d == word \div q
  <2>3. d \in Nat /\ q * d <= word
    BY <1>2, <2>2
  <2> HIDE DEF d
  <2>4. ~(d >= T)
    <3> SUFFICES ASSUME d >= T PROVE FALSE
      OBVIOUS
    <3>1. q * d >= q * T
      BY <1>1, <1>2, <2>3
    <3>2. q * T = T * q
      BY <1>1, <1>2
    <3> QED
      BY <1>1, <1>2, <1>6, <2>3, <3>1, <3>2
  <2> QED
    BY <1>1, <2>1, <2>3, <2>4 DEF d
<1>8. c - 1 \in S
  BY <1>7 DEF TotalWeight
<1>9. PICK k \in S : \A j \in 0..(k - 1) : j \notin S
  <2>1. S \in SUBSET Nat /\ S # {}
    BY <1>8
  <2> HIDE DEF S
  <2> QED
    BY <2>1, LeastOf
<1>10. k \in 0..(c - 1) /\ ticket < Cumulative(p, k) /\ \A j \in 0..(k - 1) : ticket >= Cumulative(p, j)
  <2> HIDE DEF ticket
  <2>1. ASSUME NEW j \in 0..(k - 1) PROVE ticket >= Cumulative(p, j)
    <3>1. j \in 0..(c - 1) /\ j \notin S
      BY <1>9
    <3>2. Cumulative(p, j) \in Nat /\ ~(ticket < Cumulative(p, j))
      BY <3>1
    <3> QED
      BY <1>7, <3>2
  <2> QED
    BY <1>9, <2>1
<1> HIDE DEF ticket, c
<1> QED
  BY <1>10 DEF Selected, ticket, c

-----------------------------------------------------------------------------
(* In a finite set that is strictly ordered, elements differ in how many   *)
(* come before them, and each position is taken.                           *)
LEMMA Positions ==
  ASSUME NEW S, IsFiniteSet(S), NEW R,
         \A x \in S : <<x, x>> \notin R,
         \A x, y, z \in S : <<x, y>> \in R /\ <<y, z>> \in R => <<x, z>> \in R,
         \A x, y \in S : x # y => <<x, y>> \in R \/ <<y, x>> \in R
  PROVE  /\ \A x, y \in S : Cardinality({z \in S : <<z, x>> \in R})
                              = Cardinality({z \in S : <<z, y>> \in R}) => x = y
         /\ \A n \in 1..Cardinality(S) :
              \E x \in S : Cardinality({z \in S : <<z, x>> \in R}) = n - 1
<1> DEFINE c == Cardinality(S)
           Before(x) == {z \in S : <<z, x>> \in R}
           f == [x \in S |-> Cardinality(Before(x))]
           T == 0..(c - 1)
<1>1. c \in Nat
  BY FS_CardinalityType
<1>2. ASSUME NEW x \in S
      PROVE  IsFiniteSet(Before(x)) /\ Cardinality(Before(x)) \in T
  <2>1. Before(x) \in SUBSET S /\ Before(x) # S
    OBVIOUS
  <2> HIDE DEF Before
  <2>2. IsFiniteSet(Before(x)) /\ Cardinality(Before(x)) <= Cardinality(S)
        /\ Cardinality(S) # Cardinality(Before(x))
    BY <2>1, FS_Subset
  <2>3. Cardinality(Before(x)) \in Nat
    BY <2>2, FS_CardinalityType
  <2> QED
    BY <1>1, <2>2, <2>3
<1>3. ASSUME NEW x \in S, NEW y \in S, <<x, y>> \in R
      PROVE  Cardinality(Before(x)) # Cardinality(Before(y))
  <2>1. Before(x) \in SUBSET Before(y) /\ x \in Before(y) /\ x \notin Before(x)
    BY <1>3
  <2>2. IsFiniteSet(Before(y))
    BY <1>2
  <2> HIDE DEF Before
  <2> QED
    BY <2>1, <2>2, FS_Subset
<1>4. \A x, y \in S : f[x] = f[y] => x = y
  <2> HIDE DEF Before
  <2> QED
    BY <1>3
<1>5. f \in Injection(S, T)
  <2>1. f \in [S -> T]
    BY <1>2
  <2> HIDE DEF f
  <2> QED
    BY <1>4, <2>1 DEF Injection, IsInjective
<1>6. IsFiniteSet(T) /\ Cardinality(T) = c
  <2> HIDE DEF c
  <2>1. IsFiniteSet(T) /\ Cardinality(T) = IF 0 > c - 1 THEN 0 ELSE (c - 1) - 0 + 1
    BY <1>1, FS_Interval
  <2>2. (IF 0 > c - 1 THEN 0 ELSE (c - 1) - 0 + 1) = c
    BY <1>1
  <2> HIDE DEF T
  <2> QED
    BY <2>1, <2>2
<1>7. f \in Surjection(S, T)
  <2> HIDE DEF f, T
  <2> QED
    BY <1>5, <1>6, FS_Injection
<1>8. \A n \in T : \E x \in S : f[x] = n
  BY <1>7 DEF Surjection
<1>9. ASSUME NEW n \in 1..c PROVE \E x \in S : Cardinality(Before(x)) = n - 1
  <2>1. n - 1 \in T
    BY <1>1
  <2> QED
    BY <1>8, <2>1
<1>10. ASSUME NEW x \in S, NEW y \in S, Cardinality(Before(x)) = Cardinality(Before(y)) PROVE x = y
  <2> HIDE DEF Before
  <2> QED
    BY <1>4, <1>10
<1> QED
  BY <1>9, <1>10

(* Of the transitions that match, no two have the same rank: identifiers   *)
(* are unique, and decide between equal priorities.                        *)
LEMMA RanksDiffer ==
  ASSUME NEW m, WellFormed(m), NEW matching \in SUBSET m.transitions
  PROVE  /\ IsFiniteSet(matching)
         /\ \A t \in matching : Rank(t, matching) \in Nat
         /\ \A t, u \in matching : Rank(t, matching) = Rank(u, matching) => t = u
<1> DEFINE R == {e \in matching \X matching : Outranks(e[1], e[2])}
<1>1. IsFiniteSet(matching)
  BY FS_Subset DEF WellFormed
<1>2. \A t \in matching : t.id \in Int /\ t.priority \in Int
  BY DEF WellFormed
<1>3. \A t, u \in matching : t.id = u.id => t = u
  BY DEF WellFormed
<1>4. \A x, y \in matching : <<x, y>> \in R <=> Outranks(x, y)
  OBVIOUS
<1>5. \A x \in matching : ~Outranks(x, x)
  BY <1>2 DEF Outranks
<1>6. \A x, y, z \in matching : Outranks(x, y) /\ Outranks(y, z) => Outranks(x, z)
  BY <1>2 DEF Outranks
<1>7. \A x, y \in matching : x # y => Outranks(x, y) \/ Outranks(y, x)
  BY <1>2, <1>3 DEF Outranks
<1>8. \A t \in matching : Rank(t, matching) = Cardinality({u \in matching : <<u, t>> \in R})
  BY <1>4 DEF Rank
<1> HIDE DEF R
<1>9. \A x, y \in matching : Cardinality({z \in matching : <<z, x>> \in R})
                               = Cardinality({z \in matching : <<z, y>> \in R}) => x = y
  <2>1. \A x \in matching : <<x, x>> \notin R
    BY <1>4, <1>5
  <2>2. \A x, y, z \in matching : <<x, y>> \in R /\ <<y, z>> \in R => <<x, z>> \in R
    BY <1>4, <1>6
  <2>3. \A x, y \in matching : x # y => <<x, y>> \in R \/ <<y, x>> \in R
    BY <1>4, <1>7
  <2> QED
    BY <1>1, <2>1, <2>2, <2>3, Positions
<1>10. ASSUME NEW t \in matching PROVE Rank(t, matching) \in Nat
  <2>1. {u \in matching : Outranks(u, t)} \in SUBSET matching
    OBVIOUS
  <2> QED
    BY <1>1, <2>1, FS_Subset, FS_CardinalityType DEF Rank
<1> QED
  BY <1>1, <1>8, <1>9, <1>10

(* What is scheduled is a list of actions of the matching transitions: no  *)
(* two of them share their group, rank and index, so that each place in    *)
(* the list is taken.                                                      *)
LEMMA ScheduledActions ==
  ASSUME NEW m, WellFormed(m), NEW matching \in SUBSET m.transitions
  PROVE  /\ IsList(Scheduled(matching))
         /\ \A x \in Items(Scheduled(matching)) :
              x.rank \in Int /\ \E t \in matching : x.action \in Items(t.actions)
<1> DEFINE From(t, k) == [group |-> t.actions[k].group, rank |-> Rank(t, matching), index |-> k,
                          action |-> t.actions[k], policy |-> t.policy, id |-> t.id]
           Entries(t) == {From(t, k) : k \in DOMAIN t.actions}
           Sets == {Entries(t) : t \in matching}
           Entry == UNION Sets
           Before(x, y) == \/ x.group < y.group
                           \/ x.group = y.group /\ x.rank < y.rank
                           \/ x.group = y.group /\ x.rank = y.rank /\ x.index < y.index
           R == {e \in Entry \X Entry : Before(e[1], e[2])}
           s == [n \in 1..Cardinality(Entry) |->
                   CHOOSE x \in Entry : Cardinality({y \in Entry : Before(y, x)}) = n - 1]
<1>1. Scheduled(matching) = s
  BY DEF Scheduled
<1>2. IsFiniteSet(matching)
      /\ (\A t \in matching : Rank(t, matching) \in Nat)
      /\ (\A t, u \in matching : Rank(t, matching) = Rank(u, matching) => t = u)
  BY RanksDiffer
<1>3. ASSUME NEW t \in matching
      PROVE  t.actions \in Seq(Items(t.actions)) /\ \A k \in DOMAIN t.actions : t.actions[k].group \in Int
  BY DEF WellFormed, IsList, Items
<1>4. ASSUME NEW x \in Entry
      PROVE  \E t \in matching : \E k \in DOMAIN t.actions : x = From(t, k)
  OBVIOUS
<1>5. ASSUME NEW x \in Entry
      PROVE  x.group \in Int /\ x.rank \in Int /\ x.index \in Int
  <2>1. PICK t \in matching : \E k \in DOMAIN t.actions : x = From(t, k)
    BY <1>4
  <2>2. PICK k \in DOMAIN t.actions : x = From(t, k)
    BY <2>1
  <2>3. k \in Int /\ t.actions[k].group \in Int /\ Rank(t, matching) \in Int
    BY <1>2, <1>3
  <2> QED
    BY <2>2, <2>3
<1>6. ASSUME NEW x \in Entry, NEW y \in Entry,
             x.group = y.group, x.rank = y.rank, x.index = y.index
      PROVE  x = y
  <2>1. PICK t \in matching : \E k \in DOMAIN t.actions : x = From(t, k)
    BY <1>4
  <2>2. PICK k \in DOMAIN t.actions : x = From(t, k)
    BY <2>1
  <2>3. PICK u \in matching : \E l \in DOMAIN u.actions : y = From(u, l)
    BY <1>4
  <2>4. PICK l \in DOMAIN u.actions : y = From(u, l)
    BY <2>3
  <2>5. Rank(t, matching) = Rank(u, matching) /\ k = l
    BY <1>6, <2>2, <2>4
  <2>6. t = u
    BY <1>2, <2>5
  <2> QED
    BY <2>2, <2>4, <2>5, <2>6
<1>7. IsFiniteSet(Entry)
  <2>1. ASSUME NEW t \in matching PROVE IsFiniteSet(Entries(t))
    <3> DEFINE e == [k \in DOMAIN t.actions |-> From(t, k)]
    <3>1. e \in Surjection(DOMAIN t.actions, Entries(t))
      BY DEF Surjection
    <3>2. IsFiniteSet(DOMAIN t.actions)
      <4>1. DOMAIN t.actions = 1..Len(t.actions) /\ Len(t.actions) \in Nat
        BY <1>3
      <4> QED
        BY <4>1, FS_Interval
    <3> HIDE DEF e, Entries
    <3> QED
      BY <3>1, <3>2, FS_Surjection
  <2>2. IsFiniteSet(Sets)
    <3> DEFINE e == [t \in matching |-> Entries(t)]
    <3> HIDE DEF Entries
    <3>1. e \in Surjection(matching, Sets)
      BY DEF Surjection
    <3> HIDE DEF e, Sets
    <3> QED
      BY <1>2, <3>1, FS_Surjection
  <2> HIDE DEF Entries
  <2>3. \A T \in Sets : IsFiniteSet(T)
    BY <2>1
  <2> HIDE DEF Sets
  <2> QED
    BY <2>2, <2>3, FS_UNION
<1>8. ASSUME NEW n \in 1..Cardinality(Entry)
      PROVE  \E x \in Entry : Cardinality({y \in Entry : Before(y, x)}) = n - 1
  <2> HIDE DEF Entry
  <2>1. \A x, y \in Entry : <<x, y>> \in R <=> Before(x, y)
    OBVIOUS
  <2>2. \A x \in Entry : <<x, x>> \notin R
    <3> HIDE DEF R
    <3>1. \A x \in Entry : ~Before(x, x)
      BY <1>5
    <3> HIDE DEF Before
    <3> QED
      BY <2>1, <3>1
  <2>3. \A x, y, z \in Entry : <<x, y>> \in R /\ <<y, z>> \in R => <<x, z>> \in R
    <3> HIDE DEF R
    <3>1. \A x, y, z \in Entry : Before(x, y) /\ Before(y, z) => Before(x, z)
      BY <1>5
    <3> HIDE DEF Before
    <3> QED
      BY <2>1, <3>1
  <2>4. \A x, y \in Entry : x # y => <<x, y>> \in R \/ <<y, x>> \in R
    <3> HIDE DEF R
    <3>1. \A x, y \in Entry : x # y => Before(x, y) \/ Before(y, x)
      BY <1>5, <1>6
    <3> HIDE DEF Before
    <3> QED
      BY <2>1, <3>1
  <2> HIDE DEF R
  <2>5. PICK x \in Entry : Cardinality({z \in Entry : <<z, x>> \in R}) = n - 1
    <3> HIDE DEF Before
    <3>1. \A k \in 1..Cardinality(Entry) :
            \E x \in Entry : Cardinality({z \in Entry : <<z, x>> \in R}) = k - 1
      BY <1>7, <2>2, <2>3, <2>4, Positions
    <3> QED
      BY <3>1
  <2>6. {z \in Entry : <<z, x>> \in R} = {z \in Entry : Before(z, x)}
    <3> HIDE DEF Before
    <3> QED
      BY <2>1
  <2> HIDE DEF Before
  <2> QED
    BY <2>5, <2>6
<1>9. \A n \in 1..Cardinality(Entry) : s[n] \in Entry
  <2> HIDE DEF Entry, Before
  <2> QED
    BY <1>8
<1>10. Cardinality(Entry) \in Nat
  <2> HIDE DEF Entry
  <2> QED
    BY <1>7, FS_CardinalityType
<1>11. IsList(s) /\ \A x \in Items(s) : x \in Entry
  <2>1. DOMAIN s = 1..Cardinality(Entry)
    OBVIOUS
  <2>2. s = [n \in DOMAIN s |-> s[n]]
    <3> HIDE DEF Entry, Before
    <3> QED
      OBVIOUS
  <2> HIDE DEF s, Entry
  <2> QED
    BY <1>9, <1>10, <2>1, <2>2 DEF IsList, Items
<1>12. \A x \in Entry : \E t \in matching : x.action \in Items(t.actions)
  <2> SUFFICES ASSUME NEW x \in Entry PROVE \E t \in matching : x.action \in Items(t.actions)
    OBVIOUS
  <2>1. PICK t \in matching : \E k \in DOMAIN t.actions : x = From(t, k)
    BY <1>4
  <2>2. PICK k \in DOMAIN t.actions : x = From(t, k)
    BY <2>1
  <2> QED
    BY <2>2 DEF Items
<1>13. \A x \in Entry : x.rank \in Int
  BY <1>5
<1> HIDE DEF s, Entry
<1> QED
  BY <1>1, <1>11, <1>12, <1>13

-----------------------------------------------------------------------------
(* What may lie below the top of the stack: what remains of a process.     *)
Rest == {"actions", "children", "exit"}

(* What lies over what remains of a process is an action of it or the      *)
(* entry to, or the rest of, a child.                                      *)
Under(m, x, y) ==
  IF x.op = "action" THEN x.process = y.process
                     ELSE x.process \in Items(m.processes[y.process].children)

(* The processes on the stack are in the manifest, each one that is under  *)
(* expansion has an item of its own, and each item lies on its parent's.   *)
Nest(m, w, open) ==
  /\ \A i \in DOMAIN w : /\ w[i].process \in DOMAIN m.processes
                         /\ w[i].op = "draw" => m.processes[w[i].process].kind = "stochastic"
                         /\ w[i].op = "children" => w[i].index \in Nat \ {0}
  /\ \A i \in DOMAIN w : i # 1 => w[i].op \in Rest /\ Under(m, w[i - 1], w[i])
  /\ \A p \in open : \E i \in DOMAIN w : w[i].op \notin {"enter", "action"} /\ w[i].process = p

(* The places of a stack whose top gives way to none, one or two items.    *)
LEMMA Pushed ==
  ASSUME NEW S, NEW w \in Seq(S), w # <<>>, NEW x, NEW y
  PROVE  /\ Len(w) \in Nat /\ Len(w) >= 1 /\ DOMAIN w = 1..Len(w)
         /\ <<>> \o Tail(w) \in Seq(S)
         /\ DOMAIN (<<>> \o Tail(w)) = 1..(Len(w) - 1)
         /\ \A i \in 1..(Len(w) - 1) : (<<>> \o Tail(w))[i] = w[i + 1]
         /\ DOMAIN (<<x>> \o Tail(w)) = 1..Len(w)
         /\ (<<x>> \o Tail(w))[1] = x
         /\ \A i \in 1..Len(w) : i # 1 => (<<x>> \o Tail(w))[i] = w[i]
         /\ DOMAIN (<<x, y>> \o Tail(w)) = 1..(Len(w) + 1)
         /\ (<<x, y>> \o Tail(w))[1] = x
         /\ (<<x, y>> \o Tail(w))[2] = y
         /\ \A i \in 1..(Len(w) + 1) : i # 1 /\ i # 2 => (<<x, y>> \o Tail(w))[i] = w[i - 1]
<1>1. Len(w) \in Nat /\ Len(w) >= 1 /\ DOMAIN w = 1..Len(w)
  OBVIOUS
<1>2. Tail(w) \in Seq(S) /\ Len(Tail(w)) = Len(w) - 1
      /\ \A i \in 1..(Len(w) - 1) : Tail(w)[i] = w[i + 1]
  OBVIOUS
<1>3. <<>> \o Tail(w) = Tail(w)
  BY <1>2
<1>4. /\ DOMAIN (<<x>> \o Tail(w)) = 1..Len(w)
      /\ (<<x>> \o Tail(w))[1] = x
      /\ \A i \in 1..Len(w) : i # 1 => (<<x>> \o Tail(w))[i] = w[i]
  <2> DEFINE T == S \cup {x, y}
  <2>1. <<x>> \in Seq(T) /\ Tail(w) \in Seq(T)
    BY <1>2
  <2> HIDE DEF T
  <2> QED
    BY <1>1, <1>2, <2>1
<1>5. /\ DOMAIN (<<x, y>> \o Tail(w)) = 1..(Len(w) + 1)
      /\ (<<x, y>> \o Tail(w))[1] = x
      /\ (<<x, y>> \o Tail(w))[2] = y
      /\ \A i \in 1..(Len(w) + 1) : i # 1 /\ i # 2 => (<<x, y>> \o Tail(w))[i] = w[i - 1]
  <2> DEFINE T == S \cup {x, y}
  <2>1. <<x, y>> \in Seq(T) /\ Tail(w) \in Seq(T)
    BY <1>2
  <2> HIDE DEF T
  <2> QED
    BY <1>1, <1>2, <2>1
<1> QED
  BY <1>1, <1>2, <1>3, <1>4, <1>5

(* A sequence over any set is a list.                                      *)
LEMMA ListOf == ASSUME NEW S, NEW s \in Seq(S) PROVE IsList(s)
BY DEF IsList, Items

(* The top of the stack may give way to another item of its process,       *)
LEMMA NestReplace ==
  ASSUME NEW m, NEW w, IsList(w), w # <<>>, NEW open, NEW more, Nest(m, w, open), NEW x,
         Head(w).op # "action", x.process = Head(w).process,
         x.op \notin {"enter", "action"}, x.op = "draw" => m.processes[x.process].kind = "stochastic",
         x.op = "children" => x.index \in Nat \ {0},
         more \subseteq open \cup {x.process}
  PROVE  Nest(m, <<x>> \o Tail(w), more)
<1> DEFINE v == <<x>> \o Tail(w)
<1>1. w \in Seq(Items(w))
  BY DEF IsList
<1>2. Len(w) \in Nat /\ Len(w) >= 1 /\ DOMAIN w = 1..Len(w) /\ DOMAIN v = 1..Len(w) /\ v[1] = x
      /\ \A i \in 1..Len(w) : i # 1 => v[i] = w[i]
  BY <1>1, Pushed
<1>3. Head(w) = w[1]
  BY <1>1
<1> HIDE DEF v
<1>4. ASSUME NEW i \in DOMAIN v
      PROVE  /\ v[i].process \in DOMAIN m.processes
             /\ v[i].op = "draw" => m.processes[v[i].process].kind = "stochastic"
             /\ v[i].op = "children" => v[i].index \in Nat \ {0}
  BY <1>2, <1>3 DEF Nest
<1>5. ASSUME NEW i \in DOMAIN v, i # 1 PROVE v[i].op \in Rest /\ Under(m, v[i - 1], v[i])
  <2>1. v[i] = w[i] /\ w[i].op \in Rest /\ Under(m, w[i - 1], w[i])
    BY <1>2, <1>5 DEF Nest
  <2>2. CASE i = 2
    <3>1. v[i - 1] = x /\ w[i - 1] = Head(w)
      BY <1>2, <1>3, <2>2
    <3> QED
      BY <2>1, <3>1 DEF Under
  <2>3. CASE i # 2
    <3>1. i - 1 \in 1..Len(w) /\ i - 1 # 1
      BY <1>2, <1>5, <2>3
    <3> QED
      BY <1>2, <2>1, <3>1
  <2> QED
    BY <2>2, <2>3
<1>6. ASSUME NEW p \in more
      PROVE  \E i \in DOMAIN v : v[i].op \notin {"enter", "action"} /\ v[i].process = p
  <2>1. CASE p = x.process
    BY <1>2, <2>1
  <2>2. CASE p # x.process
    <3>1. PICK i \in DOMAIN w : w[i].op \notin {"enter", "action"} /\ w[i].process = p
      BY <2>2 DEF Nest
    <3>2. i # 1
      BY <1>3, <2>2, <3>1
    <3> QED
      BY <1>2, <3>1, <3>2
  <2> QED
    BY <2>1, <2>2
<1> QED
  BY <1>4, <1>5, <1>6 DEF Nest, v

(* to what remains of it below an action or the entry to a child,          *)
LEMMA NestPush ==
  ASSUME NEW m, NEW w, IsList(w), w # <<>>, NEW open, Nest(m, w, open), NEW x, NEW y,
         Head(w).op \notin {"enter", "action"}, y.process = Head(w).process, y.op \in Rest,
         y.op = "children" => y.index \in Nat \ {0},
         x.op \notin {"draw", "children"}, x.process \in DOMAIN m.processes, Under(m, x, y)
  PROVE  Nest(m, <<x, y>> \o Tail(w), open)
<1> DEFINE v == <<x, y>> \o Tail(w)
<1>1. w \in Seq(Items(w))
  BY DEF IsList
<1>2. Len(w) \in Nat /\ Len(w) >= 1 /\ DOMAIN w = 1..Len(w)
      /\ DOMAIN v = 1..(Len(w) + 1) /\ v[1] = x /\ v[2] = y
      /\ \A i \in 1..(Len(w) + 1) : i # 1 /\ i # 2 => v[i] = w[i - 1]
  BY <1>1, Pushed
<1>3. Head(w) = w[1]
  BY <1>1
<1> HIDE DEF v
<1>4. y.op # "draw" /\ y.op \notin {"enter", "action"}
  BY DEF Rest
<1>5. ASSUME NEW i \in DOMAIN v, i # 1, i # 2 PROVE i - 1 \in DOMAIN w /\ i - 1 # 1 /\ v[i] = w[i - 1]
  BY <1>2, <1>5
<1>6. ASSUME NEW i \in DOMAIN v
      PROVE  /\ v[i].process \in DOMAIN m.processes
             /\ v[i].op = "draw" => m.processes[v[i].process].kind = "stochastic"
             /\ v[i].op = "children" => v[i].index \in Nat \ {0}
  <2>1. CASE i = 1
    BY <1>2, <2>1
  <2>2. CASE i = 2
    <3>1. 1 \in DOMAIN w
      BY <1>2
    <3> QED
      BY <1>2, <1>3, <1>4, <2>2, <3>1 DEF Nest
  <2>3. CASE i # 1 /\ i # 2
    BY <1>5, <2>3 DEF Nest
  <2> QED
    BY <2>1, <2>2, <2>3
<1>7. ASSUME NEW i \in DOMAIN v, i # 1 PROVE v[i].op \in Rest /\ Under(m, v[i - 1], v[i])
  <2>1. CASE i = 2
    <3>1. i - 1 = 1
      BY <2>1
    <3> QED
      BY <1>2, <2>1, <3>1
  <2>2. CASE i # 2
    <3>1. i - 1 \in DOMAIN w /\ i - 1 # 1 /\ v[i] = w[i - 1]
      BY <1>5, <1>7, <2>2
    <3>2. w[i - 1].op \in Rest /\ Under(m, w[(i - 1) - 1], w[i - 1])
      BY <3>1 DEF Nest
    <3>3. CASE i = 3
      <4>1. v[i - 1] = y /\ w[(i - 1) - 1] = Head(w)
        BY <1>2, <1>3, <3>3
      <4>2. Head(w).op # "action" /\ y.op # "action"
        BY <1>4
      <4> QED
        BY <3>1, <3>2, <4>1, <4>2 DEF Under
    <3>4. CASE i # 3
      <4>1. i - 1 \in 1..(Len(w) + 1) /\ i - 1 # 1 /\ i - 1 # 2
        BY <1>2, <1>7, <2>2, <3>4
      <4>2. v[i - 1] = w[(i - 1) - 1]
        BY <1>2, <4>1
      <4> QED
        BY <3>1, <3>2, <4>2
    <3> QED
      BY <3>3, <3>4
  <2> QED
    BY <2>1, <2>2
<1>8. ASSUME NEW p \in open
      PROVE  \E i \in DOMAIN v : v[i].op \notin {"enter", "action"} /\ v[i].process = p
  <2>1. PICK i \in DOMAIN w : w[i].op \notin {"enter", "action"} /\ w[i].process = p
    BY DEF Nest
  <2>2. CASE i = 1
    <3>1. 2 \in DOMAIN v
      BY <1>2
    <3> QED
      BY <1>2, <1>3, <1>4, <2>1, <2>2, <3>1
  <2>3. CASE i # 1
    <3>1. i + 1 \in 1..(Len(w) + 1) /\ i + 1 # 1 /\ i + 1 # 2 /\ (i + 1) - 1 = i
      BY <1>2, <2>3
    <3> QED
      BY <1>2, <2>1, <3>1
  <2> QED
    BY <2>2, <2>3
<1> QED
  BY <1>6, <1>7, <1>8 DEF Nest, v

(* or leave.                                                               *)
LEMMA NestPop ==
  ASSUME NEW m, NEW w, IsList(w), w # <<>>, NEW open, NEW less, Nest(m, w, open),
         less \subseteq open, Head(w).op # "action" => Head(w).process \notin less
  PROVE  Nest(m, <<>> \o Tail(w), less)
<1> DEFINE v == <<>> \o Tail(w)
<1>1. w \in Seq(Items(w))
  BY DEF IsList
<1>2. Len(w) \in Nat /\ Len(w) >= 1 /\ DOMAIN w = 1..Len(w)
      /\ DOMAIN v = 1..(Len(w) - 1) /\ \A i \in 1..(Len(w) - 1) : v[i] = w[i + 1]
  BY <1>1, Pushed
<1>3. Head(w) = w[1]
  BY <1>1
<1> HIDE DEF v
<1>4. ASSUME NEW i \in DOMAIN v PROVE i + 1 \in DOMAIN w /\ i + 1 # 1 /\ v[i] = w[i + 1]
  BY <1>2
<1>5. ASSUME NEW i \in DOMAIN v, i # 1 PROVE v[i].op \in Rest /\ Under(m, v[i - 1], v[i])
  <2>1. w[i + 1].op \in Rest /\ Under(m, w[(i + 1) - 1], w[i + 1])
    BY <1>4 DEF Nest
  <2>2. i - 1 \in 1..(Len(w) - 1) /\ (i - 1) + 1 = (i + 1) - 1
    BY <1>2, <1>5
  <2>3. v[i - 1] = w[(i + 1) - 1]
    BY <1>2, <2>2
  <2> QED
    BY <1>4, <2>1, <2>3
<1>6. ASSUME NEW p \in less
      PROVE  \E i \in DOMAIN v : v[i].op \notin {"enter", "action"} /\ v[i].process = p
  <2>1. PICK i \in DOMAIN w : w[i].op \notin {"enter", "action"} /\ w[i].process = p
    BY DEF Nest
  <2>2. i # 1
    BY <1>3, <2>1
  <2>3. i - 1 \in 1..(Len(w) - 1) /\ (i - 1) + 1 = i
    BY <1>2, <2>2
  <2> QED
    BY <1>2, <2>1, <2>3
<1>7. ASSUME NEW i \in DOMAIN v
      PROVE  /\ v[i].process \in DOMAIN m.processes
             /\ v[i].op = "draw" => m.processes[v[i].process].kind = "stochastic"
             /\ v[i].op = "children" => v[i].index \in Nat \ {0}
  BY <1>4 DEF Nest
<1> QED
  BY <1>5, <1>6, <1>7 DEF Nest, v

(* Where no process is, over others, a child of its own, none is entered   *)
(* again before it is left: the stack from it down to itself would be a    *)
(* set of processes each of which has a child in the set.                  *)
LEMMA NestNeverTurns ==
  ASSUME NEW m, NEW w, IsList(w), w # <<>>, NEW open, Nest(m, w, open), ExpansionTerminates(m),
         Head(w).op = "enter"
  PROVE  Head(w).process \notin open
<1> SUFFICES ASSUME Head(w).process \in open PROVE FALSE
  OBVIOUS
<1>1. w \in Seq(Items(w)) /\ Head(w) = w[1] /\ DOMAIN w = 1..Len(w) /\ Len(w) \in Nat
  BY DEF IsList
<1>2. PICK j \in DOMAIN w : w[j].op \notin {"enter", "action"} /\ w[j].process = w[1].process
  BY <1>1 DEF Nest
<1>3. j # 1 /\ j >= 2 /\ j \in Nat
  BY <1>1, <1>2
<1> DEFINE edges == UNION {{<<p, c>> : c \in Items(m.processes[p].children)} : p \in DOMAIN m.processes}
           nodes == {w[i].process : i \in 2..j}
<1>4. ASSUME NEW i \in 2..j
      PROVE  \E e \in edges : e[1] = w[i].process /\ e[2] \in nodes
  <2>1. i \in DOMAIN w /\ i # 1 /\ i - 1 \in DOMAIN w
    BY <1>1, <1>3
  <2>2. w[i].process \in DOMAIN m.processes /\ Under(m, w[i - 1], w[i])
    BY <2>1 DEF Nest
  <2>3. w[i - 1].op # "action"
    <3>1. CASE i = 2
      BY <1>1, <3>1
    <3>2. CASE i # 2
      <4>1. i - 1 # 1
        BY <3>2
      <4>2. w[i - 1].op \in Rest
        BY <2>1, <4>1 DEF Nest
      <4> QED
        BY <4>2 DEF Rest
    <3> QED
      BY <3>1, <3>2
  <2>4. w[i - 1].process \in Items(m.processes[w[i].process].children)
    BY <2>2, <2>3 DEF Under
  <2>5. <<w[i].process, w[i - 1].process>> \in edges
    BY <2>2, <2>4
  <2>6. w[i - 1].process \in nodes
    <3>1. CASE i = 2
      <4>1. w[i - 1].process = w[j].process /\ j \in 2..j
        BY <1>2, <1>3, <3>1
      <4> QED
        BY <4>1
    <3>2. CASE i # 2
      <4>1. i - 1 \in 2..j
        BY <1>3, <3>2
      <4> QED
        BY <4>1
    <3> QED
      BY <3>1, <3>2
  <2> HIDE DEF edges, nodes
  <2> QED
    BY <2>5, <2>6
<1>5. nodes \in SUBSET {e[1] : e \in edges}
  <2> HIDE DEF edges
  <2> QED
    BY <1>4
<1>6. nodes # {}
  <2>1. 2 \in 2..j
    BY <1>3
  <2> QED
    BY <2>1
<1>7. PICK n \in nodes : \A e \in edges : ~(e[1] = n /\ e[2] \in nodes)
  <2>1. Acyclic(edges)
    BY DEF ExpansionTerminates
  <2> HIDE DEF edges, nodes
  <2> QED
    BY <1>5, <1>6, <2>1 DEF Acyclic
<1>8. PICK i \in 2..j : n = w[i].process
  OBVIOUS
<1> HIDE DEF edges
<1> QED
  BY <1>4, <1>7, <1>8

-----------------------------------------------------------------------------
(* What is executed is what the assumptions speak of.                      *)
Given == manifest \in Manifests /\ words \in Words

(* Each generator has a position in its words.                             *)
Placed ==
  /\ DOMAIN drawn = DOMAIN manifest.sources
  /\ \A s \in DOMAIN drawn : drawn[s] \in 0..(Len(words[s]) - 1)

(* The snapshot, too, has values of the domains.                           *)
Snapped ==
  Accepted =>
    /\ DOMAIN state = DOMAIN manifest.vars /\ DOMAIN snapshot = DOMAIN manifest.vars
    /\ \A v \in DOMAIN snapshot : snapshot[v] \in manifest.vars[v].domain

(* The actions that are left to do fit the manifest.                       *)
Listed ==
  /\ IsList(todo)
  /\ Accepted => \A x \in Items(todo) : ActionFits(manifest, x.action)

(* The stack is nested.                                                    *)
Nested ==
  /\ IsList(work)
  /\ Accepted => Nest(manifest, work, expanding)

(* What is executed is fixed for both executions.                          *)
LEMMA InputsStay == [Next]_vars => UNCHANGED <<manifest, trace, words>>
BY DEF Next, vars, input, NextEvent, RefuseAction, Fail, Write, Step, Emit, SelectBinding,
       StartProcess, Enter, RefuseEntry, ListActions, ListChildren, RefuseChild, Leave, Expand,
       EmitProcessAction, RefuseDelayed, Draw, RefuseDraw, Exhaust, EndCycle, Finish, Verify

(* So is whether the validators accept it.                                 *)
LEMMA AcceptedStays == [Next]_vars => Accepted' = Accepted
BY InputsStay DEF Accepted

(* Each generator has a position in its words.                             *)
LEMMA PlacedStep == Given /\ Placed /\ [Next]_vars => Placed'
<1> SUFFICES ASSUME Given, Placed, [Next]_vars PROVE Placed'
  OBVIOUS
<1>1. UNCHANGED <<manifest, trace, words>>
  BY InputsStay
<1>2. ASSUME NEW s \in DOMAIN manifest.sources PROVE Len(words[s]) \in Nat /\ Len(words[s]) >= 1
  <2>1. words[s] \in Seq(0..(manifest.sources[s] - 1)) /\ words[s] # <<>>
    BY WordsAssumption DEF Given
  <2> DEFINE S == 0..(manifest.sources[s] - 1)
  <2> HIDE DEF S
  <2> QED
    BY <2>1 DEF S
<1>3. CASE Draw
  <2>1. drawn' = [drawn EXCEPT ![Self.source] = (@ + 1) % Len(words[Self.source])]
    BY <1>3 DEF Draw
  <2> QED
    BY <1>1, <1>2, <2>1 DEF Placed
<1>4. CASE Verify
  <2>1. drawn' = [s \in DOMAIN manifest.sources |-> 0]
    BY <1>4 DEF Verify
  <2> QED
    BY <1>1, <1>2, <2>1 DEF Placed
<1>5. CASE UNCHANGED drawn
  BY <1>1, <1>5 DEF Placed
<1>6. ~Draw /\ ~Verify => UNCHANGED drawn
  BY DEF Next, vars, input, NextEvent, RefuseAction, Fail, Write, Step, Emit, SelectBinding,
         StartProcess, Enter, RefuseEntry, ListActions, ListChildren, RefuseChild, Leave, Expand,
         EmitProcessAction, RefuseDelayed, RefuseDraw, Exhaust, EndCycle, Finish
<1> QED
  BY <1>3, <1>4, <1>5, <1>6

(* A cycle starts from a snapshot of values in their domains.              *)
LEMMA SnappedStep == Domains /\ Snapped /\ [Next]_vars => Snapped'
<1> SUFFICES ASSUME Domains, Snapped, [Next]_vars, Accepted PROVE Snapped'
  BY AcceptedStays DEF Snapped
<1>1. UNCHANGED <<manifest, trace, words>>
  BY InputsStay
<1>2. CASE NextEvent
  <2>1. state' = state /\ snapshot' = state
    BY <1>2 DEF NextEvent
  <2> QED
    BY <1>1, <2>1 DEF Snapped, Domains
<1>3. CASE EndCycle
  <2>1. DOMAIN state' = DOMAIN state /\ snapshot' = snapshot
    BY <1>3 DEF EndCycle
  <2> QED
    BY <1>1, <2>1 DEF Snapped
<1>4. CASE Verify
  <2>1. state' = Start(manifest, trace) /\ snapshot' = Start(manifest, trace)
    BY <1>4 DEF Verify
  <2>2. DOMAIN Start(manifest, trace) = DOMAIN manifest.vars
    BY DEF Start
  <2>3. \A v \in DOMAIN Start(manifest, trace) : Start(manifest, trace)[v] \in manifest.vars[v].domain
    BY StartInDomain DEF Accepted
  <2> QED
    BY <1>1, <2>1, <2>2, <2>3 DEF Snapped
<1>5. CASE UNCHANGED <<state, snapshot>>
  BY <1>1, <1>5 DEF Snapped
<1>6. ~NextEvent /\ ~EndCycle /\ ~Verify => UNCHANGED <<state, snapshot>>
  BY DEF Next, vars, RefuseAction, Fail, Write, Step, Emit, SelectBinding,
         StartProcess, Enter, RefuseEntry, ListActions, ListChildren, RefuseChild, Leave, Expand,
         EmitProcessAction, RefuseDelayed, Draw, RefuseDraw, Exhaust, Finish
<1> QED
  BY <1>2, <1>3, <1>4, <1>5, <1>6

(* What is left of a list is a list of its items.                          *)
LEMMA TailOf ==
  ASSUME NEW s, IsList(s), s # <<>>
  PROVE  Head(s) \in Items(s) /\ IsList(Tail(s)) /\ Items(Tail(s)) \subseteq Items(s)
<1>1. s \in Seq(Items(s))
  BY DEF IsList
<1>2. Tail(s) \in Seq(Items(s)) /\ Len(Tail(s)) = Len(s) - 1 /\ Head(s) = s[1] /\ 1 \in DOMAIN s
      /\ \A i \in 1..Len(Tail(s)) : Tail(s)[i] = s[i + 1] /\ i + 1 \in DOMAIN s
  BY <1>1
<1>3. IsList(Tail(s))
  BY <1>2, ListOf
<1>4. \A i \in DOMAIN Tail(s) : i \in 1..Len(Tail(s))
  BY <1>2
<1> QED
  BY <1>2, <1>3, <1>4 DEF Items

(* What is left to do are actions that the validator accepted.             *)
LEMMA ListedStep == Given /\ Listed /\ [Next]_vars => Listed'
<1> SUFFICES ASSUME Given, Listed, [Next]_vars PROVE Listed'
  OBVIOUS
<1>1. UNCHANGED <<manifest, trace, words>> /\ Accepted' = Accepted
  BY InputsStay, AcceptedStays
<1>2. CASE NextEvent
  <2>1. PICK e : todo' = Scheduled(Matching(e))
    BY <1>2 DEF NextEvent
  <2>2. Matching(e) \in SUBSET manifest.transitions
    BY DEF Matching
  <2>3. WellFormed(manifest)
    BY ManifestAssumption DEF Given
  <2>4. IsList(todo') /\ \A x \in Items(todo') : \E t \in Matching(e) : x.action \in Items(t.actions)
    BY <2>1, <2>2, <2>3, ScheduledActions
  <2>5. Accepted => \A t \in Matching(e) : \A a \in Items(t.actions) : ActionFits(manifest, a)
    BY <2>2 DEF Accepted, Accepts, TransitionFits
  <2> QED
    BY <1>1, <2>4, <2>5 DEF Listed
<1>3. CASE todo # <<>> /\ todo' = Tail(todo)
  BY <1>1, <1>3, TailOf DEF Listed
<1>4. CASE Verify
  <2>1. todo' = <<>>
    BY <1>4 DEF Verify
  <2>2. IsList(todo') /\ Items(todo') = {}
    BY <2>1 DEF IsList, Items
  <2> QED
    BY <2>2 DEF Listed
<1>5. CASE UNCHANGED todo
  BY <1>1, <1>5 DEF Listed
<1>6. Write \/ Emit \/ SelectBinding \/ StartProcess => todo # <<>> /\ todo' = Tail(todo)
  BY DEF Write, Emit, SelectBinding, StartProcess, Step, Acting
<1>7. ~NextEvent /\ ~Verify /\ ~Write /\ ~Emit /\ ~SelectBinding /\ ~StartProcess => UNCHANGED todo
  BY DEF Next, vars, RefuseAction, Fail, Enter, RefuseEntry, ListActions, ListChildren, RefuseChild,
         Leave, Expand, EmitProcessAction, RefuseDelayed, Draw, RefuseDraw, Exhaust, EndCycle, Finish
<1> QED
  BY <1>2, <1>3, <1>4, <1>5, <1>6, <1>7

(* Stacks stay lists.                                                      *)
LEMMA ListsPushed ==
  ASSUME NEW w, IsList(w), w # <<>>, NEW x, NEW y
  PROVE  IsList(<<>> \o Tail(w)) /\ IsList(<<x>> \o Tail(w)) /\ IsList(<<x, y>> \o Tail(w))
<1> DEFINE T == Items(w) \cup {x, y}
<1>1. Tail(w) \in Seq(T)
  <2>1. w \in Seq(T)
    BY DEF IsList
  <2> HIDE DEF T
  <2> QED
    BY <2>1
<1>2. x \in T /\ y \in T
  OBVIOUS
<1> HIDE DEF T
<1>3. <<>> \o Tail(w) \in Seq(T) /\ <<x>> \o Tail(w) \in Seq(T) /\ <<x, y>> \o Tail(w) \in Seq(T)
  BY <1>1, <1>2
<1> QED
  BY <1>3, ListOf

(* The item on top, and what is known of it.                               *)
LEMMA TopItem ==
  ASSUME Given, Listed, Nested, Accepted, work # <<>>
  PROVE  /\ Head(work).process \in DOMAIN manifest.processes
         /\ Head(work).op = "draw" => Self.kind = "stochastic"
         /\ Head(work).op = "children" => Head(work).index \in Nat \ {0}
         /\ Items(Self.children) \subseteq DOMAIN manifest.processes
         /\ IsList(Self.actions) /\ IsList(Self.children)
         /\ StochasticFits(manifest, Self)
<1>1. Head(work) = work[1] /\ 1 \in DOMAIN work
  BY DEF Nested, IsList
<1>2. Head(work).process \in DOMAIN manifest.processes
      /\ (Head(work).op = "draw" => Self.kind = "stochastic")
      /\ (Head(work).op = "children" => Head(work).index \in Nat \ {0})
  BY <1>1 DEF Nested, Nest, Self
<1>3. WellFormed(manifest)
  BY ManifestAssumption DEF Given
<1> QED
  BY <1>2, <1>3 DEF Self, WellFormed, Accepted, Accepts, ProcessFits

(* A draw finds its source and its distribution, and selects one of its    *)
(* candidates unless the word is rejected.                                 *)
LEMMA DrawnCandidate ==
  ASSUME Given, Placed, Listed, Nested, Accepted, work # <<>>, Head(work).op = "draw"
  PROVE  /\ DrawError = "none" /\ ~Unfit
         /\ LET R == manifest.sources[Self.source] IN
            ~Rejected(Self, R, Word) => Selected(Self, R, Word) \in 0..(Candidates(Self) - 1)
<1> DEFINE R == manifest.sources[Self.source]
<1>1. /\ Head(work).process \in DOMAIN manifest.processes
      /\ Self.kind = "stochastic" /\ StochasticFits(manifest, Self)
  BY TopItem
<1>2. WellFormed(manifest)
  BY ManifestAssumption DEF Given
<1>3. /\ Self.source \in DOMAIN manifest.sources
      /\ Candidates(Self) \in Nat /\ Candidates(Self) >= 1
      /\ \A k \in 0..(Candidates(Self) - 1) : Cumulative(Self, k) \in Nat
      /\ TotalWeight(Self) \in 1..R
  BY <1>1, <1>2, DistributionFits DEF Self
<1>4. R \in Nat
  BY <1>2, <1>3 DEF WellFormed
<1>5. Word \in 0..(R - 1)
  <2>1. words[Self.source] \in Seq(0..(R - 1))
    BY <1>3, WordsAssumption DEF Given
  <2>2. drawn[Self.source] \in 0..(Len(words[Self.source]) - 1)
    BY <1>3 DEF Placed
  <2> DEFINE S == 0..(R - 1)
             d == drawn[Self.source]
             w == words[Self.source]
  <2> HIDE DEF S, d, w
  <2>3. w \in Seq(S) /\ d \in 0..(Len(w) - 1)
    BY <2>1, <2>2 DEF S, d, w
  <2>4. d + 1 \in 1..Len(w)
    BY <2>3
  <2>5. w[d + 1] \in S
    BY <2>3, <2>4
  <2> QED
    BY <2>5 DEF S, d, w, Word
<1>6. ~Rejected(Self, R, Word) => Selected(Self, R, Word) \in 0..(Candidates(Self) - 1)
  <2> HIDE DEF R
  <2> QED
    BY <1>3, <1>4, <1>5, SelectsCandidate
<1> QED
  BY <1>3, <1>6 DEF DrawError, Unfit

(* Each step of an expansion keeps the stack nested.                       *)
LEMMA NestedExpansion ==
  ASSUME Given, Placed, Listed, Nested, Accepted, work # <<>>,
         Enter \/ ListActions \/ ListChildren \/ Leave \/ EmitProcessAction \/ Draw
  PROVE  Nest(manifest, work', expanding')
<1> DEFINE m == manifest
<1>1. IsList(work) /\ Nest(m, work, expanding)
  BY DEF Nested
<1>2. /\ Head(work).process \in DOMAIN m.processes
      /\ IsList(Self.actions) /\ IsList(Self.children)
  BY TopItem
<1>3. CASE Enter
  <2> DEFINE x == Here(IF Self.kind = "stochastic" THEN "draw" ELSE "actions", 1)
  <2>1. work' = <<x>> \o Tail(work) /\ expanding' = expanding \cup {Head(work).process}
        /\ Head(work).op = "enter"
    BY <1>3 DEF Enter, Push, Expanding
  <2>2. x.process = Head(work).process /\ x.op \in {"draw", "actions"}
        /\ (x.op = "draw" => m.processes[x.process].kind = "stochastic")
    BY DEF Here, Item, Self
  <2> HIDE DEF x
  <2> QED
    BY <1>1, <2>1, <2>2, NestReplace
<1>4. CASE ListActions
  <2> DEFINE x == Here("action", Head(work).index)
             y == Here("actions", Head(work).index + 1)
             z == Here("children", 1)
  <2>1. (work' = <<x, y>> \o Tail(work) \/ work' = <<z>> \o Tail(work)) /\ expanding' = expanding
        /\ Head(work).op = "actions"
    BY <1>4 DEF ListActions, Push, Expanding
  <2>2. /\ {x.process, y.process, z.process} = {Head(work).process}
        /\ x.op = "action" /\ y.op = "actions" /\ z.op = "children" /\ z.index \in Nat \ {0}
    BY DEF Here, Item
  <2> HIDE DEF x, y, z
  <2>3. CASE work' = <<x, y>> \o Tail(work)
    BY <1>1, <1>2, <2>1, <2>2, <2>3, NestPush DEF Rest, Under
  <2>4. CASE work' = <<z>> \o Tail(work)
    BY <1>1, <2>1, <2>2, <2>4, NestReplace
  <2> QED
    BY <2>1, <2>3, <2>4
<1>5. CASE ListChildren
  <2> DEFINE n == Head(work).index
             x == Item("enter", Self.children[n], 0, Head(work).transition)
             y == Here("children", n + 1)
             z == Here("exit", 0)
  <2>1. CASE n > Len(Self.children)
    <3>1. work' = <<z>> \o Tail(work) /\ expanding' = expanding /\ Head(work).op = "children"
      BY <1>5, <2>1 DEF ListChildren, Push, Expanding
    <3>2. z.process = Head(work).process /\ z.op = "exit"
      BY DEF Here, Item
    <3> HIDE DEF z
    <3> QED
      BY <1>1, <3>1, <3>2, NestReplace
  <2>2. CASE ~(n > Len(Self.children))
    <3>1. work' = <<x, y>> \o Tail(work) /\ expanding' = expanding /\ Head(work).op = "children"
          /\ Self.children[n] \in DOMAIN m.processes
      BY <1>5, <2>2 DEF ListChildren, Push, Expanding
    <3>2. n \in DOMAIN Self.children /\ n + 1 \in Nat \ {0}
      <4>1. Len(Self.children) \in Nat /\ DOMAIN Self.children = 1..Len(Self.children)
        BY <1>2 DEF IsList
      <4>2. n \in Nat \ {0}
        BY <3>1, TopItem
      <4> HIDE DEF n
      <4> QED
        BY <2>2, <4>1, <4>2
    <3>3. /\ x.process = Self.children[n] /\ x.op = "enter"
          /\ y.process = Head(work).process /\ y.op = "children" /\ y.index \in Nat \ {0}
      BY <3>2 DEF Here, Item
    <3>4. x.process \in Items(m.processes[y.process].children)
      BY <3>2, <3>3 DEF Self, Items
    <3> HIDE DEF x, y
    <3> QED
      BY <1>1, <3>1, <3>3, <3>4, NestPush DEF Rest, Under
  <2> QED
    BY <2>1, <2>2
<1>6. CASE Leave
  <2>1. work' = <<>> \o Tail(work) /\ expanding' = expanding \ {Head(work).process}
    BY <1>6 DEF Leave, Push
  <2> QED
    BY <1>1, <2>1, NestPop
<1>7. CASE EmitProcessAction
  <2>1. work' = <<>> \o Tail(work) /\ expanding' = expanding /\ Head(work).op = "action"
    BY <1>7 DEF EmitProcessAction, Push, Expanding
  <2> QED
    BY <1>1, <2>1, NestPop
<1>8. CASE Draw
  <2> DEFINE R == m.sources[Self.source]
             k == Selected(Self, R, Word)
             i == k - Len(Self.actions) + 1
             x == Here("action", k + 1)
             z == Item("enter", Self.children[i], 0, Head(work).transition)
             y == Here("exit", 0)
  <2>1. expanding' = expanding /\ Head(work).op = "draw"
    BY <1>8 DEF Draw, Expanding
  <2>2. /\ x.process = Head(work).process /\ y.process = Head(work).process
        /\ x.op = "action" /\ y.op = "exit" /\ z.op = "enter" /\ z.process = Self.children[i]
    BY DEF Here, Item
  <2>3. CASE Rejected(Self, R, Word)
    <3>1. work' = work
      BY <1>8, <2>3 DEF Draw
    <3> QED
      BY <1>1, <2>1, <3>1
  <2>4. CASE ~Rejected(Self, R, Word) /\ k < Len(Self.actions)
    <3>1. work' = <<x, y>> \o Tail(work)
      BY <1>8, <2>4 DEF Draw, Push
    <3> HIDE DEF x, y
    <3> QED
      BY <1>1, <1>2, <2>1, <2>2, <3>1, NestPush DEF Rest, Under
  <2>5. CASE ~Rejected(Self, R, Word) /\ ~(k < Len(Self.actions))
    <3>1. work' = <<z, y>> \o Tail(work) /\ Self.children[i] \in DOMAIN m.processes
      BY <1>8, <2>5 DEF Draw, Push
    <3>2. k \in 0..(Candidates(Self) - 1)
      BY <2>1, <2>5, DrawnCandidate
    <3>3. i \in DOMAIN Self.children
      <4> DEFINE a == Len(Self.actions)
                 c == Len(Self.children)
      <4>1. Len(Self.actions) \in Nat /\ Len(Self.children) \in Nat
            /\ DOMAIN Self.children = 1..Len(Self.children)
        BY <1>2 DEF IsList
      <4>2. Candidates(Self) = a + c
        BY Zenon DEF Candidates
      <4>3. a \in Nat /\ c \in Nat /\ ~(k < a)
        BY <2>5, <4>1
      <4> HIDE DEF k, a, c
      <4>4. k - a + 1 \in 1..c
        BY <3>2, <4>2, <4>3
      <4>5. i = k - a + 1
        BY DEF a
      <4>6. 1..c = DOMAIN Self.children
        BY <4>1 DEF c
      <4> QED
        BY <4>4, <4>5, <4>6
    <3>4. z.process \in Items(m.processes[y.process].children)
      <4> HIDE DEF i
      <4> QED
        BY <2>2, <3>3 DEF Self, Items
    <3> HIDE DEF z, y
    <3> QED
      BY <1>1, <2>1, <2>2, <3>1, <3>4, NestPush DEF Rest, Under
  <2> QED
    BY <2>3, <2>4, <2>5
<1> QED
  BY <1>3, <1>4, <1>5, <1>6, <1>7, <1>8

(* An empty stack is nested.                                               *)
LEMMA EmptyNest == ASSUME NEW m PROVE IsList(<<>>) /\ Nest(m, <<>>, {})
BY DEF IsList, Items, Nest

(* So does every other step.                                               *)
LEMMA NestedStep == Given /\ Placed /\ Listed /\ Nested /\ [Next]_vars => Nested'
<1> SUFFICES ASSUME Given, Placed, Listed, Nested, [Next]_vars PROVE Nested'
  OBVIOUS
<1>1. UNCHANGED <<manifest, trace, words>> /\ Accepted' = Accepted
  BY InputsStay, AcceptedStays
<1>2. CASE StartProcess
  <2> DEFINE x == Item("enter", Top.action.target, 0, Top.id)
  <2>1. work' = <<x>> /\ expanding' = expanding /\ work = <<>>
    BY <1>2 DEF StartProcess, Step, Acting
  <2>2. x.process \in DOMAIN manifest.processes /\ x.op = "enter"
    <3>1. Top.action.op = "start-process" /\ ErrorOf(Top) = "none"
      BY <1>2 DEF StartProcess, Step, Acting
    <3>2. Top.action.target \in DOMAIN manifest.processes
      BY <3>1 DEF ErrorOf
    <3> QED
      BY <3>2 DEF Item
  <2>3. Accepted => expanding = {}
    BY <2>1 DEF Nested, Nest
  <2> HIDE DEF x
  <2>4. work' \in Seq({x}) /\ DOMAIN work' = {1} /\ work'[1] = x
    BY <2>1
  <2>5. IsList(work')
    BY <2>4, ListOf
  <2>6. Accepted => Nest(manifest, work', expanding')
    BY <2>1, <2>2, <2>3, <2>4 DEF Nest
  <2> QED
    BY <1>1, <2>5, <2>6 DEF Nested
<1>3. CASE Verify
  <2>1. work' = <<>> /\ expanding' = {}
    BY <1>3 DEF Verify
  <2> QED
    BY <2>1, EmptyNest DEF Nested
<1>4. CASE Enter \/ ListActions \/ ListChildren \/ Leave \/ EmitProcessAction \/ Draw
  <2>1. work # <<>> /\ IsList(work)
    BY <1>4 DEF Enter, ListActions, ListChildren, Leave, EmitProcessAction, Draw, Expanding, Nested
  <2>2. \/ work' = work
        \/ work' = <<>> \o Tail(work)
        \/ \E x : work' = <<x>> \o Tail(work)
        \/ \E x, y : work' = <<x, y>> \o Tail(work)
    <3>1. Enter \/ ListActions \/ Leave \/ EmitProcessAction
            => \/ work' = <<>> \o Tail(work)
               \/ \E x : work' = <<x>> \o Tail(work)
               \/ \E x, y : work' = <<x, y>> \o Tail(work)
      BY DEF Enter, ListActions, Leave, EmitProcessAction, Push
    <3>2. ListChildren => \/ \E x : work' = <<x>> \o Tail(work)
                          \/ \E x, y : work' = <<x, y>> \o Tail(work)
      BY DEF ListChildren, Push
    <3>3. Draw => work' = work \/ \E x, y : work' = <<x, y>> \o Tail(work)
      BY DEF Draw, Push
    <3> QED
      BY <1>4, <3>1, <3>2, <3>3
  <2>3. IsList(work')
    BY <2>1, <2>2, ListsPushed
  <2>4. Accepted => Nest(manifest, work', expanding')
    BY <1>4, <2>1, NestedExpansion
  <2> QED
    BY <1>1, <2>3, <2>4 DEF Nested
<1>5. CASE UNCHANGED <<work, expanding>>
  BY <1>1, <1>5 DEF Nested
<1>6. Write \/ Emit \/ SelectBinding => UNCHANGED <<work, expanding>>
  BY DEF Write, Emit, SelectBinding, Step
<1>7. RefuseAction \/ RefuseEntry \/ RefuseChild \/ RefuseDelayed \/ RefuseDraw \/ Exhaust
        => UNCHANGED <<work, expanding>>
  BY DEF RefuseAction, RefuseEntry, RefuseChild, RefuseDelayed, RefuseDraw, Exhaust, Fail
<1>8. NextEvent \/ EndCycle \/ Finish \/ UNCHANGED vars => UNCHANGED <<work, expanding>>
  BY DEF NextEvent, EndCycle, Finish, vars
<1> QED
  BY <1>2, <1>3, <1>4, <1>5, <1>6, <1>7, <1>8 DEF Next

(* The actions that are refused.                                           *)
LEMMA RefusedAction ==
  ASSUME Given, Domains, Snapped, Listed, Accepted, RefuseAction
  PROVE  AcceptedTripsOnlyAtRun'
<1>1. todo # <<>> /\ status' = ErrorOf(Top) /\ todo' = todo /\ Accepted' = Accepted
  BY DEF RefuseAction, Fail, Accepted, input
<1> DEFINE a == Top.action
<1>2. ActionFits(manifest, a)
  <2>1. Top \in Items(todo)
    BY <1>1, TailOf DEF Listed, Top
  <2> QED
    BY <2>1 DEF Listed
<1>3. ErrorOf(Top) \in {"none", "delayed", "unknown target", "mistyped", "policies", "rejected", "domain"}
  BY DEF ErrorOf
<1>4. ErrorOf(Top) # "unknown target"
  <2>1. a.op = "start-process" => a.target \in DOMAIN manifest.processes
    BY <1>2 DEF ActionFits, Targets, StateOps
  <2> QED
    BY <2>1 DEF ErrorOf
<1>5. ASSUME ErrorOf(Top) = "mistyped"
      PROVE  a.op = "increment-state" /\ a.value.type = "boolean"
  <2>1. Mistyped(Top) /\ a.op \in StateOps
    BY <1>5 DEF ErrorOf
  <2>2. a.target \in DOMAIN manifest.vars
    BY <1>2, <2>1 DEF ActionFits, Targets, StateOps
  <2>3. Current(Top) \in manifest.vars[a.target].domain
    BY <2>2 DEF Current, Domains, Snapped
  <2>4. WellFormed(manifest)
    BY ManifestAssumption DEF Given
  <2>5. /\ manifest.vars[a.target].kind = "boolean" => Current(Top).type = "boolean"
        /\ manifest.vars[a.target].kind \in Numeric => Current(Top).type = "integer"
    BY <2>2, <2>3, <2>4 DEF WellFormed
  <2>6. a.op # "toggle-state"
    BY <1>2, <2>1, <2>5 DEF Mistyped, ActionFits
  <2>7. a.op = "increment-state" /\ {Current(Top).type, a.value.type} # {"integer"}
    BY <2>1, <2>6 DEF Mistyped
  <2> QED
    BY <1>2, <2>5, <2>7 DEF ActionFits
<1>6. Top' = Top
  BY <1>1 DEF Top
<1> QED
  BY <1>1, <1>3, <1>4, <1>5, <1>6 DEF AcceptedTripsOnlyAtRun

(* No step leads to an error that the validators should have prevented:    *)
(* each of the refusals is excluded by what its item is known to be.       *)
LEMMA TripsStep ==
  Given /\ Placed /\ Domains /\ Snapped /\ Listed /\ Nested /\ AcceptedTripsOnlyAtRun /\ [Next]_vars
    => AcceptedTripsOnlyAtRun'
<1> SUFFICES ASSUME Given, Placed, Domains, Snapped, Listed, Nested, AcceptedTripsOnlyAtRun,
                    [Next]_vars, Accepted
             PROVE  AcceptedTripsOnlyAtRun'
  BY AcceptedStays DEF AcceptedTripsOnlyAtRun
<1> DEFINE Harmless == {"idle", "running", "done", "delayed", "unscheduled", "lifecycle", "microsteps"}
<1>1. CASE RefuseAction
  BY <1>1, RefusedAction
<1>2. CASE status' \in Harmless
  BY <1>2 DEF AcceptedTripsOnlyAtRun
<1>3. CASE RefuseEntry
  <2>1. Head(work).op = "enter" /\ work # <<>> /\ status' = EntryError /\ EntryError # "none"
    BY <1>3 DEF RefuseEntry, Expanding, Fail
  <2>2. Head(work).process \notin expanding
    <3>1. ExpansionTerminates(manifest)
      BY DEF Accepted, Accepts
    <3> QED
      BY <2>1, <3>1, NestNeverTurns DEF Nested
  <2>3. EntryError \in {"none", "unscheduled", "lifecycle"}
    BY <2>2 DEF EntryError
  <2> QED
    BY <1>2, <2>1, <2>3
<1>4. CASE RefuseChild
  <2>1. work # <<>> /\ MissesChild(Head(work).index)
    BY <1>4 DEF RefuseChild, Expanding
  <2> QED
    BY <2>1, TopItem DEF MissesChild, Items
<1>5. CASE RefuseDraw
  <2>1. work # <<>> /\ Head(work).op = "draw"
    BY <1>5 DEF RefuseDraw, Expanding
  <2>2. DrawError = "none" /\ ~Unfit
    BY <2>1, DrawnCandidate
  <2>3. PICK n : MissesChild(n)
    BY <1>5, <2>2 DEF RefuseDraw
  <2> QED
    BY <2>1, <2>3, TopItem DEF MissesChild, Items
<1>6. RefuseDelayed \/ Exhaust => status' \in Harmless
  BY DEF RefuseDelayed, Exhaust, Fail
<1>7. NextEvent \/ EndCycle \/ Finish \/ Verify => status' \in Harmless
  BY DEF NextEvent, EndCycle, Finish, Verify
<1>8. Write \/ Emit \/ SelectBinding \/ StartProcess => status' \in Harmless
  BY DEF Write, Emit, SelectBinding, StartProcess, Step, Acting
<1>9. Enter \/ ListActions \/ ListChildren \/ Leave \/ EmitProcessAction \/ Draw => status' \in Harmless
  BY DEF Enter, ListActions, ListChildren, Leave, EmitProcessAction, Draw, Expanding, Expand
<1>10. CASE UNCHANGED vars
  <2>1. Accepted' = Accepted /\ status' = status /\ Top' = Top
    BY <1>10, AcceptedStays DEF vars, Top
  <2> QED
    BY <2>1 DEF AcceptedTripsOnlyAtRun
<1> QED
  BY <1>1, <1>2, <1>3, <1>4, <1>5, <1>6, <1>7, <1>8, <1>9, <1>10 DEF Next

(* The inductive invariant.                                                *)
Trips == Given /\ Placed /\ Domains /\ Snapped /\ Listed /\ Nested /\ AcceptedTripsOnlyAtRun

(* Every execution starts this way.                                        *)
LEMMA TripsInit == Init => Trips
<1> SUFFICES ASSUME Init PROVE Trips
  OBVIOUS
<1>1. Given
  BY DEF Init, Given
<1>2. Placed
  <2>1. ASSUME NEW s \in DOMAIN manifest.sources PROVE Len(words[s]) \in Nat /\ Len(words[s]) >= 1
    <3>1. words[s] \in Seq(0..(manifest.sources[s] - 1)) /\ words[s] # <<>>
      BY <1>1, WordsAssumption DEF Given
    <3> DEFINE S == 0..(manifest.sources[s] - 1)
    <3> HIDE DEF S
    <3> QED
      BY <3>1 DEF S
  <2>2. drawn = [s \in DOMAIN manifest.sources |-> 0]
    BY DEF Init
  <2> QED
    BY <2>1, <2>2 DEF Placed
<1>3. /\ state = Start(manifest, trace) /\ snapshot = Start(manifest, trace) /\ DOMAIN writes = {}
      /\ todo = <<>> /\ work = <<>> /\ expanding = {} /\ status = "idle"
  BY DEF Init
<1>4. /\ DOMAIN Start(manifest, trace) = DOMAIN manifest.vars
      /\ Accepted => \A v \in DOMAIN Start(manifest, trace) :
                       v \in DOMAIN manifest.vars /\ Start(manifest, trace)[v] \in manifest.vars[v].domain
  <2>1. DOMAIN Start(manifest, trace) = DOMAIN manifest.vars
    BY DEF Start
  <2> QED
    BY <2>1, StartInDomain DEF Accepted
<1>5. Domains /\ Snapped
  BY <1>3, <1>4 DEF Domains, Snapped
<1>6. Listed /\ Nested
  <2>1. IsList(<<>>) /\ Items(<<>>) = {}
    BY DEF IsList, Items
  <2> QED
    BY <1>3, <2>1, EmptyNest DEF Listed, Nested
<1>7. AcceptedTripsOnlyAtRun
  BY <1>3 DEF AcceptedTripsOnlyAtRun
<1> QED
  BY <1>1, <1>2, <1>5, <1>6, <1>7 DEF Trips

(* The invariant of accepted traces is inductive.                          *)
LEMMA TripsKept == Trips /\ [Next]_vars => Trips'
<1> SUFFICES ASSUME Trips, [Next]_vars PROVE Trips'
  OBVIOUS
<1>1. Given'
  BY InputsStay DEF Trips, Given
<1>2. Placed' /\ Snapped' /\ Listed'
  BY PlacedStep, SnappedStep, ListedStep DEF Trips
<1>3. Domains' /\ Nested' /\ AcceptedTripsOnlyAtRun'
  BY DomainsStep, NestedStep, TripsStep DEF Trips
<1> QED
  BY <1>1, <1>2, <1>3 DEF Trips

(* A manifest and a trace that the validators accept never make the        *)
(* interpreter find what they should have found: an unresolved reference,  *)
(* a process within its own expansion, a draw without a distribution.      *)
THEOREM AcceptedTraces == Spec => []AcceptedTripsOnlyAtRun
<1>1. Trips => AcceptedTripsOnlyAtRun
  BY DEF Trips
<1> QED
  BY <1>1, TripsInit, TripsKept, PTL DEF Spec

-----------------------------------------------------------------------------
(* Determinism.                                                            *)

(* What an execution goes on from: everything but the pass, what was       *)
(* recorded, and the order in which the inputs that are left are listed.   *)
Config ==
  [manifest |-> manifest, trace |-> trace, words |-> words, pending |-> Items(queue),
   event |-> event, state |-> state, snapshot |-> snapshot, todo |-> todo, writes |-> writes,
   work |-> work, expanding |-> expanding, steps |-> steps, total |-> total, drawn |-> drawn,
   emitted |-> emitted, selected |-> selected, status |-> status]

(* The operators of the interpreter in a configuration.                    *)
In(c) == INSTANCE Interpreter WITH
  manifest <- c.manifest, trace <- c.trace, words <- c.words, pass <- 1, queue <- <<>>,
  event <- c.event, state <- c.state, snapshot <- c.snapshot, todo <- c.todo,
  writes <- c.writes, work <- c.work, expanding <- c.expanding, steps <- c.steps,
  total <- c.total, drawn <- c.drawn, emitted <- c.emitted, selected <- c.selected,
  status <- c.status, recorded <- << >>

(* The configuration that follows one, a function for each kind of step:   *)
(* after an error, a counted step, new items on the stack,                 *)
Failed(c, error) == [c EXCEPT !.status = error]
Counted(c) == [c EXCEPT !.steps = @ + 1, !.total = @ + 1]
Stacked(c, items) == [c EXCEPT !.work = items \o Tail(c.work)]

(* the earliest input,                                                     *)
First(events) == CHOOSE e \in events : \A f \in events : ~Earlier(f, e)

Begun(c) ==
  [c EXCEPT !.pending = @ \ {First(c.pending)}, !.event = First(c.pending),
            !.todo = Scheduled(In(c)!Matching(First(c.pending))),
            !.status = "running", !.steps = 0, !.snapshot = c.state, !.writes = << >>]

(* an action of a transition,                                              *)
Written(c, x) ==
  IF In(c)!Outranked(x) THEN c.writes
  ELSE [t \in DOMAIN c.writes \cup {x.action.target} |->
          IF t = x.action.target THEN In(c)!Noted(x) ELSE c.writes[t]]

Applied(c, x) ==
  LET d == [Counted(c) EXCEPT !.todo = Tail(c.todo)] IN
  IF x.action.op \in StateOps THEN [d EXCEPT !.writes = Written(c, x)]
  ELSE IF x.action.op = "select-render-binding"
       THEN [d EXCEPT !.selected = Append(c.selected, x.action.target)]
  ELSE IF x.action.op = "start-process"
       THEN [d EXCEPT !.work = <<Item("enter", x.action.target, 0, x.id)>>]
  ELSE [d EXCEPT !.emitted = Append(c.emitted, In(c)!Emission(x.action.op, x.action.target, None,
                                                               NoValue, x.id))]

Acted(c) ==
  IF In(c)!OutOfSteps THEN Failed(c, "microsteps")
  ELSE IF In(c)!ErrorOf(Head(c.todo)) # "none" THEN Failed(c, In(c)!ErrorOf(Head(c.todo)))
  ELSE Applied(c, Head(c.todo))

(* an item of an expansion,                                                *)
Entered(c) ==
  IF In(c)!EntryError # "none" THEN Failed(c, In(c)!EntryError)
  ELSE [c EXCEPT !.expanding = @ \cup {Head(c.work).process},
                 !.work = <<In(c)!Here(IF In(c)!Self.kind = "stochastic" THEN "draw" ELSE "actions", 1)>>
                            \o Tail(c.work)]

ActionsListed(c) ==
  LET n == Head(c.work).index IN
  IF n <= Len(In(c)!Self.actions)
  THEN Stacked(c, <<In(c)!Here("action", n), In(c)!Here("actions", n + 1)>>)
  ELSE Stacked(c, <<In(c)!Here("children", 1)>>)

ChildrenListed(c) ==
  LET n == Head(c.work).index IN
  IF n > Len(In(c)!Self.children) THEN Stacked(c, <<In(c)!Here("exit", 0)>>)
  ELSE Stacked(c, <<Item("enter", In(c)!Self.children[n], 0, Head(c.work).transition),
                   In(c)!Here("children", n + 1)>>)

Left(c) == [c EXCEPT !.expanding = @ \ {Head(c.work).process}, !.work = <<>> \o Tail(c.work)]

Requested(c) ==
  LET a == In(c)!Self.actions[Head(c.work).index] IN
  IF a.delay # None THEN Failed(c, "delayed")
  ELSE IF In(c)!OutOfSteps THEN Failed(c, "microsteps")
  ELSE [Counted(c) EXCEPT
          !.work = <<>> \o Tail(c.work),
          !.emitted = Append(c.emitted, In(c)!Emission(a.op, a.target, Head(c.work).process, a.value,
                                                       Head(c.work).transition))]

Drawn(c) ==
  LET p == In(c)!Self
      R == c.manifest.sources[p.source]
      k == Selected(p, R, In(c)!Word)
      d == [Counted(c) EXCEPT !.drawn = [c.drawn EXCEPT ![p.source] = (@ + 1) % Len(c.words[p.source])]]
  IN  IF In(c)!OutOfSteps THEN Failed(c, "microsteps")
      ELSE IF Rejected(p, R, In(c)!Word) THEN d
      ELSE IF k < Len(p.actions)
           THEN Stacked(d, <<In(c)!Here("action", k + 1), In(c)!Here("exit", 0)>>)
      ELSE Stacked(d, <<Item("enter", p.children[k - Len(p.actions) + 1], 0, Head(c.work).transition),
                       In(c)!Here("exit", 0)>>)

Expanded(c) ==
  LET op == Head(c.work).op IN
  IF op = "enter" THEN Entered(c)
  ELSE IF op = "actions" THEN ActionsListed(c)
  ELSE IF op = "children" THEN ChildrenListed(c)
  ELSE IF op = "exit" THEN Left(c)
  ELSE IF op = "action" THEN Requested(c)
  ELSE Drawn(c)

(* the end of a cycle, or of the execution.                                *)
Ended(c) ==
  LET s == [v \in DOMAIN c.state |-> IF v \in DOMAIN c.writes THEN c.writes[v].value ELSE c.state[v]]
  IN  [c EXCEPT !.state = s, !.status = "idle",
                !.selected = @ \o Bound(c.manifest.renders, c.event, s)]

Succ(c) ==
  IF c.status = "idle"
  THEN IF c.pending = {} THEN [c EXCEPT !.status = "done"] ELSE Begun(c)
  ELSE IF c.status # "running" THEN c
  ELSE IF c.work # <<>> THEN Expanded(c)
  ELSE IF c.todo # <<>> THEN Acted(c)
  ELSE Ended(c)

-----------------------------------------------------------------------------
(* A configuration is a record with these fields, which are known from the *)
(* variables.                                                              *)
Keys == {"manifest", "trace", "words", "pending", "event", "state", "snapshot", "todo", "writes",
         "work", "expanding", "steps", "total", "drawn", "emitted", "selected", "status"}

IsConfig(c) == DOMAIN c = Keys /\ c = [x \in Keys |-> c[x]]

Agrees(c) ==
  /\ c.manifest = manifest /\ c.trace = trace /\ c.words = words /\ c.pending = Items(queue)
  /\ c.event = event /\ c.state = state /\ c.snapshot = snapshot /\ c.todo = todo
  /\ c.writes = writes /\ c.work = work /\ c.expanding = expanding /\ c.steps = steps
  /\ c.total = total /\ c.drawn = drawn /\ c.emitted = emitted /\ c.selected = selected
  /\ c.status = status

LEMMA Fields == IsConfig(Config) /\ Agrees(Config)
BY DEF Config, IsConfig, Keys, Agrees

(* A record that agrees with all variables is the configuration.           *)
LEMMA ConfigIs == ASSUME NEW c, IsConfig(c), Agrees(c)' PROVE Config' = c
<1>1. IsConfig(Config')
  BY DEF Config, IsConfig, Keys
<1>2. Agrees(Config)'
  BY DEF Config, Agrees
<1>3. \A x \in Keys : c[x] = Config'[x]
  BY <1>2 DEF Keys, Agrees
<1> QED
  BY <1>1, <1>3 DEF IsConfig

(* The operators of a configuration are those of the state it stands for.  *)
LEMMA OperatorsIn ==
  /\ In(Config)!OutOfSteps <=> OutOfSteps
  /\ \A x : /\ In(Config)!ErrorOf(x) = ErrorOf(x)
            /\ In(Config)!Outranked(x) <=> Outranked(x)
            /\ In(Config)!Noted(x) = Noted(x)
            /\ In(Config)!Matching(x) = Matching(x)
<1> SUFFICES ASSUME NEW x
             PROVE  /\ In(Config)!OutOfSteps <=> OutOfSteps
                    /\ In(Config)!ErrorOf(x) = ErrorOf(x)
                    /\ In(Config)!Outranked(x) <=> Outranked(x)
                    /\ In(Config)!Noted(x) = Noted(x)
                    /\ In(Config)!Matching(x) = Matching(x)
  OBVIOUS
<1>1. In(Config)!Current(x) = Current(x)
  BY Fields DEF In!Current, Current, In!NoValue, NoValue, Agrees
<1>2. In(Config)!Proposed(x) = Proposed(x)
  BY <1>1 DEF In!Proposed, Proposed, In!Bool, In!Number, Bool, Number
<1>3. In(Config)!Mistyped(x) <=> Mistyped(x)
  BY <1>1 DEF In!Mistyped, Mistyped
<1>4. In(Config)!Conflict(x) <=> Conflict(x)
  BY <1>2, Fields DEF In!Conflict, Conflict, Agrees
<1>5. In(Config)!Policies(x) = Policies(x)
  BY Fields DEF In!Policies, Policies, Agrees
<1>6. In(Config)!Outranked(x) <=> Outranked(x)
  BY <1>4, <1>5, Fields DEF In!Outranked, Outranked, Agrees
<1>7. In(Config)!InDomain(x) <=> InDomain(x)
  BY <1>2, Fields DEF In!InDomain, InDomain, Agrees
<1>8. In(Config)!ErrorOf(x) = ErrorOf(x)
  <2>1. \A S : In(Config)!Cardinality(S) = Cardinality(S)
    BY DEF In!Cardinality, Cardinality
  <2> QED
    BY <1>3, <1>4, <1>5, <1>6, <1>7, <2>1, Fields DEF In!ErrorOf, ErrorOf, In!StateOps, StateOps, Agrees
<1>9. In(Config)!Noted(x) = Noted(x)
  BY <1>2, <1>5, Fields DEF In!Noted, Noted, Agrees
<1>10. In(Config)!Matching(x) = Matching(x)
  <2>1. \A c : In(Config)!Satisfied(c, state) = Satisfied(c, state)
    BY DEF In!Satisfied, Satisfied
  <2> QED
    BY Fields, <2>1 DEF In!Matching, Matching, Agrees
<1>11. In(Config)!OutOfSteps <=> OutOfSteps
  BY Fields DEF In!OutOfSteps, OutOfSteps, Agrees
<1> QED
  BY <1>6, <1>8, <1>9, <1>10, <1>11

(* So are those of an expansion.                                           *)
LEMMA ExpansionIn ==
  /\ In(Config)!Self = Self
  /\ In(Config)!EntryError = EntryError
  /\ In(Config)!Word = Word
  /\ \A op, n : In(Config)!Here(op, n) = Here(op, n)
  /\ \A op, t, p, v, id : In(Config)!Emission(op, t, p, v, id) = Emission(op, t, p, v, id)
<1>1. In(Config)!Self = Self
  BY Fields DEF In!Self, Self, Agrees
<1>2. In(Config)!EntryError = EntryError
  BY Fields, <1>1 DEF In!EntryError, EntryError, Agrees
<1>3. In(Config)!Word = Word
  BY Fields, <1>1 DEF In!Word, Word, Agrees
<1>4. \A op, n : In(Config)!Here(op, n) = Here(op, n)
  BY Fields DEF In!Here, Here, In!Item, Item, Agrees
<1>5. \A op, t, p, v, id : In(Config)!Emission(op, t, p, v, id) = Emission(op, t, p, v, id)
  BY Fields DEF In!Emission, Emission, Agrees
<1> QED
  BY <1>1, <1>2, <1>3, <1>4, <1>5

(* A refusal changes the status only.                                      *)
LEMMA FailFollows ==
  ASSUME NEW error, Fail(error)
  PROVE  Config' = Failed(Config, error)
BY DEF Config, Fail, input, Failed

(* Each action takes the step that the configuration decides: the actions  *)
(* of the transitions,                                                     *)
LEMMA RefuseActionFollows == ASSUME RefuseAction PROVE Config' = Succ(Config)
<1>1. Config' = Failed(Config, ErrorOf(Top))
  BY FailFollows DEF RefuseAction
<1>2. Succ(Config) = Acted(Config)
  BY Fields DEF RefuseAction, Succ, Agrees
<1> QED
  BY <1>1, <1>2, OperatorsIn, Fields DEF RefuseAction, Acted, Top, Agrees

(* An action that is not refused is applied.                               *)
LEMMA StepFollows ==
  ASSUME NEW ops, Step(ops)
  PROVE  Succ(Config) = Applied(Config, Top) /\ Top.action.op \in ops
<1>1. /\ status = "running" /\ work = <<>> /\ todo # <<>> /\ Top.action.op \in ops
      /\ ~OutOfSteps /\ ErrorOf(Top) = "none"
  BY DEF Step, Acting, Consume
<1>2. Succ(Config) = Acted(Config)
  BY <1>1, Fields DEF Succ, Agrees
<1> QED
  BY <1>1, <1>2, OperatorsIn, Fields DEF Acted, Top, Agrees

LEMMA WriteFollows == ASSUME Write PROVE Config' = Succ(Config)
<1>1. Succ(Config) = Applied(Config, Top) /\ Top.action.op \in StateOps
  BY StepFollows DEF Write
<1>2. Written(Config, Top) = writes'
  BY OperatorsIn, Fields DEF Write, Written, Agrees
<1>3. Config' = [[Counted(Config) EXCEPT !.todo = Tail(todo)] EXCEPT !.writes = writes']
  <2>1. UNCHANGED <<manifest, trace, words, queue, event, state, snapshot, expanding, drawn, status>>
        /\ UNCHANGED <<work, emitted, selected>>
        /\ steps' = steps + 1 /\ total' = total + 1 /\ todo' = Tail(todo)
    BY DEF Write, Step, Consume, input
  <2>2. PICK c : c = [[Counted(Config) EXCEPT !.todo = Tail(todo)] EXCEPT !.writes = writes']
    OBVIOUS
  <2>3. IsConfig(c)
    BY <2>2, Fields DEF IsConfig, Counted
  <2>4. Agrees(c)'
    BY <2>1, <2>2, Fields DEF IsConfig, Keys, Agrees, Counted
  <2> QED
    BY <2>2, <2>3, <2>4, ConfigIs
<1> QED
  BY <1>1, <1>2, <1>3, Fields DEF Applied, Agrees

LEMMA EmitFollows == ASSUME Emit PROVE Config' = Succ(Config)
<1>1. Succ(Config) = Applied(Config, Top) /\ Top.action.op \in {"emit-event", "route-event", "stop-process"}
  BY StepFollows DEF Emit
<1>2. Config' = [[Counted(Config) EXCEPT !.todo = Tail(todo)] EXCEPT !.emitted = emitted']
  <2>1. UNCHANGED <<manifest, trace, words, queue, event, state, snapshot, expanding, drawn, status>>
        /\ UNCHANGED <<writes, work, selected>>
        /\ steps' = steps + 1 /\ total' = total + 1 /\ todo' = Tail(todo)
    BY DEF Emit, Step, Consume, input
  <2>2. PICK c : c = [[Counted(Config) EXCEPT !.todo = Tail(todo)] EXCEPT !.emitted = emitted']
    OBVIOUS
  <2>3. IsConfig(c)
    BY <2>2, Fields DEF IsConfig, Counted
  <2>4. Agrees(c)'
    BY <2>1, <2>2, Fields DEF IsConfig, Keys, Agrees, Counted
  <2> QED
    BY <2>2, <2>3, <2>4, ConfigIs
<1>3. emitted' = Append(emitted, In(Config)!Emission(Top.action.op, Top.action.target, None, NoValue, Top.id))
  BY ExpansionIn DEF Emit
<1> QED
  BY <1>1, <1>2, <1>3, Fields DEF Applied, StateOps, Agrees

LEMMA SelectBindingFollows == ASSUME SelectBinding PROVE Config' = Succ(Config)
<1>1. Succ(Config) = Applied(Config, Top) /\ Top.action.op = "select-render-binding"
  BY StepFollows DEF SelectBinding
<1>2. Config' = [[Counted(Config) EXCEPT !.todo = Tail(todo)] EXCEPT !.selected = Append(selected, Top.action.target)]
  <2>1. UNCHANGED <<manifest, trace, words, queue, event, state, snapshot, expanding, drawn, status>>
        /\ UNCHANGED <<writes, work, emitted>>
        /\ steps' = steps + 1 /\ total' = total + 1 /\ todo' = Tail(todo)
        /\ selected' = Append(selected, Top.action.target)
    BY DEF SelectBinding, Step, Consume, input
  <2>2. PICK c : c = [[Counted(Config) EXCEPT !.todo = Tail(todo)] EXCEPT !.selected = Append(selected, Top.action.target)]
    OBVIOUS
  <2>3. IsConfig(c)
    BY <2>2, Fields DEF IsConfig, Counted
  <2>4. Agrees(c)'
    BY <2>1, <2>2, Fields DEF IsConfig, Keys, Agrees, Counted
  <2> QED
    BY <2>2, <2>3, <2>4, ConfigIs
<1> QED
  BY <1>1, <1>2, Fields DEF Applied, StateOps, Agrees

LEMMA StartProcessFollows == ASSUME StartProcess PROVE Config' = Succ(Config)
<1>1. Succ(Config) = Applied(Config, Top) /\ Top.action.op = "start-process"
  BY StepFollows DEF StartProcess
<1>2. Config' = [[Counted(Config) EXCEPT !.todo = Tail(todo)]
                EXCEPT !.work = <<Item("enter", Top.action.target, 0, Top.id)>>]
  <2>1. UNCHANGED <<manifest, trace, words, queue, event, state, snapshot, expanding, drawn, status>>
        /\ UNCHANGED <<writes, emitted, selected>>
        /\ steps' = steps + 1 /\ total' = total + 1 /\ todo' = Tail(todo)
        /\ work' = <<Item("enter", Top.action.target, 0, Top.id)>>
    BY DEF StartProcess, Step, Consume, input
  <2>2. PICK c : c = [[Counted(Config) EXCEPT !.todo = Tail(todo)]
                EXCEPT !.work = <<Item("enter", Top.action.target, 0, Top.id)>>]
    OBVIOUS
  <2>3. IsConfig(c)
    BY <2>2, Fields DEF IsConfig, Counted
  <2>4. Agrees(c)'
    BY <2>1, <2>2, Fields DEF IsConfig, Keys, Agrees, Counted
  <2> QED
    BY <2>2, <2>3, <2>4, ConfigIs
<1> QED
  BY <1>1, <1>2, Fields DEF Applied, StateOps, Agrees

-----------------------------------------------------------------------------
(* The expansion of a process.                                             *)
LEMMA ExpandingFollows ==
  ASSUME NEW op, Expanding(op)
  PROVE  Succ(Config) = Expanded(Config) /\ Head(work).op = op
BY Fields DEF Expanding, Succ, Agrees

LEMMA EnterFollows == ASSUME Enter PROVE Config' = Succ(Config)
<1>1. Succ(Config) = Entered(Config)
  BY ExpandingFollows, Fields DEF Enter, Expanded, Agrees
<1>2. Config' = [Config EXCEPT !.expanding = expanding', !.work = work']
  <2>1. UNCHANGED <<manifest, trace, words, queue, event, state, snapshot, todo, writes, selected, status>>
        /\ UNCHANGED <<steps, total, drawn, emitted>>
    BY DEF Enter, Expand, input
  <2>2. PICK c : c = [Config EXCEPT !.expanding = expanding', !.work = work']
    OBVIOUS
  <2>3. IsConfig(c)
    BY <2>2, Fields DEF IsConfig
  <2>4. Agrees(c)'
    BY <2>1, <2>2, Fields DEF IsConfig, Keys, Agrees
  <2> QED
    BY <2>2, <2>3, <2>4, ConfigIs
<1>3. /\ EntryError = "none" /\ expanding' = expanding \cup {Head(work).process}
      /\ work' = <<Here(IF Self.kind = "stochastic" THEN "draw" ELSE "actions", 1)>> \o Tail(work)
  BY DEF Enter, Push
<1>4. /\ In(Config)!EntryError = EntryError /\ In(Config)!Self = Self
      /\ In(Config)!Here(IF In(Config)!Self.kind = "stochastic" THEN "draw" ELSE "actions", 1)
         = Here(IF Self.kind = "stochastic" THEN "draw" ELSE "actions", 1)
  BY ExpansionIn
<1>5. Entered(Config) = [Config EXCEPT !.expanding = expanding', !.work = work']
  <2>1. Config.expanding = expanding /\ Config.work = work
    BY Fields DEF Agrees
  <2>2. Entered(Config) = [Config EXCEPT !.expanding = @ \cup {Head(Config.work).process},
               !.work = <<In(Config)!Here(IF In(Config)!Self.kind = "stochastic" THEN "draw" ELSE "actions", 1)>>
                            \o Tail(Config.work)]
    BY <1>3, <1>4 DEF Entered
  <2> QED
    BY <1>3, <1>4, <2>1, <2>2
<1> QED
  BY <1>1, <1>2, <1>5

LEMMA RefuseEntryFollows == ASSUME RefuseEntry PROVE Config' = Succ(Config)
<1>1. Succ(Config) = Entered(Config)
  BY ExpandingFollows, Fields DEF RefuseEntry, Expanded, Agrees
<1>2. Config' = Failed(Config, EntryError)
  BY FailFollows DEF RefuseEntry
<1> QED
  BY <1>1, <1>2, ExpansionIn, Fields DEF RefuseEntry, Entered, Agrees

LEMMA ListActionsFollows == ASSUME ListActions PROVE Config' = Succ(Config)
<1>1. Succ(Config) = ActionsListed(Config)
  BY ExpandingFollows, Fields DEF ListActions, Expanded, Agrees
<1>2. Config' = [Config EXCEPT !.work = work']
  BY DEF ListActions, Expand, Config, input
<1> QED
  BY <1>1, <1>2, ExpansionIn, Fields DEF ListActions, ActionsListed, Push, Stacked, Agrees

LEMMA ListChildrenFollows == ASSUME ListChildren PROVE Config' = Succ(Config)
<1>1. Succ(Config) = ChildrenListed(Config)
  BY ExpandingFollows, Fields DEF ListChildren, Expanded, Agrees
<1>2. Config' = [Config EXCEPT !.work = work']
  BY DEF ListChildren, Expand, Config, input
<1> QED
  BY <1>1, <1>2, ExpansionIn, Fields DEF ListChildren, ChildrenListed, Push, Stacked, Agrees

LEMMA LeaveFollows == ASSUME Leave PROVE Config' = Succ(Config)
<1>1. Succ(Config) = Left(Config)
  BY ExpandingFollows, Fields DEF Leave, Expanded, Agrees
<1>2. Config' = [Config EXCEPT !.expanding = expanding', !.work = work']
  <2>1. UNCHANGED <<manifest, trace, words, queue, event, state, snapshot, todo, writes, selected, status>>
        /\ UNCHANGED <<steps, total, drawn, emitted>>
    BY DEF Leave, Expand, input
  <2>2. PICK c : c = [Config EXCEPT !.expanding = expanding', !.work = work']
    OBVIOUS
  <2>3. IsConfig(c)
    BY <2>2, Fields DEF IsConfig
  <2>4. Agrees(c)'
    BY <2>1, <2>2, Fields DEF IsConfig, Keys, Agrees
  <2> QED
    BY <2>2, <2>3, <2>4, ConfigIs
<1> QED
  BY <1>1, <1>2, Fields DEF Leave, Left, Push, Agrees

LEMMA EmitProcessActionFollows == ASSUME EmitProcessAction PROVE Config' = Succ(Config)
<1>1. Succ(Config) = Requested(Config)
  BY ExpandingFollows, Fields DEF EmitProcessAction, Expanded, Agrees
<1>2. Config' = [Counted(Config) EXCEPT !.work = work', !.emitted = emitted']
  <2>1. UNCHANGED <<manifest, trace, words, queue, event, state, snapshot, todo, writes, selected, status>>
        /\ UNCHANGED <<expanding, drawn>> /\ steps' = steps + 1 /\ total' = total + 1
    BY DEF EmitProcessAction, Expand, Consume, input
  <2>2. PICK c : c = [Counted(Config) EXCEPT !.work = work', !.emitted = emitted']
    OBVIOUS
  <2>3. IsConfig(c)
    BY <2>2, Fields DEF IsConfig, Counted
  <2>4. Agrees(c)'
    BY <2>1, <2>2, Fields DEF IsConfig, Keys, Agrees, Counted
  <2> QED
    BY <2>2, <2>3, <2>4, ConfigIs
<1>3. ~OutOfSteps
  BY DEF EmitProcessAction, Consume
<1> DEFINE a == Self.actions[Head(work).index]
<1>4. /\ a.delay = None /\ work' = <<>> \o Tail(work)
      /\ emitted' = Append(emitted, Emission(a.op, a.target, Head(work).process, a.value,
                                             Head(work).transition))
  BY DEF EmitProcessAction, Push
<1>5. /\ Config.work = work /\ Config.emitted = emitted
      /\ ~In(Config)!OutOfSteps /\ In(Config)!Self.actions[Head(Config.work).index] = a
      /\ In(Config)!Emission(a.op, a.target, Head(work).process, a.value, Head(work).transition)
         = Emission(a.op, a.target, Head(work).process, a.value, Head(work).transition)
  BY <1>3, Fields, OperatorsIn, ExpansionIn DEF Agrees
<1> HIDE DEF a
<1>6. Requested(Config) = [Counted(Config) EXCEPT !.work = work', !.emitted = emitted']
  BY <1>4, <1>5 DEF Requested
<1> QED
  BY <1>1, <1>2, <1>6

LEMMA RefuseDelayedFollows == ASSUME RefuseDelayed PROVE Config' = Succ(Config)
<1>1. Succ(Config) = Requested(Config)
  BY ExpandingFollows, Fields DEF RefuseDelayed, Expanded, Agrees
<1>2. Config' = Failed(Config, "delayed")
  BY FailFollows DEF RefuseDelayed
<1> QED
  BY <1>1, <1>2, ExpansionIn, Fields DEF RefuseDelayed, Requested, Agrees

LEMMA DrawFollows == ASSUME Draw PROVE Config' = Succ(Config)
<1>1. Succ(Config) = Drawn(Config)
  BY ExpandingFollows, Fields DEF Draw, Expanded, Agrees
<1>2. Config' = [[Counted(Config) EXCEPT !.drawn = drawn'] EXCEPT !.work = work']
  <2>1. UNCHANGED <<manifest, trace, words, queue, event, state, snapshot, todo, writes, selected, status>>
        /\ UNCHANGED <<expanding, emitted>> /\ steps' = steps + 1 /\ total' = total + 1
    BY DEF Draw, Expand, Consume, input
  <2>2. PICK c : c = [[Counted(Config) EXCEPT !.drawn = drawn'] EXCEPT !.work = work']
    OBVIOUS
  <2>3. IsConfig(c)
    BY <2>2, Fields DEF IsConfig, Counted
  <2>4. Agrees(c)'
    BY <2>1, <2>2, Fields DEF IsConfig, Keys, Agrees, Counted
  <2> QED
    BY <2>2, <2>3, <2>4, ConfigIs
<1>3. ~OutOfSteps
  BY DEF Draw, Consume
<1> DEFINE R == manifest.sources[Self.source]
           k == Selected(Self, R, Word)
           d == [Counted(Config) EXCEPT !.drawn = drawn']
<1>4. drawn' = [drawn EXCEPT ![Self.source] = (@ + 1) % Len(words[Self.source])]
  BY DEF Draw
<1>5. Drawn(Config) = IF Rejected(Self, R, Word) THEN d
                   ELSE IF k < Len(Self.actions)
                        THEN [d EXCEPT !.work = <<Here("action", k + 1), Here("exit", 0)>> \o Tail(work)]
                   ELSE [d EXCEPT !.work = <<Item("enter", Self.children[k - Len(Self.actions) + 1], 0,
                                                  Head(work).transition), Here("exit", 0)>> \o Tail(work)]
  <2>1. d.work = work
    BY DEF Config, Counted
  <2> QED
  BY <1>3, <1>4, <2>1, OperatorsIn, ExpansionIn, Fields DEF Drawn, Stacked, Agrees
<1>6. CASE Rejected(Self, R, Word)
  <2>1. work' = work
    BY <1>6 DEF Draw
  <2>2. [d EXCEPT !.work = work] = d
    BY Fields DEF IsConfig, Keys, Counted, Agrees
  <2> QED
    BY <1>1, <1>2, <1>5, <1>6, <2>1, <2>2
<1>7. CASE ~Rejected(Self, R, Word)
  BY <1>1, <1>2, <1>5, <1>7 DEF Draw, Push
<1> QED
  BY <1>6, <1>7

(* The limit, the end of a cycle and of the execution.                     *)
LEMMA ExhaustFollows == ASSUME Exhaust PROVE Config' = Succ(Config)
<1>1. Config' = Failed(Config, "microsteps") /\ OutOfSteps
  BY FailFollows DEF Exhaust
<1>2. CASE status = "running" /\ work = <<>> /\ todo # <<>>
  BY <1>1, <1>2, OperatorsIn, Fields DEF Succ, Acted, Agrees
<1>3. CASE Expanding("action") /\ Self.actions[Head(work).index].delay = None
  BY <1>1, <1>3, ExpandingFollows, OperatorsIn, ExpansionIn, Fields DEF Expanded, Requested, Agrees
<1>4. CASE Expanding("draw")
  BY <1>1, <1>4, ExpandingFollows, OperatorsIn, Fields DEF Expanded, Drawn, Agrees
<1> QED
  BY <1>2, <1>3, <1>4 DEF Exhaust

LEMMA EndCycleFollows == ASSUME EndCycle PROVE Config' = Succ(Config)
<1>1. Succ(Config) = Ended(Config)
  BY Fields DEF EndCycle, Succ, Agrees
<1>2. Config' = [Config EXCEPT !.state = state', !.status = "idle", !.selected = selected']
  <2>1. UNCHANGED <<manifest, trace, words, queue, event, snapshot, todo, writes, work, expanding,
                    steps, total, drawn, emitted>> /\ status' = "idle"
    BY DEF EndCycle, input
  <2>2. PICK c : c = [Config EXCEPT !.state = state', !.status = "idle", !.selected = selected']
    OBVIOUS
  <2>3. IsConfig(c)
    BY <2>2, Fields DEF IsConfig
  <2>4. Agrees(c)'
    BY <2>1, <2>2, Fields DEF IsConfig, Keys, Agrees
  <2> QED
    BY <2>2, <2>3, <2>4, ConfigIs
<1> QED
  BY <1>1, <1>2, Fields DEF EndCycle, Ended, Agrees

LEMMA FinishFollows == ASSUME Finish PROVE Config' = Succ(Config)
<1>1. Items(queue) = {} /\ status = "idle"
  BY DEF Finish, Items
<1>2. Config' = [Config EXCEPT !.status = "done"]
  BY DEF Finish, Config, input
<1> QED
  BY <1>1, <1>2, Fields DEF Succ, Agrees

(* Of two inputs with different keys one is the earlier.                   *)
LEMMA KeysOrder ==
  ASSUME NEW e, NEW f, OrderKey(e) \in Int \X Int \X Int \X Int,
         OrderKey(f) \in Int \X Int \X Int \X Int, OrderKey(e) # OrderKey(f)
  PROVE  Earlier(e, f) \/ Earlier(f, e)
<1> DEFINE a == OrderKey(e)
           b == OrderKey(f)
<1>1. /\ a[1] \in Int /\ a[2] \in Int /\ a[3] \in Int /\ a[4] \in Int
      /\ b[1] \in Int /\ b[2] \in Int /\ b[3] \in Int /\ b[4] \in Int
  <2> HIDE DEF a, b
  <2>1. a \in Int \X Int \X Int \X Int /\ b \in Int \X Int \X Int \X Int
    BY DEF a, b
  <2> QED
    BY <2>1
<1>2. a[1] # b[1] \/ a[2] # b[2] \/ a[3] # b[3] \/ a[4] # b[4]
  <2>1. a = <<a[1], a[2], a[3], a[4]>> /\ b = <<b[1], b[2], b[3], b[4]>>
    BY DEF OrderKey
  <2>2. a # b
    OBVIOUS
  <2> HIDE DEF a, b
  <2> QED
    BY <2>1, <2>2
<1>3. /\ Earlier(e, f) <=> \E n \in 1..4 : a[n] < b[n] /\ \A k \in 1..(n - 1) : a[k] = b[k]
      /\ Earlier(f, e) <=> \E n \in 1..4 : b[n] < a[n] /\ \A k \in 1..(n - 1) : b[k] = a[k]
  BY DEF Earlier
<1> HIDE DEF a, b
<1>4. PICK n \in 1..4 : a[n] # b[n] /\ \A k \in 1..(n - 1) : a[k] = b[k]
  <2>1. CASE a[1] # b[1]
    <3> WITNESS 1 \in 1..4
    <3> QED BY <2>1
  <2>2. CASE a[1] = b[1] /\ a[2] # b[2]
    <3> WITNESS 2 \in 1..4
    <3>1. \A k \in 1..(2 - 1) : k = 1
      OBVIOUS
    <3> QED BY <2>2, <3>1
  <2>3. CASE a[1] = b[1] /\ a[2] = b[2] /\ a[3] # b[3]
    <3> WITNESS 3 \in 1..4
    <3>1. \A k \in 1..(3 - 1) : k = 1 \/ k = 2
      OBVIOUS
    <3> QED BY <2>3, <3>1
  <2>4. CASE a[1] = b[1] /\ a[2] = b[2] /\ a[3] = b[3] /\ a[4] # b[4]
    <3> WITNESS 4 \in 1..4
    <3>1. \A k \in 1..(4 - 1) : k = 1 \/ k = 2 \/ k = 3
      OBVIOUS
    <3> QED BY <2>4, <3>1
  <2> QED
    BY <1>2, <2>1, <2>2, <2>3, <2>4
<1>5. a[n] < b[n] \/ b[n] < a[n]
  <2>1. n = 1 \/ n = 2 \/ n = 3 \/ n = 4
    OBVIOUS
  <2> QED
    BY <1>1, <1>4, <2>1
<1> QED
  BY <1>3, <1>4, <1>5

(* The inputs that are not processed yet.                                  *)
Queued ==
  /\ trace \in Traces
  /\ IsList(queue) /\ Items(queue) \subseteq Items(trace.events)
  /\ Accepted => \A j, k \in DOMAIN queue : OrderKey(queue[j]) = OrderKey(queue[k]) => j = k

(* The input that is next does not depend on the order they are listed in. *)
LEMMA EarliestIsFirst ==
  ASSUME Queued, Accepted, NEW n \in DOMAIN queue,
         \A k \in DOMAIN queue : ~Earlier(queue[k], queue[n])
  PROVE  queue[n] = First(Items(queue))
<1> DEFINE e == queue[n]
           f == First(Items(queue))
<1>1. e \in Items(queue) /\ \A g \in Items(queue) : ~Earlier(g, e)
  BY DEF Items
<1>2. f \in Items(queue) /\ \A g \in Items(queue) : ~Earlier(g, f)
  <2> DEFINE Q == Items(queue)
  <2>1. e \in Q /\ \A g \in Q : ~Earlier(g, e)
    BY <1>1
  <2> HIDE DEF e, Q
  <2>2. (CHOOSE x \in Q : \A g \in Q : ~Earlier(g, x)) \in Q
        /\ \A g \in Q : ~Earlier(g, CHOOSE x \in Q : \A y \in Q : ~Earlier(y, x))
    BY <2>1
  <2> QED
    BY <2>2 DEF First, Q
<1>3. PICK m \in DOMAIN queue : f = queue[m]
  BY <1>2 DEF Items
<1>4. OrderKey(e) \in Int \X Int \X Int \X Int /\ OrderKey(f) \in Int \X Int \X Int \X Int
  BY <1>1, <1>2, TraceAssumption DEF Queued
<1>5. OrderKey(e) = OrderKey(f)
  BY <1>1, <1>2, <1>4, KeysOrder
<1> QED
  BY <1>3, <1>5 DEF Queued

(* What is left of the inputs without one of them.                         *)
LEMMA RestOfQueue ==
  ASSUME NEW q, IsList(q), NEW n \in DOMAIN q, \A j, k \in DOMAIN q : q[j] = q[k] => j = k
  PROVE  LET r == [k \in 1..(Len(q) - 1) |-> IF k < n THEN q[k] ELSE q[k + 1]] IN
         Items(r) = Items(q) \ {q[n]}
<1> DEFINE r == [k \in 1..(Len(q) - 1) |-> IF k < n THEN q[k] ELSE q[k + 1]]
<1>1. Len(q) \in Nat /\ DOMAIN q = 1..Len(q)
  BY DEF IsList
<1>2. ASSUME NEW x \in Items(r) PROVE x \in Items(q) \ {q[n]}
  <2>1. PICK k \in 1..(Len(q) - 1) : x = r[k]
    BY DEF Items
  <2>2. k \in DOMAIN q /\ k + 1 \in DOMAIN q
    BY <1>1
  <2>3. CASE k < n
    BY <1>1, <2>1, <2>2, <2>3 DEF Items
  <2>4. CASE ~(k < n)
    BY <1>1, <2>1, <2>2, <2>4 DEF Items
  <2> QED
    BY <2>3, <2>4
<1>3. ASSUME NEW x \in Items(q) \ {q[n]} PROVE x \in Items(r)
  <2>1. PICK j \in DOMAIN q : x = q[j]
    BY DEF Items
  <2>2. j # n
    BY <2>1
  <2>3. CASE j < n
    <3>1. j \in 1..(Len(q) - 1) /\ r[j] = q[j]
      BY <1>1, <2>3
    <3> QED
      BY <2>1, <3>1 DEF Items
  <2>4. CASE j > n
    <3>1. j - 1 \in 1..(Len(q) - 1) /\ r[j - 1] = q[j]
      BY <1>1, <2>4
    <3> QED
      BY <2>1, <3>1 DEF Items
  <2> QED
    BY <1>1, <2>2, <2>3, <2>4
<1> QED
  BY <1>2, <1>3

(* The next input begins a cycle, as the configuration decides.            *)
LEMMA NextEventFollows ==
  ASSUME NextEvent, Queued, Accepted
  PROVE  Config' = Succ(Config)
<1>1. PICK n \in DOMAIN queue :
        /\ \A k \in DOMAIN queue : ~Earlier(queue[k], queue[n])
        /\ event' = queue[n]
        /\ queue' = [k \in 1..(Len(queue) - 1) |-> IF k < n THEN queue[k] ELSE queue[k + 1]]
        /\ todo' = Scheduled(Matching(queue[n]))
  BY DEF NextEvent
<1>2. event' = First(Items(queue))
  BY <1>1, EarliestIsFirst
<1>3. Items(queue') = Items(queue) \ {event'}
  <2>1. \A j, k \in DOMAIN queue : queue[j] = queue[k] => j = k
    BY DEF Queued
  <2> QED
    BY <1>1, <2>1, RestOfQueue DEF Queued
<1>4. Items(queue) # {} /\ status = "idle"
  BY <1>1 DEF Items, NextEvent
<1>5. Succ(Config) = Begun(Config)
  BY <1>4, Fields DEF Succ, Agrees
<1>6. Begun(Config) = [Config EXCEPT !.pending = Items(queue'), !.event = event', !.todo = todo',
                               !.status = "running", !.steps = 0, !.snapshot = state, !.writes = << >>]
  <2>1. First(Config.pending) = event' /\ Config.state = state
        /\ Config.pending \ {First(Config.pending)} = Items(queue')
    BY <1>2, <1>3, Fields DEF Agrees
  <2>2. Scheduled(In(Config)!Matching(event')) = todo'
    BY <1>1, OperatorsIn
  <2> QED
    BY <2>1, <2>2 DEF Begun
<1>7. Config' = [Config EXCEPT !.pending = Items(queue'), !.event = event', !.todo = todo',
                         !.status = "running", !.steps = 0, !.snapshot = state, !.writes = << >>]
  <2>1. /\ UNCHANGED <<manifest, trace, words, state, work, expanding, total, drawn, emitted, selected>>
        /\ status' = "running" /\ steps' = 0 /\ snapshot' = state /\ writes' = << >>
    BY DEF NextEvent, input
  <2>2. PICK c : c = [Config EXCEPT !.pending = Items(queue'), !.event = event', !.todo = todo',
                         !.status = "running", !.steps = 0, !.snapshot = state, !.writes = << >>]
    OBVIOUS
  <2>3. IsConfig(c)
    BY <2>2, Fields DEF IsConfig
  <2>4. Agrees(c)'
    BY <2>1, <2>2, Fields DEF IsConfig, Keys, Agrees
  <2> QED
    BY <2>2, <2>3, <2>4, ConfigIs
<1> QED
  BY <1>5, <1>6, <1>7

-----------------------------------------------------------------------------
(* A step of an accepted trace is the step that the configuration decides. *)
LEMMA StepDecided ==
  ASSUME Next, Queued, Accepted, AcceptedTripsOnlyAtRun'
  PROVE  Verify \/ Config' = Succ(Config)
<1>1. ~RefuseChild /\ ~RefuseDraw
  <2>1. status' \notin {"unknown child", "no source", "no candidate", "distribution"}
    BY InputsStay DEF AcceptedTripsOnlyAtRun, Accepted
  <2>2. RefuseChild => status' = "unknown child"
    BY DEF RefuseChild, Fail
  <2>3. RefuseDraw => status' \in {"unknown child", "no source", "no candidate", "distribution"}
    BY DEF RefuseDraw, Fail, DrawError
  <2> QED
    BY <2>1, <2>2, <2>3
<1>2. Write \/ Emit \/ SelectBinding \/ StartProcess \/ RefuseAction => Config' = Succ(Config)
  BY WriteFollows, EmitFollows, SelectBindingFollows, StartProcessFollows, RefuseActionFollows
<1>3. Enter \/ RefuseEntry \/ ListActions \/ ListChildren \/ Leave => Config' = Succ(Config)
  BY EnterFollows, RefuseEntryFollows, ListActionsFollows, ListChildrenFollows, LeaveFollows
<1>4. EmitProcessAction \/ RefuseDelayed \/ Draw \/ Exhaust \/ EndCycle \/ Finish => Config' = Succ(Config)
  BY EmitProcessActionFollows, RefuseDelayedFollows, DrawFollows, ExhaustFollows, EndCycleFollows,
     FinishFollows
<1>5. NextEvent => Config' = Succ(Config)
  BY NextEventFollows
<1> QED
  BY <1>1, <1>2, <1>3, <1>4, <1>5 DEF Next

(* A configuration that is reached from another by finitely many steps.    *)
Run(f, n, c) == f[0] = c /\ \A i \in 0..(n - 1) : f[i + 1] = Succ(f[i])
Reached(c, d) == \E n \in Nat : \E f : Run(f, n, c) /\ f[n] = d

(* An execution that has come to its end, or to an error.                  *)
Stopped(c) == c.status \notin {"idle", "running"}

(* By no step each configuration is reached from itself,                   *)
LEMMA ReachedHere == ASSUME NEW c PROVE Reached(c, c)
<1> DEFINE f == [i \in {0} |-> c]
<1>1. Run(f, 0, c) /\ f[0] = c
  BY DEF Run
<1> HIDE DEF f
<1> QED
  BY <1>1 DEF Reached

(* and by one more step the next one.                                      *)
LEMMA ReachedNext ==
  ASSUME NEW c, NEW d, Reached(c, d)
  PROVE  Reached(c, Succ(d))
<1>1a. PICK n \in Nat : \E f : Run(f, n, c) /\ f[n] = d
  BY DEF Reached
<1>1. PICK f : Run(f, n, c) /\ f[n] = d
  BY <1>1a
<1> DEFINE s == Succ(d)
           g == [i \in 0..(n + 1) |-> IF i <= n THEN f[i] ELSE s]
<1>2. s = Succ(f[n])
  BY <1>1
<1> HIDE DEF s
<1>3. g[0] = c /\ g[n + 1] = s
  BY <1>1 DEF Run
<1>4. ASSUME NEW i \in 0..n PROVE g[i + 1] = Succ(g[i])
  <2>1. g[i] = f[i]
    OBVIOUS
  <2>2. CASE i = n
    BY <1>2, <2>1, <2>2
  <2>3. CASE i # n
    <3>1. i \in 0..(n - 1) /\ g[i + 1] = f[i + 1]
      BY <2>3
    <3> QED
      BY <1>1, <2>1, <3>1 DEF Run
  <2> QED
    BY <2>2, <2>3
<1>5. Run(g, n + 1, c) /\ n + 1 \in Nat
  <2>1. n + 1 - 1 = n
    OBVIOUS
  <2> HIDE DEF g
  <2> QED
    BY <1>3, <1>4, <2>1 DEF Run
<1> HIDE DEF g
<1> QED
  BY <1>3, <1>5 DEF Reached, s

(* Two runs from one configuration are the same as far as both go.         *)
LEMMA RunsAgree ==
  ASSUME NEW c, NEW f, NEW g, NEW m \in Nat, NEW n \in Nat, m <= n, Run(f, m, c), Run(g, n, c)
  PROVE  f[m] = g[m]
<1> DEFINE T == {i \in Nat : i <= m => f[i] = g[i]}
<1>1. 0 \in T
  BY DEF Run
<1>2. ASSUME NEW i \in T PROVE i + 1 \in T
  <2> SUFFICES ASSUME i + 1 <= m PROVE f[i + 1] = g[i + 1]
    OBVIOUS
  <2>1. i \in Nat /\ f[i] = g[i]
    OBVIOUS
  <2>2. i \in 0..(m - 1) /\ i \in 0..(n - 1)
    BY <2>1
  <2> QED
    BY <2>1, <2>2 DEF Run
<1>3. T \in SUBSET Nat
  OBVIOUS
<1> HIDE DEF T
<1>4. T = Nat
  BY <1>1, <1>2, <1>3, NatSetInduction
<1> QED
  BY <1>4 DEF T

(* A run does not leave a configuration where the execution has stopped.   *)
LEMMA RunStops ==
  ASSUME NEW c, NEW g, NEW m \in Nat, NEW n \in Nat, m <= n, Run(g, n, c), Stopped(g[m])
  PROVE  g[n] = g[m]
<1> DEFINE T == {i \in Nat : m <= i /\ i <= n => g[i] = g[m]}
<1>1. 0 \in T
  OBVIOUS
<1>2. ASSUME NEW i \in T PROVE i + 1 \in T
  <2> SUFFICES ASSUME m <= i + 1, i + 1 <= n PROVE g[i + 1] = g[m]
    OBVIOUS
  <2>1. CASE m = i + 1
    BY <2>1
  <2>2. CASE m # i + 1
    <3>1. i \in Nat /\ m <= i /\ i \in 0..(n - 1)
      BY <2>2
    <3>2. g[i] = g[m]
      BY <3>1
    <3>3. g[i + 1] = Succ(g[m])
      BY <3>1, <3>2 DEF Run
    <3>4. Succ(g[m]) = g[m]
      BY DEF Succ, Stopped
    <3> QED
      BY <3>3, <3>4
  <2> QED
    BY <2>1, <2>2
<1>3. T \in SUBSET Nat
  OBVIOUS
<1> HIDE DEF T
<1>4. T = Nat
  BY <1>1, <1>2, <1>3, NatSetInduction
<1> QED
  BY <1>4 DEF T

(* So an execution stops in one configuration only.                        *)
LEMMA OneEnd ==
  ASSUME NEW c, NEW d, NEW e, Reached(c, d), Reached(c, e), Stopped(d), Stopped(e)
  PROVE  d = e
<1>1a. PICK m \in Nat : \E f : Run(f, m, c) /\ f[m] = d
  BY DEF Reached
<1>1. PICK f : Run(f, m, c) /\ f[m] = d
  BY <1>1a
<1>2a. PICK n \in Nat : \E g : Run(g, n, c) /\ g[n] = e
  BY DEF Reached
<1>2. PICK g : Run(g, n, c) /\ g[n] = e
  BY <1>2a
<1>3. CASE m <= n
  <2>1. g[m] = d
    BY <1>1, <1>2, <1>3, RunsAgree
  <2> QED
    BY <1>2, <1>3, <2>1, RunStops
<1>4. CASE n <= m
  <2>1. f[n] = e
    BY <1>1, <1>2, <1>4, RunsAgree
  <2> QED
    BY <1>1, <1>4, <2>1, RunStops
<1> QED
  BY <1>3, <1>4

-----------------------------------------------------------------------------
(* The configuration that both executions start from.                      *)
StartConfig ==
  [manifest |-> manifest, trace |-> trace, words |-> words, pending |-> Items(trace.events),
   event |-> NoEvent, state |-> Start(manifest, trace), snapshot |-> Start(manifest, trace),
   todo |-> <<>>, writes |-> << >>, work |-> <<>>, expanding |-> {}, steps |-> 0, total |-> 0,
   drawn |-> [s \in DOMAIN manifest.sources |-> 0], emitted |-> <<>>, selected |-> <<>>,
   status |-> "idle"]

(* The result that an execution leaves in a configuration.                 *)
ResultOf(c) == [state |-> c.state, emitted |-> c.emitted, bindings |-> Once(c.selected)]

(* The current execution is on the run from its start, and what was        *)
(* recorded is where the first one stopped.                                *)
OnTheRun ==
  Accepted =>
    /\ Reached(StartConfig, Config)
    /\ pass = 2 => \E c : Reached(StartConfig, c) /\ c.status = "done" /\ recorded = ResultOf(c)

(* A list that is turned around has the same items.                        *)
LEMMA ReversedItems ==
  ASSUME NEW s, IsList(s)
  PROVE  IsList(Reversed(s)) /\ Items(Reversed(s)) = Items(s)
<1> DEFINE r == Reversed(s)
           l == Len(s)
<1>1. l \in Nat /\ DOMAIN s = 1..l /\ DOMAIN r = 1..l
  BY DEF IsList, Reversed
<1>2. \A n \in 1..l : l + 1 - n \in 1..l /\ r[n] = s[l + 1 - n] /\ r[l + 1 - n] = s[n]
  <2> TAKE n \in 1..l
  <2>1. l + 1 - n \in 1..l /\ l + 1 - (l + 1 - n) = n
    BY <1>1
  <2> QED
    BY <1>1, <2>1 DEF Reversed
<1>3. Items(r) = Items(s)
  BY <1>1, <1>2 DEF Items
<1>4. r \in Seq(Items(r))
  <2> DEFINE S == Items(r)
  <2>1. r = [n \in 1..l |-> r[n]] /\ \A n \in 1..l : r[n] \in S
    BY <1>1 DEF Reversed, Items
  <2> HIDE DEF S, r
  <2>2. r \in Seq(S)
    BY <1>1, <2>1
  <2> QED
    BY <2>2 DEF S
<1> QED
  BY <1>3, <1>4 DEF IsList

(* Each step leaves a list of inputs with keys of their own.               *)
LEMMA QueuedStep == Queued /\ [Next]_vars => Queued'
<1> SUFFICES ASSUME Queued, [Next]_vars PROVE Queued'
  OBVIOUS
<1>1. UNCHANGED <<manifest, trace, words>> /\ Accepted' = Accepted
  BY InputsStay, AcceptedStays
<1>2. CASE NextEvent
  <2>1. PICK n \in DOMAIN queue :
          queue' = [k \in 1..(Len(queue) - 1) |-> IF k < n THEN queue[k] ELSE queue[k + 1]]
    BY <1>2 DEF NextEvent
  <2>2. Len(queue) \in Nat /\ DOMAIN queue = 1..Len(queue)
    BY DEF Queued, IsList
  <2>3. Len(queue) - 1 \in Nat
    BY <2>1, <2>2
  <2>4. /\ DOMAIN queue' = 1..(Len(queue) - 1)
        /\ \A k \in DOMAIN queue' :
             LET j == IF k < n THEN k ELSE k + 1 IN j \in DOMAIN queue /\ queue'[k] = queue[j]
    BY <2>1, <2>2
  <2>5. IsList(queue')
    <3> DEFINE S == Items(queue')
    <3>1. \A k \in DOMAIN queue' : queue'[k] \in S
      BY DEF Items
    <3>2. queue' = [k \in 1..(Len(queue) - 1) |-> queue'[k]]
      BY <2>1
    <3> HIDE DEF S
    <3>3. queue' \in Seq(S)
      BY <2>3, <2>4, <3>1, <3>2
    <3> QED
      BY <3>3 DEF IsList, S
  <2>6. Items(queue') \subseteq Items(trace'.events)
    <3>1. Items(queue') \subseteq Items(queue)
      BY <2>4 DEF Items
    <3> QED
      BY <1>1, <3>1 DEF Queued
  <2>7. ASSUME Accepted, NEW j \in DOMAIN queue', NEW k \in DOMAIN queue',
               OrderKey(queue'[j]) = OrderKey(queue'[k])
        PROVE  j = k
    <3> DEFINE x == IF j < n THEN j ELSE j + 1
               y == IF k < n THEN k ELSE k + 1
    <3>1. /\ x \in DOMAIN queue /\ y \in DOMAIN queue
          /\ queue'[j] = queue[x] /\ queue'[k] = queue[y]
      BY <2>4
    <3>2. x = y
      <4> HIDE DEF x, y
      <4> QED
        BY <2>7, <3>1 DEF Queued
    <3>3. j \in Nat /\ k \in Nat /\ n \in Nat
      BY <2>2, <2>4
    <3> QED
      BY <3>2, <3>3
  <2> QED
    BY <1>1, <2>5, <2>6, <2>7 DEF Queued
<1>3. CASE Verify
  <2>1. queue' = Reversed(trace.events)
    BY <1>3 DEF Verify
  <2>2. IsList(trace.events)
    BY TraceAssumption DEF Queued
  <2>3. IsList(queue') /\ Items(queue') = Items(trace.events)
    BY <2>1, <2>2, ReversedItems
  <2>4. ASSUME Accepted, NEW j \in DOMAIN queue', NEW k \in DOMAIN queue',
               OrderKey(queue'[j]) = OrderKey(queue'[k])
        PROVE  j = k
    <3> DEFINE l == Len(trace.events)
    <3>1. l \in Nat /\ DOMAIN trace.events = 1..l /\ DOMAIN queue' = 1..l
      BY <2>1, <2>2 DEF IsList, Reversed
    <3>2. /\ j \in 1..l /\ k \in 1..l /\ l + 1 - j \in 1..l /\ l + 1 - k \in 1..l
      BY <3>1
    <3>3. queue'[j] = trace.events[l + 1 - j] /\ queue'[k] = trace.events[l + 1 - k]
      BY <2>1 DEF Reversed
    <3>4. l + 1 - j = l + 1 - k
      <4> DEFINE x == l + 1 - j
                 y == l + 1 - k
      <4>1. AcceptsTrace(manifest, trace) /\ x \in DOMAIN trace.events /\ y \in DOMAIN trace.events
        BY <2>4, <3>1, <3>2 DEF Accepted
      <4>2. OrderKey(trace.events[x]) = OrderKey(trace.events[y])
        BY <2>4, <3>3
      <4> HIDE DEF x, y
      <4>3. x = y
        BY <4>1, <4>2 DEF AcceptsTrace
      <4> QED
        BY <4>3 DEF x, y
    <3> QED
      BY <3>1, <3>2, <3>4
  <2> QED
    BY <1>1, <2>3, <2>4 DEF Queued
<1>4. CASE UNCHANGED queue
  BY <1>1, <1>4 DEF Queued
<1>5. ~NextEvent /\ ~Verify => UNCHANGED queue
  BY DEF Next, vars, input, RefuseAction, Fail, Write, Step, Emit, SelectBinding,
         StartProcess, Enter, RefuseEntry, ListActions, ListChildren, RefuseChild, Leave, Expand,
         EmitProcessAction, RefuseDelayed, Draw, RefuseDraw, Exhaust, EndCycle, Finish
<1> QED
  BY <1>2, <1>3, <1>4, <1>5

(* Both executions start alike.                                            *)
LEMMA StartStays == [Next]_vars => StartConfig' = StartConfig
BY InputsStay DEF StartConfig, Start, NoEvent

(* Each step goes on along the run, or goes back to its start to verify.   *)
LEMMA OnTheRunStep ==
  Queued /\ OnTheRun /\ [Next]_vars /\ AcceptedTripsOnlyAtRun' => OnTheRun'
<1> SUFFICES ASSUME Queued, OnTheRun, [Next]_vars, AcceptedTripsOnlyAtRun', Accepted
             PROVE  OnTheRun'
  BY AcceptedStays DEF OnTheRun
<1>1. StartConfig' = StartConfig /\ Reached(StartConfig, Config)
  BY StartStays DEF OnTheRun
<1>2. CASE Verify
  <2>1. pass = 1 /\ status = "done" /\ recorded' = Result
    BY <1>2 DEF Verify
  <2>2. Config.status = "done" /\ ResultOf(Config) = Result
    BY <2>1, Fields DEF Agrees, ResultOf, Result
  <2>3. PICK c : c = Config
    OBVIOUS
  <2>4. Reached(StartConfig, c) /\ c.status = "done" /\ recorded' = ResultOf(c)
    BY <1>1, <2>1, <2>2, <2>3
  <2>5. Config' = StartConfig
    <3>1. trace' = trace /\ manifest' = manifest /\ words' = words
          /\ Items(queue') = Items(trace.events)
      <4>1. IsList(trace.events)
        BY TraceAssumption DEF Queued
      <4> QED
        BY <1>2, <4>1, ReversedItems DEF Verify
    <3> QED
      BY <1>2, <3>1 DEF Verify, Config, StartConfig
  <2>6. Reached(StartConfig', Config')
    BY <1>1, <2>5, ReachedHere
  <2>7. (\E d : Reached(StartConfig, d) /\ d.status = "done" /\ recorded = ResultOf(d))'
    <3>1. Reached(StartConfig', c) /\ c.status = "done" /\ recorded' = ResultOf(c)
      BY <1>1, <2>4
    <3> QED
      BY <3>1
  <2> QED
    BY <2>6, <2>7 DEF OnTheRun
<1>3. CASE ~Verify
  <2>1. pass' = pass /\ recorded' = recorded
    BY <1>3 DEF Next, vars, input, NextEvent, RefuseAction, Fail, Write, Step, Emit, SelectBinding,
         StartProcess, Enter, RefuseEntry, ListActions, ListChildren, RefuseChild, Leave, Expand,
         EmitProcessAction, RefuseDelayed, Draw, RefuseDraw, Exhaust, EndCycle, Finish
  <2>2. Config' = Config \/ Config' = Succ(Config)
    <3>1. CASE Next
      BY <1>3, <3>1, StepDecided
    <3>2. CASE UNCHANGED vars
      BY <3>2 DEF vars, Config
    <3> QED
      BY <3>1, <3>2
  <2>3. Reached(StartConfig', Config')
    BY <1>1, <2>2, ReachedNext
  <2>4. (pass = 2 => \E c : Reached(StartConfig, c) /\ c.status = "done" /\ recorded = ResultOf(c))'
    BY <1>1, <2>1 DEF OnTheRun
  <2> QED
    BY <2>3, <2>4 DEF OnTheRun
<1> QED
  BY <1>2, <1>3

(* The inductive invariant.                                                *)
Replays == Trips /\ Queued /\ OnTheRun

(* Every execution starts this way.                                        *)
LEMMA ReplaysInit == Init => Replays
<1> SUFFICES ASSUME Init PROVE Replays
  OBVIOUS
<1>1. Queued
  <2>1. queue = trace.events /\ trace \in Traces
    BY DEF Init
  <2> QED
    BY <2>1, TraceAssumption DEF Queued, Accepted, AcceptsTrace
<1>2. OnTheRun
  <2>1. Config = StartConfig
    BY DEF Init, Config, StartConfig
  <2>2. pass = 1
    BY DEF Init
  <2> QED
    BY <2>1, <2>2, ReachedHere DEF OnTheRun
<1> QED
  BY <1>1, <1>2, TripsInit DEF Replays

(* A trace that was recorded by a correct host passes verification, in     *)
(* whatever order its inputs are listed: an accepted trace, its manifest   *)
(* and the words of its generators determine every step of an execution,   *)
(* so that both executions run through the same configurations, and can    *)
(* stop in one of them only.                                               *)
THEOREM ReplaysAgree == Spec => []ReplayAgrees
<1>1. Init => Replays
  BY ReplaysInit
<1>2. Replays /\ [Next]_vars => Replays'
  <2> SUFFICES ASSUME Replays, [Next]_vars PROVE Replays'
    OBVIOUS
  <2>1. Trips'
    BY TripsKept DEF Replays
  <2>2. Queued' /\ OnTheRun'
    BY <2>1, QueuedStep, OnTheRunStep DEF Replays, Trips
  <2> QED
    BY <2>1, <2>2 DEF Replays
<1>3. Replays => ReplayAgrees
  <2> SUFFICES ASSUME Replays, pass = 2, Accepted, status \notin {"idle", "running"}
               PROVE  status = "done" /\ Result = recorded
    BY DEF ReplayAgrees
  <2>1. PICK c : Reached(StartConfig, c) /\ c.status = "done" /\ recorded = ResultOf(c)
    BY DEF Replays, OnTheRun
  <2>2. Reached(StartConfig, Config) /\ Config.status = status
    BY Fields DEF Replays, OnTheRun, Agrees
  <2>3. Stopped(c) /\ Stopped(Config)
    BY <2>1, <2>2 DEF Stopped
  <2>4. Config = c
    BY <2>1, <2>2, <2>3, OneEnd
  <2>5. ResultOf(Config) = Result
    BY Fields DEF ResultOf, Result, Agrees
  <2> QED
    BY <2>1, <2>2, <2>4, <2>5
<1> QED
  BY <1>1, <1>2, <1>3, PTL DEF Spec

-----------------------------------------------------------------------------
(* Conflicts.                                                              *)

(* The writes of v among the first d of the schedule.                      *)
SoFar(v, d) == {n \in WritesTo(v) : n <= d}

(* What the pending writes hold of a variable whose writes are all by      *)
(* set-state under one policy: the value of the write that prevails so     *)
(* far, and of the rest what makes it prevail.                             *)
Prevails(v, policy, d, p) ==
  /\ v \in DOMAIN writes
  /\ writes[v].value = Schedule[p].action.value /\ writes[v].policies = {policy}
  /\ policy = "priority" =>
       /\ writes[v].rank = Schedule[p].rank
       /\ \A n \in SoFar(v, d) : /\ Schedule[p].rank <= Schedule[n].rank
                                 /\ Schedule[n].rank = Schedule[p].rank => n <= p
  /\ policy # "priority" => \A n \in SoFar(v, d) : n <= p
  /\ policy \in {"reject", "merge-disjoint"} =>
       \A n \in SoFar(v, d) : Schedule[n].action.value = writes[v].value

(* ... if there was a write of it at all.                                  *)
Settled(v, policy, d) ==
  IF SoFar(v, d) = {} THEN v \notin DOMAIN writes
                      ELSE \E p \in SoFar(v, d) : Prevails(v, policy, d, p)

(* How many actions of the schedule are done.                              *)
Done == Len(Schedule) - Len(todo)

(* In the middle of a cycle.                                               *)
Cycle ==
  status = "running" =>
    /\ Done \in Nat
    /\ \A n \in 1..Len(todo) : todo[n] = Schedule[Done + n]
    /\ \A v, policy : Declared(v, policy) => Settled(v, policy, Done)

(* The schedule is a list of actions with ranks.                           *)
LEMMA ScheduleIs ==
  ASSUME Given
  PROVE  /\ IsList(Schedule) /\ Len(Schedule) \in Nat /\ DOMAIN Schedule = 1..Len(Schedule)
         /\ \A n \in DOMAIN Schedule : Schedule[n].rank \in Int
<1>1. Matching(event) \in SUBSET manifest.transitions
  BY DEF Matching
<1>2. WellFormed(manifest)
  BY ManifestAssumption DEF Given
<1>3. IsList(Schedule) /\ \A x \in Items(Schedule) : x.rank \in Int
  BY <1>1, <1>2, ScheduledActions DEF Schedule
<1> QED
  BY <1>3 DEF IsList, Items

(* The schedule is fixed while a cycle runs.                               *)
LEMMA ScheduleStays ==
  ASSUME UNCHANGED <<manifest, event, state>>
  PROVE  Schedule' = Schedule
<1>1. \A c : Satisfied(c, state)' = Satisfied(c, state)
  BY DEF Satisfied
<1>2. Matching(event)' = Matching(event)
  BY <1>1 DEF Matching
<1> QED
  BY <1>2 DEF Schedule

(* What neither acts nor changes the state leaves the cycle where it is.   *)
LEMMA CycleStays ==
  ASSUME Cycle, UNCHANGED <<manifest, event, state, todo, writes>>, status' = "running" => status = "running"
  PROVE  Cycle'
<1>1. Schedule' = Schedule
  BY ScheduleStays
<1>2. Done' = Done
  BY <1>1 DEF Done
<1>3. \A v : WritesTo(v)' = WritesTo(v)
  BY <1>1 DEF WritesTo
<1>4. \A v, policy : Declared(v, policy)' <=> Declared(v, policy)
  BY <1>1, <1>3 DEF Declared
<1>5. \A v, policy, d : Settled(v, policy, d)' <=> Settled(v, policy, d)
  BY <1>1, <1>3 DEF Settled, SoFar, Prevails
<1> QED
  BY <1>1, <1>2, <1>4, <1>5 DEF Cycle

(* A cycle begins with nothing written.                                    *)
LEMMA CycleBegins == ASSUME NextEvent, Given PROVE Cycle'
<1>1. PICK e : event' = e /\ todo' = Scheduled(Matching(e))
  BY DEF NextEvent
<1>2. UNCHANGED <<manifest, state>> /\ DOMAIN writes' = {}
  BY DEF NextEvent, input
<1>3. Schedule' = todo'
  <2>1. \A c : Satisfied(c, state)' = Satisfied(c, state)
    BY <1>2 DEF Satisfied
  <2>2. Matching(event)' = Matching(e)
    BY <1>1, <1>2, <2>1 DEF Matching
  <2> QED
    BY <1>1, <2>2 DEF Schedule
<1>4. Len(todo') \in Nat /\ DOMAIN todo' = 1..Len(todo')
  <2>1. Matching(e) \in SUBSET manifest.transitions
    BY DEF Matching
  <2>2. WellFormed(manifest)
    BY ManifestAssumption DEF Given
  <2> QED
    BY <1>1, <2>1, <2>2, ScheduledActions DEF IsList
<1>5. Done' = 0
  BY <1>3, <1>4 DEF Done
<1>6. \A v : SoFar(v, 0)' = {}
  BY <1>3, <1>4 DEF SoFar, WritesTo
<1>7. \A v, policy : Settled(v, policy, 0)'
  BY <1>2, <1>6 DEF Settled
<1> QED
  BY <1>3, <1>4, <1>5, <1>7 DEF Cycle

(* The next action of the schedule.                                        *)
LEMMA NextPlace ==
  ASSUME Given, Cycle, Listed, NEW ops, Step(ops)
  PROVE  /\ Done + 1 \in DOMAIN Schedule /\ Top = Schedule[Done + 1] /\ Done' = Done + 1 /\ Schedule' = Schedule
         /\ Done \in Nat /\ Top.action.op \in ops
         /\ status' = "running"
         /\ \A n \in 1..Len(todo') : todo'[n] = Schedule[Done + 1 + n]
<1>1. status = "running" /\ todo # <<>> /\ todo' = Tail(todo) /\ Top.action.op \in ops /\ status' = status
      /\ UNCHANGED <<manifest, event, state>>
  BY DEF Step, Acting, input
<1>2. Schedule' = Schedule
  BY <1>1, ScheduleStays
<1>3. todo \in Seq(Items(todo))
  BY DEF Listed, IsList
<1>4. Len(todo) \in Nat /\ Len(todo) > 0 /\ Len(todo') = Len(todo) - 1 /\ Top = todo[1]
      /\ \A n \in 1..Len(todo') : todo'[n] = todo[n + 1]
  BY <1>1, <1>3 DEF Top
<1>5. Done \in Nat /\ \A n \in 1..Len(todo) : todo[n] = Schedule[Done + n]
  BY <1>1 DEF Cycle
<1>6. Done' = Done + 1 /\ Done + 1 <= Len(Schedule)
  BY <1>2, <1>4, <1>5, ScheduleIs DEF Done
<1>7. Top = Schedule[Done + 1]
  BY <1>4, <1>5
<1>8. \A n \in 1..Len(todo') : todo'[n] = Schedule[Done + 1 + n]
  <2> TAKE n \in 1..Len(todo')
  <2>1. n + 1 \in 1..Len(todo) /\ todo'[n] = todo[n + 1] /\ Done + (n + 1) = Done + 1 + n
    BY <1>4, <1>5
  <2> QED
    BY <1>5, <2>1
<1> QED
  BY <1>1, <1>2, <1>5, <1>6, <1>7, <1>8, ScheduleIs

(* The value that is pending after a write is that of the write that       *)
(* prevails now.                                                           *)
LEMMA WritePrevails ==
  ASSUME Given, Cycle, Listed, Write, NEW v, NEW policy, Declared(v, policy), v = Top.action.target,
         NEW d, d = Done
  PROVE  Settled(v, policy, d + 1)'
<1> DEFINE x == Top
           old == SoFar(v, d)
           new == SoFar(v, d + 1)
<1>1. /\ d + 1 \in DOMAIN Schedule /\ x = Schedule[d + 1] /\ Schedule' = Schedule /\ d \in Nat
      /\ x.action.op \in StateOps
  BY NextPlace DEF Write
<1>2. d + 1 \in WritesTo(v)
  BY <1>1 DEF WritesTo
<1>3. new = old \cup {d + 1} /\ \A n \in old : n < d + 1
  <2>1. WritesTo(v) \subseteq Nat
    BY ScheduleIs DEF WritesTo
  <2> QED
    BY <1>1, <1>2, <2>1 DEF SoFar
<1>4. SoFar(v, d + 1)' = new
  BY <1>1 DEF WritesTo, SoFar
<1>5. x.action.op = "set-state" /\ x.policy = policy /\ Proposed(x) = x.action.value
  BY <1>1, <1>2 DEF Declared, Proposed
<1>6. Settled(v, policy, d)
  BY DEF Cycle, Write, Step, Acting
<1>7. v \in DOMAIN writes => Policies(x) = {policy}
  BY <1>5, <1>6 DEF Policies, Settled, Prevails
<1>8. \A n \in new : Schedule[n].rank \in Int /\ n \in Int
  BY ScheduleIs DEF SoFar, WritesTo
<1>9. ErrorOf(x) = "none"
  BY DEF Write, Step
<1>10. ASSUME v \in DOMAIN writes, policy \in {"reject", "merge-disjoint"}
       PROVE  writes[v].value = x.action.value
  <2>1. ~(Conflict(x) /\ Policies(x) \subseteq {"reject", "merge-disjoint"})
    BY <1>1, <1>9 DEF ErrorOf, StateOps
  <2> QED
    BY <1>5, <1>7, <1>10, <2>1 DEF Conflict
<1>11. CASE Outranked(x)
  <2>1. writes' = writes
    BY <1>11 DEF Write
  <2>2. v \in DOMAIN writes /\ policy = "priority" /\ x.rank > writes[v].rank
    BY <1>7, <1>11 DEF Outranked, Conflict
  <2>3. PICK p \in old : Prevails(v, policy, d, p)
    BY <1>6, <2>2 DEF Settled
  <2>4. Prevails(v, policy, d + 1, p)'
    <3>1. \A n \in new : Schedule[p].rank <= Schedule[n].rank /\ (Schedule[n].rank = Schedule[p].rank => n <= p)
      BY <1>1, <1>3, <1>8, <2>2, <2>3 DEF Prevails
    <3> HIDE DEF new, old
    <3> QED
      BY <1>1, <1>4, <2>1, <2>2, <2>3, <3>1 DEF Prevails
  <2> QED
    BY <1>3, <1>4, <2>4 DEF Settled
<1>12. CASE ~Outranked(x)
  <2>1. v \in DOMAIN writes' /\ writes'[v] = Noted(x)
    BY <1>12 DEF Write
  <2>2. writes'[v].value = x.action.value /\ writes'[v].policies = {policy}
    BY <1>5, <1>7, <2>1 DEF Noted
  <2>3. CASE v \notin DOMAIN writes
    <3>1. old = {}
      BY <1>6, <2>3 DEF Settled, Prevails
    <3>2. new = {d + 1} /\ writes'[v].rank = x.rank
      BY <1>3, <2>1, <2>3, <3>1 DEF Noted
    <3>3. Prevails(v, policy, d + 1, d + 1)'
      BY <1>1, <1>4, <1>8, <2>1, <2>2, <3>2 DEF Prevails
    <3> QED
      BY <1>3, <1>4, <3>3 DEF Settled
  <2>4. CASE v \in DOMAIN writes
    <3>1. PICK p \in old : Prevails(v, policy, d, p)
      BY <1>6, <2>4 DEF Settled
    <3>2. writes'[v].rank = IF x.rank < writes[v].rank THEN x.rank ELSE writes[v].rank
      BY <2>1, <2>4 DEF Noted
    <3>3. CASE policy = "priority" /\ x.rank > writes[v].rank
      <4>1. writes[v].value = x.action.value
        BY <1>5, <1>7, <1>12, <2>4, <3>3 DEF Outranked, Conflict
      <4>2. writes'[v].rank = writes[v].rank
        BY <1>1, <1>3, <1>8, <3>1, <3>2, <3>3 DEF Prevails
      <4>3. \A n \in new : Schedule[p].rank <= Schedule[n].rank /\ (Schedule[n].rank = Schedule[p].rank => n <= p)
        BY <1>1, <1>3, <1>8, <3>1, <3>3 DEF Prevails
      <4>4. Prevails(v, policy, d + 1, p)'
        <5> HIDE DEF new, old
        <5> QED
          BY <1>1, <1>4, <2>1, <2>2, <3>1, <3>3, <4>1, <4>2, <4>3 DEF Prevails
      <4> QED
        BY <1>3, <1>4, <4>4 DEF Settled
    <3>4. CASE ~(policy = "priority" /\ x.rank > writes[v].rank)
      <4>1. policy = "priority" => /\ writes'[v].rank = x.rank
                                   /\ \A n \in new : x.rank <= Schedule[n].rank
        BY <1>1, <1>3, <1>8, <3>1, <3>2, <3>4 DEF Prevails
      <4>2. \A n \in new : n <= d + 1
        BY <1>1, <1>3, <1>8
      <4>3. policy \in {"reject", "merge-disjoint"} => \A n \in new : Schedule[n].action.value = writes'[v].value
        BY <1>1, <1>3, <1>10, <2>2, <2>4, <3>1 DEF Prevails
      <4>4. Prevails(v, policy, d + 1, d + 1)'
        <5> HIDE DEF new, old
        <5> QED
          BY <1>1, <1>4, <2>1, <2>2, <4>1, <4>2, <4>3 DEF Prevails
      <4> QED
        BY <1>3, <1>4, <4>4 DEF Settled
    <3> QED
      BY <3>3, <3>4
  <2> QED
    BY <2>3, <2>4
<1> QED
  BY <1>11, <1>12

(* A variable that the next action does not write stays settled.           *)
LEMMA OthersSettled ==
  ASSUME Given, Cycle, NEW v, NEW policy, Declared(v, policy), NEW d, d = Done, d \in Nat,
         status = "running", Schedule' = Schedule, d + 1 \notin WritesTo(v),
         v \in DOMAIN writes' <=> v \in DOMAIN writes, v \in DOMAIN writes => writes'[v] = writes[v]
  PROVE  Settled(v, policy, d + 1)'
<1>1. WritesTo(v)' = WritesTo(v) /\ WritesTo(v) \subseteq Nat
  BY ScheduleIs DEF WritesTo
<1>2. SoFar(v, d + 1)' = SoFar(v, d)
  BY <1>1 DEF SoFar
<1>3. Settled(v, policy, d)
  BY DEF Cycle
<1>4. \A p : Prevails(v, policy, d, p) => Prevails(v, policy, d + 1, p)'
  BY <1>2 DEF Prevails
<1> QED
  BY <1>2, <1>3, <1>4 DEF Settled, Prevails

(* An action of a transition brings the cycle one place further.           *)
LEMMA CycleStep ==
  ASSUME Given, Cycle, Listed, Write \/ Emit \/ SelectBinding \/ StartProcess
  PROVE  Cycle'
<1>1. PICK ops : Step(ops) /\ (~Write => ops \cap StateOps = {} /\ writes' = writes)
  BY DEF Write, Emit, SelectBinding, StartProcess, StateOps
<1>2. PICK d : d = Done
  OBVIOUS
<1>3. /\ d + 1 \in DOMAIN Schedule /\ Top = Schedule[d + 1] /\ Done' = d + 1 /\ Schedule' = Schedule
      /\ d \in Nat /\ Top.action.op \in ops
      /\ \A n \in 1..Len(todo') : todo'[n] = Schedule[d + 1 + n]
  BY <1>1, <1>2, NextPlace
<1>4. status = "running"
  BY <1>1 DEF Step, Acting
<1>5. ASSUME NEW v, NEW policy, Declared(v, policy)'
      PROVE  Settled(v, policy, d + 1)'
  <2>1. Declared(v, policy)
    BY <1>3, <1>5 DEF Declared, WritesTo
  <2>2. CASE Write /\ v = Top.action.target
    BY <1>2, <2>1, <2>2, WritePrevails
  <2>3. CASE ~(Write /\ v = Top.action.target)
    <3>1. d + 1 \notin WritesTo(v)
      BY <1>1, <1>3, <2>3 DEF WritesTo, Write, Step, Acting
    <3>2. (v \in DOMAIN writes' <=> v \in DOMAIN writes) /\ (v \in DOMAIN writes => writes'[v] = writes[v])
      BY <1>1, <2>3 DEF Write
    <3> QED
      BY <1>2, <1>3, <1>4, <2>1, <3>1, <3>2, OthersSettled
  <2> QED
    BY <2>2, <2>3
<1> QED
  BY <1>3, <1>5 DEF Cycle

(* Each step keeps what is known of a cycle.                               *)
LEMMA CycleKept == Given /\ Listed /\ Cycle /\ [Next]_vars => Cycle'
<1> SUFFICES ASSUME Given, Listed, Cycle, [Next]_vars PROVE Cycle'
  OBVIOUS
<1>1. CASE NextEvent
  BY <1>1, CycleBegins
<1>2. CASE Write \/ Emit \/ SelectBinding \/ StartProcess
  BY <1>2, CycleStep
<1>3. CASE Enter \/ ListActions \/ ListChildren \/ Leave \/ EmitProcessAction \/ Draw
  <2>1. UNCHANGED <<manifest, event, state, todo, writes, status>>
    BY <1>3 DEF Enter, ListActions, ListChildren, Leave, EmitProcessAction, Draw, Expand, input
  <2> QED
    BY <2>1, CycleStays
<1>4. CASE status' # "running"
  BY <1>4 DEF Cycle
<1>5. EndCycle \/ Finish \/ Verify => status' # "running"
  BY DEF EndCycle, Finish, Verify
<1>6. RefuseAction \/ RefuseEntry \/ RefuseChild \/ RefuseDelayed \/ RefuseDraw \/ Exhaust
        => status' # "running"
  <2>1. RefuseAction => status' # "running"
    BY DEF RefuseAction, Fail, ErrorOf
  <2>2. RefuseEntry => status' # "running"
    BY DEF RefuseEntry, Fail, EntryError
  <2>3. RefuseDraw => status' # "running"
    BY DEF RefuseDraw, Fail, DrawError
  <2> QED
    BY <2>1, <2>2, <2>3 DEF RefuseChild, RefuseDelayed, Exhaust, Fail
<1>7. CASE UNCHANGED vars
  <2>1. UNCHANGED <<manifest, event, state, todo, writes, status>>
    BY <1>7 DEF vars
  <2> QED
    BY <2>1, CycleStays
<1> QED
  BY <1>1, <1>2, <1>3, <1>4, <1>5, <1>6, <1>7 DEF Next

(* The latest of some places is the one that no other exceeds.             *)
LEMMA LatestIs ==
  ASSUME NEW S \in SUBSET Nat, NEW p \in S, \A n \in S : n <= p
  PROVE  Latest(S) = p
<1>1. \E n \in S : \A k \in S : k <= n
  OBVIOUS
<1>2. Latest(S) \in S /\ \A k \in S : k <= Latest(S)
  BY <1>1 DEF Latest
<1>3. Latest(S) <= p /\ p <= Latest(S) /\ Latest(S) \in Nat /\ p \in Nat
  BY <1>2
<1> QED
  BY <1>3

(* At the end all writes of the schedule have been done.                   *)
LEMMA DecidedAtEnd ==
  ASSUME Given, Cycle, EndCycle, NEW v \in DOMAIN state, NEW policy,
         WritesTo(v) # {}, Declared(v, policy)
  PROVE  /\ state'[v] = Winner(v, policy)
         /\ policy \in {"reject", "merge-disjoint"} =>
              \A n \in WritesTo(v) : Schedule[n].action.value = state'[v]
<1>1. /\ status = "running" /\ todo = <<>>
      /\ state' = [w \in DOMAIN state |-> IF w \in DOMAIN writes THEN writes[w].value ELSE state[w]]
  BY DEF EndCycle
<1> DEFINE W == WritesTo(v)
<1>2. W \in SUBSET Nat /\ \A n \in W : n <= Len(Schedule) /\ Schedule[n].rank \in Int
  BY ScheduleIs DEF WritesTo
<1>3. Done = Len(Schedule)
  BY <1>1, ScheduleIs DEF Done
<1>4. SoFar(v, Done) = W
  BY <1>2, <1>3 DEF SoFar
<1>5. PICK p \in W : Prevails(v, policy, Done, p)
  BY <1>1, <1>4 DEF Cycle, Settled
<1>6. state'[v] = writes[v].value /\ writes[v].value = Schedule[p].action.value
  BY <1>1, <1>5 DEF Prevails
<1>7. Winner(v, policy) = Schedule[p].action.value
  <2> DEFINE H == {n \in W : \A k \in W : Schedule[n].rank <= Schedule[k].rank}
  <2>1. CASE policy = "priority"
    <3>1. p \in H /\ \A n \in H : n <= p
      <4>1. \A n \in W : Schedule[p].rank <= Schedule[n].rank
                         /\ (Schedule[n].rank = Schedule[p].rank => n <= p)
        BY <1>4, <1>5, <2>1 DEF Prevails
      <4> HIDE DEF W
      <4>2. ASSUME NEW n \in H PROVE Schedule[n].rank = Schedule[p].rank /\ n \in W
        <5>1. n \in W /\ Schedule[n].rank <= Schedule[p].rank /\ Schedule[p].rank <= Schedule[n].rank
          BY <4>1
        <5> QED
          BY <1>2, <5>1
      <4> QED
        BY <4>1, <4>2
    <3>2. H \in SUBSET Nat
      BY <1>2
    <3>3. Latest(H) = p
      <4> HIDE DEF H
      <4> QED
        BY <3>1, <3>2, LatestIs
    <3> QED
      BY <2>1, <3>3 DEF Winner
  <2>2. CASE policy # "priority"
    <3>1. \A n \in W : n <= p
      BY <1>4, <1>5, <2>2 DEF Prevails
    <3>2. Latest(W) = p
      <4> HIDE DEF W
      <4> QED
        BY <1>2, <3>1, LatestIs
    <3> QED
      BY <2>2, <3>2 DEF Winner
  <2> QED
    BY <2>1, <2>2
<1>8. policy \in {"reject", "merge-disjoint"} => \A n \in W : Schedule[n].action.value = state'[v]
  BY <1>4, <1>5, <1>6 DEF Prevails
<1> QED
  BY <1>6, <1>7, <1>8

(* A cycle that ends well leaves what the standard says: of the writes of  *)
(* one variable by set-state under one policy, the last of the highest     *)
(* rank, or the last, or the only value there is, although the code sees   *)
(* them one by one and compares each with the latest only.                 *)
THEOREM ConflictsDecided == Spec => PoliciesDecide
<1> DEFINE Inv == Trips /\ Cycle
<1>1. Init => Inv
  BY TripsInit DEF Init, Cycle
<1>2. Inv /\ [Next]_vars => Inv'
  BY TripsKept, CycleKept DEF Trips
<1>3. Inv /\ [Next]_vars => [EndCycle => \A v \in DOMAIN state, policy \in {"reject", "priority", "last-event-wins", "merge-disjoint"} :
       WritesTo(v) # {} /\ Declared(v, policy)
         => /\ state'[v] = Winner(v, policy)
            /\ policy \in {"reject", "merge-disjoint"} =>
                 \A n \in WritesTo(v) : Schedule[n].action.value = state'[v]]_vars
  BY DecidedAtEnd DEF Trips
<1> QED
  BY <1>1, <1>2, <1>3, PTL DEF Spec, PoliciesDecide

-----------------------------------------------------------------------------
(* Types and limits.                                                       *)

(* The processes on the stack are in the manifest.                         *)
InManifest == IsList(work) /\ \A w \in Items(work) : w.process \in DOMAIN manifest.processes

(* The operations of its items.                                            *)
Ops == {"enter", "draw", "actions", "children", "action", "exit"}

(* What lies on a stack after its top gave way to none, one or two items.  *)
LEMMA ItemsPushed ==
  ASSUME NEW w, IsList(w), w # <<>>, NEW x, NEW y
  PROVE  /\ Items(<<>> \o Tail(w)) \subseteq Items(w)
         /\ Items(<<x>> \o Tail(w)) \subseteq Items(w) \cup {x}
         /\ Items(<<x, y>> \o Tail(w)) \subseteq Items(w) \cup {x, y}
         /\ Head(w) \in Items(w)
<1>1. w \in Seq(Items(w))
  BY DEF IsList
<1>2. /\ Len(w) \in Nat /\ DOMAIN w = 1..Len(w)
      /\ DOMAIN (<<>> \o Tail(w)) = 1..(Len(w) - 1)
      /\ \A i \in 1..(Len(w) - 1) : (<<>> \o Tail(w))[i] = w[i + 1]
      /\ DOMAIN (<<x>> \o Tail(w)) = 1..Len(w)
      /\ (<<x>> \o Tail(w))[1] = x
      /\ \A i \in 1..Len(w) : i # 1 => (<<x>> \o Tail(w))[i] = w[i]
      /\ DOMAIN (<<x, y>> \o Tail(w)) = 1..(Len(w) + 1)
      /\ (<<x, y>> \o Tail(w))[1] = x
      /\ (<<x, y>> \o Tail(w))[2] = y
      /\ \A i \in 1..(Len(w) + 1) : i # 1 /\ i # 2 => (<<x, y>> \o Tail(w))[i] = w[i - 1]
  BY <1>1, Pushed
<1> DEFINE a == <<>> \o Tail(w)
           b == <<x>> \o Tail(w)
           c == <<x, y>> \o Tail(w)
<1>3. Items(a) \subseteq Items(w)
  <2>1. \A i \in DOMAIN a : i + 1 \in DOMAIN w /\ a[i] = w[i + 1]
    BY <1>2
  <2> QED
    BY <2>1 DEF Items
<1>4. Items(b) \subseteq Items(w) \cup {x}
  <2>1. \A i \in DOMAIN b : b[i] = x \/ (i \in DOMAIN w /\ b[i] = w[i])
    BY <1>2
  <2> QED
    BY <2>1 DEF Items
<1>5. Items(c) \subseteq Items(w) \cup {x, y}
  <2>1. \A i \in DOMAIN c : c[i] \in {x, y} \/ (i - 1 \in DOMAIN w /\ c[i] = w[i - 1])
    BY <1>2
  <2> QED
    BY <2>1 DEF Items
<1> QED
  BY <1>1, <1>3, <1>4, <1>5, TailOf

(* The stack after each action that changes it.                            *)
LEMMA StackStep ==
  ASSUME InManifest, TypeOK, [Next]_vars
  PROVE  InManifest' /\ {w.op : w \in Items(work')} \subseteq Ops
<1>1. manifest' = manifest
  BY InputsStay
<1> DEFINE Good(w) == w.op \in Ops /\ w.process \in DOMAIN manifest.processes
<1>2. IsList(work) /\ \A w \in Items(work) : Good(w)
  BY DEF InManifest, TypeOK, Ops
<1>3. SUFFICES IsList(work') /\ \A w \in Items(work') : Good(w)
  BY <1>1 DEF InManifest
<1>4. CASE Expanding(Head(work).op) /\ Good(Head(work))
           /\ \E x, y : /\ Good(x) /\ Good(y)
                        /\ work' \in {<<>> \o Tail(work), <<x>> \o Tail(work), <<x, y>> \o Tail(work)}
  <2>1. PICK x, y : /\ Good(x) /\ Good(y)
                    /\ work' \in {<<>> \o Tail(work), <<x>> \o Tail(work), <<x, y>> \o Tail(work)}
    BY <1>4
  <2>2. work # <<>>
    BY <1>4 DEF Expanding
  <2>3. IsList(work')
    BY <1>2, <2>1, <2>2, ListsPushed
  <2>4. Items(work') \subseteq Items(work) \cup {x, y}
    BY <1>2, <2>1, <2>2, ItemsPushed
  <2> HIDE DEF Good
  <2> QED
    BY <1>2, <2>1, <2>3, <2>4
<1>5. CASE work' = work
  BY <1>2, <1>5
<1>6. CASE StartProcess
  <2>1. Top.action.op = "start-process" /\ ErrorOf(Top) = "none"
    BY <1>6 DEF StartProcess, Step, Acting
  <2>2. Top.action.target \in DOMAIN manifest.processes
    BY <2>1 DEF ErrorOf
  <2>3. work' = <<Item("enter", Top.action.target, 0, Top.id)>>
    BY <1>6 DEF StartProcess
  <2> DEFINE x == Item("enter", Top.action.target, 0, Top.id)
  <2>4. Good(x)
    BY <2>2 DEF Item, Ops
  <2> HIDE DEF x, Good
  <2>5. work' \in Seq({x}) /\ Items(work') = {x}
    BY <2>3 DEF Items, x
  <2> QED
    BY <2>4, <2>5, ListOf
<1>7. CASE Verify
  <2>1. work' = <<>>
    BY <1>7 DEF Verify
  <2> QED
    BY <2>1 DEF IsList, Items
<1> DEFINE Changed == Enter \/ ListActions \/ ListChildren \/ Leave \/ EmitProcessAction \/ Draw
<1>8. ASSUME Changed
      PROVE  work # <<>> /\ Expanding(Head(work).op) /\ Good(Head(work))
  <2>1. work # <<>> /\ Expanding(Head(work).op)
    BY <1>8 DEF Enter, ListActions, ListChildren, Leave, EmitProcessAction, Draw, Expanding
  <2> HIDE DEF Good
  <2> QED
    BY <1>2, <2>1, TailOf
<1>9. ASSUME Changed, NEW op \in Ops, NEW n
      PROVE  Good(Here(op, n))
  BY <1>8, <1>9 DEF Here, Item
<1>10. CASE Enter
  <2> DEFINE x == Here(IF Self.kind = "stochastic" THEN "draw" ELSE "actions", 1)
  <2>1. work' = <<x>> \o Tail(work)
    BY <1>10 DEF Enter, Push
  <2>2. Good(x)
    BY <1>9, <1>10 DEF Ops
  <2> HIDE DEF x, Good
  <2> QED
    BY <1>4, <1>8, <1>10, <2>1, <2>2
<1>11. CASE ListActions
  <2> DEFINE n == Head(work).index
             x == Here("action", n)
             y == Here("actions", n + 1)
             z == Here("children", 1)
  <2>1. work' = <<x, y>> \o Tail(work) \/ work' = <<z>> \o Tail(work)
    BY <1>11 DEF ListActions, Push
  <2>2. Good(x) /\ Good(y) /\ Good(z)
    BY <1>9, <1>11 DEF Ops
  <2> HIDE DEF x, y, z, Good
  <2> QED
    BY <1>4, <1>8, <1>11, <2>1, <2>2
<1>12. CASE ListChildren
  <2> DEFINE n == Head(work).index
             x == Item("enter", Self.children[n], 0, Head(work).transition)
             y == Here("children", n + 1)
             z == Here("exit", 0)
  <2>1. \/ work' = <<z>> \o Tail(work)
        \/ work' = <<x, y>> \o Tail(work) /\ Self.children[n] \in DOMAIN manifest.processes
    BY <1>12 DEF ListChildren, Push
  <2>2. Good(y) /\ Good(z)
    BY <1>9, <1>12 DEF Ops
  <2>3. Self.children[n] \in DOMAIN manifest.processes => Good(x)
    BY DEF Item, Ops
  <2> HIDE DEF x, y, z, Good
  <2> QED
    BY <1>4, <1>8, <1>12, <2>1, <2>2, <2>3
<1>13. CASE Leave \/ EmitProcessAction
  <2>1. work' = <<>> \o Tail(work)
    BY <1>13 DEF Leave, EmitProcessAction, Push
  <2> HIDE DEF Good
  <2> QED
    BY <1>4, <1>8, <1>13, <2>1
<1>14. CASE Draw
  <2> DEFINE R == manifest.sources[Self.source]
             k == Selected(Self, R, Word)
             c == Self.children[k - Len(Self.actions) + 1]
             x == Here("action", k + 1)
             y == Here("exit", 0)
             z == Item("enter", c, 0, Head(work).transition)
  <2>1. \/ work' = work
        \/ work' = <<x, y>> \o Tail(work)
        \/ work' = <<z, y>> \o Tail(work) /\ c \in DOMAIN manifest.processes
    BY <1>14 DEF Draw, Push
  <2>2. Good(x) /\ Good(y)
    BY <1>9, <1>14 DEF Ops
  <2>3. c \in DOMAIN manifest.processes => Good(z)
    BY DEF Item, Ops
  <2> HIDE DEF x, y, z, c, Good
  <2> QED
    BY <1>4, <1>5, <1>8, <1>14, <2>1, <2>2, <2>3
<1>15. ~Changed /\ ~StartProcess /\ ~Verify => work' = work
  BY DEF Next, vars, NextEvent, RefuseAction, Fail, Write, Emit, SelectBinding, Step,
         RefuseEntry, RefuseChild, RefuseDelayed, RefuseDraw, Exhaust, EndCycle, Finish
<1> QED
  BY <1>5, <1>6, <1>7, <1>10, <1>11, <1>12, <1>13, <1>14, <1>15

(* The status after each action.                                           *)
LEMMA StatusStep ==
  ASSUME TypeOK, [Next]_vars
  PROVE  status' \in Ends
<1>1. RefuseAction => status' \in Ends
  BY DEF RefuseAction, Fail, ErrorOf, Ends, Errors
<1>2. RefuseEntry => status' \in Ends
  BY DEF RefuseEntry, Fail, EntryError, Ends, Errors
<1>3. RefuseDraw => status' \in Ends
  BY DEF RefuseDraw, Fail, DrawError, Ends, Errors
<1>4. RefuseChild \/ RefuseDelayed \/ Exhaust => status' \in Ends
  BY DEF RefuseChild, RefuseDelayed, Exhaust, Fail, Ends, Errors
<1>5. NextEvent \/ EndCycle \/ Finish \/ Verify => status' \in Ends
  BY DEF NextEvent, EndCycle, Finish, Verify, Ends
<1>6. Write \/ Emit \/ SelectBinding \/ StartProcess => status' = status
  BY DEF Write, Emit, SelectBinding, StartProcess, Step
<1>7. Enter \/ ListActions \/ ListChildren \/ Leave \/ EmitProcessAction \/ Draw \/ UNCHANGED vars
        => status' = status
  BY DEF Enter, ListActions, ListChildren, Leave, EmitProcessAction, Draw, Expand, vars
<1> QED
  BY <1>1, <1>2, <1>3, <1>4, <1>5, <1>6, <1>7 DEF Next, TypeOK

(* The counters within their limits.                                       *)
Limits == steps \in Nat /\ total \in Nat /\ steps <= total /\ steps <= manifest.maximum /\ total <= MaxTotal

(* The counters after each action.                                         *)
LEMMA LimitsStep ==
  ASSUME Given, Limits, [Next]_vars
  PROVE  Limits'
<1>1. manifest' = manifest /\ manifest.maximum \in Nat /\ MaxTotal \in Nat
  BY InputsStay, ManifestAssumption, LimitAssumption DEF Given, WellFormed
<1>2. CASE Consume
  BY <1>1, <1>2 DEF Consume, OutOfSteps, Limits
<1>3. CASE NextEvent \/ Verify
  <2>1. steps' = 0 /\ total' \in {0, total}
    BY <1>3 DEF NextEvent, Verify
  <2> QED
    BY <1>1, <2>1 DEF Limits
<1>4. CASE UNCHANGED <<steps, total>>
  BY <1>1, <1>4 DEF Limits
<1>5. Write \/ Emit \/ SelectBinding \/ StartProcess \/ EmitProcessAction \/ Draw => Consume
  BY DEF Write, Emit, SelectBinding, StartProcess, Step, EmitProcessAction, Draw
<1>6. Enter \/ ListActions \/ ListChildren \/ Leave => UNCHANGED <<steps, total>>
  BY DEF Enter, ListActions, ListChildren, Leave
<1>7. RefuseAction \/ RefuseEntry \/ RefuseChild \/ RefuseDelayed \/ RefuseDraw \/ Exhaust
      \/ EndCycle \/ Finish \/ UNCHANGED vars => UNCHANGED <<steps, total>>
  BY DEF RefuseAction, RefuseEntry, RefuseChild, RefuseDelayed, RefuseDraw, Exhaust, Fail, EndCycle,
         Finish, vars
<1> QED
  BY <1>2, <1>3, <1>4, <1>5, <1>6, <1>7 DEF Next

(* The rest of the state after each action.                                *)
LEMMA OthersTyped ==
  ASSUME InManifest, TypeOK, [Next]_vars
  PROVE  /\ pass' \in {1, 2}
         /\ DOMAIN state' = DOMAIN manifest.vars /\ DOMAIN snapshot' = DOMAIN manifest.vars
         /\ \A t \in DOMAIN writes' : writes'[t].policies # {}
         /\ expanding' \subseteq DOMAIN manifest.processes
<1>1. pass' \in {1, 2}
  BY DEF TypeOK, Next, vars, input, NextEvent, RefuseAction, Fail, Write, Step, Emit, SelectBinding,
         StartProcess, Enter, RefuseEntry, ListActions, ListChildren, RefuseChild, Leave, Expand,
         EmitProcessAction, RefuseDelayed, Draw, RefuseDraw, Exhaust, EndCycle, Finish, Verify
<1>2. DOMAIN state' = DOMAIN manifest.vars /\ DOMAIN snapshot' = DOMAIN manifest.vars
  <2>1. EndCycle => DOMAIN state' = DOMAIN state /\ snapshot' = snapshot
    BY DEF EndCycle
  <2>2. NextEvent => state' = state /\ snapshot' = state
    BY DEF NextEvent
  <2>3. Verify => DOMAIN state' = DOMAIN manifest.vars /\ DOMAIN snapshot' = DOMAIN manifest.vars
    BY DEF Verify, Start
  <2>4. ~EndCycle /\ ~NextEvent /\ ~Verify => UNCHANGED <<state, snapshot>>
    BY DEF Next, vars, RefuseAction, Fail, Write, Step, Emit, SelectBinding,
         StartProcess, Enter, RefuseEntry, ListActions, ListChildren, RefuseChild, Leave, Expand,
         EmitProcessAction, RefuseDelayed, Draw, RefuseDraw, Exhaust, Finish
  <2> QED
    BY <2>1, <2>2, <2>3, <2>4 DEF TypeOK
<1>3. \A t \in DOMAIN writes' : writes'[t].policies # {}
  <2>1. Write => \A t \in DOMAIN writes' : writes'[t].policies # {}
    <3>1. \A x : Noted(x).policies # {}
      BY DEF Noted, Policies
    <3> QED
      BY <3>1 DEF Write, TypeOK
  <2>2. NextEvent \/ Verify => DOMAIN writes' = {}
    BY DEF NextEvent, Verify
  <2>3. ~Write /\ ~NextEvent /\ ~Verify => writes' = writes
    BY DEF Next, vars, RefuseAction, Fail, Step, Emit, SelectBinding,
         StartProcess, Enter, RefuseEntry, ListActions, ListChildren, RefuseChild, Leave, Expand,
         EmitProcessAction, RefuseDelayed, Draw, RefuseDraw, Exhaust, EndCycle, Finish
  <2> QED
    BY <2>1, <2>2, <2>3 DEF TypeOK
<1>4. expanding' \subseteq DOMAIN manifest.processes
  <2>1. Enter => expanding' = expanding \cup {Head(work).process} /\ Head(work) \in Items(work)
    BY TailOf DEF Enter, Expanding, InManifest
  <2>2. Leave => expanding' \subseteq expanding
    BY DEF Leave
  <2>3. Verify => expanding' = {}
    BY DEF Verify
  <2>4. ~Enter /\ ~Leave /\ ~Verify => expanding' = expanding
    BY DEF Next, vars, NextEvent, RefuseAction, Fail, Write, Step, Emit, SelectBinding,
         StartProcess, RefuseEntry, ListActions, ListChildren, RefuseChild,
         EmitProcessAction, RefuseDelayed, Draw, RefuseDraw, Exhaust, EndCycle, Finish
  <2> QED
    BY <2>1, <2>2, <2>3, <2>4 DEF TypeOK, InManifest
<1> QED
  BY <1>1, <1>2, <1>3, <1>4

(* The state is of the type that each part of it is read with, and no      *)
(* cycle and no execution counts past its limit.                           *)
THEOREM TypeCorrect == Spec => []TypeOK
<1> DEFINE Inv == Given /\ InManifest /\ Limits /\ TypeOK
<1>1. Init => Inv
  <2> SUFFICES ASSUME Init PROVE Inv
    OBVIOUS
  <2>1. /\ pass = 1 /\ status = "idle" /\ DOMAIN writes = {} /\ expanding = {} /\ work = <<>>
        /\ steps = 0 /\ total = 0 /\ manifest \in Manifests /\ words \in Words
        /\ state = Start(manifest, trace) /\ snapshot = Start(manifest, trace)
    BY DEF Init
  <2>2. manifest.maximum \in Nat /\ MaxTotal \in Nat
    BY <2>1, ManifestAssumption, LimitAssumption DEF WellFormed
  <2>3. DOMAIN Start(manifest, trace) = DOMAIN manifest.vars
    BY DEF Start
  <2>4. Given /\ InManifest /\ Limits
    BY <2>1, <2>2 DEF Given, InManifest, Limits, IsList, Items
  <2>5. TypeOK
    BY <2>1, <2>2, <2>3 DEF TypeOK, Ends, Items
  <2> QED
    BY <2>4, <2>5
<1>2. Inv /\ [Next]_vars => Inv'
  <2> SUFFICES ASSUME Inv, [Next]_vars PROVE Inv'
    OBVIOUS
  <2>1. manifest' = manifest /\ Given'
    BY InputsStay DEF Given
  <2>2. Limits' /\ InManifest' /\ {w.op : w \in Items(work')} \subseteq Ops /\ status' \in Ends
    BY LimitsStep, StackStep, StatusStep
  <2>3. TypeOK'
    BY <2>1, <2>2, OthersTyped DEF TypeOK, Limits, Ops
  <2> QED
    BY <2>1, <2>2, <2>3
<1>3. Inv => TypeOK
  OBVIOUS
<1> QED
  BY <1>1, <1>2, <1>3, PTL DEF Spec
=============================================================================
