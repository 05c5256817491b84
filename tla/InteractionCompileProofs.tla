---------------------- MODULE InteractionCompileProofs ----------------------
(* Theorems about the interaction compiler for every set of packages: how  *)
(* many interactions, configurations, keys and ranges they have does not   *)
(* matter.                                                                 *)
EXTENDS InteractionCompile, TLAPS

(* The state keeps its type, whatever the packages declare: what is        *)
(* compiled has MIDI keys and ranges, and only voices are deferred.        *)
THEOREM TypeCorrect == Spec => []TypeOK
<1>1. Init => TypeOK
  <2> SUFFICES ASSUME Init PROVE TypeOK
    OBVIOUS
  <2>1. input \in Seq(Interaction) /\ Len(input) \in Nat
    BY InputsAreInteractions DEF Init
  <2>2. <<>> \in Seq(DOMAIN input) /\ DOMAIN <<>> = {}
    OBVIOUS
  <2>3. i \in 0..(Len(input) + 1)
    BY <2>1 DEF Init
  <2> QED
    BY <2>1, <2>2, <2>3 DEF Init, TypeOK
<1>2. TypeOK /\ [Next]_vars => TypeOK'
  <2> SUFFICES ASSUME TypeOK, [Next]_vars PROVE TypeOK'
    OBVIOUS
  <2> USE DEF TypeOK
  <2>1. CASE CompileToggle
    <3>1. i \in DOMAIN input /\ input[i] \in Interaction /\ input[i].binding = "host-toggle"
      BY <2>1 DEF CompileToggle, At
    <3>2. input[i].config \in Config \cup {NoConfig}
      BY <3>1 DEF Interaction, Toggle, Note, Scoped, Other
    <3> QED
      BY <2>1, <3>1, <3>2 DEF CompileToggle, At, ToggleFits, Refuse
  <2>2. CASE CompileGate
    <3>1. i \in DOMAIN input /\ i \in Nat
      BY <2>2 DEF CompileGate, At
    <3> QED
      BY <2>2, <3>1 DEF CompileGate, At, GateFits, Refuse, GateType
  <2>3. CASE DeferVoice
    <3>1. i \in DOMAIN input /\ input[i].binding = "internal-scoped-voice"
      BY <2>3 DEF DeferVoice, At
    <3>2. deferred' \in Seq(DOMAIN input)
      BY <2>3, <3>1 DEF DeferVoice, At
    <3>3. \A n \in DOMAIN deferred' : input[deferred'[n]].binding = "internal-scoped-voice"
      BY <2>3, <3>1 DEF DeferVoice, At
    <3> QED
      BY <2>3, <3>1, <3>2, <3>3 DEF DeferVoice, At
  <2>4. CASE RefuseOther
    BY <2>4 DEF RefuseOther, At, Refuse
  <2>5. CASE BeginVoices
    BY <2>5 DEF BeginVoices
  <2>6. CASE CompileVoice
    <3> DEFINE n == Head(deferred)
    <3>1. n \in DOMAIN input /\ n \in Nat /\ input[n] \in Interaction
      BY <2>6 DEF CompileVoice
    <3>2. input[n].binding = "internal-scoped-voice"
      BY <2>6 DEF CompileVoice
    <3>3. deferred' \in Seq(DOMAIN input)
      BY <2>6 DEF CompileVoice
    <3>4. \A k \in DOMAIN deferred' : input[deferred'[k]].binding = "internal-scoped-voice"
      <4> SUFFICES ASSUME NEW k \in DOMAIN deferred'
                   PROVE  input[deferred'[k]].binding = "internal-scoped-voice"
        OBVIOUS
      <4>1. k + 1 \in DOMAIN deferred /\ deferred'[k] = deferred[k + 1]
        BY <2>6 DEF CompileVoice
      <4> QED
        BY <4>1
    <3>5. \A g \in gates : VoiceFits(input[n], g) => Plan(n, g) \in VoiceType
      BY <3>1 DEF VoiceFits, Usable, Plan, VoiceType, GateType
    <3>6. voices' \subseteq VoiceType /\ refused' \subseteq DOMAIN input
      BY <2>6, <3>1, <3>5 DEF CompileVoice, Refuse
    <3> QED
      BY <2>6, <3>3, <3>4, <3>6 DEF CompileVoice
  <2>7. CASE Finish
    BY <2>7 DEF Finish
  <2>8. CASE UNCHANGED vars
    BY <2>8 DEF vars
  <2> QED
    BY <2>1, <2>2, <2>3, <2>4, <2>5, <2>6, <2>7, <2>8 DEF Next
<1> QED
  BY <1>1, <1>2, PTL DEF Spec

(* Only CompileVoice adds a voice, and all it adds fits a gate.            *)
LEMMA VoicesGrow ==
  ASSUME TypeOK, [Next]_vars
  PROVE  \/ voices' = voices
         \/ /\ gates' = gates /\ selections' = selections
            /\ \E n \in Nat : \E g \in gates :
                 /\ VoiceFits(input[n], g) /\ Plan(n, g) \in VoiceType
                 /\ voices' = voices \cup {Plan(n, g)}
<1>1. CASE CompileVoice
  <2> DEFINE n == Head(deferred)
  <2>1. n \in Nat
    BY <1>1 DEF CompileVoice, TypeOK
  <2>2. \A g \in gates : VoiceFits(input[n], g) => Plan(n, g) \in VoiceType
    BY <2>1 DEF VoiceFits, Usable, Plan, VoiceType, GateType, TypeOK
  <2> QED
    BY <1>1, <2>1, <2>2 DEF CompileVoice
<1>2. CASE ~CompileVoice
  BY <1>2 DEF Next, vars, CompileToggle, CompileGate, DeferVoice, RefuseOther,
              BeginVoices, Finish, At
<1> QED
  BY <1>1, <1>2

(* A key at some velocity starts at most one voice of a configuration: the *)
(* check of a new range against those of its configuration and key is      *)
(* enough, although each is only compared with those compiled before it.   *)
THEOREM OneVoice == Spec => []OneVoicePerStroke
<1>1. Init => OneVoicePerStroke
  BY DEF Init, OneVoicePerStroke
<1>2. TypeOK /\ OneVoicePerStroke /\ [Next]_vars => OneVoicePerStroke'
  <2> SUFFICES ASSUME TypeOK, OneVoicePerStroke, [Next]_vars
               PROVE  OneVoicePerStroke'
    OBVIOUS
  <2>1. CASE voices' = voices
    BY <2>1 DEF OneVoicePerStroke
  <2>2. ASSUME NEW n \in Nat, NEW g \in gates,
               VoiceFits(input[n], g), Plan(n, g) \in VoiceType,
               voices' = voices \cup {Plan(n, g)}
        PROVE  OneVoicePerStroke'
    <3> DEFINE p == Plan(n, g)
    <3>1. \A v \in voices : v.config = p.config /\ v.key = p.key
                              => ~(p.lo <= v.hi /\ v.lo <= p.hi)
      BY <2>2 DEF VoiceFits, Apart, Plan
    <3>2. \A v \in voices : v.lo \in Int /\ v.hi \in Int
      <4> SUFFICES ASSUME NEW v \in voices PROVE v.lo \in Midi /\ v.hi \in Midi
        BY DEF Midi
      <4>1. v \in VoiceType
        BY DEF TypeOK
      <4> QED
        BY <4>1 DEF VoiceType
    <3>3. p.lo \in Int /\ p.hi \in Int
      BY <2>2 DEF VoiceType, Midi
    <3> HIDE DEF p
    <3>4. \A v \in voices : v.config = p.config /\ v.key = p.key =>
            \A velocity \in Midi : ~(velocity \in v.lo..v.hi /\ velocity \in p.lo..p.hi)
      BY <3>1, <3>2, <3>3 DEF Midi
    <3>5. voices' = voices \cup {p}
      BY <2>2 DEF p
    <3> QED
      BY <3>4, <3>5 DEF OneVoicePerStroke
  <2> QED
    BY <2>1, <2>2, VoicesGrow
<1> QED
  BY <1>1, <1>2, TypeCorrect, PTL DEF Spec

(* Every compiled voice can be reached: its configuration has a selection  *)
(* and its gate is the one that its key opens.                             *)
THEOREM Reachable == Spec => []VoicesAreReachable
<1>1. Init => VoicesAreReachable
  BY DEF Init, VoicesAreReachable
<1>2. TypeOK /\ VoicesAreReachable /\ [Next]_vars => VoicesAreReachable'
  <2> SUFFICES ASSUME TypeOK, VoicesAreReachable, [Next]_vars
               PROVE  VoicesAreReachable'
    OBVIOUS
  <2>1. selections \subseteq selections' /\ gates \subseteq gates'
    BY DEF Next, vars, CompileToggle, CompileGate, DeferVoice, RefuseOther,
           BeginVoices, CompileVoice, Finish, At
  <2>2. \A g, h \in gates' : g.key = h.key => g = h
    <3>1. CASE CompileGate
      BY <3>1 DEF CompileGate, GateFits, VoicesAreReachable
    <3>2. CASE ~CompileGate
      BY <3>2 DEF Next, vars, CompileToggle, DeferVoice, RefuseOther,
                  BeginVoices, CompileVoice, Finish, At, VoicesAreReachable
    <3> QED
      BY <3>1, <3>2
  <2>3. CASE voices' = voices
    BY <2>1, <2>2, <2>3 DEF VoicesAreReachable
  <2>4. ASSUME NEW n \in Nat, NEW g \in gates,
               VoiceFits(input[n], g), Plan(n, g) \in VoiceType,
               voices' = voices \cup {Plan(n, g)}
        PROVE  VoicesAreReachable'
    <3>1. Plan(n, g).config \in selections
      BY <2>4 DEF VoiceFits, Plan
    <3>2. [id |-> Plan(n, g).gate, key |-> Plan(n, g).key] \in gates
      BY DEF Plan, TypeOK, GateType
    <3> QED
      BY <2>1, <2>2, <2>4, <3>1, <3>2 DEF VoicesAreReachable
  <2> QED
    BY <2>3, <2>4, VoicesGrow
<1> QED
  BY <1>1, <1>2, TypeCorrect, PTL DEF Spec

-----------------------------------------------------------------------------
(* The interactions that one of the two passes has dealt with, and those   *)
(* the first pass has put aside.                                           *)
Passed == {n \in DOMAIN input : i = 0 \/ n < i}
Waiting(n) == \E k \in DOMAIN deferred : deferred[k] = n

Compiled(v) ==
  LET e == input[v.id] IN
  /\ e.binding = "internal-scoped-voice"
  /\ v.gate = e.gate /\ v.config = e.config
  /\ v.lo = e.minVelocity /\ v.hi = e.maxVelocity
  /\ Usable(e) /\ InScope(e, v.key)

(* What was compiled comes from interactions that were passed.             *)
SelectionsHaveToggles ==
  \A c \in selections :
    \E t \in Passed : input[t].binding = "host-toggle" /\ input[t].config = c
GatesHaveNotes ==
  \A g \in gates :
    g.id \in Passed /\ input[g.id].binding = "host-note-gate" /\ input[g.id].key = g.key
VoicesHaveInteractions ==
  \A v \in voices : v.id \in Passed /\ ~Waiting(v.id) /\ Compiled(v)

(* Every voice is put aside once, and none is left at the end.             *)
Queue ==
  /\ \A k \in DOMAIN deferred : deferred[k] \in Passed
  /\ \A j, k \in DOMAIN deferred : deferred[j] = deferred[k] => j = k
  /\ done => i = 0 /\ deferred = <<>>

(* While nothing is refused, all that was passed has been compiled.        *)
Accepted(n) ==
  LET e == input[n] IN
  /\ e.binding # "other"
  /\ e.binding = "host-toggle" => e.config # NoConfig /\ e.policy /\ e.config \in selections
  /\ e.binding = "host-note-gate" =>
       e.key \in Midi /\ e.component /\ e.policy /\ [id |-> n, key |-> e.key] \in gates
  /\ e.binding = "internal-scoped-voice" => Waiting(n) \/ \E v \in voices : v.id = n
Kept ==
  refused = {} =>
    /\ \A n \in Passed : Accepted(n)
    /\ \A s, t \in Passed :
         /\ input[s].binding = "host-toggle" /\ input[t].binding = "host-toggle"
         /\ input[s].config = input[t].config
         => s = t

Lenient == Complete /\ Unambiguous => refused = {}

CompileInv ==
  /\ TypeOK /\ VoicesAreReachable /\ OneVoicePerStroke
  /\ SelectionsHaveToggles /\ GatesHaveNotes /\ VoicesHaveInteractions
  /\ Queue /\ Kept /\ Lenient

LEMMA FirstPass ==
  ASSUME TypeOK, NEW b, At(b)
  PROVE  /\ i \in DOMAIN input /\ input[i].binding = b /\ i \notin Passed
         /\ Passed' = Passed \cup {i}
         /\ input' = input /\ voices' = voices /\ done' = done
BY DEF TypeOK, At, Passed

LEMMA LaterPass ==
  ASSUME TypeOK, BeginVoices \/ CompileVoice \/ Finish \/ UNCHANGED vars
  PROVE  Passed' = Passed /\ input' = input /\ selections' = selections /\ gates' = gates
<1>1. CASE BeginVoices
  BY <1>1 DEF BeginVoices, TypeOK, Passed
<1>2. CASE CompileVoice \/ Finish \/ UNCHANGED vars
  BY <1>2 DEF CompileVoice, Finish, vars, Passed
<1> QED
  BY <1>1, <1>2

LEMMA StepSelections ==
  ASSUME CompileInv, [Next]_vars PROVE SelectionsHaveToggles'
<1> USE DEF CompileInv, SelectionsHaveToggles
<1>1. CASE CompileToggle
  <2>1. At("host-toggle")
    BY <1>1 DEF CompileToggle
  <2>2. selections' \subseteq selections \cup {input[i].config}
    BY <1>1 DEF CompileToggle
  <2> QED
    BY <2>1, <2>2, FirstPass
<1>2. CASE CompileGate \/ DeferVoice \/ RefuseOther
  <2>1. selections' = selections
    BY <1>2 DEF CompileGate, DeferVoice, RefuseOther
  <2>2. Passed \subseteq Passed' /\ input' = input
    BY <1>2, FirstPass DEF CompileGate, DeferVoice, RefuseOther
  <2> QED
    BY <2>1, <2>2
<1>3. CASE BeginVoices \/ CompileVoice \/ Finish \/ UNCHANGED vars
  BY <1>3, LaterPass
<1> QED
  BY <1>1, <1>2, <1>3 DEF Next

LEMMA StepGates ==
  ASSUME CompileInv, [Next]_vars PROVE GatesHaveNotes'
<1> USE DEF CompileInv, GatesHaveNotes
<1>1. CASE CompileGate
  <2>1. At("host-note-gate")
    BY <1>1 DEF CompileGate
  <2>2. gates' \subseteq gates \cup {[id |-> i, key |-> input[i].key]}
    BY <1>1 DEF CompileGate
  <2> QED
    BY <2>1, <2>2, FirstPass
<1>2. CASE CompileToggle \/ DeferVoice \/ RefuseOther
  <2>1. gates' = gates
    BY <1>2 DEF CompileToggle, DeferVoice, RefuseOther
  <2>2. Passed \subseteq Passed' /\ input' = input
    BY <1>2, FirstPass DEF CompileToggle, DeferVoice, RefuseOther
  <2> QED
    BY <2>1, <2>2
<1>3. CASE BeginVoices \/ CompileVoice \/ Finish \/ UNCHANGED vars
  BY <1>3, LaterPass
<1> QED
  BY <1>1, <1>2, <1>3 DEF Next

LEMMA StepQueue ==
  ASSUME CompileInv, [Next]_vars PROVE Queue'
<1> USE DEF CompileInv
<1>0. /\ deferred \in Seq(DOMAIN input) /\ Len(deferred) \in Nat
      /\ i \in 0..(Len(input) + 1)
  BY DEF TypeOK
<1>1. CASE DeferVoice
  <2>1. At("internal-scoped-voice") /\ deferred' = Append(deferred, i)
    BY <1>1 DEF DeferVoice
  <2>2. i \notin Passed /\ Passed' = Passed \cup {i} /\ i \in DOMAIN input /\ done' = done
    BY <2>1, FirstPass
  <2>3. ~done
    BY <1>1 DEF DeferVoice, At, Queue, TypeOK
  <2>4. /\ DOMAIN deferred' = DOMAIN deferred \cup {Len(deferred) + 1}
        /\ deferred'[Len(deferred) + 1] = i
        /\ \A k \in DOMAIN deferred : deferred'[k] = deferred[k]
    BY <1>0, <2>1, <2>2
  <2> QED
    BY <2>2, <2>3, <2>4 DEF Queue
<1>2. CASE CompileVoice
  <2>1. deferred # <<>> /\ deferred' = Tail(deferred) /\ ~done /\ done' = done
    BY <1>2 DEF CompileVoice, Queue
  <2>2. \A k \in DOMAIN deferred' :
          k \in Nat /\ k + 1 \in DOMAIN deferred /\ deferred'[k] = deferred[k + 1]
    BY <1>0, <2>1
  <2>3. Passed' = Passed
    BY <1>2, LaterPass
  <2>4. \A k \in DOMAIN deferred' : deferred'[k] \in Passed'
    BY <2>2, <2>3 DEF Queue
  <2>5. ASSUME NEW j \in DOMAIN deferred', NEW k \in DOMAIN deferred', deferred'[j] = deferred'[k]
        PROVE  j = k
    <3>1. j + 1 = k + 1
      BY <2>2, <2>5 DEF Queue
    <3> QED
      BY <2>2, <3>1
  <2> QED
    BY <2>1, <2>4, <2>5 DEF Queue
<1>3. CASE Finish
  BY <1>3 DEF Finish, Queue, Passed
<1>4. CASE BeginVoices
  <2>1. ~done
    BY <1>0, <1>4 DEF BeginVoices, Queue, TypeOK
  <2> QED
    BY <1>4, <2>1, LaterPass DEF BeginVoices, Queue
<1>5. CASE CompileToggle \/ CompileGate \/ RefuseOther
  <2>1. Passed \subseteq Passed' /\ deferred' = deferred /\ done' = done /\ i \in DOMAIN input
    BY <1>5, FirstPass DEF CompileToggle, CompileGate, RefuseOther
  <2>2. ~done
    BY <2>1 DEF Queue, TypeOK
  <2> QED
    BY <2>1, <2>2 DEF Queue
<1>6. CASE UNCHANGED vars
  BY <1>6 DEF vars, Queue, Passed
<1> QED
  BY <1>1, <1>2, <1>3, <1>4, <1>5, <1>6 DEF Next

(* The head of the queue waits for nobody else once it is taken.           *)
LEMMA TakenFromQueue ==
  ASSUME CompileInv, CompileVoice, NEW h, h = Head(deferred)
  PROVE  /\ h \in Passed /\ Waiting(h) /\ ~Waiting(h)'
         /\ input[h].binding = "internal-scoped-voice"
         /\ \A n : Waiting(n) /\ n # h <=> Waiting(n)'
<1> USE DEF CompileInv
<1>0. deferred \in Seq(DOMAIN input) /\ Len(deferred) \in Nat
  BY DEF TypeOK
<1>1. deferred # <<>> /\ deferred' = Tail(deferred)
  BY DEF CompileVoice
<1>2. 1 \in DOMAIN deferred /\ deferred[1] = h
  BY <1>0, <1>1
<1>3. /\ \A k \in DOMAIN deferred' :
           k \in Nat /\ k # 0 /\ k + 1 \in DOMAIN deferred /\ deferred'[k] = deferred[k + 1]
      /\ \A k \in DOMAIN deferred : k # 1 => k - 1 \in DOMAIN deferred' /\ deferred'[k - 1] = deferred[k]
  <2>1. Len(deferred') = Len(deferred) - 1 /\ Len(deferred) >= 1
    BY <1>0, <1>1
  <2>2. DOMAIN deferred = 1..Len(deferred) /\ DOMAIN deferred' = 1..(Len(deferred) - 1)
    BY <1>0, <1>1, <2>1
  <2>3. \A k \in 1..(Len(deferred) - 1) : deferred'[k] = deferred[k + 1]
    BY <1>0, <1>1
  <2>4. ASSUME NEW k \in DOMAIN deferred, k # 1
        PROVE  k - 1 \in 1..(Len(deferred) - 1) /\ (k - 1) + 1 = k
    BY <1>0, <2>2, <2>4
  <2>5. ASSUME NEW k \in DOMAIN deferred, k # 1
        PROVE  k - 1 \in DOMAIN deferred' /\ deferred'[k - 1] = deferred[k]
    BY <2>2, <2>3, <2>4, <2>5
  <2> QED
    BY <1>0, <2>2, <2>3, <2>5
<1>4. h \in Passed /\ Waiting(h)
  BY <1>2 DEF Queue, Waiting
<1>5. input[h].binding = "internal-scoped-voice"
  BY <1>2 DEF TypeOK
<1>6. ASSUME Waiting(h)' PROVE FALSE
  <2>1. PICK k \in DOMAIN deferred' : deferred'[k] = h
    BY <1>6, <1>1 DEF Waiting
  <2>2. k + 1 = 1
    BY <1>2, <1>3, <2>1 DEF Queue
  <2> QED
    BY <1>3, <2>1, <2>2
<1>7. ASSUME NEW n, Waiting(n), n # h PROVE Waiting(n)'
  <2>1. PICK k \in DOMAIN deferred : deferred[k] = n
    BY <1>7 DEF Waiting
  <2>2. k # 1
    BY <1>2, <1>7, <2>1
  <2> QED
    BY <1>3, <2>1, <2>2 DEF Waiting
<1>8. ASSUME NEW n, Waiting(n)' PROVE Waiting(n) /\ n # h
  <2>1. PICK k \in DOMAIN deferred' : deferred'[k] = n
    BY <1>8 DEF Waiting
  <2>2. Waiting(n)
    BY <1>3, <2>1 DEF Waiting
  <2> QED
    BY <1>6, <1>8, <2>2
<1> QED
  BY <1>4, <1>5, <1>6, <1>7, <1>8

LEMMA PutAside ==
  ASSUME TypeOK, DeferVoice, NEW n
  PROVE  Waiting(n)' <=> Waiting(n) \/ n = i
<1>1. i \in DOMAIN input /\ deferred' = Append(deferred, i) /\ deferred \in Seq(DOMAIN input)
  BY DEF DeferVoice, At, TypeOK
<1>2. /\ DOMAIN deferred' = DOMAIN deferred \cup {Len(deferred) + 1}
      /\ deferred'[Len(deferred) + 1] = i
      /\ \A k \in DOMAIN deferred : deferred'[k] = deferred[k]
  BY <1>1
<1> QED
  BY <1>2 DEF Waiting

(* What a step that compiles a voice does, and one that refuses it.        *)
LEMMA VoiceTaken ==
  ASSUME CompileInv, CompileVoice, NEW h, h = Head(deferred)
  PROVE  \/ /\ refused' = refused
            /\ \E g \in gates : VoiceFits(input[h], g) /\ voices' = voices \cup {Plan(h, g)}
         \/ /\ \A g \in gates : ~VoiceFits(input[h], g)
            /\ refused' = refused \cup {h} /\ voices' = voices
BY DEF CompileVoice, Refuse

LEMMA StepVoices ==
  ASSUME CompileInv, [Next]_vars PROVE VoicesHaveInteractions'
<1> USE DEF CompileInv, VoicesHaveInteractions
<1>1. CASE CompileVoice
  <2>1. PICK h : h = Head(deferred)
    OBVIOUS
  <2>2. /\ h \in Passed /\ ~Waiting(h)' /\ input[h].binding = "internal-scoped-voice"
        /\ \A n : Waiting(n)' => Waiting(n)
    BY <1>1, <2>1, TakenFromQueue
  <2>3. Passed' = Passed /\ input' = input
    BY <1>1, LaterPass
  <2>4. \A v \in voices : v.id \in Passed /\ ~Waiting(v.id)' /\ Compiled(v)'
    BY <2>2, <2>3 DEF Compiled
  <2>5. ASSUME NEW g \in gates, VoiceFits(input[h], g)
        PROVE  Plan(h, g).id = h /\ Compiled(Plan(h, g))
    BY <2>2, <2>5 DEF VoiceFits, Plan, Compiled
  <2>6. CASE voices' = voices
    BY <2>3, <2>4, <2>6
  <2>7. ASSUME NEW g \in gates, VoiceFits(input[h], g), voices' = voices \cup {Plan(h, g)}
        PROVE  VoicesHaveInteractions'
    <3> SUFFICES ASSUME NEW v \in voices' PROVE v.id \in Passed' /\ ~Waiting(v.id)' /\ Compiled(v)'
      OBVIOUS
    <3>1. CASE v \in voices
      BY <2>3, <2>4, <3>1
    <3>2. CASE v = Plan(h, g)
      <4>1. v.id = h /\ Compiled(v)
        BY <2>5, <2>7, <3>2
      <4> QED
        BY <2>2, <2>3, <4>1 DEF Compiled
    <3> QED
      BY <2>7, <3>1, <3>2
  <2> QED
    BY <1>1, <2>1, <2>6, <2>7, VoiceTaken
<1>2. CASE DeferVoice
  <2>1. /\ Passed' = Passed \cup {i} /\ i \notin Passed /\ input' = input /\ voices' = voices
    BY <1>2, FirstPass DEF DeferVoice
  <2> SUFFICES ASSUME NEW v \in voices PROVE v.id \in Passed' /\ ~Waiting(v.id)' /\ Compiled(v)'
    BY <2>1
  <2>2. v.id \in Passed /\ ~Waiting(v.id) /\ Compiled(v)
    OBVIOUS
  <2>3. ~Waiting(v.id)'
    BY <1>2, <2>1, <2>2, PutAside
  <2> QED
    BY <2>1, <2>2, <2>3 DEF Compiled
<1>3. ASSUME Passed \subseteq Passed', UNCHANGED <<input, voices, deferred>>
      PROVE  VoicesHaveInteractions'
  BY <1>3 DEF Waiting, Compiled
<1>4. CASE CompileToggle \/ CompileGate \/ RefuseOther
  BY <1>3, <1>4, FirstPass DEF CompileToggle, CompileGate, RefuseOther
<1>5. CASE BeginVoices \/ Finish \/ UNCHANGED vars
  BY <1>3, <1>5, LaterPass DEF BeginVoices, Finish, vars
<1> QED
  BY <1>1, <1>2, <1>4, <1>5 DEF Next

LEMMA StepKept ==
  ASSUME CompileInv, [Next]_vars PROVE Kept'
<1> SUFFICES ASSUME refused' = {}
             PROVE  /\ \A n \in Passed' : Accepted(n)'
                    /\ \A s, t \in Passed' :
                         /\ input'[s].binding = "host-toggle" /\ input'[t].binding = "host-toggle"
                         /\ input'[s].config = input'[t].config
                         => s = t
  BY DEF Kept
<1> USE DEF CompileInv
<1>1. refused = {}
  BY DEF Next, vars, CompileToggle, CompileGate, DeferVoice, RefuseOther, BeginVoices, CompileVoice,
         Finish, Refuse
<1>2. /\ \A n \in Passed : Accepted(n)
      /\ \A s, t \in Passed :
           /\ input[s].binding = "host-toggle" /\ input[t].binding = "host-toggle"
           /\ input[s].config = input[t].config
           => s = t
  BY <1>1 DEF Kept
<1>3. /\ input' = input /\ selections \subseteq selections' /\ gates \subseteq gates'
      /\ voices \subseteq voices'
  BY DEF Next, vars, CompileToggle, CompileGate, DeferVoice, RefuseOther, BeginVoices, CompileVoice,
         Finish, At
<1>4. ASSUME NEW n \in Passed, Waiting(n) => Waiting(n)' \/ \E v \in voices' : v.id = n
      PROVE  Accepted(n)'
  BY <1>2, <1>3, <1>4 DEF Accepted
<1>11. PICK j : j = i
  OBVIOUS
<1>5. CASE CompileToggle
  <2>1. /\ input[i].binding = "host-toggle" /\ Passed' = Passed \cup {i} /\ deferred' = deferred
    BY <1>5, FirstPass DEF CompileToggle
  <2>2. ToggleFits(input[i]) /\ selections' = selections \cup {input[i].config}
    BY <1>5 DEF CompileToggle, Refuse
  <2>3. Accepted(j)'
    BY <1>3, <1>11, <2>1, <2>2 DEF Accepted, ToggleFits
  <2>4. \A n \in Passed : Accepted(n)'
    BY <1>4, <2>1 DEF Waiting
  <2>5. \A t \in Passed : input[t].binding = "host-toggle" => input[t].config # input[i].config
    BY <1>2, <2>2 DEF Accepted, ToggleFits
  <2> QED
    BY <1>2, <1>3, <1>11, <2>1, <2>3, <2>4, <2>5
<1>6. CASE CompileGate
  <2>1. input[i].binding = "host-note-gate" /\ Passed' = Passed \cup {i} /\ deferred' = deferred
    BY <1>6, FirstPass DEF CompileGate
  <2>2. GateFits(input[i]) /\ gates' = gates \cup {[id |-> i, key |-> input[i].key]}
    BY <1>6 DEF CompileGate, Refuse
  <2>3. Accepted(j)'
    BY <1>3, <1>11, <2>1, <2>2 DEF Accepted, GateFits
  <2>4. \A n \in Passed : Accepted(n)'
    BY <1>4, <2>1 DEF Waiting
  <2> QED
    BY <1>2, <1>3, <1>11, <2>1, <2>3, <2>4
<1>7. CASE DeferVoice
  <2>1. input[i].binding = "internal-scoped-voice" /\ Passed' = Passed \cup {i}
    BY <1>7, FirstPass DEF DeferVoice
  <2>2. \A n : Waiting(n)' <=> Waiting(n) \/ n = i
    BY <1>7, PutAside
  <2>3. Accepted(j)'
    BY <1>3, <1>11, <2>1, <2>2 DEF Accepted
  <2>4. \A n \in Passed : Accepted(n)'
    BY <1>4, <2>2
  <2> QED
    BY <1>2, <1>3, <1>11, <2>1, <2>3, <2>4
<1>8. CASE RefuseOther
  BY <1>8 DEF RefuseOther, Refuse
<1>9. CASE CompileVoice
  <2>1. PICK h : h = Head(deferred)
    OBVIOUS
  <2>2. \A n : Waiting(n) /\ n # h <=> Waiting(n)'
    BY <1>9, <2>1, TakenFromQueue
  <2>3. PICK g \in gates : voices' = voices \cup {Plan(h, g)}
    BY <1>9, <2>1, VoiceTaken
  <2>4. \E v \in voices' : v.id = h
    <3>1. Plan(h, g) \in voices'
      BY <2>3
    <3>2. Plan(h, g).id = h
      BY DEF Plan
    <3> QED
      BY <3>1, <3>2
  <2>5. \A n \in Passed : Accepted(n)'
    BY <1>4, <2>2, <2>4
  <2> QED
    BY <1>2, <1>3, <1>9, <2>5, LaterPass
<1>10. CASE BeginVoices \/ Finish \/ UNCHANGED vars
  <2>1. Passed' = Passed /\ deferred' = deferred
    BY <1>10, LaterPass DEF BeginVoices, Finish, vars
  <2>2. \A n \in Passed : Accepted(n)'
    BY <1>4, <2>1 DEF Waiting
  <2> QED
    BY <1>2, <1>3, <2>1, <2>2
<1> QED
  BY <1>5, <1>6, <1>7, <1>8, <1>9, <1>10 DEF Next

(* A complete and unambiguous voice is never refused: what it needs has    *)
(* been compiled, and what was compiled before it leaves it room.          *)
LEMMA VoiceIsTaken ==
  ASSUME CompileInv, Complete, Unambiguous, refused = {}, CompileVoice, NEW h, h = Head(deferred)
  PROVE  \E g \in gates : VoiceFits(input[h], g)
<1> USE DEF CompileInv
<1>1. h \in Passed /\ Waiting(h) /\ input[h].binding = "internal-scoped-voice" /\ i = 0
  BY TakenFromQueue DEF CompileVoice
<1>2. Passed = DOMAIN input
  BY <1>1 DEF Passed
<1>3. \A n \in DOMAIN input : Accepted(n)
  BY <1>2 DEF Kept
<1> DEFINE e == input[h]
<1>4. h \in Places("internal-scoped-voice")
  BY <1>1, <1>2 DEF Places
<1>5. Usable(e) /\ e.gate \in Places("host-note-gate") /\ InScope(e, input[e.gate].key)
  BY <1>4 DEF Complete
<1>6. e.config \in selections
  <2>1. PICK t \in Places("host-toggle") : input[t].config = e.config
    BY <1>4 DEF Complete
  <2> QED
    BY <1>3, <2>1 DEF Places, Accepted
<1> DEFINE k == input[e.gate].key
           g == [id |-> e.gate, key |-> k]
<1>7. g \in gates
  BY <1>3, <1>5 DEF Places, Accepted
<1>8. Apart(e, k)
  <2> SUFFICES ASSUME NEW v \in voices, v.config = e.config, v.key = k,
                      e.minVelocity <= v.hi, v.lo <= e.maxVelocity
               PROVE  FALSE
    BY DEF Apart
  <2>1. v.id \in Passed /\ ~Waiting(v.id) /\ Compiled(v)
    BY DEF VoicesHaveInteractions
  <2> DEFINE d == input[v.id]
  <2>2. /\ d.binding = "internal-scoped-voice" /\ v.id \in DOMAIN input
        /\ v.gate = d.gate /\ v.config = d.config /\ v.lo = d.minVelocity /\ v.hi = d.maxVelocity
        /\ Usable(d)
    BY <2>1 DEF Compiled, Passed
  <2>3. v.id # h
    BY <1>1, <2>1
  <2>4. v.gate = e.gate
    <3>1. v \in VoiceType /\ [id |-> v.gate, key |-> v.key] \in gates
      BY DEF VoicesAreReachable, TypeOK
    <3>2. [id |-> v.gate, key |-> v.key] = g
      BY <1>7, <3>1 DEF VoicesAreReachable
    <3> QED
      BY <3>2
  <2>5. v.id \in Places("internal-scoped-voice") /\ d.gate = e.gate /\ d.config = e.config
    BY <2>2, <2>4 DEF Places
  <2>6. \A velocity \in Midi :
          ~(/\ velocity \in d.minVelocity..d.maxVelocity
            /\ velocity \in e.minVelocity..e.maxVelocity)
    BY <1>4, <2>3, <2>5 DEF Unambiguous
  <2>7. /\ d.minVelocity \in Midi /\ d.maxVelocity \in Midi /\ d.minVelocity <= d.maxVelocity
        /\ e.minVelocity \in Midi /\ e.maxVelocity \in Midi /\ e.minVelocity <= e.maxVelocity
    BY <1>5, <2>2 DEF Usable
  <2>8. e.minVelocity <= d.maxVelocity /\ d.minVelocity <= e.maxVelocity
    BY <2>2
  <2> HIDE DEF d, e
  <2>9. CASE e.minVelocity <= d.minVelocity
    <3>1. /\ d.minVelocity \in d.minVelocity..d.maxVelocity
          /\ d.minVelocity \in e.minVelocity..e.maxVelocity
      BY <2>7, <2>8, <2>9 DEF Midi
    <3> QED
      BY <2>6, <2>7, <3>1
  <2>10. CASE d.minVelocity <= e.minVelocity
    <3>1. /\ e.minVelocity \in d.minVelocity..d.maxVelocity
          /\ e.minVelocity \in e.minVelocity..e.maxVelocity
      BY <2>7, <2>8, <2>10 DEF Midi
    <3> QED
      BY <2>6, <2>7, <3>1
  <2> QED
    BY <2>7, <2>9, <2>10 DEF Midi
<1>9. VoiceFits(e, g)
  BY <1>5, <1>6, <1>8 DEF VoiceFits
<1> QED
  BY <1>7, <1>9

LEMMA StepLenient ==
  ASSUME CompileInv, [Next]_vars PROVE Lenient'
<1>1. input' = input
  BY DEF Next, vars, CompileToggle, CompileGate, DeferVoice, RefuseOther, BeginVoices, CompileVoice,
         Finish, At
<1> SUFFICES ASSUME Complete, Unambiguous PROVE refused' = {}
  BY <1>1 DEF Lenient, Complete, Unambiguous, Places
<1>2. refused = {}
  BY DEF CompileInv, Lenient
<1> USE DEF CompileInv
<1>3. CASE CompileToggle
  <2>1. i \in DOMAIN input /\ input[i].binding = "host-toggle" /\ i \notin Passed
    BY <1>3, FirstPass DEF CompileToggle
  <2>2. i \in Places("host-toggle")
    BY <2>1 DEF Places
  <2>3. \A t \in Passed : input[t].binding = "host-toggle" => input[t].config # input[i].config
    BY <2>1, <2>2 DEF Unambiguous, Places, Passed
  <2>4. input[i].config \notin selections
    BY <2>3 DEF SelectionsHaveToggles
  <2>5. ToggleFits(input[i])
    BY <2>2, <2>4 DEF ToggleFits, Complete
  <2> QED
    BY <1>2, <1>3, <2>5 DEF CompileToggle
<1>4. CASE CompileGate
  <2>1. i \in DOMAIN input /\ input[i].binding = "host-note-gate" /\ i \notin Passed
    BY <1>4, FirstPass DEF CompileGate
  <2>2. i \in Places("host-note-gate")
    BY <2>1 DEF Places
  <2>3. \A g \in Passed : input[g].binding = "host-note-gate" => input[g].key # input[i].key
    BY <2>1, <2>2 DEF Unambiguous, Places, Passed
  <2>4. \A g \in gates : g.key # input[i].key
    BY <2>3 DEF GatesHaveNotes
  <2>5. GateFits(input[i])
    BY <2>2, <2>4 DEF GateFits, Complete
  <2> QED
    BY <1>2, <1>4, <2>5 DEF CompileGate
<1>5. CASE RefuseOther
  <2>1. i \in Places("other")
    BY <1>5 DEF RefuseOther, At, Places
  <2> QED
    BY <2>1 DEF Complete
<1>6. CASE CompileVoice
  <2>1. PICK h : h = Head(deferred)
    OBVIOUS
  <2> QED
    BY <1>2, <1>6, <2>1, VoiceIsTaken, VoiceTaken
<1>7. CASE DeferVoice \/ BeginVoices \/ Finish \/ UNCHANGED vars
  BY <1>2, <1>7 DEF DeferVoice, BeginVoices, Finish, vars
<1> QED
  BY <1>3, <1>4, <1>5, <1>6, <1>7 DEF Next

(* What the final state says of the package as a whole.                    *)
LEMMA SupportedAtTheEnd == CompileInv => SupportedIfUnambiguous
<1> SUFFICES ASSUME CompileInv, done PROVE Supported <=> Complete /\ Unambiguous
  BY DEF SupportedIfUnambiguous
<1> USE DEF CompileInv
<1>1. Complete /\ Unambiguous => Supported
  BY DEF Lenient, Supported
<1>2. ASSUME Supported PROVE Complete /\ Unambiguous
  <2>1. Passed = DOMAIN input /\ \A n : ~Waiting(n)
    <3>1. i = 0 /\ deferred = <<>>
      BY DEF Queue
    <3>2. DOMAIN deferred = {}
      BY <3>1
    <3> QED
      BY <3>1, <3>2 DEF Passed, Waiting
  <2>2. /\ \A n \in DOMAIN input : Accepted(n)
        /\ \A s, t \in DOMAIN input :
             /\ input[s].binding = "host-toggle" /\ input[t].binding = "host-toggle"
             /\ input[s].config = input[t].config
             => s = t
    BY <1>2, <2>1 DEF Kept, Supported
  <2>3. ASSUME NEW n \in Places("internal-scoped-voice")
        PROVE  \E v \in voices :
                 /\ v.id = n /\ Compiled(v) /\ v.config \in selections
                 /\ v.gate \in Places("host-note-gate") /\ input[v.gate].key = v.key
    <3>1. PICK v \in voices : v.id = n
      BY <2>1, <2>2 DEF Places, Accepted
    <3>2. Compiled(v) /\ v.config \in selections /\ [id |-> v.gate, key |-> v.key] \in gates
      BY DEF VoicesHaveInteractions, VoicesAreReachable
    <3>3. /\ v.gate \in Passed /\ input[v.gate].binding = "host-note-gate"
          /\ input[v.gate].key = v.key
      BY <3>2 DEF GatesHaveNotes
    <3> QED
      BY <2>1, <3>1, <3>2, <3>3 DEF Places
  <2>4. Complete
    <3>1. Places("other") = {}
      BY <2>2 DEF Places, Accepted
    <3>2. \A t \in Places("host-toggle") : input[t].config # NoConfig /\ input[t].policy
      BY <2>2 DEF Places, Accepted
    <3>3. \A g \in Places("host-note-gate") :
            input[g].key \in Midi /\ input[g].component /\ input[g].policy
      BY <2>2 DEF Places, Accepted
    <3>4. ASSUME NEW n \in Places("internal-scoped-voice")
          PROVE  /\ Usable(input[n])
                 /\ \E t \in Places("host-toggle") : input[t].config = input[n].config
                 /\ input[n].gate \in Places("host-note-gate")
                 /\ InScope(input[n], input[input[n].gate].key)
      <4>1. PICK v \in voices :
              /\ v.id = n /\ Compiled(v) /\ v.config \in selections
              /\ v.gate \in Places("host-note-gate") /\ input[v.gate].key = v.key
        BY <2>3
      <4>2. \E t \in Places("host-toggle") : input[t].config = v.config
        BY <2>1, <4>1 DEF SelectionsHaveToggles, Places
      <4> QED
        BY <4>1, <4>2 DEF Compiled
    <3> QED
      BY <3>1, <3>2, <3>3, <3>4 DEF Complete
  <2>5. Unambiguous
    <3>1. \A s, t \in Places("host-toggle") : input[s].config = input[t].config => s = t
      BY <2>2 DEF Places
    <3>2. ASSUME NEW g \in Places("host-note-gate"), NEW h \in Places("host-note-gate"),
                 input[g].key = input[h].key
          PROVE  g = h
      <4>1. [id |-> g, key |-> input[g].key] \in gates /\ [id |-> h, key |-> input[h].key] \in gates
        BY <2>2 DEF Places, Accepted
      <4>2. [id |-> g, key |-> input[g].key] = [id |-> h, key |-> input[h].key]
        BY <3>2, <4>1 DEF VoicesAreReachable
      <4> QED
        BY <4>2
    <3>3. ASSUME NEW m \in Places("internal-scoped-voice"), NEW n \in Places("internal-scoped-voice"),
                 m # n, input[m].gate = input[n].gate, input[m].config = input[n].config,
                 NEW velocity \in Midi
          PROVE  ~(/\ velocity \in input[m].minVelocity..input[m].maxVelocity
                   /\ velocity \in input[n].minVelocity..input[n].maxVelocity)
      <4>1. PICK v \in voices : v.id = m /\ Compiled(v) /\ input[v.gate].key = v.key
        BY <2>3
      <4>2. PICK w \in voices : w.id = n /\ Compiled(w) /\ input[w.gate].key = w.key
        BY <2>3
      <4>3. v # w /\ v.key = w.key /\ v.config = w.config
        BY <3>3, <4>1, <4>2 DEF Compiled
      <4>4. ~(velocity \in v.lo..v.hi /\ velocity \in w.lo..w.hi)
        BY <4>3 DEF OneVoicePerStroke
      <4> QED
        BY <4>1, <4>2, <4>4 DEF Compiled
    <3> QED
      BY <3>1, <3>2, <3>3 DEF Unambiguous
  <2> QED
    BY <2>4, <2>5
<1> QED
  BY <1>1, <1>2

(* Although the compiler keeps the first of what conflicts, a package is   *)
(* supported exactly if what it declares is complete and unambiguous,      *)
(* whatever the order of its identifiers (compile_interactions()).         *)
THEOREM Unambiguity == Spec => []SupportedIfUnambiguous
<1>1. Spec => [](TypeOK /\ VoicesAreReachable /\ OneVoicePerStroke)
  BY TypeCorrect, Reachable, OneVoice, PTL
<1> DEFINE Own == /\ SelectionsHaveToggles /\ GatesHaveNotes /\ VoicesHaveInteractions
                  /\ Queue /\ Kept /\ Lenient
<1>2. Init => Own
  <2> SUFFICES ASSUME Init PROVE Own
    OBVIOUS
  <2>1. selections = {} /\ gates = {} /\ voices = {} /\ refused = {} /\ deferred = <<>> /\ ~done
    BY DEF Init
  <2>2. Passed = {} /\ DOMAIN deferred = {}
    <3>1. input \in Seq(Interaction) /\ i = 1
      BY InputsAreInteractions DEF Init
    <3>2. \A n \in DOMAIN input : n \in Nat /\ ~(n < 1)
      BY <3>1
    <3> QED
      BY <2>1, <3>1, <3>2 DEF Passed
  <2> QED
    BY <2>1, <2>2 DEF SelectionsHaveToggles, GatesHaveNotes, VoicesHaveInteractions, Queue, Kept,
                      Lenient
<1>3. (TypeOK /\ VoicesAreReachable /\ OneVoicePerStroke) /\ Own /\ [Next]_vars => Own'
  <2> SUFFICES ASSUME CompileInv, [Next]_vars PROVE Own'
    BY DEF CompileInv
  <2> QED
    BY StepSelections, StepGates, StepVoices, StepQueue, StepKept, StepLenient
<1>4. (TypeOK /\ VoicesAreReachable /\ OneVoicePerStroke) /\ Own => SupportedIfUnambiguous
  BY SupportedAtTheEnd DEF CompileInv
<1> HIDE DEF Own
<1> QED
  BY <1>1, <1>2, <1>3, <1>4, PTL DEF Spec
=============================================================================
