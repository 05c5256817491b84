------------------------- MODULE InteractionCompile -------------------------
(***************************************************************************)
(* compile_interactions() (vao_blender/core/interaction_compile.py): the   *)
(* interactions of a package, in the order of their identifiers become    *)
(* selections, gates and, in a second pass, voices.  An interaction that   *)
(* conflicts with an earlier one is refused with a diagnostic, and any     *)
(* diagnostic makes the bundle unsupported.                                *)
(*                                                                         *)
(* A relation of an interaction is given by what _only() resolves it to:   *)
(* its object if there is exactly one accepted edge, else nothing.  The    *)
(* checks that concern a single playback parameter set are one flag, its   *)
(* key and velocity ranges apart.                                          *)
(***************************************************************************)
EXTENDS Integers, Sequences

CONSTANTS Config, NoConfig,
          Inputs      \* the packages: sequences of interactions

Midi == 0..127

(* An interaction is known by its place; a voice names the place of its    *)
(* gate.                                                                   *)
Toggle == [binding : {"host-toggle"}, config : Config \cup {NoConfig}, policy : BOOLEAN]
Note   == [binding : {"host-note-gate"}, key : Int, component : BOOLEAN, policy : BOOLEAN]
Scoped == [binding : {"internal-scoped-voice"},
           gate : Int, config : Config \cup {NoConfig}, resolved : BOOLEAN,
           domainKey : Int, domainConfig : Config \cup {NoConfig}, settings : BOOLEAN,
           root : Int, minKey : Int, maxKey : Int, minVelocity : Int, maxVelocity : Int]
Other  == [binding : {"other"}]
Interaction == Toggle \cup Note \cup Scoped \cup Other

ASSUME NoConfigIsNoConfig == NoConfig \notin Config
ASSUME InputsAreInteractions == Inputs \subseteq Seq(Interaction)

VARIABLES
  input,       \* the interactions of the package
  i,           \* the one the first pass is at; 0 from the second pass on
  deferred,    \* internal_voices: the voices the second pass is left with
  done,
  selections,  \* configuration_ids
  gates,       \* gates_by_id: places of gates and their keys
  voices,      \* the voice plans, with the key of their gate
  refused      \* interactions with a diagnostic

vars == <<input, i, deferred, done, selections, gates, voices, refused>>

GateType  == [id : Nat, key : Midi]
VoiceType == [id : Nat, gate : Nat, key : Midi, config : Config, lo : Midi, hi : Midi]

TypeOK ==
  /\ input \in Seq(Interaction)
  /\ i \in 0..(Len(input) + 1)
  /\ deferred \in Seq(DOMAIN input)
  /\ \A n \in DOMAIN deferred : input[deferred[n]].binding = "internal-scoped-voice"
  /\ done \in BOOLEAN
  /\ selections \subseteq Config
  /\ gates \subseteq GateType
  /\ voices \subseteq VoiceType
  /\ refused \subseteq DOMAIN input

Init ==
  /\ input \in Inputs
  /\ i = 1 /\ deferred = <<>> /\ done = FALSE
  /\ selections = {} /\ gates = {} /\ voices = {} /\ refused = {}

-----------------------------------------------------------------------------
(* The loop over the interactions.                                         *)
At(binding) ==
  /\ i \in DOMAIN input
  /\ input[i].binding = binding
  /\ i' = i + 1
  /\ UNCHANGED <<input, done, voices>>

Refuse(n) == refused' = refused \cup {n}

(* A toggle selects one configuration, which no other toggle selects.      *)
ToggleFits(e) == e.config # NoConfig /\ e.policy /\ e.config \notin selections

(* Slip: a second toggle of a configuration is passed over in silence.     *)
CompileAnyToggle ==
  /\ At("host-toggle")
  /\ UNCHANGED <<deferred, gates>>
  /\ \/ /\ input[i].config # NoConfig /\ input[i].policy
        /\ selections' = selections \cup {input[i].config}
        /\ UNCHANGED refused
     \/ ~(input[i].config # NoConfig /\ input[i].policy) /\ Refuse(i) /\ UNCHANGED selections

CompileToggle ==
  /\ At("host-toggle")
  /\ UNCHANGED <<deferred, gates>>
  /\ \/ /\ ToggleFits(input[i])
        /\ selections' = selections \cup {input[i].config}
        /\ UNCHANGED refused
     \/ ~ToggleFits(input[i]) /\ Refuse(i) /\ UNCHANGED selections

(* A note gate has a MIDI key of its own.                                  *)
GateFits(e) ==
  /\ e.key \in Midi /\ e.component /\ e.policy
  /\ \A g \in gates : g.key # e.key

CompileGate ==
  /\ At("host-note-gate")
  /\ UNCHANGED <<deferred, selections>>
  /\ \/ /\ GateFits(input[i])
        /\ gates' = gates \cup {[id |-> i, key |-> input[i].key]}
        /\ UNCHANGED refused
     \/ ~GateFits(input[i]) /\ Refuse(i) /\ UNCHANGED gates

DeferVoice ==
  /\ At("internal-scoped-voice")
  /\ deferred' = Append(deferred, i)
  /\ UNCHANGED <<selections, gates, refused>>

RefuseOther ==
  /\ At("other")
  /\ Refuse(i)
  /\ UNCHANGED <<deferred, selections, gates>>

(* The second pass, over the voices that were put aside.                   *)
BeginVoices ==
  /\ i = Len(input) + 1
  /\ i' = 0
  /\ UNCHANGED <<input, deferred, done, selections, gates, voices, refused>>

(* The scope of a voice agrees with its gate, and its ranges hold the key. *)
InScope(e, key) ==
  /\ e.domainKey = key /\ e.domainConfig = e.config
  /\ e.minKey <= e.root /\ e.root <= e.maxKey
  /\ e.minKey <= key /\ key <= e.maxKey

Usable(e) ==
  /\ e.resolved /\ e.settings
  /\ {e.root, e.minKey, e.maxKey, e.minVelocity, e.maxVelocity} \subseteq Midi
  /\ e.minVelocity <= e.maxVelocity

(* Slip: only the lower end of a new range is looked at.                   *)
ApartBelow(e, key) ==
  \A v \in voices : v.config = e.config /\ v.key = key =>
    ~(v.lo <= e.minVelocity /\ e.minVelocity <= v.hi)

Apart(e, key) ==
  \A v \in voices : v.config = e.config /\ v.key = key =>
    ~(e.minVelocity <= v.hi /\ v.lo <= e.maxVelocity)

VoiceFits(e, g) ==
  /\ g.id = e.gate /\ e.config \in selections
  /\ Usable(e) /\ InScope(e, g.key) /\ Apart(e, g.key)

Plan(n, g) ==
  [id |-> n, gate |-> g.id, key |-> g.key, config |-> input[n].config,
   lo |-> input[n].minVelocity, hi |-> input[n].maxVelocity]

CompileVoice ==
  /\ i = 0 /\ deferred # <<>>
  /\ deferred' = Tail(deferred)
  /\ LET n == Head(deferred) IN
     \/ \E g \in gates :
          /\ VoiceFits(input[n], g)
          /\ voices' = voices \cup {Plan(n, g)}
          /\ UNCHANGED refused
     \/ (\A g \in gates : ~VoiceFits(input[n], g)) /\ Refuse(n) /\ UNCHANGED voices
  /\ UNCHANGED <<input, i, done, selections, gates>>

Finish ==
  /\ i = 0 /\ deferred = <<>> /\ ~done
  /\ done' = TRUE
  /\ UNCHANGED <<input, i, deferred, selections, gates, voices, refused>>

Next ==
  \/ CompileToggle \/ CompileGate \/ DeferVoice \/ RefuseOther
  \/ BeginVoices \/ CompileVoice \/ Finish

Spec == Init /\ [][Next]_vars

Supported == refused = {}

-----------------------------------------------------------------------------
(* What the manifest says, without an order: every interaction is complete *)
(* and no two are ambiguous.                                               *)
Places(binding) == {n \in DOMAIN input : input[n].binding = binding}

Complete ==
  /\ Places("other") = {}
  /\ \A t \in Places("host-toggle") : input[t].config # NoConfig /\ input[t].policy
  /\ \A g \in Places("host-note-gate") :
       input[g].key \in Midi /\ input[g].component /\ input[g].policy
  /\ \A v \in Places("internal-scoped-voice") :
       /\ Usable(input[v])
       /\ \E t \in Places("host-toggle") : input[t].config = input[v].config
       /\ input[v].gate \in Places("host-note-gate")
       /\ InScope(input[v], input[input[v].gate].key)

Unambiguous ==
  /\ \A s, t \in Places("host-toggle") : input[s].config = input[t].config => s = t
  /\ \A g, h \in Places("host-note-gate") : input[g].key = input[h].key => g = h
  /\ \A v, w \in Places("internal-scoped-voice") :
       /\ v # w
       /\ input[v].gate = input[w].gate /\ input[v].config = input[w].config
       => \A velocity \in Midi :
            ~(/\ velocity \in input[v].minVelocity..input[v].maxVelocity
              /\ velocity \in input[w].minVelocity..input[w].maxVelocity)

(* docs/ARCHITECTURE.md: "Ambiguity is a compilation error, not            *)
(* first-match behavior."  Although the compiler keeps the first of what   *)
(* conflicts, a package is supported exactly if what it declares is        *)
(* complete and unambiguous, whatever the order of its identifiers.        *)
SupportedIfUnambiguous ==
  done => (Supported <=> Complete /\ Unambiguous)

(* A key at some velocity starts at most one voice of a configuration,     *)
(* also of a bundle that is not supported: open_gate() plays every plan    *)
(* that matches.                                                           *)
OneVoicePerStroke ==
  \A v, w \in voices :
    v # w /\ v.key = w.key /\ v.config = w.config
      => \A velocity \in Midi :
           ~(velocity \in v.lo..v.hi /\ velocity \in w.lo..w.hi)

(* Every voice can be reached: a selection for its configuration and a     *)
(* gate for its key are compiled, and the gate has that key alone.         *)
VoicesAreReachable ==
  /\ \A v \in voices : v.config \in selections /\ [id |-> v.gate, key |-> v.key] \in gates
  /\ \A g, h \in gates : g.key = h.key => g = h
=============================================================================
