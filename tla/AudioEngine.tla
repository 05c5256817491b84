---------------------------- MODULE AudioEngine ----------------------------
(***************************************************************************)
(* The audio engine of one session (vao_blender/blender/audio_engine.py):  *)
(* gates own voices, voices play decoded sounds, and a decoded sound keeps *)
(* its sample file protected in the cache.  Everything runs on Blender's   *)
(* main thread, so a call is not interrupted, but open_gate is split where *)
(* its state matters: while it resolves the sounds of a gate one by one    *)
(* and while it starts them.  Volumes and curves are abstracted to the     *)
(* phase of a voice; a ramp timer may fire its last update at any time.    *)
(*                                                                         *)
(* The module has no specification of its own: Performance calls it.       *)
(***************************************************************************)
EXTENDS Integers, Sequences, FiniteSets, FiniteSetsExt, Functions

CONSTANTS Gate, NoGate, Config, Sound,
          Plans,           \* the compiled voice plans, in bundle order
          MaxPolyphony, MaxSounds,
          MaxPreviews      \* bound: pending preview timers of one gate

PlanType == [gate : Gate, config : Config, sound : Sound,
             attack : BOOLEAN, release : BOOLEAN]

ASSUME PlansAreVoicePlans == Plans \in Seq(PlanType)
ASSUME PolyphonyIsPositive == MaxPolyphony \in Nat \ {0}
ASSUME CacheHoldsPolyphony == MaxSounds \in Nat /\ MaxSounds >= MaxPolyphony
ASSUME NoGateIsNoGate == NoGate \notin Gate
ASSUME PreviewBound == MaxPreviews \in Nat

VARIABLES
  voice,      \* a voice plan's voice: off, attack, sustain or release
  sounds,     \* decoded sounds, least recently used first
  held,       \* the session's protected sample files
  previews,   \* pending preview timers of a gate
  configs,    \* session.active_configurations
  phase,      \* where the running open_gate is
  opening,    \* the gate it opens
  todo,       \* plans whose sound it has yet to resolve
  ready,      \* plans whose voice it has yet to start
  caller      \* who called it

call == <<phase, opening, todo, ready, caller>>
engine == <<voice, sounds, held, previews>>

Plan == DOMAIN Plans
SoundOf(p) == Plans[p].sound

EngineTypeOK ==
  /\ voice \in [Plan -> {"off", "attack", "sustain", "release"}]
  /\ sounds \in Seq(Sound)
  /\ held \subseteq Sound
  /\ previews \in [Gate -> 0..MaxPreviews]
  /\ configs \subseteq Config
  /\ phase \in {"idle", "resolve", "play", "return", "failed"}
  /\ opening \in Gate \cup {NoGate}
  /\ todo \subseteq Plan
  /\ ready \subseteq Plan
  /\ caller \in {"none", "press", "preview"}

EngineInit ==
  /\ voice = [p \in Plan |-> "off"]
  /\ sounds = <<>>
  /\ held = {}
  /\ previews = [g \in Gate |-> 0]
  /\ phase = "idle"
  /\ opening = NoGate
  /\ todo = {}
  /\ ready = {}
  /\ caller = "none"

-----------------------------------------------------------------------------
PlansOf(g) == {p \in Plan : Plans[p].gate = g}
Selected(g) == {p \in PlansOf(g) : Plans[p].config \in configs}
Playing(v) == {p \in Plan : v[p] # "off"}
ByGate(g) == PlansOf(g) \cap Playing(voice)

(* Slip: the voices still playing are not looked at.                       *)
SurplusOfAny(s, v) == {s[i] : i \in {j \in DOMAIN s : j + MaxSounds <= Len(s)}}

(* _prune_sounds(): while more sounds are cached than allowed, drop the    *)
(* least recently used of those no voice plays, and their protection.      *)
Surplus(s, v) ==
  LET busy   == {SoundOf(p) : p \in Playing(v)}
      idle   == {i \in DOMAIN s : s[i] \notin busy}
      before(i) == Cardinality({j \in idle : j < i})
  IN  {s[i] : i \in {j \in idle : before(j) + MaxSounds < Len(s)}}

(* A dictionary without some of its keys, the others in their order.       *)
Without(s, D) ==
  LET kept[n \in 0..Len(s)] == IF n = 0 THEN <<>>
                               ELSE IF s[n] \in D THEN kept[n - 1]
                               ELSE Append(kept[n - 1], s[n])
  IN  kept[Len(s)]

Prune(s, h, v) ==
  /\ sounds' = Without(s, Surplus(s, v))
  /\ held' = h \ Surplus(s, v)

(* _stop_voice() on some voices: their handles stop, their ramp timers are *)
(* cancelled, and the sound cache is pruned.                               *)
Become(v) == voice' = v /\ Prune(sounds, held, v)
Stopped(S) == [p \in Plan |-> IF p \in S THEN "off" ELSE voice[p]]

Fail == phase' = "failed" /\ todo' = {} /\ ready' = {} /\ UNCHANGED <<opening, caller>>

-----------------------------------------------------------------------------
(* open_gate(): a gate that still has voices, or none to start, returns 0, *)
(* which the callers treat as nothing done.                                *)
Startable(g) == ByGate(g) = {} /\ Selected(g) # {}

Fits(g) == Cardinality(Playing(voice)) + Cardinality(Selected(g)) <= MaxPolyphony

Open(g, who) ==
  /\ phase = "idle"
  /\ Startable(g)
  /\ Fits(g)
  /\ phase' = "resolve"
  /\ opening' = g
  /\ todo' = Selected(g)
  /\ ready' = {}
  /\ caller' = who
  /\ UNCHANGED engine

(* Too many voices: an error, and nothing is started.                      *)
Reject(g, who) ==
  /\ phase = "idle"
  /\ Startable(g)
  /\ ~Fits(g)
  /\ phase' = "failed"
  /\ opening' = g
  /\ caller' = who
  /\ UNCHANGED <<engine, todo, ready>>

(* _sound() for the next plan: reuse the decoded sound, or extract and     *)
(* protect the sample, decode it and prune.                                *)
Resolve ==
  LET p == Min(todo)
      s == SoundOf(p)
  IN
  /\ phase = "resolve" /\ todo # {}
  /\ \/ /\ s \in Range(sounds)
        /\ sounds' = Append(Without(sounds, {s}), s)
        /\ UNCHANGED held
     \/ /\ s \notin Range(sounds)
        /\ Prune(Append(sounds, s), held \cup {s}, voice)
  /\ todo' = todo \ {p}
  /\ ready' = ready \cup {p}
  /\ UNCHANGED <<voice, previews, phase, opening, caller>>

(* The extraction fails, or the sample does not decode and its protection  *)
(* is given back.                                                          *)
ResolveFails ==
  /\ phase = "resolve" /\ todo # {}
  /\ SoundOf(Min(todo)) \notin Range(sounds)
  /\ held' = held \ {SoundOf(Min(todo))}
  /\ Fail
  /\ UNCHANGED <<voice, sounds, previews>>

(* The device is locked around the play() calls.                           *)
LockDevice ==
  /\ phase = "resolve" /\ todo = {}
  /\ phase' = "play"
  /\ UNCHANGED <<engine, opening, todo, ready, caller>>

Play ==
  /\ phase = "play" /\ ready # {}
  /\ voice' = [voice EXCEPT ![Min(ready)] = "sustain"]
  /\ ready' = ready \ {Min(ready)}
  /\ UNCHANGED <<sounds, held, previews, phase, opening, todo, caller>>

(* Slip: the voices started before the failing one keep playing.           *)
PlayFailsAlone ==
  /\ phase = "play"
  /\ Fail
  /\ UNCHANGED engine

(* play(), a handle or unlock() raises: every voice this gate has just     *)
(* started is stopped.                                                     *)
PlayFails ==
  /\ phase = "play"
  /\ Become(Stopped(ByGate(opening)))
  /\ Fail
  /\ UNCHANGED previews

(* Attack ramps start once the device is unlocked; a voice whose timer     *)
(* cannot be registered jumps to its full volume, or stops if its handle   *)
(* refuses that.                                                           *)
UnlockDevice ==
  LET fading == {p \in ByGate(opening) : Plans[p].attack} IN
  /\ phase = "play" /\ ready = {}
  /\ \E fate \in [fading -> {"attack", "sustain", "off"}] :
       Become([p \in Plan |-> IF p \in fading THEN fate[p] ELSE voice[p]])
  /\ phase' = "return"
  /\ UNCHANGED <<previews, opening, todo, ready, caller>>

-----------------------------------------------------------------------------
(* close_gate(): voices without release stop; the others start, or start   *)
(* again, a release ramp, or stop if its timer cannot be registered.       *)
CloseGate(g) ==
  LET fading == {p \in ByGate(g) : Plans[p].release} IN
  \E ramped \in SUBSET fading :
    Become([p \in Plan |-> IF p \in ramped THEN "release"
                           ELSE IF p \in PlansOf(g) THEN "off" ELSE voice[p]])

(* A ramp reaches its end: an attack is over, a released voice stops.      *)
RampEnds(p) ==
  /\ phase = "idle"
  /\ \/ voice[p] = "attack"
        /\ voice' = [voice EXCEPT ![p] = "sustain"] /\ UNCHANGED <<sounds, held>>
     \/ voice[p] = "release" /\ Become(Stopped({p}))
  /\ UNCHANGED <<previews, configs, call>>

(* The handle refuses a volume (its sample ended, say): the voice stops.   *)
RampFails(p) ==
  /\ phase = "idle"
  /\ voice[p] \in {"attack", "release"}
  /\ Become(Stopped({p}))
  /\ UNCHANGED <<previews, configs, call>>

(* The timer of preview_gate().                                            *)
PreviewEnds(g) ==
  /\ phase = "idle" /\ previews[g] > 0
  /\ previews' = [previews EXCEPT ![g] = @ - 1]
  /\ CloseGate(g)
  /\ UNCHANGED <<configs, call>>

(* close(): every timer, voice, sound and protection goes.                 *)
Shutdown ==
  /\ voice' = [p \in Plan |-> "off"]
  /\ sounds' = <<>>
  /\ held' = {}
  /\ previews' = [g \in Gate |-> 0]

-----------------------------------------------------------------------------
(* While a voice plays, and from the moment its sound is resolved for it,  *)
(* the sound is cached and its sample file protected: pruning for the next *)
(* voice of a chord never takes the sound of an earlier one.  Nor is one   *)
(* protected that has been pruned or did not decode.                       *)
NeededSoundsHeld ==
  /\ \A p \in Playing(voice) \cup ready : SoundOf(p) \in Range(sounds)
  /\ held = Range(sounds) /\ Len(sounds) <= MaxSounds

(* The device never plays more voices than the configured polyphony, even  *)
(* in the middle of a chord.                                               *)
WithinPolyphony == Cardinality(Playing(voice)) <= MaxPolyphony

(* A gate starts with all its voices or with none ("No partial gate was    *)
(* started"): the device is unlocked over the whole chord, or an exception *)
(* leaves open_gate with nothing of it playing.                            *)
NoPartialGate ==
  [][phase = "play" /\ phase' # "play" =>
       \/ phase' = "return" /\ \A p \in Selected(opening) : voice[p] # "off"
       \/ phase' = "failed" /\ \A p \in PlansOf(opening) : voice'[p] = "off"
    ]_<<engine, call>>
=============================================================================
