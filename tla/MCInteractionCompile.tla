------------------------ MODULE MCInteractionCompile ------------------------
(* Packages of up to five interactions, a toggle first in the long ones:   *)
(* toggles and gates that conflict, an incomplete toggle, a gate beyond    *)
(* MIDI, and voices with touching and overlapping ranges, of another gate  *)
(* on the same key, of a configuration that nothing selects, and with an   *)
(* unresolved relation.                                                    *)
EXTENDS InteractionCompile

CONSTANTS c1, c2

MCConfig == {c1, c2}

T(config, policy) == [binding |-> "host-toggle", config |-> config, policy |-> policy]
G(key) == [binding |-> "host-note-gate", key |-> key, component |-> TRUE, policy |-> TRUE]
V(gate, config, resolved, lo, hi) ==
  [binding |-> "internal-scoped-voice", gate |-> gate, config |-> config,
   resolved |-> resolved, domainKey |-> 60, domainConfig |-> config, settings |-> TRUE,
   root |-> 60, minKey |-> 60, maxKey |-> 61, minVelocity |-> lo, maxVelocity |-> hi]

Interactions ==
  { T(c1, TRUE), T(NoConfig, TRUE), G(60), G(128),
    V(2, c1, TRUE, 0, 63), V(3, c1, TRUE, 64, 127), V(2, c1, TRUE, 63, 127),
    V(2, c2, TRUE, 0, 127), V(2, c1, FALSE, 0, 0), [binding |-> "other"] }

MCInputs ==
  UNION {[1..n -> Interactions] : n \in 0..3}
    \cup {<<T(c1, TRUE)>> \o s : s \in [1..3 -> Interactions]}
    \cup {<<T(c1, TRUE), G(60)>> \o s : s \in [1..3 -> Interactions]}
=============================================================================
