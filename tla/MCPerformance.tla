--------------------------- MODULE MCPerformance ---------------------------
(* Two gates over three samples.  With both configurations selected the    *)
(* two voices of g1 fill the polyphony and its samples the sound cache; g2 *)
(* shares a sample with g1, and its voices stop without release.           *)
EXTENDS Performance

CONSTANTS g1, g2, c1, c2, s1, s2, s3

MCGate == {g1, g2}
MCConfig == {c1, c2}
MCSound == {s1, s2, s3}

Voice(g, c, s, attack, release) ==
  [gate |-> g, config |-> c, sound |-> s, attack |-> attack, release |-> release]

MCPlans == << Voice(g1, c1, s1, TRUE, TRUE),
              Voice(g1, c2, s2, FALSE, TRUE),
              Voice(g2, c2, s1, FALSE, FALSE),
              Voice(g2, c1, s3, FALSE, FALSE) >>

(* The compiler only makes independent selections (see InteractionCompile). *)
MCIndependent == {c1, c2}
=============================================================================
