--------------------------- MODULE MCSceneAdapter ---------------------------
(***************************************************************************)
(* Two models, one marker, one edit of the user's besides those of scenes. *)
(* Where things are placed is computed once, by what follows.              *)
(***************************************************************************)
EXTENDS SceneAdapter, Sequences

(* Neither guards nor properties ask for the protected files.              *)
Seen == <<data, modern, live, home, origin, claims, named, hint, active, edits>>

-----------------------------------------------------------------------------
Space == INSTANCE Frames WITH Modulus <- 5

Square(n, entries) == [1..n -> [1..n -> entries]]

(* matrix_inverse() (vao03.py:63-86) refuses exactly the singular matrices *)
(* and inverts the others on both sides: all that are 2 by 2, and those of *)
(* noughts and ones that are 3 by 3, of which many need rows swapped.      *)
Cofactor(m, k) ==
  LET others == {l \in DOMAIN m : l # k}
      l == Space!Min(others)
      h == Space!Max(others)
  IN  IF Len(m) = 2 THEN m[2][l] ELSE m[2][l] * m[3][h] - m[2][h] * m[3][l]

Determinant(m) ==
  (Space!MapThenSumSet(LAMBDA k : m[1][k] * Cofactor(m, k), {k \in DOMAIN m : k # 2})
     - m[1][2] * Cofactor(m, 2)) % 5

InvertsExactly(m) ==
  LET one == Space!IdentityOf(Len(m)) IN
  /\ Determinant(m) = 0 <=> Space!matrix_inverse(m) = {}
  /\ \A b \in Space!matrix_inverse(m) :
        Space!matrix_multiply(m, b) = one /\ Space!matrix_multiply(b, m) = one

ASSUME InverseIsExact ==
  /\ \A m \in Square(2, Space!Field) : InvertsExactly(<<m[1], m[2]>>)
  /\ \A m \in Square(3, 0..1) : InvertsExactly(<<m[1], m[2], m[3]>>)

(* quaternion_matrix_xyzw() (vao03.py:140-169) is a rotation, whatever the *)
(* norm, and turns by i, j and k compose as the quaternions do.            *)
Hamilton(p, q) ==
  LET f(n) == n % 5 IN
  <<f(p[4]*q[1] + p[1]*q[4] + p[2]*q[3] - p[3]*q[2]),
    f(p[4]*q[2] - p[1]*q[3] + p[2]*q[4] + p[3]*q[1]),
    f(p[4]*q[3] + p[1]*q[2] - p[2]*q[1] + p[3]*q[4]),
    f(p[4]*q[4] - p[1]*q[1] - p[2]*q[2] - p[3]*q[3])>>

Transposed(m) == [row \in DOMAIN m |-> [col \in DOMAIN m |-> m[col][row]]]

ASSUME RotationsAreRigid ==
  \A q \in [1..4 -> Space!Field] : \A turn \in Space!quaternion_matrix_xyzw(q) :
    /\ Space!matrix_multiply(turn, Transposed(turn)) = Space!IdentityOf(4)
    /\ \A unit \in {<<1, 0, 0, 0>>, <<0, 1, 0, 0>>, <<0, 0, 1, 0>>} :
         \A first \in Space!quaternion_matrix_xyzw(unit) :
           Space!quaternion_matrix_xyzw(Hamilton(unit, q)) =
             {Space!matrix_multiply(first, turn)}

-----------------------------------------------------------------------------
(* A quarter turn and a shift, which do not commute.                       *)
Turn  == Space!PlanarTurn(<<0, 1>>)
Shift == Space!Translation(<<1, 2, 3>>)
Names == {"hall", "case", "pipe"}

Trees ==
  [Names -> [parent : {{}} \cup {{f} : f \in Names \cup {"elsewhere"}},
             transform : {Turn, Shift}, metric : {TRUE}]]

LeadsTo(frames, f, r) ==
  \A S \in SUBSET Names :
     f \in S /\ (\A g \in S : frames[g].parent \cap Names \subseteq S) => r \in S

(* frame_to_root() (vao03.py:112-137) gives every frame the one root above *)
(* it and its transform after that of the parent, or refuses a frame below *)
(* a cycle or an unknown one.                                              *)
ASSUME FramesComposeOrAreRefused ==
  \A frames \in Trees : \A f \in Names :
    LET found == Space!frame_to_root(frames, f) IN
    /\ {u.root : u \in found} = {r \in Names : frames[r].parent = {} /\ LeadsTo(frames, f, r)}
    /\ \A u \in found :
         IF frames[f].parent = {} THEN found = {[root |-> f, transform |-> Space!IdentityOf(4)]}
         ELSE {u.transform} =
              UNION {{Space!matrix_multiply(up.transform, frames[f].transform) :
                        up \in Space!frame_to_root(frames, p)} : p \in frames[f].parent}

(* A GLB in two tiers, seen from one pose in each of two frames.           *)
Glb(tier, frame) ==
  [glb |-> TRUE, geometry |-> TRUE, embedded |-> TRUE, tier |-> tier, frame |-> {frame}]

Plan(frames, modelled, measured, place, quaternions, angles) ==
  [frames |-> frames,
   assets |-> [organ |-> {1, 2}],
   realizations |-> <<Glb("preview", "hall"), Glb("bootstrap", modelled)>>,
   bindings |-> <<[role |-> "runtime-visual", asset |-> "organ"]>>,
   poses |-> [source |-> [frame |-> measured, position |-> place,
                          quaternion |-> quaternions, angle |-> angles],
              receiver |-> [frame |-> "hall", position |-> <<2, 0, 1>>,
                            quaternion |-> {}, angle |-> {}]],
   measured |-> {"source", "receiver"}]

Plans ==
  {Plan(frames, modelled, measured, place, quaternions, angles) :
     frames \in {f \in Trees : f["pipe"].transform = Turn /\ f["case"].transform = Shift},
     modelled \in {"case", "hall"}, measured \in {"pipe", "case"},
     place \in {<<1, 4>>, <<0, 3, 1>>},
     quaternions \in {{}, {<<0, 0, 1, 1>>}, {<<1, 2, 0, 0>>}}, angles \in {{}, {<<0, 1>>}}}

(* What import_visual() and _create_acoustic_markers() place               *)
(* (scene_adapter.py:412-443, 549-571) is in one space: a model is carried *)
(* by its declared transform alone, Blender's own turn of the axes undone, *)
(* and a marker stands where the position of its pose is in the root.      *)
ASSUME PlacedInOneSpace ==
  \A plan \in {plan \in Plans : Space!Placeable(plan)} :
    /\ \A model \in Space!ModelDeltas(plan) :
         /\ [root |-> model.root,
             transform |-> Space!matrix_multiply(model.delta, Space!GLTF_IMPORT_BASIS)]
               \in UNION {Space!frame_to_root(plan.frames, f) : f \in plan.realizations[2].frame}
         /\ \A marker \in Space!Markers(plan) : marker.root = model.root
    /\ \A marker \in Space!Markers(plan) :
         LET pose  == plan.poses[marker.pose]
             place == IF Len(pose.position) = 3 THEN pose.position ELSE Append(pose.position, 0)
         IN  \A up \in Space!frame_to_root(plan.frames, pose.frame) :
               Space!transform_point(marker.matrix, <<0, 0, 0>>)
                 = Space!transform_point(up.transform, place)

ASSUME SomePlansArePlaced ==
  (\E plan \in Plans : Space!Placeable(plan)) /\ (\E plan \in Plans : ~Space!Builds(plan))
=============================================================================
