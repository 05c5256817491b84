-------------------------------- MODULE Frames --------------------------------
(***************************************************************************)
(* Where things of an acoustic scene are: the coordinates of core/vao03.py *)
(* and the placement of models and markers in blender/scene_adapter.py.    *)
(* A transform is a square matrix, a tuple of rows; those of the code have *)
(* four.  Numbers are the elements of a finite field in place of floats:   *)
(* every formula of the code is one of field arithmetic, and is exact in   *)
(* it.  The two tests for a size below 1e-12 are tests for zero.  The      *)
(* result of a function that may raise is a set, empty if it does.         *)
(***************************************************************************)
EXTENDS Integers, FiniteSets, FiniteSetsExt, SequencesExt

CONSTANT Modulus      \* a prime

Field == 0 .. Modulus - 1

Quotient(x, y) == CHOOSE z \in Field : (y * z) % Modulus = x % Modulus

IdentityOf(n) == [row \in 1..n |-> [col \in 1..n |-> IF row = col THEN 1 ELSE 0]]

matrix_multiply(a, b) ==
  [row \in DOMAIN a |-> [col \in DOMAIN b |->
     MapThenSumSet(LAMBDA k : a[row][k] * b[k][col], DOMAIN b) % Modulus]]

(* Gauss and Jordan.  The first of the largest numbers in the column       *)
(* becomes the pivot; m is the matrix beside the inverse in the making.    *)
Magnitude(x) == Min({x, (0 - x) % Modulus})

PivotRow(m, col) ==
  LET rows == col .. Len(m)
      large == {row \in rows : \A r \in rows : Magnitude(m[r][col]) <= Magnitude(m[row][col])}
  IN  Min(large)

Cleared(m, col) ==
  LET pivot == PivotRow(m, col)
      swapped == [m EXCEPT ![col] = m[pivot], ![pivot] = m[col]]
      unit == [k \in DOMAIN m[1] |-> Quotient(swapped[col][k], swapped[col][col])]
  IN  [row \in DOMAIN m |->
         IF row = col THEN unit
         ELSE [k \in DOMAIN unit |->
                 (swapped[row][k] - swapped[row][col] * unit[k]) % Modulus]]

matrix_inverse(m) ==
  LET size == Len(m)
      Step(left, col) == {Cleared(a, col) : a \in {a \in left : a[PivotRow(a, col)][col] # 0}}
      beside == [row \in 1..size |-> m[row] \o IdentityOf(size)[row]]
  IN  {[row \in 1..size |-> SubSeq(a[row], size + 1, 2 * size)] :
         a \in FoldLeft(Step, {beside}, [k \in 1..size |-> k])}

transform_point(m, point) ==
  LET vector == Append(point, 1)
      image  == [row \in DOMAIN m |->
                   MapThenSumSet(LAMBDA k : m[row][k] * vector[k], DOMAIN vector) % Modulus]
  IN  IF Last(image) = 0 THEN {}
      ELSE {[k \in DOMAIN point |-> Quotient(image[k], Last(image))]}

-----------------------------------------------------------------------------
(* A frame has at most one parent, as a set, and a transform to it.  Who   *)
(* meets an unknown frame, or no root in as many steps as there are        *)
(* frames, is lost.                                                        *)
frame_to_root(frames, start) ==
  LET Up[n \in 0 .. Cardinality(DOMAIN frames)] ==
        IF n = 0 THEN {[root |-> start, transform |-> IdentityOf(4)]}
        ELSE UNION {{[root |-> parent, transform |-> matrix_multiply(frames[u.root].transform, u.transform)] :
                       parent \in frames[u.root].parent} :
                      u \in {u \in Up[n - 1] : u.root \in DOMAIN frames}}
  IN  {u \in UNION {Up[n] : n \in DOMAIN Up} :
         u.root \in DOMAIN frames /\ frames[u.root].parent = {}}

(* The quaternion <<x, y, z, w>> divided by its norm: every entry has one  *)
(* product of two of its numbers, so the square root is not needed.        *)
quaternion_matrix_xyzw(q) ==
  LET norm2 == (q[1] * q[1] + q[2] * q[2] + q[3] * q[3] + q[4] * q[4]) % Modulus
      Unit(n) == Quotient(n, norm2)
      Double(n) == (2 * Unit(n)) % Modulus
      Rest(n) == (1 - Double(n)) % Modulus
      x == q[1]
      y == q[2]
      z == q[3]
      w == q[4]
  IN  IF norm2 = 0 THEN {}
      ELSE {<< <<Rest(y*y + z*z), Double(x*y - z*w), Double(x*z + y*w), 0>>,
               <<Double(x*y + z*w), Rest(x*x + z*z), Double(y*z - x*w), 0>>,
               <<Double(x*z - y*w), Double(y*z + x*w), Rest(x*x + y*y), 0>>,
               <<0, 0, 0, 1>> >>}

(* An angle is its cosine and its sine.                                    *)
PlanarTurn(angle) ==
  << <<angle[1], (0 - angle[2]) % Modulus, 0, 0>>, <<angle[2], angle[1], 0, 0>>,
     <<0, 0, 1, 0>>, <<0, 0, 0, 1>> >>

Translation(p) == << <<1, 0, 0, p[1]>>, <<0, 1, 0, p[2]>>, <<0, 0, 1, p[3]>>, <<0, 0, 0, 1>> >>

(* A pose has a quaternion or none, an angle or none.                      *)
Orientations(pose) ==
  IF pose.quaternion # {} THEN UNION {quaternion_matrix_xyzw(q) : q \in pose.quaternion}
  ELSE IF pose.angle # {} THEN {PlanarTurn(a) : a \in pose.angle}
  ELSE {IdentityOf(4)}

pose_to_root(frames, pose) ==
  LET position == IF Len(pose.position) = 3 THEN pose.position ELSE Append(pose.position, 0)
  IN  {[root |-> up.root,
        transform |-> matrix_multiply(up.transform, matrix_multiply(Translation(position), turn))] :
         up \in frame_to_root(frames, pose.frame), turn \in Orientations(pose)}

-----------------------------------------------------------------------------
(* The model that stands for the package.  Bindings are in the order of    *)
(* the manifest; realizations are numbered in the order of their names.    *)
Rank == [production |-> 4, bootstrap |-> 3, preservation |-> 2, preview |-> 1, other |-> 0]

Shows(plan, binding, r) ==
  /\ binding.role = "runtime-visual"
  /\ binding.asset \in DOMAIN plan.assets
  /\ r \in plan.assets[binding.asset] \cap DOMAIN plan.realizations
  /\ plan.realizations[r].glb /\ plan.realizations[r].geometry /\ plan.realizations[r].embedded

(* The best tier, then the last name, then the first binding.              *)
choose_runtime_visual(plan) ==
  LET pairs  == {p \in (DOMAIN plan.bindings) \X (DOMAIN plan.realizations) :
                   Shows(plan, plan.bindings[p[1]], p[2])}
      Tier(p) == Rank[plan.realizations[p[2]].tier]
      top    == {p \in pairs : \A q \in pairs : Tier(q) < Tier(p) \/ (Tier(q) = Tier(p) /\ q[2] <= p[2])}
  IN  {p \in top : \A q \in top : p[1] <= q[1]}

(* build_records_03(): the frames in which something is measured or shown, *)
(* and their one root, if there is one.                                    *)
PlacedFrames(plan) ==
  {plan.poses[p].frame : p \in plan.measured}
    \cup UNION {plan.realizations[v[2]].frame : v \in choose_runtime_visual(plan)}

Builds(plan) == \A f \in PlacedFrames(plan) : frame_to_root(plan.frames, f) # {}

CommonRoot(plan) ==
  LET roots == UNION {{up.root : up \in frame_to_root(plan.frames, f)} : f \in PlacedFrames(plan)}
  IN  {r \in roots : roots = {r}}

-----------------------------------------------------------------------------
(* import_visual(): Blender's importer has turned the model by a basis of  *)
(* its own, which is taken back before the declared transform.             *)
GLTF_IMPORT_BASIS ==
  << <<1, 0, 0, 0>>, <<0, 0, (0 - 1) % Modulus, 0>>, <<0, 1, 0, 0>>, <<0, 0, 0, 1>> >>

ModelDeltas(plan) ==
  {[root |-> up.root, delta |-> matrix_multiply(up.transform, back)] :
     up \in {up \in UNION {frame_to_root(plan.frames, f) :
                             f \in UNION {plan.realizations[v[2]].frame : v \in choose_runtime_visual(plan)}} :
               CommonRoot(plan) = {up.root} /\ plan.frames[up.root].metric},
     back \in matrix_inverse(GLTF_IMPORT_BASIS)}

(* _create_acoustic_markers()                                              *)
Markers(plan) ==
  UNION {{[pose |-> p, root |-> at.root, matrix |-> at.transform] :
            at \in {at \in pose_to_root(plan.frames, plan.poses[p]) : CommonRoot(plan) = {at.root}}} :
           p \in plan.measured}

Placeable(plan) ==
  /\ Builds(plan)
  /\ ModelDeltas(plan) # {}
  /\ \A p \in plan.measured : \E marker \in Markers(plan) : marker.pose = p
=============================================================================
