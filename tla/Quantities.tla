------------------------------ MODULE Quantities ------------------------------
(***************************************************************************)
(* Measured values and their uncertainties: vao05's _numeric_shape(),      *)
(* _validate_uncertainty(), _validate_measurements() and the exact part of *)
(* _covariance_is_psd().  A value says how deep it is nested, how long its *)
(* rows are and whether all that it holds are numbers; a covariance also   *)
(* has its cells, which are integers here, so that its elimination is      *)
(* computed without fractions and without tolerances.                      *)
(***************************************************************************)
EXTENDS Records

CONSTANTS MaxDimension, MaxCells      \* MAX_INLINE_COVARIANCE_DIMENSION, MAX_TOTAL_...

ASSUME QuantityAssumption == MaxDimension \in Nat /\ MaxCells \in Nat

Ragged == <<0>>      \* no value has this shape

(* v.rows has the length of the list, or of each row of the matrix.        *)
Shape(v) ==
  CASE ~v.numeric -> Ragged
    [] v.depth = 0 -> <<>>
    [] v.depth = 1 /\ v.rows[1] > 0 -> <<v.rows[1]>>
    [] v.depth = 2 /\ Len(v.rows) > 0 /\ v.rows[1] > 0 /\ \A k \in DOMAIN v.rows : v.rows[k] = v.rows[1]
         -> <<Len(v.rows), v.rows[1]>>
    [] OTHER -> Ragged

Components(shape) ==
  CASE Len(shape) = 0 -> 1 [] Len(shape) = 1 -> shape[1] [] OTHER -> shape[1] * shape[2]

(* The number of channels of an ambisonics signal.                         *)
AmbisonicsFit(r) ==
  \A n \in At(r, "ambisonicsOrder") :
    At(r, "channelCount") =
      {IF r.ambisonicsDimensionality = {"3D"} THEN (n + 1) * (n + 1) ELSE 2 * n + 1}

-----------------------------------------------------------------------------
(* Positive semidefinite.                                                  *)
Symmetric(c) == \A k, l \in DOMAIN c : c[k][l] = c[l][k]

(* No correlation beyond one, none at all with what does not vary.         *)
Correlated(c) ==
  \A k, l \in DOMAIN c :
     /\ c[k][k] >= 0
     /\ c[k][k] = 0 => c[k][l] = 0
     /\ c[k][l] * c[k][l] <= c[k][k] * c[l][l]

(* One column of the elimination: a pivot that is not negative, and none   *)
(* that is zero over a residual.  The rest is scaled by the pivot.         *)
Eliminate(c, k) ==
  [row \in DOMAIN c |-> [col \in DOMAIN c |->
     IF c[k][k] = 0 THEN c[row][col] ELSE c[k][k] * c[row][col] - c[row][k] * c[k][col]]]

PivotFits(c, k) ==
  /\ c[k][k] >= 0
  /\ c[k][k] = 0 => \A row \in k + 1 .. Len(c) : c[row][k] = 0

Factors(c) ==
  LET Step[k \in 0 .. Len(c)] == IF k = 0 THEN c ELSE Eliminate(Step[k - 1], k)
  IN  \A k \in DOMAIN c : PivotFits(Step[k - 1], k)

CovariancePsd(c) == Correlated(c) /\ Factors(c)

-----------------------------------------------------------------------------
(* An uncertainty u of a quantity with a shape and units.                  *)
CovarianceFits(u, shapes, integrity) ==
  LET shape == Shape(u.value) IN
  /\ Len(shape) = 2 /\ shape[1] = shape[2]
  /\ shape[1] <= MaxDimension
  /\ \A s \in shapes : shape[1] = Components(s)
  /\ integrity => Symmetric(u.cells) /\ CovariancePsd(u.cells)

(* shapes, units and axes are those of the quantity, where it has them.    *)
UncertaintyFits(u, shapes, units, axes, integrity) ==
  LET shape == Shape(u.value) IN
  /\ shape # Ragged
  /\ u.kind = "registration-rms" => Has(u, "method")
  /\ u.kind = "covariance" => CovarianceFits(u, shapes, integrity)
  /\ u.kind \notin {"covariance", "registration-rms"} => \A s \in shapes : shape = s
  /\ \A a \in At(u, "axisUnits") :
       Len(a) = IF u.kind = "covariance" THEN shape[1] ELSE Components(shape)
  /\ units # {} => At(u, "unit") = units
  /\ axes # {} /\ u.kind # "registration-rms" => At(u, "axisUnits") = axes
  /\ \A p \in At(u, "confidenceLevel") : p > 0

(* The quantities of a manifest, each with the uncertainty in it, if any.  *)
(* The cells of all covariances together are bounded.                      *)
CovarianceCells(qs) ==
  LET covariances == {q \in qs : \E u \in At(q, "uncertainty") : u.kind = "covariance"}
      Cells(q)    == LET u == Val(q, "uncertainty") IN Components(Shape(u.value))
      Sum[S \in SUBSET covariances] ==
        IF S = {} THEN 0 ELSE LET q == CHOOSE q \in S : TRUE IN Cells(q) + Sum[S \ {q}]
  IN  Sum[covariances]

MeasurementsFit(m) ==
  /\ \A q \in Holds(m, "quantities") :
       /\ Shape(Val(q, "value")) # Ragged
       /\ \A u \in At(q, "uncertainty") :
            UncertaintyFits(u, {Shape(Val(q, "value"))}, q.unit, {}, TRUE)
  /\ CovarianceCells(Holds(m, "quantities")) <= MaxCells
=============================================================================
