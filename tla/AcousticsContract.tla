-------------------------- MODULE AcousticsContract --------------------------
(***************************************************************************)
(* What the 0.5.0 reference validator demands of acoustics: vao05's        *)
(* validate_acoustics04().  A transform is a record of its linear part, an *)
(* integer matrix, and of whether its last row and its embedding of the    *)
(* plane are the canonical ones.  The interpolation of a response set, the *)
(* listener of a render configuration, and the technical metadata of a     *)
(* realization are fields of their owners; the bindings of a scene, the    *)
(* metrics of a set and the mappings of an impulse response are sequences  *)
(* of records.  The signs of axes, the norm of a quaternion and the size   *)
(* of an extent are left out.                                              *)
(***************************************************************************)
EXTENDS Quantities

(* The activities that a representation status can come from.              *)
StatusKinds ==
  [measured |-> {"capture", "measurement", "digitization"}, simulated |-> {"simulation"},
   inferred |-> {"inference"}, learned |-> {"inference", "processing"},
   authored |-> {"authoring", "annotation"},
   hybrid |-> {"processing", "simulation", "inference", "render"}]

StatusFits(m, r) ==
  \A a \in Linked(m, r, "generatedById", "activities"), s \in r.status :
     a.activityKind \subseteq StatusKinds[s]

(* Some realization of the asset is of one of the kinds.                   *)
AssetHasKind(m, asset, kinds) ==
  \E r \in Holds(m, "realizations") : asset \in r.assetId /\ r.kind \subseteq kinds

Trajectories == {"trajectory", "motion-capture", "sensor-data"}

-----------------------------------------------------------------------------
(* Coordinate frames.                                                      *)
Determinant(a) ==
  IF Len(a) = 2 THEN a[1][1] * a[2][2] - a[1][2] * a[2][1]
  ELSE   a[1][1] * (a[2][2] * a[3][3] - a[2][3] * a[3][2])
       - a[1][2] * (a[2][1] * a[3][3] - a[2][3] * a[3][1])
       + a[1][3] * (a[2][1] * a[3][2] - a[2][2] * a[3][1])

TransformFits(f) ==
  \A t \in At(f, "transformToParent") :
    /\ t.affine
    /\ Determinant(t.linear) # 0
    /\ f.dimension = {2} => t.planar

ParentFits(f, p) ==
  /\ p.dimension = f.dimension
  /\ "geodetic" \notin p.coordinateType \cup f.coordinateType

FrameFits(m, f) ==
  /\ Into(m, f, "parentFrameId", "coordinateFrames")
  /\ \A p \in Linked(m, f, "parentFrameId", "coordinateFrames") : ParentFits(f, p)
  /\ TransformFits(f)
  /\ f.coordinateType = {"geodetic"} =>
       \A n \in f.dimension : \E units \in At(f, "axisUnits") : Len(units) = n
  /\ f.upAxis = {"not-applicable"} \/ f.upAxis # f.forwardAxis
  /\ f.dimension = {2} => "Z" \notin f.upAxis \cup f.forwardAxis
  /\ \A u \in At(f, "registrationUncertainty") :
       UncertaintyFits(u, {<<n>> : n \in f.dimension}, At(f, "unit"), At(f, "axisUnits"), FALSE)

FramesAcyclic(m) == Acyclic(Edges(m, "coordinateFrames", "parentFrameId"))

(* The frame at the end of the chain of parents, if it has one.            *)
FrameRoot(m, id) ==
  LET frames == Ids(m, "coordinateFrames")
      Up[n \in 0 .. Cardinality(frames)] ==
        IF n = 0 THEN {id} \cap frames
        ELSE (UNION {At(m.coordinateFrames[f], "parentFrameId") : f \in Up[n - 1]}) \cap frames
  IN  {f \in UNION {Up[n] : n \in 0 .. Cardinality(frames)} :
         ~Has(m.coordinateFrames[f], "parentFrameId")}

(* The roots of the frames of two records with a frame each.               *)
SameRoot(m, r, f, s, g) == FrameRoot(m, Val(r, f)) = FrameRoot(m, Val(s, g))

-----------------------------------------------------------------------------
(* Poses.                                                                  *)
Oriented(p) == Has(p, "orientationXYZW") \/ Has(p, "orientationRadians")

Metric == {"cartesian", "projected"}

OrientationFits(m, p) ==
  LET frame == Linked(m, p, "frameId", "coordinateFrames")
      local == Linked(m, p, "localFrameId", "coordinateFrames")
  IN
  /\ Oriented(p) => local # {}
  /\ \A f \in frame :
       /\ f.dimension = {2} => ~Has(p, "orientationXYZW")
       /\ f.dimension = {3} => ~Has(p, "orientationRadians")
       /\ Oriented(p) => f.coordinateType # {"geodetic"}
       /\ Has(p, "orientationXYZW") =>
            f.coordinateType \subseteq Metric /\ f.handedness # {"not-applicable"}
       /\ Oriented(p) => \A l \in local :
            /\ f.dimension = l.dimension
            /\ f.coordinateType \cup l.coordinateType \subseteq Metric
            /\ At(f, "unit") = At(l, "unit")
            /\ f.handedness # {"not-applicable"} /\ f.handedness = l.handedness

InterpolationFits(p) ==
  /\ p.interpolation = {"spherical-linear"} => Has(p, "orientationXYZW")
  /\ Has(p, "orientationXYZW") => p.interpolation \cap {"linear", "cubic"} = {}
  /\ Has(p, "orientationRadians") => p.interpolation # {"cubic"}
  /\ p.interpolation # {"none"} => Has(p, "trajectoryRealizationId")

PoseUncertaintyFits(m, p) ==
  \A f \in Linked(m, p, "frameId", "coordinateFrames") :
    /\ \A u \in At(p, "positionUncertainty") :
         UncertaintyFits(u, {<<n>> : n \in f.dimension}, At(f, "unit"), At(f, "axisUnits"), FALSE)
    /\ \A u \in At(p, "orientationUncertainty") :
         LET n == IF f.dimension = {2} THEN 1 ELSE 3 IN
         /\ u.kind # "registration-rms" =>
              Shape(u.value) = IF u.kind = "covariance" THEN <<n, n>> ELSE <<>>
         /\ u.unit = {"rad"}

PoseFits(m, p) ==
  LET frame == Linked(m, p, "frameId", "coordinateFrames") IN
  /\ Into(m, p, "frameId", "coordinateFrames")
  /\ Into(m, p, "localFrameId", "coordinateFrames")
  /\ Into(m, p, "subjectId", "entities")
  /\ \A f \in frame : p.axes = f.dimension /\ At(p, "extentAxes") \subseteq f.dimension
  /\ OrientationFits(m, p)
  /\ InterpolationFits(p)
  /\ PoseUncertaintyFits(m, p)
  /\ Into(m, p, "configurationId", "entities")
  /\ Into(m, p, "stateId", "entities")
  /\ Ordered(p, "validFrom", "validUntil")
  /\ Into(m, p, "trajectoryRealizationId", "realizations")
  /\ \A r \in Linked(m, p, "trajectoryRealizationId", "realizations") :
       r.kind \subseteq Trajectories /\ At(r, "coordinateFrameId") = p.frameId

-----------------------------------------------------------------------------
(* Materials, measurements and what they are bound to.                     *)
GeometryFits(m, b) ==
  /\ Into(m, b, "subjectId", "entities")
  /\ Into(m, b, "logicalAssetId", "logicalAssets")
  /\ \A asset \in b.logicalAssetId : AssetHasKind(m, asset, {"geometry"})

(* A band axis with its centers and, or not, the edges around them.        *)
BandsFit(axis) ==
  LET c == axis.centers IN
  /\ \A k \in 1 .. Len(c) - 1 : c[k] <= c[k + 1]
  /\ (axis.lower = <<>>) <=> (axis.upper = <<>>)
  /\ axis.lower # <<>> =>
       /\ Len(axis.lower) = Len(c) /\ Len(axis.upper) = Len(c)
       /\ \A k \in DOMAIN c : axis.lower[k] < c[k] /\ c[k] < axis.upper[k]
       /\ \A k \in 2 .. Len(c) : axis.upper[k - 1] <= axis.lower[k]

MaterialFits(m, x) ==
  LET n == Len(Val(x, "bandAxis").centers) IN
  /\ BandsFit(Val(x, "bandAxis"))
  /\ StatusFits(m, x)
  /\ Into(m, x, "materialEntityId", "entities")
  /\ Into(m, x, "environmentStateId", "entities")
  /\ \A f \in {"absorption", "scattering", "transmissionLossDB"} : At(x, f) \subseteq {n}
  /\ Into(m, x, "surfaceImpedanceAssetId", "logicalAssets")
  /\ \A row \in {<<"absorptionUncertainty", "unitless">>, <<"scatteringUncertainty", "unitless">>,
                 <<"transmissionLossUncertainty", "decibel">>} :
       \A u \in At(x, row[1]) : UncertaintyFits(u, {<<n>>}, {row[2]}, {}, FALSE)

MeasurementFits(m, x) ==
  LET source   == Linked(m, x, "sourcePoseId", "poses")
      receiver == Linked(m, x, "receiverPoseId", "poses")
  IN
  /\ Ordered(x, "validFrom", "validUntil")
  /\ \A f \in {"sourceId", "receiverId", "spaceId", "sourceSpaceId", "receivingSpaceId",
               "separatingElementId", "configurationId", "stateId", "transmissionPathIds"} :
       Into(m, x, f, "entities")
  /\ \A p \in source : p.subjectId = x.sourceId
  /\ \A p \in receiver : p.subjectId = x.receiverId
  /\ Cardinality(UNION {FrameRoot(m, Val(p, "frameId")) : p \in source \cup receiver}) <= 1

-----------------------------------------------------------------------------
(* Response sets and the realizations that hold them.                      *)
LearnedEvidence(x) ==
  /\ At(x, "method") \in {{"neural-field"}, {"hybrid"}}
  /\ \A f \in {"modelAssetId", "trainingInputIds", "validationInputIds", "qualityMetricSetId",
               "determinism"} : Has(x, f)

ResponseFits(m, x) ==
  /\ StatusFits(m, x)
  /\ Into(m, x, "responseEntityId", "entities")
  /\ Into(m, x, "logicalAssetId", "logicalAssets")
  /\ Into(m, x, "measurementIds", "measurements")
  /\ Into(m, x, "delayAssetId", "logicalAssets")
  /\ Into(m, x, "calibrationIds", "calibrations")
  /\ At(x, "domain") \cup At(x, "trainingInputIds") \cup At(x, "validationInputIds")
       \subseteq Known(m)
  /\ Into(m, x, "fallbackResponseSetId", "responseSets")
  /\ Into(m, x, "modelAssetId", "logicalAssets")
  /\ Into(m, x, "qualityMetricSetId", "metricSets")
  /\ x.status = {"learned"} => LearnedEvidence(x)

(* The channels that a mapping of an impulse response selects.             *)
Addresses(map) == {<<map.index, c>> : c \in map.channels}

(* The mappings address the measurements of the set, all of them.          *)
Covered(maps, x) == {maps[k].measurement : k \in DOMAIN maps} = x.measurementIds

(* Each measurement once, each channel at most once, all of them there.    *)
AddressesFit(maps, x) ==
  /\ Covered(maps, x)
  /\ \A k, l \in DOMAIN maps : k # l => /\ maps[k].measurement # maps[l].measurement
                                        /\ Addresses(maps[k]) \cap Addresses(maps[l]) = {}

ImpulseFits(m, r) ==
  /\ Into(m, r, "responseSetId", "responseSets")
  /\ \A x \in Linked(m, r, "responseSetId", "responseSets") :
       /\ r.assetId = x.logicalAssetId
       /\ Has(r, "frameCount") => r.sampleCount = r.frameCount
       /\ \A maps \in r.measurementMappings :
            /\ AddressesFit(maps, x)
            /\ \A k \in DOMAIN maps :
                 /\ \A c \in maps[k].channels, n \in r.channelCount : c < n
                 /\ r.timeZeroPolicy = {"per-measurement-delay"} => maps[k].delayed

ResponsesRealized(m) ==
  \A id \in Ids(m, "responseSets") :
     m.responseSets[id].responseKind \subseteq {"rir", "brir", "srir", "hrir"} =>
       \E r \in Holds(m, "realizations") : id \in At(r, "responseSetId")

MetricKinds ==
  [observed |-> {"capture", "measurement"}, calculated |-> {"processing"},
   simulated |-> {"simulation"}, inferred |-> {"inference"}, reviewed |-> {"review"},
   accepted |-> {"review"}]

MetricSetFits(m, x) ==
  LET n == Len(Val(x, "bandAxis").centers) IN
  /\ BandsFit(Val(x, "bandAxis"))
  /\ \A metrics \in x.metrics : \A k \in DOMAIN metrics :
       LET metric == metrics[k] IN
       /\ \A a \in Linked(m, x, "generatedById", "activities"), s \in metric.status :
            a.activityKind \subseteq MetricKinds[s]
       /\ metric.values = {n}
       /\ \A u \in At(metric, "uncertainty") : UncertaintyFits(u, {<<n>>}, metric.unit, {}, FALSE)
       /\ \A f \in {"sourceId", "receiverId", "sourceSpaceId", "receivingSpaceId",
                    "separatingElementId"} : Into(m, metric, f, "entities")
  /\ Into(m, x, "subjectIds", "entities")
  /\ x.inputIds \subseteq Known(m)

-----------------------------------------------------------------------------
(* Scenes and how they are rendered.                                       *)
BindingFits(m, scene, b) ==
  LET counts == UNION {At(r, "channelCount") :
                  r \in {q \in Holds(m, "realizations") : q.assetId = b.mediaAssetId}}
  IN
  /\ Into(m, b, "entityId", "entities")
  /\ Into(m, b, "mediaAssetId", "logicalAssets")
  /\ b.mediaAssetId \subseteq scene.mediaAssetIds
  /\ Into(m, b, "poseId", "poses")
  /\ \A p \in Linked(m, b, "poseId", "poses") :
       p.subjectId = b.entityId /\ SameRoot(m, p, "frameId", scene, "coordinateFrameId")
  /\ Into(m, b, "directivityResponseSetId", "responseSets")
  /\ Has(b, "channelIndices") => Cardinality(counts) <= 1
  /\ \A c \in At(b, "channelIndices"), n \in counts : c < n

SceneFits(m, s) ==
  /\ Into(m, s, "sceneEntityId", "entities")
  /\ Into(m, s, "coordinateFrameId", "coordinateFrames")
  /\ Into(m, s, "mediaAssetIds", "logicalAssets")
  /\ \A asset \in s.mediaAssetIds : AssetHasKind(m, asset, {"audio"})
  /\ Into(m, s, "contentTimebase", "timebases")
  /\ \A bindings \in s.bindings : \A k \in DOMAIN bindings : BindingFits(m, s, bindings[k])
  /\ Into(m, s, "metadataAssetId", "logicalAssets")

(* Fields of the listener begin with "listener".                           *)
ListenerFits(m, c) ==
  /\ Into(m, c, "listenerFrameId", "coordinateFrames")
  /\ Into(m, c, "listenerPoseId", "poses")
  /\ Into(m, c, "listenerReceiverId", "entities")
  /\ Into(m, c, "listenerTrajectoryId", "realizations")
  /\ \A p \in Linked(m, c, "listenerPoseId", "poses") :
       /\ p.subjectId = c.listenerReceiverId
       /\ SameRoot(m, p, "frameId", c, "listenerFrameId")
  /\ SameRoot(m, c, "listenerFrameId", c, "coordinateFrameId")
  /\ \A r \in Linked(m, c, "listenerTrajectoryId", "realizations") :
       r.kind \subseteq Trajectories /\ At(r, "coordinateFrameId") = c.listenerFrameId
  /\ Into(m, c, "headphoneCompensationAssetId", "logicalAssets")
  /\ Into(m, c, "personalizationAssetId", "logicalAssets")

RenderConfigurationFits(m, c) ==
  /\ Into(m, c, "sceneId", "audioScenes")
  /\ Into(m, c, "coordinateFrameId", "coordinateFrames")
  /\ \A s \in Linked(m, c, "sceneId", "audioScenes") :
       SameRoot(m, c, "coordinateFrameId", s, "coordinateFrameId")
  /\ ListenerFits(m, c)
  /\ c.inputIds \cup At(c, "featureInputIds") \cup At(c, "levelInputIds") \subseteq Known(m)
  /\ Into(m, c, "fallbackIds", "renderConfigurations")
  /\ c.outsideDomainPolicy = {"fallback"} => c.fallbackIds # {}
  /\ Into(m, c, "validDomainId", "entities")

FallbacksAcyclic(m) ==
  /\ Acyclic(Edges(m, "responseSets", "fallbackResponseSetId"))
  /\ Acyclic(Edges(m, "renderConfigurations", "fallbackIds"))

AcousticsFit(m) ==
  /\ \A f \in Holds(m, "coordinateFrames") : FrameFits(m, f)
  /\ FramesAcyclic(m)
  /\ \A p \in Holds(m, "poses") : PoseFits(m, p)
  /\ \A b \in Holds(m, "geometryBindings") : GeometryFits(m, b)
  /\ \A x \in Holds(m, "materialModels") : MaterialFits(m, x)
  /\ \A x \in Holds(m, "measurements") : MeasurementFits(m, x)
  /\ \A x \in Holds(m, "responseSets") : ResponseFits(m, x)
  /\ \A r \in Holds(m, "realizations") : Has(r, "responseSetId") => ImpulseFits(m, r)
  /\ ResponsesRealized(m)
  /\ \A x \in Holds(m, "metricSets") : MetricSetFits(m, x)
  /\ \A s \in Holds(m, "audioScenes") : SceneFits(m, s)
  /\ \A c \in Holds(m, "renderConfigurations") : RenderConfigurationFits(m, c)
  /\ FallbacksAcyclic(m)
=============================================================================
