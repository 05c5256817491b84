--------------------------- MODULE RetainedContract ---------------------------
(***************************************************************************)
(* What the 0.3 reference validator demands of a manifest: vao03's         *)
(* validate_manifest(), validate_acoustics() and validate_playable().  The *)
(* 0.5.0 validator still applies it, to a projection of the manifest.  The *)
(* registry "object" has the manifest itself as its only record; profiles  *)
(* and capabilities are named without their versions.  The technical       *)
(* metadata of a realization are fields of it; an impulse response that    *)
(* has no dataIRIndex has the index -1.                                    *)
(***************************************************************************)
EXTENDS AcousticsContract

Object(m) == m.object[CHOOSE id \in Ids(m, "object") : TRUE]

(* What may have made a record: a paradatum or an analysis, and for the    *)
(* playable records also a relation.                                       *)
Makers(m)    == Ids(m, "paradata") \cup Ids(m, "analyses")
Evidencing(m) == Makers(m) \cup Ids(m, "relations")

ProfileIds(m) == Ids(m, "profiles") \cup Ids(m, "materializableProfiles")

Capabilities(m, p) ==
  UNION {At(Reg(m, g)[p], "requiredCapabilities") :
           g \in {h \in {"profiles", "materializableProfiles"} : p \in Ids(m, h)}}

-----------------------------------------------------------------------------
(* Acoustics.                                                              *)
AcousticReferences ==
  {<<"coordinateFrames", "parentFrameId", "coordinateFrames">>,
   <<"poses", "subjectId", "entities">>, <<"poses", "frameId", "coordinateFrames">>,
   <<"poses", "trajectoryAssetId", "logicalAssets">>,
   <<"geometryBindings", "subjectId", "entities">>,
   <<"geometryBindings", "logicalAssetId", "logicalAssets">>,
   <<"responseSets", "responseEntityId", "entities">>,
   <<"responseSets", "logicalAssetId", "logicalAssets">>,
   <<"responseSets", "measurementIds", "measurements">>,
   <<"materialModels", "materialEntityId", "entities">>,
   <<"audioScenes", "sceneEntityId", "entities">>,
   <<"audioScenes", "coordinateFrameId", "coordinateFrames">>,
   <<"audioScenes", "mediaAssetIds", "logicalAssets">>,
   <<"renderConfigurations", "sceneId", "audioScenes">>,
   <<"renderConfigurations", "coordinateFrameId", "coordinateFrames">>}

MadeByMakers(m) ==
  \A g \in {"coordinateFrames", "poses", "responseSets"} : \A r \in Holds(m, g) :
     At(r, "generatedById") \subseteq Makers(m)

FrameFits03(f) ==
  /\ Has(f, "parentFrameId") =>
       \E t \in At(f, "transformToParent") : Determinant(t.linear) # 0
  /\ At(f, "upAxis") \cap At(f, "forwardAxis") \subseteq {"not-applicable"}

PoseFits03(m, p) ==
  \A f \in Linked(m, p, "frameId", "coordinateFrames") : p.axes = f.dimension

Geometries(m, b) ==
  UNION {{r \in Linked(m, a, "realizationIds", "realizations") : r.kind = {"geometry"}} :
           a \in Linked(m, b, "logicalAssetId", "logicalAssets")}

GeometryFits03(m, b) ==
  /\ \A a \in Linked(m, b, "logicalAssetId", "logicalAssets") :
       a.roles \cap {"spatial-model", "three-dimensional-model"} # {}
  /\ Geometries(m, b) # {}
  /\ At(b, "selectorType") = {"gltf-node-index"} =>
       \E r \in Geometries(m, b) : At(r, "mediaType") = {"gltf"}

PosesOf(m, x) == Linked(m, x, "sourcePoseId", "poses") \cup Linked(m, x, "receiverPoseId", "poses")

RootsOf(m, poses) == UNION {FrameRoot(m, Val(p, "frameId")) : p \in poses}

(* Here, and only here, both poses of a measurement have to be there.      *)
MeasurementFits03(m, x) ==
  /\ Linked(m, x, "sourcePoseId", "poses") # {}
  /\ Linked(m, x, "receiverPoseId", "poses") # {}
  /\ \A f \in {"sourceId", "receiverId", "spaceId", "sourceSpaceId", "receivingSpaceId",
               "separatingElementId", "configurationId", "stateId"} : Into(m, x, f, "entities")
  /\ \A p \in Linked(m, x, "sourcePoseId", "poses") : p.subjectId = At(x, "sourceId")
  /\ \A p \in Linked(m, x, "receiverPoseId", "poses") : p.subjectId = At(x, "receiverId")
  /\ Cardinality(RootsOf(m, PosesOf(m, x))) <= 1

MappedOnce(maps, x) ==
  /\ \A k, l \in DOMAIN maps : k # l =>
       /\ maps[k].measurement # maps[l].measurement
       /\ maps[k].index = maps[l].index => maps[k].index = -1
  /\ Covered(maps, x)

ImpulseFits03(r, id, x) ==
  /\ r.kind = {"audio"}
  /\ Has(r, "measurementMappings")
  /\ At(r, "responseSetId") = {id}
  /\ \A maps \in At(r, "measurementMappings") :
       /\ MappedOnce(maps, x)
       /\ \A k \in DOMAIN maps : \A c \in maps[k].channels, n \in At(r, "channelCount") : c < n
       /\ At(r, "encoding") \cap {"WAV", "FLAC"} # {} => Len(maps) = 1
  /\ \A s \in At(x, "status") : r.representationStatus = {s}

ResponseFits03(m, id) ==
  LET x == m.responseSets[id] IN
  /\ Has(x, "generatedById")
  /\ \A a \in Linked(m, x, "logicalAssetId", "logicalAssets") :
       /\ "impulse-response" \in a.roles
       /\ Linked(m, a, "realizationIds", "realizations") # {}
       /\ \A r \in Linked(m, a, "realizationIds", "realizations") : ImpulseFits03(r, id, x)

MaterialFits03(x) ==
  \A f \in {"absorption", "scattering", "transmissionLossDB"} :
     At(x, f) \subseteq {Len(Val(x, "bandAxis").centers)}

FallbackDeclared(c) == At(c, "outsideDomainPolicy") = {"fallback"} => Has(c, "fallbackIds")

(* A capability that is claimed of the acoustics is there.                 *)
CapabilitiesShown(m) ==
  LET claimed   == Capabilities(m, "acoustics")
      responses == Holds(m, "responseSets")
      measured  == UNION {RootsOf(m, PosesOf(m, x)) : x \in Holds(m, "measurements")}
      geometry  == UNION {UNION {FrameRoot(m, Val(r, "coordinateFrameId")) : r \in Geometries(m, b)} :
                            b \in Holds(m, "geometryBindings")}
  IN
  /\ claimed \cap {"position-registered-scene", "visual-acoustic-scene"} # {} =>
       Holds(m, "measurements") # {}
  /\ "position-registered-scene" \in claimed => measured # {}
  /\ "visual-acoustic-scene" \in claimed => responses # {} /\ geometry \cap measured # {}
  /\ "measured-impulse-response" \in claimed => \E x \in responses : x.status = {"measured"}
  /\ "simulated-impulse-response" \in claimed =>
       \E x \in responses : x.status \subseteq {"simulated", "hybrid"}
  /\ "semantic-building-model" \in claimed =>
       /\ {"building", "space", "boundary"} \subseteq UNION {e.kind : e \in Holds(m, "entities")}
       /\ \E b \in Holds(m, "geometryBindings") : b.role = {"authoritative-semantic"}
  /\ "spatial-response-field" \in claimed => \E x \in responses : Has(x, "interpolation")
  /\ "spatial-audio-scene" \in claimed => Holds(m, "audioScenes") # {}

AcousticRegistries ==
  {"coordinateFrames", "poses", "geometryBindings", "materialModels", "measurements",
   "responseSets", "metricSets", "audioScenes", "renderConfigurations"}

AcousticCapabilities ==
  {"position-registered-scene", "visual-acoustic-scene", "measured-impulse-response",
   "simulated-impulse-response", "semantic-building-model", "spatial-response-field",
   "spatial-audio-scene"}

AcousticsFit03(m) ==
  /\ "acoustics" \in ProfileIds(m) =>
       /\ "spatial" \in ProfileIds(m)
       /\ Capabilities(m, "acoustics") \cap AcousticCapabilities # {}
  /\ {"acoustics", "spatial"} \cap ProfileIds(m) # {} => AcousticRegistries \cap DOMAIN m # {}
  /\ Resolve(m, AcousticReferences)
  /\ MadeByMakers(m)
  /\ \A f \in Holds(m, "coordinateFrames") : FrameFits03(f)
  /\ FramesAcyclic(m)
  /\ \A p \in Holds(m, "poses") : PoseFits03(m, p)
  /\ \A b \in Holds(m, "geometryBindings") : GeometryFits03(m, b)
  /\ \A x \in Holds(m, "measurements") : MeasurementFits03(m, x)
  /\ \A id \in Ids(m, "responseSets") : ResponseFits03(m, id)
  /\ \A x \in Holds(m, "materialModels") : MaterialFits03(x)
  /\ \A c \in Holds(m, "renderConfigurations") : FallbackDeclared(c)
  /\ CapabilitiesShown(m)

-----------------------------------------------------------------------------
(* Playable records.                                                       *)
Usable(r) == r.status \subseteq {"asserted", "reviewed", "accepted"}

EvidenceFits(m, r) ==
  /\ r.status = {"inferred"} \/ r.source = {"algorithmic"} => Has(r, "generatedById")
  /\ At(r, "generatedById") \subseteq Evidencing(m)
  /\ ~(r.source = {"algorithmic"} /\ r.status = {"asserted"})

IsAudio(m, r, f) ==
  /\ Into(m, r, f, "realizations")
  /\ \A audio \in Linked(m, r, f, "realizations") : audio.kind = {"audio"}

RegionFits(m, r) ==
  /\ IsAudio(m, r, "realizationId")
  /\ Increases(r, "start", "endExclusive")
  /\ \A audio \in Linked(m, r, "realizationId", "realizations") :
       \A e \in r.endExclusive, n \in At(audio, "frameCount") : e <= n

LoopFits(m, l) ==
  LET regions == Linked(m, l, "regionIds", "signalRegions") IN
  /\ Into(m, l, "regionIds", "signalRegions")
  /\ \A r \in regions : r.role = {"sustain-loop"}
  /\ Cardinality({r.realizationId : r \in regions}) <= 1
  /\ \A x \in At(l, "crossfadeFrames"), r \in regions :
       \A s \in r.start, e \in r.endExclusive : x <= e - s
  /\ At(l, "reviewedById") \subseteq Evidencing(m)

PerspectiveFits(m, p) ==
  /\ IsAudio(m, p, "realizationIds")
  /\ \A r \in Linked(m, p, "realizationIds", "realizations") :
       \A c \in At(p, "channelIndices"), n \in At(r, "channelCount") : c < n
  /\ Into(m, p, "poseIds", "poses")
  /\ At(p, "geometryStatus") = {"position-registered"} =>
       Has(p, "poseIds") /\ "spatial" \in ProfileIds(m)

(* Slip: a variant may use whatever it names.                              *)
VariantNames(m, v) ==
  /\ IsAudio(m, v, "realizationId")
  /\ \A r \in Linked(m, v, "signalRegionIds", "signalRegions") : r.realizationId = v.realizationId

VariantFits(m, v) ==
  LET regions      == Linked(m, v, "signalRegionIds", "signalRegions")
      loops        == Linked(m, v, "loopPointSetIds", "loopPointSets")
      perspectives == Linked(m, v, "perspectiveGroupId", "perspectiveGroups")
  IN
  /\ IsAudio(m, v, "realizationId")
  /\ Into(m, v, "signalRegionIds", "signalRegions")
  /\ Into(m, v, "loopPointSetIds", "loopPointSets")
  /\ Into(m, v, "perspectiveGroupId", "perspectiveGroups")
  /\ \A r \in regions : r.realizationId = v.realizationId /\ Usable(r)
  /\ \A l \in loops :
       /\ UNION {r.realizationId : r \in Linked(m, l, "regionIds", "signalRegions")} = v.realizationId
       /\ Usable(l)
  /\ \A p \in perspectives : v.realizationId \subseteq p.realizationIds /\ Usable(p)

VariantsOf(m, x) == Linked(m, x, "variantIds", "sampleVariants")

MappingFits03(m, x) ==
  /\ Ordered(x, "lowKey", "highKey") /\ Ordered(x, "lowVelocity", "highVelocity")
  /\ \A f \in {"instrumentEntityId", "componentEntityId", "rankEntityId"} : Into(m, x, f, "entities")
  /\ \A e \in Linked(m, x, "instrumentEntityId", "entities") : e.kind = {"instrument"}
  /\ Into(m, x, "tuningMapId", "tuningMaps")
  /\ \A t \in Linked(m, x, "tuningMapId", "tuningMaps") : Usable(t)
  /\ Into(m, x, "variantIds", "sampleVariants")
  /\ \E v \in VariantsOf(m, x) : v.trigger = {"note-on"}
  /\ \A v \in VariantsOf(m, x) : Usable(v)
  /\ x.noteOffPolicy = {"recorded-release"} =>
       \E v \in VariantsOf(m, x) : v.trigger = {"note-off"} /\ v.signalRole = {"release"}

(* An interaction does something.                                          *)
InteractionActive(m, id) ==
  /\ {"interactionType", "controlProtocol", "controlDomain", "timingPolicy"}
       \subseteq At(m.entities[id], "properties")
  /\ \E r \in Holds(m, "relations") :
       /\ r.subjectId = {id} /\ r.predicate \subseteq {"activates", "modulates"}
       /\ r.status \cap {"rejected", "superseded"} = {}

SampleCapabilities ==
  {"sampled-instrument-playback", "sample-looping", "tuning-map", "multi-perspective-sampling",
   "recorded-release", "source-sampler-semantics"}

PlayableShown(m) ==
  LET claimed  == Capabilities(m, "playable")
      mappings == Holds(m, "sampleMappings")
      usable   == {x \in mappings : Usable(x)}
      mapped   == UNION {VariantsOf(m, x) : x \in {y \in usable : \A v \in VariantsOf(m, y) : Usable(v)}}
  IN
  /\ claimed \cap SampleCapabilities # {} => "sampled-instrument-playback" \in claimed
  /\ "sampled-instrument-playback" \in claimed => usable # {}
  /\ "sample-looping" \in claimed => \E v \in mapped : Has(v, "loopPointSetIds")
  /\ "tuning-map" \in claimed => \E x \in usable : Has(x, "tuningMapId")
  /\ "multi-perspective-sampling" \in claimed =>
       Cardinality(UNION {At(v, "perspectiveGroupId") : v \in mapped}) >= 2
  /\ "recorded-release" \in claimed => \E x \in mappings : x.noteOffPolicy = {"recorded-release"}
  /\ "source-sampler-semantics" \in claimed =>
       /\ \E x \in mappings : x.source = {"native-definition"}
       /\ \E v \in Holds(m, "sampleVariants") :
            v.source \subseteq {"native-definition", "embedded-metadata"}

PlayableRegistries ==
  {"signalRegions", "loopPointSets", "tuningMaps", "perspectiveGroups", "sampleVariants",
   "sampleMappings"}

InteractionsActive(m) ==
  LET interactions == {id \in Ids(m, "entities") : m.entities[id].kind = {"interaction"}} IN
  /\ interactions # {}
  /\ \A id \in interactions : InteractionActive(m, id)

PlayableFit(m) ==
  /\ "playable" \in ProfileIds(m) =>
       /\ "playable" \in Object(m).conformsTo
       /\ Capabilities(m, "playable") \cap {"interaction", "playable-interaction"} # {}
       /\ InteractionsActive(m)
  /\ PlayableRegistries \cap DOMAIN m # {} => "playable" \in ProfileIds(m)
  /\ \A g \in PlayableRegistries : \A r \in Holds(m, g) : EvidenceFits(m, r)
  /\ \A r \in Holds(m, "signalRegions") : RegionFits(m, r)
  /\ \A l \in Holds(m, "loopPointSets") : LoopFits(m, l)
  /\ \A p \in Holds(m, "perspectiveGroups") : PerspectiveFits(m, p)
  /\ \A v \in Holds(m, "sampleVariants") : VariantFits(m, v)
  /\ \A x \in Holds(m, "sampleMappings") : MappingFits03(m, x)
  /\ PlayableShown(m)

-----------------------------------------------------------------------------
(* Documentation of a capture.                                             *)
CaptureRegistries == {"captureStates", "eventAlignments", "takeSets", "derivationMaps"}

CaptureStateFits(m, s) ==
  /\ \E e \in Linked(m, s, "instrumentEntityId", "entities") : e.kind = {"instrument"}
  /\ Into(m, s, "stateVariableIds", "stateVariables")

WithinAudio(m, r, f) ==
  /\ Increases(r, "start", "endExclusive")
  /\ \A audio \in Linked(m, r, f, "realizations") :
       \A e \in At(r, "endExclusive"), n \in At(audio, "frameCount") : e <= n

AlignmentFits(m, a) ==
  /\ IsAudio(m, a, "audioRealizationId")
  /\ Into(m, a, "eventLogRealizationId", "realizations")
  /\ Into(m, a, "eventTypeIds", "eventTypes")
  /\ WithinAudio(m, a, "audioRealizationId")

TakeSetFits(m, t) ==
  /\ Into(m, t, "captureStateId", "captureStates")
  /\ Into(m, t, "realizationIds", "realizations")
  /\ t.setRole = {"round-robin"} => t.selectionStatus = {"accepted"}

DerivationFits(m, d) ==
  /\ Into(m, d, "sourceRealizationId", "realizations")
  /\ Into(m, d, "derivedRealizationId", "realizations")
  /\ d.sourceRealizationId # d.derivedRealizationId
  /\ WithinAudio(m, d, "sourceRealizationId")
  /\ \A r \in Linked(m, d, "sourceRealizationId", "realizations") :
       \A c \in At(d, "channelMap"), n \in At(r, "channelCount") : c < n
  /\ At(d, "activityIds") \subseteq Evidencing(m)

DerivationsAcyclic(m) ==
  Acyclic(UNION {d.sourceRealizationId \X d.derivedRealizationId : d \in Holds(m, "derivationMaps")})

CaptureFits(m) ==
  /\ CaptureRegistries \cap DOMAIN m # {} => "playable" \in ProfileIds(m)
  /\ \A g \in CaptureRegistries : \A r \in Holds(m, g) :
       EvidenceFits(m, r) /\ At(r, "reviewedById") \subseteq Evidencing(m)
  /\ \A s \in Holds(m, "captureStates") : CaptureStateFits(m, s)
  /\ \A a \in Holds(m, "eventAlignments") : AlignmentFits(m, a)
  /\ \A t \in Holds(m, "takeSets") : TakeSetFits(m, t)
  /\ \A d \in Holds(m, "derivationMaps") : DerivationFits(m, d)
  /\ DerivationsAcyclic(m)
  /\ "capture-event-alignment" \in Capabilities(m, "playable") =>
       \E a \in Holds(m, "eventAlignments") : Usable(a)

-----------------------------------------------------------------------------
(* The core: entities, assets, their realizations, and their delivery.     *)
FocusFits(m) ==
  /\ Object(m).primaryEntityId \subseteq Object(m).focusEntityIds
  /\ Object(m).primaryEntityId \cup Object(m).focusEntityIds \subseteq Ids(m, "entities")

(* What 0.3 gives global identifiers to: neither profiles nor the object.  *)
Declared(m) ==
  UNION {DOMAIN m[g] : g \in DOMAIN m \ {"object", "profiles", "materializableProfiles"}}

RelationFits(m, r) ==
  r.subjectId \cup At(r, "evidenceIds") \cup At(r, "generatedByIds") \subseteq Declared(m)

(* An asset and its realizations know each other.                          *)
AssetsInverse(m) ==
  /\ \A a \in Holds(m, "logicalAssets") : Into(m, a, "aboutEntityIds", "entities")
  /\ \A id \in Ids(m, "logicalAssets") :
       \A r \in m.logicalAssets[id].realizationIds :
         r \in Ids(m, "realizations") /\ m.realizations[r].assetId = {id}
  /\ \A id \in Ids(m, "realizations") :
       \A a \in m.realizations[id].assetId :
         a \in Ids(m, "logicalAssets") /\ id \in m.logicalAssets[a].realizationIds

RealizationFits(m, r) ==
  /\ Into(m, r, "distributionIds", "distributions")
  /\ Into(m, r, "rightsIds", "rights")
  /\ At(r, "provenanceIds") \subseteq Evidencing(m)
  /\ r.kind = {"geometry"} => Linked(m, r, "coordinateFrameId", "coordinateFrames") # {}
  /\ AmbisonicsFit(r)

ZenodoUsed(m) ==
  \E d \in Holds(m, "distributions") :
     /\ d.kind = {"repository"}
     /\ \E b \in Linked(m, d, "repositoryBindingId", "repositoryBindings") :
          b.repositoryType = {"zenodo"}

DistributionFits(m, d) ==
  /\ d.kind = {"repository"} =>
       /\ Linked(m, d, "repositoryBindingId", "repositoryBindings") # {}
       /\ \A b \in Linked(m, d, "repositoryBindingId", "repositoryBindings") :
            b.repositoryType = {"zenodo"} =>
              /\ At(d, "conceptIdentifier") # d.persistentIdentifier
              /\ d.resolver \subseteq {"zenodo", "zenodo-sandbox"}
  /\ d.kind = {"pack-member"} => Into(m, d, "packRealizationId", "realizations")

ProfilesFit03(m) ==
  /\ {"core", "dynamic"} \subseteq Ids(m, "profiles") \cap Object(m).conformsTo
  /\ Ids(m, "profiles") \cap Ids(m, "materializableProfiles") = {}
  /\ ("zenodo" \in Ids(m, "profiles")) = ZenodoUsed(m)
  /\ \A p \in Ids(m, "materializableProfiles") :
       /\ Into(m, m.materializableProfiles[p], "groupIds", "assetGroups")
       /\ \A g \in Linked(m, m.materializableProfiles[p], "groupIds", "assetGroups") :
            p \in At(g, "materializesProfileIds")

ByteSum(m, ids) ==
  LET Sum[S \in SUBSET ids] ==
        IF S = {} THEN 0
        ELSE LET r == CHOOSE r \in S : TRUE IN Val(m.realizations[r], "byteSize") + Sum[S \ {r}]
  IN  Sum[ids]

GroupsFit(m) ==
  /\ Resolve(m, {<<"assetGroups", "realizationIds", "realizations">>,
                 <<"assetGroups", "dependsOnGroupIds", "assetGroups">>,
                 <<"assetGroups", "fallbackGroupId", "assetGroups">>})
  /\ \A g \in Holds(m, "assetGroups") :
       g.totalByteSize = {ByteSum(m, g.realizationIds \cap Ids(m, "realizations"))}
  /\ Acyclic(Edges(m, "assetGroups", "dependsOnGroupIds"))
  /\ Acyclic(Edges(m, "assetGroups", "fallbackGroupId"))
  /\ \E g \in Holds(m, "assetGroups") : g.qualityTier = {"bootstrap"} /\ g.realizationIds # {}

RightsCover(m) ==
  Ids(m, "object") \cup Ids(m, "logicalAssets") \cup Ids(m, "realizations")
    \subseteq UNION {r.appliesToIds : r \in Holds(m, "rights")}

(* Identifiers are declared once.                                          *)
DistinctIds(m) ==
  \A g, h \in DOMAIN m : g # h => DOMAIN m[g] \cap DOMAIN m[h] = {}

ManifestFits03(m) ==
  /\ DistinctIds(m)
  /\ FocusFits(m)
  /\ \A r \in Holds(m, "relations") : RelationFits(m, r)
  /\ AssetsInverse(m)
  /\ \A r \in Holds(m, "realizations") : RealizationFits(m, r)
  /\ \A d \in Holds(m, "distributions") : DistributionFits(m, d)
  /\ ProfilesFit03(m)
  /\ AcousticsFit03(m)
  /\ PlayableFit(m)
  /\ CaptureFits(m)
  /\ GroupsFit(m)
  /\ RightsCover(m)
=============================================================================
