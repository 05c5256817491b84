-------------------------- MODULE LegacyExperience --------------------------
(***************************************************************************)
(* The acoustics and the experiences of a manifest of 0.2, and the whole   *)
(* of what validate_manifest() asks (contract/vao-0.5.0/Tools/vaom.py:     *)
(* 2442-3183, 3185-3943 and 520-3958).  An experience is an entity that   *)
(* presents others, and from it relations that have not been rejected lead *)
(* to models, media and performances.  Policies, clocks and layers are     *)
(* records in the fields of entities and assets; where a thing stands,     *)
(* whether its coordinates are all stated and its dimensions positive is   *)
(* one mark of its record.                                                 *)
(***************************************************************************)
EXTENDS LegacyContract

-----------------------------------------------------------------------------
(* Coordinate frames, poses, geometry, materials, measured and learned     *)
(* responses, metrics, scenes and the ways to render them.  The records    *)
(* nested in another lead back to it.  A matrix is known by whether it can *)
(* be inverted, an orientation by its length in units of which UnitLength  *)
(* make one, and a time by the order of its text, which is what the code   *)
(* compares.                                                               *)
CONSTANT UnitLength           \* the length of a unit quaternion

ASSUME AcousticsAssumption == UnitLength \in Nat \ {0}

AcousticCapabilities ==
  {"semantic-building-model", "measured-impulse-response", "spatial-response-field", "source-directivity",
   "room-acoustic-metrics", "building-acoustic-performance", "spatial-audio-scene",
   "tracked-listener-convolution", "tracked-sources", "geometry-acoustic-rendering",
   "hybrid-acoustic-rendering", "learned-acoustic-field"}

CapableOf(m, profile) ==
  UNION {At(m.profiles[p], "requiredCapabilities") : p \in Ids(m, "profiles") \cap {profile}}

HasAcoustics(m) == TheObject(m).acoustics = {TRUE}

Part(m, registry, field, id) == {r \in Holds(m, registry) : r[field] = {id}}

MethodOf(m, r) == UNION {At(a, "methodType") : a \in Linked(m, r, "generatedById", "paradata")}

(* References: rows of a registry, a field, and the registry it leads to.  *)
To(registry, fields, target) == {<<registry, f, target>> : f \in fields}

Rooms == {"sourceId", "receiverId", "sourceSpaceId", "receivingSpaceId", "separatingElementId"}

AcousticReferences ==
  UNION
  {To("coordinateFrames", {"parentFrameId"}, "coordinateFrames"),
   To("poses", {"subjectId"}, "entities"), To("poses", {"frameId"}, "coordinateFrames"),
   To("geometryBindings", {"subjectId"}, "entities"), To("geometryBindings", {"assetId"}, "assets"),
   To("geometryBindings", {"frameId"}, "coordinateFrames"), To("geometryBindings", {"generatedById"}, "paradata"),
   To("materialModels", {"materialEntityId", "environmentStateId"}, "entities"),
   To("materialModels", {"surfaceImpedanceAssetId"}, "assets"),
   To("responseSets", {"responseEntityId"}, "entities"), To("responseSets", {"assetId"}, "assets"),
   To("measurements", Rooms \cup {"spaceId", "configurationId", "stateId", "transmissionPathIds"}, "entities"),
   To("measurements", {"sourcePoseId", "receiverPoseId"}, "poses"),
   To("interpolations", {"domain"}, "entities"), To("interpolations", {"fallbackResponseSetId"}, "responseSets"),
   To("interpolations", {"modelAssetId"}, "assets"), To("interpolations", {"qualityMetricSetId"}, "metricSets"),
   To("metrics", Rooms, "entities"),
   To("audioScenes", {"sceneEntityId"}, "entities"), To("audioScenes", {"coordinateFrameId"}, "coordinateFrames"),
   To("audioScenes", {"mediaAssetIds", "metadataAssetId"}, "assets"), To("audioScenes", {"generatedById"}, "paradata"),
   To("sceneBindings", {"entityId"}, "entities"), To("sceneBindings", {"mediaAssetId"}, "assets"),
   To("sceneBindings", {"poseId"}, "poses"), To("sceneBindings", {"directivityResponseSetId"}, "responseSets"),
   To("renderConfigurations", {"sceneId"}, "audioScenes"), To("renderConfigurations", {"validDomainId"}, "entities"),
   To("renderConfigurations", {"coordinateFrameId"}, "coordinateFrames"),
   To("listeners", {"receiverId"}, "entities"), To("listeners", {"coordinateFrameId"}, "coordinateFrames"),
   To("listeners", {"poseId"}, "poses"),
   To("listeners", {"trajectoryAssetId", "personalizationAssetId", "headphoneCompensationAssetId"}, "assets")}

(* And those that may lead to anything in the manifest.                    *)
AnywhereReferences ==
  {<<"poses", {"configurationId", "stateId", "trajectoryAssetId", "generatedById"}>>,
   <<"interpolations", {"trainingInputIds", "validationInputIds"}>>,
   <<"metricSets", {"subjectIds", "inputIds"}>>, <<"renderConfigurations", {"inputIds", "fallbackIds"}>>}

ReferencesHold(m) ==
  /\ Resolve(m, AcousticReferences)
  /\ \A row \in AnywhereReferences :
       \A r \in Holds(m, row[1]), f \in row[2] : At(r, f) \subseteq Everything(m)

-----------------------------------------------------------------------------
(* Frames form trees, by transforms that can be undone; a pose is a        *)
(* position of the dimension of its frame, and a direction.                *)
FrameHolds(f) ==
  /\ Has(f, "parentFrameId") = Has(f, "transformToParent")
  /\ \A t \in At(f, "transformToParent") : t.invertible
  /\ f.dimension = {2} => At(f, "handedness") = {"not-applicable"}

FramesHold(m) ==
  /\ \A f \in Holds(m, "coordinateFrames") : FrameHolds(f)
  /\ Acyclic(Edges(m, "coordinateFrames", "parentFrameId"))

PoseHolds(m, p) ==
  /\ \A f \in Linked(m, p, "frameId", "coordinateFrames"), position \in At(p, "position") :
       {Len(position)} = f.dimension
  /\ At(p, "orientationLength") \subseteq {UnitLength}
  /\ Ordered(p, "validFrom", "validUntil")

BindingHolds(m, b) ==
  /\ At(b, "selectorType") = {"gltf-node-index"} =>
       /\ \A a \in Linked(m, b, "assetId", "assets") : a.mediaType \subseteq {"model/gltf+json", "model/gltf-binary"}
       /\ Has(b, "nodeIndex")
  /\ At(b, "selectorType") = {"usd-prim-path"} => At(b, "absolute") = {TRUE}

(* Bands ascend, and what is given for bands is given for each of them.    *)
AxisHolds(r) ==
  \A bands \in At(r, "bands") : \A i, j \in DOMAIN bands : bands[i] > 0 /\ (i < j => bands[i] < bands[j])

Bands(r) == UNION {DOMAIN bands : bands \in At(r, "bands")}

ForEachBand(axis, r, fields) == \A f \in fields : \A values \in At(r, f) : DOMAIN values = Bands(axis)

MaterialHolds(m, r) ==
  /\ MethodOf(m, r) # {}
  /\ MethodOf(m, r) \subseteq {"material-characterization", "simulation", "manual-authoring", "machine-learning-inference"}
  /\ AxisHolds(r) /\ ForEachBand(r, r, {"absorption", "scattering", "transmissionLossDB"})

MetricSetHolds(m, id) ==
  LET s == m.metricSets[id] IN
  /\ MethodOf(m, s) = {"metric-calculation"}
  /\ AxisHolds(s)
  /\ \A x \in Part(m, "metrics", "metricSetId", id) :
       Has(x, "values") /\ ForEachBand(s, x, {"values", "uncertainties"})

-----------------------------------------------------------------------------
(* Responses.  A measured one comes from a measurement; a file of sound    *)
(* holds one; and a learned field says what it was trained with, which     *)
(* model it asks, and what to fall back to that is not learned itself.     *)
TrainedBy(m, model) ==
  {a \in Holds(m, "paradata") : a.methodType = {"machine-learning-training"} /\ model \in At(a, "outputIds")}

NeuralFieldHolds(m, r, i) ==
  /\ \A f \in {"modelAssetId", "trainingInputIds", "validationInputIds", "qualityMetricSetId", "fallbackResponseSetId"} :
       Has(i, f)
  /\ \A a \in Linked(m, i, "modelAssetId", "assets") : "acoustic-model" \in a.roles
  /\ \E a \in Linked(m, r, "generatedById", "paradata") :
       a.methodType = {"machine-learning-inference"} /\ i.modelAssetId \subseteq At(a, "inputIds")
  /\ \A model \in i.modelAssetId : TrainedBy(m, model) # {}
  /\ \A f \in Linked(m, i, "fallbackResponseSetId", "responseSets") :
       f.representationStatus \cap {"learned", "hybrid"} = {}
  /\ Has(i, "determinism") /\ (i.determinism = {"seeded"} => Has(i, "seed"))

ResponseHolds(m, id) ==
  LET r == m.responseSets[id]
      interpolations == Part(m, "interpolations", "responseSetId", id)
  IN  /\ MethodOf(m, r) # {}
      /\ r.representationStatus = {"measured"} => MethodOf(m, r) \subseteq {"measurement", "deconvolution"}
      /\ \/ r.responseKind \subseteq {"hrtf", "directivity", "sound-field"}
         \/ \E a \in Linked(m, r, "assetId", "assets") : "impulse-response" \in a.roles
      /\ r.encoding = {"AES69-SOFA"} => \A a \in Linked(m, r, "assetId", "assets") : At(a, "suffix") = {".sofa"}
      /\ r.encoding \subseteq {"WAV", "FLAC"} =>
           /\ Cardinality({k \in Ids(m, "measurements") : m.measurements[k].responseSetId = {id}}) = 1
           /\ interpolations = {}
      /\ \A i \in interpolations : i.method = {"neural-field"} => NeuralFieldHolds(m, r, i)

SceneHolds(m, s) ==
  s.representationType = {"ITU-ADM-BW64"} =>
    \E a \in Linked(m, s, "mediaAssetIds", "assets") : At(a, "suffix") \subseteq {".wav", ".bw64"} /\ Has(a, "suffix")

Neural(m) == {i.responseSetId : i \in {x \in Holds(m, "interpolations") : x.method = {"neural-field"}}}

ConfigurationHolds(m, c) ==
  /\ At(c, "outsideDomainPolicy") = {"fallback"} => Has(c, "fallbackIds")
  /\ c.strategy = {"learned-field"} => \E id \in At(c, "inputIds") : {id} \in Neural(m)

-----------------------------------------------------------------------------
(* What a capability says that the manifest has.                           *)
CapabilityHolds(m, capability) ==
  LET Responses == Holds(m, "responseSets")
      Renderings == Holds(m, "renderConfigurations")
      LedBy(id) == Part(m, "listeners", "configurationId", id)
  IN  CASE capability = "semantic-building-model" ->
             /\ {"building", "space", "boundary"} \subseteq UNION {e.kind : e \in Holds(m, "entities")}
             /\ \E b \in Holds(m, "geometryBindings") : At(b, "role") = {"authoritative-semantic"}
        [] capability = "measured-impulse-response" -> \E r \in Responses : r.representationStatus = {"measured"}
        [] capability = "spatial-response-field"    -> Ids(m, "interpolations") # {}
        [] capability = "source-directivity"        -> \E r \in Responses : r.responseKind = {"directivity"}
        [] capability = "room-acoustic-metrics"     -> Ids(m, "metricSets") # {}
        [] capability = "building-acoustic-performance" ->
             \E x \in Holds(m, "metrics") :
               \A f \in {"sourceSpaceId", "receivingSpaceId", "separatingElementId"} : Has(x, f)
        [] capability = "spatial-audio-scene"       -> Ids(m, "audioScenes") # {}
        [] capability = "tracked-listener-convolution" ->
             \E c \in Ids(m, "renderConfigurations") :
               /\ m.renderConfigurations[c].strategy \subseteq {"tracked-convolution", "response-interpolation"}
               /\ \E l \in LedBy(c) : At(l, "mode") \cap {"tracked-3dof", "tracked-6dof"} # {}
        [] capability = "tracked-sources" ->
             \E f \in Holds(m, "features") :
               f.feature = {"source-tracking"} /\ At(f, "mode") # {"disabled"} /\ Has(f, "inputIds")
        [] capability = "geometry-acoustic-rendering" ->
             /\ \E c \in Renderings : c.strategy \subseteq {"geometry-acoustics", "hybrid"}
             /\ Ids(m, "materialModels") # {}
        [] capability = "hybrid-acoustic-rendering" -> \E c \in Renderings : c.strategy = {"hybrid"}
        [] capability = "learned-acoustic-field"    ->
             \E id \in Ids(m, "responseSets") :
               {id} \in Neural(m) /\ m.responseSets[id].representationStatus \subseteq {"learned", "hybrid"}
        [] OTHER -> TRUE

AcousticsProfileHolds(m) ==
  "acoustics" \in Ids(m, "profiles") =>
    /\ "spatial" \in Ids(m, "profiles") /\ "acoustics" \in TheObject(m).conformsTo
    /\ HasAcoustics(m)
    /\ CapableOf(m, "acoustics") \cap AcousticCapabilities # {}

SpatialHolds(m) ==
  "spatial" \in Ids(m, "profiles") =>
    /\ HasAcoustics(m) /\ Ids(m, "coordinateFrames") # {}
    /\ Ids(m, "poses") # {} \/ Ids(m, "geometryBindings") # {}

AcousticsHold(m) ==
  /\ AcousticsProfileHolds(m) /\ SpatialHolds(m)
  /\ HasAcoustics(m) =>
       /\ ReferencesHold(m) /\ FramesHold(m)
       /\ \A p \in Holds(m, "poses") : PoseHolds(m, p)
       /\ \A b \in Holds(m, "geometryBindings") : BindingHolds(m, b)
       /\ \A r \in Holds(m, "materialModels") : MaterialHolds(m, r)
       /\ \A id \in Ids(m, "responseSets") : ResponseHolds(m, id)
       /\ \A id \in Ids(m, "metricSets") : MetricSetHolds(m, id)
       /\ \A s \in Holds(m, "audioScenes") : SceneHolds(m, s)
       /\ \A c \in Holds(m, "renderConfigurations") : ConfigurationHolds(m, c)
       /\ \A c \in CapableOf(m, "acoustics") : CapabilityHolds(m, c)

-----------------------------------------------------------------------------
(* Experiences.                                                            *)
ExperienceCapabilities ==
  {"generic-model-viewing", "synchronized-media-animation", "image-target-ar", "surface-placement-ar",
   "spatial-listening-map", "offline-asset-groups", "replaceable-performance-media"}

InSpace == {"generic-model-viewing", "image-target-ar", "surface-placement-ar", "spatial-listening-map"}

Experiences(m, capability) ==
  {id \in OfKind(m, "experience") : At(m.entities[id], "experienceCapability") = {capability}}

(* Where the relations of one predicate lead, among entities of a kind and *)
(* among assets of a role and a kind of media.                             *)
EntitiesBy(m, id, predicate, kind) == ActiveTargets(m, id, predicate) \cap OfKind(m, kind)

(* And the relations themselves: two to the same target count twice.       *)
LinksTo(m, id, predicate, kind) ==
  {k \in Ids(m, "relations") :
     /\ m.relations[k] \in Related(m, id, predicate) /\ Current(m.relations[k])
     /\ At(m.relations[k], "objectId") \cap OfKind(m, kind) # {}}

(* Slip: a relation that has been rejected leads there too.                *)
AssetsByEver(m, id, predicate, role, media) ==
  {a \in Targets(m, id, predicate) \cap Ids(m, "assets") :
     role \in m.assets[a].roles /\ At(m.assets[a], "media") \cap media # {}}

AssetsBy(m, id, predicate, role, media) ==
  {a \in ActiveTargets(m, id, predicate) \cap Ids(m, "assets") :
     role \in m.assets[a].roles /\ At(m.assets[a], "media") \cap media # {}}

AnyMedia == {"audio", "video", "image", "model", "other"}

Presents(m, id, kinds) == \E k \in kinds : EntitiesBy(m, id, "presents", k) # {}

Placed(r) == At(r, "placed") = {TRUE}

ModelsHold(m, id) ==
  LET models == AssetsBy(m, id, "usesModel", "three-dimensional-model", AnyMedia)
                  \cup AssetsBy(m, id, "usesModel", "spatial-model", AnyMedia)
  IN  models # {} /\ \A a \in models : Placed(m.assets[a]) /\ Has(m.assets[a], "physicalDimensions")

ClockHolds(p) == \E c \in At(p, "timelineClock") : c.duration > 0 /\ c.offset >= 0

ViewingHolds(m, id) == Presents(m, id, {"instrument", "spatialRegion"}) /\ ModelsHold(m, id)

AnimationsOf(m, p) == AssetsBy(m, p, "drivesAnimation", "animation", AnyMedia)

SynchronizedHolds(m, id) ==
  LET performances == EntitiesBy(m, id, "hasPerformance", "performance") IN
  /\ Presents(m, id, {"instrument"})
  /\ performances # {}
  /\ \A p \in performances :
       /\ ClockHolds(m.entities[p])
       /\ AssetsBy(m, p, "usesMedia", "performance-media", {"audio", "video"}) # {}
       /\ AnimationsOf(m, p) # {}
       /\ LET triggers == ActiveTargets(m, p, "triggeredBy")
          IN  /\ triggers # {} => "playable" \in Ids(m, "profiles") \cap TheObject(m).conformsTo
              /\ triggers \subseteq OfKind(m, "interaction")

ImageTargetHolds(m, id) ==
  LET targets == AssetsBy(m, id, "usesTarget", "image-target", {"image"}) IN
  /\ ViewingHolds(m, id)
  /\ targets # {} /\ \A a \in targets : Has(m.assets[a], "physicalDimensions")
  /\ \A a \in ActiveTargets(m, id, "usesTrackingData") :
       a \in Ids(m, "assets") /\ "tracking-data" \in m.assets[a].roles

PlacementHolds(m, id) ==
  /\ ViewingHolds(m, id)
  /\ \E p \in At(m.entities[id], "placementPolicy") :
       p.surfaceAlignment \in {"horizontal", "vertical", "any"} /\ p.modelAnchor \in {"origin", "base-center"}

ListeningHolds(m, id) ==
  LET points == EntitiesBy(m, id, "hasListeningPoint", "spatialRegion") IN
  /\ Presents(m, id, {"place", "spatialRegion"})
  /\ points # {}
  /\ \A p \in points :
       /\ Placed(m.entities[p])
       /\ Has(m.entities[p], "coordinateUnit") /\ m.entities[p].coordinateUnit = At(m.entities[p], "positionUnit")
       /\ AssetsBy(m, p, "usesMedia", "spatial-listening-audio", {"audio"}) # {}

GroupsHold(m, id) ==
  LET groups == EntitiesBy(m, id, "offersAssetGroup", "assetGroup") IN
  /\ Presents(m, id, {"instrument"})
  /\ groups # {}
  /\ \A g \in groups :
       /\ \E p \in At(m.entities[g], "assetGroupPolicy") :
            /\ p.availability \in {"offline-optional", "offline-required"}
            /\ p.selection \in {"independent", "exclusive"}
       /\ ActiveTargets(m, g, "includesAsset") # {}
       /\ ActiveTargets(m, g, "includesAsset") \subseteq Ids(m, "assets")

-----------------------------------------------------------------------------
(* Media that can be replaced: configurations that each install a carrier  *)
(* of their own, with a label and performances, which interactions select, *)
(* install, eject, play and stop.                                          *)
CarriersOf(m, c) == EntitiesBy(m, c, "usesCarrier", "digitalObject")

PerformancesOf(m, carrier) == EntitiesBy(m, carrier, "hasPerformance", "performance")

CarrierHolds(m, carrier) ==
  /\ AssetsBy(m, carrier, "hasLabelImage", "carrier-label-image", {"image"}) # {}
  /\ PerformancesOf(m, carrier) # {}

TransportHolds(p) ==
  \E t \in At(p, "transportPolicy") :
    /\ t.masterClock = "audio" /\ t.start = "explicit" /\ t.pause = "hold" /\ t.stop = "reset"
    /\ t.seek \in {"allowed", "forbidden"}

LayersHold(m, a, targets) ==
  \E b \in At(m.assets[a], "animationBindings") :
    /\ b.blendPolicy \in {"parallel", "ordered"}
    /\ b.layers # {} /\ \A l \in b.layers : l # {} /\ l \subseteq targets

PerformanceHolds(m, p) ==
  LET targets == ActiveTargets(m, p, "targets") IN
  /\ ClockHolds(m.entities[p]) /\ TransportHolds(m.entities[p])
  /\ AssetsBy(m, p, "usesMedia", "performance-media", {"audio"}) # {}
  /\ targets # {} /\ targets \subseteq Ids(m, "entities")
  /\ AnimationsOf(m, p) # {} /\ \A a \in AnimationsOf(m, p) : LayersHold(m, a, targets)

TargetKind ==
  [select |-> "configuration", install |-> "digitalObject", eject |-> "digitalObject",
   play |-> "performance", pause |-> "performance", stop |-> "performance", seek |-> "performance",
   restart |-> "performance"]

StepHolds(m, step) ==
  step.action \in DOMAIN TargetKind /\ step.target \in OfKind(m, TargetKind[step.action])

Sequences02(m, id) == {At(m.entities[i], "actionSequence") : i \in EntitiesBy(m, id, "hasInteraction", "interaction")}

ReplaceableHolds(m, id) ==
  LET configurations == EntitiesBy(m, id, "offersConfiguration", "configuration")
      Carriers == UNION {CarriersOf(m, c) : c \in configurations}
      sequences == Sequences02(m, id)
  IN  /\ Presents(m, id, {"instrument"})
      /\ At(m.entities[id], "selectionPolicy") = {"exclusive"}
      /\ Cardinality(LinksTo(m, id, "offersConfiguration", "configuration")) >= 2
      /\ \A c \in configurations : Cardinality(LinksTo(m, c, "usesCarrier", "digitalObject")) = 1
      /\ Cardinality(Carriers) = Cardinality(LinksTo(m, id, "offersConfiguration", "configuration"))
      /\ \A carrier \in Carriers :
           CarrierHolds(m, carrier) /\ \A p \in PerformancesOf(m, carrier) : PerformanceHolds(m, p)
      /\ sequences # {} /\ {} \notin sequences
      /\ \A step \in UNION sequences : StepHolds(m, step)
      /\ {"select", "install", "eject", "play", "stop"} \subseteq {step.action : step \in UNION sequences}

-----------------------------------------------------------------------------
ExperienceHolds(m, capability, id) ==
  CASE capability = "generic-model-viewing"         -> ViewingHolds(m, id)
    [] capability = "synchronized-media-animation"  -> SynchronizedHolds(m, id)
    [] capability = "image-target-ar"               -> ImageTargetHolds(m, id)
    [] capability = "surface-placement-ar"          -> PlacementHolds(m, id)
    [] capability = "spatial-listening-map"         -> ListeningHolds(m, id)
    [] capability = "offline-asset-groups"          -> GroupsHold(m, id)
    [] capability = "replaceable-performance-media" -> ReplaceableHolds(m, id)

ExperiencesHold(m) ==
  "experiential" \in Ids(m, "profiles") =>
    LET known == CapableOf(m, "experiential") \cap ExperienceCapabilities IN
    /\ "experiential" \in TheObject(m).conformsTo
    /\ known # {}
    /\ known \cap InSpace # {} => "spatial" \in Ids(m, "profiles") \cap TheObject(m).conformsTo
    /\ \A c \in known : Experiences(m, c) # {} /\ \A id \in Experiences(m, c) : ExperienceHolds(m, c, id)

(* Preservation: what is known of each file, and names that differ on any  *)
(* file system.                                                            *)
PreservationHolds(m) ==
  "preservation" \in Ids(m, "profiles") =>
    /\ \A id \in Ids(m, "assets") :
         LET a == m.assets[id] IN
         /\ Has(a, "originalFilename") /\ Has(a, "createdAt")
         /\ a.roles \cap {"analysis-result", "audio-derivative"} # {} => id \in Generated(m)
    /\ \A r \in Holds(m, "rights") : Has(r, "accessCondition")
    /\ \A i, j \in Ids(m, "assets") : At(m.assets[i], "folded") = At(m.assets[j], "folded") => i = j

LegacyHolds(m) ==
  /\ RegistriesHold(m) /\ ProfilesHold(m)
  /\ InstrumentHolds(m) /\ AnalysesHold(m) /\ AcousticsHold(m)
  /\ ExperiencesHold(m) /\ PreservationHolds(m)
=============================================================================
