------------------------------- MODULE Manifest -------------------------------
(***************************************************************************)
(* The whole of a manifest, for the reference tools of 0.5.0: vao05's      *)
(* validate_manifest() with the projection to 0.3 that it retains, its     *)
(* rules for profiles and for delivery, and migrate_03_manifest().         *)
(*                                                                         *)
(* The rules for interaction models and for conformance traces are in      *)
(* InteractionContract.  Discovery metadata are the creators and           *)
(* contributors of the object.  The forms of identifiers, the schema and   *)
(* the number domain are left out: the manifests here satisfy them.        *)
(***************************************************************************)
EXTENDS RetainedContract, MultimodalContract, ScientificContract

Paradata == {"agents", "activities", "observations", "calibrations", "protocols",
             "softwareEnvironments", "consents"}

Interpretations == {"claims", "reviews"}

(* The registries that 0.3 does not know.                                  *)
Dropped == {"timebases", "tracks", "synchronizationMappings", "annotations", "components", "ports",
            "connections", "sensors", "actuators", "stateBindings", "randomSources", "renderers",
            "conformanceTraces", "quantities"}

(* The records of several registries in one.                               *)
Together(m, registries) ==
  LET Owner(id) == CHOOSE g \in registries : id \in Ids(m, g)
  IN  [id \in UNION {Ids(m, g) : g \in registries} |-> m[Owner(id)][id]]

Only(r, fields) == [f \in DOMAIN r \cap fields |-> r[f]]

Without(r, fields) == [f \in DOMAIN r \ fields |-> r[f]]

-----------------------------------------------------------------------------
(* The projection to 0.3.                                                  *)
TechnicalKinds == {"audio", "geometry", "image", "document", "data", "software", "other"}

RealizationTo03(r) ==
  With(Without(r, {"contentDigests", "chunks", "strategy", "merkleRoot", "indexRealizationId",
                   "streamingIndexRealizationId", "authenticityEnvelopeRealizationId",
                   "timebaseId", "trajectoryTrackId", "frameRate"}),
       "kind", IF r.kind \subseteq TechnicalKinds THEN r.kind ELSE {"data"})

(* The transforms have been judged by the rules of 0.5.                    *)
Identity == [affine |-> TRUE, planar |-> TRUE, linear |-> <<<<1, 0, 0>>, <<0, 1, 0>>, <<0, 0, 1>>>>]

FrameTo03(f) == IF Has(f, "transformToParent") THEN With(f, "transformToParent", {Identity}) ELSE f

(* A trajectory leads to the asset of its realization.                     *)
PoseTo03(m, p) ==
  IF ~Has(p, "trajectoryRealizationId") THEN p
  ELSE With(Without(p, {"trajectoryRealizationId"}), "trajectoryAssetId",
            IF Into(m, p, "trajectoryRealizationId", "realizations")
            THEN UNION {r.assetId : r \in Linked(m, p, "trajectoryRealizationId", "realizations")}
            ELSE p.trajectoryRealizationId)

DistributionTo03(d) == IF d.kind = {"carrier-member"} THEN With(d, "kind", {"repository"}) ELSE d

ProjectTo03(m) ==
  LET analyses == {"analyses"} \cup Interpretations
      kept     == DOMAIN m \ (Dropped \cup Paradata \cup analyses)
      To03(g, r) == CASE g = "realizations" -> RealizationTo03(r)
                      [] g = "coordinateFrames" -> FrameTo03(r)
                      [] g = "poses" -> PoseTo03(m, r)
                      [] g = "distributions" -> DistributionTo03(r)
                      [] OTHER -> r
  IN  With(With([g \in kept |-> [id \in DOMAIN m[g] |-> To03(g, m[g][id])]],
                "paradata", Together(m, Paradata)),
           "analyses", Together(m, analyses))

-----------------------------------------------------------------------------
(* References of every module.                                             *)
LocalFields ==
  {"subjectId", "subjectIds", "objectId", "evidenceIds", "generatedById", "generatedByIds",
   "reviewedById", "appliesToIds", "agentIds", "protocolId", "inputIds", "outputIds",
   "softwareEnvironmentId", "randomSourceId", "activityId", "validationIds", "sensorId",
   "calibrationId", "reviewIds", "reviewedId", "reviewerAgentId", "assetId", "realizationId",
   "realizationIds", "rightsIds", "provenanceIds", "distributionIds", "repositoryBindingId",
   "groupIds", "dependsOnGroupIds", "fallbackGroupId", "frameId", "localFrameId",
   "parentFrameId", "coordinateFrameId", "sourcePoseId", "receiverPoseId", "sourceId",
   "receiverId", "measurementIds", "responseSetId", "logicalAssetId", "timebaseId", "trackId",
   "sourceTimebaseId", "targetTimebaseId", "componentId", "portIds", "sourcePortId",
   "targetPortId", "variantIds", "signalRegionIds", "loopPointSetIds", "regionIds",
   "perspectiveGroupId", "tuningMapId", "instrumentEntityId", "creatorAgentIds",
   "primaryEntityId", "focusEntityIds", "indexRealizationId", "streamingIndexRealizationId",
   "consentIds", "performerAgentIds", "communityAuthorityIds"}

LocalReferencesResolve(m) ==
  \A g \in DOMAIN m : \A r \in Holds(m, g) : \A f \in DOMAIN r \cap LocalFields : r[f] \subseteq Known(m)

-----------------------------------------------------------------------------
(* Delivery.                                                               *)

(* Chunks in the order of their indices cover the bytes without a gap.     *)
ChunksCover(r, chunks) ==
  LET End[k \in 0 .. Len(chunks)] == IF k = 0 THEN 0 ELSE chunks[k].offset + chunks[k].length
  IN  /\ \A k \in DOMAIN chunks : chunks[k].index = k - 1 /\ chunks[k].offset = End[k - 1]
      /\ r.byteSize = {End[Len(chunks)]}

(* A root over the digests of the chunks, all of one algorithm.            *)
RootFits(r, chunks) ==
  \A root \in At(r, "merkleRoot") :
    /\ \A k \in DOMAIN chunks : chunks[k].algorithm = root.algorithm
    /\ root.over = [k \in DOMAIN chunks |-> chunks[k].digest]

ChunkingFits(m, r) ==
  /\ \A chunks \in At(r, "chunks") :
       IF chunks = <<>> THEN r.strategy \subseteq {"external-index", "zarr", "pack-shard"}
       ELSE ChunksCover(r, chunks) /\ RootFits(r, chunks)
  /\ \A f \in {"indexRealizationId", "streamingIndexRealizationId",
               "authenticityEnvelopeRealizationId"} : Into(m, r, f, "realizations")

DigestsFit(r) ==
  \A d, e \in At(r, "contentDigests") :
    /\ d[1] = e[1] => d = e
    /\ d[1] = "sha256" => r.sha256 = {d[2]}

RightsFit(m, x) ==
  /\ Into(m, x, "performerAgentIds", "agents")
  /\ Into(m, x, "communityAuthorityIds", "agents")
  /\ Into(m, x, "consentIds", "consents")
  /\ At(x, "privacyClassification") = {"community-governed"} => Has(x, "communityAuthorityIds")
  /\ Has(x, "embargoUntil") => Has(x, "embargoRationale")

DeliveryFits(m) ==
  /\ \A r \in Holds(m, "realizations") : DigestsFit(r) /\ ChunkingFits(m, r)
  /\ \A d \in Holds(m, "distributions") : d.kind = {"carrier-member"} =>
       /\ Linked(m, d, "repositoryBindingId", "repositoryBindings") # {}
       /\ At(d, "persistentIdentifier") # At(d, "conceptIdentifier")
  /\ \A x \in Holds(m, "rights") : RightsFit(m, x)
  /\ \A g \in Holds(m, "assetGroups") : At(g, "materializesProfileIds") \subseteq ProfileIds(m)

-----------------------------------------------------------------------------
(* What the contents require of the profiles.                              *)
RequiredCapabilities ==
  [core |-> {"core-graph", "fixity"}, dynamic |-> {"immutable-release", "carrier-mapping"},
   playable |-> {"interaction"}, scientific |-> {"typed-scientific-provenance"},
   multimodal |-> {"multimodal-synchronization"}, physical |-> {"physical-system-topology"},
   runtime |-> {"deterministic-render-trace"}, spatial |-> {"spatial"}]

InteractionRegistries == {"stateVariables", "transitions", "routingRules", "processModels", "controls",
                          "eventTypes", "transferFunctions", "renderBindings"}

ProfileContents ==
  [scientific |-> Paradata \cup Interpretations \cup {"analyses"},
   multimodal |-> {"timebases", "tracks", "synchronizationMappings", "annotations"},
   physical   |-> {"components", "ports", "connections", "sensors", "actuators", "stateBindings"},
   playable   |-> PlayableRegistries \cup InteractionRegistries \cup CaptureRegistries,
   spatial    |-> {"coordinateFrames", "poses", "geometryBindings"},
   acoustics  |-> {"materialModels", "measurements", "responseSets", "metricSets", "audioScenes",
                   "renderConfigurations"},
   runtime    |-> {"conformanceTraces", "randomSources", "renderers"}]

ProfilesFit(m) ==
  /\ Object(m).conformsTo \subseteq ProfileIds(m)
  /\ {"core", "dynamic"} \subseteq Object(m).conformsTo
  /\ \A p \in DOMAIN ProfileContents :
       (\E g \in ProfileContents[p] : Ids(m, g) # {}) => p \in Object(m).conformsTo
  /\ \A t \in Holds(m, "tracks") : Has(t, "coordinateFrameId") => "spatial" \in Object(m).conformsTo
  /\ "acoustics" \in ProfileIds(m) => "spatial" \in ProfileIds(m)
  /\ \A p \in ProfileIds(m) \cap DOMAIN RequiredCapabilities :
       RequiredCapabilities[p] \subseteq Capabilities(m, p)
  /\ Into(m, Object(m), "creatorAgentIds", "agents")

ManifestFits(m) ==
  /\ ManifestFits03(ProjectTo03(m))
  /\ DistinctIds(m)
  /\ LocalReferencesResolve(m)
  /\ MeasurementsFit(m)
  /\ ScientificFits(m)
  /\ MultimodalFits(m)
  /\ PhysicalFits(m)
  /\ AcousticsFit(m)
  /\ CrossReferencesFit(m)
  /\ DeliveryFits(m)
  /\ ProfilesFit(m)

-----------------------------------------------------------------------------
(* Migration from 0.3.  A paradatum names its method and its software by   *)
(* the digests of their declarations.                                      *)
Modified(m) == Val(Object(m), "modifiedAt")

(* What the promoted activities may refer to.                              *)
Kept(m) == UNION {DOMAIN m[g] : g \in DOMAIN m \ {"paradata", "analyses"}}

Promoted(m, r) ==
  LET started == IF Has(r, "startedAt") THEN r.startedAt ELSE {Modified(m)}
  IN  Over([startedAt |-> started,
            endedAt   |-> IF Has(r, "endedAt") THEN r.endedAt ELSE started,
            agentIds  |-> IF Has(r, "softwareEnvironmentId") THEN r.softwareAgentId ELSE {"migrator"},
            inputIds  |-> At(r, "inputIds") \cap Kept(m),
            outputIds |-> At(r, "outputIds") \cap Kept(m)],
           Only(r, {"activityKind", "protocolId", "softwareEnvironmentId"}))

(* The provenance that a realization may keep: what lists it as an output. *)
Inherited(m, id) ==
  {p \in At(m.realizations[id], "provenanceIds") \cap Ids(m, "paradata") :
     id \in Promoted(m, m.paradata[p]).outputIds}

(* 0.5 lists the digests of a realization; 0.3 had one.                    *)
Digested(r) == With(r, "contentDigests", {"sha256"} \X At(r, "sha256"))

(* Slip: the bytes are made by the migration, and their status is kept.    *)
StatusKept(m, id) ==
  Digested(With(m.realizations[id], "provenanceIds",
                IF Inherited(m, id) # {} THEN Inherited(m, id) ELSE {"migration"}))

MigratedRealization(m, id) ==
  LET r == m.realizations[id]
  IN  Digested(
        IF Inherited(m, id) # {} THEN With(r, "provenanceIds", Inherited(m, id))
        ELSE With(With(r, "provenanceIds", {"migration"}), "representationStatus", {"undetermined"}))

Unexplained(m) == {id \in Ids(m, "realizations") : Inherited(m, id) = {}}

MigrationActivity(m) ==
  [activityKind |-> {"migration"}, startedAt |-> {Modified(m)}, endedAt |-> {Modified(m)},
   agentIds |-> {"migrator"}, protocolId |-> {"migration-protocol"},
   softwareEnvironmentId |-> {"reference-tool"},
   inputIds |-> Ids(m, "object"), outputIds |-> Ids(m, "release") \cup Unexplained(m)]

Software ==
  [scope |-> {"source-file"}, sources |-> {"source-file"}, locks |-> {"environment-lock"},
   runtime |-> {"CPython"}]

Declared03(m, f, record) == [id \in UNION {At(r, f) : r \in Holds(m, "paradata")} |-> record]

(* Why a manifest cannot be migrated: which frame a pose is oriented in,   *)
(* and which realization a trajectory of a pose or of a listener is, is for*)
(* a curator to say.                                                       *)
Candidates(m, asset) ==
  {id \in Ids(m, "realizations") :
     m.realizations[id].assetId = asset /\ m.realizations[id].kind \subseteq Trajectories}

Followed(m, r, legacy) == Has(r, legacy) => Cardinality(Candidates(m, r[legacy])) = 1

Migratable(m) ==
  /\ \A p \in Holds(m, "poses") : ~Oriented(p) /\ Followed(m, p, "trajectoryAssetId")
  /\ \A c \in Holds(m, "renderConfigurations") : Followed(m, c, "listenerTrajectoryAssetId")

Following(m, r, legacy, field) ==
  IF Has(r, legacy) THEN With(Without(r, {legacy}), field, Candidates(m, r[legacy])) ELSE r

MigratedPose(m, p) == Following(m, p, "trajectoryAssetId", "trajectoryRealizationId")

MigratedConfiguration(m, c) == Following(m, c, "listenerTrajectoryAssetId", "listenerTrajectoryId")

MigratedProfiles(m) ==
  Over(m.profiles, [scientific |-> [requiredCapabilities |-> {"typed-scientific-provenance"}]])

MigratedObject(m) ==
  LET claims == IF "scientific" \in Ids(m, "profiles") THEN {} ELSE {"scientific"}
  IN  With(With(Object(m), "conformsTo", Object(m).conformsTo \cup claims),
           "creatorAgentIds", {"migrator"})

Migrated(m) ==
  Over(
    [object       |-> [id \in Ids(m, "object") |-> MigratedObject(m)],
     profiles     |-> MigratedProfiles(m),
     realizations |-> [id \in Ids(m, "realizations") |-> MigratedRealization(m, id)],
     poses        |-> [id \in Ids(m, "poses") |-> MigratedPose(m, m.poses[id])],
     renderConfigurations |->
       [id \in Ids(m, "renderConfigurations") |-> MigratedConfiguration(m, m.renderConfigurations[id])],
     activities   |-> Over([id \in Ids(m, "paradata") |-> Promoted(m, m.paradata[id])],
                           [migration |-> MigrationActivity(m)]),
     agents       |-> With(Declared03(m, "softwareAgentId", [agentKind |-> {"software-agent"}]),
                           "migrator", [agentKind |-> {"software-agent"}]),
     protocols    |-> With(Declared03(m, "protocolId", <<>>), "migration-protocol", <<>>),
     softwareEnvironments |->
       With(Declared03(m, "softwareEnvironmentId", [scope |-> {"declaration"}]), "reference-tool", Software)],
    Without(m, {"paradata", "analyses", "profiles", "object", "realizations", "poses",
                "renderConfigurations"}))
=============================================================================
