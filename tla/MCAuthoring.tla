----------------------------- MODULE MCAuthoring -----------------------------
(***************************************************************************)
(* Three drafts.  A survey of a hall: a capture, two instantaneous         *)
(* calculations, an inference and a synchronization, with a claim, a       *)
(* covariance, and poses in frames of their own.  An instrument with a     *)
(* looped sample.  A manifest of 0.3 with three realizations, the second   *)
(* one made from the first one.                                            *)
(***************************************************************************)
EXTENDS Authoring, TLC

MCMaxDimension == 3
MCMaxCells == 9

Object0(entity, profiles) ==
  [primaryEntityId |-> {entity}, focusEntityIds |-> {entity}, conformsTo |-> profiles,
   modifiedAt |-> {50}]

Claimed(profiles) ==
  [p \in profiles |->
     [requiredCapabilities |->
        CASE p = "acoustics" -> {"measured-impulse-response", "position-registered-scene"}
          [] p = "playable" -> {"interaction", "sampled-instrument-playback", "sample-looping"}
          [] OTHER -> RequiredCapabilities[p]]]

Audio(asset, status, makers) ==
  [assetId |-> {asset}, kind |-> {"audio"}, representationStatus |-> {status},
   provenanceIds |-> makers, byteSize |-> {6}, sha256 |-> {"digest"}, channelCount |-> {2},
   frameCount |-> {8}, contentDigests |-> {<<"sha256", "digest">>}]

Asset(realizations) == [realizationIds |-> realizations, roles |-> {"impulse-response"}]

Everything(ids) == [terms |-> [appliesToIds |-> ids]]

Starter(realizations, bytes) ==
  [starter |-> [realizationIds |-> realizations, totalByteSize |-> {bytes},
                qualityTier |-> {"bootstrap"}]]

Activity(kind, start, end, inputs, outputs) ==
  [activityKind |-> {kind}, startedAt |-> {start}, endedAt |-> {end}, agentIds |-> {"lab"},
   protocolId |-> {"protocol"}, softwareEnvironmentId |-> {"tool"},
   inputIds |-> inputs, outputIds |-> outputs]

Science == [agents |-> [lab |-> [agentKind |-> {"organization"}]],
            protocols |-> [protocol |-> <<>>],
            softwareEnvironments |-> [tool |-> Software]]

Frame(parent, type) ==
  [dimension |-> {2}, coordinateType |-> {type}, upAxis |-> {"not-applicable"},
   forwardAxis |-> {"X"}, unit |-> {"m"}, handedness |-> {"right"},
   parentFrameId |-> parent,
   transformToParent |-> IF parent = {} THEN {}
                         ELSE {[affine |-> TRUE, planar |-> TRUE, linear |-> <<<<0, -1>>, <<2, 0>>>>]}]

Pose(subject, frame) ==
  [subjectId |-> {subject}, frameId |-> {frame}, axes |-> {2}, interpolation |-> {"none"}]

Covariance(cells) ==
  {[kind |-> "covariance", value |-> [numeric |-> TRUE, depth |-> 2, rows |-> <<3, 3, 3>>],
    cells |-> cells, unit |-> {"m"}]}

Plain == <<<<4, 2, 0>>, <<2, 1, 0>>, <<0, 0, 0>>>>
Twisted == <<<<4, 3, -3>>, <<3, 4, 3>>, <<-3, 3, 4>>>>
Residual == <<<<1, 1, 1>>, <<1, 1, 2>>, <<1, 2, 4>>>>

Segment(from, to, scale, offset, gap) ==
  [from |-> from, to |-> to, scale |-> scale, offset |-> offset, gap |-> gap, residual |-> {}]

SurveyProfiles == {"core", "dynamic", "scientific", "multimodal", "spatial", "acoustics"}

Survey ==
  [object |-> [survey |-> Object0("hall", SurveyProfiles)],
   release |-> [release1 |-> [id |-> {"release1"}]],
   profiles |-> Claimed(SurveyProfiles),
   entities |-> [hall |-> [kind |-> {"space"}], speaker |-> [kind |-> {"source"}],
                 ears |-> [kind |-> {"receiver"}]],
   logicalAssets |-> [echo |-> Asset({"impulse"}), dry |-> Asset({"dryWav"})],
   realizations |->
     [impulse |-> Audio("echo", "measured", {"capture"}) @@
        [responseSetId |-> {"echoes"}, sampleCount |-> {8}, timeZeroPolicy |-> {"sample-zero"},
         measurementMappings |->
           {<<[measurement |-> "walk", index |-> -1, channels |-> {0, 1}, delayed |-> FALSE]>>},
         chunks |-> {<<[index |-> 0, offset |-> 0, length |-> 4],
                       [index |-> 1, offset |-> 4, length |-> 2]>>}, strategy |-> {"fixed"}],
      dryWav |-> Audio("dry", "derived", {"clean"})],
   rights |-> Everything({"survey", "echo", "dry", "impulse", "dryWav"}),
   assetGroups |-> Starter({"impulse", "dryWav"}, 12),
   activities |->
     [capture |-> Activity("capture", 1, 3, {"hall"}, {"impulse", "position"}),
      clean   |-> Activity("processing", 5, 5, {"impulse"}, {"dryWav", "clocks"}),
      fit     |-> Activity("processing", 5, 5, {"dryWav"}, {"fitted"}),
      guess   |-> Activity("inference", 7, 8, {"fitted", "position"}, {"lively"})],
   observations |->
     [position |-> [featureOfInterestId |-> {"speaker"}, activityId |-> {"capture"},
                    protocolId |-> {"protocol"}, resultTime |-> {2}, observedProperty |-> {"place"}],
      fitted   |-> [featureOfInterestId |-> {"hall"}, activityId |-> {"fit"},
                    protocolId |-> {"protocol"}, resultTime |-> {5}, observedProperty |-> {"decay"}]],
   claims |->
     [lively |-> [subjectId |-> {"hall"}, literal |-> {"lively"}, evidenceIds |-> {"fitted"},
                  status |-> {"inferred"}, generatedById |-> {"guess"}],
      known  |-> [subjectId |-> {"hall"}, literal |-> {"known"}, evidenceIds |-> {"position"},
                  status |-> {"asserted"}]],
   quantities |->
     [place |-> [value |-> {[numeric |-> TRUE, depth |-> 1, rows |-> <<3>>]}, unit |-> {"m"},
                 uncertainty |-> Covariance(Plain)]],
   timebases |-> [clockA |-> [unit |-> {"tick"}, rate |-> {<<3, 2>>}],
                  clockB |-> [unit |-> {"tick"}, rate |-> {<<1, 1>>}]],
   synchronizationMappings |->
     [clocks |-> [sourceTimebaseId |-> {"clockA"}, targetTimebaseId |-> {"clockB"},
                  activityId |-> {"clean"}, method |-> {"manual"},
                  segments |-> {<<Segment(0, 4, 2, 0, "none"), Segment(4, 6, 1, 4, "gap"),
                                  Segment(7, 9, 1, 5, "none")>>}]],
   coordinateFrames |-> [world |-> Frame({}, "cartesian"), stage |-> Frame({"world"}, "cartesian"),
                         seat |-> Frame({"stage"}, "projected")],
   poses |-> [speakerPose |-> Pose("speaker", "stage"), earsPose |-> Pose("ears", "seat")],
   measurements |-> [walk |-> [sourceId |-> {"speaker"}, receiverId |-> {"ears"},
                               sourcePoseId |-> {"speakerPose"}, receiverPoseId |-> {"earsPose"}]],
   responseSets |-> [echoes |-> [responseEntityId |-> {"hall"}, logicalAssetId |-> {"echo"},
                                 measurementIds |-> {"walk"}, generatedById |-> {"capture"},
                                 status |-> {"measured"}, responseKind |-> {"rir"}]]] @@ Science

SurveyDraft ==
  [Survey EXCEPT !.activities.capture.outputIds = @ \cup {"echoes"}]

Sample(status, source) == [status |-> {status}, source |-> {source}]

InstrumentProfiles == {"core", "dynamic", "scientific", "playable"}

Instrument ==
  [object |-> [instrument |-> Object0("organ", InstrumentProfiles)],
   release |-> [release2 |-> [id |-> {"release2"}]],
   profiles |-> Claimed(InstrumentProfiles),
   entities |-> [organ |-> [kind |-> {"instrument"}],
                 keys |-> [kind |-> {"interaction"},
                           properties |-> {"interactionType", "controlProtocol", "controlDomain",
                                           "timingPolicy"}]],
   relations |-> [plays |-> [subjectId |-> {"keys"}, predicate |-> {"activates"}, objectId |-> {"organ"},
                             status |-> {"asserted"}]],
   logicalAssets |-> [pipe |-> Asset({"pipeWav"})],
   realizations |-> [pipeWav |-> Audio("pipe", "captured", {"recording"})],
   rights |-> Everything({"instrument", "pipe", "pipeWav"}),
   assetGroups |-> Starter({"pipeWav"}, 6),
   activities |-> [recording |-> Activity("capture", 1, 3, {"organ"}, {"pipeWav"})],
   signalRegions |->
     [attack |-> [realizationId |-> {"pipeWav"}, role |-> {"attack"}, start |-> {0},
                  endExclusive |-> {4}] @@ Sample("asserted", "embedded-metadata"),
      hold   |-> [realizationId |-> {"pipeWav"}, role |-> {"sustain-loop"}, start |-> {4},
                  endExclusive |-> {7}] @@ Sample("asserted", "embedded-metadata")],
   loopPointSets |->
     [loop |-> [regionIds |-> {"hold"}, crossfadeFrames |-> {1}] @@ Sample("asserted", "authored")],
   perspectiveGroups |->
     [near |-> [realizationIds |-> {"pipeWav"}, channelIndices |-> {0}] @@ Sample("asserted", "authored")],
   sampleVariants |->
     [tone |-> [realizationId |-> {"pipeWav"}, signalRegionIds |-> {"attack"},
                loopPointSetIds |-> {"loop"}, perspectiveGroupId |-> {"near"},
                trigger |-> {"note-on"}, signalRole |-> {"sustain"}] @@ Sample("asserted", "authored")],
   sampleMappings |->
     [key |-> [instrumentEntityId |-> {"organ"}, variantIds |-> {"tone"}, lowKey |-> {60},
               highKey |-> {60}, noteOffPolicy |-> {"stop"}] @@ Sample("accepted", "authored")]]
  @@ Science

LegacyProfiles == {"core", "dynamic", "spatial"}

Audio03(status, makers) == Without(Audio("ring", status, makers), {"contentDigests"})

Legacy ==
  [object |-> [legacy |-> Object0("bell", LegacyProfiles)],
   release |-> [release3 |-> [id |-> {"release3"}]],
   profiles |-> Claimed(LegacyProfiles),
   entities |-> [bell |-> [kind |-> {"instrument"}]],
   logicalAssets |-> [ring |-> Asset({"raw", "cut", "copy"})],
   realizations |-> [raw  |-> Audio03("captured", {"taping"}),
                     cut  |-> Audio03("derived", {"cutting"}),
                     copy |-> Audio03("converted", {})],
   rights |-> Everything({"legacy", "ring", "raw", "cut", "copy"}),
   assetGroups |-> Starter({"raw"}, 6),
   coordinateFrames |-> [tower |-> Frame({}, "cartesian")],
   poses |-> [bellPose |-> Pose("bell", "tower")],
   paradata |->
     [taping  |-> [activityKind |-> {"capture"}, protocolId |-> {"declared-taping"}, startedAt |-> {10},
                   endedAt |-> {20}, inputIds |-> {"bell"}, outputIds |-> {"raw"}],
      cutting |-> [activityKind |-> {"processing"}, protocolId |-> {"declared-cutting"},
                   startedAt |-> {30}, endedAt |-> {30}, softwareEnvironmentId |-> {"declared-editor"},
                   softwareAgentId |-> {"editor"}, inputIds |-> {"raw", "lost"},
                   outputIds |-> {"cut"}]],
   analyses |-> [study |-> <<>>]]

MCDrafts == {<<"0.5.0", SurveyDraft>>, <<"0.5.0", Instrument>>, <<"0.3", Legacy>>}

MCEdits ==
  {<<"activities", "clean", "inputIds", {"impulse", "fitted"}>>,
   <<"activities", "clean", "startedAt", {2}>>,
   <<"activities", "capture", "endedAt", {6}>>,
   <<"activities", "guess", "inputIds", {"position", "known"}>>,
   <<"activities", "capture", "inputIds", {"hall", "known"}>>,
   <<"claims", "lively", "evidenceIds", {"position"}>>,
   <<"claims", "known", "evidenceIds", {"lively"}>>,
   <<"observations", "fitted", "resultTime", {9}>>,
   <<"coordinateFrames", "stage", "parentFrameId", {}>>,
   <<"coordinateFrames", "stage", "parentFrameId", {"seat"}>>,
   <<"coordinateFrames", "world", "coordinateType", {"geodetic"}>>,
   <<"coordinateFrames", "world", "dimension", {3}>>,
   <<"poses", "earsPose", "frameId", {"world"}>>,
   <<"poses", "earsPose", "subjectId", {"hall"}>>,
   <<"measurements", "walk", "receiverPoseId", {"speakerPose"}>>,
   <<"quantities", "place", "uncertainty", Covariance(Twisted)>>,
   <<"quantities", "place", "uncertainty", Covariance(Residual)>>,
   <<"synchronizationMappings", "clocks", "segments",
     {<<Segment(0, 4, 2, 0, "none"), Segment(3, 6, 1, 4, "gap")>>}>>,
   <<"synchronizationMappings", "clocks", "segments",
     {<<Segment(0, 4, 2, 0, "none"), Segment(4, 6, 1, 5, "gap")>>}>>,
   <<"realizations", "impulse", "byteSize", {7}>>,
   <<"realizations", "impulse", "chunks", {<<[index |-> 0, offset |-> 0, length |-> 4],
                                             [index |-> 1, offset |-> 3, length |-> 3]>>}>>,
   <<"assetGroups", "starter", "totalByteSize", {13}>>,
   <<"signalRegions", "attack", "status", {"rejected"}>>,
   <<"signalRegions", "attack", "endExclusive", {9}>>,
   <<"signalRegions", "hold", "status", {"superseded"}>>,
   <<"loopPointSets", "loop", "status", {"inferred"}>>,
   <<"loopPointSets", "loop", "generatedById", {"recording"}>>,
   <<"activities", "recording", "outputIds", {"pipeWav", "loop"}>>,
   <<"perspectiveGroups", "near", "status", {"rejected"}>>,
   <<"sampleVariants", "tone", "status", {"superseded"}>>,
   <<"sampleMappings", "key", "status", {"rejected"}>>,
   <<"realizations", "copy", "representationStatus", {"measured"}>>,
   <<"realizations", "raw", "provenanceIds", {}>>,
   <<"realizations", "cut", "provenanceIds", {"cutting", "taping", "study"}>>,
   <<"paradata", "cutting", "startedAt", {15}>>,
   <<"paradata", "cutting", "endedAt", {}>>,
   <<"paradata", "cutting", "inputIds", {"raw", "copy"}>>,
   <<"paradata", "taping", "startedAt", {}>>,
   <<"poses", "bellPose", "trajectoryAssetId", {"ring"}>>}
-----------------------------------------------------------------------------
(* A principal minor: the determinant of some rows and the same columns,   *)
(* by the first row.                                                       *)
Minor(c, rows) ==
  LET Sign(k, S) == IF Cardinality({l \in S : l < k}) % 2 = 0 THEN 1 ELSE -1
      Det[R \in SUBSET rows, S \in SUBSET rows] ==
        IF R = {} THEN 1
        ELSE LET r == CHOOSE r \in R : \A q \in R : r <= q
                 Sum[K \in SUBSET S] ==
                   IF K = {} THEN 0
                   ELSE LET k == CHOOSE k \in K : TRUE
                        IN  Sign(k, S) * c[r][k] * Det[R \ {r}, S \ {k}] + Sum[K \ {k}]
             IN  Sum[S]
  IN  Det[rows, rows]

(* The elimination decides exactly: it takes a symmetric covariance if and *)
(* only if none of its principal minors is negative, singular matrices and *)
(* zero variances among them (_covariance_is_psd(), vao05.py:737-794).     *)
ASSUME PsdExactly ==
  \A a, d, f \in 0 .. 3, b, c, e \in -3 .. 3 :
    LET m == <<<<a, b, c>>, <<b, d, e>>, <<c, e, f>>>>
    IN  CovariancePsd(m) <=> \A rows \in SUBSET DOMAIN m : Minor(m, rows) >= 0
=============================================================================
