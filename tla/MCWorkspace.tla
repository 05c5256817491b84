----------------------------- MODULE MCWorkspace -----------------------------
(***************************************************************************)
(* An organ with two rolls that it plays, a sampled stop, its analyses and *)
(* the room it stands in, in a workspace that claims every profile but     *)
(* those of applications; two tools, a file to add, an entity and a        *)
(* relation to add, and an author who rejects a relation, gives a key that *)
(* there is not, or edits a file.                                          *)
(***************************************************************************)
EXTENDS Workspace, TLC

Entity(kind) == [kind |-> {kind}, types |-> {}]

Sampled(kind, type) == [kind |-> {kind}, types |-> {type}]

Relation(s, p, o) == [subjectId |-> {s}, predicate |-> {p}, objectId |-> {o}, status |-> {"asserted"}]

File(path, role, media, bytes) ==
  [path |-> {path}, roles |-> {role}, kind |-> {media}, media |-> {media}, mediaType |-> {media},
   aboutEntityIds |-> {"organ"}, sha256 |-> {bytes}, byteSize |-> {Len(bytes)},
   originalFilename |-> {path}, createdAt |-> {1}, folded |-> {path}]

Profile(capabilities) == [version |-> {"0.2"}, requiredCapabilities |-> capabilities]

Bytes == [tone |-> <<"t", "o">>, roll1 |-> <<"r">>, roll2 |-> <<"s">>, label |-> <<"l">>, moves |-> <<"m">>,
          net |-> <<"n">>, impulse |-> <<"i">>]

PayloadAuthored == [p \in DOMAIN Bytes |-> Bytes[p]]

Assets ==
  [tone    |-> File("tone", "audio-derivative", "audio", Bytes.tone),
   roll1   |-> File("roll1", "performance-media", "audio", Bytes.roll1),
   roll2   |-> File("roll2", "performance-media", "audio", Bytes.roll2),
   label   |-> File("label", "carrier-label-image", "image", Bytes.label),
   moves   |-> File("moves", "animation", "model", Bytes.moves) @@
                 [animationBindings |-> {[blendPolicy |-> "parallel", layers |-> {{"organ"}}]}],
   net     |-> [File("net", "machine-learning-model", "other", Bytes.net) EXCEPT
                 !.roles = {"machine-learning-model", "acoustic-model"}],
   impulse |-> File("impulse", "impulse-response", "audio", Bytes.impulse) @@ [suffix |-> {".wav"}]]

Playing ==
  Entity("performance") @@
  [timelineClock |-> {[duration |-> 3, offset |-> 0]},
   transportPolicy |-> {[masterClock |-> "audio", start |-> "explicit", pause |-> "hold", stop |-> "reset", seek |-> "allowed"]}]

Step(action, target) == [action |-> action, target |-> target]

Entities ==
  [organ  |-> Entity("instrument"),
   rolls  |-> Entity("experience") @@
                [experienceCapability |-> {"replaceable-performance-media"}, selectionPolicy |-> {"exclusive"}],
   first  |-> Entity("configuration"), second |-> Entity("configuration"),
   disc1  |-> Entity("digitalObject"), disc2 |-> Entity("digitalObject"),
   piece1 |-> Playing, piece2 |-> Playing,
   hands  |-> Entity("interaction") @@
                [actionSequence |-> {Step("select", "first"), Step("install", "disc1"), Step("eject", "disc1"),
                                     Step("play", "piece1"), Step("stop", "piece1")},
                 interactionType |-> {"key"}, controlProtocol |-> {"midi"}, controlDomain |-> {"keys"},
                 timingPolicy |-> {"now"}],
   stop8  |-> Sampled("parameterSet", "SamplePlaybackParameters") @@
                [minimumKeyNumber |-> {36}, rootKeyNumber |-> {48}, maximumKeyNumber |-> {60},
                 minimumVelocity |-> {0}, maximumVelocity |-> {127}, targetFrequencyHz |-> {440},
                 pitchTrackingMode |-> {"resampleToTarget"}, sourceFundamentalHz |-> {439}, status |-> {"reviewed"}],
   tuning |-> Sampled("parameterSet", "TuningMap") @@
                [referenceA4Hz |-> {440}, referenceKeyNumber |-> {69},
                 tuningEntries |-> {[keyNumber |-> 48, targetFrequencyHz |-> 130, componentIds |-> {}],
                                    [keyNumber |-> 49, targetFrequencyHz |-> 138, componentIds |-> {"organ"}]}],
   part   |-> Sampled("signalRegion", "SampleExtractionRegion") @@
                [startFrameInclusive |-> {2}, endFrameExclusive |-> {8}, totalFrames |-> {9}, sampleRate |-> {48000},
                 crossfadeFrames |-> {2}, exitPolicy |-> {"envelopeRelease"}, sourceAudioSHA256 |-> {Bytes.tone}],
   loop   |-> Entity("loopPointSet") @@
                [sampleRate |-> {48000}, totalFrames |-> {9}, sourceAudioSHA256 |-> {Bytes.tone}, status |-> {"accepted"}],
   hall   |-> Entity("space")]

Relations ==
  [r1  |-> Relation("rolls", "presents", "organ"),
   r2  |-> Relation("rolls", "offersConfiguration", "first"),
   r3  |-> Relation("rolls", "offersConfiguration", "second"),
   r4  |-> Relation("first", "usesCarrier", "disc1"),     r5  |-> Relation("second", "usesCarrier", "disc2"),
   r6  |-> Relation("disc1", "hasPerformance", "piece1"), r7  |-> Relation("disc2", "hasPerformance", "piece2"),
   r8  |-> Relation("disc1", "hasLabelImage", "label"),   r9  |-> Relation("disc2", "hasLabelImage", "label"),
   r10 |-> Relation("piece1", "usesMedia", "roll1"),      r11 |-> Relation("piece2", "usesMedia", "roll2"),
   r12 |-> Relation("piece1", "targets", "organ"),        r13 |-> Relation("piece2", "targets", "organ"),
   r14 |-> Relation("piece1", "drivesAnimation", "moves"), r15 |-> Relation("piece2", "drivesAnimation", "moves"),
   r16 |-> Relation("rolls", "hasInteraction", "hands"),  r17 |-> Relation("hands", "activates", "organ"),
   r18 |-> Relation("hands", "usesPlaybackParameters", "stop8"), r19 |-> Relation("hands", "usesSample", "tone"),
   r20 |-> Relation("organ", "hasTuningMap", "tuning"),
   r21 |-> Relation("part", "appliesToSignal", "tone"),   r22 |-> Relation("tone", "extractedFromRegion", "part"),
   r23 |-> Relation("loop", "hasLoopRegion", "part"),     r24 |-> Relation("loop", "appliesToSignal", "tone"),
   r25 |-> Relation("hands", "usesLoopPointSet", "loop")]

Work(type, inputs, outputs) ==
  [methodType |-> {type}, representationStatus |-> {"learned"}, inputIds |-> inputs, outputIds |-> outputs]

Paradata ==
  [making   |-> Work("derivation", {"organ"}, {"tone"}),
   training |-> Work("machine-learning-training", {"tone"}, {"net"}),
   asking   |-> Work("machine-learning-inference", {"net"}, {"timbre", "learned"}),
   reckons  |-> Work("metric-calculation", {"tone"}, {"prints"}) @@ [randomSeed |-> {7}, parameterSHA256 |-> {"p"}],
   surveys  |-> [Work("metric-calculation", {"disc1", "disc2"}, {"survey"}) EXCEPT !.representationStatus = {"inferred"}] @@
                  [parameterSHA256 |-> {"p"},
                   thresholds |-> {[minimumQuality |-> 2, moderateQuality |-> 4, highQuality |-> 8, anomalyGroup |-> 3,
                                    warningScore |-> 3, criticalScore |-> 6, similarity |-> 9, harmonics |-> 3,
                                    maximumCandidates |-> 2, repeatedTargets |-> 2, pairComparisons |-> 1, driftSpan |-> 1]}],
   hearing  |-> Work("measurement", {"hall"}, {"room"})]

Analyses ==
  [timbre |-> [analysisType |-> {"timbre"}, paradataId |-> {"asking"}],
   prints |-> [analysisType |-> {"fingerprint"}, paradataId |-> {"reckons"}],
   survey |-> [analysisType |-> {"diagnostics"}, paradataId |-> {"surveys"}, inputIds |-> {"disc1", "disc2"}]]

Observed(a, property, index, value) ==
  [analysisId |-> {a}, property |-> {property}, index |-> {index}, value |-> {value},
   subjectId |-> {"organ"}, status |-> {"inferred"},
   aggregation |-> IF property \in DOMAIN AggregationOf THEN {AggregationOf[property]} ELSE {},
   unit |-> IF property \in DOMAIN UnitOf THEN {UnitOf[property]} ELSE {}]

Share(family, p) == [concept |-> family, probability |-> p]

Take(id, tier) ==
  [take |-> id, rank |-> "organ", keyNumber |-> 48, quality |-> 9, tier |-> tier, included |-> tier # "excluded"]

Observations ==
  [o1 |-> Observed("timbre", "distribution", 1, <<Share("flute", 7), Share("diapason", 3), Share("string", 0), Share("reed", 0)>>),
   o2 |-> Observed("timbre", "decision", 2, <<[distance |-> 1, abstained |-> FALSE, concept |-> "flute"]>>),
   o3 |-> Observed("prints", "trajectory", 1, <<[keyNumber |-> 48], [keyNumber |-> 50]>>),
   o4 |-> Observed("prints", "transitions", 2, <<[lower |-> 48, upper |-> 50, improvement |-> 2, pValue |-> 1, effect |-> 1]>>),
   d1 |-> Observed("survey", "summary", 1, <<[eligible |-> 2, analyzed |-> 2, aggregate |-> 1, high |-> 1, moderate |-> 0,
                                            limited |-> 0, excluded |-> 1, coverage |-> 5]>>),
   d2 |-> Observed("survey", "takes", 2, <<Take("disc1", "high"), Take("disc2", "excluded")>>),
   d3 |-> Observed("survey", "curves", 3, <<[rank |-> "organ", points |-> <<[keyNumber |-> 48, mad |-> 1, count |-> 1]>>]>>),
   d4 |-> Observed("survey", "stretch", 4, <<[rank |-> "organ", count |-> 1]>>),
   d5 |-> Observed("survey", "offset", 5, <<[session |-> "organ", count |-> 1]>>),
   d6 |-> Observed("survey", "drift", 6, <<[session |-> "organ", value |-> {2}, applicability |-> "applicable",
                                            repeated |-> 2, comparisons |-> 1, duration |-> 2]>>),
   d7 |-> Observed("survey", "anomalies", 7, <<[take |-> "disc1", score |-> 4, quality |-> 9, severity |-> "warning"]>>),
   d8 |-> Observed("survey", "similarities", 8, <<[first |-> "disc1", second |-> "disc2", similarity |-> 9, shared |-> 3]>>)]

Acoustic ==
  [coordinateFrames |->
     [world |-> [dimension |-> {3}, handedness |-> {"right"}],
      stage |-> [dimension |-> {3}, handedness |-> {"right"}, parentFrameId |-> {"world"},
                 transformToParent |-> {[invertible |-> TRUE]}]],
   poses |-> [seat |-> [subjectId |-> {"hall"}, frameId |-> {"stage"}, position |-> {<<1, 2, 3>>}, orientationLength |-> {1}]],
   responseSets |->
     [room    |-> [responseEntityId |-> {"hall"}, assetId |-> {"impulse"}, generatedById |-> {"hearing"},
                   representationStatus |-> {"measured"}, responseKind |-> {"rir"}, encoding |-> {"WAV"}],
      learned |-> [responseEntityId |-> {"hall"}, assetId |-> {"impulse"}, generatedById |-> {"asking"},
                   representationStatus |-> {"learned"}, responseKind |-> {"rir"}, encoding |-> {"HDF5"}]],
   measurements |-> [once  |-> [responseSetId |-> {"room"}, sourceId |-> {"organ"}, receiverPoseId |-> {"seat"}],
                     again |-> [responseSetId |-> {"learned"}, sourceId |-> {"organ"}]],
   interpolations |->
     [field |-> [responseSetId |-> {"learned"}, method |-> {"neural-field"}, domain |-> {"hall"}, modelAssetId |-> {"net"},
                 trainingInputIds |-> {"impulse"}, validationInputIds |-> {"impulse"}, qualityMetricSetId |-> {"error"},
                 fallbackResponseSetId |-> {"room"}, determinism |-> {"seeded"}, seed |-> {1}]],
   metricSets |-> [error |-> [generatedById |-> {"reckons"}, subjectIds |-> {"learned"}, bands |-> {<<125, 250>>}]],
   metrics |-> [edt |-> [metricSetId |-> {"error"}, values |-> {<<1, 1>>}, sourceId |-> {"organ"}]]]

Object01(fields) ==
  [primaryEntityId |-> {"organ"}, focusEntityIds |-> {"organ"}, rootEntityId |-> {}, formatVersion |-> {"0.2"},
   conformsTo |-> {"core"}, acoustics |-> {FALSE}, assetCount |-> {0}, totalPayloadBytes |-> {0}] @@ fields

Minimal(asset, file, object) ==
  [object |-> [vao |-> object],
   profiles |-> [core |-> Profile({"core-graph", "fixity"})],
   entities |-> [organ |-> Entity("instrument")],
   relations |-> [r0 |-> Relation("organ", "hasRepresentation", asset)],
   assets |-> (asset :> file),
   rights |-> [terms |-> [appliesToIds |-> {"vao"}, accessCondition |-> {"Unspecified"}]]]

Claims == {"core", "research", "playable", "acoustics", "spatial", "experiential", "preservation"}

Capabilities ==
  [core |-> {"core-graph", "fixity"}, playable |-> {"sampled-instrument-playback", "tuning-map", "source-segmentation"},
   research |-> {"acoustical-analysis", "empirical-timbre-classification", "pitch-dependent-rank-fingerprint",
                 "collection-acoustic-diagnostics"},
   acoustics |-> {"measured-impulse-response", "spatial-response-field", "learned-acoustic-field", "room-acoustic-metrics"},
   spatial |-> {}, preservation |-> {}, experiential |-> {"replaceable-performance-media"}]

MCNote == [readme |-> <<"d">>]
MCInitial == Minimal("about", File("readme", "source-evidence", "text", <<>>), Object01(<<>>))

ManifestAuthored ==
  Refreshed([object |-> [vao |-> [Object01(<<>>) EXCEPT !.conformsTo = Claims, !.acoustics = {TRUE}]],
             profiles |-> [p \in Claims |-> Profile(Capabilities[p])],
             entities |-> Entities, relations |-> Relations, assets |-> Assets,
             paradata |-> Paradata, analyses |-> Analyses, observations |-> Observations,
             rights |-> [terms |-> [appliesToIds |-> {"vao"}, accessCondition |-> {"open"}]]] @@ Acoustic,
            PayloadAuthored)

MCAuthored == [exists |-> TRUE, mimetype |-> TRUE, manifest |-> ManifestAuthored, payload |-> PayloadAuthored]

(* 0.1: a root, and a region that has a place.                             *)
MCOld ==
  [exists |-> TRUE, mimetype |-> TRUE, payload |-> MCNote,
   manifest |->
     [Minimal("about", File("readme", "source-evidence", "text", <<"d">>), Object01(<<>>)) EXCEPT
        !.object = [vao |-> [Object01(<<>>) EXCEPT !.rootEntityId = {"organ"}, !.formatVersion = {"0.1"},
                                                   !.conformsTo = {"core", "spatial"}]],
        !.profiles = [core |-> [Profile({}) EXCEPT !.version = {"0.1"}], spatial |-> [Profile({}) EXCEPT !.version = {"0.1"}]],
        !.entities = [organ |-> Entity("instrument"), nave |-> Entity("spatialRegion") @@ [position |-> {<<0, 0, 0>>}]]]]

MCSnapshot == [id |-> "before", path |-> "manifest01", bytes |-> <<"0.1">>,
               asset |-> File("manifest01", "source-evidence", "text", <<"0.1">>)]
MCActivity == [id |-> "migration"]
MCFrameId == <<"frame0">>
MCPoseId == <<"pose0">>

MCSources ==
  {[names |-> <<"tone", "tone-2">>, bytes |-> <<"x">>, links |-> "tone" :> "represents" @@ "tone-2" :> "represents2",
    asset |-> File("tone", "source-evidence", "audio", <<"x">>), relation |-> Relation("organ", "hasRepresentation", "tone")]}

MCAdditions ==
  {[registry |-> "entities", id |-> "pedal", record |-> Entity("interaction")],
   [registry |-> "relations", id |-> "r26", record |-> Relation("disc1", "hasPerformance", "piece2")]}

Edit(registry, id, with) == [registry |-> registry, id |-> id, with |-> with]

MCEdits ==
  {Edit("relations", "r11", [status |-> {"rejected"}]), Edit("entities", "tuning", [referenceKeyNumber |-> {128}])}

MCChanges == {[path |-> "roll2", bytes |-> <<"z">>], [path |-> "tone", bytes |-> <<"z", "z">>]}

(* Any three commands that work on the directory; three packs and an       *)
(* unpack, which opens what one pack has made in the place of what another *)
(* one made, which a third has taken away; and unpacks and a migration     *)
(* that meet at one destination.                                           *)
MCPlans ==
  {[init |-> 2, add |-> 2, change |-> 2, pack |-> 2, unpack |-> 0, migrate |-> 0, all |-> 3],
   [init |-> 0, add |-> 0, change |-> 0, pack |-> 3, unpack |-> 1, migrate |-> 0, all |-> 4],
   [init |-> 0, add |-> 0, change |-> 0, pack |-> 1, unpack |-> 2, migrate |-> 2, all |-> 3]}

Alike == Permutations(Tools)

MCIdOrder == <<"disc1", "disc2", "impulse", "label", "manifest01", "moves", "net", "readme", "roll1", "roll2", "tone", "tone-2">>
=============================================================================
