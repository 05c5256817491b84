--------------------------- MODULE LegacyContract ---------------------------
(***************************************************************************)
(* A manifest of 0.2, and what validate_manifest() asks of it              *)
(* (contract/vao-0.5.0/Tools/vaom.py:520-3958): its registries, the        *)
(* instrument that they describe, and its analyses.                        *)
(*                                                                         *)
(* A format of entities and of relations between them: a relation is a     *)
(* record like the others, and the properties of an entity are fields of   *)
(* its record.  Nested records have registries of their own.  Left out:    *)
(* the schema, the forms of identifiers and digests, and the types of      *)
(* values; a frequency or a probability is a number of small units.        *)
(***************************************************************************)
EXTENDS Records

CONSTANT ProbabilityUnit      \* the whole, of a probability

ASSUME LegacyAssumption == ProbabilityUnit \in Nat \ {0}

TheObject(m) == m.object[CHOOSE id \in Ids(m, "object") : TRUE]

OfKind(m, kind) == {id \in Ids(m, "entities") : m.entities[id].kind = {kind}}

OfType(m, kind, type) == {id \in OfKind(m, kind) : type \in At(m.entities[id], "types")}

(* What a relation of one predicate leads to; and what one leads to that   *)
(* has not been rejected or superseded.                                    *)
Related(m, id, predicate) ==
  {r \in Holds(m, "relations") : r.subjectId = {id} /\ r.predicate = {predicate}}

Current(r) == At(r, "status") \cap {"rejected", "superseded"} = {}

Targets(m, id, predicate) == UNION {At(r, "objectId") : r \in Related(m, id, predicate)}

ActiveTargets(m, id, predicate) ==
  UNION {At(r, "objectId") : r \in {s \in Related(m, id, predicate) : Current(s)}}

(* Two relations to the same target count twice.                           *)
OneTarget(m, id, predicate) ==
  Cardinality({k \in Ids(m, "relations") : m.relations[k] \in Related(m, id, predicate)}) = 1

OneActive(m, id, predicate) ==
  Cardinality({k \in Ids(m, "relations") :
                 m.relations[k] \in Related(m, id, predicate) /\ Current(m.relations[k])}) = 1

Capable(m) == UNION {At(p, "requiredCapabilities") : p \in Holds(m, "profiles")}

-----------------------------------------------------------------------------
(* The registries.                                                         *)
LegacyRegistries ==
  {"entities", "relations", "assets", "paradata", "analyses", "coordinateFrames", "poses",
   "geometryBindings", "materialModels", "responseSets", "metricSets", "audioScenes",
   "renderConfigurations"}

Everything(m) == UNION {Ids(m, g) : g \in LegacyRegistries}

IdsDiffer(m) ==
  \A g, h \in LegacyRegistries : g # h => Ids(m, g) \cap Ids(m, h) = {}

FocusHolds(m) ==
  /\ TheObject(m).primaryEntityId \subseteq TheObject(m).focusEntityIds
  /\ TheObject(m).focusEntityIds \subseteq Ids(m, "entities")

RelationHolds(m, r) ==
  /\ r.subjectId \subseteq Everything(m)
  /\ Has(r, "objectId") # Has(r, "literal")
  /\ At(r, "evidenceIds") \cup At(r, "generatedByIds") \subseteq Everything(m)

(* The assets: one for each path, about entities, with the bytes that are  *)
(* in the payload, where there is one, and nothing else in it.             *)
AssetsHold(m) ==
  /\ \A a \in Holds(m, "assets") : Has(a, "aboutEntityIds") /\ Into(m, a, "aboutEntityIds", "entities")
  /\ \A i, j \in Ids(m, "assets") : m.assets[i].path = m.assets[j].path => i = j

PayloadHolds(m, payload) ==
  /\ \A a \in Holds(m, "assets") :
       /\ a.path \subseteq DOMAIN payload
       /\ \A p \in a.path \cap DOMAIN payload : a.sha256 = {payload[p]} /\ a.byteSize = {Len(payload[p])}
  /\ DOMAIN payload \subseteq UNION {a.path : a \in Holds(m, "assets")}

ActivityHolds(m, a) == At(a, "inputIds") \cup At(a, "outputIds") \subseteq Everything(m)

AnalysisHolds(m, a) ==
  ActivityHolds(m, a) /\ At(a, "paradataId") \subseteq Everything(m)

ObservationHolds(m, o) ==
  /\ \A f \in {"subjectId", "sourceRegionId", "valueAssetId"} : At(o, f) \subseteq Everything(m)
  /\ At(o, "sourceRegionId") \subseteq OfKind(m, "signalRegion")
  /\ Into(m, o, "valueAssetId", "assets")
  /\ Ordered(o, "startSeconds", "endSeconds")
  /\ Has(o, "startFrameInclusive") =>
       /\ Increases(o, "startFrameInclusive", "endFrameExclusive")
       /\ Has(o, "endFrameExclusive") /\ Has(o, "clockAssetId") /\ Into(m, o, "clockAssetId", "assets")

BytesListed(assets) ==
  LET Sum[S \in SUBSET DOMAIN assets] ==
        IF S = {} THEN 0 ELSE LET a == CHOOSE a \in S : TRUE IN Val(assets[a], "byteSize") + Sum[S \ {a}]
  IN  Sum[DOMAIN assets]

IntegrityHolds(m) ==
  /\ TheObject(m).assetCount = {Cardinality(Ids(m, "assets"))}
  /\ TheObject(m).totalPayloadBytes = {BytesListed(m.assets)}

RegistriesHold(m) ==
  /\ IdsDiffer(m)
  /\ Ids(m, "entities") # {} /\ Ids(m, "assets") # {}
  /\ FocusHolds(m)
  /\ \A r \in Holds(m, "relations") : RelationHolds(m, r)
  /\ AssetsHold(m)
  /\ \A a \in Holds(m, "paradata") : ActivityHolds(m, a)
  /\ \A a \in Holds(m, "analyses") : AnalysisHolds(m, a)
  /\ \A o \in Holds(m, "observations") : ObservationHolds(m, o)
  /\ Ids(m, "object") \subseteq UNION {At(r, "appliesToIds") : r \in Holds(m, "rights")}
  /\ IntegrityHolds(m)

-----------------------------------------------------------------------------
(* The profiles, and what each of them asks for.                           *)
StandardProfiles == {"core", "experiential", "research", "orgrec", "playable", "acoustics", "spatial",
   "preservation"}

Generated(m) == UNION {At(a, "outputIds") : a \in Holds(m, "paradata")}

ResearchHolds(m) ==
  "research" \in Ids(m, "profiles") =>
    /\ Ids(m, "paradata") # {}
    /\ \A a \in Holds(m, "analyses") : Has(a, "paradataId")
    /\ \A id \in Ids(m, "assets") :
         m.assets[id].roles \cap {"analysis-result", "audio-derivative"} # {} => id \in Generated(m)

ProjectHolds(m) ==
  "orgrec" \in Ids(m, "profiles") =>
    /\ "research" \in Ids(m, "profiles")
    /\ Cardinality({id \in Ids(m, "assets") : m.assets[id].path = {"payload/orgrec/project.json"}
                                               /\ "application-state" \in m.assets[id].roles}) = 1

InteractionHolds(m, id) ==
  /\ {"interactionType", "controlProtocol", "controlDomain", "timingPolicy"} \subseteq DOMAIN m.entities[id]
  /\ \E p \in {"activates", "modulates"} : Related(m, id, p) # {}

PlayableHolds(m) ==
  "playable" \in Ids(m, "profiles") =>
    OfKind(m, "interaction") # {} /\ \A id \in OfKind(m, "interaction") : InteractionHolds(m, id)

ProfilesHold(m) ==
  /\ \A id \in Ids(m, "profiles") :
       /\ id \in TheObject(m).conformsTo
       /\ id \in StandardProfiles => m.profiles[id].version = {"0.2"}
  /\ StandardProfiles \cap TheObject(m).conformsTo \subseteq Ids(m, "profiles")
  /\ "core" \in Ids(m, "profiles") \cap TheObject(m).conformsTo
  /\ ResearchHolds(m) /\ ProjectHolds(m) /\ PlayableHolds(m)

-----------------------------------------------------------------------------
(* Loops: one region within the sound, with room for its crossfade; and an *)
(* accepted loop is used by an interaction that has a sample.              *)
LoopRegionHolds(loop, region) ==
  /\ {"startFrameInclusive", "endFrameExclusive", "crossfadeFrames"} \subseteq DOMAIN region
  /\ LET start == Val(region, "startFrameInclusive")
         end   == Val(region, "endFrameExclusive")
         fade  == Val(region, "crossfadeFrames")
     IN  0 <= start /\ start < end /\ end <= Val(loop, "totalFrames") /\ 0 <= fade /\ fade * 2 < end - start
  /\ At(region, "exitPolicy") = {"envelopeRelease"} \/ Has(region, "releaseStartFrame")

UsesLoop(m, loop) == {id \in OfKind(m, "interaction") : loop \in Targets(m, id, "usesLoopPointSet")}

LoopHolds(m, id) ==
  LET loop == m.entities[id] IN
  /\ Val(loop, "sampleRate") > 0 /\ Val(loop, "totalFrames") > 0
  /\ OneTarget(m, id, "hasLoopRegion")
  /\ Targets(m, id, "hasLoopRegion") \subseteq OfKind(m, "signalRegion")
  /\ \A r \in Targets(m, id, "hasLoopRegion") : LoopRegionHolds(loop, m.entities[r])
  /\ \A a \in Targets(m, id, "appliesToSignal") \cap Ids(m, "assets") :
       m.assets[a].sha256 = loop.sourceAudioSHA256
  /\ At(loop, "status") = {"accepted"} =>
       /\ UsesLoop(m, id) # {}
       /\ \A i \in UsesLoop(m, id) : Related(m, i, "usesSample") # {}

(* Sampled playback: a mapping that has been reviewed, in its ranges, used *)
(* by interactions of one sound each.                                      *)
InRange(r, low, high) ==
  0 <= Val(r, low) /\ Val(r, low) <= Val(r, high) /\ Val(r, high) <= 127

UsesParameters(m, id) ==
  {i \in OfKind(m, "interaction") : id \in ActiveTargets(m, i, "usesPlaybackParameters")}

MappingHoldsLegacy(m, id) ==
  LET p == m.entities[id] IN
  /\ InRange(p, "minimumKeyNumber", "rootKeyNumber") /\ InRange(p, "rootKeyNumber", "maximumKeyNumber")
  /\ InRange(p, "minimumVelocity", "maximumVelocity")
  /\ Val(p, "targetFrequencyHz") > 0
  /\ p.pitchTrackingMode \subseteq {"preserveRecordedPitch", "resampleToTarget", "disabled"}
  /\ p.pitchTrackingMode = {"resampleToTarget"} =>
       \E f \in At(p, "sourceFundamentalHz") : f > 0
  /\ At(p, "status") # {} /\ p.status \subseteq {"reviewed", "accepted"}
  /\ UsesParameters(m, id) # {}
  /\ \A i \in UsesParameters(m, id) :
       /\ OneActive(m, i, "usesSample")
       /\ \A a \in ActiveTargets(m, i, "usesSample") :
            a \in Ids(m, "assets") /\ m.assets[a].kind = {"audio"}

SampledPlaybackHolds(m) ==
  "sampled-instrument-playback" \in Capable(m) =>
    /\ "playable" \in Ids(m, "profiles")
    /\ OfType(m, "parameterSet", "SamplePlaybackParameters") # {}
    /\ \A id \in OfType(m, "parameterSet", "SamplePlaybackParameters") : MappingHoldsLegacy(m, id)

(* Tuning: a function from keys to frequencies, for somebody's use.        *)
TuningHolds(m, id) ==
  LET t == m.entities[id] IN
  /\ Val(t, "referenceA4Hz") > 0 /\ Val(t, "referenceKeyNumber") \in 0 .. 127
  /\ Has(t, "tuningEntries")
  /\ \A e \in t.tuningEntries : e.keyNumber \in 0 .. 127 /\ e.targetFrequencyHz > 0
  /\ \A e, f \in t.tuningEntries : e.keyNumber = f.keyNumber => e = f
  /\ \A e \in t.tuningEntries : e.componentIds \subseteq Ids(m, "entities")
  /\ \E s \in Ids(m, "entities"), p \in {"hasTuningMap", "usesTuningMap"} : id \in ActiveTargets(m, s, p)

TuningMapsHold(m) ==
  "tuning-map" \in Capable(m) =>
    /\ OfType(m, "parameterSet", "TuningMap") # {}
    /\ \A id \in OfType(m, "parameterSet", "TuningMap") : TuningHolds(m, id)

(* Segmentation: a region of one sound, whose bytes it names, and from     *)
(* which something has been extracted.                                     *)
SegmentHolds(m, id) ==
  LET r == m.entities[id] IN
  /\ 0 <= Val(r, "startFrameInclusive") /\ Increases(r, "startFrameInclusive", "endFrameExclusive")
  /\ Ordered(r, "endFrameExclusive", "totalFrames") /\ Val(r, "sampleRate") > 0
  /\ OneActive(m, id, "appliesToSignal")
  /\ \A a \in ActiveTargets(m, id, "appliesToSignal") :
       a \in Ids(m, "assets") /\ m.assets[a].sha256 = r.sourceAudioSHA256
  /\ \E s \in Holds(m, "relations") :
       s.predicate = {"extractedFromRegion"} /\ At(s, "objectId") = {id} /\ Current(s)

SegmentationHolds(m) ==
  "source-segmentation" \in Capable(m) =>
    /\ OfType(m, "signalRegion", "SampleExtractionRegion") # {}
    /\ \A id \in OfType(m, "signalRegion", "SampleExtractionRegion") : SegmentHolds(m, id)

InstrumentHolds(m) ==
  /\ \A id \in OfKind(m, "loopPointSet") : LoopHolds(m, id)
  /\ SampledPlaybackHolds(m)
  /\ TuningMapsHold(m)
  /\ SegmentationHolds(m)
  /\ "acoustical-analysis" \in Capable(m) => Ids(m, "analyses") # {}

-----------------------------------------------------------------------------
(* The analyses of an organ (vaom.py:1508-2440): classifications of        *)
(* timbre, the fingerprints of ranks, and diagnostics of a whole           *)
(* collection.  The observations of an analysis are records that lead back *)
(* to it; the value of one is a sequence of rows, a single one included;   *)
(* frequencies, scores and shares are numbers of small units.              *)
CONSTANT IdOrder              \* identifiers in the order of their text

Precedes(a, b) == \E j \in DOMAIN IdOrder : IdOrder[j] = b /\ \E i \in 1 .. j - 1 : IdOrder[i] = a

OfAnalysis(m, type) == {a \in Ids(m, "analyses") : At(m.analyses[a], "analysisType") = {type}}

ActivitiesOf(m, a) == Linked(m, m.analyses[a], "paradataId", "paradata")

Of(m, a, property) ==
  {o \in Holds(m, "observations") : o.analysisId = {a} /\ o.property = {property}}

(* The value of a property: of several observations, that of the first.    *)
ValueOf(m, a, property) ==
  UNION {At(o, "value") : o \in {o \in Of(m, a, property) :
                                   \A q \in Of(m, a, property) : Val(o, "index") <= Val(q, "index")}}

Total(rows, Value(_)) ==
  LET Sum[n \in 0 .. Len(rows)] == IF n = 0 THEN 0 ELSE Sum[n - 1] + Value(rows[n])
  IN  Sum[Len(rows)]

Each(rows, Test(_)) == \A i \in DOMAIN rows : Test(rows[i])

Once(rows, Key(_)) == \A i, j \in DOMAIN rows : Key(rows[i]) = Key(rows[j]) => i = j

Ascends(rows, Key(_)) == \A i, j \in DOMAIN rows : i < j => Key(rows[i]) < Key(rows[j])

-----------------------------------------------------------------------------
(* Classification of timbre: a model's, over four families.                *)
Families == {"flute", "diapason", "string", "reed"}

Models(m) == {id \in Ids(m, "assets") : "machine-learning-model" \in m.assets[id].roles}

DistributionHolds(rows) ==
  /\ Len(rows) = 4
  /\ {rows[i].concept : i \in DOMAIN rows} = Families
  /\ Each(rows, LAMBDA v : v.probability \in 0 .. ProbabilityUnit)
  /\ Total(rows, LAMBDA v : v.probability) = ProbabilityUnit

DecisionHolds(rows) ==
  Len(rows) = 1 /\ rows[1].distance >= 0 /\ (rows[1].abstained \/ rows[1].concept \in Families)

TimbreHolds(m, a) ==
  /\ \E p \in ActivitiesOf(m, a) :
       /\ p.methodType = {"machine-learning-inference"} /\ p.representationStatus = {"learned"}
       /\ Models(m) \cap At(p, "inputIds") # {}
  /\ \E rows \in ValueOf(m, a, "distribution") : DistributionHolds(rows)
  /\ \E rows \in ValueOf(m, a, "decision") : DecisionHolds(rows)

TimbresHold(m) ==
  "empirical-timbre-classification" \in Capable(m) =>
    /\ OfAnalysis(m, "timbre") # {} /\ Models(m) # {}
    /\ \A a \in OfAnalysis(m, "timbre") : TimbreHolds(m, a)

-----------------------------------------------------------------------------
(* Fingerprints: a point for each key, in the order of the keys, and       *)
(* candidates for a transition between two that are neighbours.            *)
TransitionHolds(points, t) ==
  /\ t.improvement >= 0 /\ t.pValue \in 0 .. ProbabilityUnit /\ t.effect >= 0
  /\ \E i \in 1 .. Len(points) - 1 : t.lower = points[i].keyNumber /\ t.upper = points[i + 1].keyNumber

FingerprintHolds(m, a) ==
  /\ \E p \in ActivitiesOf(m, a) :
       p.methodType = {"metric-calculation"} /\ Has(p, "randomSeed") /\ Has(p, "parameterSHA256")
  /\ \E points \in ValueOf(m, a, "trajectory"), transitions \in ValueOf(m, a, "transitions") :
       /\ points # <<>> /\ Ascends(points, LAMBDA p : p.keyNumber)
       /\ Each(transitions, LAMBDA t : TransitionHolds(points, t))

FingerprintsHold(m) ==
  "pitch-dependent-rank-fingerprint" \in Capable(m) =>
    OfAnalysis(m, "fingerprint") # {} /\ \A a \in OfAnalysis(m, "fingerprint") : FingerprintHolds(m, a)

-----------------------------------------------------------------------------
(* Diagnostics of a collection: eight observations of one subject, by one  *)
(* calculation, whose thresholds the rows are held to.                     *)
DiagnosticProperties ==
  {"summary", "takes", "curves", "stretch", "offset", "drift", "anomalies", "similarities"}

AggregationOf ==
  [curves |-> "quality-weighted-median", stretch |-> "siegel-repeated-median", offset |-> "median",
   drift |-> "within-target-median-slope", anomalies |-> "robust-multivariate-distance",
   similarities |-> "harmonic-aligned-cosine"]

UnitOf == [curves |-> "cent", stretch |-> "cent-per-octave", offset |-> "cent", drift |-> "cent-per-hour"]

ThresholdsHold(t) ==
  /\ 0 <= t.minimumQuality /\ t.minimumQuality <= t.moderateQuality
  /\ t.moderateQuality <= t.highQuality /\ t.highQuality <= ProbabilityUnit
  /\ t.anomalyGroup >= 3 /\ t.warningScore > 0 /\ t.criticalScore >= t.warningScore
  /\ t.similarity \in 0 .. ProbabilityUnit /\ t.harmonics >= 3 /\ t.maximumCandidates > 0
  /\ t.repeatedTargets > 0 /\ t.pairComparisons > 0 /\ t.driftSpan >= 0

ObservedWell(m, a) ==
  LET mine == {k \in Ids(m, "observations") : m.observations[k].analysisId = {a}} IN
  /\ {Val(m.observations[k], "property") : k \in mine} = DiagnosticProperties
  /\ Cardinality(mine) = Cardinality(DiagnosticProperties)
  /\ \A k \in mine :
       LET o == m.observations[k] p == Val(o, "property") IN
       /\ At(o, "status") = {"inferred"}
       /\ p \in DOMAIN AggregationOf => At(o, "aggregation") = {AggregationOf[p]}
       /\ p \in DOMAIN UnitOf => At(o, "unit") = {UnitOf[p]}
  /\ \E e \in Ids(m, "entities") : \A k \in mine : At(m.observations[k], "subjectId") = {e}

SummaryHolds(s) ==
  LET included == s.high + s.moderate + s.limited IN
  /\ s.analyzed <= s.eligible /\ s.aggregate <= s.analyzed
  /\ included = s.aggregate /\ included + s.excluded = s.eligible
  /\ s.coverage * s.eligible = s.aggregate * ProbabilityUnit
  /\ s.eligible = 0 => s.coverage = 0

(* The ledger of the takes: what the analysis and its activity read.       *)
TakeHolds(m, t) ==
  /\ {t.take, t.rank} \subseteq Ids(m, "entities")
  /\ t.keyNumber \in 0 .. 127 /\ t.quality \in 0 .. ProbabilityUnit
  /\ t.tier \in {"high", "moderate", "limited", "excluded"}
  /\ t.included = (t.tier # "excluded")

TakesOf(ledger) == {ledger[i].take : i \in DOMAIN ledger}

LedgerHolds(m, a, p, ledger, s) ==
  /\ Len(ledger) = s.eligible
  /\ Each(ledger, LAMBDA t : TakeHolds(m, t)) /\ Once(ledger, LAMBDA t : t.take)
  /\ TakesOf(ledger) = At(m.analyses[a], "inputIds")
  /\ TakesOf(ledger) = At(p, "inputIds") /\ a \in At(p, "outputIds")

(* The curve and the stretch of each rank.                                 *)
RanksHold(m, curves, stretches) ==
  /\ Once(curves, LAMBDA c : c.rank) /\ Once(stretches, LAMBDA s : s.rank)
  /\ Each(curves, LAMBDA c :
            /\ c.rank \in Ids(m, "entities") /\ c.points # <<>>
            /\ Ascends(c.points, LAMBDA p : p.keyNumber)
            /\ Each(c.points, LAMBDA p : p.keyNumber \in 0 .. 127 /\ p.mad >= 0 /\ p.count > 0))
  /\ Each(stretches, LAMBDA s : s.rank \in Ids(m, "entities") /\ s.count > 0)

DriftHolds(t, d) ==
  IF d.value = {} THEN d.applicability = "indeterminate"
  ELSE /\ d.applicability = "applicable"
       /\ d.repeated >= t.repeatedTargets /\ d.comparisons >= t.pairComparisons
       /\ d.duration >= t.driftSpan

SessionsHold(m, t, offsets, drifts) ==
  /\ Once(offsets, LAMBDA o : o.session) /\ Once(drifts, LAMBDA d : d.session)
  /\ Each(offsets, LAMBDA o : o.session \in Ids(m, "entities") /\ o.count > 0)
  /\ Each(drifts, LAMBDA d : d.session \in Ids(m, "entities") /\ DriftHolds(t, d))

(* What stands out, and what sounds alike: of the takes of the ledger.     *)
AnomaliesHold(t, ledger, anomalies) ==
  /\ Once(anomalies, LAMBDA x : x.take)
  /\ Each(anomalies, LAMBDA x :
            /\ x.take \in TakesOf(ledger)
            /\ x.score >= t.warningScore /\ x.quality \in 0 .. ProbabilityUnit
            /\ x.severity = IF x.score >= t.criticalScore THEN "critical" ELSE "warning")

SimilaritiesHold(t, ledger, pairs) ==
  /\ Len(pairs) <= t.maximumCandidates
  /\ Once(pairs, LAMBDA s : <<s.first, s.second>>)
  /\ Each(pairs, LAMBDA s :
            /\ {s.first, s.second} \subseteq TakesOf(ledger) /\ Precedes(s.first, s.second)
            /\ s.similarity \in t.similarity .. ProbabilityUnit /\ s.shared >= t.harmonics)

DiagnosisHolds(m, a) ==
  \E p \in ActivitiesOf(m, a) :
    /\ p.methodType = {"metric-calculation"} /\ p.representationStatus = {"inferred"}
    /\ Has(p, "parameterSHA256") /\ Has(p, "thresholds")
    /\ LET t == Val(p, "thresholds")
           Rows(property) == CHOOSE rows \in ValueOf(m, a, property) : TRUE
       IN  /\ ThresholdsHold(t)
           /\ ObservedWell(m, a)
           /\ SummaryHolds(Rows("summary")[1])
           /\ LedgerHolds(m, a, p, Rows("takes"), Rows("summary")[1])
           /\ RanksHold(m, Rows("curves"), Rows("stretch"))
           /\ SessionsHold(m, t, Rows("offset"), Rows("drift"))
           /\ AnomaliesHold(t, Rows("takes"), Rows("anomalies"))
           /\ SimilaritiesHold(t, Rows("takes"), Rows("similarities"))

DiagnosesHold(m) ==
  "collection-acoustic-diagnostics" \in Capable(m) =>
    /\ {"collection-acoustic-diagnostics", "acoustical-analysis"}
         \subseteq UNION {At(m.profiles[p], "requiredCapabilities") : p \in Ids(m, "profiles") \cap {"research"}}
    /\ OfAnalysis(m, "diagnostics") # {}
    /\ \A a \in OfAnalysis(m, "diagnostics") : DiagnosisHolds(m, a)

AnalysesHold(m) == TimbresHold(m) /\ FingerprintsHold(m) /\ DiagnosesHold(m)
=============================================================================
