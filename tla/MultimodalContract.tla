-------------------------- MODULE MultimodalContract --------------------------
(***************************************************************************)
(* What the 0.5.0 reference validator demands of timelines and of physical *)
(* systems: vao05's validate_multimodal() and validate_physical().  A rate *)
(* is a pair of a numerator and a denominator.  The technical metadata of  *)
(* a realization are fields of it.  A mapping has one sequence of          *)
(* segments.                                                               *)
(***************************************************************************)
EXTENDS Quantities

RateUnit == [sample |-> "samples-per-sec", frame |-> "frames-per-sec",
             midiTick |-> "midi-ticks-per-quarter"]

Divides(k, n) == n % k = 0

LowestTerms(rate) ==
  \A k \in 2 .. rate[1] : ~(Divides(k, rate[1]) /\ Divides(k, rate[2]))

SameRate(r, s) == r[1] * s[2] = s[1] * r[2]

TimebaseFits(t) ==
  /\ \A u \in t.unit \cap DOMAIN RateUnit : t.rateUnit = {RateUnit[u]}
  /\ \A rate \in t.rate : LowestTerms(rate)

(* The rate of the realization that its timebase must have.                *)
RateOf(r, t) ==
  IF r.kind = {"audio"} /\ t.unit = {"sample"} THEN At(r, "sampleRate")
  ELSE IF r.kind = {"video"} /\ t.unit = {"frame"} THEN At(r, "frameRate")
  ELSE {}

RateAgrees(r, t) == \A rate \in RateOf(r, t), own \in t.rate : SameRate(rate, own)

ChannelsFit(r) ==
  /\ Has(r, "channelLabels") => r.channelLabels = At(r, "channelCount")
  /\ AmbisonicsFit(r)

TechnicalFits(m, id) ==
  LET r == m.realizations[id] IN
  /\ Into(m, r, "timebaseId", "timebases")
  /\ Into(m, r, "coordinateFrameId", "coordinateFrames")
  /\ Into(m, r, "trajectoryTrackId", "tracks")
  /\ \A t \in Linked(m, r, "trajectoryTrackId", "tracks") :
       t.modality = {"trajectory"} /\ t.realizationId = {id}
  /\ ChannelsFit(r)
  /\ r.kind = {"geometry"} =>
       \A f \in Linked(m, r, "coordinateFrameId", "coordinateFrames") :
         /\ At(f, "unit") = At(r, "coordinateUnit")
         /\ f.handedness = At(r, "handedness")
         /\ f.upAxis = At(r, "upAxis")
  /\ \A t \in Linked(m, r, "timebaseId", "timebases") : RateAgrees(r, t)
  /\ \A rate \in At(r, "frameRate") : LowestTerms(rate)

ModalityKinds ==
  [audio |-> {"audio"}, video |-> {"video"}, imageSequence |-> {"image", "video"},
   depth |-> {"depth"}, volumetric |-> {"volumetric"}, motionCapture |-> {"motion-capture"},
   sensor |-> {"sensor-data"}, event |-> {"event-stream"}, score |-> {"score"},
   annotation |-> {"document", "data"},
   trajectory |-> {"trajectory", "motion-capture", "sensor-data"}]

TrackFits(m, t) ==
  /\ Into(m, t, "timebaseId", "timebases")
  /\ Into(m, t, "realizationId", "realizations")
  /\ Into(m, t, "coordinateFrameId", "coordinateFrames")
  /\ \A r \in Linked(m, t, "realizationId", "realizations") :
       /\ \A k \in t.modality : r.kind \subseteq ModalityKinds[k]
       /\ Has(r, "timebaseId") => r.timebaseId = t.timebaseId
       /\ Has(r, "coordinateFrameId") /\ Has(t, "coordinateFrameId") =>
            r.coordinateFrameId = t.coordinateFrameId
       /\ \A b \in Linked(m, t, "timebaseId", "timebases") : RateAgrees(r, b)

-----------------------------------------------------------------------------
(* Synchronization.                                                        *)
MethodKinds ==
  [sharedClock |-> {"capture", "measurement"}, timecode |-> {"capture", "measurement", "processing"},
   eventMatching |-> {"processing", "inference"}, crossCorrelation |-> {"processing", "inference"},
   manual |-> {"authoring", "annotation", "processing"},
   deviceTimestamp |-> {"capture", "measurement"}]

Image(s, x) == x * s.scale + s.offset

(* Slip: neighbours are compared where they start, not where they end.     *)
StartsAscend(s, t) == s.from < s.to /\ t.from < t.to /\ s.from < t.from

(* A segment t after a segment s.                                          *)
Follows(s, t) ==
  /\ s.from < s.to /\ t.from < t.to
  /\ s.to <= t.from
  /\ s.gap = "none" => s.to = t.from /\ Image(s, s.to) = Image(t, t.from)

ScalarIn(u, t) == UncertaintyFits(u, {<<>>}, t.unit, {}, FALSE)

SegmentsFit(m, x) ==
  \A segments \in x.segments :
    /\ \A k \in DOMAIN segments : segments[k].from < segments[k].to
    /\ \A k \in 1 .. Len(segments) - 1 : Follows(segments[k], segments[k + 1])
    /\ \A t \in Linked(m, x, "targetTimebaseId", "timebases") :
         \A k \in DOMAIN segments : \A u \in segments[k].residual : ScalarIn(u, t)

MappingFits(m, id) ==
  LET x == m.synchronizationMappings[id] IN
  /\ Into(m, x, "sourceTimebaseId", "timebases")
  /\ Into(m, x, "targetTimebaseId", "timebases")
  /\ x.sourceTimebaseId # x.targetTimebaseId
  /\ Into(m, x, "activityId", "activities")
  /\ \A a \in Linked(m, x, "activityId", "activities") :
       /\ \A k \in x.method : a.activityKind \subseteq MethodKinds[k]
       /\ id \in a.outputIds
  /\ \A t \in Linked(m, x, "targetTimebaseId", "timebases"), u \in At(x, "jitter") : ScalarIn(u, t)
  /\ SegmentsFit(m, x)

AnnotationFits(m, id) ==
  LET n == m.annotations[id] IN
  /\ Into(m, n, "trackId", "tracks")
  /\ Increases(n, "start", "endExclusive")
  /\ Into(m, n, "createdByAgentId", "agents")
  /\ Into(m, n, "activityId", "activities")
  /\ \A a \in Linked(m, n, "activityId", "activities") :
       /\ a.activityKind \subseteq {"authoring", "annotation", "processing", "inference"}
       /\ id \in a.outputIds
       /\ n.createdByAgentId \subseteq a.agentIds
       /\ \A t \in n.createdAt : Val(a, "startedAt") <= t /\ t <= Val(a, "endedAt")
  /\ At(n, "body") \subseteq Known(m)

MultimodalFits(m) ==
  /\ \A t \in Holds(m, "timebases") : TimebaseFits(t)
  /\ \A id \in Ids(m, "realizations") : TechnicalFits(m, id)
  /\ \A t \in Holds(m, "tracks") : TrackFits(m, t)
  /\ \A id \in Ids(m, "synchronizationMappings") : MappingFits(m, id)
  /\ \A id \in Ids(m, "annotations") : AnnotationFits(m, id)

-----------------------------------------------------------------------------
(* Components, their ports, and what is connected to them.                 *)
ComponentFits(m, id) ==
  LET k == m.components[id] IN
  /\ Into(m, k, "entityId", "entities")
  /\ Into(m, k, "parentComponentId", "components")
  /\ Has(k, "portIds") =>
       k.portIds = {p \in Ids(m, "ports") : m.ports[p].componentId = {id}}

HierarchyAcyclic(m) == Acyclic(Edges(m, "components", "parentComponentId"))

Outward == {"output", "bidirectional"}
Inward  == {"input", "bidirectional"}

ConnectionFits(m, c) ==
  LET source == Linked(m, c, "sourcePortId", "ports")
      target == Linked(m, c, "targetPortId", "ports")
  IN  /\ Into(m, c, "sourcePortId", "ports") /\ Into(m, c, "targetPortId", "ports")
      /\ \A p \in source : p.direction \subseteq Outward
      /\ \A p \in target : p.direction \subseteq Inward
      /\ At(c, "bidirectional") = {TRUE} =>
           \A p \in source \cup target : p.direction = {"bidirectional"}
      /\ c.sourcePortId # c.targetPortId
      /\ Into(m, c, "delayConstraintId", "timingConstraints")

(* A sensor's output or an actuator's input belongs to its component.      *)
Attached(m, d, port, directions) ==
  /\ Into(m, d, "componentId", "components")
  /\ Into(m, d, port, "ports")
  /\ \A p \in Linked(m, d, port, "ports") :
       p.componentId = d.componentId /\ p.direction \subseteq directions

PhysicalFits(m) ==
  /\ \A id \in Ids(m, "components") : ComponentFits(m, id)
  /\ HierarchyAcyclic(m)
  /\ \A c \in Holds(m, "connections") : ConnectionFits(m, c)
  /\ \A s \in Holds(m, "sensors") : Attached(m, s, "outputPortId", Outward)
  /\ \A a \in Holds(m, "actuators") : Attached(m, a, "inputPortId", Inward)
  /\ Resolve(m, {<<"ports", "componentId", "components">>,
                 <<"sensors", "protocolId", "protocols">>,
                 <<"sensors", "calibrationId", "calibrations">>,
                 <<"actuators", "protocolId", "protocols">>,
                 <<"actuators", "transferFunctionId", "transferFunctions">>,
                 <<"stateBindings", "stateVariableId", "stateVariables">>,
                 <<"stateBindings", "componentId", "components">>,
                 <<"stateBindings", "observationId", "observations">>})
=============================================================================
