-------------------------- MODULE ScientificContract --------------------------
(***************************************************************************)
(* What the 0.5.0 reference validator demands of the scientific record:    *)
(* vao05's validate_scientific() and the provenance rules of               *)
(* validate_cross_module_references().  Environments have the field        *)
(* "locks" for their environment-lock dependencies and "sources" for the   *)
(* source ones, each with the scopes of their identities.                  *)
(***************************************************************************)
EXTENDS Records

SourceScopes == {"source-file", "source-bundle"}

(* The minimum software identity behind a claim of reproducibility.        *)
SupportsClaim(e) ==
  /\ Has(e, "runtime")
  /\ \/ Has(e, "container")
     \/ e.scope = {"executable"}
     \/ e.scope \subseteq SourceScopes /\ "environment-lock" \in At(e, "locks")
     \/ e.scope = {"environment-lock"} /\ At(e, "sources") \cap SourceScopes # {}

EnvironmentFits(e) ==
  /\ At(e, "locks") \subseteq {"environment-lock"}
  /\ At(e, "sources") \subseteq SourceScopes

-----------------------------------------------------------------------------
(* When there is something to use.                                         *)

(* All the times that say when a record exists; the last one counts.       *)
AvailableAt(m, ref) ==
  UNION ({a.endedAt : a \in {b \in Holds(m, "activities") : ref \in b.outputIds}} \cup
         {At(m[row[1]][ref], row[2]) :
            row \in {r \in {<<"activities", "endedAt">>, <<"observations", "resultTime">>,
                            <<"calibrations", "performedAt">>, <<"reviews", "reviewedAt">>,
                            <<"consents", "recordedAt">>} : ref \in Ids(m, r[1])}} \cup
         {a.endedAt : a \in UNION {Linked(m, m[row[1]][ref], row[2], "activities") :
            row \in {r \in {<<"analyses", "activityId">>, <<"claims", "generatedById">>} :
                        ref \in Ids(m, r[1])}}})

AvailableBy(m, ref, time) == \A t \in AvailableAt(m, ref) : t <= time

(* Evidence is an input from the beginning or an output by the end.        *)
AtBoundary(m, ref, a) ==
  /\ ref \in a.inputIds \cup a.outputIds
  /\ AvailableBy(m, ref, Val(a, IF ref \in a.inputIds THEN "startedAt" ELSE "endedAt"))

-----------------------------------------------------------------------------
(* Activities.                                                             *)
ActivityFits(m, a) ==
  /\ Ordered(a, "startedAt", "endedAt")
  /\ Into(m, a, "agentIds", "agents")
  /\ Into(m, a, "protocolId", "protocols")
  /\ Into(m, a, "softwareEnvironmentId", "softwareEnvironments")
  /\ a.inputIds \cup a.outputIds \subseteq Known(m)
  /\ a.inputIds \cap a.outputIds = {}
  /\ Into(m, a, "randomSourceId", "randomSources")
  /\ Into(m, a, "environmentObservationIds", "observations")

InputsAvailable(m, a) == \A ref \in a.inputIds : AvailableBy(m, ref, Val(a, "startedAt"))

(* Slip: the order of the activities is left to their times.               *)
NoActivityCycle(m) == TRUE

ActivitiesOrdered(m) ==
  Acyclic({e \in Ids(m, "activities") \X Ids(m, "activities") :
             m.activities[e[1]].outputIds \cap m.activities[e[2]].inputIds # {}})

-----------------------------------------------------------------------------
(* Observations, the sensors and the calibrations behind them.             *)
CalibrationFits(m, c) ==
  /\ Into(m, c, "instrumentEntityId", "entities")
  /\ Into(m, c, "protocolId", "protocols")
  /\ Into(m, c, "performedByAgentIds", "agents")
  /\ Into(m, c, "certificateRealizationId", "realizations")
  /\ Ordered(c, "performedAt", "validUntil")

ObservationResolves(m, o) ==
  /\ Into(m, o, "featureOfInterestId", "entities")
  /\ Into(m, o, "activityId", "activities")
  /\ Into(m, o, "protocolId", "protocols")
  /\ Into(m, o, "calibrationId", "calibrations")
  /\ Into(m, o, "sensorId", "sensors")
  /\ Into(m, o, "rawResultRealizationId", "realizations")
  /\ Into(m, o, "processedResultRealizationId", "realizations")

ObservedIn(m, id, a) ==
  LET o == m.observations[id] IN
  /\ a.activityKind \subseteq {"capture", "measurement", "processing", "simulation"}
  /\ a.protocolId = o.protocolId
  /\ \A t \in o.resultTime : Val(a, "startedAt") <= t /\ t <= Val(a, "endedAt")
  /\ id \in a.outputIds
  /\ At(o, "rawResultRealizationId") \subseteq a.inputIds \cup a.outputIds
  /\ At(o, "processedResultRealizationId") \subseteq a.outputIds
  /\ At(o, "rawResultRealizationId") \cap At(o, "processedResultRealizationId") = {}

SensorAgrees(m, o) ==
  \A s \in Linked(m, o, "sensorId", "sensors") :
    /\ s.observedProperty = o.observedProperty
    /\ s.protocolId = o.protocolId
    /\ Has(s, "calibrationId") => s.calibrationId = At(o, "calibrationId")
    /\ \A c \in Linked(m, o, "calibrationId", "calibrations"),
          k \in Linked(m, s, "componentId", "components") :
         c.instrumentEntityId = k.entityId

CalibrationCovers(m, o) ==
  \A c \in Linked(m, o, "calibrationId", "calibrations"), t \in o.resultTime :
    /\ \A p \in c.performedAt : p <= t
    /\ \A v \in At(c, "validUntil") : t <= v

ObservationFits(m, id) ==
  LET o == m.observations[id] IN
  /\ ObservationResolves(m, o)
  /\ \A a \in Linked(m, o, "activityId", "activities") : ObservedIn(m, id, a)
  /\ SensorAgrees(m, o)
  /\ CalibrationCovers(m, o)

-----------------------------------------------------------------------------
(* Analyses.                                                               *)
AnalysisResolves(m, id) ==
  LET x == m.analyses[id] IN
  /\ Into(m, x, "activityId", "activities")
  /\ Into(m, x, "softwareEnvironmentId", "softwareEnvironments")
  /\ x.inputIds \cup x.outputIds \cup At(x, "validationIds") \subseteq Known(m)
  /\ id \notin At(x, "validationIds")

Reproducible(m, x) ==
  /\ x.reproducibility = {"seeded"} =>
       Has(x, "randomSourceId") /\ Into(m, x, "randomSourceId", "randomSources")
  /\ x.reproducibility = {"deterministic"} => ~Has(x, "randomSourceId")
  /\ x.reproducibility \subseteq {"deterministic", "seeded"} =>
       \A e \in Linked(m, x, "softwareEnvironmentId", "softwareEnvironments") : SupportsClaim(e)

AnalysedIn(m, x, aid) ==
  LET a == m.activities[aid] IN
  /\ a.activityKind \subseteq {"processing", "simulation", "inference"}
  /\ x.inputIds \subseteq a.inputIds
  /\ x.outputIds \subseteq a.outputIds
  /\ \A o \in x.outputIds \cap Ids(m, "observations") : m.observations[o].activityId = {aid}
  /\ \A c \in x.outputIds \cap Ids(m, "claims") : At(m.claims[c], "generatedById") = {aid}
  /\ At(a, "softwareEnvironmentId") = x.softwareEnvironmentId
  /\ At(a, "randomSourceId") = At(x, "randomSourceId")
  /\ x.parameters \subseteq At(a, "parameterValues")
  /\ \A ref \in At(x, "validationIds") : AtBoundary(m, ref, a)

AnalysisFits(m, id) ==
  LET x == m.analyses[id] IN
  /\ AnalysisResolves(m, id)
  /\ Reproducible(m, x)
  /\ \A a \in x.activityId \cap Ids(m, "activities") : AnalysedIn(m, x, a)

-----------------------------------------------------------------------------
(* Claims and the reviews of them.                                         *)
EvidenceOrdered(m) == Acyclic(Edges(m, "claims", "evidenceIds"))

ClaimResolves(m, id) ==
  LET c == m.claims[id] IN
  /\ c.subjectId \cup At(c, "objectId") \cup c.evidenceIds \subseteq Known(m)
  /\ Has(c, "objectId") # Has(c, "literal")
  /\ id \notin c.evidenceIds
  /\ Into(m, c, "generatedById", "activities")
  /\ Into(m, c, "reviewIds", "reviews")

StatusSupported(m, c) ==
  LET generating == Linked(m, c, "generatedById", "activities")
      decisions  == UNION {r.decision : r \in Linked(m, c, "reviewIds", "reviews")}
  IN  /\ c.status = {"inferred"} =>
           generating # {} /\ \A a \in generating : a.activityKind = {"inference"}
      /\ \A s \in c.status \cap {"accepted", "rejected"} : s \in decisions
      /\ c.status = {"reviewed"} => decisions \ {"not-assessed"} # {}

ClaimFits(m, id) ==
  LET c == m.claims[id] IN
  /\ ClaimResolves(m, id)
  /\ \A a \in Linked(m, c, "generatedById", "activities"), ref \in c.evidenceIds :
       AtBoundary(m, ref, a)
  /\ \A r \in At(c, "reviewIds") \cap Ids(m, "reviews") :
       m.reviews[r].reviewedId = {id} /\ r \notin c.evidenceIds
  /\ StatusSupported(m, c)

ReviewFits(m, id) ==
  LET r == m.reviews[id] IN
  /\ r.reviewedId \subseteq Known(m) \ {id}
  /\ Into(m, r, "reviewerAgentId", "agents")
  /\ \A c \in Linked(m, r, "reviewedId", "claims") : id \in At(c, "reviewIds")
  /\ \A ref \in r.reviewedId : AvailableBy(m, ref, Val(r, "reviewedAt"))

ConsentFits(m, id) ==
  LET c == m.consents[id] IN
  /\ Into(m, c, "grantedByAgentId", "agents")
  /\ c.appliesToIds \subseteq Known(m) \ {id}
  /\ Into(m, c, "evidenceRealizationId", "realizations")

AgentFits(m, id) ==
  LET a == m.agents[id] IN
  /\ id \notin At(a, "affiliationAgentIds")
  /\ \A g \in At(a, "affiliationAgentIds") :
       g \in Ids(m, "agents") /\ m.agents[g].agentKind = {"organization"}

-----------------------------------------------------------------------------
(* Provenance across the modules of a manifest.                            *)

(* A record and the activities that it names know each other.              *)
ProvenanceReciprocal(m) ==
  \A g \in DOMAIN m : \A id \in DOMAIN m[g] :
    LET r == m[g][id] IN
    /\ \A a \in At(r, "generatedById") \cup At(r, "generatedByIds") :
         a \in Ids(m, "activities") /\ id \in m.activities[a].outputIds
    /\ Into(m, r, "reviewedById", "reviews")

CompatibleKinds ==
  [captured |-> {"capture", "measurement", "digitization"}, authored |-> {"authoring", "annotation"},
   converted |-> {"processing", "digitization", "migration"}, derived |-> {"processing", "render"},
   simulated |-> {"simulation"}, inferred |-> {"inference"}, reconstructed |-> {"processing"},
   redacted |-> {"processing"}, hybrid |-> {"processing", "simulation", "inference", "render"}]

Transformations == {"converted", "derived", "simulated", "inferred", "reconstructed",
                    "redacted", "hybrid"}

(* The bytes that a realization fixes come from an activity of the right   *)
(* kind, and what is a transformation was made from something.             *)
RealizationMade(m, id) ==
  LET r == m.realizations[id]
      generating == {a \in Linked(m, r, "provenanceIds", "activities") : id \in a.outputIds}
  IN  /\ Into(m, r, "provenanceIds", "activities")
      /\ generating # {}
      /\ \A s \in r.representationStatus :
           /\ s \in DOMAIN CompatibleKinds =>
                \E a \in generating : a.activityKind \subseteq CompatibleKinds[s]
           /\ s \in Transformations => \E a \in generating : a.inputIds # {}

RelationScoped(m, r) ==
  /\ At(r, "appliesToIds") \subseteq Known(m)
  /\ Ordered(r, "validFrom", "validUntil")
  /\ Increases(r, "start", "endExclusive")

ReleaseFits(r) ==
  /\ At(r, "supersedesReleaseId") \cap r.id = {}
  /\ Ordered(r, "createdAt", "modifiedAt")

-----------------------------------------------------------------------------
(* All of it.                                                              *)
ScientificFits(m) ==
  /\ \A e \in Holds(m, "softwareEnvironments") : EnvironmentFits(e)
  /\ \A a \in Holds(m, "activities") : ActivityFits(m, a) /\ InputsAvailable(m, a)
  /\ ActivitiesOrdered(m)
  /\ Resolve(m, {<<"protocols", "documentRealizationId", "realizations">>})
  /\ \A c \in Holds(m, "calibrations") : CalibrationFits(m, c)
  /\ \A id \in Ids(m, "observations") : ObservationFits(m, id)
  /\ \A id \in Ids(m, "analyses") : AnalysisFits(m, id)
  /\ EvidenceOrdered(m)
  /\ \A id \in Ids(m, "claims") : ClaimFits(m, id)
  /\ \A id \in Ids(m, "reviews") : ReviewFits(m, id)
  /\ \A id \in Ids(m, "consents") : ConsentFits(m, id)
  /\ \A id \in Ids(m, "agents") : AgentFits(m, id)

CrossReferencesFit(m) ==
  /\ ProvenanceReciprocal(m)
  /\ \A id \in Ids(m, "realizations") : RealizationMade(m, id)
  /\ \A r \in Holds(m, "relations") : RelationScoped(m, r)
  /\ \A r \in Holds(m, "release") : ReleaseFits(r)
=============================================================================
