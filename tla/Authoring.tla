------------------------------ MODULE Authoring ------------------------------
(***************************************************************************)
(* An author, and the reference tools of 0.5.0 (contract/vao-0.5.0/Tools): *)
(* the author edits a manifest field by field, the validator of its format *)
(* reports on it, and a manifest that the 0.3 validator has accepted is    *)
(* migrated, if the result passes the 0.5.0 validator: the manifest's side *)
(* of validate_workspace() and migrate_03_workspace().                     *)
(*                                                                         *)
(* The properties say what may be relied on once a manifest is accepted.   *)
(* They are stated about the things described, not about the rules.        *)
(***************************************************************************)
EXTENDS Manifest

CONSTANTS
  Drafts,      \* pairs of a format, "0.3" or "0.5.0", and a manifest
  Edits,       \* a registry, a record of it, a field, and a new value
  MaxChanges   \* what an author does to a draft: a bound for TLC

(* What the schema has seen to when the rules are applied: fields that are *)
(* required, single times, and segments that are lists of numbers.         *)
RequiredFields ==
  {<<"object", "modifiedAt">>, <<"realizations", "representationStatus">>,
   <<"activities", "startedAt">>, <<"activities", "endedAt">>,
   <<"signalRegions", "realizationId">>, <<"synchronizationMappings", "segments">>}

Times == {"startedAt", "endedAt", "modifiedAt"}

IsSegment(s) == s.from \in Int /\ s.to \in Int /\ s.scale \in Int /\ s.offset \in Int

FieldFits(g, f, v) ==
  /\ f \in Times => v \subseteq Int /\ \A s, t \in v : s = t
  /\ <<g, f>> \in RequiredFields /\ f \in Times => v # {}
  /\ f = "segments" => \A segments \in v :
       /\ Len(segments) \in Nat /\ DOMAIN segments = 1 .. Len(segments)
       /\ \A k \in DOMAIN segments : IsSegment(segments[k])

RecordFits(g, r) ==
  /\ \A row \in RequiredFields : row[1] = g => row[2] \in DOMAIN r
  /\ \A f \in DOMAIN r : FieldFits(g, f, r[f])

SchemaFits(m) ==
  /\ {"object", "profiles"} \subseteq DOMAIN m /\ DOMAIN m.object # {}
  /\ IsFiniteSet(Ids(m, "activities")) /\ IsFiniteSet(Ids(m, "paradata"))
  /\ \A g \in DOMAIN m : \A id \in DOMAIN m[g] : RecordFits(g, m[g][id])

ASSUME AuthoringAssumption ==
  /\ MaxChanges \in Nat
  /\ \A draft \in Drafts : SchemaFits(draft[2])
  /\ \A e \in Edits : FieldFits(e[1], e[3], e[4])

VARIABLES
  format,
  doc,         \* the manifest
  changes,     \* the number of edits
  report,      \* "none", "valid", "invalid", or "refused" by the migration
  origin       \* the manifest that has been migrated, or none

draftVars == <<format, doc, changes, report, origin>>

NoOrigin == <<>>

DraftInit ==
  /\ \E draft \in Drafts : format = draft[1] /\ doc = draft[2]
  /\ changes = 0 /\ report = "none" /\ origin = NoOrigin

Edit(e) ==
  /\ changes < MaxChanges
  /\ origin = NoOrigin
  /\ e[2] \in Ids(doc, e[1])
  /\ At(doc[e[1]][e[2]], e[3]) # e[4]
  /\ doc' = [doc EXCEPT ![e[1]][e[2]] = With(@, e[3], e[4])]
  /\ changes' = changes + 1
  /\ report' = "none"
  /\ UNCHANGED <<format, origin>>

AcceptedAs(f, m) == IF f = "0.3" THEN ManifestFits03(m) ELSE ManifestFits(m)

Validate ==
  /\ report = "none"
  /\ report' = IF AcceptedAs(format, doc) THEN "valid" ELSE "invalid"
  /\ UNCHANGED <<format, doc, changes, origin>>

Migrate ==
  /\ format = "0.3" /\ report = "valid"
  /\ IF Migratable(doc) /\ ManifestFits(Migrated(doc))
     THEN format' = "0.5.0" /\ doc' = Migrated(doc) /\ origin' = doc /\ UNCHANGED report
     ELSE report' = "refused" /\ UNCHANGED <<format, doc, origin>>
  /\ UNCHANGED changes

DraftNext ==
  \/ \E e \in Edits : Edit(e)
  \/ Validate
  \/ Migrate

DraftSpec == DraftInit /\ [][DraftNext]_draftVars

-----------------------------------------------------------------------------
Valid == report = "valid" /\ format = "0.5.0"

(* The activities that an activity has, directly or not, its inputs from.  *)
Before(m, c) ==
  LET Suppliers(a) == {p \in Ids(m, "activities") :
                       m.activities[p].outputIds \cap m.activities[a].inputIds # {}}
      Up[n \in 0 .. Cardinality(Ids(m, "activities"))] ==
        IF n = 0 THEN Suppliers(c)
        ELSE LET below == Up[n - 1] IN below \cup UNION {Suppliers(p) : p \in below}
  IN  Up[Cardinality(Ids(m, "activities"))]

(* Provenance is causal: along every chain of activities of an accepted    *)
(* manifest each one has ended when the next one starts, and none is       *)
(* behind itself, even where all of them are at one instant                *)
(* (validate_scientific(), vao05.py:1116-1169).                            *)
ProvenanceIsCausal ==
  Valid => \A c \in Ids(doc, "activities") : \A p \in Before(doc, c) :
             p # c /\ Val(doc.activities[p], "endedAt") <= Val(doc.activities[c], "startedAt")

(* A frame and everything that its position depends on.                    *)
Chain(m, id) ==
  LET Up[n \in 0 .. Cardinality(Ids(m, "coordinateFrames"))] ==
        IF n = 0 THEN {id}
        ELSE Up[n - 1] \cup UNION {At(m.coordinateFrames[f], "parentFrameId") : f \in Up[n - 1]}
  IN  Up[Cardinality(Ids(m, "coordinateFrames"))]

(* The distance of a source from a receiver can be computed: for every     *)
(* measurement of an accepted manifest the chains of frames of its poses   *)
(* meet, and between any frame in them and its parent there is a transform *)
(* that can be inverted and does not leave flat space (FrameFits, with the *)
(* retained rules of 0.3).                                                 *)
CommonFrame ==
  Valid => \A x \in Holds(doc, "measurements") :
    LET chains == {UNION {Chain(doc, f) : f \in p.frameId} : p \in PosesOf(doc, x)} IN
    /\ \A c, d \in chains : c \cap d # {}
    /\ \A f \in {doc.coordinateFrames[id] : id \in UNION chains} : Has(f, "parentFrameId") =>
         /\ \E t \in At(f, "transformToParent") : Determinant(t.linear) # 0
         /\ \A p \in Linked(doc, f, "parentFrameId", "coordinateFrames") :
              p.dimension = f.dimension /\ p.coordinateType # {"geodetic"}

(* An accepted mapping between timebases is a function, and no clock jumps *)
(* where no gap is declared: an instant of the source lies in one segment  *)
(* at most, and neighbours that touch agree where they touch               *)
(* (validate_multimodal(), vao05.py:1844-1888).                            *)
SynchronizationIsAFunction ==
  Valid => \A x \in Holds(doc, "synchronizationMappings") : \A segments \in x.segments :
    /\ \A j, k \in DOMAIN segments : j < k =>
         segments[j].from .. segments[j].to - 1 \cap segments[k].from .. segments[k].to - 1 = {}
    /\ \A k \in 1 .. Len(segments) - 1 : segments[k].gap = "none" =>
         Image(segments[k], segments[k].to) = Image(segments[k + 1], segments[k].to)

(* What a usable mapping plays, through its variants.                      *)
Played(m) == UNION {VariantsOf(m, x) : x \in {y \in Holds(m, "sampleMappings") : Usable(y)}}

(* Nothing that was rejected, superseded or merely inferred is played, and *)
(* nothing outside the audio: the variants of the usable mappings of an    *)
(* accepted manifest, with their regions, loops and perspectives           *)
(* (validate_playable(), vao03.py:1020-1135).                              *)
PlayedRecordsAreUsable ==
  Valid => \A v \in Played(doc) :
    /\ Usable(v)
    /\ \A r \in Linked(doc, v, "signalRegionIds", "signalRegions") :
         /\ Usable(r)
         /\ \A audio \in Linked(doc, v, "realizationId", "realizations") :
              \A e \in r.endExclusive, n \in At(audio, "frameCount") : e <= n
    /\ \A l \in Linked(doc, v, "loopPointSetIds", "loopPointSets") : Usable(l)
    /\ \A p \in Linked(doc, v, "perspectiveGroupId", "perspectiveGroups") : Usable(p)

(* Every byte of a realization that is cut into chunks is in one of them,  *)
(* and in one only (validate_delivery(), vao05.py:3687-3709).              *)
ChunksPartition ==
  Valid => \A r \in Holds(doc, "realizations") : \A chunks \in At(r, "chunks") :
    chunks # <<>> => \A n \in r.byteSize : \A byte \in 0 .. n - 1 :
      Cardinality({k \in DOMAIN chunks : /\ chunks[k].offset <= byte
                                         /\ byte < chunks[k].offset + chunks[k].length}) = 1

(* A migration invents no provenance: a realization keeps its status only  *)
(* if the source named an activity that lists it as an output, every other *)
(* one is undetermined, and what the activities of the result have used    *)
(* and made, the source had said (migrate_03_manifest(), 5622-5646).       *)
MigrationInventsNothing ==
  origin # NoOrigin =>
    /\ \A id \in Ids(doc, "realizations") :
         \/ doc.realizations[id].representationStatus = {"undetermined"}
         \/ /\ doc.realizations[id].representationStatus = origin.realizations[id].representationStatus
            /\ \E p \in origin.realizations[id].provenanceIds \cap Ids(origin, "paradata") :
                 id \in At(origin.paradata[p], "outputIds")
    /\ \A a \in Ids(doc, "activities") \ {"migration"} :
         /\ a \in Ids(origin, "paradata")
         /\ doc.activities[a].inputIds \subseteq At(origin.paradata[a], "inputIds")
         /\ doc.activities[a].outputIds \subseteq At(origin.paradata[a], "outputIds")

-----------------------------------------------------------------------------
(* What the evidence of a claim rests on.                                  *)
RestsOn(m, claim) ==
  LET Direct(id) ==
        (IF id \in Ids(m, "claims") THEN m.claims[id].evidenceIds ELSE {}) \cup
        UNION {a.inputIds : a \in {b \in Holds(m, "activities") : id \in b.outputIds}}
      bound == Cardinality(Ids(m, "claims")) + 2 * Cardinality(Ids(m, "activities"))
      Up[n \in 0 .. bound] ==
        IF n = 0 THEN Direct(claim)
        ELSE LET below == Up[n - 1] IN below \cup UNION {Direct(x) : x \in below}
  IN  Up[bound]

(* "Claims ... retain non-circular evidence/status"                        *)
(* (VAO_SCIENTIFIC_PROFILE_0.5.0.md:32): a claim is not among what its own *)
(* evidence was made from.                                                 *)
EvidenceIsNotCircular ==
  Valid => \A id \in Ids(doc, "claims") : id \notin RestsOn(doc, id)
=============================================================================
