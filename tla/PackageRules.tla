----------------------------- MODULE PackageRules -----------------------------
(***************************************************************************)
(* What the add-on itself computes from one package, besides the reference *)
(* validators: the semantic rules for manifests of 0.2                     *)
(* (core/semantic_validation.py), the graph it browses (core/graph.py),    *)
(* the capabilities it offers (core/capability.py) and the copy of a GLB   *)
(* whose nodes know their numbers (core/gltf.py).                          *)
(*                                                                         *)
(* A list of the manifest is a sequence.  A digest, a license or an        *)
(* algorithm is what the code asks of it.                                  *)
(***************************************************************************)
EXTENDS Integers, FiniteSets, FiniteSetsExt, SequencesExt

IdsOf(records) == [k \in DOMAIN records |-> records[k].id]

Repeats(list) == \E k, l \in DOMAIN list : k < l /\ list[k] = list[l]

(* Lists of identifiers, one for every category; acoustics has several.    *)
Categories(m) ==
  <<IdsOf(m.entities), IdsOf(m.assets), IdsOf(m.relations), m.paradata, m.analyses>>
    \o m.acoustics

LocalIds(m) == UNION {ToSet(Categories(m)[c]) : c \in DOMAIN Categories(m)}

EntityIds(m) == ToSet(IdsOf(m.entities))

TotalBytes(m) == MapThenSumSet(LAMBDA k : m.assets[k].byteSize, DOMAIN m.assets)

Paths(m) == [k \in DOMAIN m.assets |-> m.assets[k].path]

Statuses == {"asserted", "accepted", "rejected", "hypothesis"}

(* The rules, by what breaks them.  An identifier that is in one list      *)
(* twice is also in use already.                                           *)
Broken(m) ==
  [reused        |-> Repeats(FlattenSeq(Categories(m))),
   duplicate     |-> \E c \in DOMAIN Categories(m) : Repeats(Categories(m)[c]),
   primary       |-> m.primaryEntityId \notin EntityIds(m),
   unfocused     |-> m.primaryEntityId \notin m.focusEntityIds,
   focus         |-> ~(m.focusEntityIds \subseteq EntityIds(m)),
   subject       |-> \E k \in DOMAIN m.relations : m.relations[k].subjectId \notin LocalIds(m),
   status        |-> \E k \in DOMAIN m.relations : m.relations[k].status \notin Statuses,
   path          |-> Repeats(Paths(m)),
   sha256        |-> \E k \in DOMAIN m.assets : ~m.assets[k].digest,
   about         |-> \E k \in DOMAIN m.assets : ~(m.assets[k].aboutEntityIds \subseteq EntityIds(m)),
   algorithm     |-> m.integrity.algorithm # "sha256",
   assetCount    |-> m.integrity.assetCount # Len(m.assets),
   payloadBytes  |-> m.integrity.totalPayloadBytes # TotalBytes(m),
   unlicensed    |-> \A k \in DOMAIN m.rights : m.id \notin m.rights[k].appliesToIds,
   applicability |-> \E k \in DOMAIN m.rights :
                        ~(m.rights[k].appliesToIds \subseteq LocalIds(m) \cup {m.id}),
   profiles      |-> Repeats(IdsOf(m.profiles)),
   capabilities  |-> \E k \in DOMAIN m.profiles : Repeats(m.profiles[k].requiredCapabilities),
   conformsTo    |-> ~(ToSet(IdsOf(m.profiles)) \subseteq m.conformsTo)]

validate_semantics(m) == {rule \in DOMAIN Broken(m) : Broken(m)[rule]}

(* Media are used only after the user has seen rights that are absent, or  *)
(* restricted, or without a license.                                       *)
rights_require_acknowledgement(m) ==
  \/ m.rights = <<>>
  \/ \E k \in DOMAIN m.rights : ~m.rights[k].license \/ m.rights[k].restricted

-----------------------------------------------------------------------------
(* The edges of a node, by predicate and then by name; numbers stand for   *)
(* both.  An object is in the manifest, elsewhere, or a literal.           *)
EdgeOrder(e, f) == e.predicate < f.predicate \/ (e.predicate = f.predicate /\ e.id <= f.id)

SortedEdges(edges) == SetToSortSeq(edges, EdgeOrder)

build_graph(m) ==
  LET edges == ToSet(m.relations)
      targets == UNION {e.objectId : e \in edges}
  IN  [entities |-> EntityIds(m),
       assets   |-> ToSet(IdsOf(m.assets)),
       outgoing |-> [s \in {e.subjectId : e \in edges} |->
                       SortedEdges({e \in edges : e.subjectId = s})],
       incoming |-> [o \in targets |-> SortedEdges({e \in edges : o \in e.objectId})]]

(* bundleSupported: the interactions compiled.                             *)
SupportedAlways == {"core-graph", "fixity", "paradata"}

negotiate(m, bundleSupported) ==
  LET glb == \E k \in DOMAIN m.assets : m.assets[k].gltf
      unit == \E k \in DOMAIN m.assets : m.assets[k].coordinateUnit
      Supported(c) ==
        \/ c \in SupportedAlways
        \/ c = "generic-model-viewing" /\ glb
        \/ c = "spatial" /\ unit
        \/ c \in {"interaction", "sampled-instrument-playback"} /\ bundleSupported
  IN  [c \in UNION {ToSet(m.profiles[k].requiredCapabilities) : k \in DOMAIN m.profiles} |->
         Supported(c)]

-----------------------------------------------------------------------------
(* A GLB is a header and chunks; length is what the header or the chunk    *)
(* says, size what there is.  The document of a JSON chunk has nodes, each *)
(* with extras, a number and what else they hold, if they are an object;   *)
(* text is the length of the document without padding.                     *)
Word == 4
HeaderSize == 12
ChunkHeaderSize == 8

SizeOf(chunks) == HeaderSize + MapThenSumSet(LAMBDA k : ChunkHeaderSize + chunks[k].size, DOMAIN chunks)

Padded(n) == ((n + Word - 1) \div Word) * Word

IsJson(chunk) == chunk.kind = "JSON"

Readable(chunk, maxJson) ==
  /\ chunk.length = chunk.size /\ chunk.length % Word = 0
  /\ IsJson(chunk) =>
       /\ chunk.length <= maxJson
       /\ chunk.document.strict /\ ~chunk.document.external
       /\ \A k \in DOMAIN chunk.document.nodes : chunk.document.nodes[k].object

(* Growth is what the numbers add to the text.                             *)
_indexed_json(chunk, growth) ==
  LET size == Padded(chunk.document.text + growth) IN
  [chunk EXCEPT !.length = size, !.size = size,
                !.document.text = @ + growth,
                !.document.nodes = [k \in DOMAIN @ |-> [@[k] EXCEPT !.index = k - 1]]]

CanInject(glb, maxJson, maxSize, growth) ==
  /\ glb.magic /\ glb.version = 2 /\ glb.length = SizeOf(glb.chunks)
  /\ \A k \in DOMAIN glb.chunks : Readable(glb.chunks[k], maxJson)
  /\ Cardinality({k \in DOMAIN glb.chunks : IsJson(glb.chunks[k])}) = 1
  /\ \A k \in DOMAIN glb.chunks : IsJson(glb.chunks[k]) =>
       SizeOf([glb.chunks EXCEPT ![k] = _indexed_json(glb.chunks[k], growth)]) <= maxSize

inject_glb_node_indices(glb, maxJson, maxSize, growth) ==
  IF ~CanInject(glb, maxJson, maxSize, growth) THEN {}
  ELSE LET chunks == [k \in DOMAIN glb.chunks |->
                        IF IsJson(glb.chunks[k]) THEN _indexed_json(glb.chunks[k], growth)
                        ELSE glb.chunks[k]]
       IN  {[glb EXCEPT !.chunks = chunks, !.length = SizeOf(chunks)]}
=============================================================================
