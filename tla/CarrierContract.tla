--------------------------- MODULE CarrierContract ---------------------------
(***************************************************************************)
(* What the reference tools of 0.5.0 and 0.3.3 ask of a carrier: a         *)
(* manifest, a descriptor, and payload files, in a directory or in a ZIP   *)
(* archive (validate_carrier_parts(), validate_workspace() and             *)
(* validate_archive(), contract/vao-0.5.0/Tools/vao05.py and vao03.py).    *)
(*                                                                         *)
(* Bytes: a manifest's bytes are a member of Documents and parse to        *)
(* Parsed[bytes]; a payload's are a sequence.  A digest is the bytes       *)
(* themselves: two byte strings with one SHA-256 are not modelled.         *)
(* Names: Canonical and Portable give a name's key after NFC, and after    *)
(* NFC and case folding.                                                   *)
(***************************************************************************)
EXTENDS Manifest, Functions

CONSTANTS
  Parsed,         \* from the bytes of a manifest to what they say
  Canonical,      \* from a path below payload/ to its NFC form
  Portable,       \* from a path below payload/ to its folded form
  Safe,           \* the paths that is_safe_path() takes
  MaxEntries, MaxEntryBytes, MaxTotalBytes

Documents == DOMAIN Parsed
Paths == DOMAIN Canonical

ASSUME CarrierAssumption ==
  /\ Canonical \in [Paths -> Paths] /\ Portable \in [Paths -> Paths]
  /\ \A p, q \in Paths : Canonical[p] = Canonical[q] => Portable[p] = Portable[q]
  /\ Safe \subseteq Paths
  /\ {MaxEntries, MaxEntryBytes, MaxTotalBytes} \subseteq Nat

(* A document is finite, and its schema asks for one value of each of      *)
(* these fields.                                                           *)
One(s) == \E v \in s : s = {v}

ASSUME SchemaAssumption ==
  \A bytes \in Documents : LET m == Parsed[bytes] IN
    /\ IsFiniteSet(Ids(m, "assetGroups"))
    /\ \A r \in Holds(m, "realizations") : One(r.sha256)
    /\ \A d \in Holds(m, "distributions") : d.kind = {"carrier-member"} =>
         One(d.carrierId) /\ One(d.persistentIdentifier)

(* Slip: what a group depends on is not required of it.                    *)
Members(m, group) ==
  IF group \in Ids(m, "assetGroups") THEN m.assetGroups[group].realizationIds ELSE {}

(* What a group and everything it depends on are made of: the worklist     *)
(* visits the least set of groups that has this one and what any of its    *)
(* groups depends on.                                                      *)
Required(m, group) ==
  LET Groups == Ids(m, "assetGroups")
      Full == {S \in SUBSET Groups :
                 \A g \in S : At(m.assetGroups[g], "dependsOnGroupIds") \cap Groups \subseteq S}
      Seen == {g \in Groups : \A S \in Full : {group} \cap Groups \subseteq S => g \in S}
  IN  UNION {m.assetGroups[g].realizationIds : g \in Seen}

(* The bytes that a mapping leads to, by the NFC form of its path.         *)
Embedded(payload, path) == {payload[p] : p \in {q \in DOMAIN payload : Canonical[q] = Canonical[path]}}

(* One mapping: a realization's bytes, at a safe path.                     *)
MappingHolds(m, payload, e) ==
  /\ e.realization \in Ids(m, "realizations")
  /\ e.path \in Safe
  /\ Embedded(payload, e.path) # {}
  /\ \A data \in Embedded(payload, e.path) :
       m.realizations[e.realization].sha256 = {data} /\ m.realizations[e.realization].byteSize = {Len(data)}

(* The mappings are one to one and leave no file of the payload out.       *)
Closed(payload, c) ==
  /\ \A j, k \in DOMAIN c.embedded : j # k =>
       /\ c.embedded[j].realization # c.embedded[k].realization
       /\ Canonical[c.embedded[j].path] # Canonical[c.embedded[k].path]
  /\ {Canonical[e.path] : e \in Range(c.embedded)} = {Canonical[p] : p \in DOMAIN payload}

ModeHolds(m, c) ==
  LET held == {e.realization : e \in Range(c.embedded)} IN
  /\ \A g \in c.complete : g \in Ids(m, "assetGroups") /\ Required(m, g) \subseteq held
  /\ c.mode = "bootstrap" => held # {}
  /\ c.mode = "preservation-closure" => c.complete = Ids(m, "assetGroups") /\ held = Ids(m, "realizations")

(* The parts of a carrier, for either format.                              *)
PartsFit(bytes, c, payload) ==
  LET m == Parsed[bytes] IN
  /\ c.manifest = bytes
  /\ {c.releaseId} = UNION {r.id : r \in Holds(m, "release")}
  /\ IsInjective([p \in DOMAIN payload |-> Canonical[p]])
  /\ Closed(payload, c)
  /\ \A k \in DOMAIN c.embedded : MappingHolds(m, payload, c.embedded[k])
  /\ ModeHolds(m, c)

CarrierFits(bytes, c, payload) ==
  /\ bytes \in Documents /\ ManifestFits(Parsed[bytes])
  /\ IsInjective([p \in DOMAIN payload |-> Portable[p]])
  /\ PartsFit(bytes, c, payload)

CarrierFits03(bytes, c, payload) ==
  bytes \in Documents /\ ManifestFits03(Parsed[bytes]) /\ PartsFit(bytes, c, payload)

(* validate_chunk_stream(): the chunks of a realization, in its bytes.     *)
ChunksHold(m, e, data) ==
  e.realization \in Ids(m, "realizations") =>
    \A chunks \in At(m.realizations[e.realization], "chunks") : \A k \in DOMAIN chunks :
      /\ chunks[k].offset + chunks[k].length <= Len(data)
      /\ chunks[k].digest = SubSeq(data, chunks[k].offset + 1, chunks[k].offset + chunks[k].length)

(* The chunks are looked for at the very path of the mapping.              *)
AllChunksHold(m, c, payload) ==
  \A k \in DOMAIN c.embedded : c.embedded[k].path \in DOMAIN payload =>
    ChunksHold(m, c.embedded[k], payload[c.embedded[k].path])

BytesOf(payload) == SumFunction([p \in DOMAIN payload |-> Len(payload[p])])

WithinLimits(payload) ==
  /\ Cardinality(DOMAIN payload) <= MaxEntries
  /\ \A p \in DOMAIN payload : Len(payload[p]) <= MaxEntryBytes
  /\ BytesOf(payload) <= MaxTotalBytes

-----------------------------------------------------------------------------
(* A workspace: its mimetype is exact or not, an entry outside of the      *)
(* layout is there or not, and below payload/ files with their kinds.      *)
FilesOf(tree) == {p \in DOMAIN tree : tree[p].kind = "file"}
PayloadOf(tree) == [p \in FilesOf(tree) |-> tree[p].data]

WorkspaceFits(w) ==
  /\ w.mimetype /\ ~w.stray
  /\ WithinLimits(PayloadOf(w.tree))
  /\ IsInjective([p \in DOMAIN w.tree |-> Portable[p]])
  /\ \A p \in DOMAIN w.tree : w.tree[p].kind = "file" /\ w.tree[p].links = 1
  /\ CarrierFits(w.manifest, w.carrier, PayloadOf(w.tree))
  /\ AllChunksHold(Parsed[w.manifest], w.carrier, PayloadOf(w.tree))

(* 0.3.3 looks at the files it maps and at nothing else.                   *)
WorkspaceFits03(w) == w.mimetype /\ CarrierFits03(w.manifest, w.carrier, PayloadOf(w.tree))

(* An archive: the structural entries in their places or not, and entries  *)
(* in order, each with its path, kind, protection and data.                *)
FileEntries(entries) == {e \in Range(entries) : e.kind # "dir"}

PayloadIn(entries) ==
  [p \in {e.path : e \in FileEntries(entries)} |->
     (CHOOSE e \in FileEntries(entries) : e.path = p).data]

EntriesFit(entries) ==
  /\ \A j, k \in {i \in DOMAIN entries : entries[i].kind # "dir"} :
       j # k => Canonical[entries[j].path] # Canonical[entries[k].path]
  /\ \A e \in FileEntries(entries) : e.path \in Safe /\ e.kind # "link" /\ ~e.encrypted

ArchiveFits(a) ==
  /\ a.ordered /\ ~a.stray
  /\ EntriesFit(a.entries)
  /\ IsInjective([k \in DOMAIN a.entries |-> Portable[a.entries[k].path]])
  /\ \A e \in Range(a.entries) : e.path \in Safe /\ e.kind \in {"file", "dir"} /\ ~e.encrypted
  /\ WithinLimits(PayloadIn(a.entries))
  /\ CarrierFits(a.manifest, a.carrier, PayloadIn(a.entries))
  /\ AllChunksHold(Parsed[a.manifest], a.carrier, PayloadIn(a.entries))

ArchiveFits03(a) ==
  /\ a.ordered /\ ~a.stray
  /\ EntriesFit(a.entries)
  /\ WithinLimits(PayloadIn(a.entries))
  /\ CarrierFits03(a.manifest, a.carrier, PayloadIn(a.entries))
=============================================================================
