----------------------------- MODULE Publication -----------------------------
(***************************************************************************)
(* From a packed carrier to its publication: once pack_workspace() of      *)
(* 0.5.0 has reported an archive, its publisher describes a release of it  *)
(* and has the set checked by the validators of companion descriptors      *)
(* (contract/vao-0.5.0/Tools/vao05.py:4770-5290).  Each of them opens a    *)
(* file more than once, and the publisher may replace one in between.      *)
(*                                                                         *)
(* First the companions of a manifest themselves: the descriptor of a      *)
(* release and its records in repositories, the metadata of each record,   *)
(* packs, and the receipts of those who have fetched something.            *)
(*                                                                         *)
(* A release is a record; its "records" are a sequence, the root first,    *)
(* and the files of a record a sequence of inventory items.  A field in    *)
(* capitals of the code, a digest, holds the bytes themselves.             *)
(***************************************************************************)
EXTENDS Packing

CONSTANT ReleaseName      \* vao-release.json, a path

Root(release) == release.records[1]

Items(release) ==
  UNION {{<<k, j>> : j \in DOMAIN release.records[k].files} : k \in DOMAIN release.records}

Item(release, i) == release.records[i[1]].files[i[2]]

CarrierItems(release) == {i \in Items(release) : Item(release, i).role = "carrier"}

ReleaseFits03(release) ==
  LET records == release.records IN
  /\ IsInjective([k \in DOMAIN records |-> records[k].id])
  /\ IsInjective([k \in DOMAIN records |-> records[k].version])
  /\ \A k \in DOMAIN records :
       /\ records[k].version \notin records[k].concept
       /\ IsInjective([j \in DOMAIN records[k].files |-> records[k].files[j].name])
       /\ ReleaseName \notin {f.name : f \in Range(records[k].files)}
  /\ 1 \in DOMAIN records /\ \A k \in DOMAIN records \ {1} : records[k].relation # {}
  /\ \E i \in DOMAIN Root(release).files :
       {j \in DOMAIN Root(release).files : Root(release).files[j].role = "manifest"} = {i}
  /\ \E f \in Range(Root(release).files) : f.role = "carrier"

InverseOf ==
  [hasPart |-> "isPartOf", requires |-> "isRequiredBy", references |-> "isReferencedBy",
   isSupplementedBy |-> "isSupplementTo", isDocumentedBy |-> "documents", isDerivedFrom |-> "isSourceOf"]

NamesFit(files) ==
  /\ \A f \in Range(files) : f.name \in Safe
  /\ \A f, g \in Range(files) : f.name # g.name => Portable[f.name] # Portable[g.name]

(* Slip: unique within each record.                                        *)
CarriersUniquePerRecord(release) ==
  \A i, j \in CarrierItems(release) :
    i[1] = j[1] /\ Item(release, i).carrierId = Item(release, j).carrierId => i = j

(* A carrier's identifier stands for one file in the whole family.         *)
CarriersUnique(release) ==
  \A i, j \in CarrierItems(release) : Item(release, i).carrierId = Item(release, j).carrierId => i = j

ReleaseFits05(release) ==
  /\ ReleaseFits03(release)
  /\ CarriersUnique(release)
  /\ \A r \in Range(release.records) :
       /\ NamesFit(r.files)
       /\ \A f \in r.relation \cap DOMAIN InverseOf : r.inverse \subseteq {InverseOf[f]}

(* Where the files of a family that are carriers are to be found.          *)
Locations(release) ==
  {[carrierId |-> Item(release, i).carrierId, version |-> release.records[i[1]].version,
    record |-> release.records[i[1]].id, name |-> Item(release, i).name] : i \in CarrierItems(release)}

Location(d) ==
  [carrierId |-> Val(d, "carrierId"), version |-> Val(d, "persistentIdentifier"),
   record |-> Val(d, "recordIdentifier"), name |-> Val(d, "fileIdentifier")]

(* A manifest that a companion descriptor is compared with.                *)
DocumentFits(bytes) == bytes \in Documents /\ ManifestFits(Parsed[bytes])

ReleaseMatches(release, bytes) ==
  LET m == Parsed[bytes] IN
  /\ {release.vaoId} = Ids(m, "object")
  /\ \A r \in Holds(m, "release") : \A f \in {"id", "revision", "contentVersion"} : {release[f]} = r[f]
  /\ \A f \in Range(Root(release).files) : f.role = "manifest" => f.bytes = bytes
  /\ \A d \in Holds(m, "distributions") : d.kind = {"carrier-member"} => Location(d) \in Locations(release)

(* One carrier, and what the inventory says of it.                         *)
InventoryMatches(item, a) ==
  /\ item.bytes = a
  /\ item.carrierId = a.carrier.id /\ item.mode = a.carrier.mode
  /\ item.manifest = a.carrier.manifest /\ item.complete = a.carrier.complete
  /\ item.descriptor = a.carrier

(* The inventory by the names of files: of two of one name it has the last. *)
Inventory(release) ==
  LET Named(name) == {i \in CarrierItems(release) : Item(release, i).name = name}
      After(i, j) == i[1] > j[1] \/ (i[1] = j[1] /\ i[2] > j[2])
  IN  [name \in {Item(release, i).name : i \in CarrierItems(release)} |->
         Item(release, CHOOSE i \in Named(name) : \A j \in Named(name) \ {i} : After(i, j))]

-----------------------------------------------------------------------------
(* A pack of realizations.                                                 *)
PackFits(pack) ==
  /\ \A j, k \in DOMAIN pack.members : j # k =>
       /\ pack.members[j].realization # pack.members[k].realization
       /\ Canonical[pack.members[j].path] # Canonical[pack.members[k].path]
       /\ pack.members[j].path # pack.members[k].path =>
            Portable[pack.members[j].path] # Portable[pack.members[k].path]
  /\ \A e \in Range(pack.members) : e.path \in Safe

PackMatches(pack, bytes) ==
  LET m == Parsed[bytes] IN
  /\ {pack.releaseId} = UNION {r.id : r \in Holds(m, "release")}
  /\ \A e \in Range(pack.members) :
       /\ e.realization \in Ids(m, "realizations")
       /\ m.realizations[e.realization].sha256 = {e.bytes}

-----------------------------------------------------------------------------
(* A receipt, with the carrier that the realizations came from.            *)
ReceiptFits(receipt) ==
  /\ \A j, k \in DOMAIN receipt.acquisitions : j # k =>
       \/ receipt.acquisitions[j].realization # receipt.acquisitions[k].realization
       \/ receipt.acquisitions[j].distribution # receipt.acquisitions[k].distribution
  /\ \A a \in Range(receipt.acquisitions) :
       /\ a.attempted <= receipt.created
       /\ \A t \in a.verified : a.attempted <= t /\ t <= receipt.created
  /\ IsInjective(receipt.profileStates)

(* Slip: the source is a carrier of the same release.                      *)
SourceOfRelease(receipt, bytes, archive) ==
  /\ receipt.source = archive
  /\ {archive.carrier.releaseId} = UNION {r.id : r \in Holds(Parsed[bytes], "release")}

(* The evidence is that of a packed carrier.                               *)
SourceMatches(receipt, bytes, archive) ==
  /\ receipt.source = archive
  /\ {archive.carrier.releaseId} = UNION {r.id : r \in Holds(Parsed[bytes], "release")}
  /\ archive.carrier.manifest = bytes

AcquisitionMatches(m, a) ==
  /\ a.realization \in Ids(m, "realizations")
  /\ a.distribution \in Ids(m, "distributions")
  /\ a.distribution \in At(m.realizations[a.realization], "distributionIds")
  /\ a.status = "verified" => a.observed = m.realizations[a.realization].sha256
  /\ a.status = "integrity-failed" => ~(a.observed \subseteq m.realizations[a.realization].sha256)

(* An implementation is called as the environment is that it names.        *)
Identifying == {"name", "version", "identity", "scope", "description"}

ImplementationMatches(m, implementation) ==
  \A id \in implementation.softwareEnvironmentId :
    /\ id \in Ids(m, "softwareEnvironments")
    /\ \A f \in Identifying : At(implementation, f) = At(m.softwareEnvironments[id], f)

ReceiptMatches(receipt, bytes) ==
  LET m == Parsed[bytes] IN
  /\ {receipt.releaseId} = UNION {r.id : r \in Holds(m, "release")}
  /\ receipt.manifest = bytes
  /\ \A a \in Range(receipt.acquisitions) : AcquisitionMatches(m, a)
  /\ receipt.groups \subseteq Ids(m, "assetGroups")
  /\ Range(receipt.profileStates) \subseteq ProfileIds(m)
  /\ ImplementationMatches(m, receipt.implementation)

-----------------------------------------------------------------------------
(* The legacy metadata of the records in Zenodo, one document for each.    *)
ZenodoRecords(release) == {k \in DOMAIN release.records : release.records[k].zenodo}

DocumentOf(release, documents, k) == {d \in Range(documents) : d.record = release.records[k].id}

RolesFit(release, documents) ==
  /\ \A d \in DocumentOf(release, documents, 1) :
       /\ d.role = IF release.topology = "single-record" THEN "monolithic-root" ELSE "family-root"
       /\ d.contentVersion = release.contentVersion
  /\ \A k \in DOMAIN release.records \ {1} : \A d \in DocumentOf(release, documents, k) :
       d.role = "family-member"

(* The root leads to the exact version of each member, and to no concept;  *)
(* a member leads back where it says so.                                   *)
RelationsFit(release, documents) ==
  \A k \in DOMAIN release.records \ {1} :
    LET r == release.records[k] IN
    /\ \A d \in DocumentOf(release, documents, 1) : \A relation \in r.relation :
         /\ <<r.version, relation>> \in d.related
         /\ \A c \in r.concept : <<c, relation>> \notin d.related
    /\ \A d \in DocumentOf(release, documents, k) : \A inverse \in r.inverse :
         <<Root(release).version, inverse>> \in d.related

PublicationFits(release, documents) ==
  /\ ReleaseFits05(release)
  /\ IsInjective([k \in DOMAIN documents |-> documents[k].record])
  /\ \A d \in Range(documents) : d.releaseId = release.id
  /\ {d.record : d \in Range(documents)} = {release.records[k].id : k \in ZenodoRecords(release)}
  /\ RolesFit(release, documents)
  /\ RelationsFit(release, documents)

-----------------------------------------------------------------------------
(* The publisher and the checks.                                           *)
CONSTANTS
  Described(_),   \* the desks of a publisher who describes an archive
  Amended(_, _),  \* what an amendment makes of a desk, beside the archive
  MaxAmends       \* a bound for TLC

ASSUME PublicationAssumption == MaxAmends \in Nat

VARIABLES
  desk,           \* the files: release, manifest, shelf of carriers, receipt, documents
  check,          \* what the running check has in hand
  passed,         \* the checks that have accepted the desk as it stands
  amends

deskVars == <<desk, check, passed, amends>>
vars == <<packVars, deskVars>>

Idle == [pc |-> "idle"]

Init == PackInit /\ desk = <<>> /\ check = Idle /\ passed = {} /\ amends = 0

Describe ==
  /\ pc = "done" /\ tool = "0.5.0" /\ desk = <<>> /\ check = Idle
  /\ desk' \in Described(out.archive)
  /\ passed' = {}
  /\ UNCHANGED <<packVars, check, amends>>

(* An amendment; what the earlier checks have said is void.                *)
Amend ==
  /\ desk # <<>> /\ amends < MaxAmends
  /\ desk' \in Amended(desk, out.archive)
  /\ amends' = amends + 1
  /\ passed' = {}
  /\ check' = IF check = Idle THEN check ELSE [check EXCEPT !.quiet = FALSE]
  /\ UNCHANGED packVars

Begin(what, pc1, ok, held) ==
  /\ desk # <<>> /\ check = Idle
  /\ check' = [of |-> what, pc |-> pc1, ok |-> ok, quiet |-> TRUE, held |-> held, todo |-> {}, name |-> ""]
  /\ UNCHANGED <<packVars, desk, passed, amends>>

Verdict ==
  /\ check.pc = "verdict"
  /\ check' = Idle
  /\ passed' = IF check.ok /\ check.quiet THEN passed \cup {check.of}
               ELSE IF check.ok THEN passed ELSE passed \ {check.of}
  /\ UNCHANGED <<packVars, desk, amends>>

(* validate_release_carrier_set(): the release and the manifest are        *)
(* checked, and then both are read again.                                  *)
CheckRelease ==
  Begin("release", "reread",
        /\ ReleaseFits05(desk.release)
        /\ DocumentFits(desk.manifest)
        /\ ReleaseMatches(desk.release, desk.manifest),
        <<>>)

RereadRelease ==
  /\ check.pc = "reread"
  /\ check' = [check EXCEPT !.pc = "validate",
                 !.ok = @ /\ DOMAIN desk.shelf = DOMAIN Inventory(desk.release),
                 !.held = [inventory |-> Inventory(desk.release), manifest |-> desk.manifest],
                 !.todo = DOMAIN desk.shelf \cap DOMAIN Inventory(desk.release)]
  /\ UNCHANGED <<packVars, desk, passed, amends>>

(* Each carrier, in the order in which they were supplied, is validated,   *)
(* and opened again to be compared.                                        *)
ValidateCarrier ==
  /\ check.pc = "validate"
  /\ \/ /\ check.todo = {}
        /\ check' = [check EXCEPT !.pc = "verdict"]
     \/ \E name \in check.todo :
          check' = [check EXCEPT !.pc = "compare", !.name = name, !.todo = @ \ {name},
                      !.ok = @ /\ ArchiveFits(desk.shelf[name])]
  /\ UNCHANGED <<packVars, desk, passed, amends>>

CompareCarrier ==
  /\ check.pc = "compare"
  /\ LET a == desk.shelf[check.name]
     IN  check' = [check EXCEPT !.pc = "validate",
                     !.ok = @ /\ InventoryMatches(check.held.inventory[check.name], a)
                              /\ a.manifest = check.held.manifest]
  /\ UNCHANGED <<packVars, desk, passed, amends>>

(* validate_receipt_manifest_set(): the source is validated, and opened    *)
(* again for its evidence.                                                 *)
CheckReceipt ==
  Begin("receipt", "source",
        /\ ReceiptFits(desk.receipt)
        /\ DocumentFits(desk.manifest)
        /\ ReceiptMatches(desk.receipt, desk.manifest),
        [manifest |-> desk.manifest, receipt |-> desk.receipt])

ValidateSource ==
  /\ check.pc = "source"
  /\ check' = IF ArchiveFits(desk.shelf[desk.source]) THEN [check EXCEPT !.pc = "evidence"]
              ELSE [check EXCEPT !.pc = "verdict", !.ok = FALSE]
  /\ UNCHANGED <<packVars, desk, passed, amends>>

CompareSource ==
  /\ check.pc = "evidence"
  /\ check' = [check EXCEPT !.pc = "verdict",
                 !.ok = @ /\ SourceMatches(check.held.receipt, check.held.manifest, desk.shelf[desk.source])]
  /\ UNCHANGED <<packVars, desk, passed, amends>>

CheckPublication ==
  Begin("publication", "verdict", PublicationFits(desk.release, desk.documents), <<>>)

CheckPack ==
  Begin("pack", "verdict",
        PackFits(desk.pack) /\ DocumentFits(desk.manifest) /\ PackMatches(desk.pack, desk.manifest),
        <<>>)

Publish ==
  \/ Describe \/ Amend \/ Verdict
  \/ CheckRelease \/ RereadRelease \/ ValidateCarrier \/ CompareCarrier
  \/ CheckReceipt \/ ValidateSource \/ CompareSource
  \/ CheckPublication \/ CheckPack

Next == (desk = <<>> /\ PackNext /\ UNCHANGED deskVars) \/ Publish

Spec == Init /\ [][Next]_vars

-----------------------------------------------------------------------------
CarrierMembers == {d \in Holds(Parsed[desk.manifest], "distributions") : d.kind = {"carrier-member"}}

(* Two records never name a carrier alike.                                 *)
NamesDiffer ==
  \A i, j \in CarrierItems(desk.release) :
    Item(desk.release, i).name = Item(desk.release, j).name => i = j

(* "every carrier-member Distribution matches one carrier inventory entry" *)
(* (VAO_CONFORMANCE_0.5.0.md:74).  Where a release and its carriers have   *)
(* been accepted as they stand, and each carrier has a name of its own,    *)
(* whoever follows a distribution to its carrier comes to exactly one      *)
(* file, byte for byte the one that was described, sealed, and of exactly  *)
(* this manifest; and when the metadata of the records have been accepted  *)
(* as well, those of the root lead to the version it is in by the relation *)
(* the release declares, and by that relation never to a concept, which    *)
(* stands for other versions too.                                          *)
ReleaseIsClosed ==
  "release" \in passed /\ NamesDiffer =>
    \A d \in CarrierMembers :
      \E i \in CarrierItems(desk.release) :
        LET item == Item(desk.release, i)
            record == desk.release.records[i[1]]
        IN  /\ {j \in CarrierItems(desk.release) : Item(desk.release, j).carrierId \in d.carrierId} = {i}
            /\ desk.shelf[item.name] = item.bytes
            /\ item.bytes.manifest = desk.manifest /\ item.bytes.carrier.id = item.carrierId
            /\ record.version \in d.persistentIdentifier
            /\ "publication" \in passed /\ Root(desk.release).zenodo /\ i[1] # 1 =>
                 \E p \in Range(desk.documents) :
                   /\ p.record = Root(desk.release).id
                   /\ \E relation \in record.relation :
                        /\ <<record.version, relation>> \in p.related
                        /\ \A c \in record.concept : <<c, relation>> \notin p.related

(* The bytes that a carrier has for a realization.                         *)
In(a, rid) == {a.entries[k].data : k \in Places(a, rid)}

(* Wherever a realization comes from, a carrier of the release, a pack, or *)
(* the carrier that a receipt names as its source, and whatever a receipt  *)
(* reports as verified: once these have been accepted for one manifest,    *)
(* all of them have the same bytes.                                        *)
Offers(rid) ==
  (UNION {In(Item(desk.release, i).bytes, rid) :
            i \in IF "release" \in passed /\ NamesDiffer THEN CarrierItems(desk.release) ELSE {}})
  \cup {e.bytes : e \in {d \in Range(desk.pack.members) : "pack" \in passed /\ d.realization = rid}}
  \cup (IF "receipt" \in passed
        THEN In(desk.shelf[desk.source], rid)
             \cup UNION {x.observed : x \in {y \in Range(desk.receipt.acquisitions) :
                                               y.status = "verified" /\ y.realization = rid}}
        ELSE {})

BytesAgree ==
  passed # {} => \A rid \in Ids(Parsed[desk.manifest], "realizations") : Cardinality(Offers(rid)) <= 1

(* "Cross-check every deposited carrier against release and manifest       *)
(* bytes": each entry of an accepted inventory says what its file is.      *)
EveryCarrierChecked ==
  "release" \in passed =>
    \A i \in CarrierItems(desk.release) :
      desk.shelf[Item(desk.release, i).name] = Item(desk.release, i).bytes
=============================================================================
