------------------------------ MODULE MCDelivery ------------------------------
(***************************************************************************)
(* A manifest with two groups of one realization each, the second of which *)
(* depends on the first, for each format; that of 0.5.0 in two drafts that *)
(* differ in one byte of a realization.  The paths: two spellings of one   *)
(* name, in NFC and not, the same name in capitals, and a second file.     *)
(***************************************************************************)
EXTENDS Publication

MCMaxDimension == 3
MCMaxCells == 9
MCMaxEntries == 3
MCMaxEntryBytes == 2
MCMaxTotalBytes == 4

MCSpots == {"tone", "toneNFD", "TONE", "text"}
MCSafe == MCSpots \cup {"start.vao", "whole.vao", "vao.json", "vao-release.json"}

MCCanonical == [p \in MCSafe |-> IF p = "toneNFD" THEN "tone" ELSE p]
MCPortable == [p \in MCSafe |-> IF p \in {"toneNFD", "TONE"} THEN "tone" ELSE p]

Chunk(k, data) == [index |-> k - 1, offset |-> k - 1, length |-> 1, algorithm |-> "sha256", digest |-> <<data[k]>>]

Realization(asset, data, makers) ==
  [assetId |-> {asset}, kind |-> {"document"}, representationStatus |-> {"undetermined"},
   provenanceIds |-> makers, distributionIds |-> IF makers # {} /\ asset = "sound" THEN {"away"} ELSE {},
   byteSize |-> {2}, sha256 |-> {data},
   contentDigests |-> {<<"sha256", data>>}, strategy |-> {"fixed"},
   chunks |-> {<<Chunk(1, data), Chunk(2, data)>>}]

Content(tone, profiles, makers) ==
  [object |-> [vao |-> [primaryEntityId |-> {"bell"}, focusEntityIds |-> {"bell"},
                        conformsTo |-> profiles, modifiedAt |-> {50}]],
   release |-> [release |-> [id |-> {"release"}, revision |-> {"1"}, contentVersion |-> {"1.0"}]],
   profiles |-> [p \in profiles |-> [requiredCapabilities |->
                 IF p \in DOMAIN RequiredCapabilities THEN RequiredCapabilities[p] ELSE {}]],
   entities |-> [bell |-> [kind |-> {"instrument"}]],
   logicalAssets |-> [sound |-> [realizationIds |-> {"toneWav"}, roles |-> {}],
                      notes |-> [realizationIds |-> {"textDoc"}, roles |-> {}]],
   realizations |-> [toneWav |-> Realization("sound", tone, makers),
                     textDoc |-> Realization("notes", <<"t", "u">>, makers)],
   rights |-> [terms |-> [appliesToIds |-> {"vao", "sound", "notes", "toneWav", "textDoc"}]],
   assetGroups |->
     [starter |-> [realizationIds |-> {"textDoc"}, totalByteSize |-> {2}, qualityTier |-> {"bootstrap"}],
      full    |-> [realizationIds |-> {"toneWav"}, totalByteSize |-> {2}, dependsOnGroupIds |-> {"starter"},
                   qualityTier |-> {"full"}]]]

Called(version) == [name |-> {"reader"}, version |-> {version}, identity |-> {"reader.py"}]

Content05(tone) ==
  Content(tone, {"core", "dynamic", "scientific", "zenodo"}, {"taping"}) @@
  [repositoryBindings |-> [archive |-> [repositoryType |-> {"zenodo"}]],
   distributions |-> [away |-> [kind |-> {"carrier-member"}, repositoryBindingId |-> {"archive"}, resolver |-> {"zenodo"},
                                carrierId |-> {"carrier"}, persistentIdentifier |-> {"v2"}, conceptIdentifier |-> {"c2"},
                                recordIdentifier |-> {"r2"}, fileIdentifier |-> {"whole.vao"}]]] @@
  [agents |-> [lab |-> [agentKind |-> {"organization"}]],
   protocols |-> [protocol |-> <<>>],
   softwareEnvironments |-> [tool |-> Software @@ Called("1")],
   activities |-> [taping |-> [activityKind |-> {"capture"}, startedAt |-> {1}, endedAt |-> {3},
                               agentIds |-> {"lab"}, protocolId |-> {"protocol"},
                               softwareEnvironmentId |-> {"tool"}, inputIds |-> {"bell"},
                               outputIds |-> {"toneWav", "textDoc"}]]]

MCParsed == [first |-> Content05(<<"a", "b">>), second |-> Content05(<<"a", "c">>),
             old |-> Content(<<"a", "b">>, {"core", "dynamic"}, {})]

ASSUME ManifestFits(MCParsed.first) /\ ManifestFits(MCParsed.second) /\ ManifestFits03(MCParsed.old)

Carrier(bytes, embedded, complete, mode) ==
  [id |-> "carrier", manifest |-> bytes, releaseId |-> "release", embedded |-> embedded, complete |-> complete, mode |-> mode]

Tone(path) == [realization |-> "toneWav", path |-> path]
Text == [realization |-> "textDoc", path |-> "text"]

Whole(bytes) == Carrier(bytes, <<Tone("tone"), Text>>, {"full", "starter"}, "preservation-closure")

MCCarriers ==
  {Whole("second"), Carrier("first", <<Text, Tone("tone")>>, {"full"}, "bootstrap"),
   Carrier("first", <<Tone("tone")>>, {"full"}, "bootstrap"),
   Carrier("old", <<Tone("tone")>>, {"full"}, "bootstrap"),
   Carrier("first", <<Text>>, {"starter"}, "bootstrap"),
   Carrier("old", <<Text>>, {"starter"}, "bootstrap")}

File(kind, links, data) == [kind |-> kind, links |-> links, data |-> data]

MCFiles ==
  {File("file", 1, <<"a", "b">>), File("file", 1, <<"a", "c">>), File("file", 1, <<"a">>),
   File("file", 2, <<"a", "b">>), File("link", 1, <<"a", "b">>)}

Tree(path) == path :> File("file", 1, <<"a", "b">>) @@ "text" :> File("file", 1, <<"t", "u">>)

Workspace(p, c) == [mimetype |-> TRUE, stray |-> FALSE, manifest |-> c.manifest, tree |-> Tree(p), carrier |-> c]

MCWorkspaces ==
  {Workspace(p, Whole(bytes)) : p \in {"tone", "toneNFD"}, bytes \in {"first", "old"}}
  \cup {Workspace("tone", Carrier("first", <<Text, Tone(p)>>, {"full"}, "bootstrap")) : p \in {"tone", "toneNFD"}}

-----------------------------------------------------------------------------
(* The publisher's desk.  A family of two records, or one with everything; *)
(* a carrier for a start beside the one that has been packed.              *)
Entries(embedded, tree) == [k \in DOMAIN embedded |->
  [path |-> embedded[k].path, kind |-> "file", encrypted |-> FALSE, data |-> tree[embedded[k].path].data]]

Archive(c, tree) ==
  [ordered |-> TRUE, stray |-> FALSE, manifest |-> c.manifest, carrier |-> c, entries |-> Entries(c.embedded, tree)]

Starter(bytes) ==
  Archive([Carrier(bytes, <<Text>>, {"starter"}, "bootstrap") EXCEPT !.id = "starter"], Tree("tone"))

(* The whole of the object by another draft of the same release.           *)
Other(bytes) == IF bytes = "first" THEN "second" ELSE "first"

Draft(bytes) ==
  Archive(Whole(bytes), [Tree("tone") EXCEPT !.tone.data = IF bytes = "first" THEN <<"a", "b">> ELSE <<"a", "c">>])

CarrierEntry(name, a) ==
  [name |-> name, role |-> "carrier", carrierId |-> a.carrier.id, bytes |-> a, mode |-> a.carrier.mode,
   manifest |-> a.carrier.manifest, complete |-> a.carrier.complete, descriptor |-> a.carrier]

ManifestEntry(bytes) == [name |-> "vao.json", role |-> "manifest", bytes |-> bytes]

Record(id, version, concept, files, relation, inverse) ==
  [id |-> id, version |-> version, concept |-> {concept}, zenodo |-> TRUE, files |-> files,
   relation |-> relation, inverse |-> inverse]

Release(topology, records) ==
  [vaoId |-> "vao", id |-> "release", revision |-> "1", contentVersion |-> "1.0",
   topology |-> topology, records |-> records]

Document(record, role, related) ==
  [record |-> record, role |-> role, contentVersion |-> "1.0", releaseId |-> "release", related |-> related]

Receipt(bytes, a, data) ==
  [releaseId |-> "release", manifest |-> bytes, source |-> a, created |-> 4,
   acquisitions |-> <<[realization |-> "toneWav", distribution |-> "away", attempted |-> 1, verified |-> {2},
                       status |-> "verified", observed |-> {data}]>>,
   profileStates |-> <<"core", "dynamic">>, groups |-> {"starter"},
   implementation |-> [softwareEnvironmentId |-> {"tool"}, scope |-> Software.scope] @@ Called("1")]

Pack(bytes) == [releaseId |-> "release",
                members |-> <<[realization |-> "toneWav", path |-> "tone", bytes |-> Draft(bytes).entries[1].data]>>]

Desk(a, release, documents) ==
  [release |-> release, documents |-> documents, manifest |-> a.manifest,
   shelf |-> [n \in {"start.vao", "whole.vao"} |-> IF n = "whole.vao" THEN a ELSE Starter(a.manifest)],
   receipt |-> Receipt(a.manifest, a, Draft(a.manifest).entries[1].data), source |-> "whole.vao",
   pack |-> Pack(a.manifest)]

MCDescribed(a) ==
  LET start == CarrierEntry("start.vao", Starter(a.manifest))
      whole == CarrierEntry("whole.vao", a)
      first == ManifestEntry(a.manifest)
  IN  {Desk(a, Release("family", <<Record("r1", "v1", "c1", <<first, start>>, {}, {}),
                                   Record("r2", "v2", "c2", <<whole>>, {"hasPart"}, {"isPartOf"})>>),
            <<Document("r1", "family-root", {<<"v2", "hasPart">>}),
              Document("r2", "family-member", {<<"v1", "isPartOf">>})>>),
       Desk(a, Release("single-record", <<Record("r2", "v2", "c2", <<first, start, whole>>, {}, {})>>),
            <<Document("r2", "monolithic-root", {})>>)}

(* Amendments of the descriptor's last record, of its other fields, of the *)
(* metadata, and of the files that they describe.                          *)
LastRecord(d) == Len(d.release.records)

LastFile(d) == Len(d.release.records[LastRecord(d)].files)

AmendedItem(d, a) ==
  {[d EXCEPT !.release.records[LastRecord(d)].files[LastFile(d)] = item] :
     item \in {[CarrierEntry("whole.vao", a) EXCEPT !.name = "start.vao"],
               [CarrierEntry("whole.vao", a) EXCEPT !.carrierId = "starter"],
               CarrierEntry("whole.vao", Draft(Other(d.manifest))),
               CarrierEntry("start.vao", Draft(Other(d.manifest))),
               [CarrierEntry("whole.vao", a) EXCEPT !.complete = {"starter"}]}}
  \cup {[d EXCEPT !.release.records[1].files = Append(@, CarrierEntry("start.vao", a))],
        [d EXCEPT !.release.records[1].files =
           Append(@, CarrierEntry("whole.vao", [Draft(Other(d.manifest)) EXCEPT !.carrier.id = "third"]))],
        [d EXCEPT !.release.records[1].files[2] = CarrierEntry("start.vao", a), !.shelf["start.vao"] = a]}

AmendedRecord(d) ==
  {[d EXCEPT !.release.records[LastRecord(d)].version = "v3"], [d EXCEPT !.release.records[LastRecord(d)].inverse = {"requires"}],
   [d EXCEPT !.release.topology = "single-record"], [d EXCEPT !.release.contentVersion = "1.1"],
   [d EXCEPT !.documents = <<>>]}
  \cup {[d EXCEPT !.documents[k].related = related] :
          k \in DOMAIN d.documents, related \in {{}, {<<"c2", "hasPart">>}, {<<"v2", "hasPart">>, <<"c2", "references">>}}}

AmendedFiles(d) ==
  {[d EXCEPT !.manifest = Other(@)],
   [d EXCEPT !.shelf["whole.vao"] = Draft(Other(d.manifest))],
   [d EXCEPT !.shelf["whole.vao"] = Draft(Other(d.manifest)), !.receipt.source = Draft(Other(d.manifest))],
   [d EXCEPT !.shelf["whole.vao"].entries = <<>>],
   [d EXCEPT !.receipt = Receipt(d.manifest, d.receipt.source, <<"x", "x">>)],
   [d EXCEPT !.receipt.implementation = Called("2") @@ @],
   [d EXCEPT !.pack = Pack(Other(d.manifest))]}

MCAmended(d, a) == AmendedItem(d, a) \cup AmendedRecord(d) \cup AmendedFiles(d)

(* Once an archive is described, nothing of how it was made is looked at.  *)
View == IF desk = <<>> THEN vars ELSE <<out, deskVars>>
=============================================================================
