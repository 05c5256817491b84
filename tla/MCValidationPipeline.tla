------------------------ MODULE MCValidationPipeline ------------------------
(***************************************************************************)
(* A sound package of each version, and packages with one flaw or with     *)
(* broken payload each; any may become any other.  The rules behind a flaw *)
(* and what is computed from a package without one are checked once, by    *)
(* what follows.                                                           *)
(***************************************************************************)
EXTENDS ValidationPipeline, Functions


P(version, flaw, size, payload, supported, rights) ==
  [version |-> version, flaw |-> flaw, size |-> size, payload |-> payload,
   supported |-> supported, rights |-> rights]

Sound == {P(v, "none", 2, <<"good", "good">>, TRUE, FALSE) : v \in Version}

MCPackage ==
  Sound \cup
  { P("0.2.2", f, 1, <<"good">>, TRUE, FALSE) : f \in Flaw \ {"none"} } \cup
  { P("modern", "rules", 1, <<"good", "good">>, TRUE, FALSE),
    P("0.2.2", "none", 1, <<"good", "bad">>, FALSE, TRUE),
    P("0.3.2", "none", 1, <<"crc", "good">>, TRUE, FALSE),
    P("0.3.2", "none", 1, <<"garbled">>, FALSE, FALSE),
    P("modern", "none", 1, <<"garbled", "good">>, TRUE, TRUE),
    P("modern", "none", 1, <<>>, FALSE, TRUE),
    P("0.2.2", "none", 2, <<"crc">>, TRUE, TRUE),
    P("0.2.2", "none", 2, <<"good">>, TRUE, TRUE) }

-----------------------------------------------------------------------------
Rules == INSTANCE PackageRules

Named(id) == [id |-> id]
Relation(id, subject, predicate, object) ==
  [id |-> id, subjectId |-> subject, predicate |-> predicate, objectId |-> object,
   status |-> "accepted"]
SomeAsset(id, file, size) ==
  [id |-> id, path |-> file, byteSize |-> size, digest |-> TRUE, aboutEntityIds |-> {"organ"},
   gltf |-> TRUE, coordinateUnit |-> FALSE]

Organ ==
  [id |-> "package", primaryEntityId |-> "organ", focusEntityIds |-> {"organ", "pipe"},
   entities |-> <<Named("organ"), Named("pipe")>>,
   assets |-> <<SomeAsset("model", "a.glb", 2), SomeAsset("sample", "b.wav", 3)>>,
   relations |-> <<Relation("part", "organ", 1, {"pipe"})>>,
   paradata |-> <<"survey">>, analyses |-> <<>>, acoustics |-> <<<<"room">>, <<"response">>>>,
   integrity |-> [algorithm |-> "sha256", assetCount |-> 2, totalPayloadBytes |-> 5],
   rights |-> <<[appliesToIds |-> {"package", "sample"}, license |-> TRUE, restricted |-> FALSE]>>,
   profiles |-> <<[id |-> "core", requiredCapabilities |-> <<"fixity", "spatial">>]>>,
   conformsTo |-> {"core"}]

Damaged ==
  {<<[Organ EXCEPT !.paradata = <<"room">>], {"reused"}>>,
   <<[Organ EXCEPT !.analyses = <<"trial", "trial">>], {"reused", "duplicate"}>>,
   <<[Organ EXCEPT !.primaryEntityId = "pipe", !.focusEntityIds = {"organ"}], {"unfocused"}>>,
   <<[Organ EXCEPT !.primaryEntityId = "room", !.focusEntityIds = @ \cup {"room"}],
     {"primary", "focus"}>>,
   <<[Organ EXCEPT !.entities = <<Named("organ")>>], {"focus"}>>,
   <<[Organ EXCEPT !.relations[1].subjectId = "package"], {"subject"}>>,
   <<[Organ EXCEPT !.relations[1].objectId = {"elsewhere"}], {}>>,
   <<[Organ EXCEPT !.relations[1].status = "superseded"], {"status"}>>,
   <<[Organ EXCEPT !.assets[2].path = "a.glb"], {"path"}>>,
   <<[Organ EXCEPT !.assets[1].digest = FALSE], {"sha256"}>>,
   <<[Organ EXCEPT !.assets[1].aboutEntityIds = {"sample"}], {"about"}>>,
   <<[Organ EXCEPT !.assets = <<@[1]>>], {"assetCount", "payloadBytes", "applicability"}>>,
   <<[Organ EXCEPT !.assets[1].byteSize = 3], {"payloadBytes"}>>,
   <<[Organ EXCEPT !.integrity.algorithm = "sha1"], {"algorithm"}>>,
   <<[Organ EXCEPT !.rights = <<>>], {"unlicensed"}>>,
   <<[Organ EXCEPT !.id = "another"], {"unlicensed", "applicability"}>>,
   <<[Organ EXCEPT !.profiles = @ \o @], {"profiles"}>>,
   <<[Organ EXCEPT !.profiles[1].requiredCapabilities = @ \o @], {"capabilities"}>>,
   <<[Organ EXCEPT !.conformsTo = {"playable"}], {"conformsTo"}>>}

(* validate_semantics() (semantic_validation.py:15-197) reports of each of *)
(* these manifests the rules it breaks and no other one; an object outside *)
(* the package breaks none.                                                *)
ASSUME RulesAreIndependent ==
  /\ Rules!validate_semantics(Organ) = {}
  /\ \A d \in Damaged : Rules!validate_semantics(d[1]) = d[2]

(* The capabilities are those that the profiles require and no other ones; *)
(* missing rights stop media as restricted ones do (capability.py:22-54,   *)
(* semantic_validation.py:199-212).                                        *)
ASSUME OfferedAsDeclared ==
  /\ Rules!negotiate(Organ, TRUE) = [c \in {"fixity", "spatial"} |-> c = "fixity"]
  /\ Rules!negotiate([Organ EXCEPT !.assets[2].coordinateUnit = TRUE], FALSE)
       = [c \in {"fixity", "spatial"} |-> TRUE]
  /\ ~Rules!rights_require_acknowledgement(Organ)
  /\ \A r \in {<<>>, <<Organ.rights[1], [Organ.rights[1] EXCEPT !.restricted = TRUE]>>,
               <<[Organ.rights[1] EXCEPT !.license = FALSE]>>} :
       Rules!rights_require_acknowledgement([Organ EXCEPT !.rights = r])

(* Both ways through the graph lead along the same edges, each once, in an *)
(* order that does not depend on that of the manifest (graph.py:35-70).    *)
Relations ==
  {[id |-> k, subjectId |-> s, predicate |-> p, objectId |-> o] :
     k \in 1..3, s \in {"organ", "pipe"}, p \in 1..2, o \in {{}, {"pipe"}, {"elsewhere"}}}

Lists == {<<e, f, g>> : e \in {e \in Relations : e.id = 3}, f \in {f \in Relations : f.id = 1},
                        g \in {g \in Relations : g.id = 2}}

ASSUME GraphIsTwoWay ==
  \A list \in Lists :
    LET graph == Rules!build_graph([Organ EXCEPT !.relations = list])
        Along(index, e) == {<<n, k>> \in (DOMAIN index) \X (1..3) :
                              k \in DOMAIN index[n] /\ index[n][k] = e}
    IN  /\ graph = Rules!build_graph([Organ EXCEPT !.relations = Rules!Reverse(list)])
        /\ \A e \in Range(list) :
             /\ {x[1] : x \in Along(graph.outgoing, e)} = {e.subjectId}
             /\ {x[1] : x \in Along(graph.incoming, e)} = e.objectId
        /\ \A index \in {graph.outgoing, graph.incoming} : \A n \in DOMAIN index :
             \A k, l \in DOMAIN index[n] : k < l =>
               \/ index[n][k].predicate < index[n][l].predicate
               \/ index[n][k].predicate = index[n][l].predicate /\ index[n][k].id < index[n][l].id

-----------------------------------------------------------------------------
NoDocument == [strict |-> TRUE, external |-> FALSE, text |-> 0, nodes |-> <<>>]
Node == [object |-> TRUE, index |-> 9, name |-> "pipe"]
Chunk(kind, length, size, document) ==
  [kind |-> kind, length |-> length, size |-> size, document |-> document]

Chunks3 ==
  {Chunk("BIN", 4, 4, NoDocument), Chunk("BIN", 8, 4, NoDocument), Chunk("BIN", 3, 3, NoDocument),
   Chunk("JSON", 8, 8, [NoDocument EXCEPT !.text = 6, !.nodes = <<Node, Node>>]),
   Chunk("JSON", 4, 4, [NoDocument EXCEPT !.text = 4]),
   Chunk("JSON", 4, 4, [NoDocument EXCEPT !.external = TRUE]),
   Chunk("JSON", 16, 16, [NoDocument EXCEPT !.text = 15])}

Glbs ==
  {[magic |-> TRUE, version |-> 2, length |-> n, chunks |-> cs] :
     n \in {0, 20, 28, 32, 40}, cs \in UNION {[1..k -> Chunks3] : k \in 0..3}}

(* inject_glb_node_indices() (gltf.py:25-93) gives a GLB that it would     *)
(* read itself, in which the nodes bear their numbers and nothing else is  *)
(* another; its length is exact although the text has grown.               *)
ASSUME CopyIsAGlb ==
  \A glb \in Glbs, growth \in 0..5 :
    \A copy \in Rules!inject_glb_node_indices(glb, 12, 44, growth) :
      /\ Rules!CanInject(copy, 16, 44, 0)
      /\ DOMAIN copy.chunks = DOMAIN glb.chunks
      /\ \A k \in DOMAIN copy.chunks :
           LET old == glb.chunks[k]
               new == copy.chunks[k]
           IN  IF old.kind # "JSON" THEN new = old
               ELSE /\ [new.document EXCEPT !.text = 0, !.nodes = <<>>]
                         = [old.document EXCEPT !.text = 0, !.nodes = <<>>]
                    /\ new.size >= new.document.text /\ new.size - new.document.text < 4
                    /\ new.document.nodes = [n \in DOMAIN old.document.nodes |->
                                               [old.document.nodes[n] EXCEPT !.index = n - 1]]

ASSUME SomeAreCopied ==
  \E glb \in Glbs : \E copy \in Rules!inject_glb_node_indices(glb, 12, 44, 3) :
    copy.length # glb.length /\ Len(copy.chunks) = 2
=============================================================================
