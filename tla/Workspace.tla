----------------------------- MODULE Workspace -----------------------------
(***************************************************************************)
(* The commands of vaom on a workspace of 0.2                              *)
(* (contract/vao-0.5.0/Tools/vaom.py:3961-4740): init, add, entity, link,  *)
(* pack, unpack and migrate, run by tools that share the directory and     *)
(* take no lock.  Each reads the manifest, works on what it holds, and     *)
(* replaces the manifest as a whole; between its steps another tool may    *)
(* run, the author may edit a file, or the tool may be killed.             *)
(*                                                                         *)
(* Digests are the bytes they are made of.  The revision, the time of the  *)
(* modification and the files that a killed write_json() leaves beside the *)
(* manifest are left out: no validator reads them.                         *)
(***************************************************************************)
EXTENDS LegacyExperience

CONSTANTS
  Tools,                      \* processes of vaom
  Authored,                   \* a workspace that somebody has made
  Initial,                    \* the manifest that init writes
  Note,                       \* the file it writes, which its asset names
  Sources,                    \* files to add: records of names, bytes, an asset, a relation, its ids
  Additions,                  \* entities and relations to add: records of registry, id, record
  Old,                        \* a workspace of 0.1
  Snapshot, Activity,         \* the asset and the activity of a migration
  FrameId, PoseId,            \* identifiers of migrated frames and poses, by number
  Edits, Changes,             \* what the author may do to the manifest, and to files
  Plans,                      \* commands that are given together: how many of each, and in all
  MaxEdits, MaxKills

VARIABLES
  disk,                       \* the workspace
  archive,                    \* the archive
  copy,                       \* another workspace, unpacked or migrated
  tool,                       \* what each tool does
  given, edits, kills

vars == <<disk, archive, copy, tool, given, edits, kills>>

(* A directory; one that is shared as it is made, with the tools that have *)
(* written to it or cleared it since; and a container, with the tool that  *)
(* made it, and whether a tool has found it valid: pack prints the path of *)
(* such a one, and unpack goes on.                                         *)
NoFiles   == [exists |-> FALSE, mimetype |-> FALSE, manifest |-> <<>>, payload |-> <<>>]
NoCopy    == [exists |-> FALSE, by |-> {}, mimetype |-> FALSE, manifest |-> <<>>, payload |-> <<>>]
NoArchive == [exists |-> FALSE, by |-> {}, closed |-> FALSE, validated |-> FALSE,
              manifest |-> <<>>, payload |-> <<>>]

Idle == [does |-> "nothing", at |-> "idle", held |-> <<>>, with |-> <<>>, path |-> {}, todo |-> {}]

-----------------------------------------------------------------------------
(* The validators.                                                         *)
ManifestFits(m, payload) == Ids(m, "object") # {} /\ LegacyHolds(m) /\ PayloadHolds(m, payload)

WorkspaceFits02(w) == w.exists /\ w.mimetype /\ ManifestFits(w.manifest, w.payload)

ArchiveFits02(a) == a.exists /\ a.closed /\ ManifestFits(a.manifest, a.payload)

Registered(m) == UNION {Ids(m, g) : g \in {"entities", "relations", "assets", "paradata", "analyses"}}

(* Every asset of a manifest names one file, and it is among those that    *)
(* are there.                                                              *)
NamesIn(m, payload) ==
  \A a \in Holds(m, "assets") : "path" \in DOMAIN a /\ \E p \in DOMAIN payload : a.path = {p}

(* The manifest with one record more, or another one in its place.         *)
Recorded(m, g, id, r) == With(m, g, With(Reg(m, g), id, r))

(* The bytes of every file that is there, as they are now; the record of a *)
(* file that is not keeps what it said.                                    *)
Refreshed(m, payload) ==
  LET fresh(a) == IF a.path \subseteq DOMAIN payload
                  THEN LET bytes == payload[Val(a, "path")]
                       IN  [a EXCEPT !.sha256 = {bytes}, !.byteSize = {Len(bytes)}]
                  ELSE a
      assets == [id \in Ids(m, "assets") |-> fresh(m.assets[id])]
  IN  [m EXCEPT !.assets = assets,
                !.object = [o \in DOMAIN m.object |->
                              [m.object[o] EXCEPT !.assetCount = {Cardinality(DOMAIN assets)},
                                                  !.totalPayloadBytes = {BytesListed(assets)}]]]

(* What somebody has made is complete to begin with, and what init writes  *)
(* names the file that it writes; an asset has a path; entity and link add *)
(* to two registries; and the author may change anything in the manifest   *)
(* but the file that an asset names.                                       *)
ASSUME WorkspaceAssumption ==
  /\ DOMAIN Authored = DOMAIN NoFiles /\ Authored.exists /\ NamesIn(Authored.manifest, Authored.payload)
  /\ NamesIn(Initial, Note)
  /\ \A s \in Sources : "path" \in DOMAIN s.asset
  /\ \A a \in Additions : a.registry \in {"entities", "relations"}
  /\ \A e \in Edits : e.registry = "assets" => "path" \notin DOMAIN e.with

-----------------------------------------------------------------------------
Commands == {"init", "add", "change", "pack", "unpack", "migrate"}

Init ==
  /\ disk \in {NoFiles, Authored} /\ archive = NoArchive /\ copy = NoCopy
  /\ tool = [t \in Tools |-> Idle]
  /\ given = [c \in Commands \cup {"all"} |-> 0] /\ edits = 0 /\ kills = 0

Begin(t, does, with) ==
  /\ tool[t] = Idle
  /\ given' = [given EXCEPT ![does] = @ + 1, !["all"] = @ + 1]
  /\ \E plan \in Plans : \A c \in DOMAIN given : given'[c] <= plan[c]
  /\ tool' = [tool EXCEPT ![t] = [Idle EXCEPT !.does = does, !.at = "begin", !.with = with]]
  /\ UNCHANGED <<disk, archive, copy, edits, kills>>

Doing(t, does, at) == tool[t].does = does /\ tool[t].at = at

Go(t, at) == tool' = [tool EXCEPT ![t].at = at]

(* A command that has ended, well or not, leaves nothing behind but files. *)
End(t) == tool' = [tool EXCEPT ![t] = Idle]

Bounds == <<given, edits, kills>>

Written(t) == disk' = [disk EXCEPT !.manifest = tool[t].held]

(* init: the files, then the manifest.                                     *)
InitFiles(t) ==
  /\ Doing(t, "init", "begin")
  /\ IF disk.exists THEN End(t) /\ UNCHANGED disk
     ELSE /\ disk' = [disk EXCEPT !.exists = TRUE, !.mimetype = TRUE, !.payload = Note]
          /\ Go(t, "write")
  /\ UNCHANGED <<archive, copy, Bounds>>

InitWrite(t) ==
  /\ Doing(t, "init", "write")
  /\ disk' = [disk EXCEPT !.manifest = Refreshed(Initial, Note)]
  /\ End(t)
  /\ UNCHANGED <<archive, copy, Bounds>>

(* add: a free name, the copy, the manifest that was read with the asset,  *)
(* and at last a validation that undoes nothing.  An asset is identified   *)
(* by its path.                                                            *)
FreeNames(names, m) ==
  {n \in DOMAIN names :
     names[n] \notin DOMAIN disk.payload /\ \A a \in Holds(m, "assets") : a.path # {names[n]}}

(* The name that is taken: the first that is free.                         *)
Taken(names, m) == names[CHOOSE n \in FreeNames(names, m) : \A k \in FreeNames(names, m) : n <= k]

Refused(source, m) ==
  \/ m = <<>> \/ ~Into(m, source.asset, "aboutEntityIds", "entities")
  \/ FreeNames(source.names, m) = {}

(* Slip: the manifest is written before the file is copied.                *)
AddLoadAhead(t) ==
  /\ Doing(t, "add", "begin")
  /\ IF Refused(tool[t].with, disk.manifest) THEN End(t)
     ELSE tool' = [tool EXCEPT ![t].held = disk.manifest, ![t].at = "refresh",
                               ![t].path = {Taken(tool[t].with.names, disk.manifest)}]
  /\ UNCHANGED <<disk, archive, copy, Bounds>>

AddLoad(t) ==
  /\ Doing(t, "add", "begin")
  /\ IF Refused(tool[t].with, disk.manifest) THEN End(t)
     ELSE tool' = [tool EXCEPT ![t].held = disk.manifest, ![t].at = "copy",
                               ![t].path = {Taken(tool[t].with.names, disk.manifest)}]
  /\ UNCHANGED <<disk, archive, copy, Bounds>>

AddCopy(t) ==
  /\ Doing(t, "add", "copy")
  /\ disk' = [disk EXCEPT !.payload = With(@, Val(tool[t], "path"), tool[t].with.bytes)]
  /\ Go(t, "refresh")
  /\ UNCHANGED <<archive, copy, Bounds>>

AddRefresh(t) ==
  /\ Doing(t, "add", "refresh")
  /\ LET source   == tool[t].with
         id       == Val(tool[t], "path")
         asset    == [source.asset EXCEPT !.path = tool[t].path]
         relation == [source.relation EXCEPT !.objectId = {id}]
         m == Recorded(Recorded(tool[t].held, "assets", id, asset), "relations", source.links[id], relation)
     IN  tool' = [tool EXCEPT ![t].held = Refreshed(m, disk.payload), ![t].at = "write"]
  /\ UNCHANGED <<disk, archive, copy, Bounds>>

AddWrite(t) ==
  /\ Doing(t, "add", "write")
  /\ Written(t) /\ End(t)
  /\ UNCHANGED <<archive, copy, Bounds>>

(* entity and link: nothing is written of a change that would make the     *)
(* workspace, as its files are then, invalid.                              *)
ChangeLoad(t) ==
  /\ Doing(t, "change", "begin")
  /\ LET a == tool[t].with IN
     IF /\ disk.manifest # <<>> /\ a.id \notin Registered(disk.manifest)
        /\ At(a.record, "subjectId") \subseteq Registered(disk.manifest)
     THEN tool' = [tool EXCEPT ![t].held = Recorded(disk.manifest, a.registry, a.id, a.record),
                               ![t].at = "check"]
     ELSE End(t)
  /\ UNCHANGED <<disk, archive, copy, Bounds>>

ChangeCheck(t) ==
  /\ Doing(t, "change", "check")
  /\ IF ManifestFits(tool[t].held, disk.payload) THEN Go(t, "write") ELSE End(t)
  /\ UNCHANGED <<disk, archive, copy, Bounds>>

ChangeWrite(t) ==
  /\ Doing(t, "change", "write")
  /\ Written(t) /\ End(t)
  /\ UNCHANGED <<archive, copy, Bounds>>

-----------------------------------------------------------------------------
(* pack: the manifest is refreshed and written before anything is checked; *)
(* the check reads it again; and the archive gets the manifest that was    *)
(* held and the files as they are when each is written.                    *)
PackLoad(t) ==
  /\ Doing(t, "pack", "begin")
  /\ IF disk.manifest = <<>> \/ archive.exists THEN End(t)
     ELSE tool' = [tool EXCEPT ![t].held = Refreshed(disk.manifest, disk.payload), ![t].at = "write"]
  /\ UNCHANGED <<disk, archive, copy, Bounds>>

PackWrite(t) ==
  /\ Doing(t, "pack", "write")
  /\ Written(t) /\ Go(t, "check")
  /\ UNCHANGED <<archive, copy, Bounds>>

PackCheck(t) ==
  /\ Doing(t, "pack", "check")
  /\ IF WorkspaceFits02(disk) THEN Go(t, "open") ELSE End(t)
  /\ UNCHANGED <<disk, archive, copy, Bounds>>

(* Whoever finds an archive there goes on to take it away, and its maker   *)
(* writes on to a file that has no name any more.                          *)
PackOpen(t) ==
  /\ Doing(t, "pack", "open")
  /\ IF archive.exists THEN UNCHANGED archive /\ Go(t, "withdraw")
     ELSE /\ archive' = [NoArchive EXCEPT !.exists = TRUE, !.by = {t}, !.manifest = tool[t].held]
          /\ tool' = [tool EXCEPT ![t].at = "entries",
                                  ![t].todo = UNION {a.path : a \in Holds(tool[t].held, "assets")}]
  /\ UNCHANGED <<disk, copy, Bounds>>

(* Leaving the container closes it, whatever it holds by then.             *)
Closed(t) == IF archive.by = {t} THEN [archive EXCEPT !.closed = TRUE] ELSE archive

PackEntry(t) ==
  /\ Doing(t, "pack", "entries")
  /\ \E p \in tool[t].todo :
       /\ \A q \in tool[t].todo \ {p} : Precedes(p, q)
       /\ IF p \in DOMAIN disk.payload
          THEN /\ archive' = IF archive.by = {t}
                             THEN [archive EXCEPT !.payload = With(@, p, disk.payload[p])]
                             ELSE archive
               /\ tool' = [tool EXCEPT ![t].todo = @ \ {p}]
          ELSE archive' = Closed(t) /\ Go(t, "withdraw")
  /\ UNCHANGED <<disk, copy, Bounds>>

PackClose(t) ==
  /\ Doing(t, "pack", "entries") /\ tool[t].todo = {}
  /\ archive' = Closed(t) /\ Go(t, "validate")
  /\ UNCHANGED <<disk, copy, Bounds>>

(* What is validated, and reported or taken away, is what has the name by  *)
(* then, whoever made it.                                                  *)
PackValidate(t) ==
  /\ Doing(t, "pack", "validate")
  /\ IF ArchiveFits02(archive)
     THEN archive' = [archive EXCEPT !.validated = TRUE] /\ End(t)
     ELSE UNCHANGED archive /\ Go(t, "withdraw")
  /\ UNCHANGED <<disk, copy, Bounds>>

PackWithdraw(t) ==
  /\ Doing(t, "pack", "withdraw")
  /\ archive' = NoArchive /\ End(t)
  /\ UNCHANGED <<disk, copy, Bounds>>

-----------------------------------------------------------------------------
(* unpack: the archive is validated, and what is there removed, before the *)
(* directory is made and the archive is opened for a second time.          *)
Touched(t, w) == [w EXCEPT !.by = copy.by \cup {t}]

Empty(w) == ~w.mimetype /\ w.manifest = <<>> /\ w.payload = <<>>

(* Slip: a container that can be listed passes for a valid one.            *)
UnpackCheckQuick(t) ==
  /\ Doing(t, "unpack", "begin")
  /\ IF archive.closed
     THEN archive' = [archive EXCEPT !.validated = TRUE] /\ Go(t, "target")
     ELSE UNCHANGED archive /\ End(t)
  /\ UNCHANGED <<disk, copy, Bounds>>

UnpackCheck(t) ==
  /\ Doing(t, "unpack", "begin")
  /\ IF ArchiveFits02(archive)
     THEN archive' = [archive EXCEPT !.validated = TRUE] /\ Go(t, "target")
     ELSE UNCHANGED archive /\ End(t)
  /\ UNCHANGED <<disk, copy, Bounds>>

UnpackTarget(t) ==
  /\ Doing(t, "unpack", "target")
  /\ \/ ~copy.exists /\ Go(t, "make")
     \/ copy.exists /\ tool[t].with.force /\ Go(t, "clear")
     \/ copy.exists /\ ~tool[t].with.force /\ End(t)
  /\ UNCHANGED <<disk, archive, copy, Bounds>>

(* rmtree: the files, and then the directory, unless another tool has put  *)
(* a file into it or has been faster; a command that failed does not mind. *)
UnpackClear(t) ==
  /\ tool[t].does = "unpack" /\ tool[t].at \in {"clear", "discard"}
  /\ copy' = Touched(t, [NoCopy EXCEPT !.exists = copy.exists])
  /\ Go(t, IF tool[t].at = "clear" THEN "remove" ELSE "drop")
  /\ UNCHANGED <<disk, archive, Bounds>>

UnpackRemove(t) ==
  /\ Doing(t, "unpack", "remove")
  /\ IF copy.exists /\ Empty(copy) THEN copy' = Touched(t, NoCopy) /\ Go(t, "make")
     ELSE UNCHANGED copy /\ End(t)
  /\ UNCHANGED <<disk, archive, Bounds>>

UnpackDrop(t) ==
  /\ Doing(t, "unpack", "drop")
  /\ copy' = IF Empty(copy) THEN Touched(t, NoCopy) ELSE copy
  /\ End(t)
  /\ UNCHANGED <<disk, archive, Bounds>>

UnpackMake(t) ==
  /\ Doing(t, "unpack", "make")
  /\ IF copy.exists THEN UNCHANGED copy /\ End(t)
     ELSE copy' = [NoCopy EXCEPT !.exists = TRUE, !.by = {t}] /\ Go(t, "open")
  /\ UNCHANGED <<disk, archive, Bounds>>

(* An archive that is open stays what it is, whatever becomes of its name. *)
UnpackOpen(t) ==
  /\ Doing(t, "unpack", "open")
  /\ IF archive.closed
     THEN tool' = [tool EXCEPT ![t].held = archive, ![t].todo = DOMAIN archive.payload, ![t].at = "mimetype"]
     ELSE Go(t, "discard")
  /\ UNCHANGED <<disk, archive, copy, Bounds>>

(* The entries, of which none may be there; a directory that is gone is    *)
(* made again.                                                             *)
UnpackMimetype(t) ==
  /\ Doing(t, "unpack", "mimetype")
  /\ IF copy.mimetype THEN UNCHANGED copy /\ Go(t, "discard")
     ELSE copy' = Touched(t, [copy EXCEPT !.exists = TRUE, !.mimetype = TRUE]) /\ Go(t, "manifest")
  /\ UNCHANGED <<disk, archive, Bounds>>

UnpackManifest(t) ==
  /\ Doing(t, "unpack", "manifest")
  /\ IF copy.manifest # <<>> THEN UNCHANGED copy /\ Go(t, "discard")
     ELSE copy' = Touched(t, [copy EXCEPT !.exists = TRUE, !.manifest = tool[t].held.manifest]) /\ Go(t, "entries")
  /\ UNCHANGED <<disk, archive, Bounds>>

UnpackEntry(t) ==
  /\ Doing(t, "unpack", "entries")
  /\ \E p \in tool[t].todo :
       /\ \A q \in tool[t].todo \ {p} : Precedes(p, q)
       /\ IF p \in DOMAIN copy.payload THEN UNCHANGED copy /\ Go(t, "discard")
          ELSE /\ copy' = Touched(t, [copy EXCEPT !.exists = TRUE, !.payload = With(@, p, tool[t].held.payload[p])])
               /\ tool' = [tool EXCEPT ![t].todo = @ \ {p}]
  /\ UNCHANGED <<disk, archive, Bounds>>

Extracted(t) == Doing(t, "unpack", "entries") /\ tool[t].todo = {}

UnpackDone(t) ==
  /\ Extracted(t) /\ End(t)
  /\ UNCHANGED <<disk, archive, copy, Bounds>>

-----------------------------------------------------------------------------
(* migrate: a manifest of 0.1 names one root, and places its regions by    *)
(* their properties; in 0.2 they have frames and poses.                    *)
Numbered(S) == CHOOSE f \in [S -> 1 .. Cardinality(S)] : \A a, b \in S : f[a] = f[b] => a = b

MigratedSpace(m) ==
  LET regions == OfKind(m, "spatialRegion")
      n == Numbered(regions)
      placed == {r \in regions : Has(m.entities[r], "position")}
  IN  [coordinateFrames |->
         [id \in {FrameId[n[r]] : r \in regions} |-> [dimension |-> {3}, handedness |-> {"right"}]],
       poses |->
         [id \in {PoseId[n[r]] : r \in placed} |->
            LET r == CHOOSE r \in placed : PoseId[n[r]] = id
            IN  [subjectId |-> {r}, frameId |-> {FrameId[n[r]]}, position |-> m.entities[r].position]]]

MigrateFrom01(m) ==
  LET root == TheObject(m).rootEntityId
      spatial == "spatial" \in Ids(m, "profiles")
      object == [o \in Ids(m, "object") |->
                   [m.object[o] EXCEPT !.primaryEntityId = root, !.focusEntityIds = root,
                                       !.rootEntityId = {}, !.formatVersion = {"0.2"},
                                       !.acoustics = IF spatial THEN {TRUE} ELSE @]]
      profiles == [p \in Ids(m, "profiles") |->
                     IF p \in StandardProfiles \ {"acoustics"} THEN [m.profiles[p] EXCEPT !.version = {"0.2"}]
                     ELSE m.profiles[p]]
      renewed == [m EXCEPT !.object = object, !.profiles = profiles]
  IN  IF spatial THEN Over(MigratedSpace(m), renewed) ELSE renewed

MigrateCopy(t) ==
  /\ Doing(t, "migrate", "begin")
  /\ IF copy.exists \/ TheObject(Old.manifest).formatVersion # {"0.1"}
     THEN End(t) /\ UNCHANGED copy
     ELSE /\ copy' = [exists |-> TRUE, by |-> {t}, mimetype |-> Old.mimetype,
                     manifest |-> Old.manifest, payload |-> Old.payload]
          /\ tool' = [tool EXCEPT ![t].held = MigrateFrom01(Old.manifest), ![t].at = "amend"]
  /\ UNCHANGED <<disk, archive, Bounds>>

(* The manifest that was migrated stays as evidence, with what was done.   *)
MigrateAmend(t) ==
  /\ Doing(t, "migrate", "amend")
  /\ LET about == TheObject(tool[t].held).primaryEntityId
         asset == [Snapshot.asset EXCEPT !.aboutEntityIds = about]
         with  == Recorded(tool[t].held, "assets", Snapshot.id, asset)
         m     == Recorded(with, "paradata", Activity.id, [inputIds |-> {Snapshot.id}])
         payload == With(copy.payload, Snapshot.path, Snapshot.bytes)
     IN  IF {Snapshot.id, Activity.id} \cap Registered(tool[t].held) # {}
         THEN copy' = Touched(t, NoCopy) /\ End(t)
         ELSE /\ copy' = Touched(t, [copy EXCEPT !.exists = TRUE, !.payload = payload, !.mimetype = TRUE])
              /\ tool' = [tool EXCEPT ![t].held = Refreshed(m, payload), ![t].at = "write"]
  /\ UNCHANGED <<disk, archive, Bounds>>

MigrateWrite(t) ==
  /\ Doing(t, "migrate", "write")
  /\ copy' = IF copy.exists THEN Touched(t, [copy EXCEPT !.manifest = tool[t].held]) ELSE copy
  /\ End(t)
  /\ UNCHANGED <<disk, archive, Bounds>>

-----------------------------------------------------------------------------
(* The surroundings: an author who edits the manifest or a file, a tool    *)
(* that is killed, and a pack that is interrupted at the keyboard, which   *)
(* is no exception that takes the container away.                          *)
EditManifest(e) ==
  /\ edits < MaxEdits /\ e.id \in Ids(disk.manifest, e.registry)
  /\ disk' = [disk EXCEPT !.manifest[e.registry][e.id] = Over(e.with, @)]
  /\ edits' = edits + 1
  /\ UNCHANGED <<archive, copy, tool, given, kills>>

ChangeFile(c) ==
  /\ edits < MaxEdits /\ c.path \in DOMAIN disk.payload
  /\ disk' = [disk EXCEPT !.payload[c.path] = c.bytes]
  /\ edits' = edits + 1
  /\ UNCHANGED <<archive, copy, tool, given, kills>>

Kill(t) ==
  /\ kills < MaxKills /\ tool[t] # Idle
  /\ End(t)
  /\ kills' = kills + 1
  /\ UNCHANGED <<disk, archive, copy, given, edits>>

Interrupt(t) ==
  /\ kills < MaxKills /\ Doing(t, "pack", "entries")
  /\ archive' = Closed(t) /\ End(t)
  /\ kills' = kills + 1
  /\ UNCHANGED <<disk, copy, given, edits>>

Working(t) ==
  \/ InitFiles(t) \/ InitWrite(t)
  \/ AddLoad(t) \/ AddCopy(t) \/ AddRefresh(t) \/ AddWrite(t)
  \/ ChangeLoad(t) \/ ChangeCheck(t) \/ ChangeWrite(t)
  \/ PackLoad(t) \/ PackWrite(t) \/ PackCheck(t) \/ PackOpen(t) \/ PackEntry(t)
  \/ PackClose(t) \/ PackValidate(t) \/ PackWithdraw(t)
  \/ UnpackCheck(t) \/ UnpackTarget(t) \/ UnpackClear(t) \/ UnpackRemove(t) \/ UnpackDrop(t) \/ UnpackMake(t)
  \/ UnpackOpen(t) \/ UnpackMimetype(t) \/ UnpackManifest(t) \/ UnpackEntry(t) \/ UnpackDone(t)
  \/ MigrateCopy(t) \/ MigrateAmend(t) \/ MigrateWrite(t)

Next ==
  \/ \E t \in Tools :
       \/ \E d \in {"init", "pack", "migrate"} : Begin(t, d, <<>>)
       \/ \E f \in BOOLEAN : Begin(t, "unpack", [force |-> f])
       \/ \E s \in Sources : Begin(t, "add", s)
       \/ \E a \in Additions : Begin(t, "change", a)
       \/ Working(t) \/ Kill(t) \/ Interrupt(t)
  \/ \E e \in Edits : EditManifest(e)
  \/ \E c \in Changes : ChangeFile(c)

Spec == Init /\ [][Next]_vars

-----------------------------------------------------------------------------
(* The manifest of a workspace never names a file that is not there,       *)
(* whichever tools run at once and wherever one is killed: init and add    *)
(* write a file before the manifest that lists it, and an update that is   *)
(* lost loses records and not files.                                       *)
NamesWhatIsThere == NamesIn(disk.manifest, disk.payload)

(* When unpack has extracted the last entry and goes to report it, what it *)
(* leaves is a valid workspace, provided that nobody else has written to   *)
(* the directory or cleared it since unpack made it, and that what it      *)
(* opened had been found valid: by unpack itself, or, when packs have      *)
(* taken that archive away and put another in its place since, by a pack.  *)
UnpackedIsValid ==
  \A t \in Tools :
    Extracted(t) /\ copy.by = {t} /\ tool[t].held.validated => WorkspaceFits02(copy)

(* Of an archive that pack has reported or unpack has begun with, and      *)
(* whose profile claims media that can be replaced, every configuration    *)
(* that such an experience offers can be played: relations that nobody has *)
(* rejected or superseded lead from it to a carrier, a performance and a   *)
(* sound, whose bytes are in the archive as they were listed, although the *)
(* author may have changed the manifest and the files while pack ran, and  *)
(* archives that are closed but wrong stand in the same place before they  *)
(* are taken away, or for good when pack is interrupted or killed.         *)
LeadsTo(m, from, predicate, to) ==
  \E id \in Ids(m, "relations") :
    LET r == m.relations[id] IN
    /\ r.subjectId = {from} /\ r.predicate = {predicate} /\ to \in At(r, "objectId")
    /\ At(r, "status") \cap {"rejected", "superseded"} = {}

Sounds(a, from) ==
  \E id \in Ids(a.manifest, "assets") :
    LET medium == a.manifest.assets[id] IN
    /\ LeadsTo(a.manifest, from, "usesMedia", id) /\ "audio" \in At(medium, "media")
    /\ \E p \in DOMAIN a.payload : medium.path = {p} /\ medium.sha256 = {a.payload[p]}

Plays(a, configuration) ==
  \E carrier \in Ids(a.manifest, "entities") :
    /\ LeadsTo(a.manifest, configuration, "usesCarrier", carrier)
    /\ \E performance \in Ids(a.manifest, "entities") :
         LeadsTo(a.manifest, carrier, "hasPerformance", performance) /\ Sounds(a, performance)

PlaysFromArchive ==
  archive.validated /\ "replaceable-performance-media" \in CapableOf(archive.manifest, "experiential") =>
    \A e \in Experiences(archive.manifest, "replaceable-performance-media") :
    \A c \in OfKind(archive.manifest, "configuration") :
      LeadsTo(archive.manifest, e, "offersConfiguration", c) => Plays(archive, c)
=============================================================================
