-------------------------- MODULE WorkspaceProofs --------------------------
(***************************************************************************)
(* Proofs about the commands on a workspace, for any number of tools, of   *)
(* commands, of edits and of kills: the manifest never names a file that   *)
(* is not there; an archive that a tool has found valid stays so for as    *)
(* long as it is there, whoever closes, takes away or makes another; of    *)
(* such an archive every medium that an experience offers can be played;   *)
(* and what unpack extracts of it into a directory that is left alone is a *)
(* valid workspace.                                                        *)
(***************************************************************************)
EXTENDS Workspace, FiniteSetTheorems, TLAPS

(* What each tool holds is a manifest that was on the disk, or one made    *)
(* from it, and files are never taken away: so the files that it names are *)
(* still there whenever the tool gets to write it.                         *)
Single(S) == S # {} /\ \A p, q \in S : p = q

Shapes ==
  /\ DOMAIN tool = Tools /\ \A t \in Tools : DOMAIN tool[t] = DOMAIN Idle
  /\ DOMAIN disk = DOMAIN NoFiles /\ DOMAIN archive = DOMAIN NoArchive /\ DOMAIN copy = DOMAIN NoCopy

OnDisk ==
  /\ disk.exists \/ (disk.manifest = <<>> /\ disk.payload = <<>>)
  /\ NamesIn(disk.manifest, disk.payload)

Holding(t) ==
  /\ tool[t].does = "add" => tool[t].with \in Sources
  /\ tool[t].does = "change" => tool[t].with \in Additions
  /\ tool[t].does \notin {"unpack", "migrate"} => NamesIn(tool[t].held, disk.payload)
  /\ tool[t].does \in {"init", "add", "change", "pack"} /\ tool[t].at # "begin" => disk.exists
  /\ Doing(t, "init", "write") => DOMAIN Note \subseteq DOMAIN disk.payload
  /\ Doing(t, "add", "copy") => Single(tool[t].path)
  /\ Doing(t, "add", "refresh") => \E p \in DOMAIN disk.payload : tool[t].path = {p}

(* The archive is closed by the tool that made it, which writes no more to *)
(* it; another's writing goes into a file without a name.  So nothing can  *)
(* change any more when a tool finds it valid.                             *)
Sealed ==
  /\ archive.validated => ArchiveFits02(archive)
  /\ \A t \in Tools : Doing(t, "pack", "entries") /\ archive.by = {t} => ~archive.closed
  /\ \A a \in Holds(archive.manifest, "assets") : Single(a.path)

(* What an unpack has extracted so far, into a directory that no other     *)
(* tool has touched since it was made, is that much of what it has opened. *)
Extracts(t) == tool[t].does = "unpack" /\ tool[t].at \in {"mimetype", "manifest", "entries"}

Partly(t) ==
  /\ copy.exists
  /\ tool[t].at # "mimetype" => copy.mimetype
  /\ tool[t].at = "entries" => copy.manifest = tool[t].held.manifest
  /\ DOMAIN copy.payload = DOMAIN tool[t].held.payload \ tool[t].todo
  /\ \A p \in DOMAIN copy.payload : copy.payload[p] = tool[t].held.payload[p]

Extracting(t) ==
  /\ Doing(t, "unpack", "open") \/ Extracts(t) => copy.by # {}
  /\ Doing(t, "unpack", "open") /\ copy.by = {t} => copy.exists /\ copy.payload = <<>>
  /\ Extracts(t) =>
       /\ tool[t].held.validated => ManifestFits(tool[t].held.manifest, tool[t].held.payload)
       /\ tool[t].todo \subseteq DOMAIN tool[t].held.payload
       /\ copy.by = {t} => Partly(t)

WorkspaceInv == Shapes /\ OnDisk /\ (\A t \in Tools : Holding(t) /\ Extracting(t)) /\ Sealed

-----------------------------------------------------------------------------
(* Names.                                                                  *)

(* A file more takes no name away.                                         *)
LEMMA NamesStay ==
  ASSUME NEW m, NEW p, NEW q, NamesIn(m, p), DOMAIN p \subseteq DOMAIN q
  PROVE  NamesIn(m, q)
BY DEF NamesIn

LEMMA NoRecords == \A g : Ids(<<>>, g) = {}
BY DEF Ids, Reg

LEMMA NothingNamed ==
  ASSUME NEW p PROVE NamesIn(<<>>, p)
BY NoRecords DEF NamesIn, Holds

(* A record is put into the registry that it is for, and no other one.     *)
LEMMA RecordedIds ==
  ASSUME NEW m, NEW g, NEW id, NEW r
  PROVE  /\ Ids(Recorded(m, g, id, r), g) = Ids(m, g) \cup {id}
         /\ Reg(Recorded(m, g, id, r), g)[id] = r
         /\ \A k \in Ids(m, g) \ {id} : Reg(Recorded(m, g, id, r), g)[k] = Reg(m, g)[k]
         /\ \A h : h # g => Reg(Recorded(m, g, id, r), h) = Reg(m, h)
BY DEF Recorded, With, Reg, Ids

LEMMA RecordedElsewhere ==
  ASSUME NEW m, NEW p, NEW g, NEW id, NEW r, NamesIn(m, p), g # "assets"
  PROVE  NamesIn(Recorded(m, g, id, r), p)
<1>1. Reg(Recorded(m, g, id, r), "assets") = Reg(m, "assets")
  BY RecordedIds
<1>2. QED
  BY <1>1 DEF NamesIn, Holds, Ids

LEMMA RecordedAsset ==
  ASSUME NEW m, NEW p, NEW id, NEW r, NEW x \in DOMAIN p,
         NamesIn(m, p), "path" \in DOMAIN r, r.path = {x}
  PROVE  NamesIn(Recorded(m, "assets", id, r), p)
<1> DEFINE n == Recorded(m, "assets", id, r)
<1>1. /\ Ids(n, "assets") = Ids(m, "assets") \cup {id} /\ Reg(n, "assets")[id] = r
      /\ \A k \in Ids(m, "assets") \ {id} : Reg(n, "assets")[k] = Reg(m, "assets")[k]
  BY RecordedIds
<1> HIDE DEF n
<1>2. ASSUME NEW a \in Holds(n, "assets")
      PROVE  "path" \in DOMAIN a /\ \E y \in DOMAIN p : a.path = {y}
  <2>1. a = r \/ a \in Holds(m, "assets")
    BY <1>1, <1>2 DEF Holds
  <2>2. QED
    BY <2>1 DEF NamesIn
<1>3. QED
  BY <1>2 DEF NamesIn, n

(* A refresh changes what a manifest says of the bytes, and no path.       *)
LEMMA RefreshedNames ==
  ASSUME NEW m, NEW p, NEW q, NamesIn(m, p)
  PROVE  NamesIn(Refreshed(m, q), p)
<1> DEFINE fresh(a) == IF a.path \subseteq DOMAIN q
                       THEN LET bytes == q[Val(a, "path")]
                            IN  [a EXCEPT !.sha256 = {bytes}, !.byteSize = {Len(bytes)}]
                       ELSE a
           assets == [id \in Ids(m, "assets") |-> fresh(m.assets[id])]
           n == Refreshed(m, q)
<1>1. \A a : /\ DOMAIN fresh(a) = DOMAIN a
             /\ "path" \in DOMAIN a => fresh(a).path = a.path
  OBVIOUS
<1>2. "assets" \in DOMAIN m => n.assets = assets
  BY DEF Refreshed
<1>3. DOMAIN n = DOMAIN m
  BY DEF Refreshed
<1> HIDE DEF fresh, n
<1>4. \A a \in Holds(n, "assets") : \E b \in Holds(m, "assets") : a = fresh(b)
  BY <1>2, <1>3, NoRecords DEF Holds, Ids, Reg
<1>5. QED
  BY <1>1, <1>4 DEF NamesIn, n

(* An edit that changes no path.                                           *)
LEMMA EditedNames ==
  ASSUME NEW m, NEW p, NEW g, NEW with, NEW id \in Ids(m, g), NamesIn(m, p),
         g = "assets" => "path" \notin DOMAIN with
  PROVE  NamesIn([m EXCEPT ![g][id] = Over(with, @)], p)
<1> DEFINE n == [m EXCEPT ![g][id] = Over(with, @)]
<1>1. g \in DOMAIN m
  BY DEF Ids, Reg
<1>2. DOMAIN n = DOMAIN m /\ \A h \in DOMAIN m \ {g} : n[h] = m[h]
  OBVIOUS
<1>3. n[g] = [m[g] EXCEPT ![id] = Over(with, @)]
  BY <1>1
<1> HIDE DEF n
<1>4. CASE g # "assets"
  BY <1>2, <1>4 DEF NamesIn, Holds, Ids, Reg, n
<1>5. CASE g = "assets"
  <2>1. /\ Ids(n, g) = Ids(m, g) /\ Reg(n, g)[id] = Over(with, Reg(m, g)[id])
        /\ \A k \in Ids(m, g) \ {id} : Reg(n, g)[k] = Reg(m, g)[k]
    BY <1>1, <1>2, <1>3 DEF Ids, Reg
  <2>2. Reg(m, g)[id] \in Holds(m, "assets")
    BY <1>5 DEF Holds
  <2>3. /\ "path" \in DOMAIN Over(with, Reg(m, g)[id])
        /\ Over(with, Reg(m, g)[id]).path = Reg(m, g)[id].path
    BY <1>5, <2>2 DEF Over, NamesIn
  <2>4. ASSUME NEW a \in Holds(n, "assets")
        PROVE  "path" \in DOMAIN a /\ \E b \in Holds(m, "assets") : a.path = b.path
    <3>1. PICK k \in Ids(n, g) : a = Reg(n, g)[k]
      BY <1>5 DEF Holds
    <3>2. CASE k = id
      BY <2>1, <2>2, <2>3, <3>1, <3>2
    <3>3. CASE k # id
      BY <1>5, <2>1, <3>1, <3>3 DEF Holds, NamesIn
    <3>4. QED
      BY <3>2, <3>3
  <2>5. QED
    BY <2>4 DEF NamesIn, n
<1>6. QED
  BY <1>4, <1>5

-----------------------------------------------------------------------------
(* A step of one tool leaves what the others do alone, and takes no file   *)
(* from the workspace.                                                     *)
Footprint(u) ==
  /\ DOMAIN tool' = DOMAIN tool /\ DOMAIN tool'[u] = DOMAIN Idle
  /\ \A t \in Tools \ {u} : tool'[t] = tool[t]
  /\ DOMAIN disk' = DOMAIN disk /\ DOMAIN archive' = DOMAIN archive /\ DOMAIN copy' = DOMAIN copy
  /\ disk.exists => disk'.exists
  /\ DOMAIN disk.payload \subseteq DOMAIN disk'.payload

LEMMA WorkingFootprint ==
  ASSUME Shapes, OnDisk, NEW u \in Tools, Working(u)
  PROVE  Footprint(u)
<1> USE DEF Shapes, Footprint
<1>0. /\ DOMAIN NoArchive = {"exists", "by", "closed", "validated", "manifest", "payload"}
      /\ DOMAIN NoCopy = {"exists", "by", "mimetype", "manifest", "payload"}
      /\ DOMAIN NoFiles = {"exists", "mimetype", "manifest", "payload"}
      /\ DOMAIN Idle = {"does", "at", "held", "with", "path", "todo"}
  BY DEF NoArchive, NoCopy, NoFiles, Idle
<1>1. CASE InitFiles(u)
  <2>1. ~disk.exists => DOMAIN disk.payload = {}
    BY DEF OnDisk
  <2>2. QED
    BY <1>0, <1>1, <2>1 DEF InitFiles, Go, End
<1>2. CASE InitWrite(u)
  BY <1>0, <1>2 DEF InitWrite, Go, End
<1>3. CASE AddLoad(u)
  BY <1>0, <1>3 DEF AddLoad, Go, End
<1>4. CASE AddCopy(u)
  BY <1>0, <1>4 DEF AddCopy, Go, End, With
<1>5. CASE AddRefresh(u)
  BY <1>0, <1>5 DEF AddRefresh, Go, End
<1>6. CASE AddWrite(u)
  BY <1>0, <1>6 DEF AddWrite, Go, End, Written
<1>7. CASE ChangeLoad(u)
  BY <1>0, <1>7 DEF ChangeLoad, Go, End
<1>8. CASE ChangeCheck(u)
  BY <1>0, <1>8 DEF ChangeCheck, Go, End
<1>9. CASE ChangeWrite(u)
  BY <1>0, <1>9 DEF ChangeWrite, Go, End, Written
<1>10. CASE PackLoad(u)
  BY <1>0, <1>10 DEF PackLoad, Go, End
<1>11. CASE PackWrite(u)
  BY <1>0, <1>11 DEF PackWrite, Go, End, Written
<1>12. CASE PackCheck(u)
  BY <1>0, <1>12 DEF PackCheck, Go, End
<1>13. CASE PackOpen(u)
  BY <1>0, <1>13 DEF PackOpen, Go, End
<1>14. CASE PackEntry(u)
  BY <1>0, <1>14 DEF PackEntry, Go, End, Closed
<1>15. CASE PackClose(u)
  BY <1>0, <1>15 DEF PackClose, Go, End, Closed
<1>16. CASE PackValidate(u)
  BY <1>0, <1>16 DEF PackValidate, Go, End
<1>17. CASE PackWithdraw(u)
  BY <1>0, <1>17 DEF PackWithdraw, Go, End
<1>18. CASE UnpackCheck(u)
  BY <1>0, <1>18 DEF UnpackCheck, Go, End, Touched
<1>19. CASE UnpackTarget(u)
  BY <1>0, <1>19 DEF UnpackTarget, Go, End, Touched
<1>20. CASE UnpackClear(u)
  BY <1>0, <1>20 DEF UnpackClear, Go, End, Touched
<1>21. CASE UnpackRemove(u)
  BY <1>0, <1>21 DEF UnpackRemove, Go, End, Touched
<1>22. CASE UnpackDrop(u)
  BY <1>0, <1>22 DEF UnpackDrop, Go, End, Touched
<1>23. CASE UnpackMake(u)
  BY <1>0, <1>23 DEF UnpackMake, Go, End, Touched
<1>24. CASE UnpackOpen(u)
  BY <1>0, <1>24 DEF UnpackOpen, Go, End, Touched
<1>25. CASE UnpackMimetype(u)
  BY <1>0, <1>25 DEF UnpackMimetype, Go, End, Touched
<1>26. CASE UnpackManifest(u)
  BY <1>0, <1>26 DEF UnpackManifest, Go, End, Touched
<1>27. CASE UnpackEntry(u)
  BY <1>0, <1>27 DEF UnpackEntry, Go, End, Touched
<1>28. CASE UnpackDone(u)
  BY <1>0, <1>28 DEF UnpackDone, Go, End, Touched
<1>29. CASE MigrateCopy(u)
  BY <1>0, <1>29 DEF MigrateCopy, Go, End
<1>30. CASE MigrateAmend(u)
  BY <1>0, <1>30 DEF MigrateAmend, Go, End, Touched
<1>31. CASE MigrateWrite(u)
  BY <1>0, <1>31 DEF MigrateWrite, Go, End, Touched
<1>32. QED
  BY <1>1, <1>2, <1>3, <1>4, <1>5, <1>6, <1>7, <1>8, <1>9, <1>10, <1>11, <1>12, <1>13, <1>14, <1>15, <1>16, <1>17, <1>18, <1>19, <1>20, <1>21, <1>22, <1>23, <1>24, <1>25, <1>26, <1>27, <1>28, <1>29, <1>30, <1>31 DEF Working

(* A command that has ended holds nothing; and the others hold what they   *)
(* held.                                                                   *)
LEMMA EndedHoldsNothing ==
  ASSUME NEW u \in Tools, tool'[u] = Idle
  PROVE  Holding(u)'
BY NothingNamed DEF Holding, Doing, Idle

LEMMA OthersHold ==
  ASSUME NEW u \in Tools, Footprint(u), NEW t \in Tools \ {u}, Holding(t)
  PROVE  Holding(t)'
<1>1. tool'[t] = tool[t] /\ DOMAIN disk.payload \subseteq DOMAIN disk'.payload /\ (disk.exists => disk'.exists)
  BY DEF Footprint
<1>2. NamesIn(tool[t].held, disk.payload) => NamesIn(tool[t].held, disk'.payload)
  BY <1>1, NamesStay
<1>3. QED
  BY <1>1, <1>2 DEF Holding, Doing

LEMMA InitNames ==
  ASSUME Shapes, OnDisk, NEW u \in Tools, Holding(u), InitFiles(u) \/ InitWrite(u)
  PROVE  OnDisk' /\ Holding(u)'
<1>1. CASE InitFiles(u) /\ disk.exists
  BY <1>1, EndedHoldsNothing DEF InitFiles, Shapes, End, OnDisk
<1>2. CASE InitFiles(u) /\ ~disk.exists
  <2>0. DOMAIN disk = {"exists", "mimetype", "manifest", "payload"}
    BY DEF Shapes, NoFiles
  <2>1. disk' = [disk EXCEPT !.exists = TRUE, !.mimetype = TRUE, !.payload = Note] /\ disk.manifest = <<>>
    BY <1>2 DEF InitFiles, OnDisk
  <2>5. disk'.exists
    BY <2>0, <2>1
  <2>6. disk'.payload = Note /\ disk'.manifest = <<>>
    BY <2>0, <2>1
  <2>7. tool'[u].does = "init" /\ tool'[u].at = "write" /\ tool'[u].held = tool[u].held
    BY <1>2 DEF InitFiles, Go, Doing, Shapes, Idle
  <2>2. NamesIn(<<>>, Note)
    BY NothingNamed
  <2>3. NamesIn(tool[u].held, Note)
    <3>1. NamesIn(tool[u].held, disk.payload) /\ disk.payload = <<>>
      BY <1>2 DEF InitFiles, Holding, Doing, OnDisk
    <3>2. DOMAIN disk.payload \subseteq DOMAIN Note
      BY <3>1
    <3>3. QED
      BY <3>1, <3>2, NamesStay
  <2>4. QED
    BY <2>2, <2>3, <2>5, <2>6, <2>7 DEF OnDisk, Holding, Doing
<1>3. CASE InitWrite(u)
  <2>1. /\ disk'.exists = disk.exists /\ disk'.payload = disk.payload
        /\ disk'.manifest = Refreshed(Initial, Note) /\ tool'[u] = Idle
    BY <1>3 DEF InitWrite, End, Shapes, NoFiles
  <2>2. disk.exists /\ DOMAIN Note \subseteq DOMAIN disk.payload
    BY <1>3 DEF InitWrite, Doing, Holding
  <2>3. NamesIn(disk'.manifest, disk.payload)
    BY <2>1, <2>2, RefreshedNames, NamesStay, WorkspaceAssumption
  <2>4. QED
    BY <2>1, <2>2, <2>3, EndedHoldsNothing DEF OnDisk
<1>4. QED
  BY <1>1, <1>2, <1>3

LEMMA AddNames ==
  ASSUME Shapes, OnDisk, NEW u \in Tools, Holding(u),
         AddLoad(u) \/ AddCopy(u) \/ AddRefresh(u) \/ AddWrite(u)
  PROVE  OnDisk' /\ Holding(u)'
<1>1. CASE AddLoad(u)
  <2>1. OnDisk'
    BY <1>1 DEF AddLoad, OnDisk
  <2>2. CASE Refused(tool[u].with, disk.manifest)
    BY <1>1, <2>1, <2>2, EndedHoldsNothing DEF AddLoad, End, Shapes
  <2>3. CASE ~Refused(tool[u].with, disk.manifest)
    <3>1. /\ tool'[u].does = "add" /\ tool'[u].at = "copy" /\ tool'[u].with = tool[u].with
          /\ tool'[u].held = disk.manifest
          /\ tool'[u].path = {Taken(tool[u].with.names, disk.manifest)} /\ disk' = disk
      BY <1>1, <2>3 DEF AddLoad, Doing, Shapes, Idle
    <3>2. disk.exists
      BY <2>3 DEF OnDisk, Refused
    <3>3. tool[u].with \in Sources
      BY <1>1 DEF AddLoad, Doing, Holding
    <3>4. QED
      BY <2>1, <3>1, <3>2, <3>3 DEF Holding, Doing, OnDisk, Single
  <2>4. QED
    BY <2>2, <2>3
<1>2. CASE AddCopy(u)
  <2>1. PICK p : tool[u].path = {p}
    BY <1>2 DEF AddCopy, Doing, Holding, Single
  <2>2. Val(tool[u], "path") = p
    BY <2>1 DEF Val
  <2>3. /\ disk'.exists = disk.exists /\ disk'.manifest = disk.manifest
        /\ DOMAIN disk'.payload = DOMAIN disk.payload \cup {p}
        /\ tool'[u].does = "add" /\ tool'[u].at = "refresh" /\ tool'[u].with = tool[u].with
        /\ tool'[u].held = tool[u].held /\ tool'[u].path = {p}
    BY <1>2, <2>1, <2>2 DEF AddCopy, Go, Doing, Shapes, Idle, NoFiles, With
  <2>4. disk.exists /\ tool[u].with \in Sources /\ NamesIn(tool[u].held, disk.payload)
    BY <1>2 DEF AddCopy, Doing, Holding
  <2>5. NamesIn(disk.manifest, disk'.payload) /\ NamesIn(tool[u].held, disk'.payload)
    BY <2>3, <2>4, NamesStay DEF OnDisk
  <2>6. QED
    BY <2>3, <2>4, <2>5 DEF OnDisk, Holding, Doing
<1>3. CASE AddRefresh(u)
  <2>1. PICK p \in DOMAIN disk.payload : tool[u].path = {p}
    BY <1>3 DEF AddRefresh, Doing, Holding
  <2> DEFINE source   == tool[u].with
             id       == Val(tool[u], "path")
             asset    == [source.asset EXCEPT !.path = tool[u].path]
             relation == [source.relation EXCEPT !.objectId = {id}]
             first    == Recorded(tool[u].held, "assets", id, asset)
             both     == Recorded(first, "relations", source.links[id], relation)
  <2>2. /\ tool'[u].does = "add" /\ tool'[u].at = "write" /\ tool'[u].with = tool[u].with
        /\ tool'[u].held = Refreshed(both, disk.payload) /\ disk' = disk
    BY <1>3 DEF AddRefresh, Doing, Shapes, Idle
  <2>3. disk.exists /\ source \in Sources /\ NamesIn(tool[u].held, disk.payload)
    BY <1>3 DEF AddRefresh, Doing, Holding
  <2>4. "path" \in DOMAIN asset /\ asset.path = {p}
    BY <2>1, <2>3, WorkspaceAssumption
  <2> HIDE DEF source, id, asset, relation
  <2>5. NamesIn(first, disk.payload)
    BY <2>1, <2>3, <2>4, RecordedAsset
  <2> HIDE DEF first
  <2>6. NamesIn(both, disk.payload)
    BY <2>5, RecordedElsewhere
  <2> HIDE DEF both
  <2>7. NamesIn(Refreshed(both, disk.payload), disk.payload)
    BY <2>6, RefreshedNames
  <2>8. QED
    BY <2>2, <2>3, <2>7 DEF Holding, Doing, OnDisk, source
<1>4. CASE AddWrite(u)
  <2>1. /\ disk'.exists = disk.exists /\ disk'.payload = disk.payload
        /\ disk'.manifest = tool[u].held /\ tool'[u] = Idle
    BY <1>4 DEF AddWrite, Written, End, Shapes, NoFiles
  <2>2. disk.exists /\ NamesIn(tool[u].held, disk.payload)
    BY <1>4 DEF AddWrite, Doing, Holding
  <2>3. QED
    BY <2>1, <2>2, EndedHoldsNothing DEF OnDisk
<1>5. QED
  BY <1>1, <1>2, <1>3, <1>4

LEMMA ChangeNames ==
  ASSUME Shapes, OnDisk, NEW u \in Tools, Holding(u),
         ChangeLoad(u) \/ ChangeCheck(u) \/ ChangeWrite(u)
  PROVE  OnDisk' /\ Holding(u)'
<1>1. CASE ChangeLoad(u)
  <2>1. OnDisk' /\ disk' = disk
    BY <1>1 DEF ChangeLoad, OnDisk
  <2>2. CASE tool'[u] = Idle
    BY <2>1, <2>2, EndedHoldsNothing
  <2>3. CASE tool'[u] # Idle
    <3> DEFINE a == tool[u].with
               m == Recorded(disk.manifest, a.registry, a.id, a.record)
    <3>1. /\ tool'[u].does = "change" /\ tool'[u].with = a /\ tool'[u].held = m
          /\ disk.manifest # <<>>
      BY <1>1, <2>3 DEF ChangeLoad, Doing, End, Shapes, Idle
    <3>2. a \in Additions
      BY <1>1 DEF ChangeLoad, Doing, Holding
    <3>3. NamesIn(m, disk.payload)
      BY <3>2, RecordedElsewhere, WorkspaceAssumption DEF OnDisk
    <3> HIDE DEF m
    <3>4. QED
      BY <2>1, <3>1, <3>2, <3>3 DEF Holding, Doing, OnDisk
  <2>4. QED
    BY <2>2, <2>3
<1>2. CASE ChangeCheck(u)
  <2>1. OnDisk' /\ disk' = disk
    BY <1>2 DEF ChangeCheck, OnDisk
  <2>2. CASE tool'[u] = Idle
    BY <2>1, <2>2, EndedHoldsNothing
  <2>3. CASE tool'[u] # Idle
    <3>1. tool'[u].does = "change" /\ tool'[u].with = tool[u].with /\ tool'[u].held = tool[u].held
      BY <1>2, <2>3 DEF ChangeCheck, Doing, Go, End, Shapes, Idle
    <3>2. tool[u].with \in Additions /\ NamesIn(tool[u].held, disk.payload) /\ disk.exists
      BY <1>2 DEF ChangeCheck, Doing, Holding
    <3>3. QED
      BY <2>1, <3>1, <3>2 DEF Holding, Doing
  <2>4. QED
    BY <2>2, <2>3
<1>3. CASE ChangeWrite(u)
  <2>1. /\ disk'.exists = disk.exists /\ disk'.payload = disk.payload
        /\ disk'.manifest = tool[u].held /\ tool'[u] = Idle
    BY <1>3 DEF ChangeWrite, Written, End, Shapes, NoFiles
  <2>2. disk.exists /\ NamesIn(tool[u].held, disk.payload)
    BY <1>3 DEF ChangeWrite, Doing, Holding
  <2>3. QED
    BY <2>1, <2>2, EndedHoldsNothing DEF OnDisk
<1>4. QED
  BY <1>1, <1>2, <1>3

LEMMA PackNames ==
  ASSUME Shapes, OnDisk, NEW u \in Tools, Holding(u),
         PackLoad(u) \/ PackWrite(u) \/ PackCheck(u) \/ PackOpen(u)
         \/ PackEntry(u) \/ PackClose(u) \/ PackValidate(u) \/ PackWithdraw(u)
  PROVE  OnDisk' /\ Holding(u)'
<1>1. CASE PackLoad(u)
  <2>1. OnDisk' /\ disk' = disk
    BY <1>1 DEF PackLoad, OnDisk
  <2>2. CASE tool'[u] = Idle
    BY <2>1, <2>2, EndedHoldsNothing
  <2>3. CASE tool'[u] # Idle
    <3>1. /\ tool'[u].does = "pack" /\ tool'[u].held = Refreshed(disk.manifest, disk.payload)
          /\ disk.manifest # <<>>
      <4>1. /\ tool' = [tool EXCEPT ![u].held = Refreshed(disk.manifest, disk.payload), ![u].at = "write"]
            /\ disk.manifest # <<>> /\ tool[u].does = "pack"
        BY <1>1, <2>3 DEF PackLoad, Doing, End, Shapes
      <4>2. QED
        BY <4>1 DEF Shapes, Idle
    <3>2. NamesIn(tool'[u].held, disk.payload)
      BY <3>1, RefreshedNames DEF OnDisk
    <3>3. QED
      BY <2>1, <3>1, <3>2 DEF Holding, Doing, OnDisk
  <2>4. QED
    BY <2>2, <2>3
<1>2. CASE PackWrite(u)
  <2>1. /\ disk'.exists = disk.exists /\ disk'.payload = disk.payload /\ disk'.manifest = tool[u].held
        /\ tool'[u].does = "pack" /\ tool'[u].held = tool[u].held
    BY <1>2 DEF PackWrite, Written, Doing, Go, Shapes, NoFiles, Idle
  <2>2. disk.exists /\ NamesIn(tool[u].held, disk.payload)
    BY <1>2 DEF PackWrite, Doing, Holding
  <2>3. QED
    BY <2>1, <2>2 DEF OnDisk, Holding, Doing
<1>3. CASE PackCheck(u) \/ PackOpen(u) \/ PackEntry(u) \/ PackClose(u) \/ PackValidate(u) \/ PackWithdraw(u)
  <2>1. OnDisk' /\ disk' = disk
    BY <1>3 DEF PackCheck, PackOpen, PackEntry, PackClose, PackValidate, PackWithdraw, OnDisk
  <2>2. CASE tool'[u] = Idle
    BY <2>1, <2>2, EndedHoldsNothing
  <2>3. CASE tool'[u] # Idle
    <3>1. tool'[u].does = "pack" /\ tool'[u].held = tool[u].held
      <4>1. tool[u].does = "pack"
        BY <1>3 DEF PackCheck, PackOpen, PackEntry, PackClose, PackValidate, PackWithdraw, Doing
      <4>2. ~End(u)
        BY <2>3 DEF End, Shapes
      <4>3. CASE PackCheck(u)
        BY <4>1, <4>2, <4>3 DEF PackCheck, Go, Shapes, Idle
      <4>4. CASE PackOpen(u)
        BY <4>1, <4>2, <4>4 DEF PackOpen, Go, Shapes, Idle
      <4>5. CASE PackEntry(u)
        BY <4>1, <4>2, <4>5 DEF PackEntry, Go, Shapes, Idle
      <4>6. CASE PackClose(u)
        BY <4>1, <4>6 DEF PackClose, Go, Shapes, Idle
      <4>7. CASE PackValidate(u)
        BY <4>1, <4>2, <4>7 DEF PackValidate, Go, Shapes, Idle
      <4>8. CASE PackWithdraw(u)
        BY <4>2, <4>8 DEF PackWithdraw
      <4>9. QED
        BY <1>3, <4>3, <4>4, <4>5, <4>6, <4>7, <4>8
    <3>2. disk.exists /\ NamesIn(tool[u].held, disk.payload)
      BY <1>3 DEF PackCheck, PackOpen, PackEntry, PackClose, PackValidate, PackWithdraw, Doing, Holding
    <3>3. QED
      BY <2>1, <3>1, <3>2 DEF Holding, Doing
  <2>4. QED
    BY <2>2, <2>3
<1>4. QED
  BY <1>1, <1>2, <1>3

(* unpack and migrate look at other places.                                *)
Unpacking(u) ==
  \/ UnpackCheck(u) \/ UnpackTarget(u) \/ UnpackClear(u) \/ UnpackRemove(u) \/ UnpackDrop(u) \/ UnpackMake(u)
  \/ UnpackOpen(u) \/ UnpackMimetype(u) \/ UnpackManifest(u) \/ UnpackEntry(u) \/ UnpackDone(u)

Migrating(u) == MigrateCopy(u) \/ MigrateAmend(u) \/ MigrateWrite(u)

LEMMA UnpackGoesOn ==
  ASSUME Shapes, NEW u \in Tools, Unpacking(u)
  PROVE  /\ disk' = disk /\ tool[u].does = "unpack"
         /\ tool'[u] = Idle \/ tool'[u].does = "unpack"
<1>1. disk' = disk /\ tool[u].does = "unpack"
  BY DEF Unpacking, UnpackCheck, UnpackTarget, UnpackClear, UnpackRemove, UnpackDrop, UnpackMake,
         UnpackOpen, UnpackMimetype, UnpackManifest, UnpackEntry, UnpackDone, Extracted, Doing
<1>2. \/ End(u)
      \/ \E at : Go(u, at)
      \/ \E held, todo, at : tool' = [tool EXCEPT ![u].held = held, ![u].todo = todo, ![u].at = at]
      \/ \E todo : tool' = [tool EXCEPT ![u].todo = todo]
  <2>1. CASE UnpackCheck(u) \/ UnpackTarget(u) \/ UnpackClear(u) \/ UnpackRemove(u)
    BY <2>1 DEF UnpackCheck, UnpackTarget, UnpackClear, UnpackRemove
  <2>2. CASE UnpackDrop(u) \/ UnpackMake(u) \/ UnpackMimetype(u) \/ UnpackManifest(u) \/ UnpackDone(u)
    BY <2>2 DEF UnpackDrop, UnpackMake, UnpackMimetype, UnpackManifest, UnpackDone
  <2>3. CASE UnpackOpen(u)
    BY <2>3 DEF UnpackOpen
  <2>4. CASE UnpackEntry(u)
    <3>1. Go(u, "discard") \/ \E p : tool' = [tool EXCEPT ![u].todo = @ \ {p}]
      BY <2>4 DEF UnpackEntry
    <3>2. QED
      BY <3>1
  <2>5. QED
    BY <2>1, <2>2, <2>3, <2>4 DEF Unpacking
<1>3. QED
  BY <1>1, <1>2 DEF End, Go, Shapes, Idle

LEMMA ElsewhereNames ==
  ASSUME Shapes, OnDisk, NEW u \in Tools, Holding(u), Unpacking(u) \/ Migrating(u)
  PROVE  OnDisk' /\ Holding(u)'
<1>1. OnDisk' /\ disk' = disk
  BY UnpackGoesOn DEF Migrating, MigrateCopy, MigrateAmend, MigrateWrite, OnDisk
<1>2. CASE tool'[u] = Idle
  BY <1>1, <1>2, EndedHoldsNothing
<1>3. CASE tool'[u] # Idle
  <2>1. tool'[u].does \in {"unpack", "migrate"}
    <3>1. CASE Unpacking(u)
      BY <1>3, <3>1, UnpackGoesOn
    <3>2. CASE Migrating(u)
      <4>1. ~End(u)
        BY <1>3 DEF End, Shapes
      <4>2. tool[u].does = "migrate"
        BY <3>2 DEF Migrating, MigrateCopy, MigrateAmend, MigrateWrite, Doing
      <4>3. CASE MigrateCopy(u)
        BY <4>1, <4>2, <4>3 DEF MigrateCopy, Shapes, Idle
      <4>4. CASE MigrateAmend(u)
        <5>1. \E m : tool' = [tool EXCEPT ![u].held = m, ![u].at = "write"]
          BY <4>1, <4>4 DEF MigrateAmend
        <5> QED
          BY <4>2, <5>1 DEF Shapes, Idle
      <4>5. CASE MigrateWrite(u)
        BY <4>1, <4>5 DEF MigrateWrite
      <4> QED
        BY <3>2, <4>3, <4>4, <4>5 DEF Migrating
    <3>3. QED
      BY <3>1, <3>2
  <2>2. QED
    BY <1>1, <2>1 DEF Holding, Doing
<1>4. QED
  BY <1>2, <1>3

(* A command that begins knows what it was given, and the author changes   *)
(* no file's name.                                                         *)
LEMMA BegunNames ==
  ASSUME Shapes, OnDisk, NEW u \in Tools, NEW d, NEW w, Begin(u, d, w),
         d = "add" => w \in Sources, d = "change" => w \in Additions
  PROVE  Footprint(u) /\ OnDisk' /\ Holding(u)' /\ archive' = archive /\ copy' = copy
<1>1. /\ tool' = [tool EXCEPT ![u] = [Idle EXCEPT !.does = d, !.at = "begin", !.with = w]]
      /\ disk' = disk /\ archive' = archive /\ copy' = copy
  BY DEF Begin
<1>2. /\ tool'[u].does = d /\ tool'[u].at = "begin" /\ tool'[u].with = w /\ tool'[u].held = <<>>
      /\ DOMAIN tool'[u] = DOMAIN Idle
  BY <1>1 DEF Shapes, Idle
<1>3. QED
  BY <1>1, <1>2, NothingNamed DEF Footprint, Shapes, OnDisk, Holding, Doing

LEMMA AuthorNames ==
  ASSUME Shapes, OnDisk, \A t \in Tools : Holding(t),
         (\E e \in Edits : EditManifest(e)) \/ (\E c \in Changes : ChangeFile(c))
  PROVE  Shapes' /\ OnDisk' /\ (\A t \in Tools : Holding(t)') /\ tool' = tool /\ archive' = archive /\ copy' = copy
<1>1. CASE \E e \in Edits : EditManifest(e)
  <2>1. PICK e \in Edits : EditManifest(e)
    BY <1>1
  <2> DEFINE m == [disk.manifest EXCEPT ![e.registry][e.id] = Over(e.with, @)]
  <2>2. /\ disk' = [disk EXCEPT !.manifest = m] /\ tool' = tool /\ archive' = archive /\ copy' = copy
        /\ e.id \in Ids(disk.manifest, e.registry)
    BY <2>1 DEF EditManifest
  <2>3. NamesIn(m, disk.payload)
    BY <2>2, EditedNames, WorkspaceAssumption DEF OnDisk
  <2>4. disk.exists
    BY <2>2, NoRecords DEF OnDisk
  <2> HIDE DEF m
  <2>5. /\ DOMAIN disk' = DOMAIN disk /\ disk'.manifest = m
        /\ disk'.payload = disk.payload /\ disk'.exists = disk.exists
    BY <2>2 DEF Shapes, NoFiles
  <2>6. QED
    BY <2>2, <2>3, <2>4, <2>5 DEF Shapes, OnDisk, Holding, Doing
<1>2. CASE \E c \in Changes : ChangeFile(c)
  <2>1. PICK c \in Changes : ChangeFile(c)
    BY <1>2
  <2>2. /\ disk' = [disk EXCEPT !.payload = [disk.payload EXCEPT ![c.path] = c.bytes]]
        /\ tool' = tool /\ archive' = archive /\ copy' = copy /\ c.path \in DOMAIN disk.payload
    BY <2>1 DEF ChangeFile
  <2>3. /\ DOMAIN disk' = DOMAIN disk /\ disk'.manifest = disk.manifest /\ disk'.exists = disk.exists
        /\ DOMAIN disk'.payload = DOMAIN disk.payload
    BY <2>2 DEF Shapes, NoFiles
  <2>4. disk.exists
    BY <2>2 DEF OnDisk
  <2>5. \A m : NamesIn(m, disk.payload) <=> NamesIn(m, disk'.payload)
    BY <2>3 DEF NamesIn
  <2>6. QED
    BY <2>2, <2>3, <2>4, <2>5 DEF Shapes, OnDisk, Holding, Doing
<1>3. QED
  BY <1>1, <1>2

-----------------------------------------------------------------------------
(* The archive.                                                            *)
LEMMA NothingSealed ==
  ASSUME archive' = NoArchive
  PROVE  Sealed'
BY NoRecords DEF Sealed, NoArchive, Holds

LEMMA SealStays ==
  ASSUME Sealed, NEW u \in Tools, Footprint(u), archive' = archive, ~Doing(u, "pack", "entries")'
  PROVE  Sealed'
<1>1. \A t \in Tools \ {u} : tool'[t] = tool[t]
  BY DEF Footprint
<1>2. \A t \in Tools : Doing(t, "pack", "entries")' /\ archive'.by = {t} => ~archive'.closed
  BY <1>1 DEF Sealed, Doing
<1>3. QED
  BY <1>2 DEF Sealed

(* A container that is closed, and one that is found valid.                *)
LEMMA ClosedStaysSealed ==
  ASSUME Shapes, Sealed, NEW u \in Tools, Footprint(u), archive' = Closed(u), ~Doing(u, "pack", "entries")'
  PROVE  Sealed'
<1>1. CASE archive.by # {u}
  BY <1>1, SealStays DEF Closed
<1>2. CASE archive.by = {u}
  <2>1. archive' = [archive EXCEPT !.closed = TRUE]
    BY <1>2 DEF Closed
  <2>2. /\ archive'.by = {u} /\ archive'.validated = archive.validated /\ archive'.closed
        /\ archive'.exists = archive.exists
        /\ archive'.manifest = archive.manifest /\ archive'.payload = archive.payload
    BY <1>2, <2>1 DEF Shapes, NoArchive
  <2>3. archive'.validated => ArchiveFits02(archive')
    BY <2>2 DEF Sealed, ArchiveFits02
  <2>4. \A t \in Tools : Doing(t, "pack", "entries")' => archive'.by # {t}
    BY <2>2
  <2>5. QED
    BY <2>2, <2>3, <2>4 DEF Sealed
<1>3. QED
  BY <1>1, <1>2

LEMMA ValidatedIsSealed ==
  ASSUME Shapes, Sealed, NEW u \in Tools, Footprint(u), ArchiveFits02(archive),
         archive' = [archive EXCEPT !.validated = TRUE], ~Doing(u, "pack", "entries")'
  PROVE  Sealed'
<1>1. /\ archive'.by = archive.by /\ archive'.closed = archive.closed /\ archive'.exists = archive.exists
      /\ archive'.manifest = archive.manifest /\ archive'.payload = archive.payload
  BY DEF Shapes, NoArchive
<1>2. ArchiveFits02(archive')
  BY <1>1 DEF ArchiveFits02
<1>3. \A t \in Tools : Doing(t, "pack", "entries")' /\ archive'.by = {t} => ~archive'.closed
  BY <1>1 DEF Sealed, Footprint, Doing
<1>4. QED
  BY <1>1, <1>2, <1>3 DEF Sealed

Archives(u) == PackOpen(u) \/ PackEntry(u) \/ PackClose(u) \/ PackValidate(u) \/ PackWithdraw(u) \/ UnpackCheck(u)

LEMMA OthersLeaveTheArchive ==
  ASSUME Shapes, NEW u \in Tools, Working(u), ~Archives(u)
  PROVE  archive' = archive /\ ~Doing(u, "pack", "entries")'
<1>0. tool'[u] = Idle => ~Doing(u, "pack", "entries")'
  BY DEF Doing, Idle
<1>1. CASE InitFiles(u) \/ InitWrite(u) \/ AddLoad(u) \/ AddCopy(u) \/ AddRefresh(u) \/ AddWrite(u)
  <2>1. archive' = archive /\ tool[u].does \in {"init", "add"}
    BY <1>1 DEF InitFiles, InitWrite, AddLoad, AddCopy, AddRefresh, AddWrite, Doing
  <2>2. \/ tool'[u] = Idle
        \/ tool'[u].does = tool[u].does
    <3>1. CASE InitFiles(u) \/ InitWrite(u)
      BY <3>1 DEF InitFiles, InitWrite, End, Go, Shapes, Idle
    <3>2. CASE AddLoad(u) \/ AddWrite(u)
      BY <3>2 DEF AddLoad, AddWrite, End, Shapes, Idle
    <3>3. CASE AddCopy(u) \/ AddRefresh(u)
      BY <3>3 DEF AddCopy, AddRefresh, Go, Shapes, Idle
    <3>4. QED
      BY <1>1, <3>1, <3>2, <3>3
  <2>3. QED
    BY <1>0, <2>1, <2>2 DEF Doing
<1>2. CASE ChangeLoad(u) \/ ChangeCheck(u) \/ ChangeWrite(u)
  <2>1. archive' = archive /\ tool[u].does = "change"
    BY <1>2 DEF ChangeLoad, ChangeCheck, ChangeWrite, Doing
  <2>2. \/ tool'[u] = Idle
        \/ tool'[u].does = tool[u].does
    BY <1>2 DEF ChangeLoad, ChangeCheck, ChangeWrite, End, Go, Shapes, Idle
  <2>3. QED
    BY <1>0, <2>1, <2>2 DEF Doing
<1>3. CASE PackLoad(u) \/ PackWrite(u) \/ PackCheck(u)
  <2>1. archive' = archive
    BY <1>3 DEF PackLoad, PackWrite, PackCheck
  <2>2. \/ tool'[u] = Idle
        \/ tool'[u].at \in {"write", "check", "open"}
    BY <1>3 DEF PackLoad, PackWrite, PackCheck, End, Go, Shapes, Idle
  <2>3. QED
    BY <1>0, <2>1, <2>2 DEF Doing
<1>4. CASE Unpacking(u)
  <2>1. archive' = archive
    BY <1>4 DEF Archives, Unpacking, UnpackTarget, UnpackClear, UnpackRemove, UnpackDrop, UnpackMake,
                UnpackOpen, UnpackMimetype, UnpackManifest, UnpackEntry, UnpackDone
  <2>2. QED
    BY <1>0, <1>4, <2>1, UnpackGoesOn DEF Doing
<1>5. CASE Migrating(u)
  <2>1. archive' = archive /\ tool[u].does = "migrate"
    BY <1>5 DEF Migrating, MigrateCopy, MigrateAmend, MigrateWrite, Doing
  <2>2. \/ tool'[u] = Idle
        \/ tool'[u].does = tool[u].does
    <3>1. CASE MigrateCopy(u) \/ MigrateWrite(u)
      BY <3>1 DEF MigrateCopy, MigrateWrite, End, Shapes, Idle
    <3>2. CASE MigrateAmend(u)
      <4>1. End(u) \/ \E held : tool' = [tool EXCEPT ![u].held = held, ![u].at = "write"]
        BY <3>2 DEF MigrateAmend
      <4>2. CASE End(u)
        BY <4>2 DEF End, Shapes
      <4>3. CASE ~End(u)
        <5>1. PICK held : tool' = [tool EXCEPT ![u].held = held, ![u].at = "write"]
          BY <4>1, <4>3
        <5>2. QED
          BY <5>1 DEF Shapes, Idle
      <4>4. QED
        BY <4>2, <4>3
    <3>3. QED
      BY <1>5, <3>1, <3>2 DEF Migrating
  <2>3. QED
    BY <1>0, <2>1, <2>2 DEF Doing
<1>6. QED
  BY <1>1, <1>2, <1>3, <1>4, <1>5 DEF Working, Archives, Unpacking, Migrating

LEMMA ArchivesSeal ==
  ASSUME Shapes, Sealed, NEW u \in Tools, Holding(u), Footprint(u), Archives(u)
  PROVE  Sealed'
<1>0. \A t \in Tools \ {u} : tool'[t] = tool[t]
  BY DEF Footprint
<1>1. End(u) => ~Doing(u, "pack", "entries")'
  BY DEF End, Shapes, Doing, Idle
<1>2. \A at : Go(u, at) /\ at # "entries" => ~Doing(u, "pack", "entries")'
  BY DEF Go, Shapes, Doing, Idle
<1>3. CASE PackOpen(u)
  <2>1. CASE archive.exists
    BY <1>2, <1>3, <2>1, SealStays DEF PackOpen
  <2>2. CASE ~archive.exists
    <3>1. archive' = [NoArchive EXCEPT !.exists = TRUE, !.by = {u}, !.manifest = tool[u].held]
      BY <1>3, <2>2 DEF PackOpen
    <3>2. ~archive'.closed /\ ~archive'.validated /\ archive'.manifest = tool[u].held
      BY <3>1 DEF NoArchive
    <3>3. NamesIn(tool[u].held, disk.payload)
      BY <1>3 DEF PackOpen, Doing, Holding
    <3>4. \A a \in Holds(archive'.manifest, "assets") : Single(a.path)
      BY <3>2, <3>3 DEF NamesIn, Single
    <3>5. QED
      BY <3>2, <3>4 DEF Sealed
  <2>3. QED
    BY <2>1, <2>2
<1>4. CASE PackEntry(u)
  <2>1. PICK p \in tool[u].todo :
          IF p \in DOMAIN disk.payload
          THEN archive' = IF archive.by = {u}
                          THEN [archive EXCEPT !.payload = With(@, p, disk.payload[p])] ELSE archive
          ELSE archive' = Closed(u) /\ Go(u, "withdraw")
    BY <1>4 DEF PackEntry
  <2>2. CASE p \notin DOMAIN disk.payload
    BY <1>2, <2>1, <2>2, ClosedStaysSealed
  <2>3. CASE p \in DOMAIN disk.payload
    <3>1. /\ archive'.closed = archive.closed /\ archive'.by = archive.by /\ archive'.manifest = archive.manifest
          /\ archive'.validated = archive.validated /\ (archive.by # {u} => archive' = archive)
      BY <2>1, <2>3 DEF Shapes, NoArchive
    <3>2. archive.by = {u} => ~archive.closed
      BY <1>4 DEF PackEntry, Doing, Sealed
    <3>3. archive'.validated => ArchiveFits02(archive')
      BY <3>1, <3>2 DEF Sealed, ArchiveFits02
    <3>4. \A t \in Tools : Doing(t, "pack", "entries")' /\ archive'.by = {t} => ~archive'.closed
      BY <1>0, <3>1, <3>2 DEF Sealed, Doing
    <3>5. QED
      BY <3>1, <3>3, <3>4 DEF Sealed
  <2>4. QED
    BY <2>2, <2>3
<1>5. CASE PackClose(u)
  BY <1>2, <1>5, ClosedStaysSealed DEF PackClose
<1>6. CASE PackValidate(u) \/ UnpackCheck(u)
  <2>1. CASE ArchiveFits02(archive)
    BY <1>1, <1>2, <1>6, <2>1, ValidatedIsSealed DEF PackValidate, UnpackCheck
  <2>2. CASE ~ArchiveFits02(archive)
    BY <1>1, <1>2, <1>6, <2>2, SealStays DEF PackValidate, UnpackCheck
  <2>3. QED
    BY <2>1, <2>2
<1>7. CASE PackWithdraw(u)
  BY <1>7, NothingSealed DEF PackWithdraw
<1>8. QED
  BY <1>3, <1>4, <1>5, <1>6, <1>7 DEF Archives

-----------------------------------------------------------------------------
(* What is unpacked.                                                       *)

(* Whoever changes the directory is known to have touched it, or has made  *)
(* it.                                                                     *)
Touches(u) == copy' = copy \/ u \in copy'.by

LEMMA WorkingTouches ==
  ASSUME Shapes, NEW u \in Tools, Working(u)
  PROVE  Touches(u)
<1> USE DEF Touches
<1>0. \A w : "by" \in DOMAIN w => u \in Touched(u, w).by
  BY DEF Touched
<1>1. CASE InitFiles(u) \/ InitWrite(u) \/ AddLoad(u) \/ AddCopy(u) \/ AddRefresh(u) \/ AddWrite(u)
           \/ ChangeLoad(u) \/ ChangeCheck(u) \/ ChangeWrite(u)
  BY <1>1 DEF InitFiles, InitWrite, AddLoad, AddCopy, AddRefresh, AddWrite, ChangeLoad, ChangeCheck, ChangeWrite
<1>2. CASE PackLoad(u) \/ PackWrite(u) \/ PackCheck(u) \/ Archives(u)
  BY <1>2 DEF PackLoad, PackWrite, PackCheck, Archives, PackOpen, PackEntry, PackClose, PackValidate,
              PackWithdraw, UnpackCheck
<1>3. "by" \in DOMAIN copy /\ "by" \in DOMAIN NoCopy
  BY DEF Shapes, NoCopy
<1>4. CASE UnpackTarget(u) \/ UnpackOpen(u) \/ UnpackDone(u)
  BY <1>4 DEF UnpackTarget, UnpackOpen, UnpackDone
<1>5. CASE UnpackClear(u) \/ UnpackRemove(u) \/ UnpackDrop(u)
  BY <1>0, <1>3, <1>5 DEF UnpackClear, UnpackRemove, UnpackDrop
<1>6. CASE UnpackMake(u)
  BY <1>6 DEF UnpackMake, NoCopy
<1>7. CASE UnpackMimetype(u) \/ UnpackManifest(u)
  BY <1>0, <1>3, <1>7 DEF UnpackMimetype, UnpackManifest
<1>8. CASE UnpackEntry(u)
  BY <1>0, <1>3, <1>8 DEF UnpackEntry
<1>9. CASE MigrateCopy(u)
  BY <1>9 DEF MigrateCopy
<1>10. CASE MigrateAmend(u)
  <2>1. \/ copy' = Touched(u, NoCopy)
        \/ \E payload : copy' = Touched(u, [copy EXCEPT !.exists = TRUE, !.payload = payload, !.mimetype = TRUE])
    BY <1>10 DEF MigrateAmend
  <2>2. QED
    BY <1>0, <1>3, <2>1
<1>11. CASE MigrateWrite(u)
  BY <1>0, <1>3, <1>11 DEF MigrateWrite
<1>12. QED
  BY <1>1, <1>2, <1>4, <1>5, <1>6, <1>7, <1>8, <1>9, <1>10, <1>11 DEF Working, Archives

(* So what another tool does either leaves the directory as it is, or is   *)
(* known of.                                                               *)
LEMMA OthersExtract ==
  ASSUME NEW u \in Tools, Touches(u), NEW t \in Tools \ {u}, tool'[t] = tool[t], Extracting(t)
  PROVE  Extracting(t)'
<1>1. CASE copy' = copy
  BY <1>1 DEF Extracting, Extracts, Partly, Doing
<1>2. CASE copy' # copy
  <2>1. copy'.by # {} /\ copy'.by # {t}
    BY <1>2 DEF Touches
  <2>2. QED
    BY <2>1 DEF Extracting, Extracts, Doing
<1>3. QED
  BY <1>1, <1>2

LEMMA NothingToExtract ==
  ASSUME NEW u \in Tools, ~(Doing(u, "unpack", "open")' \/ Extracts(u)')
  PROVE  Extracting(u)'
BY DEF Extracting

LEMMA UnpackExtracts ==
  ASSUME Shapes, Sealed, NEW u \in Tools, Extracting(u), Unpacking(u)
  PROVE  Extracting(u)'
<1> USE DEF Doing
<1>0. /\ DOMAIN tool[u] = {"does", "at", "held", "with", "path", "todo"}
      /\ DOMAIN copy = {"exists", "by", "mimetype", "manifest", "payload"}
      /\ DOMAIN NoCopy = {"exists", "by", "mimetype", "manifest", "payload"}
  BY DEF Shapes, Idle, NoCopy
<1>1. \A at : Go(u, at) => /\ tool'[u].does = tool[u].does /\ tool'[u].at = at
                           /\ tool'[u].held = tool[u].held /\ tool'[u].todo = tool[u].todo
  BY <1>0 DEF Go, Shapes
<1>2. \A at : Go(u, at) /\ at \notin {"open", "mimetype", "manifest", "entries"} => Extracting(u)'
  BY <1>1, NothingToExtract DEF Extracts
<1>3. End(u) => Extracting(u)'
  BY NothingToExtract DEF End, Shapes, Extracts, Idle
<1>4. CASE UnpackCheck(u) \/ UnpackTarget(u) \/ UnpackClear(u) \/ UnpackRemove(u) \/ UnpackDrop(u) \/ UnpackDone(u)
  BY <1>2, <1>3, <1>4 DEF UnpackCheck, UnpackTarget, UnpackClear, UnpackRemove, UnpackDrop, UnpackDone
<1>5. CASE UnpackMake(u)
  <2>1. CASE copy.exists
    BY <1>3, <1>5, <2>1 DEF UnpackMake
  <2>2. CASE ~copy.exists
    <3>1. copy'.exists /\ copy'.by = {u} /\ copy'.payload = <<>> /\ Go(u, "open")
      BY <1>5, <2>2 DEF UnpackMake, NoCopy
    <3>2. QED
      BY <1>1, <3>1 DEF Extracting, Extracts
  <2>3. QED
    BY <2>1, <2>2
<1>6. CASE UnpackOpen(u)
  <2>1. CASE ~archive.closed
    BY <1>2, <1>6, <2>1 DEF UnpackOpen
  <2>2. CASE archive.closed
    <3>1. /\ tool'[u].does = "unpack" /\ tool'[u].at = "mimetype"
          /\ tool'[u].held = archive /\ tool'[u].todo = DOMAIN archive.payload /\ copy' = copy
      BY <1>0, <1>6, <2>2 DEF UnpackOpen, Shapes
    <3>2. copy.by # {} /\ (copy.by = {u} => copy.exists /\ copy.payload = <<>>)
      BY <1>6 DEF UnpackOpen, Extracting
    <3>3. archive.validated => ManifestFits(archive.manifest, archive.payload)
      BY DEF Sealed, ArchiveFits02
    <3>4. copy.by = {u} => Partly(u)'
      BY <3>1, <3>2 DEF Partly
    <3>5. QED
      BY <3>1, <3>2, <3>3, <3>4 DEF Extracting, Extracts
  <2>3. QED
    BY <2>1, <2>2
<1>7. \A w : DOMAIN w = DOMAIN copy => /\ Touched(u, w).by = copy.by \cup {u}
                                       /\ Touched(u, w).exists = w.exists /\ Touched(u, w).mimetype = w.mimetype
                                       /\ Touched(u, w).manifest = w.manifest /\ Touched(u, w).payload = w.payload
  BY <1>0 DEF Touched
<1>8. CASE UnpackMimetype(u) /\ ~copy.mimetype
  <2> DEFINE w == [copy EXCEPT !.exists = TRUE, !.mimetype = TRUE]
  <2>0. /\ DOMAIN w = DOMAIN copy /\ w.exists /\ w.mimetype
        /\ w.manifest = copy.manifest /\ w.payload = copy.payload
    BY <1>0
  <2>1. copy' = Touched(u, w) /\ Go(u, "manifest")
    BY <1>8 DEF UnpackMimetype
  <2> HIDE DEF w
  <2>2. /\ copy'.by = copy.by \cup {u} /\ copy'.exists /\ copy'.mimetype
        /\ copy'.manifest = copy.manifest /\ copy'.payload = copy.payload
    BY <1>7, <2>0, <2>1
  <2>3. Extracts(u) /\ tool[u].at = "mimetype"
    BY <1>8 DEF UnpackMimetype, Extracts
  <2>4. copy'.by = {u} => Partly(u)'
    BY <1>1, <2>1, <2>2, <2>3 DEF Extracting, Partly
  <2>5. QED
    BY <1>1, <2>1, <2>2, <2>3, <2>4 DEF Extracting, Extracts
<1>9. CASE UnpackManifest(u) /\ copy.manifest = <<>>
  <2> DEFINE w == [copy EXCEPT !.exists = TRUE, !.manifest = tool[u].held.manifest]
  <2>0. /\ DOMAIN w = DOMAIN copy /\ w.exists /\ w.mimetype = copy.mimetype
        /\ w.manifest = tool[u].held.manifest /\ w.payload = copy.payload
    BY <1>0
  <2>1. copy' = Touched(u, w) /\ Go(u, "entries")
    BY <1>9 DEF UnpackManifest
  <2> HIDE DEF w
  <2>2. /\ copy'.by = copy.by \cup {u} /\ copy'.exists /\ copy'.mimetype = copy.mimetype
        /\ copy'.manifest = tool[u].held.manifest /\ copy'.payload = copy.payload
    BY <1>7, <2>0, <2>1
  <2>3. Extracts(u) /\ tool[u].at = "manifest"
    BY <1>9 DEF UnpackManifest, Extracts
  <2>4. copy'.by = {u} => Partly(u)'
    BY <1>1, <2>1, <2>2, <2>3 DEF Extracting, Partly
  <2>5. QED
    BY <1>1, <2>1, <2>2, <2>3, <2>4 DEF Extracting, Extracts
<1>10. CASE (UnpackMimetype(u) /\ copy.mimetype) \/ (UnpackManifest(u) /\ copy.manifest # <<>>)
  BY <1>2, <1>10 DEF UnpackMimetype, UnpackManifest
<1>11. CASE UnpackEntry(u)
  <2>1. PICK p \in tool[u].todo :
          \/ Go(u, "discard")
          \/ /\ p \notin DOMAIN copy.payload
             /\ copy' = Touched(u, [copy EXCEPT !.exists = TRUE, !.payload = With(@, p, tool[u].held.payload[p])])
             /\ tool' = [tool EXCEPT ![u].todo = @ \ {p}]
    BY <1>11 DEF UnpackEntry
  <2>2. CASE Go(u, "discard")
    BY <1>2, <2>2
  <2>3. CASE ~Go(u, "discard")
    <3>1. /\ tool'[u].does = tool[u].does /\ tool'[u].at = tool[u].at
          /\ tool'[u].held = tool[u].held /\ tool'[u].todo = tool[u].todo \ {p}
      BY <1>0, <2>1, <2>3 DEF Shapes
    <3> DEFINE w == [copy EXCEPT !.exists = TRUE, !.payload = With(@, p, tool[u].held.payload[p])]
    <3>0. /\ DOMAIN w = DOMAIN copy /\ w.exists /\ w.mimetype = copy.mimetype
          /\ w.manifest = copy.manifest /\ w.payload = With(copy.payload, p, tool[u].held.payload[p])
          /\ copy' = Touched(u, w)
      BY <1>0, <2>1, <2>3
    <3> HIDE DEF w
    <3>2. /\ copy'.by = copy.by \cup {u} /\ copy'.exists /\ copy'.mimetype = copy.mimetype
          /\ copy'.manifest = copy.manifest
          /\ copy'.payload = With(copy.payload, p, tool[u].held.payload[p])
      BY <1>7, <3>0
    <3>3. /\ DOMAIN copy'.payload = DOMAIN copy.payload \cup {p}
          /\ copy'.payload[p] = tool[u].held.payload[p]
          /\ \A q \in DOMAIN copy.payload \ {p} : copy'.payload[q] = copy.payload[q]
      BY <3>2 DEF With
    <3>4. Extracts(u) /\ tool[u].at = "entries"
      BY <1>11 DEF UnpackEntry, Extracts
    <3>5. tool[u].todo \subseteq DOMAIN tool[u].held.payload
      BY <3>4 DEF Extracting
    <3>6. copy'.by = {u} => Partly(u)
      BY <3>2, <3>4 DEF Extracting
    <3>7. copy'.by = {u} => Partly(u)'
      <4>1. ASSUME Partly(u) PROVE DOMAIN copy'.payload = DOMAIN tool[u].held.payload \ (tool[u].todo \ {p})
        BY <3>3, <3>5, <4>1 DEF Partly
      <4>2. ASSUME Partly(u), NEW q \in DOMAIN copy'.payload PROVE copy'.payload[q] = tool[u].held.payload[q]
        BY <3>3, <4>2 DEF Partly
      <4>3. QED
        BY <3>1, <3>2, <3>4, <3>6, <4>1, <4>2 DEF Partly
    <3>8. QED
      BY <3>1, <3>2, <3>4, <3>5, <3>7 DEF Extracting, Extracts
  <2>4. QED
    BY <2>2, <2>3
<1>12. QED
  BY <1>4, <1>5, <1>6, <1>8, <1>9, <1>10, <1>11 DEF Unpacking

(* Of the other commands, none extracts.                                   *)
LEMMA OthersDoNotExtract ==
  ASSUME Shapes, NEW u \in Tools, Working(u), ~Unpacking(u)
  PROVE  Extracting(u)'
<1>1. tool[u].does # "unpack"
  BY DEF Working, Unpacking, InitFiles, InitWrite, AddLoad, AddCopy, AddRefresh, AddWrite, ChangeLoad,
     ChangeCheck, ChangeWrite, PackLoad, PackWrite, PackCheck, PackOpen, PackEntry, PackClose,
     PackValidate, PackWithdraw, MigrateCopy, MigrateAmend, MigrateWrite, Doing
<1>2. tool'[u] = Idle \/ tool'[u].does = tool[u].does
  <2>1. CASE InitFiles(u) \/ InitWrite(u) \/ AddLoad(u) \/ AddCopy(u) \/ AddRefresh(u) \/ AddWrite(u)
    <3>1. CASE InitFiles(u) \/ InitWrite(u)
      BY <3>1 DEF InitFiles, InitWrite, End, Go, Shapes, Idle
    <3>2. CASE AddLoad(u) \/ AddWrite(u)
      BY <3>2 DEF AddLoad, AddWrite, End, Shapes, Idle
    <3>3. CASE AddCopy(u) \/ AddRefresh(u)
      BY <3>3 DEF AddCopy, AddRefresh, Go, Shapes, Idle
    <3>4. QED
      BY <2>1, <3>1, <3>2, <3>3
  <2>2. CASE ChangeLoad(u) \/ ChangeCheck(u) \/ ChangeWrite(u)
    BY <2>2 DEF ChangeLoad, ChangeCheck, ChangeWrite, End, Go, Shapes, Idle
  <2>3. CASE PackLoad(u) \/ PackWrite(u) \/ PackCheck(u) \/ PackClose(u) \/ PackValidate(u) \/ PackWithdraw(u)
    BY <2>3 DEF PackLoad, PackWrite, PackCheck, PackClose, PackValidate, PackWithdraw, End, Go, Shapes, Idle
  <2>4. CASE PackOpen(u)
    BY <2>4 DEF PackOpen, Go, Shapes, Idle
  <2>5. CASE PackEntry(u)
    BY <2>5 DEF PackEntry, Go, Shapes, Idle
  <2>6. CASE Migrating(u)
    <3>1. CASE End(u)
      BY <3>1 DEF End, Shapes
    <3>2. CASE ~End(u)
      <4>1. \E held, at : tool' = [tool EXCEPT ![u].held = held, ![u].at = at]
        BY <2>6, <3>2 DEF Migrating, MigrateCopy, MigrateAmend, MigrateWrite
      <4>2. PICK held, at : tool' = [tool EXCEPT ![u].held = held, ![u].at = at]
        BY <4>1
      <4>3. QED
        BY <4>2 DEF Shapes, Idle
    <3>3. QED
      BY <3>1, <3>2
  <2>7. QED
    BY <2>1, <2>2, <2>3, <2>4, <2>5, <2>6 DEF Working, Unpacking, Migrating
<1>3. QED
  BY <1>1, <1>2, NothingToExtract DEF Doing, Extracts, Idle

-----------------------------------------------------------------------------
(* The invariant holds at the start, and every step keeps it.              *)
LEMMA WorkspaceStarts ==
  ASSUME Init PROVE WorkspaceInv
<1>1. Shapes
  BY WorkspaceAssumption DEF Init, Shapes
<1>2. OnDisk
  <2>1. CASE disk = NoFiles
    BY <2>1, NothingNamed DEF OnDisk, NoFiles
  <2>2. CASE disk = Authored
    BY <2>2, WorkspaceAssumption DEF OnDisk
  <2>3. QED
    BY <2>1, <2>2 DEF Init
<1>3. \A t \in Tools : Holding(t)
  BY NothingNamed DEF Init, Holding, Doing, Idle
<1>4. Sealed
  <2>1. \A t \in Tools : ~Doing(t, "pack", "entries")
    BY DEF Init, Doing, Idle
  <2>2. QED
    BY <2>1, NoRecords DEF Init, Sealed, NoArchive, Holds
<1>5. \A t \in Tools : Extracting(t)
  BY DEF Init, Extracting, Extracts, Doing, Idle
<1>6. QED
  BY <1>1, <1>2, <1>3, <1>4, <1>5 DEF WorkspaceInv

(* A step that leaves a footprint of one tool, which keeps what it holds   *)
(* and touches what it changes.                                            *)
LEMMA ToolKeepsInv ==
  ASSUME WorkspaceInv, NEW u \in Tools, Footprint(u), Touches(u),
         OnDisk', Holding(u)', Extracting(u)', Sealed'
  PROVE  WorkspaceInv'
<1>1. Shapes'
  BY DEF WorkspaceInv, Shapes, Footprint
<1>2. \A t \in Tools : Holding(t)'
  BY OthersHold DEF WorkspaceInv
<1>3. \A t \in Tools : Extracting(t)'
  BY OthersExtract DEF WorkspaceInv, Footprint
<1>4. QED
  BY <1>1, <1>2, <1>3 DEF WorkspaceInv

LEMMA WorkspaceStep ==
  ASSUME WorkspaceInv, [Next]_vars PROVE WorkspaceInv'
<1> USE DEF WorkspaceInv
<1>1. ASSUME NEW u \in Tools, Working(u) PROVE WorkspaceInv'
  <2>1. Footprint(u) /\ Touches(u)
    BY <1>1, WorkingFootprint, WorkingTouches
  <2>2. OnDisk' /\ Holding(u)'
    BY <1>1, InitNames, AddNames, ChangeNames, PackNames, ElsewhereNames DEF Working, Unpacking, Migrating
  <2>3. Extracting(u)'
    BY <1>1, UnpackExtracts, OthersDoNotExtract
  <2>4. Sealed'
    BY <1>1, <2>1, OthersLeaveTheArchive, SealStays, ArchivesSeal
  <2>5. QED
    BY <2>1, <2>2, <2>3, <2>4, ToolKeepsInv
<1>2. ASSUME NEW u \in Tools, NEW d, NEW w, Begin(u, d, w),
             d = "add" => w \in Sources, d = "change" => w \in Additions
      PROVE  WorkspaceInv'
  <2>1. Footprint(u) /\ Touches(u) /\ OnDisk' /\ Holding(u)' /\ archive' = archive
    BY <1>2, BegunNames DEF Touches
  <2>2. tool'[u].at = "begin"
    BY <1>2 DEF Begin, Shapes, Idle
  <2>3. Sealed' /\ Extracting(u)'
    BY <2>1, <2>2, SealStays, NothingToExtract DEF Doing, Extracts
  <2>4. QED
    BY <2>1, <2>3, ToolKeepsInv
<1>3. ASSUME NEW u \in Tools, Kill(u) \/ Interrupt(u) PROVE WorkspaceInv'
  <2>1. tool' = [tool EXCEPT ![u] = Idle] /\ disk' = disk /\ copy' = copy
    BY <1>3 DEF Kill, Interrupt, End
  <2>2. tool'[u] = Idle /\ OnDisk' /\ Touches(u)
    BY <2>1 DEF Shapes, OnDisk, Touches
  <2>3. archive' = archive \/ archive' = Closed(u)
    BY <1>3 DEF Kill, Interrupt
  <2>4. Footprint(u)
    BY <2>1, <2>3 DEF Shapes, Footprint, Closed, NoArchive
  <2>5. Holding(u)' /\ Extracting(u)' /\ ~Doing(u, "pack", "entries")'
    BY <2>2, EndedHoldsNothing, NothingToExtract DEF Doing, Extracts, Idle
  <2>6. Sealed'
    BY <2>3, <2>4, <2>5, SealStays, ClosedStaysSealed
  <2>7. QED
    BY <2>2, <2>4, <2>5, <2>6, ToolKeepsInv
<1>4. ASSUME (\E e \in Edits : EditManifest(e)) \/ (\E c \in Changes : ChangeFile(c))
      PROVE  WorkspaceInv'
  <2>1. /\ Shapes' /\ OnDisk' /\ \A t \in Tools : Holding(t)'
        /\ tool' = tool /\ archive' = archive /\ copy' = copy
    BY <1>4, AuthorNames
  <2>2. Sealed' /\ \A t \in Tools : Extracting(t)'
    BY <2>1 DEF Sealed, Extracting, Extracts, Partly, Doing
  <2>3. QED
    BY <2>1, <2>2
<1>5. CASE UNCHANGED vars
  <2>1. tool' = tool /\ disk' = disk /\ archive' = archive /\ copy' = copy
    BY <1>5 DEF vars
  <2>2. QED
    BY <2>1 DEF Shapes, OnDisk, Holding, Extracting, Extracts, Partly, Sealed, Doing
<1>6. QED
  BY <1>1, <1>2, <1>3, <1>4, <1>5 DEF Next

(* What every state of a workspace has: the files that manifests and tools *)
(* name, an archive that is valid once it has been found so, and as much   *)
(* of an archive as has been extracted.                                    *)
THEOREM WorkspaceInvHolds == Spec => []WorkspaceInv
<1>1. Init => WorkspaceInv
  BY WorkspaceStarts
<1>2. WorkspaceInv /\ [Next]_vars => WorkspaceInv'
  BY WorkspaceStep
<1>3. QED
  BY <1>1, <1>2, PTL DEF Spec

(* The manifest never names a file that is not there, whichever commands   *)
(* overlap, whoever edits, and wherever a tool is killed.                  *)
THEOREM NamesAreThere == Spec => []NamesWhatIsThere
<1>1. WorkspaceInv => NamesWhatIsThere
  BY DEF WorkspaceInv, OnDisk, NamesWhatIsThere
<1>2. QED
  BY <1>1, WorkspaceInvHolds, PTL

(* A manifest fits a payload whatever the order in which its files came.   *)
LEMMA SameFiles ==
  ASSUME NEW m, NEW p, NEW q, ManifestFits(m, p), DOMAIN q = DOMAIN p, \A x \in DOMAIN q : q[x] = p[x]
  PROVE  ManifestFits(m, q)
<1>1. PayloadHolds(m, p)
  BY DEF ManifestFits
<1>2. PayloadHolds(m, q)
  BY <1>1 DEF PayloadHolds
<1>3. QED
  BY <1>2 DEF ManifestFits

(* What unpack has extracted when it comes to its end is a valid workspace *)
(* if what it opened had been found valid and nobody else has touched the  *)
(* directory, though packs and other unpacks run, and are killed, between  *)
(* any two of its entries.                                                 *)
THEOREM ExtractionsAreValid == Spec => []UnpackedIsValid
<1>1. WorkspaceInv => UnpackedIsValid
  <2> SUFFICES ASSUME WorkspaceInv, NEW t \in Tools, Extracted(t), copy.by = {t}, tool[t].held.validated
               PROVE  WorkspaceFits02(copy)
    BY DEF UnpackedIsValid
  <2>1. Extracts(t) /\ tool[t].at = "entries" /\ tool[t].todo = {}
    BY DEF Extracted, Doing, Extracts
  <2>2. ManifestFits(tool[t].held.manifest, tool[t].held.payload) /\ Partly(t)
    BY <2>1 DEF WorkspaceInv, Extracting
  <2>3. copy.exists /\ copy.mimetype /\ copy.manifest = tool[t].held.manifest
    BY <2>1, <2>2 DEF Partly
  <2>4. /\ DOMAIN copy.payload = DOMAIN tool[t].held.payload
        /\ \A p \in DOMAIN copy.payload : copy.payload[p] = tool[t].held.payload[p]
    BY <2>1, <2>2 DEF Partly
  <2>5. ManifestFits(copy.manifest, copy.payload)
    BY <2>2, <2>3, <2>4, SameFiles
  <2>6. QED
    BY <2>3, <2>5 DEF WorkspaceFits02
<1>2. QED
  BY <1>1, WorkspaceInvHolds, PTL

-----------------------------------------------------------------------------
(* The chain from an experience to a sound.                                *)
Medium == "replaceable-performance-media"

LEMMA ActiveLeads ==
  ASSUME NEW m, NEW from, NEW predicate
  PROVE  \A to : to \in ActiveTargets(m, from, predicate) <=> LeadsTo(m, from, predicate, to)
BY DEF ActiveTargets, Related, Current, LeadsTo, Holds, Ids, Reg

(* A manifest that fits holds what its experiential profile claims.        *)
LEMMA ClaimedExperienceHolds ==
  ASSUME NEW m, LegacyHolds(m), Medium \in CapableOf(m, "experiential"), NEW e \in Experiences(m, Medium)
  PROVE  ReplaceableHolds(m, e)
<1>1. "experiential" \in Ids(m, "profiles")
  BY DEF CapableOf
<1>2. Medium \in CapableOf(m, "experiential") \cap ExperienceCapabilities
  BY DEF ExperienceCapabilities, Medium
<1>3. ExperienceHolds(m, Medium, e)
  BY <1>1, <1>2 DEF LegacyHolds, ExperiencesHold
<1>4. QED
  BY <1>3 DEF ExperienceHolds, Medium

(* An offered configuration has a carrier, which has a performance, which  *)
(* has a medium that sounds.                                               *)
LEMMA OfferLeadsToSound ==
  ASSUME NEW m, NEW e, ReplaceableHolds(m, e),
         NEW c \in EntitiesBy(m, e, "offersConfiguration", "configuration")
  PROVE  \E carrier \in CarriersOf(m, c) : \E p \in PerformancesOf(m, carrier) :
           AssetsBy(m, p, "usesMedia", "performance-media", {"audio"}) # {}
<1> DEFINE configurations == EntitiesBy(m, e, "offersConfiguration", "configuration")
           Carriers == UNION {CarriersOf(m, d) : d \in configurations}
<1>0. Cardinality(LinksTo(m, c, "usesCarrier", "digitalObject")) = 1
  BY DEF ReplaceableHolds
<1>1. LinksTo(m, c, "usesCarrier", "digitalObject") # {}
  <2> SUFFICES ASSUME LinksTo(m, c, "usesCarrier", "digitalObject") = {} PROVE FALSE
    OBVIOUS
  <2>1. Cardinality(LinksTo(m, c, "usesCarrier", "digitalObject")) = 0
    BY FS_EmptySet
  <2>2. QED
    BY <1>0, <2>1
<1>2. PICK k \in Ids(m, "relations") :
        /\ m.relations[k] \in Related(m, c, "usesCarrier") /\ Current(m.relations[k])
        /\ At(m.relations[k], "objectId") \cap OfKind(m, "digitalObject") # {}
  BY <1>1 DEF LinksTo
<1>3. PICK carrier : carrier \in At(m.relations[k], "objectId") \cap OfKind(m, "digitalObject")
  BY <1>2
<1>4. carrier \in CarriersOf(m, c)
  BY <1>2, <1>3 DEF CarriersOf, EntitiesBy, ActiveTargets
<1>5. carrier \in Carriers
  BY <1>4
<1>6. CarrierHolds(m, carrier) /\ \A p \in PerformancesOf(m, carrier) : PerformanceHolds(m, p)
  BY <1>5 DEF ReplaceableHolds
<1>7. PICK p \in PerformancesOf(m, carrier) : PerformanceHolds(m, p)
  BY <1>6 DEF CarrierHolds
<1>8. AssetsBy(m, p, "usesMedia", "performance-media", {"audio"}) # {}
  BY <1>7 DEF PerformanceHolds
<1>9. QED
  BY <1>4, <1>7, <1>8

(* In a valid archive that sound is a file, with the bytes that are listed. *)
LEMMA OfferedPlays ==
  ASSUME NEW a, ManifestFits(a.manifest, a.payload),
         \A x \in Holds(a.manifest, "assets") : Single(x.path),
         Medium \in CapableOf(a.manifest, "experiential"),
         NEW e \in Experiences(a.manifest, Medium),
         NEW c \in OfKind(a.manifest, "configuration"),
         LeadsTo(a.manifest, e, "offersConfiguration", c)
  PROVE  Plays(a, c)
<1> DEFINE m == a.manifest
<1>1. LegacyHolds(m) /\ PayloadHolds(m, a.payload)
  BY DEF ManifestFits
<1>2. ReplaceableHolds(m, e)
  BY <1>1, ClaimedExperienceHolds
<1>3. c \in EntitiesBy(m, e, "offersConfiguration", "configuration")
  BY ActiveLeads DEF EntitiesBy
<1>4. PICK carrier \in CarriersOf(m, c) : \E p \in PerformancesOf(m, carrier) :
             AssetsBy(m, p, "usesMedia", "performance-media", {"audio"}) # {}
  BY <1>2, <1>3, OfferLeadsToSound
<1>5. PICK p \in PerformancesOf(m, carrier) :
             AssetsBy(m, p, "usesMedia", "performance-media", {"audio"}) # {}
  BY <1>4
<1>6. PICK id : id \in AssetsBy(m, p, "usesMedia", "performance-media", {"audio"})
  BY <1>5
<1>7. /\ carrier \in Ids(m, "entities") /\ LeadsTo(m, c, "usesCarrier", carrier)
      /\ p \in Ids(m, "entities") /\ LeadsTo(m, carrier, "hasPerformance", p)
  BY <1>4, <1>5, ActiveLeads DEF CarriersOf, PerformancesOf, EntitiesBy, OfKind
<1>8. /\ id \in Ids(m, "assets") /\ LeadsTo(m, p, "usesMedia", id)
      /\ "audio" \in At(m.assets[id], "media")
  BY <1>6, ActiveLeads DEF AssetsBy
<1>9. m.assets[id] \in Holds(m, "assets")
  BY <1>8 DEF Holds, Ids, Reg
<1>10. PICK q : m.assets[id].path = {q}
  BY <1>9 DEF Single
<1>11. q \in DOMAIN a.payload /\ m.assets[id].sha256 = {a.payload[q]}
  BY <1>1, <1>9, <1>10 DEF PayloadHolds
<1>12. Sounds(a, p)
  BY <1>8, <1>10, <1>11 DEF Sounds
<1>13. QED
  BY <1>7, <1>12 DEF Plays

(* Of an archive that pack has reported or unpack has begun with, every    *)
(* configuration that an experience with a replaceable medium offers can   *)
(* be played.                                                              *)
THEOREM ArchivesPlay == Spec => []PlaysFromArchive
<1>1. WorkspaceInv => PlaysFromArchive
  <2> SUFFICES ASSUME WorkspaceInv, archive.validated, Medium \in CapableOf(archive.manifest, "experiential"),
                      NEW e \in Experiences(archive.manifest, Medium),
                      NEW c \in OfKind(archive.manifest, "configuration"),
                      LeadsTo(archive.manifest, e, "offersConfiguration", c)
               PROVE  Plays(archive, c)
    BY DEF PlaysFromArchive, Medium
  <2>1. ManifestFits(archive.manifest, archive.payload)
    BY DEF WorkspaceInv, Sealed, ArchiveFits02
  <2>2. \A x \in Holds(archive.manifest, "assets") : Single(x.path)
    BY DEF WorkspaceInv, Sealed
  <2>3. QED
    BY <2>1, <2>2, OfferedPlays
<1>2. QED
  BY <1>1, WorkspaceInvHolds, PTL
=============================================================================
