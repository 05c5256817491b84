---------------------------- MODULE SceneAdapter ----------------------------
(***************************************************************************)
(* What the add-on makes in the user's Blender file and takes away again   *)
(* (blender/scene_adapter.py): the managed root collection of a session,   *)
(* the representations imported from verified GLB files, the markers of    *)
(* the acoustic scene, the interaction board, and their removal.  The user *)
(* works in the same file: adds objects, links objects and collections     *)
(* into and out of the managed ones, copies collections and scenes.        *)
(*                                                                         *)
(* bpy.data is one record: collections (a scene is its master collection), *)
(* objects, and meshes, which stand for every kind of datablock an object  *)
(* refers to.  All operators run on Blender's main thread and are atomic.  *)
(* Names, tags of provenance, transforms and visibility are left out.      *)
(***************************************************************************)
EXTENDS Integers, FiniteSets

CONSTANTS
  Asset,       \* the GLB files of the package
  Marker,      \* the source and receiver poses of its measurements
  MaxEdits,    \* bound: what the user does to objects and collections
  MaxAlike     \* bound: things of one kind and origin there are at a time

Roles == {"Representations", "Controls", "Spatial", "Diagnostics"}

ASSUME SceneAssumption ==
  /\ IsFiniteSet(Asset) /\ IsFiniteSet(Marker) /\ Asset \cap Roles = {}
  /\ MaxEdits \in Nat /\ MaxAlike \in Nat \ {0}

Kind  == {"scene", "root", "child", "model", "marker", "gate", "stop", "user"}
Id    == Kind \X (Roles \cup Asset \cup Marker \cup {"none", "original", "copy"}) \X (1..MaxAlike)

Original == <<"scene", "original", 1>>
Copy     == <<"scene", "copy", 1>>
Scene    == {Original, Copy}
NoId     == <<"none", "none", 0>>

VARIABLES
  data,      \* bpy.data
  modern,    \* the package is of 0.3 or later: markers, and no board
  live,      \* the session is in SESSIONS
  home,      \* session.scene
  origin,    \* history: the scene the session was installed in
  claims,    \* scenes whose vao_runtime names the session
  named,     \* the scene that bears session.scene_name, or NoId
  hint,      \* session.root_collection_name, or NoId
  guarded,   \* session.protected_cache_paths
  active,    \* the one configuration is in session.active_configurations
  edits

sceneVars == <<data, modern, live, home, origin, claims, named, hint, guarded,
          active, edits>>

(* mine: the thing bears the session's materialization id.                 *)
Plain == [kids |-> {}, objs |-> {}, mine |-> FALSE, root |-> FALSE,
          role |-> "none", of |-> "none"]

(* cur: it bears the id of the session there is; only the board asks.  A   *)
(* gate's control shows its keys, which are not pressed here.              *)
Controls == {"gate", "stop"}
UserObject == [mine |-> FALSE, kind |-> "user", mesh |-> NoId, cur |-> FALSE, lit |-> FALSE]
ObjType == [mine : BOOLEAN, kind : Kind, mesh : Id \cup {NoId}, cur : BOOLEAN, lit : BOOLEAN]
CollType == [kids : SUBSET Id, objs : SUBSET Id, mine : BOOLEAN, root : BOOLEAN,
             role : Roles \cup {"none"}, of : Asset \cup {"none"}]

File(colls, objs, meshes) == [colls |-> colls, objs |-> objs, meshes |-> meshes]

(* bpy.data holds whatever something in it links to or uses.               *)
WellFormed(d) ==
  /\ d = File(d.colls, d.objs, d.meshes)
  /\ DOMAIN d.colls \subseteq Id /\ DOMAIN d.objs \subseteq Id /\ d.meshes \subseteq Id
  /\ d.colls \in [DOMAIN d.colls -> CollType] /\ d.objs \in [DOMAIN d.objs -> ObjType]
  /\ \A c \in DOMAIN d.colls : /\ d.colls[c].kids \subseteq DOMAIN d.colls
                               /\ d.colls[c].objs \subseteq DOMAIN d.objs
  /\ \A o \in DOMAIN d.objs : d.objs[o].mesh \in d.meshes \cup {NoId}

SceneTypeOK ==
  /\ WellFormed(data)
  /\ modern \in BOOLEAN /\ live \in BOOLEAN /\ active \in BOOLEAN
  /\ {home, origin} \subseteq Scene /\ claims \subseteq Scene
  /\ named \in Scene \cup {NoId} /\ hint \in Id \cup {NoId}
  /\ guarded \subseteq Asset /\ edits \in 0..MaxEdits

(* A scene with a collection of the user's that holds one object.          *)
Users == <<"user", "none", 1>>
SceneInit ==
  /\ data = File([c \in {Original, Users} |->
                    IF c = Original THEN [Plain EXCEPT !.kids = {Users}]
                                    ELSE [Plain EXCEPT !.objs = {Users}]],
                 [o \in {Users} |-> [UserObject EXCEPT !.mesh = Users]],
                 {Users})
  /\ modern \in BOOLEAN
  /\ live = TRUE /\ home = Original /\ origin = Original /\ claims = {Original}
  /\ named = Original /\ hint = NoId /\ guarded = {} /\ active = FALSE /\ edits = 0

-----------------------------------------------------------------------------
(* Reading bpy.data.                                                       *)
Scenes(d) == Scene \cap DOMAIN d.colls

(* _collection_subtree(): c and the collections below it.                  *)
Subtree(d, c) ==
  LET size == Cardinality(DOMAIN d.colls)
      grown[n \in 0..size] ==
        IF n = 0 THEN {c}
        ELSE LET cs == grown[n - 1] IN cs \cup UNION {d.colls[x].kids : x \in cs}
  IN  grown[size]

ObjectsOf(d, cs) == UNION {d.colls[c].objs : c \in cs}
Parents(d, c) == {p \in DOMAIN d.colls : c \in d.colls[p].kids}

(* _linked_scenes()                                                        *)
Owners(d, c) == {s \in Scenes(d) : c \in Subtree(d, s)}

Claiming(d, cs) == {c \in cs : d.colls[c].root /\ d.colls[c].mine}

(* _materialization_roots()                                                *)
Roots(d, s) == Claiming(d, Subtree(d, s))

(* _resolve_session_root(): the one root, linked into the session's scene  *)
(* alone; or there is none and the session has never known one.            *)
HasRoot(d) ==
  \E r \in Roots(d, home) : Roots(d, home) = {r} /\ Owners(d, r) = {home}
Rootless(d, h) == Roots(d, home) = {} /\ h = NoId
TheRoot(d) == CHOOSE r \in Roots(d, home) : TRUE

(* _assert_owned_subtree(): nothing of the user's is below c.              *)
OwnedBelow(d, c) ==
  /\ \A x \in Subtree(d, c) : d.colls[x].mine
  /\ \A o \in ObjectsOf(d, Subtree(d, c)) : d.objs[o].mine

(* _find_child()                                                           *)
ChildrenOf(d, r, role) == {c \in d.colls[r].kids : d.colls[c].role = role}
ChildOf(d, r, role) == CHOOSE c \in ChildrenOf(d, r, role) : TRUE
HasChild(d, r, role) == ChildrenOf(d, r, role) # {}

-----------------------------------------------------------------------------
(* Changing bpy.data.                                                      *)
Taken(d) == DOMAIN d.colls \cup DOMAIN d.objs \cup d.meshes
Spare(d, kind, of) == {n \in 1..MaxAlike : <<kind, of, n>> \notin Taken(d)}
New(d, kind, of) == <<kind, of, CHOOSE n \in Spare(d, kind, of) : TRUE>>

WithColls(d, into, new) ==
  File([c \in DOMAIN d.colls \cup DOMAIN new |->
          IF c \in DOMAIN new THEN new[c]
          ELSE IF c = into THEN [d.colls[c] EXCEPT !.kids = @ \cup DOMAIN new]
          ELSE d.colls[c]],
       d.objs, d.meshes)
WithObjects(d, into, new) ==
  File([c \in DOMAIN d.colls |->
          IF c = into THEN [d.colls[c] EXCEPT !.objs = @ \cup DOMAIN new] ELSE d.colls[c]],
       [o \in DOMAIN d.objs \cup DOMAIN new |-> IF o \in DOMAIN new THEN new[o] ELSE d.objs[o]],
       (d.meshes \cup {new[o].mesh : o \in DOMAIN new}) \ {NoId})
Without(d, cs, os) ==
  File([c \in DOMAIN d.colls \ cs |->
          [d.colls[c] EXCEPT !.kids = @ \ cs, !.objs = @ \ os]],
       [o \in DOMAIN d.objs \ os |-> d.objs[o]], d.meshes)

(* _remove_unused_datablocks()                                             *)
WithoutUnused(d, ms) ==
  File(d.colls, d.objs,
       d.meshes \ {m \in ms : \A o \in DOMAIN d.objs : d.objs[o].mesh # m})

(* _retag_live_session()                                                   *)
Retagged(d, r) ==
  LET os == ObjectsOf(d, Subtree(d, r)) IN
  File(d.colls,
       [o \in DOMAIN d.objs |->
          IF o \in os /\ d.objs[o].kind \in Controls THEN [d.objs[o] EXCEPT !.cur = TRUE]
          ELSE d.objs[o]],
       d.meshes)

Managed == [Plain EXCEPT !.mine = TRUE]
WithRoles(d, r, roles) ==
  WithColls(d, r, [c \in {New(d, "child", role) : role \in roles} |->
                     [Managed EXCEPT !.role = c[2]]])

(* ensure_root(), where it does not raise: the root, and what there is     *)
(* with it.                                                                *)
CanEnsure(d, h) == \/ Rootless(d, h)
                   \/ HasRoot(d) /\ OwnedBelow(d, TheRoot(d))
RootOf(d) == IF HasRoot(d) THEN TheRoot(d) ELSE New(d, "root", "none")
Ensured(d, r) ==
  IF r \in DOMAIN d.colls THEN Retagged(d, r)
  ELSE WithRoles(WithColls(d, home, [c \in {r} |-> [Managed EXCEPT !.root = TRUE]]), r, Roles)

(* _child()                                                                *)
WithChild(d, r, role) == IF HasChild(d, r, role) THEN d ELSE WithRoles(d, r, {role})

(* The GLB importer makes a collection of its own with a node in it.       *)
Imported(d, a) ==
  LET n == New(d, "model", a)
  IN  WithObjects(WithColls(d, home, [c \in {n} |-> Plain]), n,
                  [o \in {n} |-> [UserObject EXCEPT !.kind = "model", !.mesh = n]])

(* The nodes leave every collection for that of the representation, and    *)
(* are tagged.                                                             *)
Placed(before, a) ==
  LET i == Imported(before, a)
      r == RootOf(before)
      e == WithChild(Ensured(i, r), r, "Representations")
      n == New(e, "child", a)
      p == WithColls(e, ChildOf(e, r, "Representations"), [c \in {n} |-> [Managed EXCEPT !.of = a]])
      new == DOMAIN i.objs \ DOMAIN before.objs
  IN  File([c \in DOMAIN p.colls |->
              [p.colls[c] EXCEPT !.objs = IF c = n THEN new ELSE @ \ new]],
           [o \in DOMAIN p.objs |->
              IF o \in new THEN [p.objs[o] EXCEPT !.mine = TRUE] ELSE p.objs[o]],
           p.meshes)

Made(kind, mesh) == [UserObject EXCEPT !.mine = TRUE, !.kind = kind, !.mesh = mesh,
                                       !.cur = (kind \in Controls)]

(* _create_acoustic_markers(), of the poses ms                             *)
Marked(d, r, ms) ==
  LET s == WithChild(d, r, "Spatial") IN
  WithObjects(s, ChildOf(s, r, "Spatial"),
              [o \in {New(s, "marker", m) : m \in ms} |-> Made("marker", NoId)])

(* Collections the load made and nothing was put into go; those of a new   *)
(* root among them.                                                        *)
Tidied(d, before, keep) ==
  Without(d, {c \in DOMAIN d.colls \ (DOMAIN before.colls \cup keep) :
                d.colls[c].objs = {} /\ d.colls[c].kids = {}}, {})

Loaded(before, a) ==
  LET r == RootOf(before)
      p == Placed(before, a)
      m == IF modern THEN Marked(p, r, Marker) ELSE p
  IN  Tidied(m, before, {r, ChildOf(m, r, "Representations")})

(* Slip: the meshes of what is taken back stay.                            *)
RolledBackKeepingMeshes(d, before) ==
  Without(d, DOMAIN d.colls \ DOMAIN before.colls, DOMAIN d.objs \ DOMAIN before.objs)

(* _rollback()                                                             *)
RolledBack(d, before) ==
  WithoutUnused(Without(d, DOMAIN d.colls \ DOMAIN before.colls,
                        DOMAIN d.objs \ DOMAIN before.objs),
                d.meshes \ before.meshes)

(* update_control_surface(): the board shows the selection, where the      *)
(* managed subtree is found and all its own.                               *)
Updated(d, on) ==
  IF ~HasRoot(d) \/ ~OwnedBelow(d, TheRoot(d)) \/ ~HasChild(d, TheRoot(d), "Controls") THEN d
  ELSE LET board == d.colls[ChildOf(d, TheRoot(d), "Controls")].objs IN
       File(d.colls,
            [o \in DOMAIN d.objs |->
               IF o \in board /\ d.objs[o].cur /\ d.objs[o].kind = "stop"
               THEN [d.objs[o] EXCEPT !.lit = on] ELSE d.objs[o]],
            d.meshes)

-----------------------------------------------------------------------------
(* The operators.                                                          *)
Here == live /\ home \in Scenes(data) /\ home \in claims
Room(kind, of) == Spare(data, kind, of) # {}

IsShown(a) ==
  /\ HasRoot(data) /\ HasChild(data, TheRoot(data), "Representations")
  /\ \E c \in data.colls[ChildOf(data, TheRoot(data), "Representations")].kids :
       data.colls[c].of = a

(* What import_visual() asks before it touches anything.                   *)
CanLoad(a) ==
  /\ Here /\ Room("model", a) /\ Room("child", a) /\ Room("root", "none")
  /\ \A m \in Marker : Room("marker", m)
  /\ \A role \in Roles : Room("child", role)
  /\ HasRoot(data) \/ Rootless(data, hint)
  /\ ~IsShown(a)
  /\ modern => a = CHOOSE x \in Asset : TRUE

session == <<modern, live, home, origin, claims, named, active, edits>>

LoadRepresentation(a) ==
  /\ CanLoad(a) /\ CanEnsure(data, hint)
  /\ data' = Loaded(data, a)
  /\ hint' = RootOf(data)
  /\ guarded' = guarded \cup {a}
  /\ UNCHANGED session

(* The root's name is forgotten if the root went with the rollback; the    *)
(* live session's tags stay on what was there.                             *)
LoadFails(a) ==
  /\ CanLoad(a)
  /\ \/ data' = RolledBack(Imported(data, a), data)
     \/ /\ modern /\ CanEnsure(data, hint)
        /\ \E ms \in SUBSET Marker :
             data' = RolledBack(Marked(Placed(data, a), RootOf(data), ms), data)
  /\ hint' = IF HasRoot(data') THEN TheRoot(data') ELSE NoId
  /\ guarded' = guarded \ {a}
  /\ UNCHANGED session

(* create_control_surface(): a board that exists is only brought up to     *)
(* date.  Two controls, a gate's and a selection's, share one mesh.  A     *)
(* board that fails leaves the root that was made for it.                  *)
CreateControls ==
  /\ Here /\ ~modern /\ CanEnsure(data, hint)
  /\ Room("gate", "none") /\ Room("stop", "none")
  /\ Room("root", "none") /\ \A role \in Roles : Room("child", role)
  /\ LET r == RootOf(data)
         d == WithChild(Ensured(data, r), r, "Controls")
         controls == ChildOf(d, r, "Controls")
         gate == New(d, "gate", "none")
         Holding(objs) == WithObjects(d, controls, [o \in objs |-> Made(o[1], gate)])
         first == Holding({gate})
         board == Holding({gate, New(d, "stop", "none")})
     IN  IF \E o \in d.colls[controls].objs : d.objs[o].kind \in Controls \cup {"marker"}
         THEN data' = Updated(d, active)
         ELSE \/ data' = Updated(board, active)
              \/ data' = WithoutUnused(Without(first, {}, {gate}), {gate})
  /\ hint' = RootOf(data)
  /\ UNCHANGED <<session, guarded>>

(* VAO_OT_toggle_selection                                                 *)
ToggleSelection ==
  /\ Here /\ ~modern
  /\ active' = ~active
  /\ data' = Updated(data, active')
  /\ hint' = IF HasRoot(data) THEN TheRoot(data) ELSE hint
  /\ UNCHANGED <<modern, live, home, origin, claims, named, edits, guarded>>

(* _assert_no_external_collection_links()                                  *)
LinkedOnlyFrom(d, c, allowed) ==
  LET own == Subtree(d, c) IN
  \A x \in own : \A p \in Parents(d, x) : p \in own \/ (x = c /\ p \in allowed)

(* Slip: the user's objects below go too.                                  *)
RemovedWhole(d, c) ==
  LET own == Subtree(d, c)
      objs == ObjectsOf(d, own)
  IN  WithoutUnused(Without(d, own, objs), {d.objs[o].mesh : o \in objs})

(* Slip: the data of the objects stays.                                    *)
RemovedLeavingMeshes(d, c) ==
  LET own == Subtree(d, c) IN
  Without(d, own, ObjectsOf(d, own) \ ObjectsOf(d, DOMAIN d.colls \ own))

(* The collections of a managed subtree go, and the objects in it that are *)
(* in no other collection.                                                 *)
Removed(d, c) ==
  LET own == Subtree(d, c)
      objs == ObjectsOf(d, own)
  IN  WithoutUnused(Without(d, own, objs \ ObjectsOf(d, DOMAIN d.colls \ own)),
                    {d.objs[o].mesh : o \in objs})

(* remove_representation(): representation_collection() finds exactly one  *)
(* that is managed.                                                        *)
RemoveRepresentation(a) ==
  /\ Here /\ IsShown(a)
  /\ LET parent == ChildOf(data, TheRoot(data), "Representations")
         found == {c \in data.colls[parent].kids : data.colls[c].of = a}
     IN  /\ data.colls[parent].mine
         /\ \E c \in found : /\ found = {c}
                             /\ OwnedBelow(data, c)
                             /\ LinkedOnlyFrom(data, c, {parent})
                             /\ data' = Removed(data, c)
  /\ hint' = TheRoot(data)
  /\ UNCHANGED <<session, guarded>>

(* remove_materialization() of the session                                 *)
RemoveMaterialization ==
  /\ Here /\ hint # NoId /\ HasRoot(data)
  /\ OwnedBelow(data, TheRoot(data))
  /\ LinkedOnlyFrom(data, TheRoot(data), {home})
  /\ data' = Removed(data, TheRoot(data))
  /\ hint' = NoId /\ guarded' = {}
  /\ UNCHANGED session

(* and of a detached one, found by its id in the whole file                *)
RemoveDetached ==
  /\ ~live \/ hint = NoId
  /\ LET found == Claiming(data, DOMAIN data.colls) IN
     \E r \in found, s \in Scenes(data) :
       /\ found = {r} /\ Owners(data, r) = {s}
       /\ OwnedBelow(data, r)
       /\ LinkedOnlyFrom(data, r, {s})
       /\ data' = Removed(data, r)
  /\ UNCHANGED <<session, hint, guarded>>

Untagged(d) ==
  File(d.colls, [o \in DOMAIN d.objs |-> [d.objs[o] EXCEPT !.cur = FALSE]], d.meshes)

(* close_session(): the scene data stays, and nothing bears the id of the  *)
(* next session.                                                           *)
Close ==
  /\ Here
  /\ live' = FALSE /\ claims' = claims \ {home} /\ active' = FALSE
  /\ hint' = NoId /\ guarded' = {}
  /\ data' = Untagged(data)
  /\ UNCHANGED <<modern, home, origin, named, edits>>

(* An exact relink: install_outcome() of a root that is in one scene only. *)
Relink ==
  /\ ~live
  /\ \E s \in Scenes(data) : \E r \in Roots(data, s) :
       /\ Owners(data, r) = {s}
       /\ live' = TRUE /\ home' = s /\ origin' = s /\ named' = s
       /\ claims' = {s} /\ hint' = r
  /\ UNCHANGED <<data, modern, guarded, active, edits>>

(* active_session(), as the panels draw: a scene that is the only one to   *)
(* name the session, and has the name of a scene that is gone, takes over. *)
Rebind ==
  /\ live /\ home \notin Scenes(data)
  /\ named # NoId /\ claims \cap Scenes(data) = {named}
  /\ home' = named
  /\ UNCHANGED <<data, modern, live, origin, claims, named, hint, guarded, active, edits>>

-----------------------------------------------------------------------------
(* The user.                                                               *)
Edits == edits < MaxEdits /\ edits' = edits + 1
Own == <<modern, live, home, origin, hint, guarded, active>>

AddObject ==
  /\ Room("user", "none")
  /\ LET n == New(data, "user", "none") IN
     \E c \in DOMAIN data.colls, m \in data.meshes \cup {n} :
       data' = WithObjects(data, c, [o \in {n} |-> [UserObject EXCEPT !.mesh = m]])
  /\ UNCHANGED <<claims, named>>

LinkObject ==
  /\ \E c \in DOMAIN data.colls : \E o \in DOMAIN data.objs \ data.colls[c].objs :
       data' = [data EXCEPT !.colls[c].objs = @ \cup {o}]
  /\ UNCHANGED <<claims, named>>

UnlinkObject ==
  /\ \E c \in DOMAIN data.colls : \E o \in data.colls[c].objs :
       data' = [data EXCEPT !.colls[c].objs = @ \ {o}]
  /\ UNCHANGED <<claims, named>>

LinkCollection ==
  /\ \E into \in DOMAIN data.colls : \E c \in DOMAIN data.colls \ (data.colls[into].kids \cup Scene) :
       /\ into \notin Subtree(data, c)
       /\ ~data.colls[into].mine \/ ~data.colls[c].mine
       /\ data' = [data EXCEPT !.colls[into].kids = @ \cup {c}]
  /\ UNCHANGED <<claims, named>>

UnlinkCollection ==
  /\ \E from \in DOMAIN data.colls : \E c \in data.colls[from].kids :
       data' = [data EXCEPT !.colls[from].kids = @ \ {c}]
  /\ UNCHANGED <<claims, named>>

(* Collection.copy(): the tags, children and objects of c.                 *)
CopyCollection ==
  /\ Room("user", "copy") /\ home \in Scenes(data)
  /\ \E c \in DOMAIN data.colls \ Scene :
       data' = WithColls(data, home, [n \in {New(data, "user", "copy")} |-> data.colls[c]])
  /\ UNCHANGED <<claims, named>>

(* A linked copy of the scene takes its vao_runtime along.                 *)
CopyScene ==
  /\ Scenes(data) = {Original}
  /\ data' = WithColls(data, NoId, [c \in {Copy} |-> data.colls[Original]])
  /\ claims' = claims \cup (IF Original \in claims THEN {Copy} ELSE {})
  /\ UNCHANGED named

DeleteOriginal ==
  /\ Scenes(data) = Scene
  /\ data' = Without(data, {Original}, {})
  /\ claims' = claims \ {Original}
  /\ named' = IF named = Original THEN NoId ELSE named

RenameCopy ==
  /\ named = NoId
  /\ named' = Copy
  /\ UNCHANGED <<data, claims>>

UserEdit ==
  /\ UNCHANGED Own
  /\ \/ /\ Edits
        /\ \/ AddObject \/ LinkObject \/ UnlinkObject
           \/ LinkCollection \/ UnlinkCollection \/ CopyCollection
     \/ /\ UNCHANGED edits
        /\ CopyScene \/ DeleteOriginal \/ RenameCopy

SceneNext ==
  \/ \E a \in Asset : LoadRepresentation(a) \/ LoadFails(a) \/ RemoveRepresentation(a)
  \/ CreateControls \/ ToggleSelection
  \/ RemoveMaterialization \/ RemoveDetached
  \/ Close \/ Relink \/ Rebind
  \/ UserEdit

SceneSpec == SceneInit /\ [][SceneNext]_sceneVars

-----------------------------------------------------------------------------
(* What the user has put into the file, or keeps in a collection of his    *)
(* own, stays there with its data whatever the add-on does.                *)
SparesTheUser ==
  [][UserEdit \/
     /\ \A c \in DOMAIN data.colls \ Scene :
          ~data.colls[c].mine => c \in DOMAIN data'.colls /\ data'.colls[c] = data.colls[c]
     /\ \A o \in DOMAIN data.objs :
          (\/ ~data.objs[o].mine
           \/ \E c \in DOMAIN data.colls : ~data.colls[c].mine /\ o \in data.colls[c].objs)
          => /\ o \in DOMAIN data'.objs
             /\ data'.objs[o].mesh \in data'.meshes \cup {NoId}]_sceneVars

(* A load that fails, at whatever point, leaves the file as it was, but    *)
(* for the tags of the live session (docs/ARCHITECTURE.md, 9.2).           *)
FailureLeavesNothing ==
  [][(\E a \in Asset : LoadFails(a)) => Untagged(data') = Untagged(data)]_sceneVars

(* Until the user works in the file himself, loads, boards, removals,      *)
(* closing and relinking leave no collection, object or mesh behind that   *)
(* nothing leads to, and nothing managed without its root; a live session  *)
(* knows the root exactly when there is one, and there is one only.        *)
Untouched == edits = 0 /\ Scenes(data) = {Original}
NothingLeftBehind ==
  Untouched =>
    /\ \A m \in data.meshes : \E o \in DOMAIN data.objs : data.objs[o].mesh = m
    /\ \A c \in DOMAIN data.colls : c \in Subtree(data, Original)
    /\ DOMAIN data.objs = ObjectsOf(data, DOMAIN data.colls)
    /\ (\E c \in DOMAIN data.colls : data.colls[c].mine) => HasRoot(data)
    /\ Cardinality(Claiming(data, DOMAIN data.colls)) <= 1
    /\ live => (hint # NoId <=> HasRoot(data))

(* What docs/ARCHITECTURE.md:428 says of the selection: it is the live     *)
(* session's, and a close resets it.  The board shows it.                  *)
BoardShowsSelection ==
  Untouched /\ live =>
    \A o \in DOMAIN data.objs :
      data.objs[o].kind = "stop" /\ data.objs[o].cur => data.objs[o].lit = active

(* "copied scenes retain no authority to steal a session" (session.py:226) *)
CopiesHaveNoAuthority == live => home = origin
=============================================================================
