-------------------------- MODULE SessionLifecycle --------------------------
(***************************************************************************)
(* The life of a VAO session in one Blender scene: validations that run in *)
(* a worker while the user goes on working (blender/operators.py), results *)
(* that become sessions (blender/session.py), closing, removing, relinking *)
(* and detached scene data, and Blender's undo and file loading, which     *)
(* bring back an older state of the scene but not of the Python registry   *)
(* SESSIONS (blender/handlers.py).                                         *)
(*                                                                         *)
(* Main-thread operators are atomic.  A session id and the materialization *)
(* id made with it are both fresh uuids, so one number stands for both.    *)
(***************************************************************************)
EXTENDS Naturals

CONSTANTS
  MaxBegins,   \* bound: validations started
  MaxUndos,    \* bound: undo steps
  MaxLoads     \* bound: files loaded

ASSUME BoundsAreNatural == MaxBegins \in Nat /\ MaxUndos \in Nat /\ MaxLoads \in Nat

None    == 0
Session == 1..(MaxBegins + MaxUndos + MaxLoads)
Mat     == Session

VARIABLES
  registry,   \* SESSIONS
  info,       \* what a session was made of
  rooted,     \* sessions that know a root collection
  runtime,    \* scene.vao_runtime
  roots,      \* managed root collections in the scene
  reports,    \* saved diagnostics text of a materialization
  op,         \* the active validation operator and its worker
  past,       \* the scene as of the last undo step or saved file
  acked,      \* history: sessions whose rights the user acknowledged
  born, begins, undos, loads

vars == <<registry, info, rooted, runtime, roots, reports, op, past, acked,
          born, begins, undos, loads>>
bounds == <<begins, undos, loads>>

Passed  == {"valid", "restricted"}
Failed  == {"invalid", "cancelled"}
Outcome == Passed \cup Failed

InfoType == [outcome : Outcome, mat : Mat, matches : BOOLEAN]
RuntimeType ==
  [session : Session \cup {None}, mat : Mat \cup {None}, root : Mat \cup {None},
   state : Outcome \cup {"empty", "validating", "error", "detached", "closed"},
   data  : {"none", "ready", "attached", "detached", "degraded"},
   ack : BOOLEAN, media : BOOLEAN]
SceneType == [runtime : RuntimeType, roots : SUBSET Mat,
              reports : [Mat -> Outcome \cup {"none"}]]

Empty == [session |-> None, mat |-> None, root |-> None, state |-> "empty",
          data |-> "none", ack |-> FALSE, media |-> FALSE]

(* snap is the runtime to restore; source is the materialization to relink *)
(* or None; alive is cleared when undo replaces the scene it refers to.    *)
NoOp == [on |-> FALSE, source |-> None, root |-> None, worker |-> "none",
         cancelled |-> FALSE, alive |-> TRUE, snap |-> Empty]
OpType == [on : BOOLEAN, source : Mat \cup {None}, root : Mat \cup {None},
           worker : Outcome \cup {"none", "running", "error"},
           cancelled : BOOLEAN, alive : BOOLEAN, snap : RuntimeType]

TypeOK ==
  /\ registry \subseteq Session
  /\ info \in [Session -> InfoType]
  /\ rooted \subseteq Session
  /\ [runtime |-> runtime, roots |-> roots, reports |-> reports] \in SceneType
  /\ op \in OpType
  /\ past \in SceneType
  /\ acked \subseteq Session
  /\ born \in 0..(MaxBegins + MaxUndos + MaxLoads)
  /\ begins \in 0..MaxBegins /\ undos \in 0..MaxUndos /\ loads \in 0..MaxLoads

NoReports == [m \in Mat |-> "none"]

Init ==
  /\ registry = {} /\ rooted = {} /\ acked = {}
  /\ info = [x \in Session |-> [outcome |-> "invalid", mat |-> x, matches |-> FALSE]]
  /\ runtime = Empty
  /\ roots = {}
  /\ reports = NoReports
  /\ op = NoOp
  /\ past = [runtime |-> Empty, roots |-> {}, reports |-> NoReports]
  /\ born = 0 /\ begins = 0 /\ undos = 0 /\ loads = 0

-----------------------------------------------------------------------------
(* active_session() and Session.media_ready()                              *)
Active(rt) == rt.session \in registry

MediaReady(rt) ==
  /\ Active(rt)
  /\ rt.state # "validating"
  /\ info[rt.session].outcome \in Passed
  /\ info[rt.session].matches
  /\ info[rt.session].outcome = "restricted" => rt.ack

(* The registry and the texts once the active session is gone: the texts   *)
(* of a session without scene data go with it.                             *)
Closed(rt, reps) ==
  [m \in Mat |-> IF Active(rt) /\ rt.session \notin rooted /\ m = info[rt.session].mat
                 THEN "none" ELSE reps[m]]

(* Slip: the acknowledgement of the session before is kept.                *)
PopulatedStillAcknowledged(x, o, m, matches, root) ==
  [session |-> x, mat |-> m, root |-> root, state |-> o,
   data |-> IF ~matches THEN "detached" ELSE IF root = None THEN "none" ELSE "attached",
   ack |-> runtime.ack, media |-> matches /\ o = "valid"]

(* _populate_runtime()                                                     *)
Populated(x, o, m, matches, root) ==
  [session |-> x, mat |-> m, root |-> root, state |-> o,
   data |-> IF ~matches THEN "detached" ELSE IF root = None THEN "none" ELSE "attached",
   ack |-> FALSE, media |-> matches /\ o = "valid"]

(* Slip: the report of a source that differs overwrites the one of the     *)
(* scene data.                                                             *)
EnrolOverwriting(reg, reps, o, m, matches, root, shown) ==
  LET x == born + 1
      mat == IF m = None THEN x ELSE m
  IN
  /\ x \in Session
  /\ born' = x
  /\ registry' = reg \cup {x}
  /\ info' = [info EXCEPT ![x] = [outcome |-> o, mat |-> mat, matches |-> matches]]
  /\ rooted' = IF root = None THEN rooted ELSE rooted \cup {x}
  /\ reports' = [reps EXCEPT ![mat] = o]
  /\ runtime' = [Populated(x, o, mat, matches, root) EXCEPT !.state = shown]

(* The end of install_outcome(): a new session, with a fresh               *)
(* materialization unless it is given one, and the state shown for it.     *)
Enrol(reg, reps, o, m, matches, root, shown) ==
  LET x == born + 1
      mat == IF m = None THEN x ELSE m
  IN
  /\ x \in Session
  /\ born' = x
  /\ registry' = reg \cup {x}
  /\ info' = [info EXCEPT ![x] = [outcome |-> o, mat |-> mat, matches |-> matches]]
  /\ rooted' = IF root = None THEN rooted ELSE rooted \cup {x}
  /\ reports' = IF matches THEN [reps EXCEPT ![mat] = o] ELSE reps
  /\ runtime' = [Populated(x, o, mat, matches, root) EXCEPT !.state = shown]

(* install_outcome(): the session the scene had goes, the new one comes.   *)
Install(rt, o, m, matches, root, shown) ==
  Enrol(registry \ {rt.session}, Closed(rt, reports), o, m, matches, root, shown)

(* select_detached()                                                       *)
Detached(rt, m) ==
  [rt EXCEPT !.session = None, !.mat = m, !.root = m, !.state = "detached",
             !.data = "detached", !.media = FALSE]

(* The state is left as found, unless a package was closed.                *)
Shown(rt, shown) == IF shown = "closed" THEN [rt EXCEPT !.state = shown] ELSE rt

(* _restore_saved_diagnostic(): only a failing result comes back.          *)
Saved(rt, reps) == rt.mat # None /\ reps[rt.mat] \in Failed

RestoreSaved(rt, reg, reps, shown) ==
  LET o == reps[rt.mat] IN
  Enrol(reg, reps, o, rt.mat, TRUE, None, IF shown = "closed" THEN shown ELSE o)

(* discover_detached() where no session is active: a failing result that   *)
(* was saved becomes a session again, else a managed root is selected.     *)
Rediscover(rt, reg, reps, rts, shown) ==
  LET bare == [rt EXCEPT !.session = None, !.ack = FALSE, !.media = FALSE] IN
  \/ Saved(rt, reps) /\ RestoreSaved(rt, reg, reps, shown)
  \/ /\ ~Saved(rt, reps)
     /\ \/ rts = {} /\ runtime' = Shown(Empty, shown)
        \/ \E m \in rts : runtime' = Shown(Detached(bare, m), shown)
     /\ registry' = reg /\ reports' = reps
     /\ UNCHANGED <<born, info, rooted>>

(* cancel_active_validations() and cancel(): the runtime as it was before  *)
(* the validation, if there was a session then.                            *)
Restored ==
  IF ~op.on \/ ~op.alive THEN runtime
  ELSE IF op.snap.session # None THEN op.snap
  ELSE [runtime EXCEPT !.state = "cancelled", !.media = FALSE]

-----------------------------------------------------------------------------
(* _begin_validation(): of a file, or of the source of a materialization.  *)
Begin(source) ==
  /\ begins < MaxBegins
  /\ begins' = begins + 1
  /\ op' = [NoOp EXCEPT !.on = TRUE, !.source = source, !.snap = Restored,
                        !.root = IF source = None THEN None ELSE runtime.root,
                        !.worker = "running"]
  /\ runtime' = [Restored EXCEPT !.state = "validating", !.media = FALSE]
  /\ UNCHANGED <<registry, info, rooted, roots, reports, past, acked, born, undos, loads>>

BeginImport == Begin(None)

(* The panel offers it for detached data and for a source that differed.   *)
BeginRelink ==
  /\ runtime.state # "validating" /\ runtime.mat # None
  /\ \/ Active(runtime) /\ ~info[runtime.session].matches
     \/ ~Active(runtime) /\ runtime.mat \in roots
  /\ Begin(runtime.mat)

(* The timer of the operator cannot be added: an error is the result.      *)
BeginFails ==
  /\ begins < MaxBegins
  /\ begins' = begins + 1
  /\ Install(Restored, "invalid", None, TRUE, None, "error")
  /\ op' = NoOp
  /\ UNCHANGED <<roots, past, acked, undos, loads>>

(* The worker ends: it notices a cancellation, or is past its last check.  *)
WorkerEnds ==
  /\ op.on /\ op.worker = "running"
  /\ \E o \in Outcome \cup {"error"} :
       /\ o = "cancelled" => op.cancelled
       /\ op' = [op EXCEPT !.worker = o]
  /\ UNCHANGED <<registry, info, rooted, runtime, roots, reports, past, acked, born, bounds>>

(* relink_mismatch_reasons(): the hashes and identities are those of the   *)
(* scene data, and its root is still there.                                *)
Matches(exact) == exact /\ op.worker \in Passed /\ op.root \in roots

(* modal() sees the result: a session, exact or not, whatever it is.       *)
TakeResult ==
  /\ op.on /\ op.alive /\ op.worker \in Outcome
  /\ \/ op.source = None /\ Install(runtime, op.worker, None, TRUE, None, op.worker)
     \/ /\ op.source # None
        /\ \E exact \in BOOLEAN :
             Install(runtime, op.worker, op.source, Matches(exact), op.root, op.worker)
  /\ op' = NoOp
  /\ UNCHANGED <<roots, past, acked, bounds>>

(* ... or the worker's exception, which becomes a result of its own.       *)
TakeError ==
  /\ op.on /\ op.alive /\ op.worker = "error"
  /\ Install(runtime, "invalid", None, TRUE, None, "error")
  /\ op' = NoOp
  /\ UNCHANGED <<roots, past, acked, bounds>>

(* Slip: the operator waits for its scene to come back.                    *)
LoseSceneIgnored ==
  /\ op.on /\ ~op.alive
  /\ UNCHANGED vars

(* ... or that its scene is gone.                                          *)
LoseScene ==
  /\ op.on /\ ~op.alive
  /\ op' = NoOp
  /\ UNCHANGED <<registry, info, rooted, runtime, roots, reports, past, acked, born, bounds>>

(* Slip: the snapshot is dropped before it is restored.                    *)
AbandonUnrestored ==
  /\ op.on
  /\ op' = NoOp
  /\ UNCHANGED <<registry, info, rooted, runtime, roots, reports, past, acked, born, bounds>>

(* Blender cancels the modal operator, with its window say.                *)
Abandon ==
  /\ op.on
  /\ runtime' = Restored
  /\ op' = NoOp
  /\ UNCHANGED <<registry, info, rooted, roots, reports, past, acked, born, bounds>>

(* Escape, or the cancel button of the sidebar.                            *)
Cancel ==
  /\ op.on
  /\ op' = [op EXCEPT !.cancelled = TRUE]
  /\ UNCHANGED <<registry, info, rooted, runtime, roots, reports, past, acked, born, bounds>>

-----------------------------------------------------------------------------
(* close_session() on the runtime                                          *)
Vacated(rt) ==
  [rt EXCEPT !.session = None, !.ack = FALSE, !.media = FALSE,
             !.mat = IF Active(rt) /\ rt.session \notin rooted THEN None ELSE @]

ClosePackage ==
  /\ Rediscover(Vacated(runtime), registry \ {runtime.session},
                Closed(runtime, reports), roots, "closed")
  /\ UNCHANGED <<roots, op, past, acked, bounds>>

SelectDetached(m) ==
  /\ m \in roots
  /\ registry' = registry \ {runtime.session}
  /\ reports' = Closed(runtime, reports)
  /\ runtime' = Detached(IF Active(runtime) THEN Vacated(runtime) ELSE runtime, m)
  /\ UNCHANGED <<info, rooted, roots, op, past, acked, born, bounds>>

AcknowledgeRights ==
  LET acknowledged == [runtime EXCEPT !.ack = TRUE] IN
  /\ Active(runtime) /\ info[runtime.session].outcome = "restricted"
  /\ runtime' = [acknowledged EXCEPT !.media = MediaReady(acknowledged)]
  /\ acked' = acked \cup {runtime.session}
  /\ UNCHANGED <<registry, info, rooted, roots, reports, op, past, born, bounds>>

(* import_visual(): the scene data of the session, or nothing but the name *)
(* of a root that was made and rolled back.                                *)
LoadVisual ==
  LET x == runtime.session
      m == info[x].mat
  IN
  /\ MediaReady(runtime)
  /\ \/ /\ m \in roots \/ x \notin rooted
        /\ roots' = roots \cup {m}
        /\ rooted' = rooted \cup {x}
        /\ runtime' = [runtime EXCEPT !.root = m, !.data = "ready"]
     \/ /\ \E root \in {runtime.root, m} :
             runtime' = [runtime EXCEPT !.root = root, !.data = "degraded"]
        /\ UNCHANGED <<roots, rooted>>
  /\ UNCHANGED <<registry, info, reports, op, past, acked, born, bounds>>

(* remove_materialization(), of the session or of selected detached data.  *)
Remove ==
  LET x == runtime.session
      own == Active(runtime) /\ x \in rooted
      m == IF own THEN info[x].mat ELSE runtime.mat
      bare == [reports EXCEPT ![m] = "none"]
  IN
  /\ m \in roots
  /\ roots' = roots \ {m}
  /\ \/ /\ own
        /\ rooted' = rooted \ {x}
        /\ runtime' = IF runtime.mat = m THEN [runtime EXCEPT !.root = None, !.data = "none"]
                      ELSE runtime
        /\ reports' = bare
        /\ UNCHANGED <<registry, info, born>>
     \/ /\ Active(runtime) /\ ~own
        /\ reports' = bare
        /\ UNCHANGED <<registry, info, rooted, runtime, born>>
     \/ /\ ~Active(runtime)
        /\ Rediscover(runtime, registry, bare, roots \ {m}, "found")
  /\ UNCHANGED <<op, past, acked, bounds>>

-----------------------------------------------------------------------------
(* Blender keeps the scene, with an undo step or in a file.                *)
Keep ==
  /\ past' = [runtime |-> runtime, roots |-> roots, reports |-> reports]
  /\ UNCHANGED <<registry, info, rooted, runtime, roots, reports, op, acked, born, bounds>>

(* on_undo_redo_post(), resync_after_undo(): the registry and a running    *)
(* validation are not part of what comes back; the scene may be another    *)
(* Python object afterwards.                                               *)
Resync(rt) ==
  LET x == rt.session
      m == info[x].mat
  IN
  /\ rooted' = IF m \in past.roots THEN rooted \cup {x} ELSE rooted \ {x}
  /\ runtime' = IF m \in past.roots THEN [rt EXCEPT !.root = m, !.data = "ready"]
                ELSE [rt EXCEPT !.root = None, !.data = "none"]
  /\ reports' = past.reports
  /\ UNCHANGED <<registry, info, born>>

Undo ==
  /\ undos < MaxUndos
  /\ undos' = undos + 1
  /\ roots' = past.roots
  /\ \/ Active(past.runtime) /\ Resync(past.runtime)
     \/ ~Active(past.runtime)
        /\ Rediscover(past.runtime, registry, past.reports, past.roots, "found")
  /\ \E alive \in BOOLEAN : op' = [op EXCEPT !.alive = alive /\ @]
  /\ UNCHANGED <<past, acked, begins, loads>>

(* on_load_pre(), on_load_post(): validations are cancelled, every session *)
(* is closed, and the file's scene is looked at.                           *)
Load ==
  /\ loads < MaxLoads
  /\ loads' = loads + 1
  /\ roots' = past.roots
  /\ Rediscover(past.runtime, {}, past.reports, past.roots, "found")
  /\ op' = NoOp
  /\ UNCHANGED <<past, acked, begins, undos>>

-----------------------------------------------------------------------------
Next ==
  \/ BeginImport \/ BeginRelink \/ BeginFails
  \/ WorkerEnds \/ TakeResult \/ TakeError \/ LoseScene
  \/ Abandon \/ Cancel
  \/ ClosePackage \/ AcknowledgeRights \/ LoadVisual \/ Remove
  \/ \E m \in Mat : SelectDetached(m)
  \/ Keep \/ Undo \/ Load

Spec == Init /\ [][Next]_vars

(* The worker runs in a thread of its own, and the timer of the operator   *)
(* calls modal() every tenth of a second.                                  *)
FairSpec == Spec /\ WF_vars(WorkerEnds) /\ WF_vars(TakeResult \/ TakeError \/ LoseScene)

-----------------------------------------------------------------------------
(* Media can be extracted or played only from a result that passed, of the *)
(* very source the scene data was made from, and if its rights are         *)
(* restricted only after the user acknowledged them for this session: no   *)
(* undo, file, cancelled validation or new result carries an               *)
(* acknowledgement over.                                                   *)
MediaIsAuthorized ==
  MediaReady(runtime) /\ info[runtime.session].outcome = "restricted"
    => runtime.session \in acked

(* Scene data can always be selected and relinked: no failing result is    *)
(* ever saved for a materialization that is in the scene, where it would   *)
(* be restored in place of the detached data.                              *)
DetachedDataStaysSelectable == \A m \in roots : reports[m] \notin Failed

(* Until something is undone, the scene and the registry agree, whatever   *)
(* is cancelled, fails, is closed, removed or relinked while a validation  *)
(* runs: the scene shows that it is validating only while it is, and every *)
(* live session is the one it shows, so that closing it releases its       *)
(* samples.                                                                *)
SceneIsCurrentUntilUndo ==
  undos = 0 => /\ runtime.state = "validating" => op.on
               /\ registry \subseteq {runtime.session}

(* Every validation that starts ends, with its result, an error or its     *)
(* scene.                                                                  *)
ValidationEnds == op.on ~> ~op.on

(* RELEASE_NOTES.md: "load/save/undo handlers reconcile stale state        *)
(* safely".  A scene that shows a validation then has one.                 *)
ValidatingIsReal == runtime.state = "validating" => op.on

(* panels.py, of a source that differs: "The saved materialization remains *)
(* detached and media-disabled."                                           *)
MismatchStaysDetached ==
  Active(runtime) /\ ~info[runtime.session].matches => runtime.data # "ready"

(* operators.py: "The operation remains cancellable from the VAO sidebar." *)
(* The sidebar and the operator offer it while the state is VALIDATING.    *)
CancellableFromSidebar == op.on /\ op.alive => runtime.state = "validating"
=============================================================================
