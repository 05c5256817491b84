----------------------- MODULE SessionLifecycleProofs -----------------------
(***************************************************************************)
(* What is promised of a session holds for any number of validations, undo *)
(* steps and files.  The argument rests on how a materialization came to   *)
(* be: it is named after the session that was enrolled with it, and what   *)
(* that session's result was never changes.                                *)
(*                                                                         *)
(* The second part is about the file in which a session is shown, and      *)
(* holds for any number of models, markers and things in it.               *)
(***************************************************************************)
EXTENDS SessionLifecycle, SceneAdapter, FiniteSetTheorems, WellFoundedInduction,
        NaturalsInduction, TLAPS

Reports == [Mat -> Outcome \cup {"none"}]

(* What enrolling a session, or rediscovering a scene, changes.            *)
Core ==
  /\ registry \subseteq Session
  /\ info \in [Session -> InfoType]
  /\ rooted \subseteq Session
  /\ runtime \in RuntimeType
  /\ reports \in Reports
  /\ born \in 0..(MaxBegins + MaxUndos + MaxLoads)

LEMMA TypeParts ==
  TypeOK <=> /\ Core
             /\ roots \subseteq Mat /\ op \in OpType /\ past \in SceneType
             /\ acked \subseteq Session
             /\ begins \in 0..MaxBegins /\ undos \in 0..MaxUndos /\ loads \in 0..MaxLoads
BY DEF TypeOK, Core, SceneType, Reports

LEMMA RestoredFits == ASSUME TypeOK PROVE Restored \in RuntimeType
<1>1. runtime \in RuntimeType /\ op.snap \in RuntimeType
  BY DEF TypeOK, SceneType, OpType
<1>2. [runtime EXCEPT !.state = "cancelled", !.media = FALSE] \in RuntimeType
  BY <1>1 DEF RuntimeType, Outcome, Failed
<1> QED
  BY <1>1, <1>2 DEF Restored

LEMMA ClosedFits ==
  ASSUME NEW rt, NEW reps \in Reports
  PROVE  Closed(rt, reps) \in Reports
BY DEF Closed, Reports

LEMMA VacatedFits ==
  ASSUME NEW rt \in RuntimeType
  PROVE  Vacated(rt) \in RuntimeType
BY DEF Vacated, RuntimeType

LEMMA DetachedFits ==
  ASSUME NEW rt \in RuntimeType, NEW m \in Mat
  PROVE  Detached(rt, m) \in RuntimeType
BY DEF Detached, RuntimeType

LEMMA EnrolType ==
  ASSUME Core, NEW reg \in SUBSET Session, NEW reps \in Reports, NEW o \in Outcome,
         NEW m \in Mat \cup {None}, NEW matches \in BOOLEAN, NEW root \in Mat \cup {None},
         NEW shown \in Outcome \cup {"error", "closed"},
         Enrol(reg, reps, o, m, matches, root, shown)
  PROVE  Core'
<1> DEFINE x == born + 1
           mat == IF m = None THEN x ELSE m
<1>1. x \in Session /\ mat \in Mat /\ born' = x
  BY DEF Enrol, Mat
<1>2. info' \in [Session -> InfoType]
  BY <1>1 DEF Enrol, Core, InfoType
<1>3. Populated(x, o, mat, matches, root) \in RuntimeType
  BY <1>1 DEF Populated, RuntimeType, Outcome
<1>4. runtime' \in RuntimeType
  <2> DEFINE p == Populated(x, o, mat, matches, root)
  <2>1. runtime' = [p EXCEPT !.state = shown]
    BY DEF Enrol
  <2> QED
    BY <1>3, <2>1 DEF RuntimeType, Outcome
<1>5. reports' \in Reports
  BY <1>1 DEF Enrol, Reports
<1>6. born' \in 0..(MaxBegins + MaxUndos + MaxLoads)
  BY <1>1, BoundsAreNatural DEF Session
<1> QED
  BY <1>1, <1>2, <1>4, <1>5, <1>6 DEF Enrol, Core

LEMMA RediscoverType ==
  ASSUME Core, NEW rt \in RuntimeType, NEW reg \in SUBSET Session, NEW reps \in Reports,
         NEW rts \in SUBSET Mat, NEW shown \in {"closed", "found"},
         Rediscover(rt, reg, reps, rts, shown)
  PROVE  Core'
<1> DEFINE bare == [rt EXCEPT !.session = None, !.ack = FALSE, !.media = FALSE]
<1>1. CASE Saved(rt, reps) /\ RestoreSaved(rt, reg, reps, shown)
  <2>1. rt.mat \in Mat /\ reps[rt.mat] \in Outcome
    BY <1>1 DEF Saved, Reports, Failed, Outcome, RuntimeType
  <2> QED
    BY <1>1, <2>1, EnrolType DEF RestoreSaved
<1>2. CASE ~Saved(rt, reps)
  <2>1. bare \in RuntimeType /\ Empty \in RuntimeType
    BY DEF RuntimeType, Empty
  <2>2. \A r \in RuntimeType : Shown(r, shown) \in RuntimeType
    BY DEF Shown, RuntimeType
  <2>3. \A m \in rts : Detached(bare, m) \in RuntimeType
    BY <2>1, DetachedFits
  <2>4. runtime' \in RuntimeType
    BY <1>2, <2>1, <2>2, <2>3 DEF Rediscover
  <2> QED
    BY <1>2, <2>4 DEF Rediscover, Core
<1> QED
  BY <1>1, <1>2 DEF Rediscover

LEMMA InstallType ==
  ASSUME TypeOK, NEW rt \in RuntimeType, NEW o \in Outcome,
         NEW m \in Mat \cup {None}, NEW matches \in BOOLEAN, NEW root \in Mat \cup {None},
         NEW shown \in Outcome \cup {"error", "closed"},
         Install(rt, o, m, matches, root, shown)
  PROVE  Core'
BY TypeParts, ClosedFits, EnrolType DEF Install, Core

(* The state keeps its type: every step makes scenes of the right shape.   *)
LEMMA StepType == TypeOK /\ [Next]_vars => TypeOK'
<1> SUFFICES ASSUME TypeOK, [Next]_vars PROVE TypeOK'
  OBVIOUS
<1>a. /\ Core /\ roots \subseteq Mat /\ op \in OpType /\ past \in SceneType
      /\ past.runtime \in RuntimeType /\ past.roots \in SUBSET Mat /\ past.reports \in Reports
      /\ op.source \in Mat \cup {None} /\ op.root \in Mat \cup {None} /\ op.snap \in RuntimeType
      /\ runtime \in RuntimeType /\ runtime.mat \in Mat \cup {None} /\ runtime.root \in Mat \cup {None}
      /\ reports \in Reports /\ registry \in SUBSET Session
  BY TypeParts DEF Core, SceneType, OpType, RuntimeType, Reports
<1>b. Restored \in RuntimeType
  BY RestoredFits
<1>d. /\ Core' /\ roots' \subseteq Mat /\ op' \in OpType /\ past' \in SceneType
      /\ acked' \subseteq Session
      /\ begins' \in 0..MaxBegins /\ undos' \in 0..MaxUndos /\ loads' \in 0..MaxLoads
      => TypeOK'
  BY DEF TypeOK, Core, SceneType, Reports
<1>e. /\ acked \subseteq Session
      /\ begins \in 0..MaxBegins /\ undos \in 0..MaxUndos /\ loads \in 0..MaxLoads
  BY TypeParts
<1>c. NoOp \in OpType
  BY DEF NoOp, OpType, Empty, RuntimeType, Outcome
<1>1. ASSUME NEW source \in {None, runtime.mat}, Begin(source) PROVE TypeOK'
  <2>1. [Restored EXCEPT !.state = "validating", !.media = FALSE] \in RuntimeType
    BY <1>b DEF RuntimeType
  <2>2. op' \in OpType
    BY <1>1, <1>a, <1>b, <1>c DEF Begin, OpType
  <2> QED
    BY <1>1, <1>a, <2>1, <2>2, <1>d, <1>e, BoundsAreNatural DEF Begin, Core
<1>2. CASE BeginFails
  <2>1. Core'
    BY <1>2, <1>b, InstallType DEF BeginFails, Outcome, Failed
  <2> QED
    BY <1>2, <2>1, <1>c, <1>a, <1>d, <1>e, BoundsAreNatural DEF BeginFails
<1>3. CASE WorkerEnds
  <2>1. op' \in OpType
    BY <1>3, <1>a DEF WorkerEnds, OpType
  <2> QED
    BY <1>3, <2>1, <1>a, <1>d, <1>e DEF WorkerEnds, Core, bounds
<1>4. CASE TakeResult
  <2>1. ASSUME NEW exact \in BOOLEAN PROVE Matches(exact) \in BOOLEAN
    BY DEF Matches
  <2>2. Core'
    <3>1. CASE op.source = None
      BY <1>4, <3>1, <1>a, InstallType DEF TakeResult
    <3>2. CASE op.source # None
      BY <1>4, <3>2, <1>a, <2>1, InstallType DEF TakeResult
    <3> QED
      BY <3>1, <3>2
  <2> QED
    BY <1>4, <2>2, <1>c, <1>a, <1>d, <1>e DEF TakeResult, bounds
<1>5. CASE TakeError
  <2>1. Core'
    BY <1>5, <1>a, InstallType DEF TakeError, Outcome, Failed
  <2> QED
    BY <1>5, <2>1, <1>c, <1>a, <1>d, <1>e DEF TakeError, bounds
<1>6. CASE LoseScene
  BY <1>6, <1>c, <1>a, <1>d, <1>e DEF LoseScene, Core, bounds
<1>7. CASE Abandon
  BY <1>7, <1>b, <1>c, <1>a, <1>d, <1>e DEF Abandon, Core, bounds
<1>8. CASE Cancel
  <2>1. op' \in OpType
    BY <1>8, <1>a DEF Cancel, OpType
  <2> QED
    BY <1>8, <2>1, <1>a, <1>d, <1>e DEF Cancel, Core, bounds
<1>9. CASE ClosePackage
  <2>1. Core'
    BY <1>9, <1>a, VacatedFits, ClosedFits, RediscoverType DEF ClosePackage
  <2> QED
    BY <1>9, <2>1, <1>a, <1>d, <1>e DEF ClosePackage, bounds
<1>10. CASE AcknowledgeRights
  <2>1. [runtime EXCEPT !.ack = TRUE] \in RuntimeType
    BY <1>a DEF RuntimeType
  <2>2. runtime' \in RuntimeType
    BY <1>10, <2>1 DEF AcknowledgeRights, MediaReady, Active, RuntimeType
  <2> QED
    BY <1>10, <2>2, <1>a, <1>d, <1>e DEF AcknowledgeRights, Core, Active, bounds
<1>11. CASE LoadVisual
  <2>1. runtime.session \in Session /\ info[runtime.session].mat \in Mat
    BY <1>11, <1>a DEF LoadVisual, MediaReady, Active, Core, InfoType
  <2>2. runtime' \in RuntimeType
    BY <1>11, <1>a, <2>1 DEF LoadVisual, RuntimeType
  <2> QED
    BY <1>11, <1>a, <2>1, <2>2, <1>d, <1>e DEF LoadVisual, Core, bounds
<1>12. CASE Remove
  <2> DEFINE own == Active(runtime) /\ runtime.session \in rooted
             m == IF own THEN info[runtime.session].mat ELSE runtime.mat
             bare == [reports EXCEPT ![m] = "none"]
  <2>1. bare \in Reports
    BY <1>a DEF Reports
  <2>2. roots \ {m} \in SUBSET Mat
    BY <1>a
  <2>3. [runtime EXCEPT !.root = None, !.data = "none"] \in RuntimeType
    BY <1>a DEF RuntimeType
  <2>4. Core'
    <3>1. CASE own
      BY <1>12, <3>1, <1>a, <2>1, <2>3 DEF Remove, Core
    <3>2. CASE Active(runtime) /\ ~own
      BY <1>12, <3>2, <1>a, <2>1 DEF Remove, Core
    <3>3. CASE ~Active(runtime)
      BY <1>12, <3>3, <1>a, <2>1, <2>2, RediscoverType DEF Remove
    <3> QED
      BY <3>1, <3>2, <3>3
  <2> QED
    BY <1>12, <2>4, <1>a, <1>d, <1>e DEF Remove, bounds
<1>13. ASSUME NEW m \in Mat, SelectDetached(m) PROVE TypeOK'
  <2>1. runtime' \in RuntimeType
    BY <1>13, <1>a, VacatedFits, DetachedFits DEF SelectDetached
  <2> QED
    BY <1>13, <1>a, <2>1, ClosedFits, <1>d, <1>e DEF SelectDetached, Core, bounds
<1>14. CASE Keep
  BY <1>14, <1>a, <1>d, <1>e DEF Keep, Core, SceneType, Reports, bounds
<1>15. CASE Undo
  <2>1. ASSUME Active(past.runtime), Resync(past.runtime) PROVE Core'
    <3>1. past.runtime.session \in Session /\ info[past.runtime.session].mat \in Mat
      BY <2>1, <1>a DEF Active, Core, InfoType
    <3>2. runtime' \in RuntimeType
      BY <2>1, <1>a, <3>1 DEF Resync, RuntimeType
    <3> QED
      BY <2>1, <1>a, <3>1, <3>2 DEF Resync, Core
  <2>2. ASSUME ~Active(past.runtime) PROVE Core'
    BY <1>15, <2>2, <1>a, RediscoverType DEF Undo
  <2>3. Core'
    BY <1>15, <2>1, <2>2 DEF Undo
  <2>4. op' \in OpType
    BY <1>15, <1>a DEF Undo, OpType
  <2> QED
    BY <1>15, <1>a, <2>3, <2>4, <1>d, <1>e, BoundsAreNatural DEF Undo
<1>16. CASE Load
  <2>1. Core'
    BY <1>16, <1>a, RediscoverType DEF Load
  <2>2. loads' \in 0..MaxLoads
    BY <1>16, <1>e, BoundsAreNatural DEF Load
  <2> QED
    BY <1>16, <1>a, <1>c, <2>1, <2>2, <1>d, <1>e DEF Load
<1>17. CASE UNCHANGED vars
  BY <1>17, <1>a, <1>d, <1>e DEF vars, Core
<1> QED
  BY <1>1, <1>2, <1>3, <1>4, <1>5, <1>6, <1>7, <1>8, <1>9, <1>10, <1>11, <1>12, <1>13, 
     <1>14, <1>15, <1>16, <1>17 DEF Next, BeginImport, BeginRelink

LEMMA InitType == Init => TypeOK
BY BoundsAreNatural DEF Init, TypeOK, SceneType, RuntimeType, InfoType, OpType, NoOp, Empty,
   NoReports, Mat, Session, None, Outcome, Failed, Passed

-----------------------------------------------------------------------------
(* A materialization that can be in a scene: the session it is named after *)
(* had a result that passed.                                               *)
Good(m, known, b) == m \in 1..b /\ known[m].mat = m /\ known[m].outcome \in Passed

(* What the panel shows belongs together, and the acknowledgement to the   *)
(* session it was given for.                                               *)
Tied(rt, known, b, a) ==
  /\ rt.session \in 1..b \cup {None} /\ rt.mat \in 1..b \cup {None}
  /\ rt.session # None => known[rt.session].mat = rt.mat
  /\ rt.root # None => rt.root = rt.mat /\ Good(rt.root, known, b)
  /\ rt.ack /\ rt.session # None => rt.session \in a

(* Only a materialization whose first result failed has a failing report.  *)
Reported(reps, known, b) ==
  \A m \in Mat : reps[m] \in Failed => m \in 1..b /\ known[m].outcome \in Failed

Lineage ==
  /\ registry \cup rooted \subseteq 1..born
  /\ \A x \in 1..born :
       /\ info[x].mat \in 1..born
       /\ info[x].matches /\ info[x].outcome \in Passed => Good(info[x].mat, info, born)
  /\ \A x \in rooted : Good(info[x].mat, info, born)
  /\ Reported(reports, info, born)
  /\ Tied(runtime, info, born, acked)

Kept ==
  /\ \A m \in past.roots : Good(m, info, born)
  /\ Reported(past.reports, info, born)
  /\ Tied(past.runtime, info, born, acked)

Asked ==
  /\ op.source \in 1..born \cup {None}
  /\ op.root # None => op.root = op.source /\ Good(op.root, info, born)
  /\ Tied(op.snap, info, born, acked)

Sound == Lineage /\ Kept /\ Asked /\ \A m \in roots : Good(m, info, born)

(* Sessions are added, and what they were is not forgotten.                *)
Grows == /\ born' \in Nat /\ born <= born' /\ acked \subseteq acked'
         /\ \A x \in 1..born : info'[x] = info[x]

LEMMA Growth ==
  ASSUME born \in Nat, Grows
  PROVE  /\ \A m : Good(m, info, born) => Good(m, info', born')
         /\ \A rt : Tied(rt, info, born, acked) => Tied(rt, info', born', acked')
         /\ \A reps : Reported(reps, info, born) => Reported(reps, info', born')
<1>1. \A x \in 1..born : x \in 1..born' /\ info'[x] = info[x]
  BY DEF Grows
<1>2. \A m : Good(m, info, born) => Good(m, info', born')
  BY <1>1 DEF Good
<1>3. \A rt : Tied(rt, info, born, acked) => Tied(rt, info', born', acked')
  BY <1>1, <1>2 DEF Tied, Grows
<1> QED
  BY <1>1, <1>2, <1>3 DEF Reported

(* A session is enrolled soundly if a result for a materialization it does *)
(* not make is what the first result for that materialization was.         *)
LEMMA EnrolSound ==
  ASSUME TypeOK, Lineage, acked' = acked,
         NEW reg \in SUBSET registry, NEW reps \in Reports, Reported(reps, info, born),
         NEW o \in Outcome, NEW m \in 1..born \cup {None}, NEW matches \in BOOLEAN,
         NEW root \in Mat \cup {None}, NEW shown,
         m = None => matches,
         m # None /\ matches /\ o \in Passed => Good(m, info, born),
         m # None /\ matches /\ o \in Failed => info[m].outcome \in Failed,
         root # None => root = m /\ Good(m, info, born),
         Enrol(reg, reps, o, m, matches, root, shown)
  PROVE  Grows /\ Lineage'
<1> DEFINE x == born + 1
           mat == IF m = None THEN x ELSE m
<1>1. born \in Nat /\ x \in Session /\ born' = x /\ x \notin 1..born /\ 1..x = 1..born \cup {x}
  BY DEF Enrol, TypeOK
<1>2. /\ info' = [info EXCEPT ![x] = [outcome |-> o, mat |-> mat, matches |-> matches]]
      /\ info \in [Session -> InfoType]
  BY DEF Enrol, TypeOK
<1>3. /\ \A y \in 1..born : info'[y] = info[y]
      /\ info'[x] = [outcome |-> o, mat |-> mat, matches |-> matches]
  BY <1>1, <1>2
<1>4. Grows
  BY <1>1, <1>3 DEF Grows
<1>5. /\ \A n : Good(n, info, born) => Good(n, info', born')
      /\ Reported(reps, info', born')
  BY <1>1, <1>4, Growth
<1>6. o \in Passed /\ matches => Good(mat, info', born')
  BY <1>1, <1>3, <1>5 DEF Good
<1>7. registry' \cup rooted' \subseteq 1..born'
  BY <1>1 DEF Enrol, Lineage
<1>8. \A y \in 1..born' :
        /\ info'[y].mat \in 1..born'
        /\ info'[y].matches /\ info'[y].outcome \in Passed => Good(info'[y].mat, info', born')
  <2>1. ASSUME NEW y \in 1..born
        PROVE  /\ info'[y].mat \in 1..born'
               /\ info'[y].matches /\ info'[y].outcome \in Passed
                    => Good(info'[y].mat, info', born')
    BY <1>1, <1>3, <1>5 DEF Lineage
  <2>2. /\ info'[x].mat \in 1..born'
        /\ info'[x].matches /\ info'[x].outcome \in Passed => Good(info'[x].mat, info', born')
    BY <1>1, <1>3, <1>6
  <2> QED
    BY <2>1, <2>2, <1>1
<1>9. \A y \in rooted' : Good(info'[y].mat, info', born')
  <2>1. \A y \in rooted : y \in 1..born /\ Good(info[y].mat, info, born)
    BY DEF Lineage
  <2>2. \A y \in rooted : Good(info'[y].mat, info', born')
    BY <2>1, <1>3, <1>5
  <2>3. root # None => Good(info'[x].mat, info', born')
    BY <1>3, <1>5, <1>1 DEF Good
  <2> QED
    BY <2>2, <2>3 DEF Enrol
<1>10. Reported(reports', info', born')
  <2>1. ASSUME NEW n \in Mat, reports'[n] \in Failed
        PROVE  n \in 1..born' /\ info'[n].outcome \in Failed
    <3>1. CASE reports'[n] = reps[n]
      BY <2>1, <3>1, <1>5 DEF Reported
    <3>2. CASE matches /\ n = mat /\ reports'[n] = o
      <4>1. CASE m = None
        BY <2>1, <3>2, <4>1, <1>1, <1>3
      <4>2. CASE m # None
        <5>1. m \in 1..born /\ info[m].outcome \in Failed /\ n = m
          BY <2>1, <3>2, <4>2
        <5> QED
          BY <5>1, <1>1, <1>3
      <4> QED
        BY <4>1, <4>2
    <3> QED
      BY <3>1, <3>2, <1>1 DEF Enrol, Reports
  <2> QED
    BY <2>1 DEF Reported
<1>11. Tied(runtime', info', born', acked')
  <2> DEFINE p == Populated(x, o, mat, matches, root)
  <2>1. runtime' = [p EXCEPT !.state = shown]
    BY DEF Enrol
  <2>2. /\ runtime'.session = x /\ runtime'.mat = mat /\ runtime'.root = root
        /\ runtime'.ack = FALSE
    BY <2>1 DEF Populated
  <2> QED
    BY <2>2, <1>1, <1>3, <1>5 DEF Tied
<1> QED
  BY <1>4, <1>7, <1>8, <1>9, <1>10, <1>11 DEF Lineage

LEMMA RediscoverSound ==
  ASSUME TypeOK, Lineage, acked' = acked,
         NEW rt \in RuntimeType, rt.mat \in 1..born \cup {None},
         NEW reg \in SUBSET registry, NEW reps \in Reports, Reported(reps, info, born),
         NEW rts, \A m \in rts : Good(m, info, born),
         NEW shown \in {"closed", "found"},
         Rediscover(rt, reg, reps, rts, shown)
  PROVE  Grows /\ Lineage'
<1> DEFINE bare == [rt EXCEPT !.session = None, !.ack = FALSE, !.media = FALSE]
<1>1. CASE Saved(rt, reps) /\ RestoreSaved(rt, reg, reps, shown)
  <2> DEFINE o == reps[rt.mat]
             s == IF shown = "closed" THEN shown ELSE o
  <2>1. rt.mat \in 1..born /\ rt.mat \in Mat /\ rt.mat # None /\ o \in Failed
    BY <1>1 DEF Saved, RuntimeType
  <2>2. info[rt.mat].outcome \in Failed
    BY <2>1 DEF Reported
  <2>3. o \in Outcome /\ o \notin Passed
    BY <2>1 DEF Outcome, Failed, Passed
  <2>4. Enrol(reg, reps, o, rt.mat, TRUE, None, s)
    BY <1>1 DEF RestoreSaved
  <2> QED
    BY <2>1, <2>2, <2>3, <2>4, EnrolSound
<1>2. CASE ~Saved(rt, reps)
  <2>1. registry' = reg /\ reports' = reps /\ born' = born /\ info' = info /\ rooted' = rooted
    BY <1>2 DEF Rediscover
  <2>2. Grows
    BY <2>1 DEF Grows, TypeOK
  <2>3. Tied(Empty, info, born, acked)
    BY DEF Tied, Empty
  <2>4. ASSUME NEW m \in rts PROVE Tied(Detached(bare, m), info, born, acked)
    <3>1. Good(m, info, born) /\ m \in 1..born
      BY DEF Good
    <3>2. /\ Detached(bare, m).session = None /\ Detached(bare, m).mat = m
          /\ Detached(bare, m).root = m
      BY DEF Detached, RuntimeType
    <3> QED
      BY <3>1, <3>2 DEF Tied
  <2>5. \A r \in RuntimeType : Tied(r, info, born, acked) => Tied(Shown(r, shown), info, born, acked)
    BY DEF Shown, Tied, RuntimeType
  <2>6. Empty \in RuntimeType /\ bare \in RuntimeType
    BY DEF Empty, RuntimeType
  <2>7. \A m \in rts : Detached(bare, m) \in RuntimeType
    <3>1. 1..born \subseteq Mat
      BY BoundsAreNatural DEF TypeOK, Mat, Session
    <3> QED
      BY <3>1, <2>6, DetachedFits DEF Good
  <2>8. Tied(runtime', info, born, acked)
    BY <1>2, <2>3, <2>4, <2>5, <2>6, <2>7 DEF Rediscover
  <2> QED
    BY <2>1, <2>2, <2>8 DEF Lineage
<1> QED
  BY <1>1, <1>2 DEF Rediscover

LEMMA RestoredTied ==
  ASSUME TypeOK, Lineage, Asked
  PROVE  Tied(Restored, info, born, acked)
<1> DEFINE r == [runtime EXCEPT !.state = "cancelled", !.media = FALSE]
<1>1. runtime \in RuntimeType
  BY DEF TypeOK, SceneType
<1>2. Tied(r, info, born, acked)
  BY <1>1 DEF Lineage, Tied, RuntimeType
<1> QED
  BY <1>2 DEF Restored, Lineage, Asked

(* What closing a session leaves of the saved reports.                     *)
LEMMA ClosedReported ==
  ASSUME NEW rt, NEW reps, Reported(reps, info, born)
  PROVE  Reported(Closed(rt, reps), info, born)
BY DEF Reported, Closed, Failed

LEMMA InstallSound ==
  ASSUME TypeOK, Lineage, acked' = acked, NEW rt, NEW o \in Outcome,
         NEW m \in 1..born \cup {None}, NEW matches \in BOOLEAN,
         NEW root \in Mat \cup {None}, NEW shown,
         m = None => matches,
         m # None /\ matches => o \in Passed /\ Good(m, info, born),
         root # None => root = m /\ Good(m, info, born),
         Install(rt, o, m, matches, root, shown)
  PROVE  Grows /\ Lineage'
<1>1. Closed(rt, reports) \in Reports /\ Reported(Closed(rt, reports), info, born)
  BY ClosedFits, ClosedReported, TypeParts DEF Lineage, Core
<1>2. registry \ {rt.session} \in SUBSET registry
  OBVIOUS
<1>3. m # None /\ matches => o \notin Failed
  BY DEF Passed, Failed
<1> QED
  BY <1>1, <1>2, <1>3, EnrolSound DEF Install

LEMMA InitSound == Init => Sound
<1> SUFFICES ASSUME Init PROVE Sound
  OBVIOUS
<1>1. Tied(Empty, info, born, acked) /\ Reported(NoReports, info, born)
  BY DEF Tied, Empty, Reported, NoReports, Failed
<1>2. 1..born = {}
  BY DEF Init
<1> QED
  BY <1>1, <1>2 DEF Init, Sound, Lineage, Kept, Asked, NoOp, None

(* What else has to be shown of a step once sessions only grew.            *)
LEMMA SoundIf ==
  ASSUME TypeOK, Sound, Grows, Lineage',
         past' = past,
         op' \in {op, NoOp} \/ \E alive : op' = [op EXCEPT !.alive = alive],
         \A m \in roots' : m \in roots \/ Good(m, info, born)
  PROVE  Sound'
<1>1. /\ \A m : Good(m, info, born) => Good(m, info', born')
      /\ \A rt : Tied(rt, info, born, acked) => Tied(rt, info', born', acked')
      /\ \A reps : Reported(reps, info, born) => Reported(reps, info', born')
  BY Growth DEF TypeOK
<1>2. Kept'
  BY <1>1 DEF Sound, Kept
<1>3. 1..born \subseteq 1..born'
  BY DEF Grows, TypeOK
<1>4. Tied(NoOp.snap, info', born', acked')
  BY DEF Tied, NoOp, Empty
<1>5. op'.source \in {op.source, None} /\ op'.root \in {op.root, None} /\
      (op'.root # None => op'.source = op.source) /\ op'.snap \in {op.snap, NoOp.snap}
  BY DEF TypeOK, OpType, NoOp
<1>6. Asked'
  BY <1>1, <1>3, <1>4, <1>5 DEF Sound, Asked
<1>7. \A m \in roots' : Good(m, info', born')
  BY <1>1 DEF Sound
<1> QED
  BY <1>2, <1>6, <1>7 DEF Sound

(* A step that enrols nobody and changes no report.                        *)
LEMMA GrowsIfSame ==
  ASSUME TypeOK, UNCHANGED <<info, born>>, acked \subseteq acked'
  PROVE  Grows
BY DEF Grows, TypeOK

LEMMA StepSound == TypeOK /\ Sound /\ [Next]_vars => Sound'
<1> SUFFICES ASSUME TypeOK, Sound, [Next]_vars PROVE Sound'
  OBVIOUS
<1>a. /\ Lineage /\ Kept /\ Asked /\ \A m \in roots : Good(m, info, born)
      /\ registry \in SUBSET registry
  BY DEF Sound
<1>b. /\ runtime \in RuntimeType /\ op \in OpType /\ reports \in Reports /\ acked \subseteq Session
      /\ past.runtime \in RuntimeType /\ past.reports \in Reports /\ op.root \in Mat \cup {None}
      /\ registry \subseteq Session
  BY DEF TypeOK, SceneType, OpType, Reports
<1>c. Tied(runtime, info, born, acked) /\ Tied(Restored, info, born, acked)
  BY <1>a, RestoredTied DEF Lineage
<1>r. Restored \in RuntimeType
  BY RestoredFits
<1>1. ASSUME NEW source \in {None, runtime.mat}, Begin(source) PROVE Sound'
  <2> DEFINE r == [Restored EXCEPT !.state = "validating", !.media = FALSE]
  <2>1. Tied(r, info, born, acked)
    BY <1>c, <1>r DEF Tied, RuntimeType
  <2>2. /\ op'.source = source /\ op'.snap = Restored
        /\ op'.root = IF source = None THEN None ELSE runtime.root
    BY <1>1 DEF Begin, NoOp
  <2>3. Asked'
    BY <1>1, <1>c, <2>2 DEF Begin, Asked, Tied
  <2> QED
    BY <1>1, <1>a, <2>1, <2>3 DEF Begin, Sound, Lineage, Kept
<1>2. CASE BeginFails
  <2>1. Grows /\ Lineage'
    BY <1>2, <1>a, InstallSound DEF BeginFails, Outcome, Failed
  <2> QED
    BY <1>2, <2>1, SoundIf DEF BeginFails
<1>3. CASE WorkerEnds
  <2>1. op'.source = op.source /\ op'.root = op.root /\ op'.snap = op.snap
    BY <1>3, <1>b DEF WorkerEnds, OpType
  <2> QED
    BY <1>3, <1>a, <2>1 DEF WorkerEnds, Sound, Lineage, Kept, Asked, bounds
<1>4. CASE TakeResult
  <2>1. CASE op.source = None
    BY <1>4, <2>1, <1>a, InstallSound, SoundIf DEF TakeResult
  <2>2. CASE op.source # None
    <3>1. PICK exact \in BOOLEAN :
            Install(runtime, op.worker, op.source, Matches(exact), op.root, op.worker)
      BY <1>4, <2>2 DEF TakeResult
    <3>2. Matches(exact) \in BOOLEAN /\ op.worker \in Outcome /\ op.source \in 1..born
      BY <1>4, <2>2, <1>a DEF TakeResult, Matches, Asked
    <3>3. op.root # None => op.root = op.source /\ Good(op.source, info, born)
      BY <1>a DEF Asked
    <3>4. Matches(exact) => op.worker \in Passed /\ Good(op.source, info, born)
      <4>1. \A m \in roots : m # None
        BY <1>a DEF Good, None
      <4> QED
        BY <3>3, <4>1 DEF Matches
    <3>5. acked' = acked
      BY <1>4 DEF TakeResult
    <3>6. Grows /\ Lineage'
      BY <1>a, <1>b, <2>2, <3>1, <3>2, <3>3, <3>4, <3>5, InstallSound
    <3> QED
      BY <1>4, <3>6, SoundIf DEF TakeResult
  <2> QED
    BY <2>1, <2>2
<1>5. CASE TakeError
  <2>1. Grows /\ Lineage'
    BY <1>5, <1>a, InstallSound DEF TakeError, Outcome, Failed
  <2> QED
    BY <1>5, <2>1, SoundIf DEF TakeError
<1>6. CASE LoseScene
  BY <1>6, <1>a, GrowsIfSame, SoundIf DEF LoseScene, Lineage
<1>7. CASE Abandon
  BY <1>7, <1>a, <1>c, GrowsIfSame, SoundIf DEF Abandon, Lineage
<1>8. CASE Cancel
  <2>1. op'.source = op.source /\ op'.root = op.root /\ op'.snap = op.snap
    BY <1>8, <1>b DEF Cancel, OpType
  <2> QED
    BY <1>8, <1>a, <2>1 DEF Cancel, Sound, Lineage, Kept, Asked, bounds
<1>9. CASE ClosePackage
  <2>1. Vacated(runtime) \in RuntimeType /\ Vacated(runtime).mat \in 1..born \cup {None}
    <3>1. Vacated(runtime).mat \in {runtime.mat, None}
      BY <1>b DEF Vacated, RuntimeType
    <3> QED
      BY <3>1, <1>b, <1>c, VacatedFits DEF Tied
  <2>2. Closed(runtime, reports) \in Reports /\ Reported(Closed(runtime, reports), info, born)
    BY <1>a, <1>b, ClosedFits, ClosedReported DEF Lineage
  <2>3. registry \ {runtime.session} \in SUBSET registry
    OBVIOUS
  <2>4. Grows /\ Lineage'
    BY <1>9, <1>a, <2>1, <2>2, <2>3, RediscoverSound DEF ClosePackage
  <2> QED
    BY <1>9, <2>4, SoundIf DEF ClosePackage
<1>10. CASE AcknowledgeRights
  <2>1. Tied(runtime', info, born, acked')
    BY <1>10, <1>b, <1>c DEF AcknowledgeRights, Tied, RuntimeType
  <2>2. Grows
    BY <1>10, GrowsIfSame DEF AcknowledgeRights
  <2>3. Lineage'
    BY <1>10, <1>a, <2>1 DEF AcknowledgeRights, Lineage
  <2> QED
    BY <1>10, <2>2, <2>3, SoundIf DEF AcknowledgeRights
<1>11. CASE LoadVisual
  <2> DEFINE x == runtime.session
             m == info[x].mat
  <2>1. x \in registry /\ info[x].outcome \in Passed /\ info[x].matches
    BY <1>11 DEF LoadVisual, MediaReady, Active
  <2>2. x \in 1..born /\ x # None /\ m = runtime.mat /\ Good(m, info, born)
    BY <1>a, <1>c, <2>1 DEF Lineage, Tied, None
  <2>3. runtime'.root \in {runtime.root, m} /\ runtime'.session = x /\ runtime'.mat = m
        /\ runtime'.ack = runtime.ack
    BY <1>11, <1>b, <2>2 DEF LoadVisual, RuntimeType
  <2>4. Tied(runtime', info, born, acked)
    BY <1>c, <2>2, <2>3 DEF Tied
  <2>5. Lineage'
    BY <1>11, <1>a, <2>2, <2>4 DEF LoadVisual, Lineage
  <2> QED
    BY <1>11, <2>2, <2>5, GrowsIfSame, SoundIf DEF LoadVisual
<1>12. CASE Remove
  <2> DEFINE own == Active(runtime) /\ runtime.session \in rooted
             m == IF own THEN info[runtime.session].mat ELSE runtime.mat
             bare == [reports EXCEPT ![m] = "none"]
             r == [runtime EXCEPT !.root = None, !.data = "none"]
  <2>1. bare \in Reports /\ Reported(bare, info, born)
    BY <1>a, <1>b DEF Lineage, Reported, Reports, Failed
  <2>2. Tied(r, info, born, acked)
    BY <1>b, <1>c DEF Tied, RuntimeType
  <2>3. Grows /\ Lineage'
    <3>1. CASE own
      <4>1. /\ UNCHANGED <<registry, info, born, acked>> /\ reports' = bare
            /\ runtime' \in {r, runtime} /\ rooted' \subseteq rooted
        BY <1>12, <3>1 DEF Remove
      <4>2. Tied(runtime', info, born, acked)
        BY <4>1, <1>c, <2>2
      <4> QED
        BY <4>1, <4>2, <1>a, <2>1, GrowsIfSame DEF Lineage
    <3>2. CASE Active(runtime) /\ ~own
      BY <1>12, <3>2, <1>a, <2>1, GrowsIfSame DEF Remove, Lineage
    <3>3. CASE ~Active(runtime)
      <4>1. runtime.mat \in 1..born \cup {None}
        BY <1>c DEF Tied
      <4> QED
        BY <1>12, <3>3, <4>1, <1>a, <1>b, <2>1, RediscoverSound DEF Remove
    <3> QED
      BY <3>1, <3>2, <3>3
  <2> QED
    BY <1>12, <2>3, SoundIf DEF Remove
<1>13. ASSUME NEW m \in Mat, SelectDetached(m) PROVE Sound'
  <2> DEFINE rt == IF Active(runtime) THEN Vacated(runtime) ELSE runtime
  <2>1. Good(m, info, born)
    BY <1>13, <1>a DEF SelectDetached
  <2>2. rt \in RuntimeType
    BY <1>b, VacatedFits
  <2>3. Detached(rt, m).session = None /\ Detached(rt, m).mat = m /\ Detached(rt, m).root = m
    BY <2>2 DEF Detached, RuntimeType
  <2>4. Tied(runtime', info, born, acked)
    <3>1. runtime' = Detached(rt, m) /\ m \in 1..born
      BY <1>13, <2>1 DEF SelectDetached, Good
    <3> QED
      BY <3>1, <2>1, <2>3 DEF Tied
  <2>5. Reported(reports', info, born)
    BY <1>13, <1>a, ClosedReported DEF SelectDetached, Lineage
  <2>6. Lineage'
    BY <1>13, <1>a, <2>4, <2>5 DEF SelectDetached, Lineage
  <2> QED
    BY <1>13, <2>6, GrowsIfSame, SoundIf DEF SelectDetached
<1>14. CASE Keep
  BY <1>14, <1>a DEF Keep, Sound, Lineage, Kept, Asked, bounds
<1>15. CASE Undo
  <2>1. ASSUME Active(past.runtime), Resync(past.runtime) PROVE Grows /\ Lineage'
    <3> DEFINE rt == past.runtime
               m == info[rt.session].mat
    <3>1. rt.session \in 1..born /\ rt.mat = m /\ (m \in past.roots => Good(m, info, born))
      BY <2>1, <1>a DEF Active, Lineage, Kept, Tied, None
    <3>2. /\ runtime'.session = rt.session /\ runtime'.mat = m /\ runtime'.ack = rt.ack
          /\ runtime'.root = IF m \in past.roots THEN m ELSE None
      BY <2>1, <1>b, <3>1 DEF Resync, RuntimeType
    <3>3. Tied(runtime', info, born, acked)
      BY <1>a, <3>1, <3>2 DEF Kept, Tied
    <3>4. acked' = acked
      BY <1>15 DEF Undo
    <3> QED
      BY <2>1, <1>a, <3>1, <3>3, <3>4, GrowsIfSame DEF Resync, Lineage, Kept
  <2>2. ASSUME ~Active(past.runtime) PROVE Grows /\ Lineage'
    <3>1. past.runtime.mat \in 1..born \cup {None}
      BY <1>a DEF Kept, Tied
    <3> QED
      BY <1>15, <2>2, <3>1, <1>a, <1>b, RediscoverSound DEF Undo, Kept
  <2>3. Grows /\ Lineage'
    BY <1>15, <2>1, <2>2 DEF Undo
  <2> QED
    BY <1>15, <1>a, <2>3, SoundIf DEF Undo, Kept
<1>16. CASE Load
  <2>1. past.runtime.mat \in 1..born \cup {None}
    BY <1>a DEF Kept, Tied
  <2>2. Grows /\ Lineage'
    BY <1>16, <2>1, <1>a, <1>b, RediscoverSound DEF Load, Kept
  <2> QED
    BY <1>16, <1>a, <2>2, SoundIf DEF Load, Kept
<1>17. CASE UNCHANGED vars
  BY <1>17, <1>a DEF vars, Sound, Lineage, Kept, Asked
<1> QED
  BY <1>1, <1>2, <1>3, <1>4, <1>5, <1>6, <1>7, <1>8, <1>9, <1>10, <1>11, <1>12, <1>13,
     <1>14, <1>15, <1>16, <1>17 DEF Next, BeginImport, BeginRelink

-----------------------------------------------------------------------------
(* A scene that shows no live session has no failing report to restore: it *)
(* would become a session beside the one that a cancelled validation       *)
(* brings back.                                                            *)
Clean(rt, reg, reps) == rt.session \notin reg /\ rt.mat # None => reps[rt.mat] \notin Failed

(* A scene that the registry agrees with.                                  *)
Agrees(rt) == registry \subseteq {rt.session} /\ Clean(rt, registry, reports)

Current ==
  undos = 0 => /\ runtime.state = "validating" => op.on
               /\ Agrees(runtime)
               /\ op.on => op.alive /\ op.snap.state # "validating" /\ Agrees(op.snap)

LEMMA GoodIsClean ==
  ASSUME TypeOK, NEW reps, Reported(reps, info, born), NEW m, Good(m, info, born)
  PROVE  reps[m] \notin Failed
<1>1. m \in Mat
  BY BoundsAreNatural DEF TypeOK, Good, Mat, Session
<1> QED
  BY <1>1 DEF Reported, Good, Passed, Failed

LEMMA RestoredAgrees ==
  ASSUME TypeOK, Current, undos = 0
  PROVE  Agrees(Restored) /\ Restored.state # "validating"
<1> DEFINE r == [runtime EXCEPT !.state = "cancelled", !.media = FALSE]
<1>1. r.session = runtime.session /\ r.mat = runtime.mat /\ r.state = "cancelled"
  BY DEF TypeOK, SceneType, RuntimeType
<1>2. Agrees(r)
  BY <1>1 DEF Current, Agrees, Clean
<1> QED
  BY <1>1, <1>2 DEF Restored, Current

(* Closing the live session leaves nothing to restore of it.               *)
LEMMA ClosedIsClean ==
  ASSUME TypeOK, Sound, registry \subseteq {runtime.session},
         NEW rt, Tied(rt, info, born, acked), Clean(rt, registry, reports), rt.mat # None
  PROVE  Closed(runtime, reports)[rt.mat] \notin Failed
<1>1. rt.mat \in Mat /\ "none" \notin Failed
  BY BoundsAreNatural DEF TypeOK, Tied, Mat, Session, Failed
<1>2. Closed(runtime, reports)[rt.mat] \in {"none", reports[rt.mat]}
  BY <1>1 DEF Closed
<1>3. CASE rt.session \notin registry
  BY <1>1, <1>2, <1>3 DEF Clean
<1>4. CASE rt.session \in registry
  <2>1. rt.session = runtime.session /\ rt.session # None /\ rt.mat = info[rt.session].mat
    BY <1>4 DEF Tied, Sound, Lineage, None
  <2>2. CASE runtime.session \in rooted
    <3>1. Good(rt.mat, info, born)
      BY <2>1, <2>2 DEF Sound, Lineage
    <3> QED
      BY <3>1, <1>1, <1>2, GoodIsClean DEF Sound, Lineage
  <2>3. CASE runtime.session \notin rooted
    BY <2>1, <2>3, <1>1, <1>4 DEF Closed, Active
  <2> QED
    BY <2>2, <2>3
<1> QED
  BY <1>3, <1>4

LEMMA EnrolShows ==
  ASSUME NEW reg, NEW reps, NEW o, NEW m, NEW matches, NEW root, NEW shown,
         Enrol(reg, reps, o, m, matches, root, shown)
  PROVE  /\ registry' = reg \cup {runtime'.session}
         /\ runtime'.state = shown
BY DEF Enrol, Populated

LEMMA RediscoverShows ==
  ASSUME TypeOK, Lineage, NEW rt \in RuntimeType, NEW reg, NEW reps, Reported(reps, info, born),
         NEW rts, \A m \in rts : Good(m, info, born), NEW shown \in {"closed", "found"},
         Rediscover(rt, reg, reps, rts, shown)
  PROVE  /\ runtime'.state # "validating"
         /\ \/ Saved(rt, reps) /\ registry' = reg \cup {runtime'.session}
            \/ /\ registry' = reg /\ reports' = reps
               /\ runtime'.session = None
               /\ runtime'.mat # None => reps[runtime'.mat] \notin Failed
<1> DEFINE bare == [rt EXCEPT !.session = None, !.ack = FALSE, !.media = FALSE]
<1>1. CASE Saved(rt, reps) /\ RestoreSaved(rt, reg, reps, shown)
  <2>1. reps[rt.mat] \in Failed /\ "validating" \notin Failed
    BY <1>1 DEF Saved, Failed
  <2> QED
    BY <1>1, <2>1, EnrolShows DEF RestoreSaved
<1>2. CASE ~Saved(rt, reps)
  <2>1. CASE runtime' = Shown(Empty, shown)
    BY <1>2, <2>1 DEF Rediscover, Shown, Empty
  <2>2. ASSUME NEW m \in rts, runtime' = Shown(Detached(bare, m), shown)
        PROVE  /\ runtime'.state # "validating"
               /\ runtime'.session = None /\ reps[runtime'.mat] \notin Failed
    <3> DEFINE d == Detached(bare, m)
    <3>1. /\ d.session = None /\ d.mat = m /\ d.state = "detached"
          /\ [d EXCEPT !.state = shown].session = None /\ [d EXCEPT !.state = shown].mat = m
          /\ [d EXCEPT !.state = shown].state = shown
      BY DEF Detached, RuntimeType
    <3>2. reps[m] \notin Failed
      BY GoodIsClean
    <3> QED
      BY <2>2, <3>1, <3>2 DEF Shown
  <2> QED
    BY <1>2, <2>1, <2>2 DEF Rediscover
<1> QED
  BY <1>1, <1>2 DEF Rediscover

(* A result that becomes the session of the scene ends the validation.     *)
LEMMA InstallCurrent ==
  ASSUME NEW rt, NEW o, NEW m, NEW matches, NEW root, NEW shown \in Outcome \cup {"error"},
         Install(rt, o, m, matches, root, shown), registry \subseteq {rt.session},
         op' = NoOp
  PROVE  Current'
<1>1. registry' = {runtime'.session} /\ runtime'.state = shown
  BY EnrolShows DEF Install
<1>2. shown # "validating" /\ ~op'.on
  BY DEF Outcome, Passed, Failed, NoOp
<1> QED
  BY <1>1, <1>2 DEF Current, Agrees, Clean

LEMMA StepCurrent == TypeOK /\ Sound /\ Current /\ [Next]_vars => Current'
<1> SUFFICES ASSUME TypeOK, Sound, Current, [Next]_vars PROVE Current'
  OBVIOUS
<1> SUFFICES ASSUME undos' = 0, undos = 0 PROVE Current'
  <2>1. undos \in Nat
    BY BoundsAreNatural DEF TypeOK
  <2>2. Undo => undos' = undos + 1
    BY DEF Undo
  <2>3. BeginImport \/ BeginRelink \/ BeginFails \/ Load => undos' = undos
    BY DEF BeginImport, BeginRelink, Begin, BeginFails, Load
  <2>4. WorkerEnds \/ TakeResult \/ TakeError \/ LoseScene \/ Abandon \/ Cancel => undos' = undos
    BY DEF WorkerEnds, TakeResult, TakeError, LoseScene, Abandon, Cancel, bounds
  <2>5. ClosePackage \/ AcknowledgeRights \/ LoadVisual => undos' = undos
    BY DEF ClosePackage, AcknowledgeRights, LoadVisual, bounds
  <2>6. Remove \/ (\E m \in Mat : SelectDetached(m)) \/ Keep => undos' = undos
    BY DEF Remove, SelectDetached, Keep, bounds
  <2>7. UNCHANGED vars => undos' = undos
    BY DEF vars
  <2>8. undos' = undos \/ undos' = undos + 1
    BY Zenon, <2>2, <2>3, <2>4, <2>5, <2>6, <2>7 DEF Next
  <2> QED
    BY <2>1, <2>8 DEF Current
<1>a. /\ Lineage /\ Kept /\ Asked /\ \A m \in roots : Good(m, info, born)
      /\ Agrees(runtime) /\ registry \subseteq {runtime.session}
      /\ runtime.state = "validating" => op.on
      /\ op.on => op.alive /\ op.snap.state # "validating" /\ Agrees(op.snap)
      /\ Agrees(Restored) /\ Restored.state # "validating"
      /\ Tied(runtime, info, born, acked) /\ Tied(op.snap, info, born, acked)
  BY RestoredAgrees DEF Sound, Current, Agrees, Lineage, Asked
<1>b. /\ runtime \in RuntimeType /\ past.runtime \in RuntimeType /\ Restored \in RuntimeType
      /\ op \in OpType
  BY RestoredFits DEF TypeOK, SceneType
<1>c. ~NoOp.on
  BY DEF NoOp
<1>1. ASSUME NEW source, Begin(source) PROVE Current'
  <2>1. op'.on /\ op'.alive /\ op'.snap = Restored
    BY <1>1 DEF Begin, NoOp
  <2>2. runtime'.session = Restored.session /\ runtime'.mat = Restored.mat
    BY <1>1, <1>b DEF Begin, RuntimeType
  <2> QED
    BY <1>1, <1>a, <2>1, <2>2 DEF Begin, Current, Agrees, Clean
<1>2. CASE BeginFails
  BY <1>2, <1>a, InstallCurrent DEF BeginFails, Agrees
<1>3. CASE WorkerEnds
  <2>1. op'.on = op.on /\ op'.alive = op.alive /\ op'.snap = op.snap
    BY <1>3, <1>b DEF WorkerEnds, OpType
  <2> QED
    BY <1>3, <1>a, <2>1 DEF WorkerEnds, Current, Agrees, Clean
<1>4. CASE TakeResult
  BY <1>4, <1>a, InstallCurrent DEF TakeResult
<1>5. CASE TakeError
  BY <1>5, <1>a, InstallCurrent DEF TakeError
<1>6. CASE LoseScene
  BY <1>6, <1>a DEF LoseScene
<1>7. CASE Abandon
  BY <1>7, <1>a, <1>c DEF Abandon, Current, Agrees, Clean
<1>8. CASE Cancel
  <2>1. op'.on = op.on /\ op'.alive = op.alive /\ op'.snap = op.snap
    BY <1>8, <1>b DEF Cancel, OpType
  <2> QED
    BY <1>8, <1>a, <2>1 DEF Cancel, Current, Agrees, Clean
<1>9. CASE ClosePackage
  <2> DEFINE v == Vacated(runtime)
             reps == Closed(runtime, reports)
  <2>1. v \in RuntimeType /\ v.mat \in {runtime.mat, None}
    <3>1. v \in RuntimeType
      BY <1>b, VacatedFits
    <3>2. v.mat \in {runtime.mat, None}
      BY <1>b DEF Vacated, RuntimeType
    <3> QED
      BY <3>1, <3>2
  <2>2. v.mat # None => reps[v.mat] \notin Failed
    BY <1>a, <2>1, ClosedIsClean DEF Agrees
  <2>3. ~Saved(v, reps) /\ Reported(reps, info, born)
    BY <1>a, <2>2, ClosedReported DEF Saved, Lineage
  <2>4. Rediscover(v, registry \ {runtime.session}, reps, roots, "closed") /\ op' = op
    BY <1>9 DEF ClosePackage
  <2>5. /\ runtime'.state # "validating" /\ runtime'.session = None /\ reports' = reps
        /\ registry' = registry \ {runtime.session}
        /\ runtime'.mat # None => reps[runtime'.mat] \notin Failed
    BY <1>a, <2>1, <2>3, <2>4, RediscoverShows
  <2>6. op.on /\ op.snap.mat # None => reps[op.snap.mat] \notin Failed
    BY <1>a, ClosedIsClean DEF Agrees
  <2>7. registry' = {}
    BY <1>a, <2>5
  <2> QED
    BY <1>a, <2>4, <2>5, <2>6, <2>7 DEF Current, Agrees, Clean
<1>10. CASE AcknowledgeRights
  <2>1. runtime'.session = runtime.session /\ runtime'.mat = runtime.mat
        /\ runtime'.state = runtime.state
    BY <1>10, <1>b DEF AcknowledgeRights, RuntimeType
  <2> QED
    BY <1>10, <1>a, <2>1 DEF AcknowledgeRights, Current, Agrees, Clean, bounds
<1>11. CASE LoadVisual
  <2>1. runtime'.session = runtime.session /\ runtime'.mat = runtime.mat
        /\ runtime'.state = runtime.state
    BY <1>11, <1>b DEF LoadVisual, RuntimeType
  <2> QED
    BY <1>11, <1>a, <2>1 DEF LoadVisual, Current, Agrees, Clean, bounds
<1>12. CASE Remove
  <2> DEFINE own == Active(runtime) /\ runtime.session \in rooted
             m == IF own THEN info[runtime.session].mat ELSE runtime.mat
             bare == [reports EXCEPT ![m] = "none"]
  <2>1. /\ \A n \in Mat : reports[n] \notin Failed => bare[n] \notin Failed
        /\ Reported(bare, info, born) /\ 1..born \subseteq Mat
    BY <1>a, BoundsAreNatural DEF TypeOK, SceneType, Failed, Lineage, Reported, Mat, Session
  <2>2. runtime.mat \in Mat \cup {None} /\ op.snap.mat \in Mat \cup {None} /\ op' = op
    BY <1>12, <1>a, <2>1 DEF Remove, Tied
  <2>3. CASE Active(runtime)
    <3>1. UNCHANGED registry /\ reports' = bare
      BY <1>12, <2>3 DEF Remove
    <3>2. runtime'.session = runtime.session /\ runtime'.mat = runtime.mat
          /\ runtime'.state = runtime.state
      BY <1>12, <2>3, <1>b DEF Remove, RuntimeType
    <3> QED
      BY <1>a, <2>1, <2>2, <3>1, <3>2 DEF Current, Agrees, Clean
  <2>4. CASE ~Active(runtime)
    <3>1. Rediscover(runtime, registry, bare, roots \ {m}, "found")
      BY <1>12, <2>4 DEF Remove
    <3>2. registry = {} /\ ~Saved(runtime, bare)
      BY <1>a, <2>1, <2>2, <2>4 DEF Active, Agrees, Clean, Saved
    <3>3. /\ runtime'.state # "validating" /\ reports' = bare /\ registry' = {}
          /\ runtime'.mat # None => bare[runtime'.mat] \notin Failed
      BY <1>a, <1>b, <2>1, <3>1, <3>2, RediscoverShows
    <3> QED
      BY <1>a, <2>1, <2>2, <3>2, <3>3 DEF Current, Agrees, Clean
  <2> QED
    BY <2>3, <2>4
<1>13. ASSUME NEW m \in Mat, SelectDetached(m) PROVE Current'
  <2> DEFINE rt == IF Active(runtime) THEN Vacated(runtime) ELSE runtime
             reps == Closed(runtime, reports)
  <2>1. rt \in RuntimeType
    BY <1>b, VacatedFits
  <2>2. runtime'.mat = m /\ runtime'.state = "detached"
    BY <1>13, <2>1 DEF SelectDetached, Detached, RuntimeType
  <2>3. reports' = reps /\ reps[m] \notin Failed
    BY <1>13, <1>a, GoodIsClean, ClosedReported DEF SelectDetached, Lineage
  <2>4. op.on /\ op.snap.mat # None => reps[op.snap.mat] \notin Failed
    BY <1>a, ClosedIsClean DEF Agrees
  <2>5. registry' = {} /\ op' = op
    BY <1>13, <1>a DEF SelectDetached
  <2> QED
    BY <1>a, <2>2, <2>3, <2>4, <2>5 DEF Current, Agrees, Clean
<1>14. CASE Keep
  BY <1>14, <1>a DEF Keep, Current, Agrees, Clean, bounds
<1>15. ~Undo
  BY DEF Undo
<1>16. CASE Load
  <2>1. /\ Rediscover(past.runtime, {}, past.reports, past.roots, "found")
        /\ op' = NoOp
    BY <1>16 DEF Load
  <2>2. /\ runtime'.state # "validating"
        /\ \/ registry' = {runtime'.session}
           \/ registry' = {} /\ (runtime'.mat # None => reports'[runtime'.mat] \notin Failed)
    <3> DEFINE rt == past.runtime
               reps == past.reports
               rts == past.roots
    <3>1. /\ rt \in RuntimeType /\ Reported(reps, info, born)
          /\ \A m \in rts : Good(m, info, born)
      BY <1>a, <1>b DEF Kept
    <3>2. Rediscover(rt, {}, reps, rts, "found") /\ "found" \in {"closed", "found"}
      BY <2>1
    <3> HIDE DEF rt, reps, rts
    <3>3. /\ runtime'.state # "validating"
          /\ \/ Saved(rt, reps) /\ registry' = {} \cup {runtime'.session}
             \/ /\ registry' = {} /\ reports' = reps
                /\ runtime'.session = None
                /\ runtime'.mat # None => reps[runtime'.mat] \notin Failed
      BY <1>a, <3>1, <3>2, RediscoverShows
    <3> QED
      BY <3>3
  <2> QED
    BY <1>c, <2>1, <2>2 DEF Current, Agrees, Clean
<1>17. CASE UNCHANGED vars
  BY <1>17, <1>a DEF vars, Current, Agrees, Clean
<1> QED
  BY <1>1, <1>2, <1>3, <1>4, <1>5, <1>6, <1>7, <1>8, <1>9, <1>10, <1>11, <1>12, <1>13,
     <1>14, <1>15, <1>16, <1>17 DEF Next, BeginImport, BeginRelink

-----------------------------------------------------------------------------
(* The state keeps its type, whatever is undone and loaded.                *)
THEOREM TypeCorrect == Spec => []TypeOK
BY InitType, StepType, PTL DEF Spec

LEMMA Inductive == Spec => [](TypeOK /\ Sound /\ Current)
<1>1. Init => Current
  BY DEF Init, Current, Agrees, Clean, Empty, NoOp
<1> QED
  BY <1>1, InitType, StepType, InitSound, StepSound, StepCurrent, PTL DEF Spec

(* Media of a restricted package is ready only for a session whose rights  *)
(* the user acknowledged, however many snapshots, files and results lie    *)
(* between: an acknowledgement never leaves its session.                   *)
THEOREM MediaStaysAuthorized == Spec => []MediaIsAuthorized
<1>1. TypeOK /\ Sound => MediaIsAuthorized
  BY DEF TypeOK, Sound, Lineage, Tied, MediaIsAuthorized, MediaReady, Active, Session, None
<1> QED
  BY <1>1, Inductive, PTL

(* A failing report is never saved for what is in the scene.               *)
THEOREM SceneDataStaysSelectable == Spec => []DetachedDataStaysSelectable
<1>1. TypeOK /\ Sound => DetachedDataStaysSelectable
  BY GoodIsClean DEF Sound, Lineage, DetachedDataStaysSelectable
<1> QED
  BY <1>1, Inductive, PTL

(* Until something is undone, a scene shows a validation only while there  *)
(* is one, and no session outlives its place in the scene.                 *)
THEOREM SceneIsCurrent == Spec => []SceneIsCurrentUntilUndo
<1>1. Current => SceneIsCurrentUntilUndo
  BY DEF Current, Agrees, SceneIsCurrentUntilUndo
<1> QED
  BY <1>1, Inductive, PTL

-----------------------------------------------------------------------------
(* The scene.  Its file is a graph of collections, and what the add-on     *)
(* does to it is a composition of a few changes: what each keeps of the    *)
(* file is a lemma of its own, and so is the order it leaves.              *)
Mine(d) == {c \in DOMAIN d.colls : d.colls[c].mine}
TheClaims(d) == Claiming(d, DOMAIN d.colls)

(* Nothing is loose, everything the session made is below one root, and    *)
(* that root is linked into the scene itself.                              *)
Orderly(d) ==
  /\ Original \in DOMAIN d.colls
  /\ \A m \in d.meshes : \E o \in DOMAIN d.objs : d.objs[o].mesh = m
  /\ DOMAIN d.colls \subseteq Subtree(d, Original)
  /\ DOMAIN d.objs = ObjectsOf(d, DOMAIN d.colls)
  /\ \A q, r \in TheClaims(d) : q = r
  /\ TheClaims(d) \subseteq d.colls[Original].kids
  /\ \A c \in Mine(d) : \E r \in TheClaims(d) : c \in Subtree(d, r)

(* Inductive: the file is whole, no scene bears the session's tags, a      *)
(* session does not leave the only scene there is, and until the user      *)
(* works in it the file is in order.                                       *)
SceneInv ==
  /\ SceneTypeOK
  /\ Scenes(data) \cap Mine(data) = {}
  /\ Scenes(data) = {Original} => home = Original
  /\ Untouched => Orderly(data) /\ (live => (hint # NoId <=> TheClaims(data) # {}))

-----------------------------------------------------------------------------
LEMMA NatSetInduction ==
  ASSUME NEW T \in SUBSET Nat, 0 \in T, \A n \in T : n + 1 \in T
  PROVE  T = Nat
<1> DEFINE R == OpToRel(<, Nat)
           U == Nat \ T
<1>1. IsWellFoundedOn(R, Nat)
  BY NatLessThanWellFounded
<1>2. SUFFICES ASSUME U # {} PROVE FALSE
  OBVIOUS
<1>3. PICK n \in U : \A m \in U : <<m, n>> \notin R
  <2> HIDE DEF R, U
  <2>1. U \subseteq Nat
    BY DEF U
  <2> QED
    BY <1>1, <1>2, <2>1, WFMin
<1>4. n # 0 /\ n - 1 \in Nat /\ n - 1 + 1 = n
  OBVIOUS
<1>5. <<n - 1, n>> \in R
  BY <1>4 DEF OpToRel
<1>6. n - 1 \in T
  BY <1>3, <1>4, <1>5
<1> QED
  BY <1>4, <1>6


LEMMA IdIsFinite == IsFiniteSet(Id)
<1> DEFINE Of == Roles \cup Asset \cup Marker \cup {"none", "original", "copy"}
           Num == 1..MaxAlike
<1>1. IsFiniteSet(Kind) /\ IsFiniteSet(Roles) /\ IsFiniteSet({"none", "original", "copy"})
  <2>1. ASSUME NEW a, NEW b, NEW c, NEW d PROVE IsFiniteSet({a, b, c, d})
    <3>1. IsFiniteSet({a})
      BY FS_Singleton
    <3>2. IsFiniteSet({a} \cup {b})
      BY <3>1, FS_AddElement
    <3>3. IsFiniteSet(({a} \cup {b}) \cup {c})
      BY <3>2, FS_AddElement
    <3>4. IsFiniteSet((({a} \cup {b}) \cup {c}) \cup {d})
      BY <3>3, FS_AddElement
    <3>5. {a, b, c, d} = (({a} \cup {b}) \cup {c}) \cup {d}
      OBVIOUS
    <3> QED
      BY <3>4, <3>5
  <2>2. Kind = {"scene", "root", "child", "model"} \cup {"marker", "gate", "stop", "user"}
    BY DEF Kind
  <2>3. {"none", "original", "copy"} = {"none", "original", "copy", "copy"}
    OBVIOUS
  <2> QED
    BY <2>1, <2>2, <2>3, FS_Union DEF Roles
<1>2. IsFiniteSet(Of)
  <2>1. IsFiniteSet(Roles \cup Asset) /\ IsFiniteSet(Marker)
    BY <1>1, SceneAssumption, FS_Union
  <2>2. IsFiniteSet((Roles \cup Asset) \cup Marker)
    BY <2>1, FS_Union
  <2> QED
    BY <1>1, <2>2, FS_Union
<1>3. IsFiniteSet(Num)
  BY SceneAssumption, FS_Interval
<1> HIDE DEF Of, Num
<1>4. IsFiniteSet((Kind \X Of) \X Num)
  BY <1>1, <1>2, <1>3, FS_Product
<1> DEFINE f == [p \in (Kind \X Of) \X Num |-> <<p[1][1], p[1][2], p[2]>>]
<1>5. f \in Surjection((Kind \X Of) \X Num, Kind \X Of \X Num)
  <2>1. f \in [(Kind \X Of) \X Num -> Kind \X Of \X Num]
    OBVIOUS
  <2>2. ASSUME NEW y \in Kind \X Of \X Num PROVE \E x \in (Kind \X Of) \X Num : f[x] = y
    <3>1. <<<<y[1], y[2]>>, y[3]>> \in (Kind \X Of) \X Num /\ y = <<y[1], y[2], y[3]>>
      OBVIOUS
    <3>2. f[<<<<y[1], y[2]>>, y[3]>>] = y
      BY <3>1
    <3> QED
      BY <3>1, <3>2
  <2> QED
    BY <2>1, <2>2 DEF Surjection
<1>6. IsFiniteSet(Kind \X Of \X Num)
  BY <1>4, <1>5, FS_Surjection
<1> QED
  BY <1>6 DEF Id, Of, Num

(* How _collection_subtree() grows.                                        *)
Spreads(f, d, c) ==
  f = [n \in 0..Cardinality(DOMAIN d.colls) |->
         IF n = 0 THEN {c}
         ELSE LET cs == f[n - 1] IN cs \cup UNION {d.colls[x].kids : x \in cs}]

LEMMA SpreadExists ==
  ASSUME NEW d, NEW c, Cardinality(DOMAIN d.colls) \in Nat
  PROVE  \E f : Spreads(f, d, c)
<1> DEFINE Wider(cs) == cs \cup UNION {d.colls[x].kids : x \in cs}
           Value(k, n) == IF n = 0 THEN {c} ELSE Wider(k[n - 1])
           Some(n) == \E k : k = [i \in 0..n |-> Value(k, i)]
           T == {n \in Nat : Some(n)}
<1> HIDE DEF Wider
<1>1. Some(0)
  <2> DEFINE k == [i \in 0..0 |-> {c}]
  <2>1. k = [i \in 0..0 |-> Value(k, i)]
    OBVIOUS
  <2> QED
    BY <2>1
<1>2. ASSUME NEW n \in Nat, Some(n) PROVE Some(n + 1)
  <2>1. PICK k : k = [i \in 0..n |-> Value(k, i)]
    BY <1>2
  <2> DEFINE l == [i \in 0..(n + 1) |-> Value(k, i)]
  <2>2. ASSUME NEW i \in 0..n PROVE l[i] = k[i]
    <3>1. i \in 0..(n + 1) /\ k[i] = Value(k, i)
      BY <2>1
    <3> QED
      BY <3>1
  <2>3. \A i \in 0..(n + 1) : Value(k, i) = Value(l, i)
    <3> SUFFICES ASSUME NEW i \in 0..(n + 1), i # 0 PROVE k[i - 1] = l[i - 1]
      OBVIOUS
    <3>1. i - 1 \in 0..n
      OBVIOUS
    <3> QED
      BY <2>2, <3>1
  <2>4. l = [i \in 0..(n + 1) |-> Value(l, i)]
    BY <2>3
  <2> HIDE DEF l
  <2> QED
    BY <2>4
<1>3. T = Nat
  <2> HIDE DEF Some
  <2>1. T \subseteq Nat /\ 0 \in T /\ \A n \in T : n + 1 \in T
    BY <1>1, <1>2
  <2> HIDE DEF T
  <2> QED
    BY <2>1, NatSetInduction
<1>4. Some(Cardinality(DOMAIN d.colls))
  BY <1>3
<1> QED
  BY <1>4 DEF Spreads, Wider

(* What is below a collection is the least set that holds it and the       *)
(* children of its members: as many rounds as there are collections reach  *)
(* all of it, since a round that adds nothing is the last.                 *)
LEMMA SubtreeIsLeast ==
  ASSUME NEW d, WellFormed(d), NEW c \in DOMAIN d.colls
  PROVE  /\ c \in Subtree(d, c) /\ Subtree(d, c) \subseteq DOMAIN d.colls
         /\ \A x \in Subtree(d, c) : d.colls[x].kids \subseteq Subtree(d, c)
         /\ \A S : c \in S /\ (\A x \in S \cap DOMAIN d.colls : d.colls[x].kids \subseteq S)
                  => Subtree(d, c) \subseteq S
<1> DEFINE D == DOMAIN d.colls
           size == Cardinality(D)
           f == CHOOSE x : Spreads(x, d, c)
           Saturated(S) == \A x \in S : d.colls[x].kids \subseteq S
           T == {n \in Nat : n <= size =>
                   /\ c \in f[n] /\ f[n] \subseteq D
                   /\ Saturated(f[n]) \/ n + 1 <= Cardinality(f[n])
                   /\ \A S : c \in S /\ (\A x \in S \cap D : d.colls[x].kids \subseteq S)
                            => f[n] \subseteq S}
<1>1. IsFiniteSet(D)
  BY IdIsFinite, FS_Subset DEF WellFormed
<1>2. size \in Nat
  BY <1>1, FS_CardinalityType
<1>3. Spreads(f, d, c)
  BY <1>2, SpreadExists
<1>4. Subtree(d, c) = f[size]
  BY DEF Subtree, Spreads
<1> HIDE DEF f
<1>5. f[0] = {c}
  BY <1>2, <1>3 DEF Spreads
<1>6. 0 \in T
  <2>1. Cardinality({c}) = 1
    BY FS_Singleton
  <2> QED
    BY <1>5, <2>1
<1>7. ASSUME NEW n \in T PROVE n + 1 \in T
  <2>1. SUFFICES ASSUME n + 1 <= size
                 PROVE  /\ c \in f[n + 1] /\ f[n + 1] \subseteq D
                        /\ Saturated(f[n + 1]) \/ n + 2 <= Cardinality(f[n + 1])
                        /\ \A S : c \in S /\ (\A x \in S \cap D : d.colls[x].kids \subseteq S)
                                 => f[n + 1] \subseteq S
    OBVIOUS
  <2>2. n \in Nat /\ n <= size /\ n + 1 \in 0..size
    BY <1>2, <2>1
  <2>3. /\ c \in f[n] /\ f[n] \subseteq D
        /\ Saturated(f[n]) \/ n + 1 <= Cardinality(f[n])
        /\ \A S : c \in S /\ (\A x \in S \cap D : d.colls[x].kids \subseteq S) => f[n] \subseteq S
    BY <2>2
  <2>4. f[n + 1] = f[n] \cup UNION {d.colls[x].kids : x \in f[n]}
    <3>1. n + 1 # 0 /\ n + 1 - 1 = n
      BY <2>2
    <3> QED
      BY <1>3, <2>2, <3>1 DEF Spreads
  <2> HIDE DEF T
  <2>5. f[n + 1] \subseteq D
    BY <2>3, <2>4 DEF WellFormed
  <2>6. Saturated(f[n + 1]) \/ n + 2 <= Cardinality(f[n + 1])
    <3>1. CASE Saturated(f[n])
      <4>1. f[n + 1] = f[n]
        BY <2>4, <3>1
      <4> QED
        BY <3>1, <4>1
    <3>2. CASE ~Saturated(f[n])
      <4>1. IsFiniteSet(f[n + 1])
        BY <1>1, <2>5, FS_Subset
      <4>2. f[n] \subseteq f[n + 1] /\ f[n] # f[n + 1]
        BY <2>4, <3>2
      <4>3. IsFiniteSet(f[n]) /\ Cardinality(f[n]) <= Cardinality(f[n + 1]) /\ Cardinality(f[n]) # Cardinality(f[n + 1])
        BY <4>1, <4>2, FS_Subset
      <4>4. Cardinality(f[n]) \in Nat /\ Cardinality(f[n + 1]) \in Nat /\ n + 1 <= Cardinality(f[n])
        BY <2>3, <3>2, <4>1, <4>3, FS_CardinalityType
      <4> QED
        BY <2>2, <4>3, <4>4
    <3> QED
      BY <3>1, <3>2
  <2>7. ASSUME NEW S, c \in S, \A x \in S \cap D : d.colls[x].kids \subseteq S PROVE f[n + 1] \subseteq S
    BY <2>3, <2>4, <2>7
  <2> QED
    BY <2>3, <2>4, <2>5, <2>6, <2>7
<1>8. T = Nat
  <2>1. T \subseteq Nat /\ 0 \in T /\ \A n \in T : n + 1 \in T
    BY <1>6, <1>7
  <2> HIDE DEF T
  <2> QED
    BY <2>1, NatSetInduction
<1>9. /\ c \in f[size] /\ f[size] \subseteq D
      /\ Saturated(f[size]) \/ size + 1 <= Cardinality(f[size])
      /\ \A S : c \in S /\ (\A x \in S \cap D : d.colls[x].kids \subseteq S) => f[size] \subseteq S
  BY <1>2, <1>8
<1>10. Saturated(f[size])
  <2>1. Cardinality(f[size]) <= size /\ Cardinality(f[size]) \in Nat
    BY <1>1, <1>9, FS_Subset, FS_CardinalityType
  <2> QED
    BY <1>2, <1>9, <2>1
<1> QED
  BY <1>4, <1>9, <1>10

-----------------------------------------------------------------------------
(* What changes to bpy.data keep.                                          *)
LEMMA Fields ==
  ASSUME NEW a, NEW b, NEW c
  PROVE  File(a, b, c).colls = a /\ File(a, b, c).objs = b /\ File(a, b, c).meshes = c
BY DEF File

LEMMA NothingIsNoId == NoId \notin Id
BY DEF NoId, Id, Kind

LEMMA FreshIs ==
  ASSUME NEW d, NEW kind, NEW of, Spare(d, kind, of) # {}
  PROVE  /\ New(d, kind, of) \notin Taken(d)
         /\ \E n \in 1..MaxAlike : New(d, kind, of) = <<kind, of, n>>
BY DEF New, Spare

(* Of a kind none of which was added there is as much room as before.      *)
LEMMA RoomStays ==
  ASSUME NEW d, NEW e, NEW X, Taken(e) \subseteq Taken(d) \cup X, NEW kind, NEW of,
         \A n \in 1..MaxAlike : <<kind, of, n>> \notin X,
         Spare(d, kind, of) # {}
  PROVE  Spare(e, kind, of) # {}
<1>1. PICK n \in 1..MaxAlike : <<kind, of, n>> \notin Taken(d)
  BY DEF Spare
<1>2. <<kind, of, n>> \notin Taken(e)
  BY <1>1
<1> QED
  BY <1>2 DEF Spare

(* d is b with something added, none of it in what the user keeps.         *)
Grown(b, d) ==
  /\ DOMAIN b.colls \subseteq DOMAIN d.colls
  /\ DOMAIN b.objs \subseteq DOMAIN d.objs
  /\ b.meshes \subseteq d.meshes
  /\ Scene \cap DOMAIN d.colls \subseteq DOMAIN b.colls
  /\ \A c \in DOMAIN b.colls :
       /\ d.colls[c].kids \cap DOMAIN b.colls = b.colls[c].kids
       /\ d.colls[c].objs \cap DOMAIN b.objs = b.colls[c].objs
       /\ d.colls[c].mine = b.colls[c].mine /\ d.colls[c].root = b.colls[c].root
       /\ d.colls[c].role = b.colls[c].role /\ d.colls[c].of = b.colls[c].of
       /\ c \in Scene \/ b.colls[c].mine \/ d.colls[c] = b.colls[c]
  /\ \A o \in DOMAIN b.objs :
       /\ d.objs[o].mine = b.objs[o].mine /\ d.objs[o].kind = b.objs[o].kind
       /\ d.objs[o].mesh = b.objs[o].mesh /\ d.objs[o].lit = b.objs[o].lit

LEMMA GrownSame == ASSUME NEW d, WellFormed(d) PROVE Grown(d, d)
BY DEF Grown, WellFormed, CollType

LEMMA GrownAgain ==
  ASSUME NEW b, NEW d, NEW e, Grown(b, d), Grown(d, e)
  PROVE  Grown(b, e)
<1>1. ASSUME NEW c \in DOMAIN b.colls
      PROVE  /\ e.colls[c].kids \cap DOMAIN b.colls = b.colls[c].kids
             /\ e.colls[c].objs \cap DOMAIN b.objs = b.colls[c].objs
             /\ e.colls[c].mine = b.colls[c].mine /\ e.colls[c].root = b.colls[c].root
             /\ e.colls[c].role = b.colls[c].role /\ e.colls[c].of = b.colls[c].of
             /\ c \in Scene \/ b.colls[c].mine \/ e.colls[c] = b.colls[c]
  <2>1. c \in DOMAIN d.colls
    BY DEF Grown
  <2> QED
    BY <2>1 DEF Grown
<1>2. ASSUME NEW o \in DOMAIN b.objs
      PROVE  /\ e.objs[o].mine = b.objs[o].mine /\ e.objs[o].kind = b.objs[o].kind
             /\ e.objs[o].mesh = b.objs[o].mesh /\ e.objs[o].lit = b.objs[o].lit
  BY DEF Grown
<1>3. /\ DOMAIN b.colls \subseteq DOMAIN e.colls
      /\ DOMAIN b.objs \subseteq DOMAIN e.objs
      /\ b.meshes \subseteq e.meshes
      /\ Scene \cap DOMAIN e.colls \subseteq DOMAIN b.colls
  BY DEF Grown
<1> QED
  BY <1>1, <1>2, <1>3 DEF Grown

(* Where collections may be put that are not there yet.                    *)
Ours(d, c) == c \in DOMAIN d.colls /\ (c \in Scene \/ d.colls[c].mine)

Recorded(d, new) ==
  /\ DOMAIN new \subseteq Id \ DOMAIN d.colls
  /\ \A c \in DOMAIN new : /\ new[c] \in CollType
                           /\ new[c].kids \subseteq DOMAIN d.colls
                           /\ new[c].objs \subseteq DOMAIN d.objs

AddedColls(d, into, new, e) ==
  /\ e = File(e.colls, e.objs, e.meshes) /\ e.objs = d.objs /\ e.meshes = d.meshes
  /\ DOMAIN e.colls = DOMAIN d.colls \cup DOMAIN new
  /\ e.colls = [c \in DOMAIN d.colls \cup DOMAIN new |-> e.colls[c]]
  /\ \A c \in DOMAIN new : e.colls[c] = new[c]
  /\ \A c \in DOMAIN d.colls \ DOMAIN new :
       e.colls[c] = IF c = into THEN [d.colls[c] EXCEPT !.kids = @ \cup DOMAIN new] ELSE d.colls[c]

LEMMA CollsAre ==
  ASSUME NEW d, NEW into, NEW new
  PROVE  AddedColls(d, into, new, WithColls(d, into, new))
<1> DEFINE e == WithColls(d, into, new)
           D == DOMAIN d.colls \cup DOMAIN new
           F(c) == IF c \in DOMAIN new THEN new[c]
                   ELSE IF c = into THEN [d.colls[c] EXCEPT !.kids = @ \cup DOMAIN new]
                   ELSE d.colls[c]
<1>1. e = File([c \in D |-> F(c)], d.objs, d.meshes)
  BY DEF WithColls
<1>2. e.colls = [c \in D |-> F(c)] /\ e.objs = d.objs /\ e.meshes = d.meshes
  BY <1>1, Fields
<1>3. e = File(e.colls, e.objs, e.meshes)
  BY <1>1, <1>2
<1> HIDE DEF e
<1>4. DOMAIN e.colls = D /\ (\A c \in D : e.colls[c] = F(c)) /\ e.colls = [c \in D |-> e.colls[c]]
  <2> HIDE DEF F
  <2> QED
    BY <1>2
<1>5. AddedColls(d, into, new, e)
  BY <1>2, <1>3, <1>4 DEF AddedColls
<1> QED
  BY <1>5 DEF e

AddedObjects(d, into, new, e) ==
  /\ e = File(e.colls, e.objs, e.meshes)
  /\ e.meshes = (d.meshes \cup {new[o].mesh : o \in DOMAIN new}) \ {NoId}
  /\ DOMAIN e.colls = DOMAIN d.colls /\ DOMAIN e.objs = DOMAIN d.objs \cup DOMAIN new
  /\ e.colls = [c \in DOMAIN d.colls |-> e.colls[c]]
  /\ e.objs = [o \in DOMAIN d.objs \cup DOMAIN new |-> e.objs[o]]
  /\ \A c \in DOMAIN d.colls :
       e.colls[c] = IF c = into THEN [d.colls[c] EXCEPT !.objs = @ \cup DOMAIN new] ELSE d.colls[c]
  /\ \A o \in DOMAIN new : e.objs[o] = new[o]
  /\ \A o \in DOMAIN d.objs \ DOMAIN new : e.objs[o] = d.objs[o]

LEMMA ObjectsAre ==
  ASSUME NEW d, NEW into, NEW new
  PROVE  AddedObjects(d, into, new, WithObjects(d, into, new))
<1> DEFINE e == WithObjects(d, into, new)
           D == DOMAIN d.objs \cup DOMAIN new
           F(c) == IF c = into THEN [d.colls[c] EXCEPT !.objs = @ \cup DOMAIN new] ELSE d.colls[c]
           G(o) == IF o \in DOMAIN new THEN new[o] ELSE d.objs[o]
           M == (d.meshes \cup {new[o].mesh : o \in DOMAIN new}) \ {NoId}
<1>1. e = File([c \in DOMAIN d.colls |-> F(c)], [o \in D |-> G(o)], M)
  BY DEF WithObjects
<1>2. e.colls = [c \in DOMAIN d.colls |-> F(c)] /\ e.objs = [o \in D |-> G(o)] /\ e.meshes = M
  BY <1>1, Fields
<1>3. e = File(e.colls, e.objs, e.meshes)
  BY <1>1, <1>2
<1> HIDE DEF e
<1>4. /\ DOMAIN e.colls = DOMAIN d.colls /\ DOMAIN e.objs = D
      /\ \A c \in DOMAIN d.colls : e.colls[c] = F(c)
      /\ \A o \in D : e.objs[o] = G(o)
      /\ e.colls = [c \in DOMAIN d.colls |-> e.colls[c]]
      /\ e.objs = [o \in D |-> e.objs[o]]
  <2> HIDE DEF F, G
  <2> QED
    BY <1>2
<1>5. AddedObjects(d, into, new, e)
  BY <1>2, <1>3, <1>4 DEF AddedObjects
<1> QED
  BY <1>5 DEF e

LEMMA CollsFit ==
  ASSUME NEW d, WellFormed(d), NEW into, NEW new, Recorded(d, new)
  PROVE  WellFormed(WithColls(d, into, new))
<1> DEFINE e == WithColls(d, into, new)
           D == DOMAIN d.colls \cup DOMAIN new
<1>0. AddedColls(d, into, new, e)
  BY CollsAre
<1> HIDE DEF e
<1>1. /\ e = File(e.colls, e.objs, e.meshes) /\ e.objs = d.objs /\ e.meshes = d.meshes
      /\ DOMAIN e.colls = D
      /\ \A c \in DOMAIN new : e.colls[c] = new[c]
      /\ \A c \in DOMAIN d.colls \ DOMAIN new :
           e.colls[c] = IF c = into THEN [d.colls[c] EXCEPT !.kids = @ \cup DOMAIN new] ELSE d.colls[c]
  BY <1>0 DEF AddedColls
<1>2. e.colls = [c \in D |-> e.colls[c]]
  BY <1>0 DEF AddedColls
<1>3. ASSUME NEW c \in D
      PROVE  e.colls[c] \in CollType /\ e.colls[c].kids \subseteq D /\ e.colls[c].objs \subseteq DOMAIN d.objs
  <2>1. CASE c \in DOMAIN new
    BY <1>1, <2>1 DEF Recorded
  <2>2. CASE c \notin DOMAIN new
    <3>1. /\ d.colls[c] \in CollType /\ d.colls[c].kids \subseteq DOMAIN d.colls
          /\ d.colls[c].objs \subseteq DOMAIN d.objs /\ DOMAIN new \subseteq Id
      BY <2>2 DEF WellFormed, Recorded
    <3>2. CASE c = into
      <4>1. e.colls[c] = [d.colls[c] EXCEPT !.kids = @ \cup DOMAIN new]
        BY <1>1, <2>2, <3>2
      <4> QED
        BY <3>1, <4>1 DEF CollType
    <3>3. CASE c # into
      BY <1>1, <2>2, <3>1, <3>3
    <3> QED
      BY <3>2, <3>3
  <2> QED
    BY <2>1, <2>2
<1>4. D \subseteq Id
  BY DEF WellFormed, Recorded
<1>5. e.colls \in [D -> CollType]
  BY <1>2, <1>3
<1>6. WellFormed(e)
  BY <1>1, <1>3, <1>4, <1>5 DEF WellFormed
<1> QED
  BY <1>6 DEF e

LEMMA CollsGrow ==
  ASSUME NEW d, WellFormed(d), NEW into, NEW new, Recorded(d, new), Ours(d, into),
         DOMAIN new \cap Scene = {}
  PROVE  Grown(d, WithColls(d, into, new))
<1> DEFINE e == WithColls(d, into, new)
<1>0. AddedColls(d, into, new, e)
  BY CollsAre
<1> HIDE DEF e
<1>1. /\ DOMAIN e.colls = DOMAIN d.colls \cup DOMAIN new /\ e.objs = d.objs /\ e.meshes = d.meshes
      /\ \A c \in DOMAIN d.colls \ DOMAIN new :
           e.colls[c] = IF c = into THEN [d.colls[c] EXCEPT !.kids = @ \cup DOMAIN new] ELSE d.colls[c]
  BY <1>0 DEF AddedColls
<1>2. ASSUME NEW c \in DOMAIN d.colls
      PROVE  /\ e.colls[c].kids \cap DOMAIN d.colls = d.colls[c].kids
             /\ e.colls[c].objs \cap DOMAIN d.objs = d.colls[c].objs
             /\ e.colls[c].mine = d.colls[c].mine /\ e.colls[c].root = d.colls[c].root
             /\ e.colls[c].role = d.colls[c].role /\ e.colls[c].of = d.colls[c].of
             /\ c \in Scene \/ d.colls[c].mine \/ e.colls[c] = d.colls[c]
  <2>1. /\ d.colls[c] \in CollType /\ d.colls[c].kids \subseteq DOMAIN d.colls
        /\ d.colls[c].objs \subseteq DOMAIN d.objs
    BY DEF WellFormed
  <2>2. c \notin DOMAIN new /\ DOMAIN new \cap DOMAIN d.colls = {}
    BY DEF Recorded
  <2>3. CASE c = into
    <3>1. e.colls[c] = [d.colls[c] EXCEPT !.kids = @ \cup DOMAIN new]
      BY <1>1, <2>2, <2>3
    <3> QED
      BY <2>1, <2>2, <2>3, <3>1 DEF Ours, CollType
  <2>4. CASE c # into
    <3>1. e.colls[c] = d.colls[c]
      BY <1>1, <2>2, <2>4
    <3> QED
      BY <2>1, <3>1
  <2> QED
    BY <2>3, <2>4
<1>3. Grown(d, e)
  BY <1>1, <1>2 DEF Grown
<1> QED
  BY <1>3 DEF e

Listed(d, new) ==
  /\ DOMAIN new \subseteq Id \ DOMAIN d.objs
  /\ \A o \in DOMAIN new : new[o] \in ObjType

LEMMA ObjectsFit ==
  ASSUME NEW d, WellFormed(d), NEW into \in DOMAIN d.colls, NEW new, Listed(d, new)
  PROVE  WellFormed(WithObjects(d, into, new))
<1> DEFINE e == WithObjects(d, into, new)
           D == DOMAIN d.objs \cup DOMAIN new
<1>0. AddedObjects(d, into, new, e)
  BY ObjectsAre
<1> HIDE DEF e
<1>1. /\ e = File(e.colls, e.objs, e.meshes)
      /\ e.meshes = (d.meshes \cup {new[o].mesh : o \in DOMAIN new}) \ {NoId}
      /\ DOMAIN e.colls = DOMAIN d.colls /\ DOMAIN e.objs = D
      /\ \A c \in DOMAIN d.colls :
           e.colls[c] = IF c = into THEN [d.colls[c] EXCEPT !.objs = @ \cup DOMAIN new] ELSE d.colls[c]
      /\ \A o \in DOMAIN new : e.objs[o] = new[o]
      /\ \A o \in DOMAIN d.objs \ DOMAIN new : e.objs[o] = d.objs[o]
  BY <1>0 DEF AddedObjects
<1>2. e.colls = [c \in DOMAIN d.colls |-> e.colls[c]] /\ e.objs = [o \in D |-> e.objs[o]]
  BY <1>0 DEF AddedObjects
<1>3. ASSUME NEW c \in DOMAIN d.colls
      PROVE  e.colls[c] \in CollType /\ e.colls[c].kids \subseteq DOMAIN d.colls /\ e.colls[c].objs \subseteq D
  <2>1. /\ d.colls[c] \in CollType /\ d.colls[c].kids \subseteq DOMAIN d.colls
        /\ d.colls[c].objs \subseteq DOMAIN d.objs /\ DOMAIN new \subseteq Id
    BY DEF WellFormed, Listed
  <2>2. CASE c = into
    <3>1. e.colls[c] = [d.colls[c] EXCEPT !.objs = @ \cup DOMAIN new]
      BY <1>1, <2>2
    <3> QED
      BY <2>1, <3>1 DEF CollType
  <2>3. CASE c # into
    BY <1>1, <2>1, <2>3
  <2> QED
    BY <2>2, <2>3
<1>4. ASSUME NEW o \in D PROVE e.objs[o] \in ObjType /\ e.objs[o].mesh \in e.meshes \cup {NoId}
  <2>1. CASE o \in DOMAIN new
    BY <1>1, <2>1 DEF Listed
  <2>2. CASE o \notin DOMAIN new
    BY <1>1, <2>2 DEF WellFormed
  <2> QED
    BY <2>1, <2>2
<1>5. e.meshes \subseteq Id
  BY <1>1 DEF WellFormed, Listed, ObjType
<1>6. D \subseteq Id /\ DOMAIN d.colls \subseteq Id
  BY DEF WellFormed, Listed
<1>7. e.colls \in [DOMAIN d.colls -> CollType]
  BY <1>2, <1>3
<1>8. e.objs \in [D -> ObjType]
  BY <1>2, <1>4
<1>9. WellFormed(e)
  BY <1>1, <1>3, <1>4, <1>5, <1>6, <1>7, <1>8 DEF WellFormed
<1> QED
  BY <1>9 DEF e

LEMMA ObjectsGrow ==
  ASSUME NEW d, WellFormed(d), NEW into, NEW new, Listed(d, new), Ours(d, into)
  PROVE  Grown(d, WithObjects(d, into, new))
<1> DEFINE e == WithObjects(d, into, new)
<1>0. AddedObjects(d, into, new, e)
  BY ObjectsAre
<1> HIDE DEF e
<1>1. /\ e.meshes = (d.meshes \cup {new[o].mesh : o \in DOMAIN new}) \ {NoId}
      /\ DOMAIN e.colls = DOMAIN d.colls /\ DOMAIN e.objs = DOMAIN d.objs \cup DOMAIN new
      /\ \A c \in DOMAIN d.colls :
           e.colls[c] = IF c = into THEN [d.colls[c] EXCEPT !.objs = @ \cup DOMAIN new] ELSE d.colls[c]
      /\ \A o \in DOMAIN d.objs \ DOMAIN new : e.objs[o] = d.objs[o]
  BY <1>0 DEF AddedObjects
<1>2. DOMAIN new \cap DOMAIN d.objs = {}
  BY DEF Listed
<1>3. ASSUME NEW c \in DOMAIN d.colls
      PROVE  /\ e.colls[c].kids \cap DOMAIN d.colls = d.colls[c].kids
             /\ e.colls[c].objs \cap DOMAIN d.objs = d.colls[c].objs
             /\ e.colls[c].mine = d.colls[c].mine /\ e.colls[c].root = d.colls[c].root
             /\ e.colls[c].role = d.colls[c].role /\ e.colls[c].of = d.colls[c].of
             /\ c \in Scene \/ d.colls[c].mine \/ e.colls[c] = d.colls[c]
  <2>1. /\ d.colls[c] \in CollType /\ d.colls[c].kids \subseteq DOMAIN d.colls
        /\ d.colls[c].objs \subseteq DOMAIN d.objs
    BY DEF WellFormed
  <2>3. CASE c = into
    <3>1. e.colls[c] = [d.colls[c] EXCEPT !.objs = @ \cup DOMAIN new]
      BY <1>1, <2>3
    <3> QED
      BY <1>2, <2>1, <2>3, <3>1 DEF Ours, CollType
  <2>4. CASE c # into
    <3>1. e.colls[c] = d.colls[c]
      BY <1>1, <2>4
    <3> QED
      BY <2>1, <3>1
  <2> QED
    BY <2>3, <2>4
<1>4. \A o \in DOMAIN d.objs : e.objs[o] = d.objs[o]
  BY <1>1, <1>2
<1>5. d.meshes \subseteq e.meshes
  BY <1>1, NothingIsNoId DEF WellFormed
<1>6. Grown(d, e)
  BY <1>1, <1>3, <1>4, <1>5 DEF Grown
<1> QED
  BY <1>6 DEF e

Trimmed(d, cs, os, e) ==
  /\ e = File(e.colls, e.objs, e.meshes) /\ e.meshes = d.meshes
  /\ DOMAIN e.colls = DOMAIN d.colls \ cs /\ DOMAIN e.objs = DOMAIN d.objs \ os
  /\ e.colls = [c \in DOMAIN d.colls \ cs |-> e.colls[c]]
  /\ e.objs = [o \in DOMAIN d.objs \ os |-> d.objs[o]]
  /\ \A c \in DOMAIN d.colls \ cs : e.colls[c] = [d.colls[c] EXCEPT !.kids = @ \ cs, !.objs = @ \ os]

LEMMA WithoutIs ==
  ASSUME NEW d, NEW cs, NEW os
  PROVE  Trimmed(d, cs, os, Without(d, cs, os))
<1> DEFINE e == Without(d, cs, os)
           F(c) == [d.colls[c] EXCEPT !.kids = @ \ cs, !.objs = @ \ os]
<1>1. e = File([c \in DOMAIN d.colls \ cs |-> F(c)], [o \in DOMAIN d.objs \ os |-> d.objs[o]], d.meshes)
  BY DEF Without
<1>2. /\ e.colls = [c \in DOMAIN d.colls \ cs |-> F(c)]
      /\ e.objs = [o \in DOMAIN d.objs \ os |-> d.objs[o]] /\ e.meshes = d.meshes
  <2> HIDE DEF F, e
  <2> QED
    BY <1>1, Fields
<1>3. e = File(e.colls, e.objs, e.meshes)
  BY <1>1, <1>2
<1> HIDE DEF e
<1>4. /\ DOMAIN e.colls = DOMAIN d.colls \ cs /\ DOMAIN e.objs = DOMAIN d.objs \ os
      /\ \A c \in DOMAIN d.colls \ cs : e.colls[c] = F(c)
      /\ e.colls = [c \in DOMAIN d.colls \ cs |-> e.colls[c]]
  <2> HIDE DEF F
  <2> QED
    BY <1>2
<1>5. Trimmed(d, cs, os, e)
  BY <1>2, <1>3, <1>4 DEF Trimmed
<1> QED
  BY <1>5 DEF e

LEMMA WithoutFits ==
  ASSUME NEW d, WellFormed(d), NEW cs, NEW os
  PROVE  WellFormed(Without(d, cs, os))
<1> DEFINE e == Without(d, cs, os)
<1>1. Trimmed(d, cs, os, e)
  BY WithoutIs
<1> HIDE DEF e
<1>2. ASSUME NEW c \in DOMAIN d.colls \ cs
      PROVE  /\ e.colls[c] \in CollType /\ e.colls[c].kids \subseteq DOMAIN d.colls \ cs
             /\ e.colls[c].objs \subseteq DOMAIN d.objs \ os
  <2>1. /\ d.colls[c] \in CollType /\ d.colls[c].kids \subseteq DOMAIN d.colls
        /\ d.colls[c].objs \subseteq DOMAIN d.objs
    BY DEF WellFormed
  <2>2. e.colls[c] = [d.colls[c] EXCEPT !.kids = @ \ cs, !.objs = @ \ os]
    BY <1>1 DEF Trimmed
  <2> QED
    BY <2>1, <2>2 DEF CollType
<1>3. e.colls \in [DOMAIN d.colls \ cs -> CollType]
  BY <1>1, <1>2 DEF Trimmed
<1>4. \A o \in DOMAIN d.objs \ os : e.objs[o] = d.objs[o]
  BY <1>1 DEF Trimmed
<1>5. e.objs \in [DOMAIN d.objs \ os -> ObjType]
  BY <1>1, <1>4 DEF Trimmed, WellFormed
<1>6. WellFormed(e)
  BY <1>1, <1>2, <1>3, <1>4, <1>5 DEF Trimmed, WellFormed
<1> QED
  BY <1>6 DEF e

(* Taking back what was added.                                             *)
LEMMA WithoutGrows ==
  ASSUME NEW b, NEW d, WellFormed(b), WellFormed(d), Grown(b, d), NEW cs, NEW os,
         cs \cap DOMAIN b.colls = {}, os \cap DOMAIN b.objs = {}
  PROVE  Grown(b, Without(d, cs, os))
<1> DEFINE e == Without(d, cs, os)
<1>1. Trimmed(d, cs, os, e)
  BY WithoutIs
<1> HIDE DEF e
<1>2. ASSUME NEW c \in DOMAIN b.colls
      PROVE  /\ e.colls[c].kids \cap DOMAIN b.colls = b.colls[c].kids
             /\ e.colls[c].objs \cap DOMAIN b.objs = b.colls[c].objs
             /\ e.colls[c].mine = b.colls[c].mine /\ e.colls[c].root = b.colls[c].root
             /\ e.colls[c].role = b.colls[c].role /\ e.colls[c].of = b.colls[c].of
             /\ c \in Scene \/ b.colls[c].mine \/ e.colls[c] = b.colls[c]
  <2>1. c \in DOMAIN d.colls \ cs
    BY DEF Grown
  <2>2. e.colls[c] = [d.colls[c] EXCEPT !.kids = @ \ cs, !.objs = @ \ os]
    BY <1>1, <2>1 DEF Trimmed
  <2>3. d.colls[c] \in CollType /\ b.colls[c] \in CollType
    BY <2>1 DEF WellFormed
  <2>4. /\ e.colls[c].kids = d.colls[c].kids \ cs /\ e.colls[c].objs = d.colls[c].objs \ os
        /\ e.colls[c].mine = d.colls[c].mine /\ e.colls[c].root = d.colls[c].root
        /\ e.colls[c].role = d.colls[c].role /\ e.colls[c].of = d.colls[c].of
    BY <2>2, <2>3 DEF CollType
  <2>5. ASSUME d.colls[c] = b.colls[c] PROVE e.colls[c] = b.colls[c]
    <3>1. b.colls[c].kids \ cs = b.colls[c].kids /\ b.colls[c].objs \ os = b.colls[c].objs
      BY DEF WellFormed
    <3>2. e.colls[c] = [kids |-> b.colls[c].kids, objs |-> b.colls[c].objs, mine |-> b.colls[c].mine,
                        root |-> b.colls[c].root, role |-> b.colls[c].role, of |-> b.colls[c].of]
      BY <2>2, <2>3, <2>5, <3>1 DEF CollType
    <3> QED
      BY <2>3, <3>2 DEF CollType
  <2> QED
    BY <2>4, <2>5 DEF Grown
<1>3. /\ DOMAIN b.colls \subseteq DOMAIN e.colls
      /\ DOMAIN b.objs \subseteq DOMAIN e.objs
      /\ b.meshes \subseteq e.meshes
      /\ Scene \cap DOMAIN e.colls \subseteq DOMAIN b.colls
      /\ \A o \in DOMAIN b.objs : e.objs[o] = d.objs[o]
  BY <1>1 DEF Trimmed, Grown
<1>4. Grown(b, e)
  BY <1>2, <1>3 DEF Grown
<1> QED
  BY <1>4 DEF e

LEMMA UnusedFit ==
  ASSUME NEW d, WellFormed(d), NEW ms
  PROVE  /\ WellFormed(WithoutUnused(d, ms))
         /\ WithoutUnused(d, ms).colls = d.colls /\ WithoutUnused(d, ms).objs = d.objs
         /\ WithoutUnused(d, ms).meshes = d.meshes \ {m \in ms : \A o \in DOMAIN d.objs : d.objs[o].mesh # m}
<1> DEFINE e == WithoutUnused(d, ms)
           M == d.meshes \ {m \in ms : \A o \in DOMAIN d.objs : d.objs[o].mesh # m}
<1>1. e = File(d.colls, d.objs, M) /\ e.colls = d.colls /\ e.objs = d.objs /\ e.meshes = M
  BY Fields DEF WithoutUnused
<1> HIDE DEF e
<1>2. \A o \in DOMAIN d.objs : d.objs[o].mesh \in M \cup {NoId}
  BY DEF WellFormed
<1>3. WellFormed(e)
  BY <1>1, <1>2 DEF WellFormed
<1> QED
  BY <1>1, <1>3 DEF e

LEMMA UnusedGrow ==
  ASSUME NEW b, NEW d, WellFormed(d), Grown(b, d), NEW ms, ms \cap b.meshes = {}
  PROVE  Grown(b, WithoutUnused(d, ms))
<1>1. /\ WithoutUnused(d, ms).colls = d.colls /\ WithoutUnused(d, ms).objs = d.objs
      /\ b.meshes \subseteq WithoutUnused(d, ms).meshes
  BY UnusedFit DEF Grown
<1> QED
  BY <1>1 DEF Grown

(* Only what is shown or tagged of objects changes.                        *)
Recoloured(d, e) ==
  /\ e = File(d.colls, e.objs, d.meshes)
  /\ e.objs \in [DOMAIN d.objs -> ObjType]
  /\ \A o \in DOMAIN d.objs : /\ e.objs[o].mesh = d.objs[o].mesh /\ e.objs[o].mine = d.objs[o].mine
                              /\ e.objs[o].kind = d.objs[o].kind

LEMMA RecolouredIs ==
  ASSUME NEW d, NEW e, Recoloured(d, e)
  PROVE  e.colls = d.colls /\ e.meshes = d.meshes /\ DOMAIN e.objs = DOMAIN d.objs
BY Fields DEF Recoloured

LEMMA RecolouredFits ==
  ASSUME NEW d, WellFormed(d), NEW e, Recoloured(d, e)
  PROVE  WellFormed(e)
<1>1. e.colls = d.colls /\ e.meshes = d.meshes /\ DOMAIN e.objs = DOMAIN d.objs
  BY RecolouredIs
<1>2. e = File(e.colls, e.objs, e.meshes)
  BY <1>1 DEF Recoloured
<1> QED
  BY <1>1, <1>2 DEF WellFormed, Recoloured

LEMMA RetagsRecolour ==
  ASSUME NEW d, WellFormed(d), NEW r
  PROVE  Recoloured(d, Retagged(d, r)) /\ Grown(d, Retagged(d, r))
<1> DEFINE e == Retagged(d, r)
           os == ObjectsOf(d, Subtree(d, r))
           F(o) == IF o \in os /\ d.objs[o].kind \in Controls THEN [d.objs[o] EXCEPT !.cur = TRUE]
                   ELSE d.objs[o]
<1>1. e = File(d.colls, [o \in DOMAIN d.objs |-> F(o)], d.meshes)
  BY DEF Retagged
<1> HIDE DEF e, os
<1>2. e.objs = [o \in DOMAIN d.objs |-> F(o)]
  BY <1>1, Fields
<1>3. ASSUME NEW o \in DOMAIN d.objs
      PROVE  /\ F(o) \in ObjType /\ F(o).mesh = d.objs[o].mesh /\ F(o).mine = d.objs[o].mine
             /\ F(o).kind = d.objs[o].kind /\ F(o).lit = d.objs[o].lit
  <2>1. d.objs[o] \in ObjType
    BY DEF WellFormed
  <2> QED
    BY <2>1 DEF ObjType
<1> HIDE DEF F
<1>4. \A o \in DOMAIN d.objs : e.objs[o] = F(o)
  BY <1>2
<1>5. Recoloured(d, e)
  BY <1>1, <1>2, <1>3, <1>4 DEF Recoloured
<1>6. e.colls = d.colls /\ e.meshes = d.meshes /\ DOMAIN e.objs = DOMAIN d.objs
  BY <1>5, RecolouredIs
<1>7. \A o \in DOMAIN d.objs : e.objs[o].lit = d.objs[o].lit
  BY <1>3, <1>4
<1>8. Grown(d, e)
  BY <1>5, <1>6, <1>7 DEF Grown, Recoloured, WellFormed, CollType
<1> QED
  BY <1>5, <1>8 DEF e

LEMMA UpdatesRecolour ==
  ASSUME NEW d, WellFormed(d), NEW on \in BOOLEAN
  PROVE  Recoloured(d, Updated(d, on))
<1> DEFINE e == Updated(d, on)
           board == d.colls[ChildOf(d, TheRoot(d), "Controls")].objs
           F(o) == IF o \in board /\ d.objs[o].cur /\ d.objs[o].kind = "stop"
                   THEN [d.objs[o] EXCEPT !.lit = on] ELSE d.objs[o]
<1>1. CASE e = d
  BY <1>1 DEF Recoloured, WellFormed
<1>2. CASE e = File(d.colls, [o \in DOMAIN d.objs |-> F(o)], d.meshes)
  <2> HIDE DEF e, board
  <2>1. e.objs = [o \in DOMAIN d.objs |-> F(o)]
    BY <1>2, Fields
  <2>2. ASSUME NEW o \in DOMAIN d.objs
        PROVE  /\ F(o) \in ObjType /\ F(o).mesh = d.objs[o].mesh /\ F(o).mine = d.objs[o].mine
               /\ F(o).kind = d.objs[o].kind
    <3>1. d.objs[o] \in ObjType
      BY DEF WellFormed
    <3> QED
      BY <3>1 DEF ObjType
  <2> HIDE DEF F
  <2>3. \A o \in DOMAIN d.objs : e.objs[o] = F(o)
    BY <2>1
  <2>4. Recoloured(d, e)
    BY <1>2, <2>1, <2>2, <2>3 DEF Recoloured
  <2> QED
    BY <2>4 DEF e
<1> QED
  BY <1>1, <1>2 DEF Updated

LEMMA UntaggedRecolours ==
  ASSUME NEW d, WellFormed(d)
  PROVE  Recoloured(d, Untagged(d))
<1> DEFINE e == Untagged(d)
           F(o) == [d.objs[o] EXCEPT !.cur = FALSE]
<1>1. e = File(d.colls, [o \in DOMAIN d.objs |-> F(o)], d.meshes)
  BY DEF Untagged
<1> HIDE DEF e
<1>2. e.objs = [o \in DOMAIN d.objs |-> F(o)]
  BY <1>1, Fields
<1>3. ASSUME NEW o \in DOMAIN d.objs
      PROVE  /\ F(o) \in ObjType /\ F(o).mesh = d.objs[o].mesh /\ F(o).mine = d.objs[o].mine
             /\ F(o).kind = d.objs[o].kind
  <2>1. d.objs[o] \in ObjType
    BY DEF WellFormed
  <2> QED
    BY <2>1 DEF ObjType
<1> HIDE DEF F
<1>4. \A o \in DOMAIN d.objs : e.objs[o] = F(o)
  BY <1>2
<1>5. Recoloured(d, e)
  BY <1>1, <1>2, <1>3, <1>4 DEF Recoloured
<1> QED
  BY <1>5 DEF e

(* _rollback() takes back all that was added.                              *)
LEMMA RollbackRestores ==
  ASSUME NEW b, NEW d, WellFormed(b), WellFormed(d), Grown(b, d)
  PROVE  WellFormed(RolledBack(d, b)) /\ Untagged(RolledBack(d, b)) = Untagged(b)
         /\ Recoloured(b, RolledBack(d, b))
<1> DEFINE cs == DOMAIN d.colls \ DOMAIN b.colls
           os == DOMAIN d.objs \ DOMAIN b.objs
           w == Without(d, cs, os)
           e == RolledBack(d, b)
<1>1. WellFormed(w) /\ Trimmed(d, cs, os, w)
  BY WithoutFits, WithoutIs
<1>2. e = WithoutUnused(w, d.meshes \ b.meshes)
  BY DEF RolledBack
<1> HIDE DEF w, e
<1>3. /\ WellFormed(e) /\ e.colls = w.colls /\ e.objs = w.objs
      /\ e.meshes = w.meshes \ {m \in d.meshes \ b.meshes : \A o \in DOMAIN w.objs : w.objs[o].mesh # m}
  BY <1>1, <1>2, UnusedFit
<1>4. DOMAIN d.colls \ cs = DOMAIN b.colls /\ DOMAIN d.objs \ os = DOMAIN b.objs
  BY DEF Grown
<1>5. w.colls = b.colls
  <2>1. ASSUME NEW c \in DOMAIN b.colls PROVE w.colls[c] = b.colls[c]
    <3>1. w.colls[c] = [d.colls[c] EXCEPT !.kids = @ \ cs, !.objs = @ \ os]
      BY <1>1, <1>4 DEF Trimmed
    <3>2. d.colls[c] \in CollType /\ b.colls[c] \in CollType
      BY <1>4 DEF WellFormed
    <3>3. d.colls[c].kids \subseteq DOMAIN d.colls /\ d.colls[c].objs \subseteq DOMAIN d.objs
      BY <1>4 DEF WellFormed
    <3>4. d.colls[c].kids \ cs = b.colls[c].kids /\ d.colls[c].objs \ os = b.colls[c].objs
      BY <3>3 DEF Grown
    <3>5. /\ d.colls[c].mine = b.colls[c].mine /\ d.colls[c].root = b.colls[c].root
          /\ d.colls[c].role = b.colls[c].role /\ d.colls[c].of = b.colls[c].of
      BY DEF Grown
    <3>6. w.colls[c] = [kids |-> b.colls[c].kids, objs |-> b.colls[c].objs, mine |-> b.colls[c].mine,
                        root |-> b.colls[c].root, role |-> b.colls[c].role, of |-> b.colls[c].of]
      BY <3>1, <3>2, <3>4, <3>5 DEF CollType
    <3> QED
      BY <3>2, <3>6 DEF CollType
  <2>2. w.colls = [c \in DOMAIN b.colls |-> w.colls[c]]
    BY <1>1, <1>4 DEF Trimmed
  <2>3. b.colls = [c \in DOMAIN b.colls |-> b.colls[c]]
    BY DEF WellFormed
  <2> QED
    BY <2>1, <2>2, <2>3
<1>6. w.objs = [o \in DOMAIN b.objs |-> d.objs[o]]
  BY <1>1, <1>4 DEF Trimmed
<1>7. e.meshes = b.meshes
  <2>1. \A o \in DOMAIN w.objs : w.objs[o].mesh \in b.meshes \cup {NoId}
    BY <1>6 DEF Grown, WellFormed
  <2>2. w.meshes = d.meshes /\ b.meshes \subseteq d.meshes /\ NoId \notin d.meshes
    BY <1>1, NothingIsNoId DEF Trimmed, Grown, WellFormed
  <2> QED
    BY <1>3, <2>1, <2>2
<1>8. [o \in DOMAIN e.objs |-> [e.objs[o] EXCEPT !.cur = FALSE]]
        = [o \in DOMAIN b.objs |-> [b.objs[o] EXCEPT !.cur = FALSE]]
  <2>1. DOMAIN e.objs = DOMAIN b.objs
    BY <1>3, <1>6
  <2>2. ASSUME NEW o \in DOMAIN b.objs PROVE [e.objs[o] EXCEPT !.cur = FALSE] = [b.objs[o] EXCEPT !.cur = FALSE]
    <3>1. e.objs[o] = d.objs[o] /\ e.objs[o] \in ObjType /\ b.objs[o] \in ObjType
      BY <1>3, <1>6 DEF WellFormed
    <3>2. /\ d.objs[o].mine = b.objs[o].mine /\ d.objs[o].kind = b.objs[o].kind
          /\ d.objs[o].mesh = b.objs[o].mesh /\ d.objs[o].lit = b.objs[o].lit
      BY DEF Grown
    <3> QED
      BY <3>1, <3>2 DEF ObjType
  <2> QED
    BY <2>1, <2>2
<1>9. Untagged(e) = Untagged(b)
  BY <1>3, <1>5, <1>7, <1>8 DEF Untagged
<1>10. Recoloured(b, e)
  <2>1. DOMAIN e.objs = DOMAIN b.objs /\ e.objs \in [DOMAIN e.objs -> ObjType]
    BY <1>3, <1>6 DEF WellFormed
  <2>2. \A o \in DOMAIN b.objs : e.objs[o] = d.objs[o]
    BY <1>3, <1>6
  <2>3. e = File(e.colls, e.objs, e.meshes)
    BY <1>3 DEF WellFormed
  <2>4. e = File(b.colls, e.objs, b.meshes)
    BY <1>3, <1>5, <1>7, <2>3
  <2>5. \A o \in DOMAIN b.objs : /\ e.objs[o].mesh = b.objs[o].mesh /\ e.objs[o].mine = b.objs[o].mine
                                  /\ e.objs[o].kind = b.objs[o].kind
    BY <2>2 DEF Grown
  <2> QED
    BY <2>1, <2>4, <2>5 DEF Recoloured
<1> QED
  BY <1>3, <1>9, <1>10 DEF e

-----------------------------------------------------------------------------
(* What changes leave in order.                                            *)
LEMMA ReachKept ==
  ASSUME NEW d, WellFormed(d), NEW e, WellFormed(e), NEW cs,
         \A x \in DOMAIN d.colls \cap cs : d.colls[x].kids \subseteq cs,
         DOMAIN d.colls \ cs \subseteq DOMAIN e.colls,
         \A x \in DOMAIN d.colls \ cs : d.colls[x].kids \ cs \subseteq e.colls[x].kids,
         NEW c \in DOMAIN d.colls \ cs
  PROVE  Subtree(d, c) \ cs \subseteq Subtree(e, c)
<1> DEFINE S == Subtree(e, c) \cup cs
<1>1. c \in Subtree(e, c) /\ \A x \in Subtree(e, c) : e.colls[x].kids \subseteq Subtree(e, c)
  BY SubtreeIsLeast
<1>2. c \in S /\ \A x \in S \cap DOMAIN d.colls : d.colls[x].kids \subseteq S
  BY <1>1
<1>3. \A T : c \in T /\ (\A x \in T \cap DOMAIN d.colls : d.colls[x].kids \subseteq T)
            => Subtree(d, c) \subseteq T
  BY SubtreeIsLeast
<1> QED
  BY <1>2, <1>3

(* Nothing is below what was not.                                          *)
LEMMA BelowIsBelow ==
  ASSUME NEW d, WellFormed(d), NEW c \in DOMAIN d.colls, NEW x \in Subtree(d, c)
  PROVE  Subtree(d, x) \subseteq Subtree(d, c)
<1>1. x \in DOMAIN d.colls /\ \A y \in Subtree(d, c) : d.colls[y].kids \subseteq Subtree(d, c)
  BY SubtreeIsLeast
<1>2. \A T : x \in T /\ (\A y \in T \cap DOMAIN d.colls : d.colls[y].kids \subseteq T)
            => Subtree(d, x) \subseteq T
  BY <1>1, SubtreeIsLeast
<1> QED
  BY <1>1, <1>2

(* New collections hang on old ones, new objects and meshes are used.      *)
Attached(d, e) ==
  /\ \A m \in e.meshes \ d.meshes : \E o \in DOMAIN e.objs : e.objs[o].mesh = m
  /\ \A c \in DOMAIN e.colls \ DOMAIN d.colls : \E p \in DOMAIN d.colls : c \in e.colls[p].kids
  /\ \A o \in DOMAIN e.objs \ DOMAIN d.objs : \E c \in DOMAIN e.colls : o \in e.colls[c].objs

LEMMA OrderGrows ==
  ASSUME NEW d, WellFormed(d), NEW e, WellFormed(e), Orderly(d), Grown(d, e), Attached(d, e),
         \A q, r \in TheClaims(e) : q = r, TheClaims(e) \subseteq e.colls[Original].kids,
         \A c \in Mine(e) \ DOMAIN d.colls :
           \E r \in TheClaims(e) : c = r \/ \E p \in DOMAIN d.colls : r \in DOMAIN d.colls /\ p \in Subtree(d, r) /\ c \in e.colls[p].kids
  PROVE  Orderly(e)
<1> USE DEF Mine
<1>1. /\ DOMAIN d.colls \subseteq DOMAIN e.colls /\ DOMAIN d.objs \subseteq DOMAIN e.objs
      /\ \A c \in DOMAIN d.colls : d.colls[c].kids \subseteq e.colls[c].kids
      /\ \A c \in DOMAIN d.colls : d.colls[c].objs \subseteq e.colls[c].objs
      /\ \A c \in DOMAIN d.colls : d.colls[c].mine = e.colls[c].mine /\ d.colls[c].root = e.colls[c].root
      /\ \A o \in DOMAIN d.objs : d.objs[o].mesh = e.objs[o].mesh
  BY DEF Grown
<1>2. ASSUME NEW c \in DOMAIN d.colls
      PROVE  /\ Subtree(d, c) \subseteq Subtree(e, c) /\ c \in Subtree(e, c) /\ Subtree(e, c) \subseteq DOMAIN e.colls
             /\ \A x \in Subtree(e, c) : e.colls[x].kids \subseteq Subtree(e, c)
  <2>1. Subtree(d, c) \ {} \subseteq Subtree(e, c)
    BY <1>1, ReachKept
  <2> QED
    BY <1>1, <2>1, SubtreeIsLeast
<1>3. Original \in DOMAIN d.colls /\ Original \in DOMAIN e.colls
  BY <1>1 DEF Orderly
<1>4. DOMAIN e.colls \subseteq Subtree(e, Original)
  <2>1. DOMAIN d.colls \subseteq Subtree(e, Original)
    BY <1>2, <1>3 DEF Orderly
  <2> QED
    BY <1>2, <1>3, <2>1 DEF Attached
<1>5. \A m \in e.meshes : \E o \in DOMAIN e.objs : e.objs[o].mesh = m
  BY <1>1 DEF Orderly, Attached
<1>6. DOMAIN e.objs = ObjectsOf(e, DOMAIN e.colls)
  <2>1. ObjectsOf(e, DOMAIN e.colls) \subseteq DOMAIN e.objs
    BY DEF ObjectsOf, WellFormed
  <2>2. DOMAIN d.objs \subseteq ObjectsOf(e, DOMAIN e.colls)
    BY <1>1 DEF ObjectsOf, Orderly
  <2> QED
    BY <2>1, <2>2 DEF ObjectsOf, Attached
<1>7. ASSUME NEW c \in Mine(e) PROVE \E r \in TheClaims(e) : c \in Subtree(e, r)
  <2>1. CASE c \in DOMAIN d.colls
    <3>1. PICK r \in TheClaims(d) : c \in Subtree(d, r)
      BY <1>1, <2>1 DEF Orderly
    <3>2. r \in TheClaims(e) /\ r \in DOMAIN d.colls
      BY <1>1, <3>1 DEF TheClaims, Claiming
    <3> QED
      BY <1>2, <3>1, <3>2
  <2>2. CASE c \notin DOMAIN d.colls
    <3>1. PICK r \in TheClaims(e) : c = r \/ \E p \in DOMAIN d.colls : r \in DOMAIN d.colls /\ p \in Subtree(d, r) /\ c \in e.colls[p].kids
      BY <2>2
    <3>2. CASE c = r
      <4>1. c \in Subtree(e, c)
        BY SubtreeIsLeast
      <4> QED
        BY <3>1, <3>2, <4>1
    <3>3. CASE c # r
      <4>1. PICK p \in DOMAIN d.colls : r \in DOMAIN d.colls /\ p \in Subtree(d, r) /\ c \in e.colls[p].kids
        BY <3>1, <3>3
      <4> QED
        BY <1>2, <3>1, <4>1
    <3> QED
      BY <3>2, <3>3
  <2> QED
    BY <2>1, <2>2
<1> QED
  BY <1>3, <1>4, <1>5, <1>6, <1>7 DEF Orderly

LEMMA SubtreeByKids ==
  ASSUME NEW d, WellFormed(d), NEW e, WellFormed(e), DOMAIN d.colls = DOMAIN e.colls,
         \A x \in DOMAIN d.colls : d.colls[x].kids = e.colls[x].kids,
         NEW c \in DOMAIN d.colls
  PROVE  Subtree(d, c) = Subtree(e, c)
<1>1. Subtree(d, c) \ {} \subseteq Subtree(e, c)
  BY ReachKept
<1>2. Subtree(e, c) \ {} \subseteq Subtree(d, c)
  BY ReachKept
<1> QED
  BY <1>1, <1>2

LEMMA RecolouredOrder ==
  ASSUME NEW d, WellFormed(d), NEW e, Recoloured(d, e)
  PROVE  /\ Orderly(d) => Orderly(e)
         /\ TheClaims(e) = TheClaims(d) /\ Mine(e) = Mine(d) /\ Scenes(e) = Scenes(d)
<1>1. e.colls = d.colls /\ e.meshes = d.meshes /\ DOMAIN e.objs = DOMAIN d.objs /\ WellFormed(e)
  BY RecolouredIs, RecolouredFits
<1>2. \A o \in DOMAIN d.objs : e.objs[o].mesh = d.objs[o].mesh
  BY DEF Recoloured
<1>3. \A c \in DOMAIN d.colls : Subtree(e, c) = Subtree(d, c)
  BY <1>1, SubtreeByKids
<1>4. TheClaims(e) = TheClaims(d) /\ Mine(e) = Mine(d) /\ Scenes(e) = Scenes(d)
  BY <1>1 DEF TheClaims, Claiming, Mine, Scenes
<1>5. TheClaims(d) \subseteq DOMAIN d.colls
  BY DEF TheClaims, Claiming
<1>6. ObjectsOf(e, DOMAIN e.colls) = ObjectsOf(d, DOMAIN d.colls)
  BY <1>1 DEF ObjectsOf
<1>7. ASSUME Orderly(d) PROVE Orderly(e)
  BY <1>1, <1>2, <1>3, <1>4, <1>5, <1>6, <1>7 DEF Orderly
<1> QED
  BY <1>4, <1>7

(* Where collections are added, of what there was, is not disturbed.       *)
Hollow(new) == \A c \in DOMAIN new : new[c].kids = {} /\ new[c].objs = {}

LEMMA ClaimsStay ==
  ASSUME NEW d, WellFormed(d), NEW into, NEW new, Recorded(d, new), Ours(d, into), DOMAIN new \cap Scene = {},
         \A c \in DOMAIN new : ~(new[c].mine /\ new[c].root)
  PROVE  TheClaims(WithColls(d, into, new)) = TheClaims(d)
<1> DEFINE e == WithColls(d, into, new)
<1>1. AddedColls(d, into, new, e) /\ Grown(d, e)
  BY CollsAre, CollsGrow
<1> HIDE DEF e
<1>2. TheClaims(e) = TheClaims(d)
  BY <1>1 DEF TheClaims, Claiming, Grown, AddedColls
<1> QED
  BY <1>2 DEF e

LEMMA IntoIs ==
  ASSUME NEW d, WellFormed(d), NEW into \in DOMAIN d.colls, NEW new, Recorded(d, new)
  PROVE  LET e == WithColls(d, into, new) IN
         /\ e.colls[into].kids = d.colls[into].kids \cup DOMAIN new
         /\ e.colls[into].objs = d.colls[into].objs
<1> DEFINE e == WithColls(d, into, new)
<1>1. AddedColls(d, into, new, e)
  BY CollsAre
<1> HIDE DEF e
<1>2. into \in DOMAIN d.colls \ DOMAIN new /\ d.colls[into] \in CollType
  BY DEF Recorded, WellFormed
<1>3. e.colls[into] = [d.colls[into] EXCEPT !.kids = @ \cup DOMAIN new]
  BY <1>1, <1>2 DEF AddedColls
<1>4. e.colls[into].kids = d.colls[into].kids \cup DOMAIN new /\ e.colls[into].objs = d.colls[into].objs
  BY <1>2, <1>3 DEF CollType
<1> QED
  BY <1>4 DEF e

LEMMA MembersOrder ==
  ASSUME NEW d, WellFormed(d), NEW into, NEW new, Recorded(d, new), Ours(d, into), DOMAIN new \cap Scene = {},
         Orderly(d), \A c \in DOMAIN new : ~(new[c].mine /\ new[c].root),
         \A c \in DOMAIN new : new[c].mine => \E r \in TheClaims(d) : into \in Subtree(d, r)
  PROVE  Orderly(WithColls(d, into, new))
<1> DEFINE e == WithColls(d, into, new)
<1>1. AddedColls(d, into, new, e) /\ Grown(d, e) /\ WellFormed(e) /\ TheClaims(e) = TheClaims(d)
  BY CollsAre, CollsGrow, CollsFit, ClaimsStay
<1>2. into \in DOMAIN d.colls /\ DOMAIN new \subseteq e.colls[into].kids
  BY IntoIs DEF Ours
<1> HIDE DEF e
<1>3. Attached(d, e)
  BY <1>1, <1>2 DEF Attached, AddedColls
<1>4. \A q, r \in TheClaims(e) : q = r
  BY <1>1 DEF Orderly
<1>5. TheClaims(e) \subseteq e.colls[Original].kids
  BY <1>1 DEF Orderly, Grown
<1>6. ASSUME NEW c \in Mine(e) \ DOMAIN d.colls
      PROVE  \E r \in TheClaims(e) : c = r \/ \E p \in DOMAIN d.colls : r \in DOMAIN d.colls /\ p \in Subtree(d, r) /\ c \in e.colls[p].kids
  <2>1. c \in DOMAIN new /\ new[c].mine
    BY <1>1 DEF AddedColls, Mine
  <2>2. PICK r \in TheClaims(d) : into \in Subtree(d, r)
    BY <2>1
  <2>3. r \in DOMAIN d.colls
    BY DEF TheClaims, Claiming
  <2> QED
    BY <1>1, <1>2, <2>1, <2>2, <2>3
<1>7. Orderly(e)
  BY <1>1, <1>3, <1>4, <1>5, <1>6, OrderGrows
<1> QED
  BY <1>7 DEF e

LEMMA RootOrder ==
  ASSUME NEW d, WellFormed(d), NEW r, NEW new, Recorded(d, new), DOMAIN new = {r}, r \notin Scene,
         Orderly(d), TheClaims(d) = {}, new[r].mine, new[r].root
  PROVE  Orderly(WithColls(d, Original, new)) /\ TheClaims(WithColls(d, Original, new)) = {r}
<1> DEFINE e == WithColls(d, Original, new)
<1>0. Ours(d, Original) /\ DOMAIN new \cap Scene = {}
  BY DEF Orderly, Ours, Scene
<1>1. AddedColls(d, Original, new, e) /\ Grown(d, e) /\ WellFormed(e)
  BY <1>0, CollsAre, CollsGrow, CollsFit
<1>2. Original \in DOMAIN d.colls /\ r \in e.colls[Original].kids
  BY <1>0, IntoIs DEF Ours
<1> HIDE DEF e
<1>3. TheClaims(e) = {r}
  <2>1. DOMAIN e.colls = DOMAIN d.colls \cup {r} /\ e.colls[r] = new[r]
    BY <1>1 DEF AddedColls
  <2>2. \A c \in DOMAIN d.colls : e.colls[c].mine = d.colls[c].mine /\ e.colls[c].root = d.colls[c].root
    BY <1>1 DEF Grown
  <2>3. \A c \in DOMAIN d.colls : ~(d.colls[c].mine /\ d.colls[c].root)
    BY DEF TheClaims, Claiming
  <2>4. \A c \in DOMAIN d.colls : ~(e.colls[c].mine /\ e.colls[c].root)
    BY <2>2, <2>3
  <2>5. TheClaims(e) = {c \in DOMAIN e.colls : e.colls[c].root /\ e.colls[c].mine}
    BY DEF TheClaims, Claiming
  <2>6. e.colls[r].mine /\ e.colls[r].root
    BY <2>1
  <2> QED
    BY <2>1, <2>4, <2>5, <2>6
<1>4. Attached(d, e)
  BY <1>1, <1>2 DEF Attached, AddedColls
<1>5. \A c \in Mine(e) \ DOMAIN d.colls : c = r
  BY <1>1 DEF AddedColls, Mine
<1>6. Orderly(e)
  BY <1>1, <1>2, <1>3, <1>4, <1>5, OrderGrows
<1> QED
  BY <1>3, <1>6 DEF e

-----------------------------------------------------------------------------
(* The managed root and its children.                                      *)
RoleIds == {x \in Id : x[1] = "child" /\ x[2] \in Roles}
IdsOf(kind) == {x \in Id : x[1] = kind}

LEMMA KindsDiffer == RoleIds \cap Scene = {} /\ IdsOf("root") \cap Scene = {} /\ IdsOf("child") \cap Scene = {}
                     /\ IdsOf("model") \cap Scene = {}
<1>1. \A x \in Scene : x[1] = "scene"
  BY DEF Scene, Original, Copy
<1> QED
  BY <1>1 DEF RoleIds, IdsOf

LEMMA NewFits ==
  ASSUME NEW d, NEW kind \in Kind, NEW of \in Roles \cup Asset \cup Marker \cup {"none", "original", "copy"},
         Spare(d, kind, of) # {}
  PROVE  /\ New(d, kind, of) \in Id \ Taken(d)
         /\ New(d, kind, of)[1] = kind /\ New(d, kind, of)[2] = of
BY FreshIs DEF Id

RoleRecords(d, roles) ==
  [c \in {New(d, "child", role) : role \in roles} |-> [Managed EXCEPT !.role = c[2]]]

LEMMA ManagedIs ==
  /\ Plain = [kids |-> {}, objs |-> {}, mine |-> FALSE, root |-> FALSE, role |-> "none", of |-> "none"]
  /\ Managed = [kids |-> {}, objs |-> {}, mine |-> TRUE, root |-> FALSE, role |-> "none", of |-> "none"]
<1>1. Plain = [kids |-> {}, objs |-> {}, mine |-> FALSE, root |-> FALSE, role |-> "none", of |-> "none"]
  BY DEF Plain
<1>2. Managed = [Plain EXCEPT !.mine = TRUE]
  BY DEF Managed
<1> QED
  BY <1>1, <1>2

LEMMA NewChild ==
  ASSUME NEW d, NEW role \in Roles, Spare(d, "child", role) # {}
  PROVE  /\ New(d, "child", role) \in RoleIds \ Taken(d)
         /\ New(d, "child", role)[1] = "child" /\ New(d, "child", role)[2] = role
<1>1. New(d, "child", role) \notin Taken(d)
  BY FreshIs
<1>2. PICK n \in 1..MaxAlike : New(d, "child", role) = <<"child", role, n>>
  BY FreshIs
<1>3. <<"child", role, n>> \in Id
  BY DEF Id, Kind
<1>4. <<"child", role, n>>[1] = "child" /\ <<"child", role, n>>[2] = role
  OBVIOUS
<1> QED
  BY <1>1, <1>2, <1>3, <1>4 DEF RoleIds

LEMMA EmptyFit ==
  ASSUME NEW d, NEW new, Hollow(new), DOMAIN new \subseteq Id \ Taken(d),
         \A c \in DOMAIN new : new[c] \in CollType
  PROVE  Recorded(d, new)
BY DEF Recorded, Hollow, Taken

LEMMA RoleRecordsFit ==
  ASSUME NEW d, NEW roles \in SUBSET Roles, \A role \in roles : Spare(d, "child", role) # {}
  PROVE  LET new == RoleRecords(d, roles) IN
         /\ Recorded(d, new) /\ Hollow(new) /\ DOMAIN new \subseteq RoleIds
         /\ DOMAIN new = {New(d, "child", role) : role \in roles}
         /\ \A c \in DOMAIN new : new[c].mine /\ ~new[c].root
         /\ \A role \in roles : New(d, "child", role) \in DOMAIN new /\ new[New(d, "child", role)].role = role
<1> DEFINE new == RoleRecords(d, roles)
<1>1. DOMAIN new = {New(d, "child", role) : role \in roles}
  BY DEF RoleRecords
<1>2. ASSUME NEW role \in roles
      PROVE  /\ New(d, "child", role) \in RoleIds \ Taken(d)
             /\ New(d, "child", role)[1] = "child" /\ New(d, "child", role)[2] = role
  BY NewChild
<1>3. ASSUME NEW c \in DOMAIN new
      PROVE  /\ c \in RoleIds \ Taken(d)
             /\ new[c] = [kids |-> {}, objs |-> {}, mine |-> TRUE, root |-> FALSE, role |-> c[2], of |-> "none"]
  <2>1. PICK role \in roles : c = New(d, "child", role)
    BY <1>1, <1>3
  <2>2. c \in RoleIds \ Taken(d)
    BY <1>2, <2>1
  <2>3. new[c] = [Managed EXCEPT !.role = c[2]]
    BY <1>1, <2>1 DEF RoleRecords
  <2> QED
    BY <2>2, <2>3, ManagedIs
<1> HIDE DEF new
<1>4. \A c \in DOMAIN new : new[c] \in CollType /\ new[c].kids = {} /\ new[c].objs = {} /\ new[c].mine /\ ~new[c].root
                            /\ new[c].role = c[2]
  <2> SUFFICES ASSUME NEW c \in DOMAIN new
               PROVE  new[c] \in CollType /\ new[c].kids = {} /\ new[c].objs = {} /\ new[c].mine /\ ~new[c].root
                      /\ new[c].role = c[2]
    OBVIOUS
  <2>1. c[2] \in Roles \cup {"none"}
    BY <1>3 DEF RoleIds
  <2>2. new[c] = [kids |-> {}, objs |-> {}, mine |-> TRUE, root |-> FALSE, role |-> c[2], of |-> "none"]
    BY <1>3
  <2>3. [kids |-> {}, objs |-> {}, mine |-> TRUE, root |-> FALSE, role |-> c[2], of |-> "none"] \in CollType
    BY <2>1 DEF CollType
  <2> QED
    BY <2>2, <2>3
<1>5. DOMAIN new \subseteq RoleIds /\ DOMAIN new \subseteq Id \ Taken(d)
  BY <1>3 DEF RoleIds
<1>6. Hollow(new)
  BY <1>4 DEF Hollow
<1>7. Recorded(d, new)
  BY <1>4, <1>5, <1>6, EmptyFit
<1>8. \A role \in roles : New(d, "child", role) \in DOMAIN new /\ new[New(d, "child", role)].role = role
  BY <1>1, <1>2, <1>4
<1>9. /\ Recorded(d, new) /\ Hollow(new) /\ DOMAIN new \subseteq RoleIds
      /\ DOMAIN new = {New(d, "child", role) : role \in roles}
      /\ \A c \in DOMAIN new : new[c].mine /\ ~new[c].root
      /\ \A role \in roles : New(d, "child", role) \in DOMAIN new /\ new[New(d, "child", role)].role = role
  BY <1>1, <1>4, <1>5, <1>6, <1>7, <1>8
<1> QED
  BY <1>9 DEF new

LEMMA TakenByColls ==
  ASSUME NEW d, NEW into, NEW new
  PROVE  Taken(WithColls(d, into, new)) = Taken(d) \cup DOMAIN new
<1> DEFINE e == WithColls(d, into, new)
<1>1. AddedColls(d, into, new, e)
  BY CollsAre
<1> HIDE DEF e
<1>2. DOMAIN e.colls = DOMAIN d.colls \cup DOMAIN new /\ e.objs = d.objs /\ e.meshes = d.meshes
  BY <1>1 DEF AddedColls
<1>3. Taken(e) = Taken(d) \cup DOMAIN new
  BY <1>2 DEF Taken
<1> QED
  BY <1>3 DEF e

(* A root of the session's, with room for those of its children it lacks.  *)
Ready(d, r) ==
  /\ r \in DOMAIN d.colls /\ d.colls[r].mine
  /\ \A c \in d.colls[r].kids : d.colls[c].mine
  /\ \A role \in Roles : HasChild(d, r, role) \/ Spare(d, "child", role) # {}

LEMMA RolesGrow ==
  ASSUME NEW d, WellFormed(d), NEW r, Ours(d, r), d.colls[r].mine, \A c \in d.colls[r].kids : d.colls[c].mine,
         NEW roles \in SUBSET Roles, \A role \in roles : Spare(d, "child", role) # {}
  PROVE  LET e == WithRoles(d, r, roles) IN
         /\ WellFormed(e) /\ Grown(d, e) /\ Taken(e) \subseteq Taken(d) \cup RoleIds
         /\ r \in DOMAIN e.colls /\ e.colls[r].mine
         /\ \A c \in e.colls[r].kids : e.colls[c].mine
         /\ \A role \in Roles : HasChild(d, r, role) \/ role \in roles => HasChild(e, r, role)
         /\ \A role \in Roles \ roles : Spare(d, "child", role) # {} => Spare(e, "child", role) # {}
         /\ TheClaims(e) = TheClaims(d) /\ DOMAIN e.objs = DOMAIN d.objs
         /\ Orderly(d) /\ r \in TheClaims(d) => Orderly(e)
<1> DEFINE new == RoleRecords(d, roles)
           e == WithRoles(d, r, roles)
<1>1. /\ Recorded(d, new) /\ Hollow(new) /\ DOMAIN new \subseteq RoleIds
      /\ DOMAIN new = {New(d, "child", role) : role \in roles}
      /\ \A c \in DOMAIN new : new[c].mine /\ ~new[c].root
      /\ \A role \in roles : New(d, "child", role) \in DOMAIN new /\ new[New(d, "child", role)].role = role
  BY RoleRecordsFit
<1>2. e = WithColls(d, r, new)
  BY DEF WithRoles, RoleRecords
<1> HIDE DEF new
<1>3. WellFormed(e) /\ Grown(d, e) /\ Taken(e) = Taken(d) \cup DOMAIN new /\ AddedColls(d, r, new, e)
  BY <1>1, <1>2, CollsFit, CollsGrow, CollsAre, TakenByColls, KindsDiffer
<1>13. /\ TheClaims(e) = TheClaims(d) /\ e.objs = d.objs
       /\ Orderly(d) /\ r \in TheClaims(d) => Orderly(e)
  <2>1. TheClaims(e) = TheClaims(d)
    BY <1>1, <1>2, ClaimsStay, KindsDiffer
  <2>2. ASSUME Orderly(d), r \in TheClaims(d) PROVE Orderly(e)
    <3>1. r \in Subtree(d, r)
      BY SubtreeIsLeast DEF Ours
    <3> QED
      BY <1>1, <1>2, <2>2, <3>1, MembersOrder, KindsDiffer
  <2> QED
    BY <1>3, <2>1, <2>2 DEF AddedColls
<1> HIDE DEF e
<1>4. /\ r \in DOMAIN d.colls \ DOMAIN new /\ d.colls[r] \in CollType /\ d.colls[r].kids \subseteq DOMAIN d.colls
      /\ DOMAIN new \cap DOMAIN d.colls = {}
  BY <1>1 DEF Ours, Recorded, WellFormed
<1>5. e.colls[r].kids = d.colls[r].kids \cup DOMAIN new
  <2>1. e.colls[r] = [d.colls[r] EXCEPT !.kids = @ \cup DOMAIN new]
    BY <1>3, <1>4 DEF AddedColls
  <2> QED
    BY <1>4, <2>1 DEF CollType
<1>6. \A c \in d.colls[r].kids : e.colls[c].mine = d.colls[c].mine /\ e.colls[c].role = d.colls[c].role
  BY <1>3, <1>4 DEF Grown
<1>7. \A c \in DOMAIN new : e.colls[c] = new[c]
  BY <1>3 DEF AddedColls
<1>8. \A c \in e.colls[r].kids : e.colls[c].mine
  BY <1>1, <1>5, <1>6, <1>7
<1>9. ASSUME NEW role \in Roles, HasChild(d, r, role) \/ role \in roles PROVE HasChild(e, r, role)
  <2>1. CASE HasChild(d, r, role)
    <3>1. PICK c \in d.colls[r].kids : d.colls[c].role = role
      BY <2>1 DEF HasChild, ChildrenOf
    <3> QED
      BY <1>5, <1>6, <3>1 DEF HasChild, ChildrenOf
  <2>2. CASE role \in roles
    <3>1. New(d, "child", role) \in e.colls[r].kids /\ e.colls[New(d, "child", role)].role = role
      BY <1>1, <1>5, <1>7, <2>2
    <3> QED
      BY <3>1 DEF HasChild, ChildrenOf
  <2> QED
    BY <1>9, <2>1, <2>2
<1>10. ASSUME NEW role \in Roles \ roles, Spare(d, "child", role) # {} PROVE Spare(e, "child", role) # {}
  <2>1. ASSUME NEW x \in DOMAIN new PROVE x[2] # role
    <3>1. PICK other \in roles : x = New(d, "child", other)
      BY <1>1, <2>1
    <3>2. x[2] = other
      BY <3>1, NewChild
    <3> QED
      BY <3>2
  <2>2. Taken(e) \subseteq Taken(d) \cup DOMAIN new
    BY <1>3
  <2>3. PICK n \in 1..MaxAlike : <<"child", role, n>> \notin Taken(d)
    BY <1>10 DEF Spare
  <2>4. <<"child", role, n>> \notin DOMAIN new
    <3>1. <<"child", role, n>>[2] = role
      OBVIOUS
    <3> QED
      BY <2>1, <3>1
  <2> QED
    BY <2>2, <2>3, <2>4 DEF Spare
<1>11. r \in DOMAIN e.colls /\ e.colls[r].mine
  BY <1>3, <1>4 DEF Grown
<1>12. /\ WellFormed(e) /\ Grown(d, e) /\ Taken(e) \subseteq Taken(d) \cup RoleIds
       /\ r \in DOMAIN e.colls /\ e.colls[r].mine
       /\ \A c \in e.colls[r].kids : e.colls[c].mine
       /\ \A role \in Roles : HasChild(d, r, role) \/ role \in roles => HasChild(e, r, role)
       /\ \A role \in Roles \ roles : Spare(d, "child", role) # {} => Spare(e, "child", role) # {}
       /\ TheClaims(e) = TheClaims(d) /\ DOMAIN e.objs = DOMAIN d.objs
       /\ Orderly(d) /\ r \in TheClaims(d) => Orderly(e)
  BY <1>1, <1>3, <1>8, <1>9, <1>10, <1>11, <1>13
<1> QED
  BY <1>12 DEF e

LEMMA ChildReady ==
  ASSUME NEW d, WellFormed(d), NEW r, Ready(d, r), NEW role \in Roles
  PROVE  LET e == WithChild(d, r, role) IN
         /\ WellFormed(e) /\ Grown(d, e) /\ Taken(e) \subseteq Taken(d) \cup RoleIds
         /\ Ready(e, r) /\ HasChild(e, r, role)
         /\ ChildOf(e, r, role) \in e.colls[r].kids /\ Ours(e, ChildOf(e, r, role))
         /\ ChildOf(e, r, role) \in Subtree(e, r)
         /\ TheClaims(e) = TheClaims(d) /\ DOMAIN e.objs = DOMAIN d.objs
         /\ Orderly(d) /\ r \in TheClaims(d) => Orderly(e)
<1> DEFINE e == WithChild(d, r, role)
<1>1. /\ WellFormed(e) /\ Grown(d, e) /\ Taken(e) \subseteq Taken(d) \cup RoleIds
      /\ Ready(e, r) /\ HasChild(e, r, role)
      /\ TheClaims(e) = TheClaims(d) /\ DOMAIN e.objs = DOMAIN d.objs
      /\ Orderly(d) /\ r \in TheClaims(d) => Orderly(e)
  <2>1. CASE HasChild(d, r, role)
    <3>1. e = d
      BY <2>1 DEF WithChild
    <3> QED
      BY <2>1, <3>1, GrownSame
  <2>2. CASE ~HasChild(d, r, role)
    <3>1. e = WithRoles(d, r, {role})
      BY <2>2 DEF WithChild
    <3>2. Ours(d, r) /\ \A x \in {role} : Spare(d, "child", x) # {}
      BY <2>2 DEF Ready, Ours
    <3>3. {role} \in SUBSET Roles
      OBVIOUS
    <3>4. LET f == WithRoles(d, r, {role}) IN
          /\ WellFormed(f) /\ Grown(d, f) /\ Taken(f) \subseteq Taken(d) \cup RoleIds
          /\ r \in DOMAIN f.colls /\ f.colls[r].mine
          /\ \A c \in f.colls[r].kids : f.colls[c].mine
          /\ \A x \in Roles : HasChild(d, r, x) \/ x \in {role} => HasChild(f, r, x)
          /\ \A x \in Roles \ {role} : Spare(d, "child", x) # {} => Spare(f, "child", x) # {}
          /\ TheClaims(f) = TheClaims(d) /\ DOMAIN f.objs = DOMAIN d.objs
          /\ Orderly(d) /\ r \in TheClaims(d) => Orderly(f)
      BY <3>2, <3>3, RolesGrow DEF Ready
    <3> HIDE DEF e
    <3>5. \A x \in Roles : HasChild(e, r, x) \/ Spare(e, "child", x) # {}
      BY <3>1, <3>4 DEF Ready
    <3> QED
      BY <3>1, <3>4, <3>5 DEF Ready
  <2> QED
    BY <2>1, <2>2
<1> HIDE DEF e
<1>2. ChildOf(e, r, role) \in e.colls[r].kids
  BY <1>1 DEF HasChild, ChildOf, ChildrenOf
<1>3. Ours(e, ChildOf(e, r, role))
  BY <1>1, <1>2 DEF Ours, Ready, WellFormed
<1>4. ChildOf(e, r, role) \in Subtree(e, r)
  BY <1>1, <1>2, SubtreeIsLeast DEF Ready
<1> QED
  BY <1>1, <1>2, <1>3, <1>4 DEF e

(* What ensure_root() finds or makes the root.                             *)
Rootable(d, r) == \/ r \in TheClaims(d) /\ \A c \in d.colls[r].kids : d.colls[c].mine
                  \/ r \in IdsOf("root") \ Taken(d)
Ordered(d, r) == /\ Orderly(d)
                 /\ \/ r \in TheClaims(d)
                    \/ home = Original /\ TheClaims(d) = {}

LEMMA EnsuredWorks ==
  ASSUME NEW d, WellFormed(d), home \in Scenes(d), NEW r,
         Rootable(d, r),
         \A role \in Roles : Spare(d, "child", role) # {}
  PROVE  LET e == Ensured(d, r) IN
         /\ WellFormed(e) /\ Grown(d, e) /\ Taken(e) \subseteq Taken(d) \cup IdsOf("root") \cup RoleIds
         /\ Ready(e, r) /\ r \in TheClaims(e) /\ DOMAIN e.objs = DOMAIN d.objs
         /\ Ordered(d, r) => Orderly(e)
<1> DEFINE e == Ensured(d, r)
<1>1. CASE r \in TheClaims(d) /\ \A c \in d.colls[r].kids : d.colls[c].mine
  <2>1. e = Retagged(d, r) /\ r \in DOMAIN d.colls /\ d.colls[r].mine
    BY <1>1 DEF Ensured, TheClaims, Claiming
  <2> HIDE DEF e
  <2>2. Recoloured(d, e) /\ Grown(d, e)
    BY <2>1, RetagsRecolour
  <2>3. WellFormed(e) /\ e.colls = d.colls /\ e.meshes = d.meshes /\ DOMAIN e.objs = DOMAIN d.objs
    BY <2>2, RecolouredFits, RecolouredIs
  <2>4. TheClaims(e) = TheClaims(d) /\ (Orderly(d) => Orderly(e))
    BY <2>2, RecolouredOrder
  <2>5. Taken(e) = Taken(d)
    BY <2>3 DEF Taken
  <2>6. \A role \in Roles : Spare(e, "child", role) # {}
    BY <2>5 DEF Spare
  <2>7. Ready(e, r)
    BY <1>1, <2>1, <2>3, <2>6 DEF Ready
  <2>8. /\ WellFormed(e) /\ Grown(d, e) /\ Taken(e) \subseteq Taken(d) \cup IdsOf("root") \cup RoleIds
        /\ Ready(e, r) /\ r \in TheClaims(e) /\ DOMAIN e.objs = DOMAIN d.objs
        /\ Ordered(d, r) => Orderly(e)
    BY <1>1, <2>2, <2>3, <2>4, <2>5, <2>7 DEF Ordered
  <2> QED
    BY <2>8 DEF e
<1>2. CASE r \in IdsOf("root") \ Taken(d)
  <2> DEFINE new == [c \in {r} |-> [Managed EXCEPT !.root = TRUE]]
             w == WithColls(d, home, new)
  <2>1. e = WithRoles(w, r, Roles)
    BY <1>2 DEF Ensured, Taken
  <2>2. DOMAIN new = {r} /\ new[r] = [kids |-> {}, objs |-> {}, mine |-> TRUE, root |-> TRUE, role |-> "none", of |-> "none"]
    BY ManagedIs
  <2>3. Recorded(d, new)
    <3>1. [kids |-> {}, objs |-> {}, mine |-> TRUE, root |-> TRUE, role |-> "none", of |-> "none"] \in CollType
      BY DEF CollType
    <3> HIDE DEF new
    <3>2. new[r] \in CollType /\ new[r].kids = {} /\ new[r].objs = {}
      BY <2>2, <3>1
    <3> QED
      BY <1>2, <2>2, <3>2 DEF Recorded, IdsOf, Taken
  <2>4. Ours(d, home) /\ DOMAIN new \cap Scene = {} /\ r \notin Scene
    BY <1>2, <2>2, KindsDiffer DEF Ours, Scenes
  <2>5. new[r].mine /\ new[r].root /\ new[r].kids = {}
    BY <2>2
  <2> HIDE DEF new
  <2>6. WellFormed(w) /\ Grown(d, w) /\ AddedColls(d, home, new, w) /\ Taken(w) = Taken(d) \cup {r}
    BY <2>2, <2>3, <2>4, CollsFit, CollsGrow, CollsAre, TakenByColls
  <2>7. Ordered(d, r) => Orderly(w)
    <3>1. r \notin TheClaims(d)
      BY <1>2 DEF TheClaims, Claiming, Taken
    <3> QED
      BY <2>2, <2>3, <2>4, <2>5, <3>1, RootOrder DEF Ordered
  <2> HIDE DEF w, e
  <2>8. w.colls[r] = new[r] /\ r \in DOMAIN w.colls /\ DOMAIN w.objs = DOMAIN d.objs
    BY <2>2, <2>6 DEF AddedColls
  <2>9. Ours(w, r) /\ w.colls[r].mine /\ (\A c \in w.colls[r].kids : w.colls[c].mine) /\ r \in TheClaims(w)
    BY <2>5, <2>8 DEF Ours, TheClaims, Claiming
  <2>10. \A role \in Roles : Spare(w, "child", role) # {}
    <3>1. r[1] # "child"
      BY <1>2 DEF IdsOf
    <3>2. ASSUME NEW role \in Roles PROVE Spare(w, "child", role) # {}
      <4>1. \A n \in 1..MaxAlike : <<"child", role, n>>[1] = "child"
        OBVIOUS
      <4>2. \A n \in 1..MaxAlike : <<"child", role, n>> \notin {r}
        BY <3>1, <4>1
      <4> QED
        BY <2>6, <4>2, RoomStays
    <3> QED
      BY <3>2
  <2>11. /\ WellFormed(e) /\ Grown(w, e) /\ Taken(e) \subseteq Taken(w) \cup RoleIds
         /\ r \in DOMAIN e.colls /\ e.colls[r].mine
         /\ \A c \in e.colls[r].kids : e.colls[c].mine
         /\ \A role \in Roles : HasChild(e, r, role)
         /\ TheClaims(e) = TheClaims(w) /\ DOMAIN e.objs = DOMAIN w.objs
         /\ Orderly(w) /\ r \in TheClaims(w) => Orderly(e)
    <3>1. Roles \in SUBSET Roles
      OBVIOUS
    <3>2. LET f == WithRoles(w, r, Roles) IN
          /\ WellFormed(f) /\ Grown(w, f) /\ Taken(f) \subseteq Taken(w) \cup RoleIds
          /\ r \in DOMAIN f.colls /\ f.colls[r].mine
          /\ \A c \in f.colls[r].kids : f.colls[c].mine
          /\ \A role \in Roles : HasChild(w, r, role) \/ role \in Roles => HasChild(f, r, role)
          /\ TheClaims(f) = TheClaims(w) /\ DOMAIN f.objs = DOMAIN w.objs
          /\ Orderly(w) /\ r \in TheClaims(w) => Orderly(f)
      BY <2>6, <2>9, <2>10, <3>1, RolesGrow
    <3> QED
      BY <2>1, <3>2
  <2>12. Grown(d, e)
    BY <2>6, <2>11, GrownAgain
  <2>13. Taken(e) \subseteq Taken(d) \cup IdsOf("root") \cup RoleIds
    BY <1>2, <2>6, <2>11
  <2>14. /\ WellFormed(e) /\ Grown(d, e) /\ Taken(e) \subseteq Taken(d) \cup IdsOf("root") \cup RoleIds
         /\ Ready(e, r) /\ r \in TheClaims(e) /\ DOMAIN e.objs = DOMAIN d.objs
         /\ Ordered(d, r) => Orderly(e)
    BY <2>7, <2>8, <2>9, <2>11, <2>12, <2>13 DEF Ready
  <2> QED
    BY <2>14 DEF e
<1> QED
  BY <1>1, <1>2 DEF Rootable


(* The importer's collection and node.                                     *)
LEMMA ImportedWorks ==
  ASSUME NEW b, WellFormed(b), home \in Scenes(b), NEW a \in Asset, Spare(b, "model", a) # {}
  PROVE  LET i == Imported(b, a)  n == New(b, "model", a) IN
         /\ n \in IdsOf("model") \ Taken(b)
         /\ WellFormed(i) /\ Grown(b, i) /\ Taken(i) = Taken(b) \cup {n}
         /\ DOMAIN i.objs = DOMAIN b.objs \cup {n}
         /\ \A c \in DOMAIN b.colls \ {home} : i.colls[c] = b.colls[c]
         /\ TheClaims(i) = TheClaims(b)
         /\ Orderly(b) => Orderly(i)
<1> DEFINE i == Imported(b, a)
           n == New(b, "model", a)
           new == [c \in {n} |-> Plain]
           node == [UserObject EXCEPT !.kind = "model", !.mesh = n]
           objs == [o \in {n} |-> node]
           w == WithColls(b, home, new)
<1>1. n \in IdsOf("model") \ Taken(b)
  <2>1. n \notin Taken(b) /\ \E k \in 1..MaxAlike : n = <<"model", a, k>>
    BY FreshIs
  <2>2. PICK k \in 1..MaxAlike : n = <<"model", a, k>>
    BY <2>1
  <2>3. <<"model", a, k>> \in Id /\ <<"model", a, k>>[1] = "model"
    BY DEF Id, Kind
  <2> QED
    BY <2>1, <2>2, <2>3 DEF IdsOf
<1> HIDE DEF n
<1>2. n \in Id /\ n \notin DOMAIN b.colls /\ n \notin DOMAIN b.objs /\ n \notin b.meshes /\ n \notin Scene
  BY <1>1, KindsDiffer DEF IdsOf, Taken
<1>3. node = [mine |-> FALSE, kind |-> "model", mesh |-> n, cur |-> FALSE, lit |-> FALSE]
  <2>1. UserObject = [mine |-> FALSE, kind |-> "user", mesh |-> NoId, cur |-> FALSE, lit |-> FALSE]
    BY DEF UserObject
  <2>2. node = [UserObject EXCEPT !.kind = "model", !.mesh = n]
    OBVIOUS
  <2> HIDE DEF node
  <2> QED
    BY <2>1, <2>2
<1>4. node \in ObjType
  <2>1. [mine |-> FALSE, kind |-> "model", mesh |-> n, cur |-> FALSE, lit |-> FALSE] \in ObjType
    BY <1>2 DEF ObjType, Kind
  <2> QED
    BY <1>3, <2>1
<1> HIDE DEF node
<1>5. Recorded(b, new) /\ DOMAIN new = {n} /\ new[n] = Plain
  <2>1. Plain \in CollType /\ Plain.kids = {} /\ Plain.objs = {}
    BY DEF Plain, CollType
  <2> QED
    BY <1>2, <2>1 DEF Recorded
<1>6. Ours(b, home) /\ DOMAIN new \cap Scene = {} /\ home \in DOMAIN b.colls /\ home # n
  BY <1>2, <1>5 DEF Ours, Scenes
<1> HIDE DEF new
<1>7. WellFormed(w) /\ Grown(b, w) /\ AddedColls(b, home, new, w)
  BY <1>5, <1>6, CollsFit, CollsGrow, CollsAre
<1> HIDE DEF w
<1>8. /\ DOMAIN w.colls = DOMAIN b.colls \cup {n} /\ w.objs = b.objs /\ w.meshes = b.meshes
      /\ w.colls[n] = Plain
      /\ \A c \in DOMAIN b.colls \ {home} : w.colls[c] = b.colls[c]
      /\ w.colls[home] = [b.colls[home] EXCEPT !.kids = @ \cup {n}]
  BY <1>2, <1>5, <1>6, <1>7 DEF AddedColls
<1>9. DOMAIN objs = {n} /\ objs[n] = node
  OBVIOUS
<1>10. Listed(w, objs)
  BY <1>2, <1>4, <1>8, <1>9 DEF Listed
<1>11. i = WithObjects(w, n, objs)
  BY DEF Imported, n, w, new, node
<1> HIDE DEF objs, i
<1>12. WellFormed(i) /\ AddedObjects(w, n, objs, i)
  BY <1>7, <1>8, <1>10, <1>11, ObjectsFit, ObjectsAre
<1>13. /\ DOMAIN i.colls = DOMAIN b.colls \cup {n} /\ DOMAIN i.objs = DOMAIN b.objs \cup {n}
       /\ \A c \in DOMAIN b.colls : i.colls[c] = w.colls[c]
       /\ i.colls[n] = [Plain EXCEPT !.objs = @ \cup {n}]
       /\ \A o \in DOMAIN b.objs : i.objs[o] = b.objs[o]
       /\ i.objs[n] = node
  BY <1>2, <1>8, <1>9, <1>12 DEF AddedObjects
<1>14. i.meshes = b.meshes \cup {n}
  <2>1. i.meshes = (b.meshes \cup {objs[o].mesh : o \in DOMAIN objs}) \ {NoId}
    BY <1>8, <1>12 DEF AddedObjects
  <2>2. {objs[o].mesh : o \in DOMAIN objs} = {n}
    BY <1>3, <1>9
  <2>3. NoId \notin b.meshes /\ NoId # n
    BY <1>2, NothingIsNoId DEF WellFormed
  <2> QED
    BY <2>1, <2>2, <2>3
<1>15. Grown(b, i)
  <2>1. \A c \in DOMAIN b.colls : w.colls[c] = i.colls[c]
    BY <1>13
  <2>2. Scene \cap DOMAIN i.colls \subseteq DOMAIN b.colls
    BY <1>2, <1>13
  <2> QED
    BY <1>7, <1>8, <1>13, <1>14, <2>1, <2>2 DEF Grown
<1>16. Taken(i) = Taken(b) \cup {n}
  BY <1>13, <1>14 DEF Taken
<1>17. i.colls[n] = [kids |-> {}, objs |-> {n}, mine |-> FALSE, root |-> FALSE, role |-> "none", of |-> "none"]
  BY <1>13, ManagedIs
<1>18. TheClaims(i) = TheClaims(b) /\ \A c \in DOMAIN i.colls \ DOMAIN b.colls : c = n
  BY <1>13, <1>15, <1>17 DEF TheClaims, Claiming, Grown
<1>19. ASSUME Orderly(b) PROVE Orderly(i)
  <2>1. n \in i.colls[home].kids
    <3>1. b.colls[home] \in CollType /\ i.colls[home] = [b.colls[home] EXCEPT !.kids = @ \cup {n}]
      BY <1>6, <1>8, <1>13 DEF WellFormed
    <3> QED
      BY <3>1 DEF CollType
  <2>2. Attached(b, i)
    <3>1. i.objs[n].mesh = n /\ n \in i.colls[n].objs
      BY <1>3, <1>13, <1>17
    <3> QED
      BY <1>6, <1>13, <1>14, <1>18, <2>1, <3>1 DEF Attached
  <2>3. Mine(i) \ DOMAIN b.colls = {}
    BY <1>17, <1>18 DEF Mine
  <2>4. TheClaims(i) \subseteq i.colls[Original].kids /\ \A q, r \in TheClaims(i) : q = r
    BY <1>15, <1>18, <1>19 DEF Orderly, Grown
  <2> QED
    BY <1>12, <1>15, <1>19, <2>2, <2>3, <2>4, OrderGrows
<1>20. /\ n \in IdsOf("model") \ Taken(b)
       /\ WellFormed(i) /\ Grown(b, i) /\ Taken(i) = Taken(b) \cup {n}
       /\ DOMAIN i.objs = DOMAIN b.objs \cup {n}
       /\ \A c \in DOMAIN b.colls \ {home} : i.colls[c] = b.colls[c]
       /\ TheClaims(i) = TheClaims(b)
       /\ Orderly(b) => Orderly(i)
  BY <1>1, <1>8, <1>12, <1>13, <1>15, <1>16, <1>18, <1>19
<1> QED
  BY <1>20 DEF i, n

LEMMA ReadyStays ==
  ASSUME NEW d, WellFormed(d), NEW e, WellFormed(e), Grown(d, e), NEW r, Ready(d, r),
         \A c \in e.colls[r].kids \ d.colls[r].kids : e.colls[c].mine,
         \A role \in Roles : Spare(d, "child", role) # {} => Spare(e, "child", role) # {}
  PROVE  Ready(e, r)
<1>1. /\ r \in DOMAIN e.colls /\ e.colls[r].mine /\ d.colls[r].kids \subseteq e.colls[r].kids
      /\ \A c \in d.colls[r].kids : e.colls[c].mine = d.colls[c].mine /\ e.colls[c].role = d.colls[c].role
  BY DEF Ready, Grown, WellFormed
<1>2. \A c \in e.colls[r].kids : e.colls[c].mine
  BY <1>1 DEF Ready
<1>3. ASSUME NEW role \in Roles, HasChild(d, r, role) PROVE HasChild(e, r, role)
  BY <1>1, <1>3 DEF HasChild, ChildrenOf
<1> QED
  BY <1>1, <1>2, <1>3 DEF Ready

(* The nodes change collections.                                           *)
Moved(d, n, os) ==
  File([c \in DOMAIN d.colls |->
          [d.colls[c] EXCEPT !.objs = IF c = n THEN os ELSE @ \ os]],
       [o \in DOMAIN d.objs |->
          IF o \in os THEN [d.objs[o] EXCEPT !.mine = TRUE] ELSE d.objs[o]],
       d.meshes)

LEMMA MoveWorks ==
  ASSUME NEW b, NEW d, WellFormed(b), WellFormed(d), Grown(b, d),
         NEW n \in DOMAIN d.colls \ DOMAIN b.colls, d.colls[n].objs = {},
         NEW os \in SUBSET DOMAIN d.objs, os \cap DOMAIN b.objs = {}
  PROVE  LET e == Moved(d, n, os) IN
         /\ WellFormed(e) /\ Grown(b, e) /\ Taken(e) = Taken(d)
         /\ DOMAIN e.colls = DOMAIN d.colls
         /\ \A c \in DOMAIN d.colls : /\ e.colls[c].kids = d.colls[c].kids /\ e.colls[c].mine = d.colls[c].mine
                                      /\ e.colls[c].role = d.colls[c].role
         /\ TheClaims(e) = TheClaims(d)
         /\ Orderly(d) => Orderly(e)
<1> DEFINE e == Moved(d, n, os)
           F(c) == [d.colls[c] EXCEPT !.objs = IF c = n THEN os ELSE @ \ os]
           G(o) == IF o \in os THEN [d.objs[o] EXCEPT !.mine = TRUE] ELSE d.objs[o]
<1>1. e = File([c \in DOMAIN d.colls |-> F(c)], [o \in DOMAIN d.objs |-> G(o)], d.meshes)
  BY DEF Moved
<1> HIDE DEF e
<1>2. ASSUME NEW c \in DOMAIN d.colls
      PROVE  /\ F(c) \in CollType /\ F(c).kids = d.colls[c].kids /\ F(c).mine = d.colls[c].mine
             /\ F(c).root = d.colls[c].root /\ F(c).role = d.colls[c].role /\ F(c).of = d.colls[c].of
             /\ F(c).objs = (IF c = n THEN os ELSE d.colls[c].objs \ os)
             /\ d.colls[c].objs \cap os = {} /\ c # n => F(c) = d.colls[c]
  <2>1. d.colls[c] \in CollType /\ os \subseteq Id
    BY DEF WellFormed
  <2>2. /\ F(c) \in CollType /\ F(c).kids = d.colls[c].kids /\ F(c).mine = d.colls[c].mine
        /\ F(c).root = d.colls[c].root /\ F(c).role = d.colls[c].role /\ F(c).of = d.colls[c].of
        /\ F(c).objs = (IF c = n THEN os ELSE d.colls[c].objs \ os)
    BY <2>1 DEF CollType
  <2>3. ASSUME d.colls[c].objs \cap os = {}, c # n PROVE F(c) = d.colls[c]
    <3>1. F(c).objs = d.colls[c].objs
      BY <2>2, <2>3
    <3> HIDE DEF F
    <3> QED
      BY <2>1, <2>2, <3>1 DEF CollType
  <2> QED
    BY <2>2, <2>3
<1>3. ASSUME NEW o \in DOMAIN d.objs
      PROVE  /\ G(o) \in ObjType /\ G(o).mesh = d.objs[o].mesh /\ G(o).kind = d.objs[o].kind
             /\ G(o).lit = d.objs[o].lit /\ (o \notin os => G(o) = d.objs[o])
  <2>1. d.objs[o] \in ObjType
    BY DEF WellFormed
  <2> QED
    BY <2>1 DEF ObjType
<1>4. e.colls = [c \in DOMAIN d.colls |-> F(c)] /\ e.objs = [o \in DOMAIN d.objs |-> G(o)] /\ e.meshes = d.meshes
  <2> HIDE DEF F, G
  <2> QED
    BY <1>1, Fields
<1> HIDE DEF F, G
<1>12. /\ DOMAIN e.colls = DOMAIN d.colls /\ DOMAIN e.objs = DOMAIN d.objs
       /\ \A c \in DOMAIN d.colls : e.colls[c] = F(c)
       /\ \A o \in DOMAIN d.objs : e.objs[o] = G(o)
       /\ e.colls = [c \in DOMAIN d.colls |-> e.colls[c]] /\ e.objs = [o \in DOMAIN d.objs |-> e.objs[o]]
       /\ e.meshes = d.meshes
  BY <1>4
<1>13. ASSUME NEW c \in DOMAIN d.colls
       PROVE  /\ e.colls[c] \in CollType /\ e.colls[c].kids = d.colls[c].kids /\ e.colls[c].mine = d.colls[c].mine
              /\ e.colls[c].root = d.colls[c].root /\ e.colls[c].role = d.colls[c].role /\ e.colls[c].of = d.colls[c].of
              /\ e.colls[c].objs = (IF c = n THEN os ELSE d.colls[c].objs \ os)
              /\ d.colls[c].objs \cap os = {} /\ c # n => e.colls[c] = d.colls[c]
  <2>1. e.colls[c] = F(c)
    BY <1>12
  <2> QED
    BY <1>2, <2>1
<1>14. ASSUME NEW o \in DOMAIN d.objs
       PROVE  /\ e.objs[o] \in ObjType /\ e.objs[o].mesh = d.objs[o].mesh /\ e.objs[o].kind = d.objs[o].kind
              /\ e.objs[o].lit = d.objs[o].lit /\ (o \notin os => e.objs[o] = d.objs[o])
  <2>1. e.objs[o] = G(o)
    BY <1>12
  <2> QED
    BY <1>3, <2>1
<1>15. DOMAIN e.colls = DOMAIN d.colls /\ DOMAIN e.objs = DOMAIN d.objs /\ e.meshes = d.meshes
  BY <1>12
<1>5. e.colls \in [DOMAIN d.colls -> CollType] /\ e.objs \in [DOMAIN d.objs -> ObjType]
  BY <1>12, <1>13, <1>14
<1>6. e = File(e.colls, e.objs, e.meshes)
  BY <1>1, <1>4
<1>7. WellFormed(e)
  <2>1. \A c \in DOMAIN d.colls : e.colls[c].kids \subseteq DOMAIN d.colls /\ e.colls[c].objs \subseteq DOMAIN d.objs
    BY <1>13 DEF WellFormed
  <2>2. \A o \in DOMAIN d.objs : e.objs[o].mesh \in d.meshes \cup {NoId}
    BY <1>14 DEF WellFormed
  <2> QED
    BY <1>5, <1>6, <1>15, <2>1, <2>2 DEF WellFormed
<1>8. Grown(b, e)
  <2>1. ASSUME NEW c \in DOMAIN b.colls
        PROVE  /\ e.colls[c].kids \cap DOMAIN b.colls = b.colls[c].kids
               /\ e.colls[c].objs \cap DOMAIN b.objs = b.colls[c].objs
               /\ e.colls[c].mine = b.colls[c].mine /\ e.colls[c].root = b.colls[c].root
               /\ e.colls[c].role = b.colls[c].role /\ e.colls[c].of = b.colls[c].of
               /\ c \in Scene \/ b.colls[c].mine \/ e.colls[c] = b.colls[c]
    <3>1. c \in DOMAIN d.colls /\ c # n /\ b.colls[c].objs \subseteq DOMAIN b.objs
      BY DEF Grown, WellFormed
    <3>3. e.colls[c].objs = d.colls[c].objs \ os
      BY <1>13, <3>1
    <3>4. ASSUME d.colls[c] = b.colls[c] PROVE e.colls[c] = b.colls[c]
      <4>1. d.colls[c].objs \cap os = {}
        BY <3>1, <3>4
      <4> QED
        BY <1>13, <3>1, <3>4, <4>1
    <3> QED
      BY <1>13, <3>1, <3>3, <3>4 DEF Grown
  <2>2. \A o \in DOMAIN b.objs : o \in DOMAIN d.objs /\ e.objs[o] = d.objs[o]
    BY <1>14 DEF Grown
  <2>3. /\ DOMAIN b.colls \subseteq DOMAIN e.colls /\ DOMAIN b.objs \subseteq DOMAIN e.objs
        /\ b.meshes \subseteq e.meshes /\ Scene \cap DOMAIN e.colls \subseteq DOMAIN b.colls
    BY <1>15 DEF Grown
  <2>4. ASSUME NEW o \in DOMAIN b.objs
        PROVE  /\ e.objs[o].mine = b.objs[o].mine /\ e.objs[o].kind = b.objs[o].kind
               /\ e.objs[o].mesh = b.objs[o].mesh /\ e.objs[o].lit = b.objs[o].lit
    BY <2>2 DEF Grown
  <2> QED
    BY <2>1, <2>3, <2>4 DEF Grown
<1>9. TheClaims(e) = TheClaims(d) /\ Mine(e) = Mine(d) /\ Taken(e) = Taken(d)
  BY <1>13, <1>15 DEF TheClaims, Claiming, Mine, Taken
<1>10. ASSUME Orderly(d) PROVE Orderly(e)
  <2>0. DOMAIN e.colls = DOMAIN d.colls /\ \A c \in DOMAIN d.colls : d.colls[c].kids = e.colls[c].kids
    BY <1>13, <1>15
  <2>1. \A c \in DOMAIN d.colls : Subtree(e, c) = Subtree(d, c)
    BY <1>7, <2>0, SubtreeByKids
  <2>2. DOMAIN e.objs = ObjectsOf(e, DOMAIN e.colls)
    <3>1. ObjectsOf(e, DOMAIN e.colls) \subseteq DOMAIN e.objs
      BY <1>7 DEF ObjectsOf, WellFormed
    <3>2. ASSUME NEW o \in DOMAIN d.objs PROVE \E c \in DOMAIN d.colls : o \in e.colls[c].objs
      <4>1. CASE o \in os
        BY <1>13, <4>1
      <4>2. CASE o \notin os
        <5>1. PICK c \in DOMAIN d.colls : o \in d.colls[c].objs
          BY <1>10 DEF Orderly, ObjectsOf
        <5> QED
          BY <1>13, <4>2, <5>1
      <4> QED
        BY <4>1, <4>2
    <3> QED
      BY <1>15, <3>1, <3>2 DEF ObjectsOf
  <2>3. \A m \in e.meshes : \E o \in DOMAIN e.objs : e.objs[o].mesh = m
    BY <1>10, <1>14, <1>15 DEF Orderly
  <2>4. \A c \in DOMAIN d.colls : e.colls[c].kids = d.colls[c].kids
    BY <1>13
  <2>5. TheClaims(d) \subseteq DOMAIN d.colls
    BY DEF TheClaims, Claiming
  <2> QED
    BY <1>9, <1>10, <1>15, <2>1, <2>2, <2>3, <2>4, <2>5 DEF Orderly
<1>11. /\ WellFormed(e) /\ Grown(b, e) /\ Taken(e) = Taken(d)
       /\ DOMAIN e.colls = DOMAIN d.colls
       /\ \A c \in DOMAIN d.colls : /\ e.colls[c].kids = d.colls[c].kids /\ e.colls[c].mine = d.colls[c].mine
                                    /\ e.colls[c].role = d.colls[c].role
       /\ TheClaims(e) = TheClaims(d)
       /\ Orderly(d) => Orderly(e)
  BY <1>7, <1>8, <1>9, <1>10, <1>13, <1>15
<1> QED
  BY <1>11 DEF e

(* Where there is room for what a load makes.                              *)
Roomy(b, a) == /\ Spare(b, "model", a) # {} /\ Spare(b, "child", a) # {}
               /\ \A role \in Roles : Spare(b, "child", role) # {}

LEMMA PlacedWorks ==
  ASSUME NEW b, WellFormed(b), home \in Scenes(b), Mine(b) \cap Scenes(b) = {},
         NEW a \in Asset, Roomy(b, a), Rootable(b, RootOf(b))
  PROVE  LET p == Placed(b, a)  r == RootOf(b) IN
         /\ WellFormed(p) /\ Grown(b, p)
         /\ Taken(p) \subseteq Taken(b) \cup IdsOf("model") \cup IdsOf("root") \cup IdsOf("child")
         /\ Ready(p, r) /\ r \in TheClaims(p)
         /\ Ordered(b, r) => Orderly(p)
<1> DEFINE i == Imported(b, a)
           r == RootOf(b)
           m == New(b, "model", a)
           e == Ensured(i, r)
           f == WithChild(e, r, "Representations")
           parent == ChildOf(f, r, "Representations")
           n == New(f, "child", a)
           new == [c \in {n} |-> [Managed EXCEPT !.of = a]]
           p == WithColls(f, parent, new)
           os == DOMAIN i.objs \ DOMAIN b.objs
           q == Placed(b, a)
<1>1. q = Moved(p, n, os)
  BY DEF Placed, Moved
<1>2. /\ m \in IdsOf("model") \ Taken(b)
      /\ WellFormed(i) /\ Grown(b, i) /\ Taken(i) = Taken(b) \cup {m}
      /\ DOMAIN i.objs = DOMAIN b.objs \cup {m}
      /\ \A c \in DOMAIN b.colls \ {home} : i.colls[c] = b.colls[c]
      /\ TheClaims(i) = TheClaims(b)
      /\ Orderly(b) => Orderly(i)
  BY ImportedWorks DEF Roomy
<1> HIDE DEF q, i, r, m
<1>3. home \in Scenes(i)
  BY <1>2 DEF Scenes, Grown
<1>4. Rootable(i, r)
  <2>1. CASE r \in TheClaims(b) /\ \A c \in b.colls[r].kids : b.colls[c].mine
    <3>1. r \in Mine(b) /\ r \in DOMAIN b.colls /\ r # home
      BY <2>1 DEF TheClaims, Claiming, Mine
    <3>2. i.colls[r].kids = b.colls[r].kids /\ b.colls[r].kids \subseteq DOMAIN b.colls
      BY <1>2, <3>1 DEF WellFormed
    <3> QED
      BY <1>2, <2>1, <3>2 DEF Rootable, Grown
  <2>2. CASE r \in IdsOf("root") \ Taken(b)
    <3>1. r # m
      BY <1>2, <2>2 DEF IdsOf
    <3> QED
      BY <1>2, <2>2, <3>1 DEF Rootable
  <2> QED
    BY <2>1, <2>2 DEF Rootable, r
<1>5. ASSUME NEW role, Spare(b, "child", role) # {} PROVE Spare(i, "child", role) # {}
  <2>1. \A k \in 1..MaxAlike : <<"child", role, k>>[1] = "child"
    OBVIOUS
  <2>2. m[1] = "model"
    BY <1>2 DEF IdsOf
  <2>3. \A k \in 1..MaxAlike : <<"child", role, k>> \notin {m}
    BY <2>1, <2>2
  <2> QED
    BY <1>2, <1>5, <2>3, RoomStays
<1>6. /\ WellFormed(e) /\ Grown(i, e) /\ Taken(e) \subseteq Taken(i) \cup IdsOf("root") \cup RoleIds
      /\ Ready(e, r) /\ r \in TheClaims(e) /\ DOMAIN e.objs = DOMAIN i.objs
      /\ Ordered(i, r) => Orderly(e)
  <2>1. \A role \in Roles : Spare(i, "child", role) # {}
    BY <1>5 DEF Roomy
  <2> QED
    BY <1>2, <1>3, <1>4, <2>1, EnsuredWorks
<1> HIDE DEF e
<1>7. /\ WellFormed(f) /\ Grown(e, f) /\ Taken(f) \subseteq Taken(e) \cup RoleIds
      /\ Ready(f, r) /\ parent \in f.colls[r].kids /\ Ours(f, parent) /\ parent \in Subtree(f, r)
      /\ TheClaims(f) = TheClaims(e) /\ DOMAIN f.objs = DOMAIN e.objs
      /\ Orderly(e) /\ r \in TheClaims(e) => Orderly(f)
  <2>1. "Representations" \in Roles
    BY DEF Roles
  <2> QED
    BY <1>6, <2>1, ChildReady
<1> HIDE DEF f, parent
<1>8. Spare(f, "child", a) # {} /\ a \notin Roles
  <2>1. a \notin Roles
    BY SceneAssumption
  <2>2. \A k \in 1..MaxAlike : <<"child", a, k>>[1] = "child" /\ <<"child", a, k>>[2] = a
    OBVIOUS
  <2>3. \A k \in 1..MaxAlike : <<"child", a, k>> \notin IdsOf("root") \cup RoleIds
    BY <2>1, <2>2 DEF IdsOf, RoleIds
  <2>4. Taken(f) \subseteq Taken(i) \cup (IdsOf("root") \cup RoleIds)
    BY <1>6, <1>7
  <2>5. Spare(i, "child", a) # {}
    BY <1>5 DEF Roomy
  <2> QED
    BY <2>1, <2>3, <2>4, <2>5, RoomStays
<1>9. n \in IdsOf("child") \ Taken(f) /\ n[2] = a
  <2>1. n \notin Taken(f) /\ \E k \in 1..MaxAlike : n = <<"child", a, k>>
    BY <1>8, FreshIs
  <2>2. PICK k \in 1..MaxAlike : n = <<"child", a, k>>
    BY <2>1
  <2>3. <<"child", a, k>> \in Id
    BY DEF Id, Kind
  <2>4. <<"child", a, k>>[1] = "child" /\ <<"child", a, k>>[2] = a
    OBVIOUS
  <2> QED
    BY <2>1, <2>2, <2>3, <2>4 DEF IdsOf
<1> HIDE DEF n
<1>10. DOMAIN new = {n} /\ new[n] = [kids |-> {}, objs |-> {}, mine |-> TRUE, root |-> FALSE, role |-> "none", of |-> a]
  BY ManagedIs
<1>11. Recorded(f, new) /\ DOMAIN new \cap Scene = {}
  <2>1. [kids |-> {}, objs |-> {}, mine |-> TRUE, root |-> FALSE, role |-> "none", of |-> a] \in CollType
    BY DEF CollType
  <2>2. [kids |-> {}, objs |-> {}, mine |-> TRUE, root |-> FALSE, role |-> "none", of |-> a].kids = {}
    OBVIOUS
  <2>3. [kids |-> {}, objs |-> {}, mine |-> TRUE, root |-> FALSE, role |-> "none", of |-> a].objs = {}
    OBVIOUS
  <2> HIDE DEF new
  <2>4. new[n] \in CollType /\ new[n].kids = {} /\ new[n].objs = {}
    BY <1>10, <2>1, <2>2, <2>3
  <2>5. n \in Id /\ n \notin DOMAIN f.colls /\ n \notin Scene
    BY <1>9, KindsDiffer DEF IdsOf, Taken
  <2> QED
    BY <1>10, <2>4, <2>5 DEF Recorded
<1>12. new[n].mine /\ ~new[n].root /\ new[n].objs = {}
  BY <1>10
<1> HIDE DEF new
<1>13. /\ WellFormed(p) /\ Grown(f, p) /\ AddedColls(f, parent, new, p) /\ Taken(p) = Taken(f) \cup {n}
       /\ TheClaims(p) = TheClaims(f)
  <2>1. \A c \in DOMAIN new : ~(new[c].mine /\ new[c].root)
    BY <1>10, <1>12
  <2> QED
    BY <1>7, <1>10, <1>11, <2>1, CollsFit, CollsGrow, CollsAre, TakenByColls, ClaimsStay
<1>14. Orderly(f) => Orderly(p)
  <2>1. \A c \in DOMAIN new : ~(new[c].mine /\ new[c].root)
    BY <1>10, <1>12
  <2>2. r \in TheClaims(f) /\ parent \in Subtree(f, r)
    BY <1>6, <1>7
  <2> QED
    BY <1>7, <1>11, <2>1, <2>2, MembersOrder
<1> HIDE DEF p
<1>15. /\ p.colls[n] = new[n] /\ DOMAIN p.colls = DOMAIN f.colls \cup {n} /\ p.objs = f.objs
       /\ \A c \in DOMAIN f.colls : p.colls[c].kids \subseteq f.colls[c].kids \cup {n}
  <2>1. /\ p.colls[n] = new[n] /\ DOMAIN p.colls = DOMAIN f.colls \cup {n} /\ p.objs = f.objs
    BY <1>10, <1>13 DEF AddedColls
  <2>2. ASSUME NEW c \in DOMAIN f.colls PROVE p.colls[c].kids \subseteq f.colls[c].kids \cup {n}
    BY <1>10, <1>11, <1>13, <2>2 DEF AddedColls, Recorded, WellFormed, Grown
  <2> QED
    BY <2>1, <2>2
<1>16. Ready(p, r)
  <2>1. ASSUME NEW role \in Roles, Spare(f, "child", role) # {} PROVE Spare(p, "child", role) # {}
    <3>1. \A k \in 1..MaxAlike : <<"child", role, k>>[2] = role
      OBVIOUS
    <3>2. \A k \in 1..MaxAlike : <<"child", role, k>> \notin {n}
      BY <1>8, <1>9, <3>1
    <3> QED
      BY <1>13, <2>1, <3>2, RoomStays
  <2>2. \A c \in p.colls[r].kids \ f.colls[r].kids : p.colls[c].mine
    BY <1>7, <1>12, <1>15 DEF Ready
  <2> QED
    BY <1>7, <1>13, <2>1, <2>2, ReadyStays
<1>17. Grown(b, f) /\ Grown(b, p)
  <2>1. Grown(b, e)
    BY <1>2, <1>6, GrownAgain
  <2>2. Grown(b, f)
    BY <1>7, <2>1, GrownAgain
  <2> QED
    BY <1>13, <2>2, GrownAgain
<1>18. /\ n \in DOMAIN p.colls \ DOMAIN b.colls /\ p.colls[n].objs = {}
       /\ os \in SUBSET DOMAIN p.objs /\ os \cap DOMAIN b.objs = {}
  <2>1. n \notin DOMAIN b.colls
    BY <1>9, <1>17 DEF Grown, Taken
  <2> QED
    BY <1>6, <1>7, <1>12, <1>15, <2>1
<1> HIDE DEF os
<1>19. /\ WellFormed(q) /\ Grown(b, q) /\ Taken(q) = Taken(p)
       /\ DOMAIN q.colls = DOMAIN p.colls
       /\ \A c \in DOMAIN p.colls : /\ q.colls[c].kids = p.colls[c].kids /\ q.colls[c].mine = p.colls[c].mine
                                    /\ q.colls[c].role = p.colls[c].role
       /\ TheClaims(q) = TheClaims(p)
       /\ Orderly(p) => Orderly(q)
  BY <1>1, <1>13, <1>17, <1>18, MoveWorks
<1>20. Ready(q, r)
  <2>1. r \in DOMAIN p.colls /\ p.colls[r].kids \subseteq DOMAIN p.colls
    BY <1>13, <1>16 DEF Ready, WellFormed
  <2>2. \A role \in Roles : HasChild(p, r, role) => HasChild(q, r, role)
    BY <1>19, <2>1 DEF HasChild, ChildrenOf
  <2>3. \A role \in Roles : Spare(p, "child", role) # {} => Spare(q, "child", role) # {}
    BY <1>19 DEF Spare
  <2> QED
    BY <1>16, <1>19, <2>1, <2>2, <2>3 DEF Ready
<1>21. Taken(q) \subseteq Taken(b) \cup IdsOf("model") \cup IdsOf("root") \cup IdsOf("child")
  <2>1. RoleIds \subseteq IdsOf("child")
    BY DEF RoleIds, IdsOf
  <2> QED
    BY <1>2, <1>6, <1>7, <1>9, <1>13, <1>19, <2>1
<1>22. r \in TheClaims(q)
  BY <1>6, <1>7, <1>13, <1>19
<1>23. Ordered(b, r) => Orderly(q)
  <2>1. Ordered(b, r) => Ordered(i, r)
    BY <1>2 DEF Ordered
  <2> QED
    BY <1>6, <1>7, <1>14, <1>19, <2>1
<1>24. /\ WellFormed(q) /\ Grown(b, q)
       /\ Taken(q) \subseteq Taken(b) \cup IdsOf("model") \cup IdsOf("root") \cup IdsOf("child")
       /\ Ready(q, r) /\ r \in TheClaims(q)
       /\ Ordered(b, r) => Orderly(q)
  BY <1>19, <1>20, <1>21, <1>22, <1>23
<1> QED
  BY <1>24 DEF q, r

LEMMA ObjectsOrder ==
  ASSUME NEW d, WellFormed(d), NEW into, NEW new, Listed(d, new), Ours(d, into)
  PROVE  LET e == WithObjects(d, into, new) IN
         /\ TheClaims(e) = TheClaims(d)
         /\ Orderly(d) => Orderly(e)
<1> DEFINE e == WithObjects(d, into, new)
<1>1. AddedObjects(d, into, new, e) /\ Grown(d, e) /\ WellFormed(e) /\ into \in DOMAIN d.colls
  BY ObjectsAre, ObjectsGrow, ObjectsFit DEF Ours
<1> HIDE DEF e
<1>2. /\ DOMAIN e.colls = DOMAIN d.colls /\ DOMAIN e.objs = DOMAIN d.objs \cup DOMAIN new
      /\ e.meshes = (d.meshes \cup {new[o].mesh : o \in DOMAIN new}) \ {NoId}
      /\ \A o \in DOMAIN new : e.objs[o] = new[o]
      /\ e.colls[into] = [d.colls[into] EXCEPT !.objs = @ \cup DOMAIN new]
  BY <1>1 DEF AddedObjects
<1>3. DOMAIN new \subseteq e.colls[into].objs
  <2>1. d.colls[into] \in CollType
    BY <1>1 DEF WellFormed
  <2> QED
    BY <1>2, <2>1 DEF CollType
<1>4. TheClaims(e) = TheClaims(d)
  BY <1>1, <1>2 DEF TheClaims, Claiming, Grown
<1>5. ASSUME Orderly(d) PROVE Orderly(e)
  <2>1. Attached(d, e)
    BY <1>1, <1>2, <1>3 DEF Attached
  <2>2. Mine(e) \ DOMAIN d.colls = {}
    BY <1>2 DEF Mine
  <2>3. TheClaims(e) \subseteq e.colls[Original].kids /\ \A q, r \in TheClaims(e) : q = r
    BY <1>1, <1>4, <1>5 DEF Orderly, Grown
  <2> QED
    BY <1>1, <1>5, <2>1, <2>2, <2>3, OrderGrows
<1>6. TheClaims(e) = TheClaims(d) /\ (Orderly(d) => Orderly(e))
  BY <1>4, <1>5
<1> QED
  BY <1>6 DEF e

LEMMA MadeIs ==
  ASSUME NEW kind \in Kind, NEW mesh \in Id \cup {NoId}
  PROVE  Made(kind, mesh) \in ObjType /\ Made(kind, mesh).mesh = mesh /\ Made(kind, mesh).kind = kind
<1>1. UserObject = [mine |-> FALSE, kind |-> "user", mesh |-> NoId, cur |-> FALSE, lit |-> FALSE]
  BY DEF UserObject
<1> DEFINE cur == kind \in Controls
<1>2. cur \in BOOLEAN
  OBVIOUS
<1>3. Made(kind, mesh) = [UserObject EXCEPT !.mine = TRUE, !.kind = kind, !.mesh = mesh, !.cur = cur]
  BY DEF Made
<1> HIDE DEF cur
<1>4. Made(kind, mesh) = [mine |-> TRUE, kind |-> kind, mesh |-> mesh, cur |-> cur, lit |-> FALSE]
  BY <1>1, <1>3
<1> QED
  BY <1>2, <1>4 DEF ObjType

LEMMA MarkedWorks ==
  ASSUME NEW b, NEW d, WellFormed(b), WellFormed(d), Grown(b, d),
         NEW r, Ready(d, r), r \in TheClaims(d),
         NEW ms \in SUBSET Marker, \A m \in ms : Spare(d, "marker", m) # {}
  PROVE  LET e == Marked(d, r, ms) IN
         /\ WellFormed(e) /\ Grown(b, e) /\ r \in TheClaims(e)
         /\ Orderly(d) => Orderly(e)
<1> DEFINE s == WithChild(d, r, "Spatial")
           parent == ChildOf(s, r, "Spatial")
           new == [o \in {New(s, "marker", m) : m \in ms} |-> Made("marker", NoId)]
           e == Marked(d, r, ms)
<1>1. e = WithObjects(s, parent, new)
  BY DEF Marked
<1>2. /\ WellFormed(s) /\ Grown(d, s) /\ Taken(s) \subseteq Taken(d) \cup RoleIds
      /\ Ours(s, parent) /\ TheClaims(s) = TheClaims(d)
      /\ Orderly(d) /\ r \in TheClaims(d) => Orderly(s)
  <2>1. "Spatial" \in Roles
    BY DEF Roles
  <2> QED
    BY <2>1, ChildReady
<1> HIDE DEF e, s, parent
<1>3. ASSUME NEW m \in ms PROVE New(s, "marker", m) \in Id \ DOMAIN s.objs
  <2>1. \A k \in 1..MaxAlike : <<"marker", m, k>>[1] = "marker"
    OBVIOUS
  <2>2. \A k \in 1..MaxAlike : <<"marker", m, k>> \notin RoleIds
    BY <2>1 DEF RoleIds
  <2>3. Spare(s, "marker", m) # {}
    BY <1>2, <2>2, RoomStays
  <2>4. New(s, "marker", m) \notin Taken(s) /\ \E k \in 1..MaxAlike : New(s, "marker", m) = <<"marker", m, k>>
    BY <2>3, FreshIs
  <2>5. PICK k \in 1..MaxAlike : New(s, "marker", m) = <<"marker", m, k>>
    BY <2>4
  <2>6. <<"marker", m, k>> \in Id
    BY DEF Id, Kind
  <2> QED
    BY <2>4, <2>5, <2>6 DEF Taken
<1>4. Listed(s, new)
  <2>1. "marker" \in Kind /\ NoId \in Id \cup {NoId}
    BY DEF Kind
  <2>2. Made("marker", NoId) \in ObjType
    BY <2>1, MadeIs
  <2> QED
    BY <1>3, <2>2 DEF Listed
<1> HIDE DEF new
<1>5. WellFormed(e) /\ Grown(s, e) /\ TheClaims(e) = TheClaims(s) /\ (Orderly(s) => Orderly(e))
  BY <1>1, <1>2, <1>4, ObjectsFit, ObjectsGrow, ObjectsOrder DEF Ours
<1>6. Grown(b, e)
  <2>1. Grown(b, s)
    BY <1>2, GrownAgain
  <2> QED
    BY <1>5, <2>1, GrownAgain
<1>7. /\ WellFormed(e) /\ Grown(b, e) /\ r \in TheClaims(e)
      /\ Orderly(d) => Orderly(e)
  BY <1>2, <1>5, <1>6
<1> QED
  BY <1>7 DEF e

(* Taking away collections with all that is below them.                    *)
LEMMA OrderShrinks ==
  ASSUME NEW d, WellFormed(d), Orderly(d), NEW cs, NEW os,
         \A x \in DOMAIN d.colls \cap cs : d.colls[x].kids \subseteq cs, Original \notin cs,
         \A o \in DOMAIN d.objs \ os : \E c \in DOMAIN d.colls \ cs : o \in d.colls[c].objs,
         NEW e, WellFormed(e), e.colls = Without(d, cs, os).colls, e.objs = Without(d, cs, os).objs,
         \A m \in e.meshes : \E o \in DOMAIN e.objs : e.objs[o].mesh = m
  PROVE  Orderly(e) /\ TheClaims(e) = TheClaims(d) \ cs
<1>1. Trimmed(d, cs, os, Without(d, cs, os))
  BY WithoutIs
<1>2. /\ DOMAIN e.colls = DOMAIN d.colls \ cs /\ DOMAIN e.objs = DOMAIN d.objs \ os
      /\ \A c \in DOMAIN d.colls \ cs : e.colls[c] = [d.colls[c] EXCEPT !.kids = @ \ cs, !.objs = @ \ os]
  BY <1>1 DEF Trimmed
<1>3. ASSUME NEW c \in DOMAIN d.colls \ cs
      PROVE  /\ e.colls[c].kids = d.colls[c].kids \ cs /\ e.colls[c].objs = d.colls[c].objs \ os
             /\ e.colls[c].mine = d.colls[c].mine /\ e.colls[c].root = d.colls[c].root
  <2>1. d.colls[c] \in CollType
    BY DEF WellFormed
  <2>2. e.colls[c] = [d.colls[c] EXCEPT !.kids = @ \ cs, !.objs = @ \ os]
    BY <1>2
  <2> QED
    BY <2>1, <2>2 DEF CollType
<1>4. ASSUME NEW c \in DOMAIN d.colls \ cs PROVE Subtree(d, c) \ cs \subseteq Subtree(e, c)
  <2>1. \A x \in DOMAIN d.colls \ cs : d.colls[x].kids \ cs \subseteq e.colls[x].kids
    BY <1>3
  <2> QED
    BY <1>2, <2>1, ReachKept
<1>5. TheClaims(e) = TheClaims(d) \ cs
  BY <1>2, <1>3 DEF TheClaims, Claiming
<1>6. Original \in DOMAIN d.colls \ cs
  BY DEF Orderly
<1>7. DOMAIN e.colls \subseteq Subtree(e, Original)
  BY <1>2, <1>4, <1>6 DEF Orderly
<1>8. DOMAIN e.objs = ObjectsOf(e, DOMAIN e.colls)
  <2>1. ObjectsOf(e, DOMAIN e.colls) \subseteq DOMAIN e.objs
    BY DEF ObjectsOf, WellFormed
  <2>2. \A o \in DOMAIN d.objs \ os : \E c \in DOMAIN d.colls \ cs : o \in e.colls[c].objs
    BY <1>3
  <2> QED
    BY <1>2, <2>1, <2>2 DEF ObjectsOf
<1>9. \A q, r \in TheClaims(e) : q = r
  BY <1>5 DEF Orderly
<1>10. TheClaims(e) \subseteq e.colls[Original].kids
  BY <1>3, <1>5, <1>6 DEF Orderly
<1>11. ASSUME NEW c \in Mine(e) PROVE \E r \in TheClaims(e) : c \in Subtree(e, r)
  <2>1. c \in DOMAIN d.colls \ cs /\ c \in Mine(d)
    BY <1>2, <1>3 DEF Mine
  <2>2. PICK r \in TheClaims(d) : c \in Subtree(d, r)
    BY <2>1 DEF Orderly
  <2>3. r \in DOMAIN d.colls
    BY DEF TheClaims, Claiming
  <2>4. r \notin cs
    <3>1. ASSUME r \in cs PROVE FALSE
      <4>1. \A S : r \in S /\ (\A x \in S \cap DOMAIN d.colls : d.colls[x].kids \subseteq S)
                   => Subtree(d, r) \subseteq S
        BY <2>3, SubtreeIsLeast
      <4>2. Subtree(d, r) \subseteq cs
        BY <3>1, <4>1
      <4> QED
        BY <2>1, <2>2, <4>2
    <3> QED
      BY <3>1
  <2> QED
    BY <1>4, <1>5, <2>1, <2>2, <2>3, <2>4
<1>12. Original \in DOMAIN e.colls
  BY <1>2, <1>6
<1>13. Orderly(e)
  BY <1>7, <1>8, <1>9, <1>10, <1>11, <1>12 DEF Orderly
<1> QED
  BY <1>5, <1>13

LEMMA TidiedWorks ==
  ASSUME NEW b, NEW d, WellFormed(b), WellFormed(d), Grown(b, d),
         NEW keep, NEW r \in keep, r \in TheClaims(d)
  PROVE  LET e == Tidied(d, b, keep) IN
         /\ WellFormed(e) /\ Grown(b, e) /\ r \in TheClaims(e)
         /\ Orderly(d) => Orderly(e)
<1> DEFINE cs == {c \in DOMAIN d.colls \ (DOMAIN b.colls \cup keep) :
                    d.colls[c].objs = {} /\ d.colls[c].kids = {}}
           e == Tidied(d, b, keep)
<1>1. e = Without(d, cs, {})
  BY DEF Tidied
<1> HIDE DEF e
<1>2. cs \cap DOMAIN b.colls = {} /\ r \notin cs
  OBVIOUS
<1>3. \A c \in DOMAIN d.colls \cap cs : d.colls[c].kids \subseteq cs /\ d.colls[c].objs = {}
  OBVIOUS
<1> HIDE DEF cs
<1>4. WellFormed(e) /\ Grown(b, e) /\ Trimmed(d, cs, {}, e)
  BY <1>1, <1>2, WithoutFits, WithoutGrows, WithoutIs
<1>5. r \in TheClaims(e)
  <2>1. r \in DOMAIN d.colls \ cs /\ d.colls[r].mine /\ d.colls[r].root
    BY <1>2 DEF TheClaims, Claiming
  <2>2. e.colls[r] = [d.colls[r] EXCEPT !.kids = @ \ cs, !.objs = @ \ {}] /\ r \in DOMAIN e.colls
    BY <1>4, <2>1 DEF Trimmed
  <2>3. d.colls[r] \in CollType
    BY <2>1 DEF WellFormed
  <2>4. e.colls[r].mine /\ e.colls[r].root
    BY <2>1, <2>2, <2>3 DEF CollType
  <2> QED
    BY <2>2, <2>4 DEF TheClaims, Claiming
<1>6. ASSUME Orderly(d) PROVE Orderly(e)
  <2>1. Original \notin cs
    BY <1>2, <1>6 DEF Orderly, Grown, Scene
  <2>2. \A o \in DOMAIN d.objs \ {} : \E c \in DOMAIN d.colls \ cs : o \in d.colls[c].objs
    BY <1>3, <1>6 DEF Orderly, ObjectsOf
  <2>3. e.meshes = d.meshes /\ DOMAIN e.objs = DOMAIN d.objs /\ \A o \in DOMAIN d.objs : e.objs[o] = d.objs[o]
    BY <1>4 DEF Trimmed
  <2>4. \A m \in e.meshes : \E o \in DOMAIN e.objs : e.objs[o].mesh = m
    BY <1>6, <2>3 DEF Orderly
  <2>5. \A c \in DOMAIN d.colls \cap cs : d.colls[c].kids \subseteq cs
    BY <1>3
  <2> QED
    BY <1>1, <1>4, <1>6, <2>1, <2>2, <2>4, <2>5, OrderShrinks
<1>7. /\ WellFormed(e) /\ Grown(b, e) /\ r \in TheClaims(e)
      /\ Orderly(d) => Orderly(e)
  BY <1>4, <1>5, <1>6
<1> QED
  BY <1>7 DEF e

-----------------------------------------------------------------------------
(* The operators.                                                          *)
LEMMA RootIsRootable ==
  ASSUME NEW d, WellFormed(d), home \in Scenes(d), NEW h, CanEnsure(d, h), Spare(d, "root", "none") # {}
  PROVE  /\ Rootable(d, RootOf(d))
         /\ Orderly(d) /\ home = Original => Ordered(d, RootOf(d))
<1>1. home \in DOMAIN d.colls
  BY DEF Scenes
<1>2. Subtree(d, home) \subseteq DOMAIN d.colls
  BY <1>1, SubtreeIsLeast
<1>3. CASE HasRoot(d)
  <2>1. TheRoot(d) \in Roots(d, home)
    BY <1>3 DEF HasRoot, TheRoot
  <2>2. TheRoot(d) \in TheClaims(d) /\ TheRoot(d) \in DOMAIN d.colls
    BY <1>2, <2>1 DEF Roots, TheClaims, Claiming
  <2>3. OwnedBelow(d, TheRoot(d))
    BY <1>3, <2>1 DEF CanEnsure, Rootless
  <2>4. \A c \in d.colls[TheRoot(d)].kids : d.colls[c].mine
    BY <2>2, <2>3, SubtreeIsLeast DEF OwnedBelow
  <2>5. RootOf(d) = TheRoot(d)
    BY <1>3 DEF RootOf
  <2> QED
    BY <2>2, <2>4, <2>5 DEF Rootable, Ordered
<1>4. CASE ~HasRoot(d)
  <2>1. RootOf(d) \in IdsOf("root") \ Taken(d)
    <3>1. RootOf(d) = New(d, "root", "none")
      BY <1>4 DEF RootOf
    <3>2. RootOf(d) \notin Taken(d) /\ \E n \in 1..MaxAlike : RootOf(d) = <<"root", "none", n>>
      BY <3>1, FreshIs
    <3>3. PICK n \in 1..MaxAlike : RootOf(d) = <<"root", "none", n>>
      BY <3>2
    <3>4. <<"root", "none", n>> \in Id /\ <<"root", "none", n>>[1] = "root"
      BY DEF Id, Kind
    <3> QED
      BY <3>2, <3>3, <3>4 DEF IdsOf
  <2>2. Roots(d, home) = {}
    BY <1>4 DEF CanEnsure, Rootless
  <2>3. ASSUME Orderly(d), home = Original PROVE TheClaims(d) = {}
    <3>1. DOMAIN d.colls \subseteq Subtree(d, home)
      BY <2>3 DEF Orderly
    <3>2. \A c \in Subtree(d, home) : ~(d.colls[c].root /\ d.colls[c].mine)
      BY <2>2 DEF Roots, Claiming
    <3> QED
      BY <3>1, <3>2 DEF TheClaims, Claiming
  <2> QED
    BY <2>1, <2>3 DEF Rootable, Ordered
<1> QED
  BY <1>3, <1>4

(* Of a file in order there is a root of the session's when one is claimed. *)
LEMMA RootWhenClaimed ==
  ASSUME NEW d, WellFormed(d), Orderly(d), home = Original, Scenes(d) = {Original}
  PROVE  /\ HasRoot(d) <=> TheClaims(d) # {}
         /\ HasRoot(d) => TheRoot(d) \in TheClaims(d)
<1>1. Roots(d, home) = TheClaims(d) /\ TheClaims(d) \subseteq DOMAIN d.colls
  <2>1. Original \in DOMAIN d.colls
    BY DEF Orderly
  <2>2. Subtree(d, Original) = DOMAIN d.colls
    BY <2>1, SubtreeIsLeast DEF Orderly
  <2> QED
    BY <2>2 DEF Roots, TheClaims, Claiming
<1>2. ASSUME NEW r \in TheClaims(d) PROVE Owners(d, r) = {Original} /\ TheClaims(d) = {r}
  <2>1. r \in Subtree(d, Original)
    BY <1>1 DEF Orderly
  <2> QED
    BY <2>1 DEF Owners, Orderly
<1>3. HasRoot(d) <=> TheClaims(d) # {}
  BY <1>1, <1>2 DEF HasRoot
<1>4. HasRoot(d) => TheRoot(d) \in TheClaims(d)
  BY <1>1, <1>3 DEF TheRoot
<1> QED
  BY <1>3, <1>4

LEMMA LoadedWorks ==
  ASSUME NEW b, WellFormed(b), home \in Scenes(b), Mine(b) \cap Scenes(b) = {},
         NEW a \in Asset, Roomy(b, a), \A m \in Marker : Spare(b, "marker", m) # {},
         Rootable(b, RootOf(b)), modern \in BOOLEAN
  PROVE  LET e == Loaded(b, a) IN
         /\ WellFormed(e) /\ Grown(b, e) /\ RootOf(b) \in TheClaims(e)
         /\ Ordered(b, RootOf(b)) => Orderly(e)
         /\ \A ms \in SUBSET Marker :
              LET f == Marked(Placed(b, a), RootOf(b), ms) IN WellFormed(f) /\ Grown(b, f)
<1> DEFINE p == Placed(b, a)
           r == RootOf(b)
           m == IF modern THEN Marked(p, r, Marker) ELSE p
           keep == {r, ChildOf(m, r, "Representations")}
           e == Loaded(b, a)
<1>1. /\ WellFormed(p) /\ Grown(b, p)
      /\ Taken(p) \subseteq Taken(b) \cup IdsOf("model") \cup IdsOf("root") \cup IdsOf("child")
      /\ Ready(p, r) /\ r \in TheClaims(p)
      /\ Ordered(b, r) => Orderly(p)
  BY PlacedWorks
<1>2. e = Tidied(m, b, keep)
  BY DEF Loaded
<1> HIDE DEF p, r
<1>3. ASSUME NEW x \in Marker PROVE Spare(p, "marker", x) # {}
  <2>1. \A k \in 1..MaxAlike : <<"marker", x, k>>[1] = "marker"
    OBVIOUS
  <2>2. \A k \in 1..MaxAlike : <<"marker", x, k>> \notin IdsOf("model") \cup IdsOf("root") \cup IdsOf("child")
    BY <2>1 DEF IdsOf
  <2>3. Taken(p) \subseteq Taken(b) \cup (IdsOf("model") \cup IdsOf("root") \cup IdsOf("child"))
    BY <1>1
  <2> QED
    BY <2>2, <2>3, RoomStays
<1>4. ASSUME NEW ms \in SUBSET Marker
      PROVE  /\ WellFormed(Marked(p, r, ms)) /\ Grown(b, Marked(p, r, ms)) /\ r \in TheClaims(Marked(p, r, ms))
             /\ Orderly(p) => Orderly(Marked(p, r, ms))
  <2>1. \A x \in ms : Spare(p, "marker", x) # {}
    BY <1>3
  <2> QED
    BY <1>1, <2>1, MarkedWorks
<1>5. /\ WellFormed(m) /\ Grown(b, m) /\ r \in TheClaims(m)
      /\ Orderly(p) => Orderly(m)
  BY <1>1, <1>4
<1>6. r \in keep
  OBVIOUS
<1> HIDE DEF m, keep, e
<1>7. /\ WellFormed(e) /\ Grown(b, e) /\ r \in TheClaims(e)
      /\ Orderly(m) => Orderly(e)
  BY <1>2, <1>5, <1>6, TidiedWorks
<1>8. /\ WellFormed(e) /\ Grown(b, e) /\ r \in TheClaims(e)
      /\ Ordered(b, r) => Orderly(e)
      /\ \A ms \in SUBSET Marker : WellFormed(Marked(p, r, ms)) /\ Grown(b, Marked(p, r, ms))
  BY <1>1, <1>4, <1>5, <1>7
<1> QED
  BY <1>8 DEF e, p, r

LEMMA BoardWorks ==
  ASSUME NEW b, WellFormed(b), home \in Scenes(b), Rootable(b, RootOf(b)),
         \A role \in Roles : Spare(b, "child", role) # {},
         Spare(b, "gate", "none") # {}, Spare(b, "stop", "none") # {}
  PROVE  LET r == RootOf(b)
             d == WithChild(Ensured(b, r), r, "Controls")
             controls == ChildOf(d, r, "Controls")
             gate == New(d, "gate", "none")
             Holding(objs) == WithObjects(d, controls, [o \in objs |-> Made(o[1], gate)])
             first == Holding({gate})
             board == Holding({gate, New(d, "stop", "none")})
         IN  /\ \A w \in {d, board} : /\ WellFormed(w) /\ Grown(b, w) /\ r \in TheClaims(w)
                                      /\ Ordered(b, r) => Orderly(w)
             /\ Recoloured(d, WithoutUnused(Without(first, {}, {gate}), {gate}))
<1> DEFINE r == RootOf(b)
           e == Ensured(b, r)
           d == WithChild(e, r, "Controls")
           controls == ChildOf(d, r, "Controls")
           gate == New(d, "gate", "none")
           stop == New(d, "stop", "none")
           new(objs) == [o \in objs |-> Made(o[1], gate)]
           Holding(objs) == WithObjects(d, controls, [o \in objs |-> Made(o[1], gate)])
           first == Holding({gate})
           board == Holding({gate, stop})
<1> HIDE DEF r
<1>0. Rootable(b, r)
  BY DEF r
<1>1. /\ WellFormed(e) /\ Grown(b, e) /\ Taken(e) \subseteq Taken(b) \cup IdsOf("root") \cup RoleIds
      /\ Ready(e, r) /\ r \in TheClaims(e)
      /\ Ordered(b, r) => Orderly(e)
  BY <1>0, EnsuredWorks
<1> HIDE DEF e
<1>2. /\ WellFormed(d) /\ Grown(e, d) /\ Taken(d) \subseteq Taken(e) \cup RoleIds
      /\ Ours(d, controls) /\ TheClaims(d) = TheClaims(e)
      /\ Orderly(e) /\ r \in TheClaims(e) => Orderly(d)
  <2>1. "Controls" \in Roles
    BY DEF Roles
  <2> QED
    BY <1>1, <2>1, ChildReady
<1> HIDE DEF d, controls
<1>3. Grown(b, d) /\ r \in TheClaims(d) /\ (Ordered(b, r) => Orderly(d))
  BY <1>1, <1>2, GrownAgain
<1>4. ASSUME NEW kind \in {"gate", "stop"}, Spare(b, kind, "none") # {}
      PROVE  /\ New(d, kind, "none") \in Id \ Taken(d)
             /\ New(d, kind, "none")[1] = kind
  <2>1. \A k \in 1..MaxAlike : <<kind, "none", k>>[1] = kind
    OBVIOUS
  <2>2. \A k \in 1..MaxAlike : <<kind, "none", k>> \notin IdsOf("root") \cup RoleIds
    BY <2>1 DEF IdsOf, RoleIds
  <2>3. Taken(d) \subseteq Taken(b) \cup (IdsOf("root") \cup RoleIds)
    BY <1>1, <1>2
  <2>4. Spare(d, kind, "none") # {}
    BY <1>4, <2>2, <2>3, RoomStays
  <2>5. New(d, kind, "none") \notin Taken(d) /\ \E k \in 1..MaxAlike : New(d, kind, "none") = <<kind, "none", k>>
    BY <2>4, FreshIs
  <2>6. PICK k \in 1..MaxAlike : New(d, kind, "none") = <<kind, "none", k>>
    BY <2>5
  <2>7. <<kind, "none", k>> \in Id
    BY DEF Id, Kind
  <2> QED
    BY <2>1, <2>5, <2>6, <2>7
<1>5. /\ gate \in Id \ Taken(d) /\ gate[1] = "gate"
      /\ stop \in Id \ Taken(d) /\ stop[1] = "stop"
  BY <1>4
<1> HIDE DEF gate, stop
<1>6. ASSUME NEW objs \in SUBSET {gate, stop} PROVE Listed(d, new(objs))
  <2>1. \A o \in objs : o \in Id \ DOMAIN d.objs /\ o[1] \in Kind /\ gate \in Id \cup {NoId}
    BY <1>5 DEF Taken, Kind
  <2>2. \A o \in objs : Made(o[1], gate) \in ObjType
    BY <2>1, MadeIs
  <2> QED
    BY <2>1, <2>2 DEF Listed
<1>7. ASSUME NEW objs \in SUBSET {gate, stop}
      PROVE  /\ WellFormed(Holding(objs)) /\ Grown(d, Holding(objs)) /\ TheClaims(Holding(objs)) = TheClaims(d)
             /\ Orderly(d) => Orderly(Holding(objs))
  <2>1. Listed(d, new(objs))
    BY <1>6
  <2>2. Holding(objs) = WithObjects(d, controls, new(objs)) /\ controls \in DOMAIN d.colls
    BY <1>2 DEF Ours
  <2> HIDE DEF new, Holding
  <2> QED
    BY <1>2, <2>1, <2>2, ObjectsFit, ObjectsGrow, ObjectsOrder
<1>8. /\ WellFormed(board) /\ Grown(b, board) /\ r \in TheClaims(board)
      /\ Ordered(b, r) => Orderly(board)
  <2>1. {gate, stop} \in SUBSET {gate, stop}
    OBVIOUS
  <2>2. /\ WellFormed(board) /\ Grown(d, board) /\ TheClaims(board) = TheClaims(d)
        /\ Orderly(d) => Orderly(board)
    BY <1>7, <2>1
  <2> HIDE DEF board
  <2> QED
    BY <1>3, <2>2, GrownAgain
<1>9. Recoloured(d, WithoutUnused(Without(first, {}, {gate}), {gate}))
  <2>1. WellFormed(first) /\ Grown(d, first)
    <3>1. {gate} \in SUBSET {gate, stop}
      OBVIOUS
    <3> QED
      BY <1>7, <3>1
  <2>2. AddedObjects(d, controls, new({gate}), first)
    BY ObjectsAre
  <2>3. DOMAIN new({gate}) = {gate} /\ new({gate})[gate] = Made("gate", gate)
    BY <1>5
  <2>4. Made("gate", gate).mesh = gate
    <3>1. "gate" \in Kind /\ gate \in Id \cup {NoId}
      BY <1>5 DEF Kind
    <3> QED
      BY <3>1, MadeIs
  <2>5. PICK added : added = new({gate})
    OBVIOUS
  <2>6. DOMAIN added = {gate} /\ added[gate].mesh = gate /\ AddedObjects(d, controls, added, first)
    BY <2>2, <2>3, <2>4, <2>5
  <2> HIDE DEF first, new
  <2>7. {added[o].mesh : o \in DOMAIN added} = {gate}
    BY <2>6
  <2>8. /\ DOMAIN first.colls = DOMAIN d.colls /\ DOMAIN first.objs = DOMAIN d.objs \cup {gate}
        /\ first.meshes = (d.meshes \cup {gate}) \ {NoId}
    BY <2>6, <2>7 DEF AddedObjects
  <2>9. DOMAIN first.colls \ DOMAIN d.colls = {} /\ DOMAIN first.objs \ DOMAIN d.objs = {gate}
    BY <1>5, <2>8 DEF Taken
  <2>10. first.meshes \ d.meshes = {gate}
    BY <1>5, <2>8, NothingIsNoId DEF Taken
  <2>12. RolledBack(first, d) = WithoutUnused(Without(first, {}, {gate}), {gate})
    BY <2>9, <2>10 DEF RolledBack
  <2>13. Recoloured(d, RolledBack(first, d))
    BY <1>2, <2>1, RollbackRestores
  <2> QED
    BY <2>12, <2>13
<1>10. /\ \A w \in {d, board} : /\ WellFormed(w) /\ Grown(b, w) /\ r \in TheClaims(w)
                                /\ Ordered(b, r) => Orderly(w)
       /\ Recoloured(d, WithoutUnused(Without(first, {}, {gate}), {gate}))
  BY <1>2, <1>3, <1>8, <1>9
<1> QED
  BY <1>10 DEF r, e, d, controls, gate, stop

(* What a step of the add-on spares, and what it keeps.                    *)
Spared(d, e) ==
  /\ \A c \in DOMAIN d.colls \ Scene :
       ~d.colls[c].mine => c \in DOMAIN e.colls /\ e.colls[c] = d.colls[c]
  /\ \A o \in DOMAIN d.objs :
       (\/ ~d.objs[o].mine
        \/ \E c \in DOMAIN d.colls : ~d.colls[c].mine /\ o \in d.colls[c].objs)
       => /\ o \in DOMAIN e.objs
          /\ e.objs[o].mesh \in e.meshes \cup {NoId}

KeptBy(d, e) ==
  /\ WellFormed(e) /\ Spared(d, e)
  /\ Scenes(e) = Scenes(d)
  /\ Scenes(d) \cap Mine(d) = {} => Scenes(e) \cap Mine(e) = {}

LEMMA RecolouredSame ==
  ASSUME NEW d, WellFormed(d)
  PROVE  Recoloured(d, d)
BY DEF Recoloured, WellFormed

LEMMA GrownKeeps ==
  ASSUME NEW b, WellFormed(b), NEW w, WellFormed(w), Grown(b, w), NEW e, Recoloured(w, e)
  PROVE  KeptBy(b, e)
<1>1. WellFormed(e) /\ e.colls = w.colls /\ e.meshes = w.meshes /\ DOMAIN e.objs = DOMAIN w.objs
  BY RecolouredFits, RecolouredIs
<1>2. Spared(b, e)
  <2>1. ASSUME NEW c \in DOMAIN b.colls \ Scene, ~b.colls[c].mine
        PROVE  c \in DOMAIN e.colls /\ e.colls[c] = b.colls[c]
    BY <1>1, <2>1 DEF Grown
  <2>2. ASSUME NEW o \in DOMAIN b.objs PROVE o \in DOMAIN e.objs /\ e.objs[o].mesh \in e.meshes \cup {NoId}
    <3>1. o \in DOMAIN e.objs
      BY <1>1 DEF Grown
    <3> QED
      BY <1>1, <3>1 DEF WellFormed
  <2> QED
    BY <2>1, <2>2 DEF Spared
<1>3. Scenes(e) = Scenes(b)
  BY <1>1 DEF Scenes, Grown
<1>4. \A c \in Scenes(b) : c \in DOMAIN b.colls /\ e.colls[c].mine = b.colls[c].mine
  BY <1>1 DEF Scenes, Grown
<1>5. Scenes(b) \cap Mine(b) = {} => Scenes(e) \cap Mine(e) = {}
  BY <1>3, <1>4 DEF Mine
<1> QED
  BY <1>1, <1>2, <1>3, <1>5 DEF KeptBy

LEMMA RemovedWorks ==
  ASSUME NEW d, WellFormed(d), Scenes(d) \cap Mine(d) = {}, NEW c \in DOMAIN d.colls,
         OwnedBelow(d, c), NEW p, p \in Scene \/ d.colls[p].mine, LinkedOnlyFrom(d, c, {p})
  PROVE  LET e == Removed(d, c) IN
         /\ KeptBy(d, e)
         /\ Orderly(d) => Orderly(e) /\ TheClaims(e) = TheClaims(d) \ Subtree(d, c)
<1> DEFINE own == Subtree(d, c)
           objs == ObjectsOf(d, own)
           os == objs \ ObjectsOf(d, DOMAIN d.colls \ own)
           ms == {d.objs[o].mesh : o \in objs}
           w == Without(d, own, os)
           e == Removed(d, c)
<1>1. /\ e = WithoutUnused(w, ms)
      /\ own \subseteq DOMAIN d.colls /\ c \in own /\ \A x \in own : d.colls[x].kids \subseteq own
      /\ \A x \in own : d.colls[x].mine
      /\ \A o \in objs : d.objs[o].mine
      /\ \A x \in own : \A q \in Parents(d, x) : q \in own \/ q = p
  BY SubtreeIsLeast DEF Removed, OwnedBelow, LinkedOnlyFrom
<1>2. \A x \in DOMAIN d.colls : d.colls[x].objs \subseteq DOMAIN d.objs
  BY DEF WellFormed
<1>3. /\ \A o \in objs : \E x \in own : o \in d.colls[x].objs
      /\ \A x \in own : d.colls[x].objs \subseteq objs
      /\ \A x \in DOMAIN d.colls \ own : d.colls[x].objs \cap os = {}
      /\ \A o \in objs \ os : \E x \in DOMAIN d.colls \ own : o \in d.colls[x].objs
      /\ os \subseteq objs
  BY DEF ObjectsOf
<1>4. WellFormed(w) /\ Trimmed(d, own, os, w)
  BY WithoutFits, WithoutIs
<1> HIDE DEF w, e, own, objs, os
<1>5. /\ DOMAIN w.colls = DOMAIN d.colls \ own /\ DOMAIN w.objs = DOMAIN d.objs \ os /\ w.meshes = d.meshes
      /\ \A x \in DOMAIN d.colls \ own : w.colls[x] = [d.colls[x] EXCEPT !.kids = @ \ own, !.objs = @ \ os]
      /\ \A o \in DOMAIN d.objs \ os : w.objs[o] = d.objs[o]
  BY <1>4 DEF Trimmed
<1>6. /\ WellFormed(e) /\ e.colls = w.colls /\ e.objs = w.objs
      /\ e.meshes = w.meshes \ {m \in ms : \A o \in DOMAIN w.objs : w.objs[o].mesh # m}
  BY <1>1, <1>4, UnusedFit
<1>7. Spared(d, e)
  <2>1. ASSUME NEW x \in DOMAIN d.colls \ Scene, ~d.colls[x].mine
        PROVE  x \in DOMAIN e.colls /\ e.colls[x] = d.colls[x]
    <3>1. x \in DOMAIN d.colls \ own
      BY <1>1, <2>1
    <3>2. d.colls[x].kids \cap own = {}
      <4>1. ASSUME NEW y \in own, y \in d.colls[x].kids PROVE FALSE
        <5>1. x \in Parents(d, y)
          BY <4>1 DEF Parents
        <5>2. x = p
          BY <1>1, <3>1, <5>1
        <5> QED
          BY <2>1, <5>2
      <4> QED
        BY <4>1
    <3>3. d.colls[x] \in CollType /\ d.colls[x].kids \ own = d.colls[x].kids /\ d.colls[x].objs \ os = d.colls[x].objs
      BY <1>3, <3>1, <3>2 DEF WellFormed
    <3>4. w.colls[x] = [d.colls[x] EXCEPT !.kids = @ \ own, !.objs = @ \ os]
      BY <1>5, <3>1
    <3>5. w.colls[x] = d.colls[x]
      BY <3>3, <3>4 DEF CollType
    <3> QED
      BY <1>5, <1>6, <3>1, <3>5
  <2>2. ASSUME NEW o \in DOMAIN d.objs,
               ~d.objs[o].mine \/ \E x \in DOMAIN d.colls : ~d.colls[x].mine /\ o \in d.colls[x].objs
        PROVE  o \in DOMAIN e.objs /\ e.objs[o].mesh \in e.meshes \cup {NoId}
    <3>1. o \notin os
      BY <1>1, <1>3, <2>2
    <3>2. o \in DOMAIN e.objs
      BY <1>5, <1>6, <3>1
    <3> QED
      BY <1>6, <3>2 DEF WellFormed
  <2> QED
    BY <2>1, <2>2 DEF Spared
<1>8. ASSUME NEW x \in DOMAIN d.colls \ own PROVE e.colls[x].mine = d.colls[x].mine
  <2>1. d.colls[x] \in CollType
    BY DEF WellFormed
  <2>2. e.colls[x] = [d.colls[x] EXCEPT !.kids = @ \ own, !.objs = @ \ os]
    BY <1>5, <1>6
  <2> QED
    BY <2>1, <2>2 DEF CollType
<1>9. Scenes(e) = Scenes(d) /\ Scenes(e) \cap Mine(e) = {}
  <2>1. Scene \cap own = {}
    BY <1>1 DEF Scenes, Mine
  <2> QED
    BY <1>5, <1>6, <1>8, <2>1 DEF Scenes, Mine
<1>10. KeptBy(d, e)
  BY <1>6, <1>7, <1>9 DEF KeptBy
<1>11. ASSUME Orderly(d) PROVE Orderly(e) /\ TheClaims(e) = TheClaims(d) \ own
  <2>1. Original \notin own
    BY <1>1, <1>11 DEF Orderly, Scenes, Mine, Scene
  <2>2. \A o \in DOMAIN d.objs \ os : \E x \in DOMAIN d.colls \ own : o \in d.colls[x].objs
    <3>1. ASSUME NEW o \in DOMAIN d.objs \ os PROVE \E x \in DOMAIN d.colls \ own : o \in d.colls[x].objs
      <4>1. PICK x \in DOMAIN d.colls : o \in d.colls[x].objs
        BY <1>11 DEF Orderly, ObjectsOf
      <4> QED
        BY <1>3, <4>1
    <3> QED
      BY <3>1
  <2>3. ASSUME NEW m \in e.meshes PROVE \E o \in DOMAIN e.objs : e.objs[o].mesh = m
    <3>1. m \in d.meshes
      BY <1>5, <1>6
    <3>2. PICK o \in DOMAIN d.objs : d.objs[o].mesh = m
      BY <1>11, <3>1 DEF Orderly
    <3>3. CASE o \in os
      BY <1>3, <1>6, <3>2, <3>3
    <3>4. CASE o \notin os
      BY <1>5, <1>6, <3>2, <3>4
    <3> QED
      BY <3>3, <3>4
  <2>4. \A x \in DOMAIN d.colls \cap own : d.colls[x].kids \subseteq own
    BY <1>1
  <2>5. e.colls = Without(d, own, os).colls /\ e.objs = Without(d, own, os).objs
    BY <1>6 DEF w
  <2> QED
    BY <1>6, <1>11, <2>1, <2>2, <2>3, <2>4, <2>5, OrderShrinks
<1>12. KeptBy(d, e) /\ (Orderly(d) => Orderly(e) /\ TheClaims(e) = TheClaims(d) \ own)
  BY <1>10, <1>11
<1> QED
  BY <1>12 DEF e, own

LEMMA TheRootIsThere ==
  ASSUME NEW d, WellFormed(d), home \in Scenes(d), HasRoot(d)
  PROVE  TheRoot(d) \in DOMAIN d.colls /\ TheRoot(d) \in Id /\ TheRoot(d) \in TheClaims(d)
<1>1. TheRoot(d) \in Roots(d, home)
  BY DEF HasRoot, TheRoot
<1>2. Subtree(d, home) \subseteq DOMAIN d.colls
  BY SubtreeIsLeast DEF Scenes
<1> QED
  BY <1>1, <1>2 DEF Roots, Claiming, TheClaims, WellFormed

Known == hint # NoId <=> TheClaims(data) # {}

LEMMA AdapterKeeps ==
  ASSUME SceneInv, KeptBy(data, data'), UNCHANGED <<modern, home, origin, named, edits>>,
         live' \in BOOLEAN, active' \in BOOLEAN, claims' \subseteq Scene,
         hint' \in Id \cup {NoId}, guarded' \subseteq Asset,
         Orderly(data) /\ home = Original /\ Scenes(data) = {Original} /\ (live => Known)
           => Orderly(data') /\ (live' => Known')
  PROVE  SceneInv' /\ Spared(data, data')
<1>1. SceneTypeOK'
  BY DEF SceneInv, SceneTypeOK, KeptBy
<1>2. (Scenes(data) \cap Mine(data) = {})' /\ (Scenes(data) = {Original} => home = Original)'
  BY DEF SceneInv, KeptBy
<1>3. Untouched' => Untouched
  BY DEF Untouched, KeptBy
<1>4. Untouched' => Orderly(data') /\ (live' => Known')
  BY <1>3 DEF SceneInv, Untouched, Known
<1>5. (Untouched => Orderly(data) /\ (live => (hint # NoId <=> TheClaims(data) # {})))'
  BY <1>4 DEF Known
<1> QED
  BY <1>1, <1>2, <1>5 DEF SceneInv, KeptBy

LEMMA LoadRepresentationKeeps ==
  ASSUME SceneInv, NEW a \in Asset, LoadRepresentation(a)
  PROVE  SceneInv' /\ Spared(data, data')
<1> DEFINE r == RootOf(data)
           e == Loaded(data, a)
<1>1. WellFormed(data) /\ home \in Scenes(data) /\ Mine(data) \cap Scenes(data) = {} /\ modern \in BOOLEAN
  BY DEF SceneInv, SceneTypeOK, LoadRepresentation, CanLoad, Here
<1>2. Roomy(data, a) /\ (\A m \in Marker : Spare(data, "marker", m) # {}) /\ Spare(data, "root", "none") # {}
  BY DEF LoadRepresentation, CanLoad, Room, Roomy
<1>3. CanEnsure(data, hint) /\ data' = e /\ hint' = r /\ guarded' = guarded \cup {a} /\ UNCHANGED session
  BY DEF LoadRepresentation
<1>4. Rootable(data, r) /\ (Orderly(data) /\ home = Original => Ordered(data, r))
  BY <1>1, <1>2, <1>3, RootIsRootable
<1>5. /\ WellFormed(e) /\ Grown(data, e) /\ r \in TheClaims(e)
      /\ Ordered(data, r) => Orderly(e)
  BY <1>1, <1>2, <1>4, LoadedWorks
<1> HIDE DEF e, r
<1>6. KeptBy(data, data')
  BY <1>1, <1>3, <1>5, RecolouredSame, GrownKeeps
<1>7. r \in Id /\ r # NoId
  BY <1>5, NothingIsNoId DEF TheClaims, Claiming, WellFormed
<1>8. Orderly(data) /\ home = Original => Orderly(data') /\ Known'
  BY <1>3, <1>4, <1>5, <1>7 DEF Known
<1> QED
  BY <1>3, <1>6, <1>7, <1>8, AdapterKeeps DEF session, SceneInv, SceneTypeOK

LEMMA LoadFailsRestores ==
  ASSUME SceneInv, NEW a \in Asset, LoadFails(a)
  PROVE  /\ Untagged(data') = Untagged(data) /\ Recoloured(data, data')
         /\ SceneInv' /\ Spared(data, data')
<1>1. WellFormed(data) /\ home \in Scenes(data) /\ Mine(data) \cap Scenes(data) = {} /\ modern \in BOOLEAN
  BY DEF SceneInv, SceneTypeOK, LoadFails, CanLoad, Here
<1>2. /\ Roomy(data, a) /\ (\A m \in Marker : Spare(data, "marker", m) # {}) /\ Spare(data, "root", "none") # {}
      /\ Spare(data, "model", a) # {}
  BY DEF LoadFails, CanLoad, Room, Roomy
<1>3. \E w : WellFormed(w) /\ Grown(data, w) /\ data' = RolledBack(w, data)
  <2>1. CASE data' = RolledBack(Imported(data, a), data)
    <3>1. WellFormed(Imported(data, a)) /\ Grown(data, Imported(data, a))
      BY <1>1, <1>2, ImportedWorks
    <3> QED
      BY <2>1, <3>1
  <2>2. CASE CanEnsure(data, hint) /\ \E ms \in SUBSET Marker :
                 data' = RolledBack(Marked(Placed(data, a), RootOf(data), ms), data)
    <3>1. Rootable(data, RootOf(data))
      BY <1>1, <1>2, <2>2, RootIsRootable
    <3>2. \A ms \in SUBSET Marker :
            LET f == Marked(Placed(data, a), RootOf(data), ms) IN WellFormed(f) /\ Grown(data, f)
      BY <1>1, <1>2, <3>1, LoadedWorks
    <3> QED
      BY <2>2, <3>2
  <2> QED
    BY <2>1, <2>2 DEF LoadFails
<1>4. Untagged(data') = Untagged(data) /\ Recoloured(data, data') /\ WellFormed(data')
  BY <1>1, <1>3, RollbackRestores
<1>5. KeptBy(data, data')
  BY <1>1, <1>4, GrownSame, GrownKeeps
<1>6. home \in Scenes(data')
  BY <1>1, <1>5 DEF KeptBy
<1>7. hint' = (IF HasRoot(data') THEN TheRoot(data') ELSE NoId) /\ guarded' = guarded \ {a} /\ UNCHANGED session
  BY DEF LoadFails
<1>8. hint' \in Id \cup {NoId} /\ (hint' # NoId <=> HasRoot(data'))
  BY <1>4, <1>6, <1>7, TheRootIsThere, NothingIsNoId
<1>9. ASSUME Orderly(data), home = Original, Scenes(data) = {Original}
      PROVE  Orderly(data') /\ Known'
  <2>1. Orderly(data') /\ Scenes(data') = {Original}
    BY <1>1, <1>4, <1>9, RecolouredOrder
  <2>2. HasRoot(data') <=> TheClaims(data') # {}
    BY <1>4, <1>9, <2>1, RootWhenClaimed
  <2> QED
    BY <1>8, <2>1, <2>2 DEF Known
<1>10. SceneInv' /\ Spared(data, data')
  BY <1>5, <1>7, <1>8, <1>9, AdapterKeeps DEF session, SceneInv, SceneTypeOK
<1> QED
  BY <1>4, <1>10

LEMMA CreateControlsKeeps ==
  ASSUME SceneInv, CreateControls
  PROVE  SceneInv' /\ Spared(data, data')
<1> DEFINE r == RootOf(data)
           d == WithChild(Ensured(data, r), r, "Controls")
           controls == ChildOf(d, r, "Controls")
           gate == New(d, "gate", "none")
           Holding(objs) == WithObjects(d, controls, [o \in objs |-> Made(o[1], gate)])
           first == Holding({gate})
           board == Holding({gate, New(d, "stop", "none")})
           undone == WithoutUnused(Without(first, {}, {gate}), {gate})
<1>1. WellFormed(data) /\ home \in Scenes(data) /\ Mine(data) \cap Scenes(data) = {} /\ active \in BOOLEAN
  BY DEF SceneInv, SceneTypeOK, CreateControls, Here
<1>2. /\ Spare(data, "gate", "none") # {} /\ Spare(data, "stop", "none") # {} /\ Spare(data, "root", "none") # {}
      /\ \A role \in Roles : Spare(data, "child", role) # {}
      /\ CanEnsure(data, hint) /\ hint' = r /\ UNCHANGED <<session, guarded>>
  BY DEF CreateControls, Room
<1>3. Rootable(data, r) /\ (Orderly(data) /\ home = Original => Ordered(data, r))
  BY <1>1, <1>2, RootIsRootable
<1>4. data' = Updated(d, active) \/ data' = Updated(board, active) \/ data' = undone
  BY DEF CreateControls
<1>5. /\ \A w \in {d, board} : /\ WellFormed(w) /\ Grown(data, w) /\ r \in TheClaims(w)
                               /\ Ordered(data, r) => Orderly(w)
      /\ Recoloured(d, undone)
  BY <1>1, <1>2, <1>3, BoardWorks
<1> HIDE DEF d, board, undone, r
<1>6. PICK w \in {d, board} : Recoloured(w, data')
  <2>1. Recoloured(d, Updated(d, active)) /\ Recoloured(board, Updated(board, active))
    BY <1>1, <1>5, UpdatesRecolour
  <2> QED
    BY <1>4, <1>5, <2>1
<1>7. WellFormed(w) /\ Grown(data, w) /\ r \in TheClaims(w) /\ (Ordered(data, r) => Orderly(w))
  BY <1>5
<1>8. KeptBy(data, data')
  BY <1>1, <1>6, <1>7, GrownKeeps
<1>9. TheClaims(data') = TheClaims(w) /\ (Orderly(w) => Orderly(data'))
  BY <1>6, <1>7, RecolouredOrder
<1>10. r \in Id /\ r # NoId
  BY <1>7, NothingIsNoId DEF TheClaims, Claiming, WellFormed
<1>11. Orderly(data) /\ home = Original => Orderly(data') /\ Known'
  BY <1>2, <1>3, <1>7, <1>9, <1>10 DEF Known
<1> QED
  BY <1>2, <1>8, <1>10, <1>11, AdapterKeeps DEF session, SceneInv, SceneTypeOK

LEMMA ToggleKeeps ==
  ASSUME SceneInv, ToggleSelection
  PROVE  SceneInv' /\ Spared(data, data')
<1>1. WellFormed(data) /\ home \in Scenes(data) /\ active' \in BOOLEAN
  BY DEF SceneInv, SceneTypeOK, ToggleSelection, Here
<1>2. data' = Updated(data, active') /\ hint' = (IF HasRoot(data) THEN TheRoot(data) ELSE hint)
  BY DEF ToggleSelection
<1>3. Recoloured(data, data')
  BY <1>1, <1>2, UpdatesRecolour
<1>4. KeptBy(data, data') /\ TheClaims(data') = TheClaims(data) /\ (Orderly(data) => Orderly(data'))
  BY <1>1, <1>3, GrownSame, GrownKeeps, RecolouredOrder
<1>5. HasRoot(data) => TheRoot(data) \in Id /\ TheRoot(data) \in TheClaims(data)
  BY <1>1, TheRootIsThere
<1>6. hint' \in Id \cup {NoId}
  BY <1>2, <1>5 DEF SceneInv, SceneTypeOK
<1>7. Known => Known'
  BY <1>2, <1>4, <1>5, NothingIsNoId DEF Known
<1>8. live /\ UNCHANGED <<modern, live, home, origin, claims, named, edits, guarded>>
  BY DEF ToggleSelection, Here
<1> QED
  BY <1>1, <1>4, <1>6, <1>7, <1>8, AdapterKeeps DEF SceneInv, SceneTypeOK

LEMMA RemoveRepresentationKeeps ==
  ASSUME SceneInv, NEW a \in Asset, RemoveRepresentation(a)
  PROVE  SceneInv' /\ Spared(data, data')
<1> DEFINE r == TheRoot(data)
           parent == ChildOf(data, r, "Representations")
<1>1. WellFormed(data) /\ home \in Scenes(data) /\ Scenes(data) \cap Mine(data) = {}
  BY DEF SceneInv, SceneTypeOK, RemoveRepresentation, Here
<1>2. HasRoot(data) /\ HasChild(data, r, "Representations")
  BY DEF RemoveRepresentation, IsShown
<1>3. r \in DOMAIN data.colls /\ r \in Id /\ r \in TheClaims(data)
  BY <1>1, <1>2, TheRootIsThere
<1>4. parent \in data.colls[r].kids
  BY <1>2 DEF HasChild, ChildOf, ChildrenOf
<1>5. PICK c \in data.colls[parent].kids :
        /\ OwnedBelow(data, c) /\ LinkedOnlyFrom(data, c, {parent}) /\ data' = Removed(data, c)
        /\ data.colls[parent].mine
  BY DEF RemoveRepresentation
<1>6. hint' = r /\ UNCHANGED <<session, guarded>>
  BY DEF RemoveRepresentation
<1> HIDE DEF r, parent
<1>7. parent \in DOMAIN data.colls /\ c \in DOMAIN data.colls
  BY <1>1, <1>3, <1>4, <1>5 DEF WellFormed
<1>8. /\ KeptBy(data, data')
      /\ Orderly(data) => Orderly(data') /\ TheClaims(data') = TheClaims(data) \ Subtree(data, c)
  BY <1>1, <1>5, <1>7, RemovedWorks
<1>9. ASSUME Orderly(data), Scenes(data) = {Original} PROVE Orderly(data') /\ Known'
  <2>1. r \notin Subtree(data, c)
    <3>1. ASSUME r \in Subtree(data, c) PROVE FALSE
      <4>1. Original \in Parents(data, r) /\ ~data.colls[Original].mine
        BY <1>1, <1>3, <1>9 DEF Orderly, Parents, Scenes, Mine
      <4>2. Original \in Subtree(data, c) \/ Original = parent
        BY <1>5, <3>1, <4>1 DEF LinkedOnlyFrom
      <4> QED
        BY <1>5, <4>1, <4>2 DEF OwnedBelow
    <3> QED
      BY <3>1
  <2>2. r \in TheClaims(data')
    BY <1>3, <1>8, <1>9, <2>1
  <2> QED
    BY <1>3, <1>6, <1>8, <1>9, <2>2, NothingIsNoId DEF Known
<1> QED
  BY <1>3, <1>6, <1>8, <1>9, AdapterKeeps DEF session, SceneInv, SceneTypeOK

LEMMA RemoveMaterializationKeeps ==
  ASSUME SceneInv, RemoveMaterialization
  PROVE  SceneInv' /\ Spared(data, data')
<1> DEFINE r == TheRoot(data)
<1>1. WellFormed(data) /\ home \in Scenes(data) /\ Scenes(data) \cap Mine(data) = {} /\ home \in Scene
  BY DEF SceneInv, SceneTypeOK, RemoveMaterialization, Here
<1>2. HasRoot(data) /\ OwnedBelow(data, r) /\ LinkedOnlyFrom(data, r, {home}) /\ data' = Removed(data, r)
  BY DEF RemoveMaterialization
<1>3. hint' = NoId /\ guarded' = {} /\ UNCHANGED session
  BY DEF RemoveMaterialization
<1>4. r \in DOMAIN data.colls /\ r \in TheClaims(data)
  BY <1>1, <1>2, TheRootIsThere
<1> HIDE DEF r
<1>5. /\ KeptBy(data, data')
      /\ Orderly(data) => Orderly(data') /\ TheClaims(data') = TheClaims(data) \ Subtree(data, r)
  BY <1>1, <1>2, <1>4, RemovedWorks
<1>6. ASSUME Orderly(data) PROVE Orderly(data') /\ Known'
  <2>1. r \in Subtree(data, r) /\ \A q \in TheClaims(data) : q = r
    BY <1>1, <1>4, <1>6, SubtreeIsLeast DEF Orderly
  <2>2. TheClaims(data') = {}
    BY <1>5, <1>6, <2>1
  <2> QED
    BY <1>3, <1>5, <1>6, <2>2 DEF Known
<1> QED
  BY <1>3, <1>5, <1>6, AdapterKeeps DEF session, SceneInv, SceneTypeOK

LEMMA RemoveDetachedKeeps ==
  ASSUME SceneInv, RemoveDetached
  PROVE  SceneInv' /\ Spared(data, data')
<1>1. WellFormed(data) /\ Scenes(data) \cap Mine(data) = {}
  BY DEF SceneInv, SceneTypeOK
<1>2. PICK r \in TheClaims(data), s \in Scenes(data) :
        /\ TheClaims(data) = {r} /\ OwnedBelow(data, r) /\ LinkedOnlyFrom(data, r, {s}) /\ data' = Removed(data, r)
  BY DEF RemoveDetached, TheClaims
<1>3. (~live \/ hint = NoId) /\ UNCHANGED <<session, hint, guarded>>
  BY DEF RemoveDetached
<1>4. r \in DOMAIN data.colls /\ s \in Scene
  BY DEF TheClaims, Claiming, Scenes
<1>5. /\ KeptBy(data, data')
      /\ Orderly(data) => Orderly(data') /\ TheClaims(data') = TheClaims(data) \ Subtree(data, r)
  BY <1>1, <1>2, <1>4, RemovedWorks
<1>6. ASSUME Orderly(data) PROVE Orderly(data') /\ (live' => Known')
  <2>1. r \in Subtree(data, r)
    BY <1>1, <1>4, SubtreeIsLeast
  <2>2. TheClaims(data') = {}
    BY <1>2, <1>5, <1>6, <2>1
  <2> QED
    BY <1>3, <1>5, <1>6, <2>2 DEF Known, session
<1> QED
  BY <1>3, <1>5, <1>6, AdapterKeeps DEF session, SceneInv, SceneTypeOK

LEMMA CloseKeeps ==
  ASSUME SceneInv, Close
  PROVE  SceneInv' /\ Spared(data, data')
<1>1. WellFormed(data)
  BY DEF SceneInv, SceneTypeOK
<1>2. /\ live' = FALSE /\ claims' = claims \ {home} /\ active' = FALSE /\ hint' = NoId /\ guarded' = {}
      /\ data' = Untagged(data) /\ UNCHANGED <<modern, home, origin, named, edits>>
  BY DEF Close
<1>3. Recoloured(data, data')
  BY <1>1, <1>2, UntaggedRecolours
<1>4. KeptBy(data, data') /\ (Orderly(data) => Orderly(data'))
  BY <1>1, <1>3, GrownSame, GrownKeeps, RecolouredOrder
<1> QED
  BY <1>2, <1>4, AdapterKeeps DEF SceneInv, SceneTypeOK

LEMMA RelinkKeeps ==
  ASSUME SceneInv, Relink
  PROVE  SceneInv' /\ Spared(data, data')
<1>1. WellFormed(data)
  BY DEF SceneInv, SceneTypeOK
<1>9. PICK s \in Scenes(data) : \E r \in Roots(data, s) :
        live' = TRUE /\ home' = s /\ origin' = s /\ named' = s /\ claims' = {s} /\ hint' = r
  BY DEF Relink
<1>2. PICK r \in Roots(data, s) :
        live' = TRUE /\ home' = s /\ origin' = s /\ named' = s /\ claims' = {s} /\ hint' = r
  BY <1>9
<1>3. UNCHANGED <<data, modern, guarded, active, edits>>
  BY DEF Relink
<1>4. s \in Scene /\ r \in Id /\ r \in TheClaims(data)
  <2>1. s \in DOMAIN data.colls /\ s \in Scene
    BY DEF Scenes
  <2> QED
    BY <1>1, <2>1, SubtreeIsLeast DEF Roots, TheClaims, Claiming, WellFormed
<1>5. SceneTypeOK'
  BY <1>2, <1>3, <1>4 DEF SceneInv, SceneTypeOK
<1>6. (Scenes(data) \cap Mine(data) = {})' /\ (Scenes(data) = {Original} => home = Original)'
  BY <1>2, <1>3 DEF SceneInv
<1>7. (Untouched => Orderly(data) /\ (live => (hint # NoId <=> TheClaims(data) # {})))'
  BY <1>2, <1>3, <1>4, NothingIsNoId DEF SceneInv, Untouched
<1>8. Spared(data, data')
  BY <1>1, <1>3 DEF Spared, WellFormed
<1> QED
  BY <1>5, <1>6, <1>7, <1>8 DEF SceneInv

LEMMA RebindKeeps ==
  ASSUME SceneInv, Rebind
  PROVE  SceneInv' /\ Spared(data, data')
<1>1. WellFormed(data)
  BY DEF SceneInv, SceneTypeOK
<1>2. /\ home \notin Scenes(data) /\ named \in Scenes(data) /\ home' = named
      /\ UNCHANGED <<data, modern, live, origin, claims, named, hint, guarded, active, edits>>
  BY DEF Rebind
<1>3. SceneTypeOK'
  BY <1>2 DEF SceneInv, SceneTypeOK, Scenes
<1>4. (Scenes(data) \cap Mine(data) = {})' /\ (Scenes(data) = {Original} => home = Original)'
  BY <1>2 DEF SceneInv
<1>5. (Untouched => Orderly(data) /\ (live => (hint # NoId <=> TheClaims(data) # {})))'
  BY <1>2 DEF SceneInv, Untouched
<1>6. Spared(data, data')
  BY <1>1, <1>2 DEF Spared, WellFormed
<1> QED
  BY <1>3, <1>4, <1>5, <1>6 DEF SceneInv

-----------------------------------------------------------------------------
(* The user's edits.                                                       *)
EditedAt(d, c, kids, objs, e) ==
  e = [d EXCEPT !.colls[c] = [d.colls[c] EXCEPT !.kids = kids, !.objs = objs]]

LEMMA CollectionEdited ==
  ASSUME NEW d, WellFormed(d), NEW c \in DOMAIN d.colls,
         NEW kids \in SUBSET DOMAIN d.colls, NEW objs \in SUBSET DOMAIN d.objs,
         NEW e, EditedAt(d, c, kids, objs, e)
  PROVE  WellFormed(e) /\ DOMAIN e.colls = DOMAIN d.colls /\ Mine(e) = Mine(d)
<1> DEFINE v == [d.colls[c] EXCEPT !.kids = kids, !.objs = objs]
           colls == [d.colls EXCEPT ![c] = v]
<1>1. d.colls[c] \in CollType /\ DOMAIN d.colls \subseteq Id /\ DOMAIN d.objs \subseteq Id
  BY DEF WellFormed
<1>2. v \in CollType /\ v.kids = kids /\ v.objs = objs /\ v.mine = d.colls[c].mine
  BY <1>1 DEF CollType
<1>3. e = [d EXCEPT !.colls = colls]
  BY DEF EditedAt
<1> HIDE DEF v
<1>4. colls \in [DOMAIN d.colls -> CollType] /\ colls[c] = v /\ \A x \in DOMAIN d.colls \ {c} : colls[x] = d.colls[x]
  BY <1>2 DEF WellFormed
<1> HIDE DEF colls
<1>5. d = [colls |-> d.colls, objs |-> d.objs, meshes |-> d.meshes]
  BY DEF WellFormed, File
<1>6. e = [colls |-> colls, objs |-> d.objs, meshes |-> d.meshes]
  <2>1. PICK dc, do, dm : d = [colls |-> dc, objs |-> do, meshes |-> dm]
    BY <1>5
  <2> QED
    BY <1>3, <2>1
<1>7. e = File(e.colls, e.objs, e.meshes) /\ e.colls = colls /\ e.objs = d.objs /\ e.meshes = d.meshes
  <2>1. e = File(colls, d.objs, d.meshes)
    BY <1>6 DEF File
  <2>2. e.colls = colls /\ e.objs = d.objs /\ e.meshes = d.meshes
    BY <2>1, Fields
  <2> QED
    BY <2>1, <2>2
<1>8. WellFormed(e)
  <2>1. \A x \in DOMAIN d.colls : colls[x].kids \subseteq DOMAIN d.colls /\ colls[x].objs \subseteq DOMAIN d.objs
    BY <1>2, <1>4 DEF WellFormed
  <2> QED
    BY <1>4, <1>7, <2>1 DEF WellFormed
<1>9. Mine(e) = Mine(d)
  BY <1>2, <1>4, <1>7 DEF Mine
<1> QED
  BY <1>4, <1>7, <1>8, <1>9

(* After an edit the file is well formed, and no scene is the session's.   *)
Sane(d) == WellFormed(d) /\ Scenes(d) \cap Mine(d) = {}

LEMMA ChangesOneCollection ==
  ASSUME Sane(data), NEW c \in DOMAIN data.colls,
         NEW kids \in SUBSET DOMAIN data.colls, NEW objs \in SUBSET DOMAIN data.objs,
         EditedAt(data, c, kids, objs, data')
  PROVE  Sane(data') /\ Scenes(data') = Scenes(data)
<1>1. WellFormed(data') /\ DOMAIN data'.colls = DOMAIN data.colls /\ Mine(data') = Mine(data)
  BY CollectionEdited DEF Sane
<1> QED
  BY <1>1 DEF Sane, Scenes

LEMMA ObjectLinked ==
  ASSUME Sane(data), NEW c \in DOMAIN data.colls, NEW objs \in SUBSET DOMAIN data.objs,
         data' = [data EXCEPT !.colls[c].objs = objs]
  PROVE  Sane(data') /\ Scenes(data') = Scenes(data)
<1> DEFINE kids == data.colls[c].kids
<1>1. data.colls[c] \in CollType /\ kids \in SUBSET DOMAIN data.colls
  BY DEF Sane, WellFormed
<1>2. [data.colls[c] EXCEPT !.objs = objs] = [data.colls[c] EXCEPT !.kids = kids, !.objs = objs]
  BY <1>1 DEF CollType
<1>3. data' = [data EXCEPT !.colls[c] = [data.colls[c] EXCEPT !.objs = objs]]
  OBVIOUS
<1> HIDE DEF kids
<1>4. EditedAt(data, c, kids, objs, data')
  BY <1>2, <1>3 DEF EditedAt
<1> QED
  BY <1>1, <1>4, ChangesOneCollection

LEMMA CollectionLinked ==
  ASSUME Sane(data), NEW c \in DOMAIN data.colls, NEW kids \in SUBSET DOMAIN data.colls,
         data' = [data EXCEPT !.colls[c].kids = kids]
  PROVE  Sane(data') /\ Scenes(data') = Scenes(data)
<1> DEFINE objs == data.colls[c].objs
<1>1. data.colls[c] \in CollType /\ objs \in SUBSET DOMAIN data.objs
  BY DEF Sane, WellFormed
<1>2. [data.colls[c] EXCEPT !.kids = kids] = [data.colls[c] EXCEPT !.kids = kids, !.objs = objs]
  BY <1>1 DEF CollType
<1>3. data' = [data EXCEPT !.colls[c] = [data.colls[c] EXCEPT !.kids = kids]]
  OBVIOUS
<1> HIDE DEF objs
<1>4. EditedAt(data, c, kids, objs, data')
  BY <1>2, <1>3 DEF EditedAt
<1> QED
  BY <1>1, <1>4, ChangesOneCollection

LEMMA NewUser ==
  ASSUME NEW d, NEW of \in {"none", "copy"}, Spare(d, "user", of) # {}
  PROVE  New(d, "user", of) \in Id \ (Taken(d) \cup Scene)
<1>1. New(d, "user", of) \notin Taken(d) /\ \E n \in 1..MaxAlike : New(d, "user", of) = <<"user", of, n>>
  BY FreshIs
<1>2. PICK n \in 1..MaxAlike : New(d, "user", of) = <<"user", of, n>>
  BY <1>1
<1>3. <<"user", of, n>> \in Id
  BY DEF Id, Kind
<1>4. <<"user", of, n>>[1] = "user" /\ \A x \in Scene : x[1] = "scene"
  BY DEF Scene, Original, Copy
<1> QED
  BY <1>1, <1>2, <1>3, <1>4

LEMMA AddObjectSane ==
  ASSUME Sane(data), AddObject
  PROVE  Sane(data') /\ Scenes(data') = Scenes(data)
<1> DEFINE n == New(data, "user", "none")
<1>1. n \in Id \ (Taken(data) \cup Scene)
  BY NewUser DEF AddObject, Room
<1>2. PICK c \in DOMAIN data.colls, m \in data.meshes \cup {n} :
        data' = WithObjects(data, c, [o \in {n} |-> [UserObject EXCEPT !.mesh = m]])
  BY DEF AddObject
<1> HIDE DEF n
<1> DEFINE v == [UserObject EXCEPT !.mesh = m]
           new == [o \in {n} |-> v]
<1>3. v \in ObjType
  <2>1. UserObject = [mine |-> FALSE, kind |-> "user", mesh |-> NoId, cur |-> FALSE, lit |-> FALSE]
    BY DEF UserObject
  <2>2. v = [UserObject EXCEPT !.mesh = m] /\ m \in Id
    BY <1>1 DEF Sane, WellFormed
  <2> HIDE DEF v
  <2>3. v = [mine |-> FALSE, kind |-> "user", mesh |-> m, cur |-> FALSE, lit |-> FALSE]
    BY <2>1, <2>2
  <2>4. "user" \in Kind /\ m \in Id \cup {NoId}
    BY <2>2 DEF Kind
  <2>5. [mine |-> FALSE, kind |-> "user", mesh |-> m, cur |-> FALSE, lit |-> FALSE] \in ObjType
    BY <2>4 DEF ObjType
  <2> QED
    BY <2>3, <2>5
<1> HIDE DEF v
<1>4. Listed(data, new)
  BY <1>1, <1>3 DEF Listed, Taken
<1>5. data' = WithObjects(data, c, new)
  BY <1>2 DEF v
<1> HIDE DEF new
<1>6. WellFormed(data') /\ AddedObjects(data, c, new, data')
  BY <1>4, <1>5, ObjectsFit, ObjectsAre DEF Sane
<1>7. DOMAIN data'.colls = DOMAIN data.colls
  BY <1>6 DEF AddedObjects
<1>8. ASSUME NEW x \in DOMAIN data.colls PROVE data'.colls[x].mine = data.colls[x].mine
  <2>1. data.colls[x] \in CollType
    BY DEF Sane, WellFormed
  <2>2. data'.colls[x] = IF x = c THEN [data.colls[x] EXCEPT !.objs = @ \cup DOMAIN new] ELSE data.colls[x]
    BY <1>6 DEF AddedObjects
  <2> QED
    BY <2>1, <2>2 DEF CollType
<1>9. Mine(data') = Mine(data) /\ Scenes(data') = Scenes(data)
  BY <1>7, <1>8 DEF Mine, Scenes
<1> QED
  BY <1>6, <1>9 DEF Sane

LEMMA AddedCollSane ==
  ASSUME Sane(data), NEW into, NEW n \in Id \ DOMAIN data.colls, NEW c \in DOMAIN data.colls,
         n \in Scene => ~data.colls[c].mine,
         data' = WithColls(data, into, [x \in {n} |-> data.colls[c]])
  PROVE  Sane(data') /\ Scenes(data') = Scenes(data) \cup ({n} \cap Scene)
<1> DEFINE new == [x \in {n} |-> data.colls[c]]
<1>1. DOMAIN new = {n} /\ new[n] = data.colls[c]
  OBVIOUS
<1>2. data.colls[c] \in CollType /\ data.colls[c].kids \subseteq DOMAIN data.colls /\ data.colls[c].objs \subseteq DOMAIN data.objs
  BY DEF Sane, WellFormed
<1>3. data' = WithColls(data, into, new)
  OBVIOUS
<1> HIDE DEF new
<1>4. Recorded(data, new)
  BY <1>1, <1>2 DEF Recorded
<1>5. WellFormed(data') /\ AddedColls(data, into, new, data')
  BY <1>3, <1>4, CollsFit, CollsAre DEF Sane
<1>6. DOMAIN data'.colls = DOMAIN data.colls \cup {n} /\ data'.colls[n] = data.colls[c]
  BY <1>1, <1>5 DEF AddedColls
<1>7. ASSUME NEW x \in DOMAIN data.colls PROVE data'.colls[x].mine = data.colls[x].mine
  <2>1. data.colls[x] \in CollType
    BY DEF Sane, WellFormed
  <2>2. data'.colls[x] = IF x = into THEN [data.colls[x] EXCEPT !.kids = @ \cup DOMAIN new] ELSE data.colls[x]
    BY <1>1, <1>5 DEF AddedColls
  <2> QED
    BY <2>1, <2>2 DEF CollType
<1>8. Scenes(data') = Scenes(data) \cup ({n} \cap Scene)
  BY <1>6 DEF Scenes
<1>9. Scenes(data') \cap Mine(data') = {}
  <2>1. \A x \in Scenes(data) : ~data.colls[x].mine /\ x \in DOMAIN data.colls
    BY DEF Sane, Scenes, Mine
  <2> QED
    BY <1>6, <1>7, <1>8, <2>1 DEF Mine
<1> QED
  BY <1>5, <1>8, <1>9 DEF Sane

LEMMA EditSane ==
  ASSUME Sane(data),
         AddObject \/ LinkObject \/ UnlinkObject \/ LinkCollection \/ UnlinkCollection \/ CopyCollection
  PROVE  Sane(data') /\ Scenes(data') = Scenes(data) /\ UNCHANGED <<claims, named>>
<1> DEFINE Q == Sane(data') /\ Scenes(data') = Scenes(data)
<1>1. ASSUME AddObject PROVE Q
  BY <1>1, AddObjectSane
<1>2. ASSUME LinkObject PROVE Q
  <2>1. PICK c \in DOMAIN data.colls : \E o \in DOMAIN data.objs \ data.colls[c].objs :
          data' = [data EXCEPT !.colls[c].objs = @ \cup {o}]
    BY <1>2 DEF LinkObject
  <2>2. PICK o \in DOMAIN data.objs : data' = [data EXCEPT !.colls[c].objs = data.colls[c].objs \cup {o}]
    BY <2>1
  <2>3. data.colls[c].objs \cup {o} \in SUBSET DOMAIN data.objs
    BY DEF Sane, WellFormed
  <2> QED
    BY <2>2, <2>3, ObjectLinked
<1>3. ASSUME UnlinkObject PROVE Q
  <2>1. PICK c \in DOMAIN data.colls : \E o \in data.colls[c].objs :
          data' = [data EXCEPT !.colls[c].objs = @ \ {o}]
    BY <1>3 DEF UnlinkObject
  <2>2. PICK o \in data.colls[c].objs : data' = [data EXCEPT !.colls[c].objs = data.colls[c].objs \ {o}]
    BY <2>1
  <2>3. data.colls[c].objs \ {o} \in SUBSET DOMAIN data.objs
    BY DEF Sane, WellFormed
  <2> QED
    BY <2>2, <2>3, ObjectLinked
<1>4. ASSUME LinkCollection PROVE Q
  <2>1. PICK i \in DOMAIN data.colls : \E c \in DOMAIN data.colls :
          data' = [data EXCEPT !.colls[i].kids = @ \cup {c}]
    BY <1>4 DEF LinkCollection
  <2>2. PICK c \in DOMAIN data.colls : data' = [data EXCEPT !.colls[i].kids = data.colls[i].kids \cup {c}]
    BY <2>1
  <2>3. data.colls[i].kids \cup {c} \in SUBSET DOMAIN data.colls
    BY DEF Sane, WellFormed
  <2> QED
    BY <2>2, <2>3, CollectionLinked
<1>5. ASSUME UnlinkCollection PROVE Q
  <2>1. PICK f \in DOMAIN data.colls : \E c \in data.colls[f].kids :
          data' = [data EXCEPT !.colls[f].kids = @ \ {c}]
    BY <1>5 DEF UnlinkCollection
  <2>2. PICK c \in data.colls[f].kids : data' = [data EXCEPT !.colls[f].kids = data.colls[f].kids \ {c}]
    BY <2>1
  <2>3. data.colls[f].kids \ {c} \in SUBSET DOMAIN data.colls
    BY DEF Sane, WellFormed
  <2> QED
    BY <2>2, <2>3, CollectionLinked
<1>6. ASSUME CopyCollection PROVE Q
  <2> DEFINE n == New(data, "user", "copy")
  <2>1. n \in Id \ (Taken(data) \cup Scene)
    BY <1>6, NewUser DEF CopyCollection, Room
  <2>2. PICK c \in DOMAIN data.colls : data' = WithColls(data, home, [x \in {n} |-> data.colls[c]])
    BY <1>6 DEF CopyCollection
  <2> HIDE DEF n
  <2>3. n \in Id \ DOMAIN data.colls /\ n \notin Scene
    BY <2>1 DEF Taken
  <2>4. Sane(data') /\ Scenes(data') = Scenes(data) \cup ({n} \cap Scene)
    BY <2>2, <2>3, AddedCollSane
  <2> QED
    BY <2>3, <2>4
<1>7. UNCHANGED <<claims, named>>
  BY DEF AddObject, LinkObject, UnlinkObject, LinkCollection, UnlinkCollection, CopyCollection
<1> QED
  BY <1>1, <1>2, <1>3, <1>4, <1>5, <1>6, <1>7

LEMMA UserEditKeeps ==
  ASSUME SceneInv, UserEdit
  PROVE  SceneInv'
<1>1. UNCHANGED <<modern, live, home, origin, hint, guarded, active>>
  BY DEF UserEdit, Own
<1>2. Sane(data) /\ edits \in 0..MaxEdits
  BY DEF SceneInv, SceneTypeOK, Sane
<1>3. ASSUME Edits, AddObject \/ LinkObject \/ UnlinkObject \/ LinkCollection \/ UnlinkCollection \/ CopyCollection
      PROVE  SceneInv'
  <2>1. Sane(data') /\ Scenes(data') = Scenes(data) /\ UNCHANGED <<claims, named>>
    BY <1>2, <1>3, EditSane
  <2>2. edits' \in 0..MaxEdits /\ edits' # 0
    BY <1>2, <1>3, SceneAssumption DEF Edits
  <2>3. SceneTypeOK'
    BY <1>1, <2>1, <2>2 DEF SceneInv, SceneTypeOK, Sane
  <2>4. (Scenes(data) \cap Mine(data) = {})' /\ (Scenes(data) = {Original} => home = Original)'
    BY <1>1, <2>1 DEF SceneInv, Sane
  <2>5. ~Untouched'
    BY <2>2 DEF Untouched
  <2> QED
    BY <2>3, <2>4, <2>5 DEF SceneInv
<1>4. Original # Copy /\ Original \in Scene /\ Copy \in Scene /\ Copy \in Id /\ Scene = {Original, Copy}
  <2>1. 1 \in 1..MaxAlike
    BY SceneAssumption
  <2> QED
    BY <2>1 DEF Original, Copy, Scene, Id, Kind
<1>5. ASSUME UNCHANGED edits, CopyScene PROVE SceneInv'
  <2>1. /\ Scenes(data) = {Original}
        /\ data' = WithColls(data, NoId, [c \in {Copy} |-> data.colls[Original]])
        /\ claims' \subseteq Scene /\ named' = named
    BY <1>4, <1>5 DEF CopyScene, SceneInv, SceneTypeOK
  <2>2. Copy \in Id \ DOMAIN data.colls /\ Original \in DOMAIN data.colls /\ ~data.colls[Original].mine
    BY <1>2, <1>4, <2>1 DEF Scenes, Sane, Mine
  <2>3. Sane(data') /\ Scenes(data') = Scenes(data) \cup ({Copy} \cap Scene)
    BY <1>2, <2>1, <2>2, AddedCollSane
  <2>4. Scenes(data') # {Original}
    BY <1>4, <2>3
  <2>5. SceneTypeOK'
    BY <1>1, <1>5, <2>1, <2>3 DEF SceneInv, SceneTypeOK, Sane
  <2>6. (Scenes(data) \cap Mine(data) = {})' /\ (Scenes(data) = {Original} => home = Original)' /\ ~Untouched'
    BY <2>3, <2>4 DEF Sane, Untouched
  <2> QED
    BY <2>5, <2>6 DEF SceneInv
<1>6. ASSUME UNCHANGED edits, DeleteOriginal PROVE SceneInv'
  <2>1. /\ data' = Without(data, {Original}, {})
        /\ claims' \subseteq Scene /\ named' \in Scene \cup {NoId}
    BY <1>6 DEF DeleteOriginal, SceneInv, SceneTypeOK
  <2>2. WellFormed(data') /\ Trimmed(data, {Original}, {}, data')
    BY <1>2, <2>1, WithoutFits, WithoutIs DEF Sane
  <2>3. DOMAIN data'.colls = DOMAIN data.colls \ {Original}
    BY <2>2 DEF Trimmed
  <2>4. ASSUME NEW c \in DOMAIN data'.colls PROVE data'.colls[c].mine = data.colls[c].mine
    <3>1. data.colls[c] \in CollType
      BY <1>2, <2>3 DEF Sane, WellFormed
    <3>2. data'.colls[c] = [data.colls[c] EXCEPT !.kids = @ \ {Original}, !.objs = @ \ {}]
      BY <2>2, <2>3 DEF Trimmed
    <3> QED
      BY <3>1, <3>2 DEF CollType
  <2>5. Scenes(data') \cap Mine(data') = {} /\ Scenes(data') # {Original}
    BY <1>2, <2>3, <2>4 DEF Sane, Scenes, Mine
  <2>6. SceneTypeOK'
    BY <1>1, <1>6, <2>1, <2>2 DEF SceneInv, SceneTypeOK
  <2>7. (Scenes(data) \cap Mine(data) = {})' /\ (Scenes(data) = {Original} => home = Original)' /\ ~Untouched'
    BY <2>5 DEF Untouched
  <2> QED
    BY <2>6, <2>7 DEF SceneInv
<1>7. ASSUME UNCHANGED edits, RenameCopy PROVE SceneInv'
  <2>1. named' = Copy /\ UNCHANGED <<data, claims>>
    BY <1>7 DEF RenameCopy
  <2>2. SceneTypeOK'
    BY <1>1, <1>4, <1>7, <2>1 DEF SceneInv, SceneTypeOK
  <2>3. (Scenes(data) \cap Mine(data) = {})' /\ (Scenes(data) = {Original} => home = Original)'
    BY <1>1, <2>1 DEF SceneInv
  <2>4. (Untouched => Orderly(data) /\ (live => (hint # NoId <=> TheClaims(data) # {})))'
    BY <1>1, <1>7, <2>1 DEF SceneInv, Untouched
  <2> QED
    BY <2>2, <2>3, <2>4 DEF SceneInv
<1> QED
  BY <1>3, <1>5, <1>6, <1>7 DEF UserEdit

LEMMA SceneStarts == SceneInit => SceneInv
<1> SUFFICES ASSUME SceneInit PROVE SceneInv
  OBVIOUS
<1> DEFINE cs == {Original, Users}
           colls == [c \in cs |-> IF c = Original THEN [Plain EXCEPT !.kids = {Users}]
                                  ELSE [Plain EXCEPT !.objs = {Users}]]
           node == [UserObject EXCEPT !.mesh = Users]
           objs == [o \in {Users} |-> node]
<1>1. data = File(colls, objs, {Users})
  BY DEF SceneInit
<1>2. Original # Users /\ Original \in Id /\ Users \in Id /\ Users \notin Scene /\ Original \in Scene /\ Copy # Original
  <2>1. 1 \in 1..MaxAlike
    BY SceneAssumption
  <2> QED
    BY <2>1 DEF Original, Users, Copy, Scene, Id, Kind
<1>3. colls[Original] = [kids |-> {Users}, objs |-> {}, mine |-> FALSE, root |-> FALSE, role |-> "none", of |-> "none"]
  BY <1>2, ManagedIs
<1>4. colls[Users] = [kids |-> {}, objs |-> {Users}, mine |-> FALSE, root |-> FALSE, role |-> "none", of |-> "none"]
  BY <1>2, ManagedIs
<1>5. node = [mine |-> FALSE, kind |-> "user", mesh |-> Users, cur |-> FALSE, lit |-> FALSE]
  <2>1. UserObject = [mine |-> FALSE, kind |-> "user", mesh |-> NoId, cur |-> FALSE, lit |-> FALSE]
    BY DEF UserObject
  <2>2. node = [UserObject EXCEPT !.mesh = Users]
    OBVIOUS
  <2> HIDE DEF node
  <2> QED
    BY <2>1, <2>2
<1>6. DOMAIN colls = cs /\ DOMAIN objs = {Users} /\ objs[Users] = node
  OBVIOUS
<1>7. colls = [c \in cs |-> colls[c]] /\ objs = [o \in {Users} |-> objs[o]]
  OBVIOUS
<1> HIDE DEF colls, objs
<1>8. data.colls = colls /\ data.objs = objs /\ data.meshes = {Users} /\ data = File(data.colls, data.objs, data.meshes)
  <2>1. data.colls = colls /\ data.objs = objs /\ data.meshes = {Users}
    BY <1>1, Fields
  <2> QED
    BY <1>1, <2>1
<1>9. colls[Original] \in CollType /\ colls[Users] \in CollType
  <2>1. [kids |-> {Users}, objs |-> {}, mine |-> FALSE, root |-> FALSE, role |-> "none", of |-> "none"] \in CollType
    BY <1>2 DEF CollType
  <2>2. [kids |-> {}, objs |-> {Users}, mine |-> FALSE, root |-> FALSE, role |-> "none", of |-> "none"] \in CollType
    BY <1>2 DEF CollType
  <2> QED
    BY <1>3, <1>4, <2>1, <2>2
<1>10. node \in ObjType /\ node.mesh = Users
  <2>1. "user" \in Kind /\ Users \in Id \cup {NoId}
    BY <1>2 DEF Kind
  <2>2. [mine |-> FALSE, kind |-> "user", mesh |-> Users, cur |-> FALSE, lit |-> FALSE] \in ObjType
    BY <2>1 DEF ObjType
  <2> QED
    BY <1>5, <2>2
<1> HIDE DEF node
<1>11. colls \in [cs -> CollType] /\ objs \in [{Users} -> ObjType]
  BY <1>6, <1>7, <1>9, <1>10
<1>12. /\ colls[Original].kids = {Users} /\ colls[Users].kids = {} /\ colls[Original].objs = {} /\ colls[Users].objs = {Users}
       /\ ~colls[Original].mine /\ ~colls[Users].mine
  BY <1>3, <1>4
<1>13. WellFormed(data)
  <2>1. \A c \in cs : colls[c].kids \subseteq cs /\ colls[c].objs \subseteq {Users}
    BY <1>12
  <2>2. \A o \in {Users} : objs[o].mesh \in {Users} \cup {NoId}
    BY <1>6, <1>10
  <2>3. cs \subseteq Id /\ {Users} \subseteq Id
    BY <1>2
  <2> QED
    BY <1>6, <1>8, <1>11, <2>1, <2>2, <2>3 DEF WellFormed
<1>14. Mine(data) = {} /\ TheClaims(data) = {}
  BY <1>6, <1>8, <1>12 DEF Mine, TheClaims, Claiming
<1>15. SceneTypeOK
  <2>1. 0 \in 0..MaxEdits
    BY SceneAssumption
  <2> QED
    BY <1>2, <1>13, <2>1 DEF SceneInit, SceneTypeOK
<1>16. Orderly(data)
  <2>1. Original \in Subtree(data, Original) /\ \A x \in Subtree(data, Original) : data.colls[x].kids \subseteq Subtree(data, Original)
    BY <1>6, <1>8, <1>13, SubtreeIsLeast
  <2>2. DOMAIN data.colls \subseteq Subtree(data, Original)
    BY <1>6, <1>8, <1>12, <2>1
  <2>3. DOMAIN data.objs = ObjectsOf(data, DOMAIN data.colls)
    BY <1>6, <1>8, <1>12 DEF ObjectsOf
  <2>4. \A m \in data.meshes : \E o \in DOMAIN data.objs : data.objs[o].mesh = m
    BY <1>6, <1>8, <1>10
  <2> QED
    BY <1>6, <1>8, <1>14, <2>2, <2>3, <2>4 DEF Orderly
<1>17. home = Original /\ hint = NoId
  BY DEF SceneInit
<1> QED
  BY <1>14, <1>15, <1>16, <1>17 DEF SceneInv

LEMMA SceneStep ==
  ASSUME SceneInv, [SceneNext]_sceneVars
  PROVE  SceneInv' /\ (UserEdit \/ UNCHANGED sceneVars \/ Spared(data, data'))
<1>1. CASE UNCHANGED sceneVars
  BY <1>1 DEF sceneVars, SceneInv, SceneTypeOK, Untouched
<1>2. CASE UserEdit
  BY <1>2, UserEditKeeps
<1>3. ASSUME NEW a \in Asset, LoadRepresentation(a) \/ LoadFails(a) \/ RemoveRepresentation(a)
      PROVE  SceneInv' /\ Spared(data, data')
  BY <1>3, LoadRepresentationKeeps, LoadFailsRestores, RemoveRepresentationKeeps
<1>4. ASSUME CreateControls \/ ToggleSelection \/ RemoveMaterialization \/ RemoveDetached \/ Close \/ Relink \/ Rebind
      PROVE  SceneInv' /\ Spared(data, data')
  BY <1>4, CreateControlsKeeps, ToggleKeeps, RemoveMaterializationKeeps, RemoveDetachedKeeps,
     CloseKeeps, RelinkKeeps, RebindKeeps
<1> QED
  BY <1>1, <1>2, <1>3, <1>4 DEF SceneNext

(* The invariant holds in every file the add-on and the user can make      *)
(* together.                                                               *)
THEOREM SceneInvHolds == SceneSpec => []SceneInv
<1>1. SceneInv /\ [SceneNext]_sceneVars => SceneInv'
  BY SceneStep
<1> QED
  BY <1>1, SceneStarts, PTL DEF SceneSpec

(* In the file that import_visual(), create_control_surface(), the         *)
(* removals and the user make together, what is linked or used is there,   *)
(* and everything the session knows of it has its type.                    *)
THEOREM SceneTypes == SceneSpec => []SceneTypeOK
<1>1. SceneInv => SceneTypeOK
  BY DEF SceneInv
<1> QED
  BY <1>1, SceneInvHolds, PTL

(* Whatever the add-on does, collections of the user's, objects of his,    *)
(* objects he has linked into a collection of his and their data stay.     *)
THEOREM TheUserIsSpared == SceneSpec => SparesTheUser
<1> DEFINE Step == UserEdit \/ Spared(data, data')
<1>1. SceneInv /\ [SceneNext]_sceneVars => [Step]_sceneVars
  BY SceneStep
<1>2. Step <=> \/ UserEdit
               \/ /\ \A c \in DOMAIN data.colls \ Scene :
                       ~data.colls[c].mine => c \in DOMAIN data'.colls /\ data'.colls[c] = data.colls[c]
                  /\ \A o \in DOMAIN data.objs :
                       (\/ ~data.objs[o].mine
                        \/ \E c \in DOMAIN data.colls : ~data.colls[c].mine /\ o \in data.colls[c].objs)
                       => /\ o \in DOMAIN data'.objs
                          /\ data'.objs[o].mesh \in data'.meshes \cup {NoId}
  BY DEF Spared
<1> QED
  BY <1>1, <1>2, SceneInvHolds, PTL DEF SceneSpec, SparesTheUser

(* _rollback() undoes an import that fails at whatever point: the file is  *)
(* as before, but for the tags of the live session.                        *)
THEOREM FailedLoadsLeaveNothing == SceneSpec => FailureLeavesNothing
<1>1. SceneInv /\ [SceneNext]_sceneVars
        => [(\E a \in Asset : LoadFails(a)) => Untagged(data') = Untagged(data)]_sceneVars
  BY LoadFailsRestores
<1> QED
  BY <1>1, SceneInvHolds, PTL DEF SceneSpec, FailureLeavesNothing

(* However often a session loads, fails, removes, closes and relinks, what *)
(* it made is linked to, used, and below the one root it knows.            *)
THEOREM NothingIsLeftBehind == SceneSpec => []NothingLeftBehind
<1>1. SceneInv => NothingLeftBehind
  <2> SUFFICES ASSUME SceneInv, Untouched
               PROVE  /\ \A m \in data.meshes : \E o \in DOMAIN data.objs : data.objs[o].mesh = m
                      /\ \A c \in DOMAIN data.colls : c \in Subtree(data, Original)
                      /\ DOMAIN data.objs = ObjectsOf(data, DOMAIN data.colls)
                      /\ (\E c \in DOMAIN data.colls : data.colls[c].mine) => HasRoot(data)
                      /\ Cardinality(TheClaims(data)) <= 1
                      /\ live => (hint # NoId <=> HasRoot(data))
    BY DEF NothingLeftBehind, TheClaims
  <2>1. WellFormed(data) /\ Orderly(data) /\ home = Original /\ Scenes(data) = {Original}
    BY DEF SceneInv, SceneTypeOK, Untouched
  <2>2. HasRoot(data) <=> TheClaims(data) # {}
    BY <2>1, RootWhenClaimed
  <2>3. (\E c \in DOMAIN data.colls : data.colls[c].mine) => TheClaims(data) # {}
    BY <2>1 DEF Orderly, Mine
  <2>4. Cardinality(TheClaims(data)) <= 1
    <3>1. CASE TheClaims(data) = {}
      BY <3>1, FS_EmptySet
    <3>2. CASE TheClaims(data) # {}
      <4>1. PICK r \in TheClaims(data) : TRUE
        BY <3>2
      <4>2. \A c \in TheClaims(data) : c = r
        BY <2>1 DEF Orderly
      <4>3. TheClaims(data) = {r}
        BY <4>1, <4>2
      <4>4. Cardinality({r}) = 1
        BY FS_Singleton
      <4> QED
        BY <4>3, <4>4
    <3> QED
      BY <3>1, <3>2
  <2>5. live => (hint # NoId <=> TheClaims(data) # {})
    BY DEF SceneInv
  <2> QED
    BY <2>1, <2>2, <2>3, <2>4, <2>5 DEF Orderly
<1> QED
  BY <1>1, SceneInvHolds, PTL
=============================================================================
