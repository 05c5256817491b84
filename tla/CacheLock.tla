----------------------------- MODULE CacheLock -----------------------------
(***************************************************************************)
(* How a thread of a Blender process reaches the critical section of the   *)
(* shared asset cache (vao_blender/core/cache.py): the process-local       *)
(* initialization lock, the publication of the ownership marker, and the   *)
(* mutation lock, itself a thread lock of the process taken before a       *)
(* polled advisory lock on .locks/mutation.lock.                           *)
(*                                                                         *)
(* An operation enters the mutation lock twice: once inside initialize(),  *)
(* to create the managed directories, and once for its own body.  clear()  *)
(* skips initialize().  What the body does is the subject of AssetCache.   *)
(***************************************************************************)
EXTENDS Naturals

CONSTANTS Process,     \* Blender processes that share one cache root
          Thread,      \* their threads
          ProcOf,      \* the process of a thread
          NoThread,    \* the owner of a free lock
          MaxDeaths    \* bound: crashes of a process in one behaviour

ASSUME ThreadsBelongToProcesses == ProcOf \in [Thread -> Process]
ASSUME NobodyIsNoThread == NoThread \notin Thread
ASSUME CrashBound == MaxDeaths \in Nat

VARIABLES
  root,        \* the cache root: empty, non-empty without marker, with a
               \* marker that is not ours, or managed
  locksDir,    \* the directory .locks exists
  ready,       \* initialize() has created the managed directories
  initLock,    \* owner of a process's initialization lock
  threadLock,  \* owner of a process's thread lock on mutation.lock
  fileLock,    \* owner of the advisory lock on .locks/mutation.lock
  at, stage,   \* where a thread is; stage: inside initialize() or past it
  token,       \* its cancellation token
  deaths

lockVars == <<root, locksDir, ready, initLock, threadLock, fileLock, at, stage,
          token, deaths>>

LockPhases == {"idle", "start", "inspect", "publish", "await", "thread", "file",
           "critical", "unlock"}

LockTypeOK ==
  /\ root \in {"empty", "foreign", "mismarked", "managed"}
  /\ locksDir \in BOOLEAN
  /\ ready \in BOOLEAN
  /\ initLock \in [Process -> Thread \cup {NoThread}]
  /\ threadLock \in [Process -> Thread \cup {NoThread}]
  /\ fileLock \in Thread \cup {NoThread}
  /\ at \in [Thread -> LockPhases]
  /\ stage \in [Thread -> {"init", "body"}]
  /\ token \in [Thread -> {"none", "live", "cancelled"}]
  /\ deaths \in 0..MaxDeaths

LockInit ==
  /\ root \in {"empty", "foreign", "mismarked", "managed"}
  /\ locksDir = FALSE
  /\ ready = FALSE
  /\ initLock = [p \in Process |-> NoThread]
  /\ threadLock = [p \in Process |-> NoThread]
  /\ fileLock = NoThread
  /\ at = [t \in Thread |-> "idle"]
  /\ stage = [t \in Thread |-> "body"]
  /\ token = [t \in Thread |-> "none"]
  /\ deaths = 0

Moves(t, from, to) == at[t] = from /\ at' = [at EXCEPT ![t] = to]

Own(lock, t)  == [lock EXCEPT ![ProcOf[t]] = t]
Free(lock, t) == [lock EXCEPT ![ProcOf[t]] = NoThread]

rootFiles == <<root, locksDir, ready>>

-----------------------------------------------------------------------------
(* extract, register_protected, unregister_protected and enforce_quota     *)
(* begin with initialize(); only extract takes a token.                    *)
BeginOperation(t) ==
  /\ Moves(t, "idle", "start")
  /\ stage' = [stage EXCEPT ![t] = "init"]
  /\ \E k \in {"none", "live"} : token' = [token EXCEPT ![t] = k]
  /\ UNCHANGED <<rootFiles, initLock, threadLock, fileLock, deaths>>

(* clear() requires a managed root and goes straight to the mutation lock. *)
BeginClearing(t) ==
  /\ root = "managed"
  /\ Moves(t, "idle", "thread")
  /\ locksDir' = TRUE
  /\ stage' = [stage EXCEPT ![t] = "body"]
  /\ token' = [token EXCEPT ![t] = "none"]
  /\ UNCHANGED <<root, ready, initLock, threadLock, fileLock, deaths>>

TakeInitLock(t) ==
  /\ initLock[ProcOf[t]] = NoThread
  /\ Moves(t, "start", "inspect")
  /\ initLock' = Own(initLock, t)
  /\ UNCHANGED <<rootFiles, threadLock, fileLock, stage, token, deaths>>

(* The marker, or an empty directory, decides between waiting for a marker *)
(* and publishing one; any other directory is refused.                     *)
Inspect(t) ==
  /\ \/ root \in {"managed", "mismarked"} /\ Moves(t, "inspect", "await")
     \/ root = "empty" /\ Moves(t, "inspect", "publish")
  /\ UNCHANGED <<rootFiles, initLock, threadLock, fileLock, stage, token, deaths>>

(* os.link publishes the whole marker or finds that another initializer    *)
(* already has; the loser waits for that marker like everybody else.       *)
PublishMarker(t) ==
  /\ \/ root = "empty" /\ root' = "managed" /\ Moves(t, "publish", "thread")
     \/ root # "empty" /\ root' = root /\ Moves(t, "publish", "await")
  /\ locksDir' = (locksDir \/ root = "empty")
  /\ UNCHANGED <<ready, initLock, threadLock, fileLock, stage, token, deaths>>

(* Slip: any marker will do.                                               *)
AwaitAnyMarker(t) ==
  /\ Moves(t, "await", "thread")
  /\ locksDir' = TRUE
  /\ UNCHANGED <<root, ready, initLock, threadLock, fileLock, stage, token,
                 deaths>>

AwaitMarker(t) ==
  /\ root = "managed"
  /\ Moves(t, "await", "thread")
  /\ locksDir' = TRUE
  /\ UNCHANGED <<root, ready, initLock, threadLock, fileLock, stage, token,
                 deaths>>

(* A directory that is not ours raises, and initialize() lets go.          *)
Refuse(t) ==
  /\ \/ at[t] = "inspect" /\ root = "foreign"
     \/ at[t] = "await" /\ root = "mismarked"
  /\ at' = [at EXCEPT ![t] = "idle"]
  /\ initLock' = Free(initLock, t)
  /\ UNCHANGED <<rootFiles, threadLock, fileLock, stage, token, deaths>>

-----------------------------------------------------------------------------
TakeThreadLock(t) ==
  /\ threadLock[ProcOf[t]] = NoThread
  /\ Moves(t, "thread", "file")
  /\ threadLock' = Own(threadLock, t)
  /\ UNCHANGED <<rootFiles, initLock, fileLock, stage, token, deaths>>

TakeFileLock(t) ==
  /\ fileLock = NoThread
  /\ Moves(t, "file", "critical")
  /\ fileLock' = t
  /\ UNCHANGED <<rootFiles, initLock, threadLock, stage, token, deaths>>

(* The critical section ends: initialize() has made the directories, or    *)
(* the body has returned or raised.                                        *)
LeaveCritical(t) ==
  /\ Moves(t, "critical", "unlock")
  /\ fileLock' = NoThread
  /\ ready' = (ready \/ stage[t] = "init")
  /\ UNCHANGED <<root, locksDir, initLock, threadLock, stage, token, deaths>>

(* Past the thread lock, initialize() gives up its own lock and the        *)
(* operation starts over with the mutation lock for its body.              *)
Unlock(t) ==
  /\ threadLock' = Free(threadLock, t)
  /\ \/ /\ stage[t] = "init"
        /\ Moves(t, "unlock", "thread")
        /\ initLock' = Free(initLock, t)
        /\ stage' = [stage EXCEPT ![t] = "body"]
     \/ /\ stage[t] = "body"
        /\ Moves(t, "unlock", "idle")
        /\ UNCHANGED <<initLock, stage>>
  /\ UNCHANGED <<rootFiles, fileLock, token, deaths>>

-----------------------------------------------------------------------------
Cancel(t) ==
  /\ at[t] # "idle" /\ token[t] = "live"
  /\ token' = [token EXCEPT ![t] = "cancelled"]
  /\ UNCHANGED <<rootFiles, initLock, threadLock, fileLock, at, stage, deaths>>

(* Slip: the exception leaves the thread lock behind.                      *)
GiveUpKeepsLock(t) ==
  /\ token[t] = "cancelled"
  /\ at[t] \in {"start", "await", "thread", "file"}
  /\ at' = [at EXCEPT ![t] = "idle"]
  /\ initLock' = IF stage[t] = "init" /\ at[t] # "start"
                 THEN Free(initLock, t) ELSE initLock
  /\ UNCHANGED <<rootFiles, threadLock, fileLock, stage, token, deaths>>

(* Slip: the cleanup of a failed wait unlocks the file it never locked.    *)
GiveUpUnlocks(t) ==
  /\ token[t] = "cancelled"
  /\ at[t] \in {"start", "await", "thread", "file"}
  /\ at' = [at EXCEPT ![t] = "idle"]
  /\ threadLock' = IF at[t] = "file" THEN Free(threadLock, t) ELSE threadLock
  /\ initLock' = IF stage[t] = "init" /\ at[t] # "start"
                 THEN Free(initLock, t) ELSE initLock
  /\ fileLock' = IF at[t] = "file" THEN NoThread ELSE fileLock
  /\ UNCHANGED <<rootFiles, stage, token, deaths>>

(* Every polled wait looks at the token first.  Leaving by this exception  *)
(* releases what the thread holds: the thread lock if it was polling the   *)
(* file lock, and the initialization lock if it is inside initialize().    *)
GiveUp(t) ==
  /\ token[t] = "cancelled"
  /\ at[t] \in {"start", "await", "thread", "file"}
  /\ at' = [at EXCEPT ![t] = "idle"]
  /\ threadLock' = IF at[t] = "file" THEN Free(threadLock, t) ELSE threadLock
  /\ initLock' = IF stage[t] = "init" /\ at[t] # "start"
                 THEN Free(initLock, t) ELSE initLock
  /\ UNCHANGED <<rootFiles, fileLock, stage, token, deaths>>

(* A process dies: its locks in memory vanish and the system drops its     *)
(* advisory lock.  The disk keeps what was made.                           *)
ProcessDies(p) ==
  LET Dead == {t \in Thread : ProcOf[t] = p} IN
  /\ deaths < MaxDeaths
  /\ \E t \in Dead : at[t] # "idle"
  /\ deaths' = deaths + 1
  /\ at' = [t \in Thread |-> IF t \in Dead THEN "idle" ELSE at[t]]
  /\ initLock' = [initLock EXCEPT ![p] = NoThread]
  /\ threadLock' = [threadLock EXCEPT ![p] = NoThread]
  /\ fileLock' = IF fileLock \in Dead THEN NoThread ELSE fileLock
  /\ UNCHANGED <<rootFiles, stage, token>>

(* What a thread does by itself once an operation has begun.               *)
Step(t) ==
  \/ TakeInitLock(t) \/ Inspect(t) \/ PublishMarker(t) \/ AwaitMarker(t)
  \/ Refuse(t) \/ TakeThreadLock(t) \/ TakeFileLock(t) \/ LeaveCritical(t)
  \/ Unlock(t) \/ GiveUp(t)

LockNext ==
  \/ \E t \in Thread : BeginOperation(t) \/ BeginClearing(t) \/ Step(t) \/ Cancel(t)
  \/ \E p \in Process : ProcessDies(p)

LockSpec == LockInit /\ [][LockNext]_lockVars

(* A running thread is scheduled: it keeps polling, and a critical section *)
(* ends.  Nothing stronger: the polled lock is not a queue.                *)
FairLock == LockSpec /\ \A t \in Thread : WF_lockVars(Step(t))

-----------------------------------------------------------------------------
(* The thread inside the critical section, as the rest of the cache sees.  *)
Critical(t) == at[t] = "critical"
Owner == IF \E t \in Thread : Critical(t)
         THEN CHOOSE t \in Thread : Critical(t) ELSE NoThread

M == INSTANCE Mutex WITH User <- Thread, Nobody <- NoThread, owner <- Owner

(* Two threads are never both inside, whatever processes they belong to    *)
(* and however they got there (_ProcessFileLock, cancelled waits, a        *)
(* process that dies).                                                     *)
MutualExclusion == \A t, u \in Thread : Critical(t) /\ Critical(u) => t = u

(* The two-level lock with its waits, cancellations and crashes is a      *)
(* mutex: ownership only passes through a free lock.                       *)
IsMutex == M!Spec

(* initialize() never creates anything in a directory that carries other   *)
(* files or another program's marker, and a thread that got past it works  *)
(* in a managed root.                                                      *)
OnlyManagedRoots ==
  /\ locksDir \/ ready => root = "managed"
  /\ \A t \in Thread :
       at[t] \in {"thread", "file", "critical", "unlock"}
         => root = "managed" /\ locksDir

Waiting(t) == at[t] \in {"start", "thread", "file"}
Cancelled(t) == at[t] # "idle" /\ token[t] = "cancelled"

(* The lock of a managed cache is never lost: once users stop cancelling,  *)
(* a waiting thread means that some thread (it or another) eventually gets *)
(* in.  A cancelled wait or a crash must therefore have released all it    *)
(* held on the way, and the initialization lock, always taken first, never *)
(* closes a cycle with the mutation lock.  And every operation that is     *)
(* cancelled before its body is inside the lock comes to an end, whatever  *)
(* the other threads hold.                                                 *)
LockHandedOn ==
  /\ <>[](\A t \in Thread : ~Cancelled(t))
       => (root = "managed" /\ (\E t \in Thread : Waiting(t))
             ~> (\E t \in Thread : Critical(t)) \/ (\A t \in Thread : ~Waiting(t)))
  /\ \A t \in Thread : Cancelled(t) /\ Waiting(t) ~> at[t] \in {"idle", "critical"}
=============================================================================
