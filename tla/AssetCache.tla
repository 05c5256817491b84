----------------------------- MODULE AssetCache -----------------------------
(***************************************************************************)
(* The managed extraction cache of vao_blender/core/cache.py: one          *)
(* directory shared by every Blender process of a user.  A cached asset is *)
(* a file named by its SHA-256; a process that uses one registers it,      *)
(* counts its registrations in memory and holds an advisory lease that the *)
(* other processes can see.  Extraction verifies what it writes, a         *)
(* tampered file goes to quarantine, and a quota evicts what nobody uses.  *)
(*                                                                         *)
(* Every operation here runs under the mutation lock, which CacheLock      *)
(* shows to be a Mutex; the steps in between are where a process can die,  *)
(* an operation can be cancelled or fail, and a writer that ignores the    *)
(* lock can damage a file.  Since one operation at a time is inside, its   *)
(* locals are plain variables.  Paths, hashes and names are abstracted to the  *)
(* asset they belong to; a damaged file keeps its length, the case only    *)
(* the hash can tell; the eviction order (by access time) is left open.    *)
(***************************************************************************)
EXTENDS Naturals, FiniteSets, FiniteSetsExt

CONSTANTS Proc,         \* Blender processes that share the cache
          Nobody,       \* the owner of the free lock
          Asset, NoAsset,
          Size,         \* byte_size of an asset
          Quota,        \* quota_bytes: a preference of each process
          MaxHolds,     \* bound: registrations of an asset by a process
          MaxTampers,   \* bound: damaged files in one behaviour
          MaxCrashes    \* bound: crashes in one behaviour

ASSUME CacheIsFinite == IsFiniteSet(Asset) /\ IsFiniteSet(Proc) /\ Proc # {}
ASSUME NobodyIsNoProcess == Nobody \notin Proc
ASSUME NoAssetIsNoAsset == NoAsset \notin Asset
ASSUME SizesAreNatural == Size \in [Asset -> Nat]
ASSUME QuotasAreNatural == Quota \in [Proc -> Nat]
ASSUME BoundsAreNatural == /\ MaxHolds \in Nat
                           /\ MaxTampers \in Nat
                           /\ MaxCrashes \in Nat

VARIABLES
  store,        \* the file at an asset's path: absent, good or bad
  quarantine,   \* tampered copies set aside, per asset
  partials,     \* .partial files of an asset, live or left by a crash
  count,        \* _PROTECTED: a process's registrations of an asset
  leases,       \* <<process, asset>>: lease files locked by a live process
  stale,        \* assets with lease files nobody locks any more
  lock,         \* the process with a thread inside the mutation lock
  pc,           \* what that thread does next
  asset,        \* the asset its operation is about
  protect,      \* extract(protect=True), or the argument of enforce_quota
  goal,         \* what quota enforcement was called for
  active,       \* its snapshot of the files it must not evict
  tampers, crashes

disk  == <<store, quarantine, partials>>
prot  == <<count, leases, stale>>
frame == <<asset, protect, goal, active>>
vars  == <<disk, prot, lock, pc, frame, tampers, crashes>>

Phases == {"idle", "check", "sweep", "evict", "room", "write", "register",
           "count", "done", "release", "clear"}
Goals  == {"none", "reject", "tampered", "reserve", "hit", "published",
           "enforce"}

TypeOK ==
  /\ store \in [Asset -> {"absent", "good", "bad"}]
  /\ quarantine \in [Asset -> Nat]
  /\ partials \in [Asset -> Nat]
  /\ count \in [Proc -> [Asset -> Nat]]
  /\ leases \subseteq Proc \X Asset
  /\ stale \subseteq Asset
  /\ lock \in Proc \cup {Nobody}
  /\ pc \in Phases
  /\ asset \in Asset \cup {NoAsset}
  /\ protect \in BOOLEAN
  /\ goal \in Goals
  /\ active \subseteq Asset
  /\ tampers \in Nat
  /\ crashes \in Nat

Init ==
  /\ store = [a \in Asset |-> "absent"]
  /\ quarantine = [a \in Asset |-> 0]
  /\ partials = [a \in Asset |-> 0]
  /\ count = [p \in Proc |-> [a \in Asset |-> 0]]
  /\ leases = {}
  /\ stale = {}
  /\ lock = Nobody
  /\ pc = "idle"
  /\ asset = NoAsset
  /\ protect = FALSE
  /\ goal = "none"
  /\ active = {}
  /\ tampers = 0
  /\ crashes = 0

-----------------------------------------------------------------------------
Present == {a \in Asset : store[a] # "absent"}
Leased(a) == \E p \in Proc : <<p, a>> \in leases
Quarantined == {a \in Asset : quarantine[a] > 0}
Unfinished == {a \in Asset : partials[a] > 0}
Registered(p) == {a \in Asset : count[p][a] > 0}

(* Bytes of the regular files below assets/ and quarantine/, partial files *)
(* apart.                                                                  *)
BytesOf(copies) == SumFunctionOnSet([a \in Asset |-> Size[a] * copies[a]], Asset)
Bytes == SumFunctionOnSet(Size, Present) + BytesOf(quarantine)

Goto(from, to) == pc = from /\ pc' = to

(* The operation begins once its thread is inside the mutation lock, and   *)
(* ends, by return or by exception, by leaving it.                         *)
Enter(p, to) ==
  /\ lock = Nobody
  /\ lock' = p
  /\ Goto("idle", to)

Leave ==
  /\ lock' = Nobody
  /\ pc' = "idle"
  /\ protect' = FALSE
  /\ goal' = "none"
  /\ active' = {}
  /\ asset' = NoAsset

Enforce(why) ==
  /\ pc' = "sweep"
  /\ goal' = why
  /\ UNCHANGED <<lock, asset, protect, active>>

(* _has_cross_process_lease over the paths in As: a lease file that nobody *)
(* locks is unlinked, but behind a locked one the scan may stop early.     *)
ScanLeases(As) ==
  \E seen \in SUBSET {a \in As : Leased(a)} :
    stale' = stale \ ({a \in As : ~Leased(a)} \cup seen)

-----------------------------------------------------------------------------
(* extract().                                                              *)
BeginExtract(p, a, keep) ==
  /\ keep => count[p][a] < MaxHolds
  /\ Enter(p, "check")
  /\ asset' = a
  /\ protect' = keep
  /\ UNCHANGED <<disk, prot, goal, active, tampers, crashes>>

(* An asset larger than the whole quota is refused, but only after the     *)
(* cache itself has been brought back below it.                            *)
Oversize ==
  /\ pc = "check"
  /\ Size[asset] > Quota[lock]
  /\ Enforce("reject")
  /\ UNCHANGED <<disk, prot, tampers, crashes>>

Fits == pc = "check" /\ Size[asset] <= Quota[lock]

Hit ==
  /\ Fits
  /\ store[asset] = "good"
  /\ Enforce("hit")
  /\ UNCHANGED <<disk, prot, tampers, crashes>>

Miss ==
  /\ Fits
  /\ store[asset] = "absent"
  /\ Enforce("reserve")
  /\ UNCHANGED <<disk, prot, tampers, crashes>>

(* Slip: only this process's registrations count.                          *)
InUseHere == asset \in Registered(lock)

InUse == asset \in Registered(lock) \/ Leased(asset)

(* A file whose hash is wrong is moved to quarantine and the quota is      *)
(* enforced at once; extraction then goes on as after a miss.              *)
Quarantine ==
  /\ Fits
  /\ store[asset] = "bad"
  /\ ~InUse
  /\ store' = [store EXCEPT ![asset] = "absent"]
  /\ quarantine' = [quarantine EXCEPT ![asset] = @ + 1]
  /\ ScanLeases({asset})
  /\ Enforce("tampered")
  /\ UNCHANGED <<partials, count, leases, tampers, crashes>>

(* Not while somebody uses it: the extraction fails instead.               *)
RefuseTampered ==
  /\ Fits
  /\ store[asset] = "bad"
  /\ InUse
  /\ IF asset \in Registered(lock)
     THEN UNCHANGED stale ELSE ScanLeases({asset})
  /\ Leave
  /\ UNCHANGED <<disk, count, leases, tampers, crashes>>

-----------------------------------------------------------------------------
(* _enforce_quota_locked().                                                *)
(* Slip: nothing keeps the file being extracted from its own enforcement.  *)
ShieldNothing == {}

Shield ==
  IF goal \in {"hit", "published"} \/ (goal = "enforce" /\ protect)
  THEN {asset} ELSE {}

(* Slip: partial files are taken for files in use.                         *)
SweepKeepsDebris ==
  LET kept == Shield \cup Registered(lock) IN
  /\ Goto("sweep", "evict")
  /\ ScanLeases(Present \ kept)
  /\ active' = kept \cup {a \in Present : Leased(a)}
  /\ UNCHANGED <<disk, count, leases, lock, asset, protect, goal, tampers,
                 crashes>>

(* Slip: a lease file counts whether or not somebody locks it.             *)
SweepTrustsFiles ==
  LET kept == Shield \cup Registered(lock) IN
  /\ Goto("sweep", "evict")
  /\ partials' = [a \in Asset |-> 0]
  /\ active' = kept \cup {a \in Present : Leased(a) \/ a \in stale}
  /\ UNCHANGED <<store, quarantine, prot, lock, asset, protect, goal, tampers,
                 crashes>>

(* One pass over the directory: partial files are crash debris, and the    *)
(* files that must stay are the shielded, the registered and the leased.   *)
Sweep ==
  LET kept == Shield \cup Registered(lock) IN
  /\ Goto("sweep", "evict")
  /\ partials' = [a \in Asset |-> 0]
  /\ ScanLeases(Present \ kept)
  /\ active' = kept \cup {a \in Present : Leased(a)}
  /\ UNCHANGED <<store, quarantine, count, leases, lock, asset, protect, goal,
                 tampers, crashes>>

Target == LET reserve == IF goal = "reserve" THEN Size[asset] ELSE 0
             IN  IF Quota[lock] > reserve
                 THEN Quota[lock] - reserve ELSE 0

Evictable == Present \ active

EvictAsset(a) ==
  /\ pc = "evict" /\ Bytes > Target
  /\ a \in Evictable
  /\ store' = [store EXCEPT ![a] = "absent"]
  /\ UNCHANGED <<quarantine, partials, prot, lock, pc, frame, tampers, crashes>>

EvictQuarantined(a) ==
  /\ pc = "evict" /\ Bytes > Target
  /\ a \in Quarantined
  /\ quarantine' = [quarantine EXCEPT ![a] = @ - 1]
  /\ UNCHANGED <<store, partials, prot, lock, pc, frame, tampers, crashes>>

Enforced ==
  /\ pc = "evict"
  /\ Bytes <= Target \/ Evictable \cup Quarantined = {}

(* What the caller does with the bytes that remain.                        *)
AfterTampered ==
  /\ Enforced /\ goal = "tampered"
  /\ Enforce("reserve")
  /\ UNCHANGED <<disk, prot, tampers, crashes>>

AfterReserve ==
  /\ Enforced /\ goal = "reserve"
  /\ Bytes + Size[asset] <= Quota[lock]
  /\ pc' = "room"
  /\ UNCHANGED <<disk, prot, lock, frame, tampers, crashes>>

AfterExtract ==
  /\ Enforced /\ goal \in {"hit", "published"}
  /\ pc' = IF protect THEN "register" ELSE "done"
  /\ UNCHANGED <<disk, prot, lock, frame, tampers, crashes>>

(* enforce_quota() returns, an oversize asset or one the active files      *)
(* leave no quota for is refused.                                          *)
AfterOthers ==
  /\ Enforced
  /\ \/ goal \in {"reject", "enforce"}
     \/ goal = "reserve" /\ Bytes + Size[asset] > Quota[lock]
  /\ Leave
  /\ UNCHANGED <<disk, prot, tampers, crashes>>

-----------------------------------------------------------------------------
(* The bytes go to a partial file, which replaces the target only if their *)
(* number and hash are right.                                              *)
Write ==
  /\ Goto("room", "write")
  /\ partials' = [partials EXCEPT ![asset] = @ + 1]
  /\ UNCHANGED <<store, quarantine, prot, lock, frame, tampers, crashes>>

Publish ==
  /\ pc = "write"
  /\ store' = [store EXCEPT ![asset] = "good"]
  /\ partials' = [partials EXCEPT ![asset] = @ - 1]
  /\ Enforce("published")
  /\ UNCHANGED <<quarantine, prot, tampers, crashes>>

(* The file of a lease that its owner no longer locks, or did not get to   *)
(* lock, may be unlinked or, when that fails, stay behind.                 *)
UnfinishedLease ==
  IF pc = "register" /\ asset \notin Registered(lock) THEN {asset} ELSE {}

MayLeave(left) == \E As \in SUBSET left : stale' = stale \cup As

(* A cancelled token, a full disk, an archive that is not what it was, an  *)
(* unreadable or undeletable file, a lease that cannot be locked: the      *)
(* operation raises.  Only a partial file of its own has to be taken back, *)
(* and the file of the lease.                                              *)
Raise ==
  /\ pc \in {"check", "sweep", "evict", "room", "write", "register", "clear"}
  /\ partials' = IF pc = "write" THEN [partials EXCEPT ![asset] = @ - 1]
                 ELSE partials
  /\ MayLeave(UnfinishedLease)
  /\ Leave
  /\ UNCHANGED <<store, quarantine, count, leases, tampers, crashes>>

Return ==
  /\ pc = "done"
  /\ Leave
  /\ UNCHANGED <<disk, prot, tampers, crashes>>

-----------------------------------------------------------------------------
(* register_protected(), and the registration that ends an extraction:     *)
(* the first one of a process takes a lease of its own.                    *)
BeginRegister(p, a) ==
  /\ store[a] # "absent"
  /\ count[p][a] < MaxHolds
  /\ Enter(p, "register")
  /\ asset' = a
  /\ protect' = TRUE
  /\ UNCHANGED <<disk, prot, goal, active, tampers, crashes>>

TakeLease ==
  /\ Goto("register", "count")
  /\ leases' = IF asset \in Registered(lock) THEN leases
               ELSE leases \cup {<<lock, asset>>}
  /\ UNCHANGED <<disk, count, stale, lock, frame, tampers, crashes>>

Register ==
  /\ Goto("count", "done")
  /\ count' = [count EXCEPT ![lock][asset] = @ + 1]
  /\ UNCHANGED <<disk, leases, stale, lock, frame, tampers, crashes>>

(* unregister_protected() counts down, and is done unless that was the last*)
(* registration of its process, ...                                        *)
Unregister(p, a) ==
  /\ lock = Nobody
  /\ count[p][a] > 0
  /\ count' = [count EXCEPT ![p][a] = @ - 1]
  /\ IF count[p][a] = 1 THEN Enter(p, "release") /\ asset' = a
     ELSE UNCHANGED <<lock, pc, asset>>
  /\ UNCHANGED <<disk, leases, stale, protect, goal, active, tampers, crashes>>

(* Slip: the file is unlinked while it is still locked, so when that fails *)
(* it stays locked.                                                        *)
ReleaseUnlinksFirst ==
  /\ pc = "release"
  /\ leases' \in {leases, leases \ {<<lock, asset>>}}
  /\ Leave
  /\ UNCHANGED <<disk, count, stale, tampers, crashes>>

(* ... whose lease it then releases: unlocked and closed, whatever fails,  *)
(* before its file is unlinked.                                            *)
Release ==
  /\ pc = "release"
  /\ leases' = leases \ {<<lock, asset>>}
  /\ MayLeave({asset})
  /\ Leave
  /\ UNCHANGED <<disk, count, tampers, crashes>>

-----------------------------------------------------------------------------
(* enforce_quota(protected={a}) or enforce_quota().                        *)
BeginEnforce(p, a, keep) ==
  /\ keep => store[a] # "absent"
  /\ Enter(p, "sweep")
  /\ asset' = a
  /\ protect' = keep
  /\ goal' = "enforce"
  /\ UNCHANGED <<disk, prot, active, tampers, crashes>>

(* clear() refuses while anything is in use, here or in another process.   *)
BeginClear(p) ==
  /\ lock = Nobody
  /\ ScanLeases(Present)
  /\ \/ /\ Registered(p) = {}
        /\ \A a \in Present : ~Leased(a)
        /\ Enter(p, "clear")
     \/ /\ Registered(p) # {} \/ \E a \in Present : Leased(a)
        /\ UNCHANGED <<lock, pc>>
  /\ UNCHANGED <<disk, count, leases, frame, tampers, crashes>>

(* rmtree(assets), then rmtree(quarantine), file by file.                  *)
ClearFile(a) ==
  /\ pc = "clear"
  /\ \/ /\ store[a] # "absent"
        /\ store' = [store EXCEPT ![a] = "absent"]
        /\ UNCHANGED <<quarantine, partials>>
     \/ /\ partials[a] > 0
        /\ partials' = [partials EXCEPT ![a] = @ - 1]
        /\ UNCHANGED <<store, quarantine>>
     \/ /\ Present \cup Unfinished = {} /\ quarantine[a] > 0
        /\ quarantine' = [quarantine EXCEPT ![a] = @ - 1]
        /\ UNCHANGED <<store, partials>>
  /\ UNCHANGED <<prot, lock, pc, frame, tampers, crashes>>

Cleared ==
  /\ Present \cup Unfinished \cup Quarantined = {}
  /\ Goto("clear", "done")
  /\ UNCHANGED <<disk, prot, lock, frame, tampers, crashes>>

-----------------------------------------------------------------------------
(* A writer outside the cache damages a file.                              *)
Tamper(a) ==
  /\ tampers < MaxTampers
  /\ tampers' = tampers + 1
  /\ store[a] = "good"
  /\ store' = [store EXCEPT ![a] = "bad"]
  /\ UNCHANGED <<quarantine, partials, prot, lock, pc, frame, crashes>>

(* A process dies: its memory and its advisory locks go, its files stay,   *)
(* among them the lease file of a registration it had not finished.        *)
Crash(p) ==
  /\ crashes < MaxCrashes
  /\ lock = p \/ Registered(p) # {}
  /\ crashes' = crashes + 1
  /\ count' = [count EXCEPT ![p] = [a \in Asset |-> 0]]
  /\ leases' = {l \in leases : l[1] # p}
  /\ \E unfinished \in SUBSET (IF lock = p THEN UnfinishedLease ELSE {}) :
       stale' = stale \cup unfinished \cup {a \in Asset : <<p, a>> \in leases}
  /\ IF lock = p THEN Leave ELSE UNCHANGED <<lock, pc, frame>>
  /\ UNCHANGED <<disk, tampers>>

-----------------------------------------------------------------------------
Begin(p) ==
  \/ \E a \in Asset : \/ \E keep \in BOOLEAN : BeginExtract(p, a, keep)
                      \/ \E keep \in BOOLEAN : BeginEnforce(p, a, keep)
                      \/ BeginRegister(p, a)
  \/ BeginClear(p)

Advance ==
  \/ Oversize \/ Hit \/ Miss \/ Quarantine \/ RefuseTampered
  \/ Sweep \/ (\E a \in Asset : EvictAsset(a) \/ EvictQuarantined(a))
  \/ AfterTampered \/ AfterReserve \/ AfterExtract \/ AfterOthers
  \/ Write \/ Publish \/ TakeLease \/ Register \/ Release \/ Return
  \/ (\E a \in Asset : ClearFile(a)) \/ Cleared

Next ==
  \/ \E p \in Proc : Begin(p)
  \/ Advance \/ Raise
  \/ \E p \in Proc, a \in Asset : Unregister(p, a)
  \/ \E a \in Asset : Tamper(a)
  \/ \E p \in Proc : Crash(p)

Spec == Init /\ [][Next]_vars

(* The thread inside the lock keeps running.                               *)
FairSpec == Spec /\ WF_vars(Advance)

-----------------------------------------------------------------------------
PS == INSTANCE ProtectedStore WITH content <- store, held <- leases

(* The cache keeps the promise of ProtectedStore: whatever eviction,       *)
(* quarantine, clearing, cancellation or a crash does, a file leaves its   *)
(* path only when no process holds a lease on it.                          *)
KeepsPromise == PS!Spec

(* A leased asset's file exists.                                           *)
HeldIsPresent == PS!HeldIsPresent

(* A registration that its process counts has the lease the others see,    *)
(* even while it is being made or withdrawn, and a lease has a registration*)
(* but in the middle of that: a failing lock or unlink leaks no lease that *)
(* pins a file for ever and leaves no registration that others cannot see. *)
HalfRegistered(p, a) == lock = p /\ asset = a /\ pc \in {"count", "release"}

LeaseIffRegistered ==
  \A p \in Proc, a \in Asset :
    /\ count[p][a] > 0 => <<p, a>> \in leases
    /\ <<p, a>> \in leases => count[p][a] > 0 \/ HalfRegistered(p, a)

(* What a crashed process used does not stay pinned: when enforcement      *)
(* decides what to spare, that is the file it shields and those a living   *)
(* process registered, however many lease files the dead left behind.      *)
OnlyLiveUsersPin ==
  [][pc = "sweep" /\ pc' = "evict"
       => active' \subseteq Shield \cup UNION {Registered(p) : p \in Proc}]_vars

(* Everything on disk, partial files included (at their full length),      *)
(* stays within the largest quota, whatever crashes left behind: a partial *)
(* file never outlives the next extraction that needs room.                *)
LargestQuota == Max({Quota[p] : p \in Proc})
WithinQuota == Bytes + BytesOf(partials) <= LargestQuota

(* An extraction that succeeds hands out a file that is there and, if the  *)
(* caller asked, leased, and leaves the cache within its own quota unless  *)
(* files in use prevent it; a published file always fits.                  *)
ExtractionDelivers ==
  pc = "done" /\ goal \in {"hit", "published"} =>
    /\ store[asset] # "absent"
    /\ protect => <<lock, asset>> \in leases
    /\ \/ Bytes <= Quota[lock]
       \/ goal = "hit" /\ Present \subseteq active /\ Quarantined = {}
=============================================================================
