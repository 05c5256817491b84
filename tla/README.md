# VAO Blender: models, checks and proofs

VAO Blender is a Blender extension that validates, opens and plays `.vao` packages: archives with a manifest, 3D
geometry and audio samples of historical instruments and rooms. The repository also carries, unmodified, the reference
tools of the package format (`contract/`): validators, an interpreter for interaction models, and tools that author,
pack and publish packages. This directory holds TLA+ models of both. Every definition is translated from the source;
`PROJECT.json` names the lines of each.

## 1. The system

| Part | State | Operations | Talks to |
| --- | --- | --- | --- |
| Asset cache (`core/cache.py`) | files, partial and quarantined files, lease files on disk; registrations and thread locks in memory | `extract`, `register_protected`, `unregister_protected`, `enforce_quota`, `clear`, `initialize` | other Blender processes, through the disk only |
| Validation pipeline (`core/archive.py`) | one open handle, digests, verified entries, diagnostics | `validate_package` | the file system, the cancellation token, the reference validators |
| Rules and lookups (`core/`): semantics, graph, capabilities, frames, glTF, schemas, strict JSON | none | pure functions | the pipeline, the adapter |
| Interaction compiler (`core/interaction_compile.py`) | local sets while it runs | `compile_interactions` | its plans go to the audio engine |
| Sessions (`blender/session.py`) | `SESSIONS`, a `Session` each | install a result, close, relink, discover detached data, resync after undo | the scene's `vao_runtime`, the cache |
| Operators (`blender/operators.py`) | the active validations, a snapshot of the runtime, a worker each | validate, relink, cancel, close, remove, acknowledge, load visual, preview | all of the above |
| Scene adapter (`blender/scene_adapter.py`) | collections and datablocks in the user's file, tagged with who made them | import with rollback, markers, interaction board, removals | sessions, the cache, frames |
| Audio engine (`blender/audio_engine.py`) | decoded sounds, active voices, timers | `open_gate`, `close_gate`, `preview_gate`, `close` | the session (which protects the sample files), Aud |
| Performance mode (`blender/performance.py`) | pressed gates, the selected configurations | a modal operator | the audio engine |
| Handlers (`blender/handlers.py`) | none | load, quit, undo | operators, sessions |
| Reference interpreter (`vao05_runtime.py`) | the state of one execution, generators, a queue | `Interpreter.execute`, `verify_trace` | nothing: a trace in, a result out |
| Reference validators (`vao05.py`, `vao03.py`) | none | `validate_manifest`, `migrate_03_manifest` | the pipeline, by callback; an author |
| Carriers and publication (the same files) | a workspace, an output, companion descriptors | `validate_workspace`, `validate_archive`, `pack_workspace`, `validate_*_set` | the file system |
| 0.2 tools (`vaom.py`) | a workspace directory, no lock | `init`, `add`, `entity`, `link`, `pack`, `unpack`, `migrate` | the file system, each other through it |

Threads: Blender runs operators, handlers and timers on its main thread, one after the other. A validation runs in a
worker thread of its own; its result is taken by the operator's timer event. The cache is used by the main threads of
several processes, and within one process by more than one thread. The reference tools are single-threaded processes;
several of them may work on one directory.

What is hard: (a) two processes and a crash around the cache's lock and lease files; (b) a package file that is
overwritten while it is read, and a cancellation that is raised inside somebody else's `try`; (c) undo and file loading,
which bring the scene back to an earlier state but not the Python registry; (d) an import that fails half way in a file
in which the user has linked, copied and renamed things; (e) a chord that fails in the middle, timers that fire late, a
cache of sounds that prunes what is just needed; (f) conflicts that are resolved in an order nobody declared; (g) rules
that hold for each record of a manifest and not for a chain of them; (h) files that are validated and then opened again.
The `hazards` of `PROJECT.json` list them line by line.

What makes each part correct, in a sentence:

- *cache*: a file somebody uses stays where it is; everything else can be evicted, and the disk use is bounded;
- *validation*: what passes was one file from beginning to end, and every package gets the outcome it deserves;
- *sessions*: no media without a passed result and acknowledged rights of that very session;
- *scene*: a removal or a rollback takes what the session made, all of it and nothing else;
- *audio*: no partial chord, no stuck note, no sample unprotected while it plays;
- *compiler*: ambiguity is an error, whatever the order, and one stroke starts at most one voice of a configuration;
- *interpreter*: what was validated runs, ends, stays in its domains, and replays to the same result;
- *validators*: what they accept means what it says: causes precede effects, a clock mapping is a function, what is
  played exists and has not been rejected, a migration invents nothing;
- *delivery*: an archive that is reported is sealed, an output that is not ours is left alone, and an accepted release
  leads to bytes on which everybody agrees;
- *0.2 workspaces*: a manifest names files that are there, what is in an archive plays, and what is unpacked is valid.

## 2. The modules

The extension:

| Module | Models | How state and actions correspond |
| --- | --- | --- |
| `Mutex` | the promise of a mutation lock | one owner; take, give back, lose by a crash |
| `CacheLock` | `_ProcessFileLock`, `initialize`, the marker | each thread is somewhere in `__enter__`: thread lock, then file lock; a token may be set at any time; a process may die with all its threads |
| `ProtectedStore` | what the cache promises its users | a path's content, and who holds it |
| `AssetCache` | what happens under the lock | `lock` is who is inside, `pc` where; `leases` are the lease files, `count` the registrations in memory, which change in steps of their own; a crash loses the latter and leaves the files |
| `ValidationPipeline` | `validate_package`, its readers and `_stable_source` | `pc` is the stage; `path` and `bytes` are the contents the path leads to and the handle reads; `outcome` is what leaves the `with` block, by return or by exception |
| `PackageRules` | `validate_semantics`, `build_graph`, `negotiate`, `inject_glb_node_indices` | operators, without state |
| `Frames` | transforms, frames and poses of `core/vao03.py`, placement | operators, without state |
| `InteractionCompile` | `compile_interactions` | `i` is the loop variable of the first pass, `deferred` is `internal_voices`; sets for `configuration_ids`, `gates_by_id` and the plans |
| `AudioEngine` | the engine behind one session | a phase per voice plan, `sounds` in the order of the dictionary, `held` are the protected samples; `open_gate` is split where it resolves each sound and starts each voice, under the device lock |
| `Performance` | performance mode and the preview operator | composes `AudioEngine`; `keys` and `mouse` are what the user holds, `pressed` is `pressed_gates`, `user` the call that is under way |
| `SessionLifecycle` | sessions, the validation operator, undo and files | `registry` is `SESSIONS`, `runtime` is `scene.vao_runtime`, `roots` and `reports` are what the scene holds, `op` the operator with its worker and snapshot, `past` what undo or a saved file brings back |
| `SceneAdapter` | what is made in the user's file and removed from it | `data` is `bpy.data` with its links; the fields of the session it reads beside it; the user's own edits are actions |

The reference tools:

| Module | Models | How state and actions correspond |
| --- | --- | --- |
| `Records` | manifests as registries of records | operators that the contracts share |
| `Quantities`, `ScientificContract`, `AcousticsContract`, `MultimodalContract`, `RetainedContract` | the rules of `validate_manifest()` of 0.5.0 and of 0.3.3, a chapter each | predicates; one per rule or table of references |
| `Manifest` | the whole of `validate_manifest()`, the projection to 0.3, `migrate_03_manifest()` | `ManifestFits`, `ManifestFits03`, `Migrated` |
| `Authoring` | an author who edits, validates, migrates | `doc` is the manifest, `report` the last report, `origin` what was migrated |
| `InteractionContract` | the rules for interaction models and traces | predicates |
| `Interpreter` | `Interpreter.execute` and `verify_trace` | one action per event, action of a transition, item of an expansion and draw; `todo` are the scheduled actions, `writes` the pending ones, `work` is the stack of `_process_actions()`, `pass` tells the recording from the replay |
| `CarrierContract` | what a workspace or an archive must be | predicates over a manifest's bytes, a descriptor and files |
| `Packing` | both `pack_workspace()` | `work` is the directory, `out` the output path, `pc` where the tool is, `made` and `parts` what it has written; an editor and another program act in between |
| `Publication` | the validators of releases, receipts, packs and metadata, and a publisher | `desk` are the files, `check` what a validator has in hand |
| `LegacyContract`, `LegacyExperience` | `validate_manifest()` of 0.2 | predicates, as above |
| `Workspace` | the commands of `vaom` | `disk`, `archive` and `copy` are directories and files, `tool` what each process holds in memory and where it is; `pack` writes entry by entry, closes, validates, and takes away by name; `unpack` validates, clears, opens a second time and extracts entry by entry; `validated` and `by` only record who has found the archive valid and who has touched the directory |

`CacheLock` is the lock that `AssetCache` takes: `AssetCache` starts from an acquired lock, which is what
`CacheLock` shows of it (run `cache_lock`, theorem `LockIsMutex`). `Performance` EXTENDS `AudioEngine`, `Publication`
EXTENDS `Packing`, and each contract the ones it builds on. The outcomes that `SessionLifecycle` takes are those of
`ValidationPipeline`; the plans of `AudioEngine` are those `InteractionCompile` makes, which is why the models of
performance mode have only independent selections and at most one voice per configuration and gate. The flaw
`rules` of a package of 0.2 in `ValidationPipeline` is that `PackageRules` finds something. Modules whose name begins
with `MC` give the constants of a run, those that end in `Proofs` hold the theorems.

## 3. The runs

| Run | Question | Instance |
| --- | --- | --- |
| `cache_lock` | Is the two-level lock a mutex that is never lost? | two processes, one with two threads, one crash |
| `asset_cache` | Does the cache keep its promise and its quota? | two processes with quotas 4 and 2; assets of sizes 1, 1 and 3; two registrations each, one crash, one tampering |
| `validation` | Does a package get the outcome it deserves, from a stable source? | 18 packages, each of which may become any other once; two entries, two chunks; every choice of arguments and system |
| `interaction_compile` | Does the first-come compiler refuse exactly what is ambiguous? | packages of up to five interactions out of ten |
| `performance` | No partial chord, stuck note or unprotected sample? | two gates, two configurations, three samples; polyphony 2, sound cache 2, one preview |
| `session` | Is media always authorized, and does every validation end? | two validations, one undo, one file |
| `scene` | Is what is removed ours, and all of ours? | two models, one marker, one edit of the user's besides those of scenes |
| `interpreter` | Do accepted traces run, end and replay? | three transitions under every policy and group; every graph of three processes; generators of four words |
| `authoring` | Does an accepted manifest mean what it says? | a survey, an instrument, a manifest of 0.3; any three of their edits |
| `delivery` | Is what is packed and published what was validated? | two tools, two payloads under four spellings, two edits, two packs, two amendments |
| `workspace` | Do manifests, files and archives agree? | two tools, three or four commands, one edit, one kill or interruption |
| `cancel_as_invalid` | see section 4 | the sound packages of `validation` |

What they show, property by property (each has a mutant of the code, named in `PROJECT.json`, that breaks it):

- `cache_lock`. `IsMutex`: the thread lock and the file lock together are `Mutex`. `OnlyManagedRoots`: whoever works
  has seen the marker, whoever wrote it. `LockHandedOn`: a free lock that is waited for is taken by somebody, and a
  cancelled wait ends without the thread lock.
- `asset_cache`. `KeepsPromise`: the cache refines `ProtectedStore`. `LeaseIffRegistered`: memory and disk agree:
  whoever is counted has a lease, also in the middle, and a lease without a count is one that is being made or given up.
  `OnlyLiveUsersPin`: the dead do not pin files. `WithinQuota`: partial files count, too. `ExtractionDelivers`: what is
  handed out is there, and leased if asked.
- `validation`. `PassedSourceIsStable`, `OutcomeIsDeserved` (against `Deserved`, which knows no stages),
  `CancelStopsReading` and `ValidationReturns`. Its assumptions: `RulesAreIndependent`, `OfferedAsDeclared`,
  `GraphIsTwoWay`, `CopyIsAGlb`.
- `interaction_compile`. `SupportedIfUnambiguous` (against `Complete` and `Unambiguous`, which know no order) and
  `OneVoicePerStroke`.
- `performance`. `NeededSoundsHeld`: what sounds is decoded, and what is decoded is protected and nothing else.
  `NoPartialGate`: all voices of a chord or none. `NoStuckNotes`.
- `session`. `MediaIsAuthorized`, `DetachedDataStaysSelectable`, `ValidationEnds`; `SceneIsCurrentUntilUndo`: until
  something is undone, the scene shows a validation only while there is one, and no session is orphaned.
- `scene`. `SparesTheUser`: no step of the extension takes an object, a link or a mesh of the user's. `NothingLeftBehind`:
  while the user has not touched what is managed, there is nothing of a session but what its root holds.
  `FailureLeavesNothing`: a load that fails leaves the file as it was. Its assumptions: `InverseIsExact`,
  `RotationsAreRigid`, `FramesComposeOrAreRefused`, `PlacedInOneSpace`.
- `interpreter`. `AcceptedTripsOnlyAtRun`: an accepted trace never meets an error that the validators should have seen.
  `StateInDomain`, `ReplayAgrees`, `PoliciesDecide` (against what the policy of a conflict declares), `ExecutionEnds`.
  Its assumption `SelectionIsExact`: the words that are not rejected select each candidate in proportion to its weight.
- `authoring`. `ProvenanceIsCausal`: along every chain of activities, not only between two. `SynchronizationIsAFunction`:
  the segments of a mapping give every instant one image. `PlayedRecordsAreUsable`: the whole chain from a key to a
  sample. `MigrationInventsNothing`. Its assumption `PsdExactly`: the elimination accepts exactly the covariances none of
  whose principal minors is negative.
- `delivery`. `PackedIsSealed`: a reported archive is complete, unambiguous and validates, whatever was edited
  meanwhile. `OutputIsOurs`: a pack of 0.5.0 that fails takes what it wrote and nothing else. `ReleaseIsClosed`,
  `BytesAgree`: from an accepted release every dependency is reachable, and all who name a realization's bytes agree.
  The last two speak of checks during which nothing was amended: of a file that changes between two readings of one
  check the code promises nothing, and neither do they; nor of two carriers of one name (section 4).
- `workspace`. `NamesWhatIsThere`: at every moment, whoever is in the middle of a command, the files of the manifest are
  in the directory. `PlaysFromArchive`: in an archive that `pack` has reported or `unpack` begun with, and whose profile
  claims experiences, each leads to a sound that is inside; it says nothing of an archive that is only closed, since the
  code closes before it validates. `UnpackedIsValid`: what `unpack` has extracted when it goes to report it is valid,
  entry after entry, if it opened what a tool had found valid and nobody else touched the directory. Both provisos are
  needed (section 4).

The modules of the extension and `Interpreter` state a type invariant, `TypeOK`. Those were model-checked with these
instances, and are proved (section 5); the runs leave them out in favour of properties
that could fail. That of `SceneAdapter`, `SceneTypeOK`, says more than types: what a collection links to and what an
object uses is in the file. In the other modules of the tools the state is made of manifests, whose types are
the rules.

### Algorithms without state

What is a function of one input is stated as an `ASSUME` of the module of a run, against a definition that does not
follow the code: determinants for `matrix_inverse` and principal minors for `_covariance_is_psd`, Hamilton's product for
rotations, closed sets for the walk to the root, exact shares for draws. TLC evaluates them once, before the run. In
`Frames` numbers are those of a field of five elements: each formula of the code is one of field arithmetic, an identity
among them that fails over the rationals by a sign or an order fails there too, and the search is exhaustive. What
rounding does is not seen.

### Bounds, and why they are enough

- `MaxCrashes`, `MaxTampers` (1): a second crash or tampering finds the same kinds of leftovers, partial files and dead
  leases, which one leaves already. `MaxHolds` (2) is the least at which a counter differs from a flag.
- Sizes and quotas: one asset exceeds a quota, two fit, the third does not fit beside both; so every branch of
  reserve, eviction and refusal is taken.
- `MaxChanges` (1), `Chunks` (2), two entries: one change can fall between any two reads; the theorems hold for any
  number.
- `MaxPolyphony`, `MaxSounds` (2): one gate fills them, so that the next one is refused or prunes; a sample is shared.
- `MaxBegins` (2), `MaxUndos`, `MaxLoads` (1): an old result and a new one, a snapshot of the one across the end of the
  other, and one step back in between.
- Interactions: five are a toggle, a gate, and three that conflict with them or with each other.
- `MaxAlike` (2): a copy beside its original, and what a rollback left beside what a second load makes. `MaxEdits` (1) of
  the user's objects: each thing of the session's can be linked elsewhere, taken out or joined by something of the
  user's; scenes can be copied, renamed and deleted in any order besides. The view leaves out the protected files, which
  nothing in the module reads.
- `Interpreter`: `MaxTotal` bounds the steps of an expansion above what any of the models needs, as the code's limit
  does; three writers are two that conflict and one that either of them conflicts with.
- `Authoring`, `MaxEdits` (3): two edits that are harmful only together, and one that hides them; the drafts start
  valid, so that every rule can be broken alone.
- `delivery`, `MaxEdits`, `MaxRuns`, `MaxAmends` (2): an edit before and one after the validation; a pack that finds the
  output of another; an amendment that is put right again. The view leaves out counters once they cannot matter.
- `workspace`, `Plans`: any three commands that work on the directory; three packs and an unpack, so that the archive
  that unpack validated is taken away, another put in its place, and that one opened; and a pack with two unpacks, or
  with migrations, that meet at one destination. `MaxKills` (1) is a kill or an interruption: either leaves one archive
  that is partial, the one closed and the other not. `SYMMETRY` is of the two tools, which are alike.

`CHECK_DEADLOCK FALSE` is set where everything ends: a call has returned, or the user, the author or the publisher has
used up what they may do.

### Fairness

- `cache_lock`: weak fairness of every thread's steps but not of beginning an operation, cancelling or crashing. The
  acquisition polls, and a thread that polls is scheduled. No thread is promised the lock: polling is not fair, and
  `LockHandedOn` claims no more than that somebody gets it.
- `asset_cache`: weak fairness of the operation inside the lock.
- `validation`: weak fairness of the worker's steps. Nothing is assumed of the user or of other programs.
- `performance`: weak fairness of the call that runs; strong fairness of the ends of ramps and previews, because Blender
  runs due timers between two operator calls, however often the user presses something in between. Nothing is assumed
  of the user.
- `session`: weak fairness of the worker, which returns by `ValidationReturns`, and of the operator's timer event, which
  takes its result or notices that its scene is gone.
- `interpreter`: weak fairness of the next step, because a single-threaded loop goes on.
- The other runs have no liveness property: authors, publishers and users may stop.

## 4. Where the code does something else than is said of it

The run `cancel_as_invalid` shows one disagreement. A validation that is cancelled while a 0.3 or 0.5 package's carriers
are read raises `CancelledError`, a `RuntimeError`, inside the reference validators. They catch it and report that the
carrier cannot be verified, so that a sound package is called `INVALID` (`core/archive.py:969`). Of that result
`docs/ARCHITECTURE.md:206` says that "`Invalid` means the package failed conformance."

The following definitions state what a document or a comment says, and no run checks them, because the code does
otherwise. To see it, put the definition in the place of the INVARIANTS and PROPERTIES of the run of its module (for
`Packing` and `Publication` that is `delivery`). Paths of the extension are below `vao_blender/`, those of the tools
below `contract/vao-0.5.0/`.

| Definition | Module | What the code does | What is said |
| --- | --- | --- | --- |
| `OnlyKeyUpReleases` | `Performance` | the timer of a preview releases a gate that has been pressed since (`blender/audio_engine.py:276`) | `docs/CUNTZ_REFERENCE.md:226`: key-up closes the gate |
| `ValidatingIsReal` | `SessionLifecycle` | undo brings back `VALIDATING` without a validation (`blender/session.py:735`) | `RELEASE_NOTES.md:36`: handlers reconcile stale state safely |
| `MismatchStaysDetached` | `SessionLifecycle` | undo makes the data of a detached session `READY` again (`blender/session.py:753`) | `blender/panels.py:147`: it remains detached and media-disabled |
| `CancellableFromSidebar` | `SessionLifecycle` | closing the package during a validation hides the button that cancels it (`blender/operators.py:1031`) | `blender/operators.py:217`: remains cancellable from the sidebar |
| `BrokenIsInvalid` | `ValidationPipeline` | data that do not decompress raise `zlib.error`, which nobody turns into `INVALID` (`core/archive.py:1391`) | `docs/ARCHITECTURE.md:184`: a conformance failure is `Invalid` |
| `CopiesHaveNoAuthority` | `SceneAdapter` | once the original scene is deleted and its copy renamed, the copy takes the session | `blender/session.py:226`: copies cannot steal a session |
| `BoardShowsSelection` | `SceneAdapter` | a load retags the board of an earlier session, which keeps showing that one's selection (`blender/scene_adapter.py:214`) | `docs/ARCHITECTURE.md:428`: the selection is reset |
| `DisagreementIsRefused` | `Interpreter` | policies are compared only while a value differs from the pending one; a third write may hide a disagreement (`Tools/vao05_runtime.py:451`) | `VAO_STANDARD_0.5.0.md:307`: all conflicting transitions declare the same policy |
| `TargetStays` | `Packing` | the pack of 0.3 unlinks its output on any exception, also one that another program put there (`Tools/vao03.py:2598`) | `VAO_CONFORMANCE_0.5.0.md:87`: refuse to overwrite an existing target |
| `EveryCarrierChecked` | `Publication` | inventories are keyed by file identifier, so that one of two carriers of the same name is not compared (`Tools/vao05.py:4865`) | the docstring at line 4845: every deposited carrier |
| `EvidenceIsNotCircular` | `Authoring` | a claim may rest on an activity that used the claim | `VAO_SCIENTIFIC_PROFILE_0.5.0.md:32`: non-circular evidence |

More of undo: an undo to before a package was opened leaves its session in `SESSIONS`, with its leases and its samples,
until the file is closed or another is loaded. More of copied scenes: a copy carries the session id of its original,
and the name of the scene decides which of the two is the session's (`blender/session.py:218`).

What was seen while modelling and is in the models as the code does it:

- Audio. `docs/ARCHITECTURE.md:488` speaks of stealing voices that are released, then the oldest. `open_gate` prunes
  what has ended and refuses the rest.
- Scene. The first load of a session removes the empty child collections it has just made (`scene_adapter.py:500`). A
  load that fails after it made the root forgets the root and keeps its name. A rollback does not look at glTF node
  groups. Taking a representation away leaves its markers, and its file stays protected.
- Validators of the tools. Loops may contain regions that were rejected or superseded (`vao03.py:936`, against
  `VAO_STANDARD_0.5.0.md:265`). Nobody checks that a distribution inside a carrier leads to a carrier that embeds the
  realization (`VAO_CONFORMANCE_0.5.0.md:74`). `check_band_axis` accepts equal neighbours. A boolean passes for a number
  in `increment-state`. A name that is not in NFC validates and is refused by pack (`vao05.py:5337`); a chunk whose file
  does not look like one is passed over (`vao05.py:4281`).
- Interpreter. A relative write starts from the pending value, also from one that loses.
- Migration from 0.3. A trajectory, of a pose or of a listener, is only carried over to a realization of a kind that 0.3
  does not know (`vao05.py:5751` against `Schemas/vao-manifest-0.3.schema.json:188`): every manifest of 0.3 that names
  one is refused. Inherited provenance is dropped (5631), against the docstring at 5387. The destination is looked at
  twice and then renamed onto.
- 0.2. Counts of tiers are not compared. An `unpack --force` while another process migrates can leave a manifest
  without its files. A migration reads its source twice and copies it outside its `try`. A pack that fails unlinks what
  another wrote, and may have reported (`vaom.py:4704`); one that succeeds may have validated, and reports, what another
  has put there. A pack that is killed before its validation leaves a closed archive that nobody has validated, and so
  does Ctrl-C in the middle of writing, which closes the container and is no `Exception`: that archive is partial. An
  `unpack` opens the archive a second time (4725), and may extract one that a pack has closed but not validated. Of two
  `unpack --force`, the later clears the directory between two entries of the earlier (4722), which goes on and reports
  success. None of these is claimed against by a document. Two `add` of one file name may overwrite each other's file.

`CommonFrame` (`Authoring`) and `WithinPolyphony` (`AudioEngine`) hold, and are left out of the runs because others say
more.

## 5. The proofs

For every value of the constants, from the named assumptions of the modules and nothing else:

| Module | Theorem | Property of a run |
| --- | --- | --- |
| `AssetCacheProofs` | `LockTypeCorrect`, `Exclusion`, `LockIsMutex`, `RootsAreOurs` | `IsMutex`, `OnlyManagedRoots` |
| | `TypeCorrect`, `LeasedFilesExist`, `CacheKeepsPromise`, `LeasesAreRegistrations`, `TheDeadPinNothing`, `CacheStaysWithinQuota`, `ExtractionKeepsItsWord` | all five of `asset_cache` |
| `SessionLifecycleProofs` | `TypeCorrect`, `MediaStaysAuthorized`, `SceneDataStaysSelectable`, `SceneIsCurrent` | all of `session` but `ValidationEnds` |
| | `SceneInvHolds`, `SceneTypes`, `TheUserIsSpared`, `FailedLoadsLeaveNothing`, `NothingIsLeftBehind` | all three of `scene` |
| `InteractionCompileProofs` | `TypeCorrect`, `OneVoice`, `Reachable`, `Unambiguity` | both of `interaction_compile` |
| `ValidationPipelineProofs` | `TypeCorrect`, `SourceIsStable`, `CancellationStops`, `Deserts` | all of `validation` but `ValidationReturns` |
| `PerformanceProofs` | `TypeCorrect`, `SoundsStayHeld`, `PolyphonyHolds`, `GatesStartWhole` | all of `performance` but `NoStuckNotes` |
| `InterpreterProofs` | `TypeCorrect`, `DomainsKept`, `AcceptedTraces`, `ReplaysAgree`, `ConflictsDecided` | all of `interpreter` but `ExecutionEnds` |
| `PublicationProofs` | `OutputStaysOurs`, `PackedStaysSealed`, `ReleaseStaysClosed`, `BytesStayOne` | all four of `delivery` |
| | `AcceptedProvenanceIsCausal`, `SynchronizationsAreFunctions`, `PlayedRecordsStayUsable`, `MigrationsInventNothing` | all four of `authoring` |
| `WorkspaceProofs` | `WorkspaceInvHolds`, `NamesAreThere`, `ExtractionsAreValid`, `ArchivesPlay` | all three of `workspace` |

None of the properties is inductive as it stands. The invariants, and why they are needed:

- The lock. `FileLockInv` says which lock a thread holds at which place of `__enter__`. Mutual exclusion alone is not
  inductive: the step that takes the file lock preserves it only because whoever is inside still holds that lock. The
  owner of `Mutex` is the owner of the file lock. A root that somebody works in has a marker because whoever came past
  `initialize()` has seen it and nothing removes it.
- The cache. `IInv` joins `Files` (an eviction goes on only over what `active` does not list, and a clearing began when
  nothing was leased), `Frame` (who is inside has the work in hand) and `Writing` (a partial file is there to be renamed
  or removed). Every step inside the lock is then a step of `ProtectedStore` or none. The quota is a statement about a
  sum, `SumFunctionOnSet`; what a sum of nonnegative values does when one of them changes is proved from its definition.
  `Room` then says that partial files do not survive the sweep before room is reserved, so that what is reserved is free,
  and `Lighter` that only two steps, writing and publishing, add weight. `Delivery` says what has been decided of the
  asset when the operation ends.
- Sessions. `MediaIsAuthorized` speaks of the scene as it is, and undo, a file and a cancelled validation bring back a
  scene as it was. `Sound` says of the scene, the undo stack, the saved file and the operator's snapshot alike that a
  session belongs to the materialization it shows, that an acknowledgement was given for that session, that a root is
  named after the session enrolled with it, whose result passed, and that a saved failing report belongs to a
  materialization that failed. Sessions only grow and are never renumbered (`Grows`), so that a snapshot stays sound while
  others are made. `SceneIsCurrentUntilUndo` needs `Current` besides: until an undo there is at most the session that is
  shown, and a scene that shows none has no failing report from which one would be restored.
- The scene. The file is a graph that the user may link in any way, and the walks over it are recursive functions whose
  depth is the number of collections; `SubtreeIsLeast` says of them once what all the rest uses: a subtree is the least
  set that contains its collection and is closed under children. `SceneInv` then says that the file is whole, that no
  scene bears the session's tags, which is why a removal never takes a scene and a rollback never one that was there, and
  that an only scene is the session's. `TheUserIsSpared` follows because a removal takes collections only below a root
  where all are managed (`OwnedBelow`) and objects only if no other collection holds them, and a load only adds (`Grown`):
  what it moves into its representation it has itself imported. `FailedLoadsLeaveNothing` does not need to know where the
  load failed: whatever has grown from a file is that file again after a rollback (`RollbackRestores`). `NothingLeftBehind`
  is not inductive, since it does not say where a root is. `Orderly` does: all that is managed is below the one
  root, and that is a child of the scene's own collection. So the root can be found (`RootWhenClaimed`) and a removal of
  it cuts off just what it takes (`OrderShrinks`).
- The compiler. Only `CompileVoice` adds a voice, one that fits a gate and whose range meets none of its configuration
  and key; each range is compared only with those compiled before it, and that is enough. For `Unambiguity`, `CompileInv`
  adds that nothing waits that has no gate (`Queue`), that what was not refused was compiled without a conflict (`Kept`),
  and that of a package that is complete and unambiguous nothing has been refused (`Lenient`): a voice of such a package
  finds its gate compiled, because all gates come before the deferred voices, and room beside the others.
- Validation. `Ordered`: the contents a file has had only grow in number, so that equal observations before and after have
  nothing between them; `Exclusive`: on Windows the handle forbids the change. `Knows` says at each stage what the stages
  before have excluded, *provided the bytes are still those that were opened*; once they are not, they stay others
  (`ChangedForGood`) and the comparison at the end refuses whatever was found. The verdict then equals `Deserved`, which
  knows no stages.
- Performance. `NeededSoundsHeld` depends on the order of the cache: `open_gate` decodes the sounds of a chord one by one
  and prunes after each. `Recent` says that the sounds resolved for the call are the ones used last, a suffix of the
  list; `Room`, that the voices that play and those yet to start are no more than the polyphony, which is no more than the
  sounds the cache holds. So the least recent sound that no voice plays is not one of the chord (`PruneSpares`). That
  pruning removes what is chosen and keeps the order of the rest (`WithoutSelects`) is an induction over the list.
- The interpreter. A relative write starts from the pending writes, and the end of a cycle makes these the state;
  `Domains` says of both that they are in their domains. For `AcceptedTraces`, `Trips` says what each refusal would have
  to contradict. `Listed`: what is scheduled are actions of the manifest, because group, rank and index order them
  strictly and each place in the list is taken (`Positions`, `ScheduledActions`). `Nested`: each item on the stack lies on
  what remains of its process or of the parent of its process, and each process under expansion has an item, so that a
  process that is entered again would make the stack between a set of processes each of which has a child in the set,
  which `ExpansionTerminates` excludes (`NestNeverTurns`). `Placed`: a word is in the range of its generator, whose total
  weight, checked by `vao05`, is what `categorical_index` divides by (`DistributionFits`), so that a word that is not
  rejected falls to a candidate (`SelectsCandidate`); that is arithmetic with quotients and sums of weights.
  `ReplayAgrees` relates two executions of which one is over when the other begins. `Succ` is the step as a function of
  all that an execution goes on from, where the inputs that are left are a set; each action takes that step
  (`StepDecided`), `NextEvent` because keys are distinct, so that one input is the earliest however they are listed (`EarliestIsFirst`),
  and the refusals that would be a second choice are those that `Trips` excludes. `OnTheRun` says that the execution is
  on the run of `Succ` from its start, and that what was recorded is where such a run stopped; a run stops in one place
  (`OneEnd`, by induction over its steps). For `PoliciesDecide`, `Cycle` relates the pending writes to the part of the
  schedule that is done: the pending value is that of the place which prevails so far (`Prevails`), although under
  `priority` the code keeps the best rank and the latest equal value, which need not come from one write.
- Publication. A pack that has made the output owns it and has only added files (`PackInv`). Of a finished one, the
  payload is read off its entries (`EntryIsPayload`, `OnePlace`), and the groups that `Required` closes over contain all
  that the sealed definition asks for, by induction over its steps (`NeededIsRequired`). On the desk, `DeskInv` says that
  what a check has found holds as long as the check is quiet, since an amendment makes it loud, and that what has passed
  holds, since an amendment takes it back. From two accepted documents of one manifest follow equal bytes for each
  realization (`HeldBytes`, `OfferedBytes`).
- Authoring. `DraftInv`: the manifest keeps the form its schema gives it, and a report that accepts is about the manifest
  as it is, since every edit clears it. The rest is what acceptance implies. The validator compares the two ends of each
  dependency; that causes precede effects along a chain is an induction over the length of the chain, with activities
  that carry no times in between, for which the validator's own closure has to be shown to contain the chain. A mapping
  is a function because neighbouring segments meet and are ordered, again along a list.
- 0.2 workspaces. There is no lock, so that what a tool has in hand may be old when it acts. `WorkspaceInv`: the manifest
  on disk names files that are there (`OnDisk`); whatever a tool holds it has read from the disk or made by adding a file
  that it wrote first, and files are never taken away, so that writing an old manifest back is harmless to
  `NamesWhatIsThere` (`Holding`); an archive that somebody has found valid stays valid for
  as long as it has the name, since only its maker writes to it, and not after it is closed (`Sealed`); and what an unpack
  has extracted so far into a directory that nobody else has touched is that much of what it has opened (`Extracting`).
  `UnpackedIsValid` is the end of the latter. `PlaysFromArchive` follows the rules of the validator from an experience over its configuration and
  the performance of that to a sound which the archive holds.

Induction. The library's induction theorems take an operator as a parameter, which the provers cannot instantiate. Where
an induction is needed it is over a set instead: the numbers, or the subsets of a finite set, with the property in
question are all of them (`NatSetInduction`, `SubsetInduction`, from the theorem that a well-founded relation has minimal
elements). The functions that are computed by recursion, such as `UpTo` or the fold behind the sums, are shown to exist
first.

The assumptions: the values that mean "none" are not members of their sets; sizes, quotas, bounds and limits are natural numbers;
every thread belongs to a process; packages and interactions are of their types; assets and processes are finitely many
(`CacheIsFinite`); a document has the fields its schema requires (`SchemaAssumption`), and its identifiers are unique, its
weights positive and its actions lists (`ManifestAssumption`); a generator yields words of its range (`WordsAssumption`);
the inputs of a trace are a list, and what orders them are numbers (`TraceAssumption`);
drafts have the form of the schema (`AuthoringAssumption`); a workspace that `vaom` starts from is complete, each command
adds to the registries its arguments name, and an author who edits by hand does not move files (`WorkspaceAssumption`);
the cache of sounds holds a full polyphony (`CacheHoldsPolyphony`); models and markers are finitely many and models are
not called as the roles of collections are, which the code keeps in different tags (`SceneAssumption`). None bounds the number of processes, threads, assets,
sessions, interactions, packages, variables or steps. TLC evaluates each of them on the instances.

What proving found in the models, and what was corrected: two arms of a `CASE` in `ValidationPipeline` that could both
apply, which leaves the value open where TLC takes the first; a clause of `ReleaseIsClosed` that claimed more of concepts
than the validator checks, which excludes them by the declared relation only; a sum of weights in `InteractionContract`
whose order was left to `CHOOSE` and is now that of the indices; asset identifiers in `Workspace`, which were given with
the command and are now derived from the path, as `vaom` does, so that two files cannot have one; `PlaysFromArchive`,
which claimed an experience of packages that do not claim the capability, over links that were rejected, and of
configurations only offered, none of which the validator looks at; `pack` and `unpack` of 0.2, whose ends were one step each, so that no
archive was closed and not validated, and nobody came between two entries; the scene adapter, whose additions one after the other
were a fold in no order and are now each one change of the file, whose loads fail after any of their markers and not only
after a chosen one, and which needs room for every collection it may have to make; the limit of steps in `WellFormed`, which the schema
gives and was not said; and the scope of `UNION` before a `\cup`, which TLC and
the prover read differently and which is in parentheses wherever it matters.

Model-checked and not proved:

- liveness: `LockHandedOn`, `ValidationReturns`, `NoStuckNotes`, `ValidationEnds`, `ExecutionEnds`; the prover does not
  reason about fairness;
- the assumptions about algorithms (`PsdExactly`, `SelectionIsExact`, those of frames and of packages): exhaustive over
  the inputs named in their modules.

## 6. Not modelled

- Contents. Bytes and hashes are model values, and two contents with one SHA-256 do not occur. JSON schemas, strict JSON,
  the forms of identifiers and the ranges of numbers are one bit of a package ("the schema accepts it") where they decide
  something, and nothing otherwise.
- Contract pins: a comparison of hashes at import. Preferences, properties, panels and registration: they keep values and
  draw them; what they read is modelled with the session. Build and release scripts: they run once, by hand.
- In audio, gains, pans and durations: a ramp is a phase that ends. In frames, rounding.
- Earlier copies of the tools (`vao04.py`, 0.3.2, and the second `vaom.py` and `vao03.py`): the same rules with fewer
  chapters.
- `migrate_02()` and `create_receipt()` of `vao03.py`, and the commands that only inspect and list.
- In the scene: names, tags of provenance and visibility, since nothing is decided by them.
- A file that is put back with its old inode and its old times: the extension cannot see it.

## 7. What is left of the plan

1. Sessions, audio and scene as users of `ProtectedStore`: who calls `release_cache_path`, and who forgets to.
2. The order of eviction (least recently used), of which `AssetCache` takes any.
3. The fallback interpreter of JSON schemas (`_fallback_errors`), as a function of a schema's shape.
4. Unpacking and receipts of 0.5.
