------------------------- MODULE ValidationPipeline -------------------------
(***************************************************************************)
(* validate_package() (vao_blender/core/archive.py): one pass over a .vao  *)
(* file in a worker, stage by stage, while the user may cancel it and      *)
(* other programs may overwrite or replace the file.  _stable_source()     *)
(* holds one handle for the whole pass and compares it with the path when  *)
(* it is left, in whatever way it is left.                                 *)
(*                                                                         *)
(* A content of the file is its index in contents; it says what each stage *)
(* finds in it.  Payload and archive are read in chunks, and data of two   *)
(* contents never hash to what a manifest declares.                        *)
(***************************************************************************)
EXTENDS Naturals, Sequences

CONSTANTS
  Package,     \* the contents a file may have
  MaxChanges,  \* bound: changes of the file
  Chunks       \* chunks of a payload entry

Version == {"0.2.2", "0.3.2", "modern"}
Flaw    == {"none", "unreadable", "oversize", "structure", "limit", "manifest", "garbled", "rules"}
Entry   == {"good", "bad", "crc", "garbled"}

PackageType == [version : Version, flaw : Flaw, size : Nat, payload : Seq(Entry),
                supported : BOOLEAN, rights : BOOLEAN]

ASSUME PackagesAreTyped == Package \subseteq PackageType
ASSUME BoundsAreNatural == MaxChanges \in Nat /\ Chunks \in Nat \ {0}

VARIABLES
  contents,  \* the content after each change
  path,      \* content the path leads to
  bytes,     \* content behind the open handle
  call,      \* the arguments, and whether this is Windows
  token,     \* the cancellation token is set
  pc,
  opened,    \* content when the handle was opened
  manifest,  \* content the manifest was read from
  hashed,    \* contents that went into archive_sha
  at,        \* the payload entry it is at
  chunk,     \* chunks read of the archive or of the entry
  intact,    \* the chunks of this entry are what the manifest declares
  errors,    \* the reference validator has reported an error
  verified,  \* verified_assets
  outcome,   \* the outcome on its way out of _stable_source()
  late       \* history: chunks read after the cancellation

vars == <<contents, path, bytes, call, token, pc, opened, manifest, hashed, at,
          chunk, intact, errors, verified, outcome, late>>

Content == 0..MaxChanges
Inside  == {"hash", "hashcheck", "preflight", "manifest", "rules", "entry", "chunk",
            "check", "plan", "leave"}
Passing == {"valid", "blocked-rights", "unsupported", "incomplete"}
Outcome == Passing \cup {"invalid", "resource-limited", "cancelled", "raised"}

(* The package the manifest declares, and the one a read now would find.   *)
Declared == contents[manifest]
Now      == contents[bytes]

TypeOK ==
  /\ contents \in [Content -> Package]
  /\ path \in Content /\ bytes \in Content /\ opened \in Content /\ manifest \in Content
  /\ call \in [verify : BOOLEAN, hash : BOOLEAN, windows : BOOLEAN]
  /\ token \in BOOLEAN
  /\ pc \in Inside \cup {"start", "open", "done"}
  /\ hashed \subseteq Content
  /\ at \in 1..(Len(Declared.payload) + 1)
  /\ chunk \in Nat /\ late \in Nat
  /\ intact \in BOOLEAN /\ errors \in BOOLEAN
  /\ verified \subseteq DOMAIN Declared.payload
  /\ outcome \in Outcome \cup {"none"}

Init ==
  /\ contents \in [Content -> Package]
  /\ path = 0 /\ bytes = 0 /\ opened = 0 /\ manifest = 0
  /\ call \in [verify : BOOLEAN, hash : BOOLEAN, windows : BOOLEAN]
  /\ token = FALSE
  /\ pc = "start"
  /\ hashed = {} /\ verified = {}
  /\ at = 1 /\ chunk = 0 /\ late = 0
  /\ intact = TRUE /\ errors = FALSE
  /\ outcome = "none"

source == <<contents, path, bytes, call>>
reading == <<at, chunk, intact, verified>>

-----------------------------------------------------------------------------
(* The user and other programs.  A Windows handle shares reads only.       *)
Cancel ==
  /\ pc # "done" /\ ~token
  /\ token' = TRUE
  /\ UNCHANGED <<source, pc, opened, manifest, hashed, reading, errors, outcome, late>>

Change ==
  /\ pc # "done" /\ path < MaxChanges
  /\ call.windows => pc \notin Inside
  /\ path' = path + 1
  /\ UNCHANGED <<contents, call, token, pc, opened, manifest, hashed, reading, errors,
                 outcome, late>>

Overwrite == Change /\ bytes = path /\ bytes' = path'
Replace   == Change /\ UNCHANGED bytes

-----------------------------------------------------------------------------
Goto(from, to) == pc = from /\ pc' = to

(* An outcome is returned, or an exception raised that becomes one: the    *)
(* source is left first.                                                   *)
Leave(o) ==
  /\ outcome' = o
  /\ pc' = "leave"
  /\ UNCHANGED <<source, token, opened, manifest, hashed, reading, errors, late>>

Start ==
  /\ pc = "start"
  /\ \/ ~token /\ pc' = "open" /\ UNCHANGED outcome
     \/ token /\ pc' = "done" /\ outcome' = "cancelled"
  /\ UNCHANGED <<source, token, opened, manifest, hashed, reading, errors, late>>

Open ==
  /\ pc = "open"
  /\ contents[path].flaw # "unreadable"
  /\ opened' = path /\ bytes' = path
  /\ IF contents[path].flaw = "oversize"
       THEN pc' = "leave" /\ outcome' = "resource-limited"
       ELSE pc' = (IF call.hash THEN "hash" ELSE "preflight") /\ UNCHANGED outcome
  /\ UNCHANGED <<contents, path, call, token, manifest, hashed, reading, errors, late>>

OpenFails ==
  /\ Goto("open", "done")
  /\ contents[path].flaw = "unreadable"
  /\ opened' = path
  /\ outcome' = "invalid"
  /\ UNCHANGED <<source, token, manifest, hashed, reading, errors, late>>

(* _hash_stream() expects the size the file had when it was opened.        *)
Expected == contents[opened].size

CountLate == late' = late + (IF token THEN 1 ELSE 0)

HashChunk ==
  /\ Goto("hash", "hashcheck")
  /\ chunk < Expected /\ chunk < Now.size
  /\ hashed' = hashed \cup {bytes}
  /\ chunk' = chunk + 1
  /\ CountLate
  /\ UNCHANGED <<source, token, opened, manifest, at, intact, verified, errors, outcome>>

HashCheck ==
  \/ /\ ~token /\ Goto("hashcheck", "hash")
     /\ UNCHANGED <<source, token, opened, manifest, hashed, reading, errors, outcome, late>>
  \/ token /\ pc = "hashcheck" /\ Leave("cancelled")

Truncated == chunk < Expected /\ chunk >= Now.size
Grown     == chunk = Expected /\ Now.size > Expected

(* Slip: an empty read is not told from data, and the loop goes on.        *)
HashSpins ==
  \/ pc = "hash" /\ Grown /\ Leave("invalid")
  \/ /\ Goto("hash", "hashcheck")
     /\ Truncated
     /\ UNCHANGED <<source, token, opened, manifest, hashed, reading, errors, outcome, late>>

HashFails == pc = "hash" /\ (Truncated \/ Grown) /\ Leave("invalid")

HashEnds ==
  /\ Goto("hash", "preflight")
  /\ chunk = Expected /\ ~Grown
  /\ chunk' = 0
  /\ UNCHANGED <<source, token, opened, manifest, hashed, at, intact, verified, errors,
                 outcome, late>>

(* The central directory, and the check of the token after it.             *)
Preflight ==
  \/ /\ pc = "preflight"
     /\ \/ Now.flaw = "structure" /\ Leave("invalid")
        \/ Now.flaw = "limit" /\ Leave("resource-limited")
        \/ Now.flaw \notin {"structure", "limit"} /\ token /\ Leave("cancelled")
  \/ /\ Goto("preflight", "manifest")
     /\ Now.flaw \notin {"structure", "limit"} /\ ~token
     /\ UNCHANGED <<source, token, opened, manifest, hashed, reading, errors, outcome, late>>

(* The mimetype, the JSON of manifest and carrier, and their version.      *)
(* Manifest and carrier may be compressed, and not decompress: zlib.error. *)
ReadManifest ==
  \/ pc = "manifest" /\ Now.flaw = "manifest" /\ Leave("invalid")
  \/ pc = "manifest" /\ Now.flaw = "garbled" /\ Leave("raised")
  \/ /\ Goto("manifest", "rules")
     /\ Now.flaw \notin {"manifest", "garbled"}
     /\ manifest' = bytes
     /\ UNCHANGED <<source, token, opened, hashed, reading, errors, outcome, late>>

(* Schema, semantics and the index of the payload: 0.2.2 returns at once,  *)
(* the reference validators collect errors and go on to the payload.       *)
Reference == Declared.version # "0.2.2"

CheckRules ==
  \/ pc = "rules" /\ Declared.flaw = "rules" /\ ~Reference /\ Leave("invalid")
  \/ /\ pc = "rules"
     /\ Declared.flaw = "rules" => Reference
     /\ errors' = (Declared.flaw = "rules")
     /\ pc' = IF Reference \/ call.verify THEN "entry" ELSE "plan"
     /\ UNCHANGED <<source, token, opened, manifest, hashed, reading, outcome, late>>

-----------------------------------------------------------------------------
(* The payload.                                                            *)
MoreEntries == at <= Len(Declared.payload)

NextEntry(reported) ==
  /\ pc' = "entry"
  /\ at' = at + 1
  /\ errors' = (errors \/ reported)
  /\ UNCHANGED <<source, token, opened, manifest, hashed, chunk, intact, outcome, late>>

(* What is raised while a payload entry is read: validate_carrier_parts()  *)
(* makes an error of any Exception in 0.3.2, and later of OSError,         *)
(* BadZipFile and RuntimeError, of which CancelledError is one; zlib.error *)
(* is none of these.                                                       *)
Reported(o) ==
  \/ Declared.version = "0.3.2"
  \/ Declared.version = "modern" /\ o # "raised"

Raise(o) ==
  \/ Reported(o) /\ NextEntry(TRUE) /\ UNCHANGED verified
  \/ ~Reported(o) /\ Leave(o)

(* Without verification a reference validator is told what it expects.     *)
SkipEntry ==
  /\ pc = "entry" /\ MoreEntries
  /\ Reference /\ ~call.verify
  /\ NextEntry(FALSE) /\ UNCHANGED verified

BeginEntry ==
  /\ pc = "entry" /\ MoreEntries /\ call.verify
  /\ \/ token /\ Raise("cancelled")
     \/ /\ ~token
        /\ pc' = "chunk" /\ chunk' = 0 /\ intact' = TRUE
        /\ UNCHANGED <<source, token, opened, manifest, hashed, at, errors, verified,
                       outcome, late>>

(* What a read raises.  If the file was changed in between it may also     *)
(* raise, or hash to something else: leaving the source then decides.      *)
ReadRaises ==
  IF bytes # manifest THEN "no"
  ELSE IF Declared.payload[at] = "garbled" THEN "raised"
  ELSE IF Declared.payload[at] = "crc" /\ chunk = Chunks - 1 THEN "invalid"
  ELSE "no"

ReadChunk ==
  /\ pc = "chunk" /\ chunk < Chunks
  /\ \/ ReadRaises # "no" /\ Raise(ReadRaises)
     \/ /\ ReadRaises = "no"
        /\ chunk' = chunk + 1
        /\ intact' = (intact /\ bytes = manifest /\ Declared.payload[at] = "good")
        /\ CountLate
        /\ pc' = "check"
        /\ UNCHANGED <<source, token, opened, manifest, hashed, at, errors, verified, outcome>>

(* Slip: the token is only looked at between entries.                      *)
PassChunk ==
  /\ Goto("check", "chunk")
  /\ UNCHANGED <<source, token, opened, manifest, hashed, reading, errors, outcome, late>>

CheckChunk ==
  \/ pc = "check" /\ token /\ Raise("cancelled")
  \/ /\ Goto("check", "chunk")
     /\ ~token
     /\ UNCHANGED <<source, token, opened, manifest, hashed, reading, errors, outcome, late>>

EndEntry ==
  /\ pc = "chunk" /\ chunk = Chunks
  /\ \/ intact /\ NextEntry(FALSE) /\ verified' = verified \cup {at}
     \/ ~intact /\ Reference /\ NextEntry(TRUE) /\ UNCHANGED verified
     \/ ~intact /\ ~Reference /\ Leave("invalid")

EndEntries ==
  /\ Goto("entry", "plan")
  /\ ~MoreEntries
  /\ UNCHANGED <<source, token, opened, manifest, hashed, reading, errors, outcome, late>>

-----------------------------------------------------------------------------
(* Slip: a package that needs rights is reported before one that is not    *)
(* supported.                                                              *)
VerdictRightsFirst ==
  CASE errors -> "invalid"
    [] ~errors /\ ~(call.verify /\ call.hash) -> "incomplete"
    [] OTHER -> IF Declared.rights THEN "blocked-rights"
                ELSE IF Declared.supported THEN "valid" ELSE "unsupported"

(* Capabilities, interactions and rights.                                  *)
Verdict ==
  CASE errors -> "invalid"
    [] ~errors /\ ~(call.verify /\ call.hash) -> "incomplete"
    [] OTHER -> IF ~Declared.supported THEN "unsupported"
                ELSE IF Declared.rights THEN "blocked-rights" ELSE "valid"

Conclude == pc = "plan" /\ Leave(Verdict)

(* Slip: only the open handle is compared, not what the path leads to.     *)
HandleChanged == bytes # opened

Changed == bytes # opened \/ (~call.windows /\ path # opened)

LeaveSource ==
  /\ Goto("leave", "done")
  /\ outcome' = IF Changed THEN "invalid" ELSE outcome
  /\ UNCHANGED <<source, token, opened, manifest, hashed, reading, errors, late>>

Validate ==
  \/ Start \/ Open \/ OpenFails
  \/ HashChunk \/ HashCheck \/ HashFails \/ HashEnds
  \/ Preflight \/ ReadManifest \/ CheckRules
  \/ SkipEntry \/ BeginEntry \/ ReadChunk \/ CheckChunk \/ EndEntry \/ EndEntries
  \/ Conclude \/ LeaveSource

Next == Validate \/ Cancel \/ Overwrite \/ Replace

Spec == Init /\ [][Next]_vars

(* The worker thread runs until the function returns.                      *)
FairSpec == Spec /\ WF_vars(Validate)

-----------------------------------------------------------------------------
Done == pc = "done"

(* A package that passes was read from one content from beginning to end:  *)
(* archive hash, manifest and payload are of the file that was opened, and *)
(* the path still leads to it.                                             *)
PassedSourceIsStable ==
  Done /\ outcome \in Passing =>
    path = opened /\ bytes = opened /\ manifest = opened /\ hashed \subseteq {opened}

(* What a package deserves, without an order of stages.                    *)
Conforms(p) ==
  /\ p.flaw \notin {"unreadable", "structure", "manifest", "garbled", "rules"}
  /\ call.verify => \A n \in DOMAIN p.payload : p.payload[n] = "good"

Deserved(p) ==
  IF p.flaw \in {"oversize", "limit"} THEN "resource-limited"
  ELSE IF ~Conforms(p) THEN "invalid"
  ELSE IF ~(call.verify /\ call.hash) THEN "incomplete"
  ELSE IF ~p.supported THEN "unsupported"
  ELSE IF p.rights THEN "blocked-rights" ELSE "valid"

(* docs/PRODUCT_SPEC.md, VAL-002: invalidity, local refusal and lack of    *)
(* support are distinguished.  A package that passes deserves its outcome, *)
(* with every payload entry verified if that was asked for; one that       *)
(* nobody cancels or changes always gets what it deserves (data that do    *)
(* not decompress aside: see BrokenIsInvalid).                             *)
OutcomeIsDeserved ==
  Done =>
    /\ outcome \in Passing =>
         /\ outcome = Deserved(contents[opened])
         /\ call.verify => verified = DOMAIN contents[opened].payload
    /\ ~token /\ path = opened /\ contents[opened].flaw # "garbled"
         /\ (\A n \in DOMAIN contents[opened].payload : contents[opened].payload[n] # "garbled")
         => outcome = Deserved(contents[opened])

(* docs/ARCHITECTURE.md: the token is "checked before each entry and after *)
(* each bounded read chunk", so that a cancellation lets at most the chunk *)
(* under way be read, whoever catches the exception.                       *)
CancelStopsReading == late <= 1

(* Every validation returns or raises, also of a file that is truncated    *)
(* while it is hashed.                                                     *)
ValidationReturns == <>Done

(* docs/ARCHITECTURE.md: "`Invalid` means the package failed conformance." *)
(* A validation that is cancelled does not say that of a sound package.    *)
InvalidMeansFailed ==
  Done /\ outcome = "invalid" /\ path = opened => Deserved(contents[opened]) = "invalid"

(* docs/ARCHITECTURE.md: "Validating --> Invalid: conformance failure", of *)
(* whatever kind the failure is.                                           *)
BrokenIsInvalid ==
  Done /\ ~token /\ path = opened /\ Deserved(contents[opened]) = "invalid"
    => outcome = "invalid"
=============================================================================
