---------------------- MODULE ValidationPipelineProofs ----------------------
(* Theorems about the validation pass for all packages, any number of      *)
(* changes of the file and any number of chunks.                           *)
EXTENDS ValidationPipeline, TLAPS

(* Contents only grow, so what is between the content that was opened and  *)
(* the present one is equal to both in the end.                            *)
Ordered ==
  /\ path \in Nat /\ bytes \in Nat /\ opened \in Nat /\ manifest \in Nat
  /\ bytes <= path
  /\ pc # "done" => opened <= bytes
  /\ manifest <= bytes
  /\ \A c \in hashed : c \in Nat /\ opened <= c /\ c <= bytes
  /\ pc \in {"start", "open"} => hashed = {}

(* Where the pass is after it has read the manifest, and with what outcome.*)
ManifestRead ==
  /\ pc \in {"rules", "entry", "chunk", "check", "plan"} => opened <= manifest
  /\ outcome \in Passing => pc \in {"leave", "done"} /\ opened <= manifest

(* A Windows handle keeps the path as it is.                               *)
Exclusive == call.windows /\ pc \in Inside => path = opened

StableInv == Ordered /\ ManifestRead /\ Exclusive /\ PassedSourceIsStable

LEMMA StableInit == Init => StableInv
BY DEF Init, StableInv, Ordered, ManifestRead, Exclusive, PassedSourceIsStable,
       Content, Inside, Passing, Done

(* The steps that leave the source alone and do not end the pass.          *)
LEMMA QuietStep ==
  ASSUME StableInv, UNCHANGED <<path, bytes, call, opened, manifest, hashed>>,
         pc' \notin {"start", "open", "done"},
         pc' \in {"rules", "entry", "chunk", "check", "plan"} =>
           opened <= manifest,
         pc \in Inside,
         \/ outcome' = outcome /\ pc # "leave"
         \/ outcome' \notin Passing
         \/ pc' = "leave" /\ opened <= manifest
  PROVE  StableInv'
BY DEF StableInv, Ordered, ManifestRead, Exclusive, PassedSourceIsStable, Done, Inside

LEMMA StableStep == StableInv /\ [Next]_vars => StableInv'
<1> SUFFICES ASSUME StableInv, [Next]_vars PROVE StableInv'
  OBVIOUS
<1> USE DEF source, reading, Goto, Leave
<1>1. CASE Start
  <2>1. outcome' \notin Passing /\ pc' \notin Inside
    BY <1>1 DEF Start, StableInv, ManifestRead, Passing, Inside
  <2>2. UNCHANGED <<path, bytes, call, opened, manifest, hashed>> /\ pc = "start"
    BY <1>1 DEF Start
  <2>3. pc' \in {"open", "done"}
    BY <1>1 DEF Start
  <2> QED
    BY <2>1, <2>2, <2>3 DEF StableInv, Ordered, ManifestRead, Exclusive,
                            PassedSourceIsStable, Done, Inside
<1>2. CASE Open
  BY <1>2 DEF Open, StableInv, Ordered, ManifestRead, Exclusive, PassedSourceIsStable,
              Done, Inside, Passing
<1>3. CASE OpenFails
  BY <1>3 DEF OpenFails, StableInv, Ordered, ManifestRead, Exclusive,
              PassedSourceIsStable, Done, Inside, Passing
<1>4. CASE HashChunk
  BY <1>4 DEF HashChunk, StableInv, Ordered, ManifestRead, Exclusive,
              PassedSourceIsStable, Done, Inside, Passing
<1>5. CASE HashCheck \/ HashFails \/ HashEnds
  BY <1>5, QuietStep DEF HashCheck, HashFails, HashEnds, Inside, Passing
<1>6. CASE Preflight
  BY <1>6, QuietStep DEF Preflight, Inside, Passing
<1>7. CASE ReadManifest
  BY <1>7 DEF ReadManifest, StableInv, Ordered, ManifestRead, Exclusive,
              PassedSourceIsStable, Done, Inside, Passing
<1>8. CASE CheckRules
  BY <1>8, QuietStep DEF CheckRules, Inside, Passing, StableInv, ManifestRead
<1>9. CASE SkipEntry \/ EndEntry \/ EndEntries
  BY <1>9, QuietStep DEF SkipEntry, EndEntry, EndEntries, NextEntry, Inside, Passing,
                         StableInv, ManifestRead
<1>10. CASE BeginEntry \/ CheckChunk
  BY <1>10, QuietStep DEF BeginEntry, CheckChunk, Raise, NextEntry, Inside, Passing,
                          StableInv, ManifestRead
<1>11. CASE ReadChunk
  <2>1. ReadRaises \in {"no", "raised", "invalid"}
    BY DEF ReadRaises
  <2> QED
    BY <1>11, <2>1, QuietStep DEF ReadChunk, Raise, NextEntry, Inside, Passing,
                                  StableInv, ManifestRead
<1>12. CASE Conclude
  BY <1>12, QuietStep DEF Conclude, Inside, StableInv, ManifestRead
<1>13. CASE LeaveSource
  BY <1>13 DEF LeaveSource, Changed, StableInv, Ordered, ManifestRead, Exclusive,
               PassedSourceIsStable, Done, Inside, Passing
<1>14. CASE Cancel
  BY <1>14 DEF Cancel, StableInv, Ordered, ManifestRead, Exclusive,
               PassedSourceIsStable, Done, Inside
<1>15. CASE Overwrite \/ Replace
  BY <1>15 DEF Overwrite, Replace, Change, StableInv, Ordered, ManifestRead, Exclusive,
               PassedSourceIsStable, Done, Inside
<1>16. CASE UNCHANGED vars
  BY <1>16 DEF vars, StableInv, Ordered, ManifestRead, Exclusive, PassedSourceIsStable,
               Done, Inside
<1> QED
  BY <1>1, <1>2, <1>3, <1>4, <1>5, <1>6, <1>7, <1>8, <1>9, <1>10, <1>11, <1>12, <1>13,
     <1>14, <1>15, <1>16 DEF Next, Validate

(* A package that passes was read from one content, to which the path      *)
(* still leads: one comparison when the source is left is enough, however  *)
(* often and in whatever way the file was changed.                         *)
THEOREM SourceIsStable == Spec => []PassedSourceIsStable
<1>1. StableInv => PassedSourceIsStable
  BY DEF StableInv
<1> QED
  BY <1>1, StableInit, StableStep, PTL DEF Spec

-----------------------------------------------------------------------------
(* A chunk is only read from where the token was just found clear.         *)
LateInv ==
  /\ late \in Nat /\ late <= 1
  /\ ~token => late = 0
  /\ pc \in {"start", "open", "hash", "chunk"} => late = 0

(* A cancellation lets at most one chunk be read, also if the reference    *)
(* validators swallow the exception and go on to the next entry.           *)
THEOREM CancellationStops == Spec => []CancelStopsReading
<1>1. Init => LateInv
  BY DEF Init, LateInv
<1>2. LateInv /\ [Next]_vars => LateInv'
  <2> SUFFICES ASSUME LateInv, [Next]_vars PROVE LateInv'
    OBVIOUS
  <2> USE DEF LateInv, Goto, Leave
  <2>1. CASE HashChunk \/ ReadChunk
    BY <2>1 DEF HashChunk, ReadChunk, CountLate, Raise, NextEntry
  <2>2. CASE HashCheck \/ CheckChunk \/ BeginEntry
    BY <2>2 DEF HashCheck, CheckChunk, BeginEntry, Raise, NextEntry
  <2>3. CASE Open
    BY <2>3 DEF Open
  <2>4. CASE Start \/ OpenFails \/ HashFails \/ HashEnds \/ Preflight \/ ReadManifest
    BY <2>4 DEF Start, OpenFails, HashFails, HashEnds, Preflight, ReadManifest
  <2>5. CASE CheckRules \/ SkipEntry \/ EndEntry \/ EndEntries \/ Conclude \/ LeaveSource
    BY <2>5 DEF CheckRules, SkipEntry, EndEntry, EndEntries, NextEntry, Conclude, LeaveSource
  <2>6. CASE Cancel \/ Overwrite \/ Replace
    BY <2>6 DEF Cancel, Overwrite, Replace, Change
  <2>7. CASE UNCHANGED vars
    BY <2>7 DEF vars
  <2> QED
    BY <2>1, <2>2, <2>3, <2>4, <2>5, <2>6, <2>7 DEF Next, Validate
<1>3. LateInv => CancelStopsReading
  BY DEF LateInv, CancelStopsReading
<1> QED
  BY <1>1, <1>2, <1>3, PTL DEF Spec

-----------------------------------------------------------------------------
(* Where in the payload the pass is.                                       *)
InPayload == {"entry", "chunk", "check", "plan"}

Position ==
  /\ pc \notin InPayload \cup {"leave", "done"} => at = 1 /\ verified = {}
  /\ pc \in {"chunk", "check"} => at <= Len(Declared.payload) /\ call.verify
  /\ verified \subseteq 1..(at - 1)

LEMMA PackagesHavePayload ==
  ASSUME TypeOK, NEW c \in Content
  PROVE  /\ contents[c] \in PackageType /\ contents[c].size \in Nat
         /\ contents[c].payload \in Seq(Entry) /\ Len(contents[c].payload) \in Nat
         /\ DOMAIN contents[c].payload = 1..Len(contents[c].payload)
BY PackagesAreTyped DEF TypeOK, PackageType

(* What every raise inside the payload leaves unchanged, or moves on.      *)
LEMMA RaiseKeepsType ==
  ASSUME TypeOK, Position, NEW o \in Outcome, Raise(o), MoreEntries, pc \in InPayload
  PROVE  TypeOK' /\ Position'
<1>1. manifest \in Content /\ Len(Declared.payload) \in Nat /\ at \in Nat /\ at >= 1
  BY PackagesHavePayload DEF TypeOK, Declared
<1>2. UNCHANGED source /\ manifest' = manifest /\ verified' = verified /\ token' = token
      /\ opened' = opened /\ hashed' = hashed /\ chunk' = chunk /\ intact' = intact /\ late' = late
  BY DEF Raise, NextEntry, Leave, reading
<1>3. Declared' = Declared
  BY <1>2 DEF Declared, source
<1>4. CASE NextEntry(TRUE)
  <2>1. pc' = "entry" /\ at' = at + 1 /\ errors' = TRUE /\ outcome' = outcome
    BY <1>4 DEF NextEntry
  <2>2. at' \in 1..(Len(Declared'.payload) + 1)
    BY <1>1, <1>3, <2>1 DEF MoreEntries
  <2>3. verified \subseteq 1..(at' - 1)
    BY <1>1, <2>1 DEF Position
  <2> QED
    BY <1>2, <1>3, <2>1, <2>2, <2>3 DEF TypeOK, Position, source, Inside, InPayload
<1>5. CASE Leave(o)
  <2>1. pc' = "leave" /\ outcome' = o /\ UNCHANGED <<at, errors>>
    BY <1>5 DEF Leave, reading
  <2> QED
    BY <1>2, <1>3, <2>1 DEF TypeOK, Position, source, Inside, InPayload
<1> QED
  BY <1>4, <1>5 DEF Raise

LEMMA LeaveKeepsType ==
  ASSUME TypeOK, Position, NEW o \in Outcome, Leave(o)
  PROVE  TypeOK' /\ Position'
<1>1. UNCHANGED <<contents, path, bytes, call, token, opened, manifest, hashed, at, chunk, intact,
                  verified, errors, late>>
      /\ pc' = "leave" /\ outcome' = o
  BY DEF Leave, source, reading
<1>2. Declared' = Declared
  BY <1>1 DEF Declared
<1> QED
  BY <1>1, <1>2 DEF TypeOK, Position, Inside, InPayload

(* A step that moves between the stages before and after the payload.      *)
LEMMA MoveKeepsType ==
  ASSUME TypeOK, Position, UNCHANGED <<source, manifest, at, verified>>,
         token' \in BOOLEAN, opened' \in Content, hashed' \subseteq Content,
         chunk' \in Nat, late' \in Nat, intact' \in BOOLEAN, errors' \in BOOLEAN,
         outcome' \in Outcome \cup {"none"},
         pc' \in Inside \cup {"start", "open", "done"},
         pc \in InPayload \cup {"leave", "done"} => pc' \in InPayload \cup {"leave", "done"},
         pc' \in {"chunk", "check"} => at <= Len(Declared.payload) /\ call.verify
  PROVE  TypeOK' /\ Position'
<1>1. Declared' = Declared /\ call' = call
  BY DEF Declared, source
<1> QED
  BY <1>1 DEF TypeOK, Position, source

LEMMA StepType == TypeOK /\ Position /\ [Next]_vars => TypeOK' /\ Position'
<1> SUFFICES ASSUME TypeOK, Position, [Next]_vars PROVE TypeOK' /\ Position'
  OBVIOUS
<1>0. /\ token \in BOOLEAN /\ opened \in Content /\ hashed \subseteq Content /\ bytes \in Content
      /\ chunk \in Nat /\ late \in Nat /\ intact \in BOOLEAN /\ errors \in BOOLEAN
      /\ outcome \in Outcome \cup {"none"} /\ manifest \in Content /\ path \in Content
      /\ at \in Nat /\ at >= 1 /\ Len(Declared.payload) \in Nat
      /\ DOMAIN Declared.payload = 1..Len(Declared.payload)
      /\ pc \in Inside \cup {"start", "open", "done"}
  BY PackagesHavePayload DEF TypeOK, Declared
<1> USE DEF reading
<1>1. CASE Start
  BY <1>0, <1>1, MoveKeepsType DEF Start, Inside, InPayload, Outcome
<1>2. CASE Open
  <2>1. /\ UNCHANGED <<contents, path, call, token, manifest, hashed, at, chunk, intact, verified, errors, late>>
        /\ opened' \in Content /\ bytes' \in Content /\ pc = "open"
        /\ pc' \in {"leave", "hash", "preflight"} /\ outcome' \in Outcome \cup {"none"}
    BY <1>0, <1>2 DEF Open, Outcome
  <2>2. Declared' = Declared
    BY <2>1 DEF Declared
  <2> QED
    BY <2>1, <2>2 DEF TypeOK, Position, Inside, InPayload
<1>3. CASE OpenFails \/ LeaveSource
  BY <1>0, <1>3, MoveKeepsType DEF OpenFails, LeaveSource, Goto, Inside, InPayload, Outcome
<1>4. CASE HashChunk
  <2>1. late' \in Nat /\ chunk' \in Nat /\ hashed' \subseteq Content
    BY <1>0, <1>4 DEF HashChunk, CountLate
  <2> QED
    BY <1>0, <1>4, <2>1, MoveKeepsType DEF HashChunk, Goto, Inside, InPayload
<1>5. CASE HashCheck \/ HashFails \/ HashEnds
  BY <1>0, <1>5, MoveKeepsType, LeaveKeepsType DEF HashCheck, HashFails, HashEnds, Goto, Inside, InPayload, Outcome
<1>6. CASE Preflight
  BY <1>0, <1>6, MoveKeepsType, LeaveKeepsType DEF Preflight, Goto, Inside, InPayload, Outcome
<1>7. CASE ReadManifest
  <2>1. CASE Leave("invalid") \/ Leave("raised")
    BY <2>1, LeaveKeepsType DEF Outcome
  <2>2. CASE ~Leave("invalid") /\ ~Leave("raised")
    <3>1. /\ UNCHANGED <<contents, path, bytes, call, token, opened, hashed, at, chunk, intact, verified, errors, outcome, late>>
          /\ pc = "manifest" /\ pc' = "rules" /\ manifest' \in Content
      BY <1>0, <1>7, <2>2 DEF ReadManifest, Goto, source
    <3>2. at = 1 /\ verified = {}
      BY <3>1 DEF Position, InPayload
    <3>3. (\A c \in Content : Len(contents[c].payload) \in Nat)'
      BY <3>1, PackagesHavePayload
    <3>4. at' \in 1..(Len(Declared'.payload) + 1)
      BY <3>1, <3>2, <3>3 DEF Declared
    <3> QED
      BY <3>1, <3>2, <3>4 DEF TypeOK, Position, Inside, InPayload
  <2> QED
    BY <2>1, <2>2
<1>8. CASE CheckRules
  BY <1>0, <1>8, MoveKeepsType, LeaveKeepsType DEF CheckRules, Inside, InPayload, Outcome
<1>9. ASSUME NEW r \in BOOLEAN, NextEntry(r), MoreEntries, pc \in InPayload,
             verified' = verified \/ verified' = verified \cup {at}
      PROVE  TypeOK' /\ Position'
  <2>1. /\ UNCHANGED <<contents, path, bytes, call, token, opened, manifest, hashed, chunk, intact, outcome, late>>
        /\ pc' = "entry" /\ at' = at + 1 /\ errors' \in BOOLEAN
    BY <1>0, <1>9 DEF NextEntry, source
  <2>2. Declared' = Declared
    BY <2>1 DEF Declared
  <2>3. at' \in 1..(Len(Declared'.payload) + 1)
    BY <1>0, <1>9, <2>1, <2>2 DEF MoreEntries
  <2>4. verified' \subseteq DOMAIN Declared'.payload /\ verified' \subseteq 1..(at' - 1)
    BY <1>0, <1>9, <2>1, <2>2 DEF Position, MoreEntries, TypeOK
  <2> QED
    BY <2>1, <2>2, <2>3, <2>4 DEF TypeOK, Position, Inside, InPayload
<1>10. CASE SkipEntry
  BY <1>9, <1>10 DEF SkipEntry, InPayload
<1>11. CASE EndEntry
  <2>1. MoreEntries /\ pc \in InPayload
    BY <1>11 DEF EndEntry, Position, MoreEntries, InPayload
  <2> QED
    BY <1>9, <1>11, <2>1, LeaveKeepsType DEF EndEntry, Outcome
<1>12. CASE BeginEntry
  <2>1. CASE Raise("cancelled")
    BY <1>12, <2>1, RaiseKeepsType DEF BeginEntry, InPayload, Outcome
  <2>2. CASE ~Raise("cancelled")
    <3>1. /\ pc = "entry" /\ pc' = "chunk" /\ chunk' = 0 /\ intact' = TRUE
          /\ at <= Len(Declared.payload) /\ call.verify
          /\ UNCHANGED <<source, token, opened, manifest, hashed, at, errors, verified, outcome, late>>
      BY <1>12, <2>2 DEF BeginEntry, MoreEntries
    <3>2. UNCHANGED <<source, manifest, at, verified>>
      BY <3>1
    <3>3. /\ token' \in BOOLEAN /\ opened' \in Content /\ hashed' \subseteq Content
          /\ chunk' \in Nat /\ late' \in Nat /\ intact' \in BOOLEAN /\ errors' \in BOOLEAN
          /\ outcome' \in Outcome \cup {"none"}
      BY <1>0, <3>1
    <3> QED
      BY <3>1, <3>2, <3>3, MoveKeepsType DEF Inside, InPayload
  <2> QED
    BY <2>1, <2>2
<1>13. CASE ReadChunk
  <2>1. MoreEntries /\ pc = "chunk" /\ call.verify
    BY <1>13 DEF ReadChunk, Position, MoreEntries
  <2>2. ReadRaises \in {"no", "raised", "invalid"}
    BY DEF ReadRaises
  <2>3. CASE ReadRaises # "no" /\ Raise(ReadRaises)
    BY <2>1, <2>2, <2>3, RaiseKeepsType DEF InPayload, Outcome
  <2>4. CASE ~(ReadRaises # "no" /\ Raise(ReadRaises))
    <3>1. /\ chunk' = chunk + 1 /\ CountLate /\ pc' = "check"
          /\ UNCHANGED <<source, token, opened, manifest, hashed, at, errors, verified, outcome>>
      BY <1>13, <2>4 DEF ReadChunk
    <3>2. intact' = (intact /\ bytes = manifest /\ Declared.payload[at] = "good")
      BY <1>13, <2>4 DEF ReadChunk
    <3>3. intact' \in BOOLEAN
      BY Zenon, <1>0, <3>2
    <3>4. UNCHANGED <<source, manifest, at, verified>>
      BY <3>1
    <3>5. /\ token' \in BOOLEAN /\ opened' \in Content /\ hashed' \subseteq Content
          /\ chunk' \in Nat /\ late' \in Nat /\ errors' \in BOOLEAN
          /\ outcome' \in Outcome \cup {"none"}
      BY <1>0, <3>1 DEF CountLate
    <3> QED
      BY <2>1, <3>1, <3>3, <3>4, <3>5, MoveKeepsType DEF Inside, InPayload, MoreEntries
  <2> QED
    BY <2>3, <2>4
<1>14. CASE CheckChunk
  <2>1. MoreEntries /\ pc = "check" /\ call.verify
    BY <1>14 DEF CheckChunk, Goto, Position, MoreEntries
  <2>2. CASE Raise("cancelled")
    BY <2>1, <2>2, RaiseKeepsType DEF InPayload, Outcome
  <2>3. CASE ~Raise("cancelled")
    BY <1>0, <1>14, <2>1, <2>3, MoveKeepsType DEF CheckChunk, Goto, Inside, InPayload, MoreEntries
  <2> QED
    BY <2>2, <2>3
<1>15. CASE EndEntries
  BY <1>0, <1>15, MoveKeepsType DEF EndEntries, Goto, Inside, InPayload
<1>16. CASE Conclude
  <2>1. Verdict \in Outcome
    BY DEF Verdict, Outcome, Passing
  <2> QED
    BY <1>16, <2>1, LeaveKeepsType DEF Conclude
<1>17. CASE Cancel
  BY <1>0, <1>17, MoveKeepsType DEF Cancel, Position
<1>18. CASE Overwrite \/ Replace
  <2>1. /\ UNCHANGED <<contents, call, token, pc, opened, manifest, hashed, at, chunk, intact,
                       verified, errors, outcome, late>>
        /\ path' \in Content /\ bytes' \in Content
    BY <1>0, <1>18, BoundsAreNatural DEF Overwrite, Replace, Change, Content
  <2>2. Declared' = Declared
    BY <2>1 DEF Declared
  <2> QED
    BY <2>1, <2>2 DEF TypeOK, Position
<1>19. CASE UNCHANGED vars
  BY <1>0, <1>19, MoveKeepsType DEF vars, source, Position
<1> QED
  BY <1>1, <1>2, <1>3, <1>4, <1>5, <1>6, <1>7, <1>8, <1>10, <1>11, <1>12, <1>13, <1>14, <1>15,
     <1>16, <1>17, <1>18, <1>19 DEF Next, Validate

LEMMA Typed == Spec => [](TypeOK /\ Position)
<1>1. Init => TypeOK /\ Position
  <2> SUFFICES ASSUME Init PROVE TypeOK /\ Position
    OBVIOUS
  <2>1. 0 \in Content
    BY BoundsAreNatural DEF Content
  <2>2. contents[0] \in PackageType
    BY <2>1, PackagesAreTyped DEF Init
  <2>3. at \in 1..(Len(Declared.payload) + 1)
    BY <2>2 DEF Init, Declared, PackageType
  <2> QED
    BY <2>1, <2>3 DEF Init, TypeOK, Position, Inside, InPayload
<1> QED
  BY <1>1, StepType, PTL DEF Spec

(* The state keeps its type: the entries that are read and those that are  *)
(* counted as verified are entries of the package the manifest declares.   *)
THEOREM TypeCorrect == Spec => []TypeOK
BY Typed, PTL

-----------------------------------------------------------------------------
(* What the pass knows of the package it opened: each stage has excluded   *)
(* its own flaws, and the errors say what was wrong with the rules or an   *)
(* entry so far.  All but the first of it presumes that the bytes are      *)
(* still those that were opened.                                           *)
Stages == {"hash", "hashcheck", "preflight", "manifest", "rules"} \cup InPayload
Unchanged == bytes = opened
Opened == contents[opened]
Broken(n) == call.verify /\ Opened.payload[n] # "good"
Flawed == Opened.flaw = "rules" \/ \E n \in 1..(at - 1) : Broken(n)
NothingGarbled == Opened.flaw # "garbled" /\ \A n \in DOMAIN Opened.payload : Opened.payload[n] # "garbled"

(* An outcome with which the pass may leave the source.                    *)
Right(o) ==
  /\ o \in Passing =>
       /\ o = Deserved(Opened)
       /\ call.verify => verified = DOMAIN Opened.payload
  /\ ~token /\ NothingGarbled => o = Deserved(Opened)

StageKnows ==
  /\ pc \in {"manifest", "rules"} \cup InPayload => Opened.flaw \notin {"structure", "limit"}
  /\ pc \in {"rules"} \cup InPayload => manifest = opened /\ Opened.flaw \notin {"manifest", "garbled"}

PayloadKnows ==
  /\ ~Reference => Opened.flaw # "rules"
  /\ Flawed => errors
  /\ errors => token \/ Flawed
  /\ call.verify => \A n \in 1..(at - 1) : errors \/ n \in verified

EntryKnows ==
  IF chunk = 0 THEN intact ELSE intact <=> Opened.payload[at] = "good"

Knows ==
  /\ pc \in Stages => Opened.flaw \notin {"unreadable", "oversize"}
  /\ Unchanged =>
       /\ StageKnows
       /\ pc \in InPayload => PayloadKnows
       /\ pc \in {"chunk", "check"} => EntryKnows
       /\ pc = "plan" /\ call.verify => at = Len(Opened.payload) + 1
       /\ pc = "leave" => Right(outcome)

(* Once the bytes are others than those that were opened, they stay so.    *)
LEMMA ChangedForGood ==
  ASSUME StableInv, TypeOK, [Next]_vars, Unchanged', pc \in Inside
  PROVE  /\ Unchanged
         /\ UNCHANGED <<bytes, opened, contents, call>>
         /\ Opened' = Opened
<1> USE DEF source, Inside, Raise, NextEntry, Leave, Goto
<1>1. /\ contents' = contents /\ call' = call /\ opened' = opened
      /\ bytes' = bytes \/ (bytes = path /\ bytes' = path + 1)
  <2>1. CASE Start \/ Open \/ OpenFails
    BY <2>1 DEF Start, Open, OpenFails
  <2>2. CASE HashChunk \/ HashCheck \/ HashFails \/ HashEnds
    BY <2>2 DEF HashChunk, HashCheck, HashFails, HashEnds
  <2>3. CASE Preflight \/ ReadManifest \/ CheckRules
    BY <2>3 DEF Preflight, ReadManifest, CheckRules
  <2>4. CASE SkipEntry \/ BeginEntry \/ ReadChunk \/ CheckChunk
    BY <2>4 DEF SkipEntry, BeginEntry, ReadChunk, CheckChunk
  <2>5. CASE EndEntry \/ EndEntries \/ Conclude \/ LeaveSource
    BY <2>5 DEF EndEntry, EndEntries, Conclude, LeaveSource
  <2>6. CASE Cancel \/ Overwrite \/ Replace \/ UNCHANGED vars
    BY <2>6 DEF Cancel, Overwrite, Replace, Change, vars
  <2> QED
    BY <2>1, <2>2, <2>3, <2>4, <2>5, <2>6 DEF Next, Validate
<1>2. bytes' = bytes \/ (bytes = path /\ bytes' = path + 1)
  BY <1>1
<1>3. path \in Nat /\ bytes \in Nat /\ opened \in Nat /\ opened <= bytes
  BY DEF StableInv, Ordered, Inside
<1>4. bytes' = bytes
  BY <1>1, <1>2, <1>3 DEF Unchanged
<1> QED
  BY <1>1, <1>4 DEF Unchanged, Opened

LEMMA NotConforming ==
  ASSUME NEW p, p.flaw \notin {"oversize", "limit"}, ~Conforms(p)
  PROVE  Deserved(p) = "invalid"
BY DEF Deserved

LEMMA TooLarge ==
  ASSUME NEW p, p.flaw \in {"oversize", "limit"}
  PROVE  Deserved(p) = "resource-limited"
BY DEF Deserved

LEMMA LeaveKnows ==
  ASSUME NEW o, Leave(o), Unchanged => Right(o)
  PROVE  Knows'
<1>1. UNCHANGED <<contents, path, bytes, call, token, opened, verified>>
      /\ pc' = "leave" /\ outcome' = o
  BY DEF Leave, source, reading
<1>2. Unchanged' => Right(o)
  BY <1>1 DEF Unchanged
<1>3. Opened' = Opened /\ (NothingGarbled' <=> NothingGarbled)
  BY <1>1 DEF Opened, NothingGarbled
<1>4. Deserved(Opened)' = Deserved(Opened)
  <2>1. Conforms(Opened)' <=> Conforms(Opened)
    BY <1>1, <1>3 DEF Conforms
  <2> QED
    BY <1>1, <1>3, <2>1 DEF Deserved
<1>5. Unchanged' => Right(outcome)'
  BY <1>1, <1>2, <1>3, <1>4 DEF Right
<1> QED
  BY <1>1, <1>5 DEF Knows, Stages, InPayload, StageKnows

LEMMA NextEntryKnows ==
  ASSUME TypeOK, Position, Knows, pc \in {"entry", "chunk", "check"}, at <= Len(Declared.payload),
         NEW r \in BOOLEAN, NextEntry(r), verified \subseteq verified',
         Unchanged => /\ Broken(at) => r
                      /\ r => token \/ Broken(at)
                      /\ call.verify => r \/ at \in verified'
  PROVE  Knows'
<1>1. /\ UNCHANGED <<contents, bytes, call, token, opened, manifest, chunk, intact, outcome>>
      /\ pc' = "entry" /\ at' = at + 1 /\ errors' = (errors \/ r)
  BY DEF NextEntry, source
<1>2. /\ Opened' = Opened /\ Declared' = Declared /\ (Unchanged' <=> Unchanged)
      /\ (Reference' <=> Reference)
  BY <1>1 DEF Opened, Declared, Unchanged, Reference
<1>3. pc' \in Stages => Opened'.flaw \notin {"unreadable", "oversize"}
  BY <1>2 DEF Knows, Stages, InPayload
<1>4. at \in Nat /\ at >= 1
  BY DEF TypeOK
<1>5. ASSUME Unchanged PROVE StageKnows' /\ PayloadKnows'
  <2>1. StageKnows /\ PayloadKnows
    BY <1>5 DEF Knows, InPayload
  <2>2. StageKnows'
    BY <1>1, <1>2, <2>1 DEF StageKnows, InPayload
  <2>3. \A n : n \in 1..(at' - 1) <=> n \in 1..(at - 1) \/ n = at
    BY <1>1, <1>4
  <2>4. \A n : Broken(n)' <=> Broken(n)
    BY <1>1, <1>2 DEF Broken
  <2>5. Flawed' <=> Flawed \/ Broken(at)
    BY <1>2, <2>3, <2>4 DEF Flawed
  <2>6. Flawed' => errors'
    BY <1>1, <1>5, <2>1, <2>5 DEF PayloadKnows
  <2>7. errors' => token' \/ Flawed'
    BY <1>1, <1>5, <2>1, <2>5 DEF PayloadKnows
  <2>8. call'.verify => \A n \in 1..(at' - 1) : errors' \/ n \in verified'
    BY <1>1, <1>5, <2>1, <2>3 DEF PayloadKnows
  <2> QED
    BY <1>2, <2>1, <2>2, <2>6, <2>7, <2>8 DEF PayloadKnows
<1> QED
  BY <1>1, <1>2, <1>3, <1>5 DEF Knows, InPayload

(* A step from one stage to another, or within one.                        *)
LEMMA MoveKnows ==
  ASSUME Knows, UNCHANGED <<contents, bytes, call, opened, manifest, at, errors, verified, outcome>>,
         pc' \in Stages, pc \in Stages, token => token',
         Unchanged => StageKnows' /\ (pc' \in InPayload => pc \in InPayload),
         Unchanged /\ pc' \in {"chunk", "check"} => EntryKnows',
         Unchanged /\ pc' = "plan" /\ call.verify => at = Len(Opened.payload) + 1
  PROVE  Knows'
<1>1. Opened' = Opened /\ Declared' = Declared /\ (Unchanged' <=> Unchanged) /\ (Flawed' <=> Flawed)
      /\ (Reference' <=> Reference)
  BY DEF Opened, Declared, Unchanged, Flawed, Broken, Reference
<1>2. Unchanged /\ pc' \in InPayload => PayloadKnows'
  BY <1>1 DEF Knows, PayloadKnows
<1> QED
  BY <1>1, <1>2 DEF Knows, Stages, InPayload

LEMMA ChunksMatter ==
  ASSUME TypeOK
  PROVE  /\ chunk \in Nat /\ at \in Nat /\ at >= 1 /\ Chunks \in Nat /\ Chunks > 0
         /\ opened \in Content /\ Opened.size \in Nat /\ Opened.flaw \in Flaw
         /\ Opened.version \in Version
         /\ Opened.payload \in Seq(Entry) /\ Len(Opened.payload) \in Nat
         /\ DOMAIN Opened.payload = 1..Len(Opened.payload)
         /\ \A n \in DOMAIN Opened.payload : Opened.payload[n] \in Entry
<1>1. opened \in Content /\ at \in Nat /\ at >= 1 /\ chunk \in Nat
  BY PackagesHavePayload DEF TypeOK, Declared
<1>2. Opened \in PackageType
  BY <1>1, PackagesHavePayload DEF Opened
<1> QED
  BY <1>1, <1>2, BoundsAreNatural DEF PackageType

(* Before the payload.                                                     *)
LEMMA EarlyKnows ==
  ASSUME TypeOK, Position, Knows,
         HashChunk \/ HashCheck \/ HashFails \/ HashEnds \/ Preflight \/ ReadManifest
  PROVE  Knows'
<1> USE DEF Goto, source, reading
<1>1. /\ Unchanged => Now = Opened
      /\ Expected = Opened.size /\ chunk \in Nat /\ Opened.size \in Nat
  BY ChunksMatter DEF Unchanged, Now, Opened, Expected
<1>2. CASE HashChunk
  BY <1>2, MoveKnows DEF HashChunk, Stages, InPayload, StageKnows
<1>3. CASE HashCheck
  <2>1. CASE token /\ Leave("cancelled")
    BY <2>1, LeaveKnows DEF Right, Passing
  <2>2. CASE ~(token /\ Leave("cancelled"))
    BY <1>3, <2>2, MoveKnows DEF HashCheck, Stages, InPayload, StageKnows
  <2> QED
    BY <2>1, <2>2
<1>4. CASE HashFails
  <2>1. ~Unchanged
    BY <1>1, <1>4 DEF HashFails, Truncated, Grown
  <2> QED
    BY <1>4, <2>1, LeaveKnows DEF HashFails
<1>5. CASE HashEnds
  BY <1>5, MoveKnows DEF HashEnds, Stages, InPayload, StageKnows
<1>6. CASE Preflight
  <2>0. pc = "preflight"
    BY <1>6 DEF Preflight
  <2>1. CASE Now.flaw = "structure" /\ Leave("invalid")
    <3>1. Unchanged => Deserved(Opened) = "invalid"
      BY <1>1, <2>1, NotConforming DEF Conforms
    <3> QED
      BY <2>1, <3>1, LeaveKnows DEF Right, Passing
  <2>2. CASE Now.flaw = "limit" /\ Leave("resource-limited")
    <3>1. Unchanged => Deserved(Opened) = "resource-limited"
      BY <1>1, <2>2, TooLarge
    <3> QED
      BY <2>2, <3>1, LeaveKnows DEF Right, Passing
  <2>3. CASE token /\ Leave("cancelled")
    BY <2>3, LeaveKnows DEF Right, Passing
  <2>4. CASE /\ pc' = "manifest" /\ Now.flaw \notin {"structure", "limit"}
             /\ UNCHANGED <<source, token, opened, manifest, hashed, reading, errors, outcome, late>>
    <3>1. Unchanged => StageKnows'
      BY <1>1, <2>4 DEF StageKnows, InPayload, Opened
    <3> QED
      BY <2>0, <2>4, <3>1, MoveKnows DEF Stages, InPayload
  <2> QED
    BY <1>6, <2>1, <2>2, <2>3, <2>4 DEF Preflight
<1>7. CASE ReadManifest
  <2>0. /\ pc = "manifest" /\ Opened.flaw \notin {"unreadable", "oversize"}
        /\ Unchanged => Opened.flaw \notin {"structure", "limit"}
    BY <1>7 DEF ReadManifest, Knows, Stages, StageKnows
  <2>1. CASE Now.flaw = "manifest" /\ Leave("invalid")
    <3>1. Unchanged => Deserved(Opened) = "invalid"
      BY <1>1, <2>0, <2>1, NotConforming DEF Conforms
    <3> QED
      BY <2>1, <3>1, LeaveKnows DEF Right, Passing
  <2>2. CASE /\ pc' = "rules" /\ Now.flaw \notin {"manifest", "garbled"} /\ manifest' = bytes
             /\ UNCHANGED <<source, token, opened, hashed, reading, errors, outcome, late>>
    <3>1. Opened' = Opened /\ (Unchanged' <=> Unchanged)
      BY <2>2 DEF Opened, Unchanged
    <3>2. Unchanged => StageKnows'
      BY <1>1, <2>0, <2>2, <3>1 DEF StageKnows, Unchanged
    <3> QED
      BY <2>0, <2>2, <3>1, <3>2 DEF Knows, Stages, InPayload
  <2>3. CASE Now.flaw = "garbled" /\ Leave("raised")
    <3>1. Unchanged => ~NothingGarbled
      BY <1>1, <2>3 DEF NothingGarbled
    <3> QED
      BY <2>3, <3>1, LeaveKnows DEF Right, Passing
  <2> QED
    BY <1>7, <2>1, <2>2, <2>3 DEF ReadManifest
<1> QED
  BY <1>2, <1>3, <1>4, <1>5, <1>6, <1>7

LEMMA RulesKnow ==
  ASSUME TypeOK, Position, Knows, CheckRules
  PROVE  Knows'
<1>0. /\ pc = "rules" /\ at = 1 /\ Opened.flaw \notin {"unreadable", "oversize"}
      /\ Unchanged => /\ Opened.flaw \notin {"structure", "limit", "manifest", "garbled"}
                      /\ manifest = opened /\ Declared = Opened
  BY DEF CheckRules, Position, InPayload, Knows, Stages, StageKnows, Declared, Opened
<1>1. CASE Declared.flaw = "rules" /\ ~Reference /\ Leave("invalid")
  <2>1. Unchanged => Deserved(Opened) = "invalid"
    BY <1>0, <1>1, NotConforming DEF Conforms
  <2> QED
    BY <1>1, <2>1, LeaveKnows DEF Right, Passing
<1>2. CASE /\ Declared.flaw = "rules" => Reference
           /\ errors' = (Declared.flaw = "rules")
           /\ pc' = IF Reference \/ call.verify THEN "entry" ELSE "plan"
           /\ UNCHANGED <<source, token, opened, manifest, hashed, reading, outcome, late>>
  <2>1. /\ Opened' = Opened /\ Declared' = Declared /\ (Unchanged' <=> Unchanged) /\ call' = call
        /\ at' = at /\ manifest' = manifest /\ opened' = opened /\ outcome' = outcome
        /\ (Reference' <=> Reference) /\ verified' = verified
    BY <1>2 DEF Opened, Declared, Unchanged, source, reading, Reference
  <2>2. pc' \in {"entry", "plan"} /\ (pc' = "plan" => ~call.verify)
    BY <1>2
  <2>3. 1..(at - 1) = {}
    BY <1>0
  <2>4. Unchanged => (Flawed' <=> Opened.flaw = "rules")
    BY <2>1, <2>3 DEF Flawed
  <2>5. Unchanged => PayloadKnows'
    BY <1>0, <1>2, <2>1, <2>3, <2>4 DEF PayloadKnows
  <2>6. Unchanged => StageKnows'
    BY <1>0, <2>1 DEF StageKnows
  <2> QED
    BY <1>0, <2>1, <2>2, <2>5, <2>6 DEF Knows, Stages, InPayload
<1> QED
  BY <1>1, <1>2 DEF CheckRules

(* What is raised for an entry is either the cancellation, or says that    *)
(* the entry is broken.                                                    *)
LEMMA RaiseKnows ==
  ASSUME TypeOK, Position, Knows, pc \in {"entry", "chunk", "check"}, at <= Len(Declared.payload),
         call.verify, NEW o \in {"cancelled", "raised", "invalid"}, Raise(o),
         o = "cancelled" => token,
         Unchanged => /\ o = "raised" => Opened.payload[at] = "garbled"
                      /\ o = "invalid" => Opened.payload[at] = "crc"
  PROVE  Knows'
<1>0. Unchanged => /\ Declared = Opened /\ at \in DOMAIN Opened.payload
                   /\ Opened.flaw \notin {"oversize", "limit"}
  <2>1. Unchanged => Declared = Opened
    BY DEF Knows, StageKnows, InPayload, Declared, Opened
  <2>2. Unchanged => Opened.flaw \notin {"oversize", "limit"}
    BY DEF Knows, StageKnows, Stages, InPayload
  <2> QED
    BY <2>1, <2>2, ChunksMatter
<1>1. CASE NextEntry(TRUE) /\ UNCHANGED verified
  <2>1. Unchanged => token \/ Broken(at)
    BY DEF Broken
  <2> QED
    BY <1>1, <2>1, NextEntryKnows
<1>2. CASE ~Reported(o) /\ Leave(o)
  <2>1. CASE o = "cancelled"
    BY <1>2, <2>1, LeaveKnows DEF Right, Passing
  <2>2. CASE o = "raised"
    <3>1. Unchanged => ~NothingGarbled
      BY <1>0, <2>2 DEF NothingGarbled
    <3> QED
      BY <1>2, <2>2, <3>1, LeaveKnows DEF Right, Passing
  <2>3. CASE o = "invalid"
    <3>1. Unchanged => ~Conforms(Opened)
      BY <1>0, <2>3 DEF Conforms
    <3>2. Unchanged => Deserved(Opened) = "invalid"
      BY <1>0, <3>1, NotConforming
    <3> QED
      BY <1>2, <2>3, <3>2, LeaveKnows DEF Right, Passing
  <2> QED
    BY <2>1, <2>2, <2>3
<1> QED
  BY <1>1, <1>2 DEF Raise

(* An entry.                                                               *)
LEMMA EntriesKnow ==
  ASSUME TypeOK, Position, Knows,
         SkipEntry \/ BeginEntry \/ ReadChunk \/ CheckChunk \/ EndEntry \/ EndEntries
  PROVE  Knows'
<1> USE DEF Goto, source, reading
<1>0. /\ chunk \in Nat /\ Chunks \in Nat /\ Chunks > 0 /\ at \in Nat /\ at >= 1
      /\ Len(Declared.payload) \in Nat
      /\ pc \in InPayload => (Unchanged => Declared = Opened)
  BY ChunksMatter, PackagesHavePayload DEF TypeOK, Knows, StageKnows, InPayload, Declared, Opened
<1>1. CASE SkipEntry
  <2>1. ~call.verify /\ NextEntry(FALSE) /\ UNCHANGED verified /\ at <= Len(Declared.payload)
        /\ pc = "entry"
    BY <1>1 DEF SkipEntry, MoreEntries
  <2> QED
    BY <2>1, NextEntryKnows DEF Broken
<1>2. CASE BeginEntry
  <2>0. pc = "entry" /\ call.verify /\ at <= Len(Declared.payload)
    BY <1>2 DEF BeginEntry, MoreEntries
  <2>1. CASE token /\ Raise("cancelled")
    BY <2>0, <2>1, RaiseKnows
  <2>2. CASE /\ pc' = "chunk" /\ chunk' = 0 /\ intact' = TRUE
             /\ UNCHANGED <<source, token, opened, manifest, hashed, at, errors, verified, outcome, late>>
    <3>1. EntryKnows'
      BY <2>2 DEF EntryKnows
    <3>2. Unchanged => StageKnows'
      BY <2>0, <2>2 DEF Knows, StageKnows, InPayload, Opened
    <3> QED
      BY <2>0, <2>2, <3>1, <3>2, MoveKnows DEF Stages, InPayload
  <2> QED
    BY <1>2, <2>1, <2>2 DEF BeginEntry
<1>3. CASE ReadChunk
  <2>0. pc = "chunk" /\ call.verify /\ at <= Len(Declared.payload)
    BY <1>3 DEF ReadChunk, Position
  <2>1. CASE ReadRaises # "no" /\ Raise(ReadRaises)
    <3>1. /\ ReadRaises \in {"raised", "invalid"}
          /\ ReadRaises = "raised" => Declared.payload[at] = "garbled"
          /\ ReadRaises = "invalid" => Declared.payload[at] = "crc"
      BY <2>1 DEF ReadRaises
    <3> QED
      BY <1>0, <2>0, <2>1, <3>1, RaiseKnows DEF InPayload
  <2>2. CASE /\ ReadRaises = "no" /\ chunk' = chunk + 1
             /\ intact' = (intact /\ bytes = manifest /\ Declared.payload[at] = "good")
             /\ CountLate /\ pc' = "check"
             /\ UNCHANGED <<source, token, opened, manifest, hashed, at, errors, verified, outcome>>
    <3>1. Unchanged => bytes = manifest /\ Declared = Opened /\ EntryKnows
      BY <1>0, <2>0 DEF Knows, StageKnows, InPayload, Unchanged
    <3>2. Unchanged => (intact' <=> Opened.payload[at] = "good")
      BY <2>2, <3>1 DEF EntryKnows
    <3>3. Opened' = Opened /\ at' = at /\ chunk' # 0
      BY <1>0, <2>2 DEF Opened
    <3>4. Unchanged => EntryKnows'
      BY <3>2, <3>3 DEF EntryKnows
    <3>5. Unchanged => StageKnows'
      BY <2>0, <2>2, <3>3 DEF Knows, StageKnows, InPayload
    <3> QED
      BY <2>0, <2>2, <3>4, <3>5, MoveKnows DEF Stages, InPayload
  <2> QED
    BY <1>3, <2>1, <2>2 DEF ReadChunk
<1>4. CASE CheckChunk
  <2>0. pc = "check" /\ call.verify /\ at <= Len(Declared.payload)
    BY <1>4 DEF CheckChunk, Position
  <2>1. CASE token /\ Raise("cancelled")
    BY <2>0, <2>1, RaiseKnows
  <2>2. CASE /\ pc' = "chunk"
             /\ UNCHANGED <<source, token, opened, manifest, hashed, reading, errors, outcome, late>>
    <3>1. Unchanged => EntryKnows' /\ StageKnows'
      BY <2>0, <2>2 DEF Knows, EntryKnows, StageKnows, InPayload, Opened
    <3> QED
      BY <2>0, <2>2, <3>1, MoveKnows DEF Stages, InPayload
  <2> QED
    BY <1>4, <2>1, <2>2 DEF CheckChunk
<1>5. CASE EndEntry
  <2>0. pc = "chunk" /\ call.verify /\ at <= Len(Declared.payload) /\ chunk # 0
    BY <1>0, <1>5 DEF EndEntry, Position
  <2>1. Unchanged => (intact <=> Opened.payload[at] = "good")
    BY <2>0 DEF Knows, EntryKnows
  <2>2. CASE intact /\ NextEntry(FALSE) /\ verified' = verified \cup {at}
    <3>1. /\ verified \subseteq verified' /\ at \in verified'
          /\ Unchanged => ~Broken(at)
      BY <2>1, <2>2 DEF Broken
    <3> QED
      BY <2>0, <2>2, <3>1, NextEntryKnows
  <2>3. CASE ~intact /\ NextEntry(TRUE) /\ UNCHANGED verified
    <3>1. Unchanged => Broken(at)
      BY <2>0, <2>1, <2>3 DEF Broken
    <3> QED
      BY <2>0, <2>3, <3>1, NextEntryKnows
  <2>4. CASE ~intact /\ Leave("invalid")
    <3>1. Unchanged => /\ Opened.payload[at] # "good" /\ at \in DOMAIN Opened.payload
                       /\ Opened.flaw \notin {"oversize", "limit"}
      <4>1. Unchanged => Declared = Opened /\ Opened.flaw \notin {"oversize", "limit"}
        BY <1>0, <2>0 DEF Knows, StageKnows, Stages, InPayload
      <4> QED
        BY <1>0, <2>0, <2>1, <2>4, <4>1, ChunksMatter
    <3>2. Unchanged => Deserved(Opened) = "invalid"
      BY <2>0, <3>1, NotConforming DEF Conforms
    <3> QED
      BY <2>4, <3>2, LeaveKnows DEF Right, Passing
  <2> QED
    BY <1>5, <2>2, <2>3, <2>4 DEF EndEntry
<1>6. CASE EndEntries
  <2>1. /\ pc = "entry" /\ pc' = "plan" /\ ~MoreEntries
        /\ UNCHANGED <<source, token, opened, manifest, hashed, reading, errors, outcome, late>>
    BY <1>6 DEF EndEntries
  <2>2. at \in 1..(Len(Declared.payload) + 1)
    BY DEF TypeOK
  <2>3. Unchanged => at = Len(Opened.payload) + 1
    BY <1>0, <2>1, <2>2 DEF MoreEntries, InPayload
  <2>4. Unchanged => StageKnows'
    BY <2>1 DEF Knows, StageKnows, InPayload, Opened
  <2> QED
    BY <2>1, <2>3, <2>4, MoveKnows DEF Stages, InPayload
<1> QED
  BY <1>1, <1>2, <1>3, <1>4, <1>5, <1>6

(* The verdict is what the package deserves.                               *)
LEMMA VerdictIsRight ==
  ASSUME TypeOK, Position, Knows, pc = "plan", Unchanged
  PROVE  Right(Verdict)
<1>1. /\ Opened.flaw \notin {"unreadable", "oversize", "structure", "limit", "manifest", "garbled"}
      /\ manifest = opened /\ Declared = Opened /\ PayloadKnows
  BY DEF Knows, StageKnows, Stages, InPayload, Declared, Opened
<1>2. call.verify => 1..(at - 1) = DOMAIN Opened.payload
  <2>1. call.verify => at = Len(Opened.payload) + 1
    BY DEF Knows
  <2> QED
    BY <2>1, ChunksMatter
<1>3. Flawed <=> ~Conforms(Opened)
  BY <1>1, <1>2 DEF Flawed, Broken, Conforms
<1>4. CASE errors
  <2>1. Verdict = "invalid"
    BY <1>4 DEF Verdict
  <2>2. ~token => Deserved(Opened) = "invalid"
    BY <1>1, <1>3, <1>4, NotConforming DEF PayloadKnows
  <2> QED
    BY <2>1, <2>2 DEF Right, Passing
<1>5. CASE ~errors
  <2>1. Conforms(Opened)
    BY <1>1, <1>3, <1>5 DEF PayloadKnows
  <2>2. Verdict = Deserved(Opened)
    BY <1>1, <1>5, <2>1 DEF Verdict, Deserved
  <2>3. call.verify => verified = DOMAIN Opened.payload
    <3>1. verified \subseteq DOMAIN Opened.payload
      BY <1>1 DEF TypeOK
    <3> QED
      BY <1>1, <1>2, <1>5, <3>1 DEF PayloadKnows
  <2> QED
    BY <2>2, <2>3 DEF Right
<1> QED
  BY <1>4, <1>5

DeservedInv == TypeOK /\ Position /\ StableInv /\ Knows /\ OutcomeIsDeserved

LEMMA StepKnows == ASSUME DeservedInv, [Next]_vars PROVE Knows'
<1> USE DEF DeservedInv
<1>1. CASE pc' \in {"start", "open", "done"}
  BY <1>1 DEF Knows, Stages, InPayload, StageKnows
<1>2. CASE Open /\ pc' \notin {"start", "open", "done"}
  <2>1. /\ Opened' = contents[path] /\ Opened'.flaw # "unreadable" /\ pc = "open"
        /\ pc' = "leave" => Opened'.flaw = "oversize" /\ outcome' = "resource-limited"
        /\ pc' # "leave" => Opened'.flaw # "oversize" /\ pc' \in {"hash", "preflight"}
    BY <1>2 DEF Open, Opened
  <2>2. pc' = "leave" => Deserved(Opened)' = "resource-limited"
    BY <2>1 DEF Deserved
  <2> QED
    BY <2>1, <2>2 DEF Knows, Stages, InPayload, StageKnows, Right, Passing
<1>3. CASE HashChunk \/ HashCheck \/ HashFails \/ HashEnds \/ Preflight \/ ReadManifest
  BY <1>3, EarlyKnows
<1>4. CASE CheckRules
  BY <1>4, RulesKnow
<1>5. CASE SkipEntry \/ BeginEntry \/ ReadChunk \/ CheckChunk \/ EndEntry \/ EndEntries
  BY <1>5, EntriesKnow
<1>6. CASE Conclude
  BY <1>6, VerdictIsRight, LeaveKnows DEF Conclude
<1>7. CASE Start \/ OpenFails \/ LeaveSource
  BY <1>1, <1>7 DEF Start, OpenFails, LeaveSource, Goto
<1>8. CASE /\ Cancel \/ Overwrite \/ Replace \/ UNCHANGED vars
           /\ pc' \notin {"start", "open", "done"}
  <2>1. /\ UNCHANGED <<contents, call, pc, opened, manifest, at, chunk, intact, errors, verified, outcome>>
        /\ token => token'
    BY <1>8 DEF Cancel, Overwrite, Replace, Change, vars, source, reading
  <2>2. pc \in Inside
    BY <1>8, <2>1 DEF TypeOK
  <2>3. Unchanged' => Unchanged
    BY <2>2, ChangedForGood
  <2>4. Opened' = Opened /\ Declared' = Declared /\ (Reference' <=> Reference) /\ (Flawed' <=> Flawed)
        /\ (NothingGarbled' <=> NothingGarbled)
    BY <2>1 DEF Opened, Declared, Reference, Flawed, Broken, NothingGarbled
  <2>5. Deserved(Opened)' = Deserved(Opened)
    <3>1. Conforms(Opened)' <=> Conforms(Opened)
      BY <2>1, <2>4 DEF Conforms
    <3> QED
      BY <2>1, <2>4, <3>1 DEF Deserved
  <2>6. Right(outcome) => Right(outcome)'
    BY <2>1, <2>4, <2>5 DEF Right
  <2>7. /\ StageKnows => StageKnows'
        /\ PayloadKnows => PayloadKnows'
        /\ EntryKnows => EntryKnows'
    BY <2>1, <2>4 DEF StageKnows, PayloadKnows, EntryKnows
  <2> QED
    BY <2>1, <2>3, <2>4, <2>6, <2>7 DEF Knows
<1> QED
  BY <1>1, <1>2, <1>3, <1>4, <1>5, <1>6, <1>7, <1>8 DEF Next, Validate

LEMMA StepOutcome == ASSUME DeservedInv, [Next]_vars PROVE OutcomeIsDeserved'
<1> USE DEF DeservedInv
<1> SUFFICES ASSUME pc' = "done" PROVE OutcomeIsDeserved'
  BY DEF OutcomeIsDeserved, Done
<1>1. CASE Start
  BY <1>1 DEF Start, OutcomeIsDeserved, Done, Passing
<1>2. CASE OpenFails
  <2>1. Opened'.flaw = "unreadable" /\ outcome' = "invalid"
    BY <1>2 DEF OpenFails, Opened, source
  <2>2. Deserved(Opened)' = "invalid"
    BY <2>1 DEF Deserved, Conforms
  <2> QED
    BY <2>1, <2>2 DEF OutcomeIsDeserved, Passing, Opened
<1>3. CASE LeaveSource
  <2>1. /\ pc = "leave" /\ outcome' = IF Changed THEN "invalid" ELSE outcome
        /\ UNCHANGED <<contents, path, bytes, call, token, opened, verified>>
    BY <1>3 DEF LeaveSource, Goto, source, reading
  <2>2. path \in Nat /\ bytes \in Nat /\ opened \in Nat /\ opened <= bytes /\ bytes <= path
    BY <2>1 DEF StableInv, Ordered
  <2>3. path = opened => ~Changed
    BY <2>2 DEF Changed
  <2>4. ~Changed => Right(outcome)
    BY <2>1 DEF Changed, Knows, Unchanged
  <2>5. Opened' = Opened /\ (NothingGarbled' <=> NothingGarbled)
    BY <2>1 DEF Opened, NothingGarbled
  <2>6. Deserved(Opened)' = Deserved(Opened)
    <3>1. Conforms(Opened)' <=> Conforms(Opened)
      BY <2>1, <2>5 DEF Conforms
    <3> QED
      BY <2>1, <2>5, <3>1 DEF Deserved
  <2>7. outcome' \in Passing => /\ outcome' = Deserved(Opened)'
                                /\ call'.verify => verified' = DOMAIN Opened'.payload
    BY <2>1, <2>4, <2>5, <2>6 DEF Right, Passing
  <2>8. ~token' /\ path' = opened' /\ NothingGarbled' => outcome' = Deserved(Opened)'
    BY <2>1, <2>3, <2>4, <2>5, <2>6 DEF Right
  <2> QED
    BY <2>7, <2>8 DEF OutcomeIsDeserved, Opened, NothingGarbled
<1>4. CASE UNCHANGED vars
  BY <1>4 DEF vars, OutcomeIsDeserved, Done, Deserved, Conforms
<1> QED
  BY <1>1, <1>2, <1>3, <1>4 DEF Next, Validate, Open, HashChunk, HashCheck, HashFails, HashEnds,
     Preflight, ReadManifest, CheckRules, SkipEntry, BeginEntry, ReadChunk, CheckChunk, EndEntry,
     EndEntries, Conclude, Cancel, Overwrite, Replace, Change, Raise, NextEntry, Leave, Goto

(* A package that passes deserves its outcome, with every entry verified   *)
(* if that was asked for, and one that nobody cancels or changes always    *)
(* gets what it deserves (validate_package()).                             *)
THEOREM Deserts == Spec => []OutcomeIsDeserved
<1>1. Init => Knows /\ OutcomeIsDeserved
  BY DEF Init, Knows, Stages, InPayload, StageKnows, OutcomeIsDeserved, Done
<1>2. Spec => []StableInv
  BY StableInit, StableStep, PTL DEF Spec
<1>3. (TypeOK /\ Position) /\ StableInv /\ (Knows /\ OutcomeIsDeserved) /\ [Next]_vars
        => (Knows /\ OutcomeIsDeserved)'
  BY StepKnows, StepOutcome DEF DeservedInv
<1> QED
  BY <1>1, <1>2, <1>3, Typed, PTL DEF Spec
=============================================================================
