-------------------------- MODULE PublicationProofs --------------------------
(***************************************************************************)
(* Proofs about packing, publication and, at the end, about what an author *)
(* may rely on once a manifest is valid.  What the two tools leave at the  *)
(* output's path follows from how the pack gets there; that a packed       *)
(* archive is sealed, and that a release and all that offers its bytes     *)
(* agree, from what the validators have looked at and from the fact that a *)
(* check which saw two versions of a file is never believed.  What holds   *)
(* of valid manifests follows from the rules, and from the schema.         *)
(***************************************************************************)
EXTENDS Publication, Authoring, FiniteSetTheorems, TLAPS

(* A run that has made the output has it under its control until it fails  *)
(* or ends, and has only put files into it.                                *)
Rows(rows) ==
  /\ rows \in Seq(Range(rows))
  /\ \A k \in DOMAIN rows : rows[k].kind = "file"

Written == out = Own(out.archive) /\ Rows(out.archive.entries)

PackInv ==
  /\ tool \in {"0.5.0", "0.3.3"}
  /\ made /\ pc \notin {"refused", "failed", "ended"} => Written
  /\ pc \in {"copy", "done"} => made
  /\ tool = "0.3.3" /\ pc \in {"manifest", "carrier"} => made
  /\ pc = "done" => Finished(out.archive)
  /\ tool = "0.5.0" /\ pc = "failed" /\ made => out.kind # "own"

LEMMA RowsGrow ==
  ASSUME NEW rows, Rows(rows), NEW e, e.kind = "file"
  PROVE  Rows(Append(rows, e))
<1> DEFINE S == Range(rows) \cup {e}
           more == Append(rows, e)
<1>1. rows \in Seq(S) /\ e \in S
  BY DEF Rows
<1>2. /\ more \in Seq(S) /\ Len(more) = Len(rows) + 1 /\ more[Len(rows) + 1] = e
      /\ \A k \in 1 .. Len(rows) : more[k] = rows[k]
  BY <1>1
<1>3. DOMAIN more = 1 .. Len(more) /\ DOMAIN rows = 1 .. Len(rows) /\ Len(rows) \in Nat
  BY <1>1, <1>2
<1> HIDE DEF more
<1>4. \A k \in DOMAIN more : more[k].kind = "file"
  <2> SUFFICES ASSUME NEW k \in DOMAIN more PROVE more[k].kind = "file"
    OBVIOUS
  <2>1. k = Len(rows) + 1 \/ k \in 1 .. Len(rows)
    BY <1>2, <1>3
  <2> QED
    BY <2>1, <1>2, <1>3 DEF Rows
<1>5. more \in Seq(Range(more))
  <2>1. Len(more) \in Nat /\ more = [k \in 1 .. Len(more) |-> more[k]]
    BY <1>2, <1>3
  <2>2. \A k \in 1 .. Len(more) : more[k] \in Range(more)
    BY <1>3 DEF Range
  <2>3. more \in [1 .. Len(more) -> Range(more)]
    BY <2>1, <2>2
  <2> QED
    BY <2>1, <2>3
<1> QED
  BY <1>4, <1>5 DEF more, Rows

LEMMA OwnIsNotNone == ASSUME NEW a PROVE Own(a) # None /\ Own(a) # Foreign /\ Own(a).kind = "own" /\ Own(a).archive = a
BY DEF Own, None, Foreign

LEMMA PackStarts == Init => PackInv
BY PackingAssumption DEF Init, PackInit, PackInv

LEMMA NothingWritten ==
  ASSUME PackInv, out' = out, tool' = tool, made' = made,
         pc' \in {"checked", "manifest", "carrier", "open", "refused", "ended"},
         pc \notin {"refused", "failed", "ended"},
         tool = "0.3.3" /\ pc' \in {"manifest", "carrier"} => made
  PROVE  PackInv'
BY DEF PackInv, Written

LEMMA FailedIsGone == ASSUME PackInv, Fail, UNCHANGED <<tool, made>> PROVE PackInv'
<1>1. pc' = "failed" /\ out' = Remains /\ tool' = tool /\ made' = made
  BY DEF Fail
<1>2. tool = "0.5.0" /\ made => out'.kind # "own"
  BY <1>1 DEF Remains, None
<1> QED
  BY <1>1, <1>2 DEF PackInv

LEMMA StepKeeps == ASSUME PackInv, Step PROVE PackInv'
<1>1. CASE Check
  BY <1>1, NothingWritten DEF Check
<1>2. CASE Exists
  BY <1>2, NothingWritten DEF Exists, PackInv
<1>3. CASE ReadManifest
  BY <1>3, NothingWritten DEF ReadManifest, PackInv
<1>4. CASE ReadCarrier
  <2>1. CASE tool = "0.5.0"
    BY <1>4, <2>1, NothingWritten DEF ReadCarrier, PackInv
  <2>2. CASE tool = "0.3.3"
    <3> DEFINE a == [out.archive EXCEPT !.manifest = parts.manifest, !.carrier = work.carrier]
    <3>1. made /\ Written /\ out' = Own(a) /\ UNCHANGED <<tool, made>> /\ pc' = "copy"
      BY <1>4, <2>2 DEF ReadCarrier, PackInv
    <3>2. a.entries = out.archive.entries
      OBVIOUS
    <3>3. Written'
      BY <3>1, <3>2, OwnIsNotNone DEF Written
    <3> QED
      BY <3>1, <3>3 DEF PackInv
  <2> QED
    BY <2>1, <2>2 DEF PackInv, Foreign
<1>5. CASE Open
  <2>1. CASE out # None
    <3>1. Fail /\ UNCHANGED <<tool, made>>
      BY <1>5, <2>1 DEF Open
    <3> QED
      BY <3>1, FailedIsGone
  <2>2. CASE out = None
    <3> DEFINE a == [ordered |-> TRUE, stray |-> FALSE, entries |-> <<>>,
                     manifest |-> IF tool = "0.5.0" THEN parts.manifest ELSE "",
                     carrier |-> IF tool = "0.5.0" THEN parts.carrier ELSE ""]
    <3>1. out' = Own(a) /\ made' = TRUE /\ tool' = tool
      BY <1>5, <2>2 DEF Open
    <3>2. pc' = IF tool = "0.5.0" THEN "copy" ELSE "manifest"
      BY <1>5, <2>2 DEF Open
    <3>3. a.entries = <<>>
      OBVIOUS
    <3>4. Rows(<<>>)
      BY DEF Rows, Range
    <3> HIDE DEF a
    <3>5. Written'
      BY <3>1, <3>3, <3>4, OwnIsNotNone DEF Written
    <3> QED
      BY <3>1, <3>2, <3>5 DEF PackInv
  <2> QED
    BY <2>1, <2>2
<1>6. CASE Copy
  <2> DEFINE p == Head(todo)
  <2>1. pc = "copy" /\ made /\ Written /\ UNCHANGED <<tool, made>>
    BY <1>6 DEF Copy, PackInv
  <2>2. CASE UNCHANGED <<out, pc>>
    BY <2>1, <2>2 DEF PackInv, Written
  <2>3. CASE out' = [out EXCEPT !.archive.entries = Append(@, Entry(p))] /\ pc' = pc
    <3> DEFINE a == [out.archive EXCEPT !.entries = Append(@, Entry(p))]
    <3>1. out' = [out EXCEPT !.archive = a]
      BY <2>3
    <3>2. out = Own(out.archive)
      BY <2>1 DEF Written
    <3>3. out' = Own(a)
      <4> HIDE DEF a
      <4> QED
        BY <3>1, <3>2 DEF Own
    <3>4. a.entries = Append(out.archive.entries, Entry(p))
      OBVIOUS
    <3>5. Entry(p).kind = "file"
      BY DEF Entry
    <3>6. Rows(a.entries)
      <4> HIDE DEF a
      <4> QED
        BY <2>1, <3>4, <3>5, RowsGrow DEF Written
    <3> HIDE DEF a
    <3>7. Written'
      BY <3>3, <3>6, OwnIsNotNone DEF Written
    <3> QED
      BY <2>1, <2>3, <3>7 DEF PackInv
  <2>4. CASE Fail
    BY <2>1, <2>4, FailedIsGone
  <2> QED
    BY <1>6, <2>2, <2>3, <2>4 DEF Copy
<1>7. CASE Finish
  <2>1. CASE Fail
    BY <1>7, <2>1, FailedIsGone DEF Finish
  <2>2. CASE Finished(out.archive) /\ pc' = "done" /\ UNCHANGED out
    <3>1. UNCHANGED <<out, tool, made>> /\ made /\ Written
      BY <1>7, <2>2 DEF Finish, PackInv
    <3>2. Finished(out.archive)'
      BY <2>2, <3>1 DEF Finished
    <3> QED
      BY <2>2, <3>1, <3>2 DEF PackInv, Written
  <2> QED
    BY <1>7, <2>1, <2>2 DEF Finish
<1> QED
  BY <1>1, <1>2, <1>3, <1>4, <1>5, <1>6, <1>7 DEF Step

LEMMA PackKeeps == ASSUME PackInv, PackNext PROVE PackInv'
<1>1. CASE Step
  BY <1>1, StepKeeps
<1>2. CASE Crash
  BY <1>2 DEF Crash, Running, PackInv, Written
<1>3. CASE Again
  BY <1>3 DEF Again, PackInv
<1>4. CASE Appear
  <2>1. out = None /\ out' = Foreign /\ UNCHANGED <<tool, pc, made>>
    BY <1>4 DEF Appear
  <2>2. ~Written
    BY <2>1, OwnIsNotNone DEF Written
  <2> QED
    BY <2>1, <2>2 DEF PackInv, Foreign
<1>5. ASSUME NEW w, Change(w) PROVE PackInv'
  <2>1. UNCHANGED <<tool, out, pc, made>>
    BY <1>5 DEF Change
  <2>2. Finished(out.archive)' = Finished(out.archive)
    BY <2>1 DEF Finished
  <2> QED
    BY <2>1, <2>2 DEF PackInv, Written
<1>6. EditManifest \/ EditCarrier \/ PutFile \/ DropFile => PackInv'
  BY <1>5 DEF EditManifest, EditCarrier, PutFile, DropFile
<1> QED
  BY <1>1, <1>2, <1>3, <1>4, <1>6 DEF PackNext

LEMMA PackInvariant == Spec => []PackInv
<1>1. ASSUME PackInv, [Next]_vars PROVE PackInv'
  <2>1. CASE PackNext
    BY <2>1, <1>1, PackKeeps
  <2>2. CASE UNCHANGED packVars
    <3>1. Finished(out.archive)' = Finished(out.archive)
      BY <2>2 DEF packVars, Finished
    <3> QED
      BY <1>1, <2>2, <3>1 DEF PackInv, Written, packVars
  <2>3. Publish => UNCHANGED packVars
    BY DEF Publish, Describe, Amend, Verdict, CheckRelease, RereadRelease, ValidateCarrier,
           CompareCarrier, CheckReceipt, ValidateSource, CompareSource, CheckPublication, CheckPack, Begin
  <2> QED
    BY <1>1, <2>1, <2>2, <2>3 DEF Next, vars
<1> QED
  BY <1>1, PackStarts, PTL DEF Spec

(* A file of another program survives every step of a pack of 0.5.0, and   *)
(* whatever a failed pack of 0.5.0 has written is gone: the promise of     *)
(* pack_workspace()'s exclusive creation and its handler of exceptions.    *)
THEOREM OutputStaysOurs == Spec => OutputIsOurs
<1> DEFINE A == tool = "0.5.0" => /\ out = Foreign => out' = Foreign
                                  /\ pc' = "failed" /\ made => out'.kind # "own"
<1>1. ASSUME PackInv, PackInv', [Next]_vars PROVE [A]_packVars
  <2>1. CASE PackNext
    <3> SUFFICES ASSUME tool = "0.5.0"
                 PROVE  /\ out = Foreign => out' = Foreign
                        /\ pc' = "failed" /\ made => out'.kind # "own"
      OBVIOUS
    <3>1. tool' = tool /\ (made' = made \/ pc' # "failed")
      BY <2>1 DEF PackNext, Step, Check, Exists, ReadManifest, ReadCarrier, Open, Copy, Finish, Fail,
                  Crash, Again, Appear, EditManifest, EditCarrier, PutFile, DropFile, Change
    <3>2. pc' = "failed" /\ made => out'.kind # "own"
      BY <1>1, <3>1 DEF PackInv
    <3>3. ASSUME out = Foreign PROVE out' = Foreign
      <4>1. ~Written /\ out # None
        BY <3>3, OwnIsNotNone DEF Written, None, Foreign
      <4>2. ~(pc = "copy")
        BY <1>1, <4>1 DEF PackInv
      <4>3. Fail => out' = out \/ made
        BY DEF Fail, Remains
      <4>4. pc = "open" => ~made
        BY <1>1, <4>1 DEF PackInv
      <4> QED
        BY <2>1, <3>3, <4>1, <4>2, <4>3, <4>4
           DEF PackNext, Step, Check, Exists, ReadManifest, ReadCarrier, Open, Copy, Finish,
               Crash, Again, Appear, EditManifest, EditCarrier, PutFile, DropFile, Change
    <3> QED
      BY <3>2, <3>3
  <2>2. CASE UNCHANGED packVars
    BY <2>2
  <2>3. Publish => UNCHANGED packVars
    BY DEF Publish, Describe, Amend, Verdict, CheckRelease, RereadRelease, ValidateCarrier,
           CompareCarrier, CheckReceipt, ValidateSource, CompareSource, CheckPublication, CheckPack, Begin
  <2> QED
    BY <1>1, <2>1, <2>2, <2>3 DEF Next, vars
<1> QED
  BY <1>1, PackInvariant, PTL DEF Spec, OutputIsOurs

-----------------------------------------------------------------------------
(* Archives.  The payload of an archive is read from the entries that are  *)
(* not directories, each under its own path.                               *)
Fitting(a) ==
  /\ EntriesFit(a.entries)
  /\ a.manifest \in Documents
  /\ PartsFit(a.manifest, a.carrier, PayloadIn(a.entries))

LEMMA EntryIsPayload ==
  ASSUME NEW rows, EntriesFit(rows), NEW k \in DOMAIN rows, rows[k].kind # "dir"
  PROVE  /\ rows[k].path \in DOMAIN PayloadIn(rows)
         /\ PayloadIn(rows)[rows[k].path] = rows[k].data
<1> DEFINE Match == {e \in FileEntries(rows) : e.path = rows[k].path}
<1>1. rows[k] \in Match
  BY DEF FileEntries, Range
<1>2. ASSUME NEW e \in Match PROVE e = rows[k]
  <2>1. PICK j \in DOMAIN rows : e = rows[j] /\ rows[j].kind # "dir" /\ rows[j].path = rows[k].path
    BY <1>2 DEF FileEntries, Range
  <2> QED
    BY <2>1 DEF EntriesFit
<1>3. (CHOOSE e \in FileEntries(rows) : e.path = rows[k].path) = rows[k]
  BY <1>1, <1>2
<1>4. rows[k].path \in {e.path : e \in FileEntries(rows)}
  BY <1>1
<1> QED
  BY <1>3, <1>4 DEF PayloadIn

LEMMA PayloadIsEntry ==
  ASSUME NEW rows, NEW p \in DOMAIN PayloadIn(rows)
  PROVE  \E k \in DOMAIN rows : rows[k].kind # "dir" /\ rows[k].path = p
BY DEF PayloadIn, FileEntries, Range

(* An entry at the place of a mapping has the bytes of its realization.    *)
LEMMA MappedBytes ==
  ASSUME NEW a, Fitting(a), NEW k \in DOMAIN a.entries, a.entries[k].kind # "dir",
         NEW e \in Range(a.carrier.embedded), Canonical[e.path] = Canonical[a.entries[k].path]
  PROVE  /\ e.realization \in Ids(Parsed[a.manifest], "realizations")
         /\ Parsed[a.manifest].realizations[e.realization].sha256 = {a.entries[k].data}
<1> DEFINE m == Parsed[a.manifest]
           payload == PayloadIn(a.entries)
<1>1. PICK j \in DOMAIN a.carrier.embedded : a.carrier.embedded[j] = e
  BY DEF Range
<1>2. MappingHolds(m, payload, e)
  BY <1>1 DEF Fitting, PartsFit
<1>3. /\ a.entries[k].path \in DOMAIN payload
      /\ payload[a.entries[k].path] = a.entries[k].data
  BY EntryIsPayload DEF Fitting
<1>4. a.entries[k].data \in Embedded(payload, e.path)
  <2> HIDE DEF payload
  <2> QED
    BY <1>3 DEF Embedded
<1> QED
  BY <1>2, <1>4 DEF MappingHolds

(* And a mapping has exactly one place.                                    *)
LEMMA OnePlace ==
  ASSUME NEW a, Fitting(a), \A k \in DOMAIN a.entries : a.entries[k].kind = "file",
         NEW e \in Range(a.carrier.embedded)
  PROVE  \E k \in DOMAIN a.entries :
           /\ Places(a, e.realization) = {k}
           /\ Parsed[a.manifest].realizations[e.realization].sha256 = {a.entries[k].data}
<1> DEFINE m == Parsed[a.manifest]
           payload == PayloadIn(a.entries)
<1>1. PICK j \in DOMAIN a.carrier.embedded : a.carrier.embedded[j] = e
  BY DEF Range
<1>2. MappingHolds(m, payload, e)
  BY <1>1 DEF Fitting, PartsFit
<1>3. PICK p \in DOMAIN payload : Canonical[p] = Canonical[e.path]
  <2> HIDE DEF payload
  <2> QED
    BY <1>2 DEF MappingHolds, Embedded
<1>4. PICK k \in DOMAIN a.entries : a.entries[k].path = p
  BY PayloadIsEntry
<1>5. a.entries[k].kind # "dir"
  OBVIOUS
<1>6. k \in Places(a, e.realization)
  BY <1>3, <1>4 DEF Places
<1>7. ASSUME NEW i \in Places(a, e.realization) PROVE i = k
  <2>1. PICK f \in Range(a.carrier.embedded) :
          f.realization = e.realization /\ Canonical[f.path] = Canonical[a.entries[i].path]
    BY DEF Places
  <2>2. PICK l \in DOMAIN a.carrier.embedded : a.carrier.embedded[l] = f
    BY DEF Range
  <2>3. f = e
    BY <1>1, <2>1, <2>2 DEF Fitting, PartsFit, Closed
  <2>4. i \in DOMAIN a.entries /\ a.entries[i].kind # "dir"
    BY DEF Places
  <2> QED
    BY <1>3, <1>4, <1>5, <2>1, <2>3, <2>4 DEF Fitting, EntriesFit
<1>8. Parsed[a.manifest].realizations[e.realization].sha256 = {a.entries[k].data}
  BY <1>3, <1>4, <1>5, MappedBytes
<1> QED
  BY <1>6, <1>7, <1>8

-----------------------------------------------------------------------------
(* The groups that a group depends on.  What a carrier needs is defined    *)
(* step by step, and what the validator asks for by the least set that is  *)
(* closed; that the second covers the first is an induction over the       *)
(* steps.                                                                  *)
LEMMA NatSetInduction ==
  ASSUME NEW T \in SUBSET Nat, 0 \in T, \A n \in T : n + 1 \in T
  PROVE  T = Nat
<1> DEFINE R == OpToRel(<, Nat)
           U == Nat \ T
<1>1. IsWellFoundedOn(R, Nat)
  BY NatLessThanWellFounded
<1>2. SUFFICES ASSUME U # {} PROVE FALSE
  OBVIOUS
<1>3. PICK n \in U : \A m \in U : <<m, n>> \notin R
  <2> HIDE DEF R, U
  <2>1. U \subseteq Nat
    BY DEF U
  <2> QED
    BY <1>1, <1>2, <2>1, WFMin
<1>4. n # 0 /\ n - 1 \in Nat /\ n - 1 + 1 = n
  OBVIOUS
<1>5. <<n - 1, n>> \in R
  BY <1>4 DEF OpToRel
<1>6. n - 1 \in T
  BY <1>3, <1>4, <1>5
<1> QED
  BY <1>4, <1>6

Grows(f, m, groups) ==
  f = [n \in 0 .. Cardinality(Ids(m, "assetGroups")) |->
         IF n = 0 THEN groups
         ELSE LET below == f[n - 1] IN below \cup UNION {At(m.assetGroups[g], "dependsOnGroupIds") : g \in below}]

LEMMA GrowExists ==
  ASSUME NEW m, NEW groups, Cardinality(Ids(m, "assetGroups")) \in Nat
  PROVE  \E f : Grows(f, m, groups)
<1> DEFINE Next1(b) == b \cup UNION {At(m.assetGroups[g], "dependsOnGroupIds") : g \in b}
           Value(k, n) == IF n = 0 THEN groups ELSE Next1(k[n - 1])
           Some(n) == \E k : k = [i \in 0..n |-> Value(k, i)]
           T == {n \in Nat : Some(n)}
<1> HIDE DEF Next1
<1>1. Some(0)
  <2> DEFINE k == [i \in 0..0 |-> groups]
  <2>1. k = [i \in 0..0 |-> Value(k, i)]
    OBVIOUS
  <2> QED
    BY <2>1
<1>2. ASSUME NEW n \in Nat, Some(n) PROVE Some(n + 1)
  <2>1. PICK k : k = [i \in 0..n |-> Value(k, i)]
    BY <1>2
  <2> DEFINE l == [i \in 0..(n + 1) |-> Value(k, i)]
  <2>2. \A i \in 0..n : l[i] = k[i]
    <3> SUFFICES ASSUME NEW i \in 0..n PROVE l[i] = k[i]
      OBVIOUS
    <3>1. i \in 0..(n + 1)
      OBVIOUS
    <3>2. l[i] = Value(k, i)
      BY <3>1
    <3>3. k[i] = Value(k, i)
      BY <2>1
    <3> QED
      BY <3>2, <3>3
  <2>3. \A i \in 0..(n + 1) : Value(k, i) = Value(l, i)
    <3> SUFFICES ASSUME NEW i \in 0..(n + 1), i # 0 PROVE k[i - 1] = l[i - 1]
      OBVIOUS
    <3>1. i - 1 \in 0..n
      OBVIOUS
    <3> QED
      BY <2>2, <3>1
  <2>4. l = [i \in 0..(n + 1) |-> Value(l, i)]
    BY <2>3
  <2> HIDE DEF l
  <2> QED
    BY <2>4
<1>3. T = Nat
  <2> HIDE DEF Some
  <2>1. T \subseteq Nat /\ 0 \in T /\ \A n \in T : n + 1 \in T
    BY <1>1, <1>2
  <2> HIDE DEF T
  <2> QED
    BY <2>1, NatSetInduction
<1>4. Some(Cardinality(Ids(m, "assetGroups")))
  BY <1>3
<1> QED
  BY <1>4 DEF Grows, Next1

LEMMA NeededIsRequired ==
  ASSUME NEW m, IsFiniteSet(Ids(m, "assetGroups")), NEW groups \in SUBSET Ids(m, "assetGroups"),
         \A g \in Ids(m, "assetGroups") :
           At(m.assetGroups[g], "dependsOnGroupIds") \subseteq Ids(m, "assetGroups")
  PROVE  Needed(m, groups) \subseteq UNION {Required(m, g) : g \in groups}
<1> DEFINE Groups == Ids(m, "assetGroups")
           N == Cardinality(Groups)
           Full == {S \in SUBSET Groups :
                      \A g \in S : At(m.assetGroups[g], "dependsOnGroupIds") \cap Groups \subseteq S}
           Seen(h) == {g \in Groups : \A S \in Full : {h} \cap Groups \subseteq S => g \in S}
           All == UNION {Seen(h) : h \in groups}
           f == CHOOSE x : Grows(x, m, groups)
           T == {n \in Nat : n <= N => f[n] \subseteq All}
<1>1. N \in Nat
  BY FS_CardinalityType
<1>2. Grows(f, m, groups)
  BY <1>1, GrowExists
<1>3. Needed(m, groups) = UNION {m.assetGroups[g].realizationIds : g \in f[N]}
  BY DEF Needed, Grows
<1> HIDE DEF f
<1>4. f[0] = groups
  <2>1. 0 \in 0 .. N
    BY <1>1
  <2> QED
    BY <1>2, <2>1 DEF Grows
<1>5. \A n \in Nat : n + 1 <= N =>
        f[n + 1] = f[n] \cup UNION {At(m.assetGroups[g], "dependsOnGroupIds") : g \in f[n]}
  <2> HIDE DEF N
  <2> SUFFICES ASSUME NEW n \in Nat, n + 1 <= N
               PROVE  f[n + 1] = f[n] \cup UNION {At(m.assetGroups[g], "dependsOnGroupIds") : g \in f[n]}
    OBVIOUS
  <2>1. n + 1 \in 0 .. N /\ n + 1 # 0 /\ (n + 1) - 1 = n
    BY <1>1
  <2> QED
    BY <1>2, <2>1 DEF Grows, N
<1> HIDE DEF N
<1>6. groups \subseteq All
  OBVIOUS
<1>7. ASSUME NEW g \in All PROVE g \in Groups /\ At(m.assetGroups[g], "dependsOnGroupIds") \subseteq All
  <2>1. PICK h \in groups : g \in Seen(h)
    OBVIOUS
  <2>2. g \in Groups
    BY <2>1
  <2>3. ASSUME NEW x \in At(m.assetGroups[g], "dependsOnGroupIds") PROVE x \in Seen(h)
    <3>1. x \in Groups
      BY <2>2
    <3>2. ASSUME NEW S \in Full, {h} \cap Groups \subseteq S PROVE x \in S
      <4>1. g \in S
        BY <2>1, <3>2
      <4> QED
        BY <3>1, <4>1
    <3> QED
      BY <3>1, <3>2
  <2> QED
    BY <2>2, <2>3
<1> HIDE DEF All
<1>8. 0 \in T
  BY <1>4, <1>6
<1>9. ASSUME NEW n \in T PROVE n + 1 \in T
  <2> SUFFICES ASSUME n + 1 <= N PROVE f[n + 1] \subseteq All
    OBVIOUS
  <2>1. f[n] \subseteq All
    BY <1>1
  <2>2. f[n + 1] = f[n] \cup UNION {At(m.assetGroups[g], "dependsOnGroupIds") : g \in f[n]}
    BY <1>5
  <2> QED
    BY <1>7, <2>1, <2>2
<1>10. T = Nat
  <2>1. T \in SUBSET Nat
    OBVIOUS
  <2> HIDE DEF T
  <2> QED
    BY <1>8, <1>9, <2>1, NatSetInduction
<1>11. f[N] \subseteq All
  BY <1>1, <1>10
<1>12. \A h : Required(m, h) = UNION {m.assetGroups[g].realizationIds : g \in Seen(h)}
  BY DEF Required
<1> HIDE DEF Seen
<1> QED
  BY <1>3, <1>11, <1>12 DEF All

GroupsClosed(m) ==
  \A g \in Ids(m, "assetGroups") : At(m.assetGroups[g], "dependsOnGroupIds") \subseteq Ids(m, "assetGroups")

LEMMA Closed03 == ASSUME NEW m, ManifestFits03(m) PROVE GroupsClosed(m)
<1> SUFFICES ASSUME NEW g \in Ids(m, "assetGroups")
             PROVE  At(m.assetGroups[g], "dependsOnGroupIds") \subseteq Ids(m, "assetGroups")
  BY DEF GroupsClosed
<1> DEFINE row == <<"assetGroups", "dependsOnGroupIds", "assetGroups">>
           table == {<<"assetGroups", "realizationIds", "realizations">>, row,
                     <<"assetGroups", "fallbackGroupId", "assetGroups">>}
<1>1. Resolve(m, table)
  BY DEF ManifestFits03, GroupsFit
<1>2. \A r \in Holds(m, row[1]) : Into(m, r, row[2], row[3])
  BY <1>1 DEF Resolve
<1>3. "assetGroups" \in DOMAIN m /\ Reg(m, "assetGroups") = m.assetGroups
  BY DEF Ids, Reg
<1>4. m.assetGroups[g] \in Holds(m, "assetGroups")
  BY <1>3 DEF Holds
<1> QED
  BY <1>2, <1>4 DEF Into

(* The projection to 0.3 leaves the groups as they are.                    *)
LEMMA Closed05 == ASSUME NEW m, ManifestFits(m) PROVE GroupsClosed(m)
<1> SUFFICES ASSUME NEW g \in Ids(m, "assetGroups")
             PROVE  At(m.assetGroups[g], "dependsOnGroupIds") \subseteq Ids(m, "assetGroups")
  BY DEF GroupsClosed
<1> DEFINE P == ProjectTo03(m)
<1>1. GroupsClosed(P)
  BY Closed03 DEF ManifestFits
<1>2. "assetGroups" \in DOMAIN m /\ Ids(m, "assetGroups") = DOMAIN m.assetGroups
  BY DEF Ids, Reg
<1>3. "assetGroups" \in DOMAIN P /\ P.assetGroups = [id \in DOMAIN m.assetGroups |-> m.assetGroups[id]]
  BY <1>2 DEF ProjectTo03, With, Dropped, Paradata, Interpretations
<1>4. Ids(P, "assetGroups") = Ids(m, "assetGroups") /\ P.assetGroups[g] = m.assetGroups[g]
  BY <1>2, <1>3 DEF Ids, Reg
<1> QED
  BY <1>1, <1>4 DEF GroupsClosed

LEMMA FinishedFits == ASSUME NEW a, Finished(a) PROVE Fitting(a) /\ GroupsClosed(Parsed[a.manifest])
<1>1. CASE ArchiveFits(a)
  BY <1>1, Closed05 DEF ArchiveFits, CarrierFits, Fitting
<1>2. CASE ArchiveFits03(a)
  BY <1>2, Closed03 DEF ArchiveFits03, CarrierFits03, Fitting
<1> QED
  BY <1>1, <1>2 DEF Finished

LEMMA FinishedIsSealed ==
  ASSUME NEW a, Finished(a), \A k \in DOMAIN a.entries : a.entries[k].kind = "file"
  PROVE  Sealed(a)
<1> DEFINE m == Parsed[a.manifest]
           held == {e.realization : e \in Range(a.carrier.embedded)}
           payload == PayloadIn(a.entries)
<1>1. Fitting(a) /\ GroupsClosed(m)
  BY FinishedFits
<1>2. a.carrier.manifest = a.manifest
  BY <1>1 DEF Fitting, PartsFit
<1>3. \A g \in a.carrier.complete : g \in Ids(m, "assetGroups") /\ Required(m, g) \subseteq held
  BY <1>1 DEF Fitting, PartsFit, ModeHolds
<1>4. IsFiniteSet(Ids(m, "assetGroups"))
  BY <1>1, SchemaAssumption DEF Fitting
<1>5. Needed(m, a.carrier.complete) \subseteq UNION {Required(m, g) : g \in a.carrier.complete}
  <2>1. a.carrier.complete \in SUBSET Ids(m, "assetGroups")
    BY <1>3
  <2> HIDE DEF m
  <2> QED
    BY <1>1, <1>4, <2>1, NeededIsRequired DEF GroupsClosed
<1>6. Needed(m, a.carrier.complete) \subseteq held
  BY <1>3, <1>5
<1>7. ASSUME NEW rid \in Needed(m, a.carrier.complete)
      PROVE  \E k \in DOMAIN a.entries :
               Places(a, rid) = {k} /\ m.realizations[rid].sha256 = {a.entries[k].data}
  <2>1. PICK e \in Range(a.carrier.embedded) : e.realization = rid
    BY <1>6
  <2> QED
    BY <1>1, <2>1, OnePlace
<1>8. ASSUME NEW k \in DOMAIN a.entries
      PROVE  \E rid \in Ids(m, "realizations") : k \in Places(a, rid)
  <2>1. a.entries[k].kind # "dir"
    OBVIOUS
  <2>2. a.entries[k].path \in DOMAIN payload
    BY <1>1, <2>1, EntryIsPayload DEF Fitting
  <2>3. Canonical[a.entries[k].path] \in {Canonical[e.path] : e \in Range(a.carrier.embedded)}
    <3>1. {Canonical[e.path] : e \in Range(a.carrier.embedded)} = {Canonical[p] : p \in DOMAIN payload}
      BY <1>1 DEF Fitting, PartsFit, Closed
    <3> HIDE DEF payload
    <3> QED
      BY <2>2, <3>1
  <2>4. PICK e \in Range(a.carrier.embedded) : Canonical[e.path] = Canonical[a.entries[k].path]
    BY <2>3
  <2>5. e.realization \in Ids(m, "realizations")
    BY <1>1, <2>1, <2>4, MappedBytes
  <2>6. k \in Places(a, e.realization)
    BY <2>4 DEF Places
  <2> QED
    BY <2>5, <2>6
<1> QED
  BY <1>2, <1>7, <1>8 DEF Sealed

(* Whatever editors, other programs and crashes do while either tool packs *)
(* and however often it is tried: an archive that a pack has reported has  *)
(* everything that its complete groups need, however indirectly, once and  *)
(* byte for byte, and nothing that its manifest does not describe.         *)
THEOREM PackedStaysSealed == Spec => []PackedIsSealed
<1>1. PackInv => PackedIsSealed
  <2> SUFFICES ASSUME PackInv, pc = "done" PROVE Sealed(out.archive)
    BY DEF PackedIsSealed
  <2>1. Finished(out.archive) /\ Written
    BY DEF PackInv
  <2>2. \A k \in DOMAIN out.archive.entries : out.archive.entries[k].kind = "file"
    BY <2>1 DEF Written, Rows
  <2> QED
    BY <2>1, <2>2, FinishedIsSealed
<1> QED
  BY <1>1, PackInvariant, PTL

-----------------------------------------------------------------------------
(* The desk.  What a check has found so far holds of the desk as it stands *)
(* as long as it is quiet, because every amendment makes it loud; and what *)
(* has passed holds, because every amendment takes it back.                *)
ReleaseFound ==
  /\ ReleaseFits05(desk.release)
  /\ DocumentFits(desk.manifest)
  /\ ReleaseMatches(desk.release, desk.manifest)

ShelfFound == DOMAIN desk.shelf = DOMAIN Inventory(desk.release)

Agrees(name) ==
  /\ ArchiveFits(desk.shelf[name])
  /\ InventoryMatches(Inventory(desk.release)[name], desk.shelf[name])
  /\ desk.shelf[name].manifest = desk.manifest

ReceiptFound ==
  /\ ReceiptFits(desk.receipt)
  /\ DocumentFits(desk.manifest)
  /\ ReceiptMatches(desk.receipt, desk.manifest)

SourceFound ==
  /\ ArchiveFits(desk.shelf[desk.source])
  /\ SourceMatches(desk.receipt, desk.manifest, desk.shelf[desk.source])

PackFound == PackFits(desk.pack) /\ DocumentFits(desk.manifest) /\ PackMatches(desk.pack, desk.manifest)

Accepted(what) ==
  /\ what = "release" => ReleaseFound /\ ShelfFound /\ \A name \in DOMAIN desk.shelf : Agrees(name)
  /\ what = "receipt" => ReceiptFound /\ SourceFound
  /\ what = "publication" => PublicationFits(desk.release, desk.documents)
  /\ what = "pack" => PackFound

FoundOnShelf ==
  /\ ReleaseFound /\ ShelfFound
  /\ check.held.inventory = Inventory(desk.release) /\ check.held.manifest = desk.manifest
  /\ check.todo \subseteq DOMAIN desk.shelf
  /\ \A name \in DOMAIN desk.shelf \ check.todo :
       (check.pc = "compare" /\ name = check.name) \/ Agrees(name)

Found ==
  /\ check.pc = "reread" => ReleaseFound
  /\ check.pc \in {"validate", "compare"} => FoundOnShelf
  /\ check.pc = "compare" => ArchiveFits(desk.shelf[check.name])
  /\ check.pc \in {"source", "evidence"} =>
       ReceiptFound /\ check.held.manifest = desk.manifest /\ check.held.receipt = desk.receipt
  /\ check.pc = "evidence" => ArchiveFits(desk.shelf[desk.source])
  /\ check.pc = "verdict" => Accepted(check.of)

CheckShape ==
  /\ check.ok \in BOOLEAN /\ check.quiet \in BOOLEAN
  /\ check.pc \in {"reread", "validate", "compare", "source", "evidence", "verdict"}
  /\ check.pc \in {"reread", "validate", "compare"} => check.of = "release"
  /\ check.pc \in {"source", "evidence"} => check.of = "receipt"

DeskInv ==
  /\ check # Idle => CheckShape
  /\ check # Idle /\ check.ok /\ check.quiet => Found
  /\ \A what \in passed : Accepted(what)

LEMMA SameDesk ==
  ASSUME desk' = desk
  PROVE  /\ ReleaseFound' <=> ReleaseFound
         /\ ShelfFound' <=> ShelfFound
         /\ \A name : Agrees(name)' <=> Agrees(name)
         /\ ReceiptFound' <=> ReceiptFound
         /\ SourceFound' <=> SourceFound
         /\ \A what : Accepted(what)' <=> Accepted(what)
<1>1. ReleaseFound' <=> ReleaseFound
  BY DEF ReleaseFound
<1>2. ShelfFound' <=> ShelfFound
  BY DEF ShelfFound
<1>3. \A name : Agrees(name)' <=> Agrees(name)
  BY DEF Agrees
<1>4. ReceiptFound' <=> ReceiptFound
  BY DEF ReceiptFound
<1>5. SourceFound' <=> SourceFound
  BY DEF SourceFound
<1>6. PackFound' <=> PackFound
  BY DEF PackFound
<1>7. \A what : Accepted(what)' <=> Accepted(what)
  BY <1>1, <1>2, <1>3, <1>4, <1>5, <1>6 DEF Accepted
<1> QED
  BY <1>1, <1>2, <1>3, <1>4, <1>5, <1>7

(* A step of a check that is not its verdict.                              *)
LEMMA CheckSteps ==
  ASSUME DeskInv, UNCHANGED <<desk, passed>>, CheckShape', check'.ok /\ check'.quiet => Found'
  PROVE  DeskInv'
BY SameDesk DEF DeskInv

LEMMA Begins ==
  ASSUME DeskInv, NEW what, NEW pc1, NEW ok \in BOOLEAN, NEW held, Begin(what, pc1, ok, held),
         \/ what = "release" /\ pc1 = "reread" /\ (ok => ReleaseFound)
         \/ /\ what = "receipt" /\ pc1 = "source" /\ (ok => ReceiptFound)
            /\ held = [manifest |-> desk.manifest, receipt |-> desk.receipt]
         \/ pc1 = "verdict" /\ (ok => Accepted(what))
  PROVE  DeskInv'
<1>1. check' = [of |-> what, pc |-> pc1, ok |-> ok, quiet |-> TRUE, held |-> held, todo |-> {}, name |-> ""]
  BY DEF Begin
<1>2. UNCHANGED <<desk, passed>>
  BY DEF Begin
<1>3. check'.of = what /\ check'.pc = pc1 /\ check'.held = held /\ check'.quiet = TRUE
  BY <1>1
<1>4. check'.ok = ok
  BY <1>1, Zenon
<1>5. CheckShape'
  BY <1>3, <1>4 DEF CheckShape
<1>6. ok => Found'
  BY <1>2, <1>3, SameDesk DEF Found
<1> QED
  BY <1>2, <1>4, <1>5, <1>6, CheckSteps

LEMMA RereadKeeps == ASSUME DeskInv, RereadRelease PROVE DeskInv'
<1>1. check # Idle /\ CheckShape /\ check.pc = "reread" /\ UNCHANGED <<desk, passed>>
  BY DEF RereadRelease, DeskInv, Idle
<1>2. /\ check'.pc = "validate" /\ check'.of = check.of /\ check'.quiet = check.quiet
      /\ check'.held.inventory = Inventory(desk.release) /\ check'.held.manifest = desk.manifest
      /\ check'.todo = DOMAIN desk.shelf \cap DOMAIN Inventory(desk.release)
  BY DEF RereadRelease
<1>3. check'.ok = (check.ok /\ ShelfFound)
  BY DEF RereadRelease, ShelfFound
<1>4. CheckShape'
  BY <1>1, <1>2, <1>3 DEF CheckShape
<1>5. ASSUME check'.ok, check'.quiet PROVE Found'
  <2>1. ReleaseFound /\ ShelfFound
    BY <1>1, <1>2, <1>3, <1>5 DEF DeskInv, Found
  <2>2. FoundOnShelf'
    BY <1>1, <1>2, <2>1, SameDesk DEF FoundOnShelf, ShelfFound
  <2> QED
    BY <1>2, <2>2 DEF Found
<1> QED
  BY <1>1, <1>4, <1>5, CheckSteps

LEMMA ValidateKeeps == ASSUME DeskInv, ValidateCarrier PROVE DeskInv'
<1>1. check # Idle /\ CheckShape /\ check.pc = "validate" /\ check.of = "release" /\ UNCHANGED <<desk, passed>>
  <2>1. check # Idle /\ check.pc = "validate" /\ UNCHANGED <<desk, passed>>
    <3>1. check.pc = "validate" /\ UNCHANGED <<packVars, desk, passed, amends>>
      BY Zenon DEF ValidateCarrier
    <3> QED
      BY <3>1 DEF Idle
  <2>2. CheckShape
    BY <2>1 DEF DeskInv
  <2>3. check.of = "release"
    BY <2>1, <2>2 DEF CheckShape
  <2> QED
    BY <2>1, <2>2, <2>3
<1>2. CASE check.todo = {} /\ check' = [check EXCEPT !.pc = "verdict"]
  <2>1. /\ check'.pc = "verdict" /\ check'.of = check.of
        /\ check'.quiet = check.quiet /\ check'.ok = check.ok
    BY <1>2
  <2>2. ASSUME check'.ok, check'.quiet PROVE Found'
    <3>1. FoundOnShelf
      BY <1>1, <2>1, <2>2 DEF DeskInv, Found
    <3>2. Accepted("release")
      BY <1>1, <1>2, <3>1 DEF Accepted, FoundOnShelf
    <3> QED
      BY <1>1, <2>1, <3>2, SameDesk DEF Found
  <2> QED
    BY <1>1, <2>1, <2>2, CheckSteps DEF CheckShape
<1>3. ASSUME NEW name \in check.todo,
             check' = [check EXCEPT !.pc = "compare", !.name = name, !.todo = @ \ {name},
                         !.ok = @ /\ ArchiveFits(desk.shelf[name])]
      PROVE  DeskInv'
  <2>1. /\ check'.pc = "compare" /\ check'.of = check.of /\ check'.quiet = check.quiet
        /\ check'.held = check.held /\ check'.todo = check.todo \ {name} /\ check'.name = name
    BY <1>3
  <2>2. check'.ok = (check.ok /\ ArchiveFits(desk.shelf[name]))
    BY <1>3
  <2>3. CheckShape'
    BY <1>1, <2>1, <2>2 DEF CheckShape
  <2>4. ASSUME check'.ok, check'.quiet PROVE Found'
    <3>1. FoundOnShelf /\ ArchiveFits(desk.shelf[name])
      BY <1>1, <2>1, <2>2, <2>4 DEF DeskInv, Found
    <3>2. FoundOnShelf'
      BY <1>1, <2>1, <3>1, SameDesk DEF FoundOnShelf
    <3> QED
      BY <1>1, <2>1, <3>1, <3>2 DEF Found
  <2> QED
    BY <1>1, <2>3, <2>4, CheckSteps
<1> QED
  BY <1>2, <1>3 DEF ValidateCarrier

LEMMA CompareKeeps == ASSUME DeskInv, CompareCarrier PROVE DeskInv'
<1> DEFINE a == desk.shelf[check.name]
<1>1. check # Idle /\ CheckShape /\ check.pc = "compare" /\ UNCHANGED <<desk, passed>>
  BY DEF CompareCarrier, DeskInv, Idle
<1>2. /\ check'.pc = "validate" /\ check'.of = check.of /\ check'.quiet = check.quiet
      /\ check'.held = check.held /\ check'.todo = check.todo
  BY DEF CompareCarrier
<1>3. check'.ok = (check.ok /\ InventoryMatches(check.held.inventory[check.name], a)
                            /\ a.manifest = check.held.manifest)
  BY DEF CompareCarrier
<1>4. CheckShape'
  BY <1>1, <1>2, <1>3 DEF CheckShape
<1>5. ASSUME check'.ok, check'.quiet PROVE Found'
  <2>1. FoundOnShelf /\ ArchiveFits(a)
    BY <1>1, <1>2, <1>3, <1>5 DEF DeskInv, Found
  <2>2. Agrees(check.name)
    BY <1>3, <1>5, <2>1 DEF Agrees, FoundOnShelf
  <2>3. FoundOnShelf'
    BY <1>1, <1>2, <2>1, <2>2, SameDesk DEF FoundOnShelf
  <2> QED
    BY <1>2, <2>3 DEF Found
<1> QED
  BY <1>1, <1>4, <1>5, CheckSteps

LEMMA SourceKeeps == ASSUME DeskInv, ValidateSource PROVE DeskInv'
<1>1. check # Idle /\ CheckShape /\ check.pc = "source" /\ UNCHANGED <<desk, passed>>
  BY DEF ValidateSource, DeskInv, Idle
<1>2. CASE ArchiveFits(desk.shelf[desk.source])
  <2>1. /\ check'.pc = "evidence" /\ check'.of = check.of /\ check'.held = check.held
        /\ check'.quiet = check.quiet /\ check'.ok = check.ok
    BY <1>2 DEF ValidateSource
  <2>2. ASSUME check'.ok, check'.quiet PROVE Found'
    <3>1. ReceiptFound /\ check.held.manifest = desk.manifest /\ check.held.receipt = desk.receipt
      BY <1>1, <2>1, <2>2 DEF DeskInv, Found
    <3> QED
      BY <1>1, <1>2, <2>1, <3>1, SameDesk DEF Found
  <2> QED
    BY <1>1, <2>1, <2>2, CheckSteps DEF CheckShape
<1>3. CASE ~ArchiveFits(desk.shelf[desk.source])
  <2>1. check'.pc = "verdict" /\ check'.of = check.of /\ check'.quiet = check.quiet /\ check'.ok = FALSE
    BY <1>3 DEF ValidateSource
  <2> QED
    BY <1>1, <2>1, CheckSteps DEF CheckShape
<1> QED
  BY <1>2, <1>3

LEMMA EvidenceKeeps == ASSUME DeskInv, CompareSource PROVE DeskInv'
<1> DEFINE match == SourceMatches(check.held.receipt, check.held.manifest, desk.shelf[desk.source])
<1>1. check # Idle /\ CheckShape /\ check.pc = "evidence" /\ UNCHANGED <<desk, passed>>
  BY DEF CompareSource, DeskInv, Idle
<1>2. check.of = "receipt"
  BY <1>1 DEF CheckShape
<1>3. check'.pc = "verdict" /\ check'.of = check.of /\ check'.quiet = check.quiet
  BY DEF CompareSource
<1>4. check'.ok = (check.ok /\ match)
  BY DEF CompareSource
<1>5. CheckShape'
  BY <1>1, <1>3, <1>4 DEF CheckShape
<1>6. ASSUME check'.ok, check'.quiet PROVE Found'
  <2>1. /\ ReceiptFound /\ ArchiveFits(desk.shelf[desk.source])
        /\ check.held.manifest = desk.manifest /\ check.held.receipt = desk.receipt
    BY <1>1, <1>3, <1>4, <1>6 DEF DeskInv, Found
  <2>2. SourceFound
    BY <1>4, <1>6, <2>1 DEF SourceFound
  <2>3. Accepted("receipt")
    BY <2>1, <2>2 DEF Accepted
  <2> QED
    BY <1>1, <1>2, <1>3, <2>3, SameDesk DEF Found
<1> QED
  BY <1>1, <1>5, <1>6, CheckSteps

LEMMA VerdictKeeps == ASSUME DeskInv, Verdict PROVE DeskInv'
<1>1. check # Idle /\ check.pc = "verdict" /\ check' = Idle /\ desk' = desk
  BY DEF Verdict, Idle
<1>2. ASSUME NEW what \in passed' PROVE Accepted(what)
  <2>1. CASE what \in passed
    BY <2>1 DEF DeskInv
  <2>2. CASE what \notin passed
    <3>1. check.ok /\ check.quiet /\ what = check.of
      BY <1>2, <2>2 DEF Verdict
    <3> QED
      BY <1>1, <3>1 DEF DeskInv, Found
  <2> QED
    BY <2>1, <2>2
<1> QED
  BY <1>1, <1>2, SameDesk DEF DeskInv

LEMMA AmendKeeps == ASSUME DeskInv, Amend PROVE DeskInv'
<1>1. passed' = {}
  BY DEF Amend
<1>2. CASE check = Idle
  BY <1>1, <1>2 DEF Amend, DeskInv
<1>3. CASE check # Idle
  <2>1. check' = [check EXCEPT !.quiet = FALSE]
    BY <1>3 DEF Amend
  <2>2. check'.ok = check.ok /\ check'.of = check.of /\ check'.pc = check.pc /\ check'.quiet = FALSE
    BY <2>1
  <2> QED
    BY <1>1, <1>3, <2>2 DEF DeskInv, CheckShape
<1> QED
  BY <1>2, <1>3

LEMMA DeskInvariant == Spec => []DeskInv
<1>1. Init => DeskInv
  BY DEF Init, DeskInv
<1>2. ASSUME DeskInv, [Next]_vars PROVE DeskInv'
  <2>1. CASE UNCHANGED <<desk, check, passed>>
    <3>1. Found' <=> Found
      BY <2>1 DEF Found, FoundOnShelf, ReleaseFound, ShelfFound, Agrees, ReceiptFound, SourceFound,
                  PackFound, Accepted
    <3>2. \A what : Accepted(what)' <=> Accepted(what)
      BY <2>1, SameDesk
    <3> QED
      BY <1>2, <2>1, <3>1, <3>2 DEF DeskInv, CheckShape
  <2>2. CASE Describe
    BY <2>2 DEF Describe, DeskInv
  <2>3. CASE CheckRelease
    <3> DEFINE ok == /\ ReleaseFits05(desk.release)
                     /\ DocumentFits(desk.manifest)
                     /\ ReleaseMatches(desk.release, desk.manifest)
    <3>1. Begin("release", "reread", ok, <<>>) /\ ok \in BOOLEAN /\ (ok => ReleaseFound)
      BY <2>3 DEF CheckRelease, ReleaseFound
    <3> HIDE DEF ok
    <3> QED
      BY <1>2, <3>1, Begins
  <2>4. CASE CheckReceipt
    <3> DEFINE ok == /\ ReceiptFits(desk.receipt)
                     /\ DocumentFits(desk.manifest)
                     /\ ReceiptMatches(desk.receipt, desk.manifest)
               held == [manifest |-> desk.manifest, receipt |-> desk.receipt]
    <3>1. Begin("receipt", "source", ok, held) /\ ok \in BOOLEAN /\ (ok => ReceiptFound)
      BY <2>4 DEF CheckReceipt, ReceiptFound
    <3> HIDE DEF ok
    <3> QED
      BY <1>2, <3>1, Begins
  <2>5. CASE CheckPublication
    <3> DEFINE ok == PublicationFits(desk.release, desk.documents)
    <3>1. Begin("publication", "verdict", ok, <<>>) /\ ok \in BOOLEAN /\ (ok => Accepted("publication"))
      BY <2>5 DEF CheckPublication, Accepted, PublicationFits
    <3> HIDE DEF ok
    <3> QED
      BY <1>2, <3>1, Begins
  <2>6. CASE CheckPack
    <3> DEFINE ok == PackFits(desk.pack) /\ DocumentFits(desk.manifest) /\ PackMatches(desk.pack, desk.manifest)
    <3>1. Begin("pack", "verdict", ok, <<>>) /\ ok \in BOOLEAN /\ (ok => Accepted("pack"))
      BY <2>6 DEF CheckPack, Accepted, PackFound
    <3> HIDE DEF ok
    <3> QED
      BY <1>2, <3>1, Begins
  <2>7. Publish => DeskInv'
    BY <1>2, <2>2, <2>3, <2>4, <2>5, <2>6, AmendKeeps, VerdictKeeps, RereadKeeps, ValidateKeeps,
       CompareKeeps, SourceKeeps, EvidenceKeeps DEF Publish
  <2> QED
    BY <1>2, <2>1, <2>7 DEF Next, vars, deskVars
<1> QED
  BY <1>1, <1>2, PTL DEF Spec

-----------------------------------------------------------------------------
(* Where no two records name a carrier alike, the inventory has every      *)
(* carrier, and each was found as the inventory describes it.              *)
LEMMA CarrierFound ==
  ASSUME Accepted("release"), NamesDiffer, NEW i \in CarrierItems(desk.release)
  PROVE  LET item == Item(desk.release, i) IN
         /\ item.name \in DOMAIN desk.shelf
         /\ InventoryMatches(item, desk.shelf[item.name])
         /\ ArchiveFits(desk.shelf[item.name])
         /\ desk.shelf[item.name].manifest = desk.manifest
<1> DEFINE item == Item(desk.release, i)
           Named == {j \in CarrierItems(desk.release) : Item(desk.release, j).name = item.name}
           After(k, j) == k[1] > j[1] \/ (k[1] = j[1] /\ k[2] > j[2])
           Newest == CHOOSE k \in Named : \A j \in Named \ {k} : After(k, j)
<1>1. Named = {i}
  BY DEF NamesDiffer
<1>2. Newest = i
  <2> HIDE DEF Named, After
  <2> QED
    BY <1>1
<1>3. item.name \in DOMAIN Inventory(desk.release) /\ Inventory(desk.release)[item.name] = Item(desk.release, Newest)
  BY DEF Inventory
<1>4. item.name \in DOMAIN desk.shelf
  BY <1>3 DEF Accepted, ShelfFound
<1>5. Agrees(item.name)
  BY <1>4 DEF Accepted
<1>6. Inventory(desk.release)[item.name] = item
  BY <1>2, <1>3
<1> QED
  BY <1>4, <1>5, <1>6 DEF Agrees

LEMMA RootIsRelated ==
  ASSUME Accepted("release"), Accepted("publication"), NEW k \in DOMAIN desk.release.records \ {1},
         Root(desk.release).zenodo
  PROVE  \E p \in Range(desk.documents) :
           /\ p.record = Root(desk.release).id
           /\ \E relation \in desk.release.records[k].relation :
                /\ <<desk.release.records[k].version, relation>> \in p.related
                /\ \A c \in desk.release.records[k].concept : <<c, relation>> \notin p.related
<1> DEFINE records == desk.release.records
<1>1. 1 \in DOMAIN records /\ records[k].relation # {}
  BY DEF Accepted, ReleaseFound, ReleaseFits05, ReleaseFits03
<1>2. PublicationFits(desk.release, desk.documents)
  BY DEF Accepted
<1>3. records[1].id \in {d.record : d \in Range(desk.documents)}
  BY <1>1, <1>2 DEF PublicationFits, ZenodoRecords, Root
<1>4. PICK p \in Range(desk.documents) : p.record = records[1].id
  BY <1>3
<1>5. p \in DocumentOf(desk.release, desk.documents, 1)
  BY <1>4 DEF DocumentOf
<1>6. \A relation \in records[k].relation :
        /\ <<records[k].version, relation>> \in p.related
        /\ \A c \in records[k].concept : <<c, relation>> \notin p.related
  BY <1>2, <1>5 DEF PublicationFits, RelationsFit
<1> QED
  BY <1>1, <1>4, <1>6 DEF Root

(* For any descriptors, carriers and amendments while checks are running:  *)
(* once a release and its carriers have been accepted as they stand, every *)
(* distribution in a carrier leads to one carrier, which is the one that   *)
(* was described, in a version that the metadata of the root lead to.      *)
THEOREM ReleaseStaysClosed == Spec => []ReleaseIsClosed
<1>1. ASSUME DeskInv, "release" \in passed, NamesDiffer, NEW d \in CarrierMembers
      PROVE  \E i \in CarrierItems(desk.release) :
               LET item == Item(desk.release, i)
                   record == desk.release.records[i[1]]
               IN  /\ {j \in CarrierItems(desk.release) : Item(desk.release, j).carrierId \in d.carrierId} = {i}
                   /\ desk.shelf[item.name] = item.bytes
                   /\ item.bytes.manifest = desk.manifest /\ item.bytes.carrier.id = item.carrierId
                   /\ record.version \in d.persistentIdentifier
                   /\ "publication" \in passed /\ Root(desk.release).zenodo /\ i[1] # 1 =>
                        \E p \in Range(desk.documents) :
                          /\ p.record = Root(desk.release).id
                          /\ \E relation \in record.relation :
                               /\ <<record.version, relation>> \in p.related
                               /\ \A c \in record.concept : <<c, relation>> \notin p.related
  <2>1. Accepted("release")
    BY <1>1 DEF DeskInv
  <2>2. /\ ReleaseMatches(desk.release, desk.manifest)
        /\ CarriersUnique(desk.release)
        /\ desk.manifest \in Documents
    BY <2>1 DEF Accepted, ReleaseFound, ReleaseFits05, DocumentFits
  <2>3. d \in Holds(Parsed[desk.manifest], "distributions") /\ d.kind = {"carrier-member"}
    BY <1>1 DEF CarrierMembers
  <2>4. Location(d) \in Locations(desk.release)
    BY <2>2, <2>3 DEF ReleaseMatches
  <2>5. PICK i \in CarrierItems(desk.release) :
          /\ Val(d, "carrierId") = Item(desk.release, i).carrierId
          /\ Val(d, "persistentIdentifier") = desk.release.records[i[1]].version
    BY <2>4 DEF Location, Locations
  <2>6. One(d.carrierId) /\ One(d.persistentIdentifier)
    BY <2>2, <2>3, SchemaAssumption
  <2>7. /\ d.carrierId = {Item(desk.release, i).carrierId}
        /\ desk.release.records[i[1]].version \in d.persistentIdentifier
    BY <2>5, <2>6 DEF One, Val
  <2>8. {j \in CarrierItems(desk.release) : Item(desk.release, j).carrierId \in d.carrierId} = {i}
    BY <2>2, <2>7 DEF CarriersUnique
  <2>9. InventoryMatches(Item(desk.release, i), desk.shelf[Item(desk.release, i).name])
        /\ desk.shelf[Item(desk.release, i).name].manifest = desk.manifest
    BY <1>1, <2>1, CarrierFound
  <2>10. i[1] \in DOMAIN desk.release.records
    BY DEF CarrierItems, Items
  <2>11. ASSUME "publication" \in passed, Root(desk.release).zenodo, i[1] # 1
         PROVE  \E p \in Range(desk.documents) :
                  /\ p.record = Root(desk.release).id
                  /\ \E relation \in desk.release.records[i[1]].relation :
                       /\ <<desk.release.records[i[1]].version, relation>> \in p.related
                       /\ \A c \in desk.release.records[i[1]].concept : <<c, relation>> \notin p.related
    <3>1. Accepted("publication")
      BY <1>1, <2>11 DEF DeskInv
    <3> QED
      BY <2>1, <2>10, <2>11, <3>1, RootIsRelated
  <2> QED
    BY <2>7, <2>8, <2>9, <2>11 DEF InventoryMatches
<1>2. DeskInv => ReleaseIsClosed
  BY <1>1 DEF ReleaseIsClosed
<1> QED
  BY <1>2, DeskInvariant, PTL

-----------------------------------------------------------------------------
(* The bytes that a carrier has for a realization are the realization's:   *)
(* a directory cannot stand in the place of a mapping either.              *)
LEMMA HeldBytes ==
  ASSUME NEW a, ArchiveFits(a), NEW rid, NEW data \in In(a, rid)
  PROVE  Parsed[a.manifest].realizations[rid].sha256 = {data}
<1> DEFINE m == Parsed[a.manifest]
           payload == PayloadIn(a.entries)
<1>1. Fitting(a)
  BY DEF ArchiveFits, CarrierFits, Fitting
<1>2. PICK k \in Places(a, rid) : data = a.entries[k].data
  BY DEF In
<1>3. PICK e \in Range(a.carrier.embedded) :
        e.realization = rid /\ Canonical[e.path] = Canonical[a.entries[k].path]
  BY DEF Places
<1>4. k \in DOMAIN a.entries
  BY DEF Places
<1>5. a.entries[k].kind # "dir"
  <2>1. PICK j \in DOMAIN a.carrier.embedded : a.carrier.embedded[j] = e
    BY DEF Range
  <2>2. MappingHolds(m, payload, e)
    BY <1>1, <2>1 DEF Fitting, PartsFit
  <2>3. PICK p \in DOMAIN payload : Canonical[p] = Canonical[e.path]
    <3> HIDE DEF payload
    <3> QED
      BY <2>2 DEF MappingHolds, Embedded
  <2>4. PICK l \in DOMAIN a.entries : a.entries[l].kind # "dir" /\ a.entries[l].path = p
    BY PayloadIsEntry
  <2>5. a.entries[k].path \in Paths /\ a.entries[l].path \in Paths
    BY <1>4, CarrierAssumption DEF ArchiveFits, Range
  <2>6. Portable[a.entries[k].path] = Portable[a.entries[l].path]
    BY <1>3, <2>3, <2>4, <2>5, CarrierAssumption
  <2>7. k = l
    BY <1>4, <2>6 DEF ArchiveFits, IsInjective
  <2> QED
    BY <2>4, <2>7
<1> QED
  BY <1>1, <1>2, <1>3, <1>4, <1>5, MappedBytes

(* So is whatever else an accepted desk offers for it.                     *)
LEMMA OfferedBytes ==
  ASSUME DeskInv, NEW rid \in Ids(Parsed[desk.manifest], "realizations"), NEW x \in Offers(rid)
  PROVE  Parsed[desk.manifest].realizations[rid].sha256 = {x}
<1> DEFINE m == Parsed[desk.manifest]
<1>1. ASSUME "release" \in passed, NamesDiffer, NEW i \in CarrierItems(desk.release),
             x \in In(Item(desk.release, i).bytes, rid)
      PROVE  m.realizations[rid].sha256 = {x}
  <2> DEFINE a == desk.shelf[Item(desk.release, i).name]
  <2>1. Accepted("release")
    BY <1>1 DEF DeskInv
  <2>2. Item(desk.release, i).bytes = a /\ ArchiveFits(a) /\ a.manifest = desk.manifest
    BY <1>1, <2>1, CarrierFound DEF InventoryMatches
  <2> QED
    BY <1>1, <2>2, HeldBytes
<1>2. ASSUME "pack" \in passed, NEW e \in Range(desk.pack.members), e.realization = rid, x = e.bytes
      PROVE  m.realizations[rid].sha256 = {x}
  <2>1. PackMatches(desk.pack, desk.manifest)
    BY <1>2 DEF DeskInv, Accepted, PackFound
  <2> QED
    BY <1>2, <2>1 DEF PackMatches
<1>3. ASSUME "receipt" \in passed, x \in In(desk.shelf[desk.source], rid)
      PROVE  m.realizations[rid].sha256 = {x}
  <2> DEFINE a == desk.shelf[desk.source]
  <2>1. ArchiveFits(a) /\ SourceMatches(desk.receipt, desk.manifest, a)
    BY <1>3 DEF DeskInv, Accepted, SourceFound
  <2>2. a.manifest = desk.manifest
    BY <2>1 DEF ArchiveFits, CarrierFits, PartsFit, SourceMatches
  <2> QED
    BY <1>3, <2>1, <2>2, HeldBytes
<1>4. ASSUME "receipt" \in passed, NEW y \in Range(desk.receipt.acquisitions),
             y.status = "verified", y.realization = rid, x \in y.observed
      PROVE  m.realizations[rid].sha256 = {x}
  <2>1. ReceiptMatches(desk.receipt, desk.manifest) /\ desk.manifest \in Documents
    BY <1>4 DEF DeskInv, Accepted, ReceiptFound, DocumentFits
  <2>2. y.observed = m.realizations[rid].sha256
    BY <1>4, <2>1 DEF ReceiptMatches, AcquisitionMatches
  <2>3. m.realizations[rid] \in Holds(m, "realizations")
    BY DEF Ids, Reg, Holds
  <2>4. One(m.realizations[rid].sha256)
    BY <2>1, <2>3, SchemaAssumption
  <2> QED
    BY <1>4, <2>2, <2>4 DEF One
<1> DEFINE listed == IF "release" \in passed /\ NamesDiffer THEN CarrierItems(desk.release) ELSE {}
           carried == UNION {In(Item(desk.release, i).bytes, rid) : i \in listed}
           packed == {e.bytes : e \in {d \in Range(desk.pack.members) : "pack" \in passed /\ d.realization = rid}}
           fetched == {y \in Range(desk.receipt.acquisitions) : y.status = "verified" /\ y.realization = rid}
           evidence == UNION {y.observed : y \in fetched}
           sourced == IF "receipt" \in passed THEN In(desk.shelf[desk.source], rid) \cup evidence ELSE {}
<1>5. x \in carried \cup packed \cup sourced
  BY DEF Offers
<1>6. CASE x \in carried
  <2>1. PICK i \in listed : x \in In(Item(desk.release, i).bytes, rid)
    BY <1>6
  <2> QED
    BY <1>1, <2>1
<1>7. CASE x \in packed
  BY <1>2, <1>7
<1>8. CASE x \in sourced
  <2>1. "receipt" \in passed /\ (x \in In(desk.shelf[desk.source], rid) \/ x \in evidence)
    BY <1>8
  <2>2. ASSUME x \in evidence PROVE \E y \in fetched : x \in y.observed
    BY <2>2
  <2> QED
    BY <1>3, <1>4, <2>1, <2>2
<1> QED
  BY <1>5, <1>6, <1>7, <1>8

(* Whatever is amended and in whatever order the checks are run: all that  *)
(* have been accepted for one manifest offer the same bytes for any one of *)
(* its realizations.                                                       *)
THEOREM BytesStayOne == Spec => []BytesAgree
<1>1. ASSUME DeskInv, NEW rid \in Ids(Parsed[desk.manifest], "realizations")
      PROVE  Cardinality(Offers(rid)) <= 1
  <2>1. CASE Offers(rid) = {}
    BY <2>1, FS_EmptySet
  <2>2. ASSUME NEW x \in Offers(rid) PROVE Cardinality(Offers(rid)) <= 1
    <3>1. \A y \in Offers(rid) : y = x
      <4> SUFFICES ASSUME NEW y \in Offers(rid) PROVE y = x
        OBVIOUS
      <4>1. {y} = {x}
        BY <1>1, OfferedBytes
      <4> QED
        BY <4>1
    <3>2. Offers(rid) = {x}
      BY <3>1
    <3>3. Cardinality({x}) = 1
      BY FS_Singleton
    <3> QED
      BY <3>2, <3>3
  <2> QED
    BY <2>1, <2>2
<1>2. DeskInv => BytesAgree
  BY <1>1 DEF BytesAgree
<1> QED
  BY <1>2, DeskInvariant, PTL

-----------------------------------------------------------------------------
(* What an accepted manifest may be relied on for (Authoring).  A draft    *)
(* has the form that the schema demands, an edit and a migration keep it,  *)
(* and whatever is reported valid satisfies the rules; the rest is what    *)
(* follows from the rules.                                                 *)
LEMMA FieldsFit ==
  ASSUME NEW g, NEW r, RecordFits(g, r), NEW f, NEW v, FieldFits(g, f, v)
  PROVE  RecordFits(g, With(r, f, v))
BY DEF RecordFits, With

LEMMA EditFits ==
  ASSUME NEW m, SchemaFits(m), NEW g, NEW id \in Ids(m, g), NEW f, NEW v, FieldFits(g, f, v)
  PROVE  SchemaFits([m EXCEPT ![g][id] = With(@, f, v)])
<1> DEFINE w == [m EXCEPT ![g][id] = With(@, f, v)]
<1>1. g \in DOMAIN m /\ id \in DOMAIN m[g]
  BY DEF Ids, Reg
<1>2. DOMAIN w = DOMAIN m /\ \A h \in DOMAIN m : DOMAIN w[h] = DOMAIN m[h]
  OBVIOUS
<1>3. \A h \in DOMAIN m : \A x \in DOMAIN m[h] :
        w[h][x] = IF h = g /\ x = id THEN With(m[g][id], f, v) ELSE m[h][x]
  BY <1>1
<1> HIDE DEF w
<1>4. \A h : Ids(w, h) = Ids(m, h)
  BY <1>2 DEF Ids, Reg
<1>5. ASSUME NEW h \in DOMAIN m, NEW x \in DOMAIN m[h] PROVE RecordFits(h, w[h][x])
  <2>1. RecordFits(h, m[h][x])
    BY DEF SchemaFits
  <2> QED
    BY <1>3, <2>1, FieldsFit
<1>6. SchemaFits(w)
  BY <1>2, <1>4, <1>5 DEF SchemaFits
<1> QED
  BY <1>6 DEF w

(* Two records that fit, one laid over the other.                          *)
LEMMA OverFits ==
  ASSUME NEW g, NEW r, NEW s, \A f \in DOMAIN r : FieldFits(g, f, r[f]), \A f \in DOMAIN s : FieldFits(g, f, s[f]),
         \A row \in RequiredFields : row[1] = g => row[2] \in DOMAIN r \cup DOMAIN s
  PROVE  RecordFits(g, Over(r, s))
BY DEF RecordFits, Over

LEMMA ModifiedIsTime == ASSUME NEW m, SchemaFits(m) PROVE Modified(m) \in Int /\ RecordFits("object", Object(m))
<1> DEFINE id == CHOOSE x \in Ids(m, "object") : TRUE
<1>1. Ids(m, "object") = DOMAIN m.object /\ DOMAIN m.object # {}
  BY DEF SchemaFits, Ids, Reg
<1>2. id \in DOMAIN m.object
  BY <1>1
<1>3. RecordFits("object", m.object[id])
  BY <1>2 DEF SchemaFits
<1>4. Object(m) = m.object[id]
  BY DEF Object
<1> HIDE DEF id
<1>5. <<"object", "modifiedAt">> \in RequiredFields
  BY DEF RequiredFields
<1>6. "modifiedAt" \in DOMAIN m.object[id]
  BY <1>3, <1>5 DEF RecordFits
<1>7. FieldFits("object", "modifiedAt", m.object[id].modifiedAt)
  BY <1>3, <1>6 DEF RecordFits
<1>8. m.object[id].modifiedAt \subseteq Int /\ m.object[id].modifiedAt # {}
  BY <1>5, <1>7 DEF FieldFits, Times
<1> QED
  BY <1>3, <1>4, <1>8 DEF Modified, Val

(* An activity that has been made from a paradatum has both its times.     *)
LEMMA PromotedFits ==
  ASSUME NEW m, SchemaFits(m), NEW r, RecordFits("paradata", r)
  PROVE  RecordFits("activities", Promoted(m, r))
<1> DEFINE started == IF Has(r, "startedAt") THEN r.startedAt ELSE {Modified(m)}
           ended == IF Has(r, "endedAt") THEN r.endedAt ELSE started
           new == [startedAt |-> started,
            endedAt   |-> ended,
            agentIds  |-> IF Has(r, "softwareEnvironmentId") THEN r.softwareAgentId ELSE {"migrator"},
            inputIds  |-> At(r, "inputIds") \cap Kept(m),
            outputIds |-> At(r, "outputIds") \cap Kept(m)]
           old == Only(r, {"activityKind", "protocolId", "softwareEnvironmentId"})
<1>1. \A f \in {"startedAt", "endedAt"} : Has(r, f) => r[f] \subseteq Int /\ r[f] # {} /\ \A s, t \in r[f] : s = t
  BY DEF RecordFits, FieldFits, Times, Has, At
<1>2. started \subseteq Int /\ started # {} /\ \A s, t \in started : s = t
  BY <1>1, ModifiedIsTime
<1>3. ended \subseteq Int /\ ended # {} /\ \A s, t \in ended : s = t
  BY <1>1, <1>2
<1> HIDE DEF started, ended
<1>4. DOMAIN new = {"startedAt", "endedAt", "agentIds", "inputIds", "outputIds"}
  OBVIOUS
<1>5. \A f \in DOMAIN new : FieldFits("activities", f, new[f])
  <2>1. FieldFits("activities", "startedAt", new.startedAt) /\ FieldFits("activities", "endedAt", new.endedAt)
    BY <1>2, <1>3 DEF FieldFits
  <2>2. \A f \in {"agentIds", "inputIds", "outputIds"} : FieldFits("activities", f, new[f])
    BY DEF FieldFits, Times
  <2> HIDE DEF new
  <2> QED
    BY <1>4, <2>1, <2>2
<1>6. \A f \in DOMAIN old : FieldFits("activities", f, old[f])
  BY DEF Only, FieldFits, Times
<1>7. \A row \in RequiredFields : row[1] = "activities" => row[2] \in DOMAIN new
  BY <1>4 DEF RequiredFields
<1>8. Promoted(m, r) = Over(new, old)
  BY DEF Promoted, started, ended
<1> HIDE DEF new, old
<1> QED
  BY <1>5, <1>6, <1>7, <1>8, OverFits

(* The registries that a migration writes, and what it writes there.       *)
New(m) ==
  [object       |-> [id \in Ids(m, "object") |-> MigratedObject(m)],
   profiles     |-> MigratedProfiles(m),
   realizations |-> [id \in Ids(m, "realizations") |-> MigratedRealization(m, id)],
   poses        |-> [id \in Ids(m, "poses") |-> MigratedPose(m, m.poses[id])],
   renderConfigurations |->
     [id \in Ids(m, "renderConfigurations") |-> MigratedConfiguration(m, m.renderConfigurations[id])],
   activities   |-> Over([id \in Ids(m, "paradata") |-> Promoted(m, m.paradata[id])],
                         [migration |-> MigrationActivity(m)]),
   agents       |-> With(Declared03(m, "softwareAgentId", [agentKind |-> {"software-agent"}]),
                         "migrator", [agentKind |-> {"software-agent"}]),
   protocols    |-> With(Declared03(m, "protocolId", <<>>), "migration-protocol", <<>>),
   softwareEnvironments |->
     With(Declared03(m, "softwareEnvironmentId", [scope |-> {"declaration"}]), "reference-tool", Software)]

Renewed == {"object", "profiles", "realizations", "poses", "renderConfigurations", "activities",
            "agents", "protocols", "softwareEnvironments"}

LEMMA MigratedIs ==
  ASSUME NEW m
  PROVE  LET d == Migrated(m) IN
         /\ \A g \in Renewed : g \in DOMAIN d /\ d[g] = New(m)[g]
         /\ \A g \in DOMAIN d \ Renewed : g \in DOMAIN m /\ d[g] = m[g]
         /\ {"object", "profiles"} \subseteq DOMAIN d
<1> DEFINE rest == Without(m, {"paradata", "analyses", "profiles", "object", "realizations", "poses",
                            "renderConfigurations"})
<1>1. Migrated(m) = Over(New(m), rest)
  BY DEF Migrated, New
<1>2. DOMAIN New(m) = Renewed
  BY DEF New, Renewed
<1>3. DOMAIN rest \subseteq DOMAIN m /\ \A g \in DOMAIN rest : rest[g] = m[g]
  BY DEF Without
<1> HIDE DEF rest
<1> QED
  BY <1>1, <1>2, <1>3 DEF Over, Renewed

(* Records without times and segments, of registries that require nothing. *)
LEMMA PlainFits ==
  ASSUME NEW g \in {"agents", "protocols", "softwareEnvironments", "profiles"}, NEW r,
         DOMAIN r \subseteq {"agentKind", "scope", "sources", "locks", "runtime", "requiredCapabilities"}
  PROVE  RecordFits(g, r)
BY DEF RecordFits, RequiredFields, FieldFits, Times

(* A record whose trajectory is named anew.                                *)
LEMMA FollowingFits ==
  ASSUME NEW m, NEW r, NEW g \in {"poses", "renderConfigurations"}, NEW legacy, RecordFits(g, r),
         NEW field \in {"trajectoryRealizationId", "listenerTrajectoryId"}
  PROVE  RecordFits(g, Following(m, r, legacy, field))
<1> DEFINE found == Candidates(m, r[legacy])
           rest == Without(r, {legacy})
<1>1. FieldFits(g, field, found)
  BY DEF FieldFits, Times
<1>2. RecordFits(g, rest)
  BY DEF RecordFits, Without, RequiredFields
<1> HIDE DEF found
<1>3. RecordFits(g, With(rest, field, found))
  <2> HIDE DEF rest
  <2> QED
    BY <1>1, <1>2, FieldsFit
<1> QED
  BY <1>3 DEF Following, found

LEMMA MigratedFits == ASSUME NEW m, SchemaFits(m) PROVE SchemaFits(Migrated(m))
<1> DEFINE d == Migrated(m)
<1>1. /\ \A g \in Renewed : g \in DOMAIN d /\ d[g] = New(m)[g]
      /\ \A g \in DOMAIN d \ Renewed : g \in DOMAIN m /\ d[g] = m[g]
      /\ {"object", "profiles"} \subseteq DOMAIN d
  BY MigratedIs
<1> HIDE DEF d
<1>2. DOMAIN d.object # {} /\ \A id \in DOMAIN d.object : RecordFits("object", d.object[id])
  <2>1. d.object = [id \in Ids(m, "object") |-> MigratedObject(m)]
    BY <1>1 DEF New, Renewed
  <2>2. Ids(m, "object") # {}
    BY DEF SchemaFits, Ids, Reg
  <2>3. RecordFits("object", MigratedObject(m))
    <3> DEFINE claims == Object(m).conformsTo \cup IF "scientific" \in Ids(m, "profiles") THEN {} ELSE {"scientific"}
    <3>1. FieldFits("object", "conformsTo", claims) /\ FieldFits("object", "creatorAgentIds", {"migrator"})
      BY DEF FieldFits, Times
    <3>2. MigratedObject(m) = With(With(Object(m), "conformsTo", claims), "creatorAgentIds", {"migrator"})
      BY DEF MigratedObject
    <3> HIDE DEF claims
    <3> QED
      BY <3>1, <3>2, FieldsFit, ModifiedIsTime
  <2> QED
    BY <2>1, <2>2, <2>3
<1>3. ASSUME NEW id \in DOMAIN d.profiles PROVE RecordFits("profiles", d.profiles[id])
  <2>1. d.profiles = Over(m.profiles, [scientific |-> [requiredCapabilities |-> {"typed-scientific-provenance"}]])
    BY <1>1 DEF New, Renewed, MigratedProfiles
  <2>2. CASE id \in DOMAIN m.profiles
    BY <2>1, <2>2 DEF SchemaFits, Over
  <2>3. CASE id \notin DOMAIN m.profiles
    <3>1. d.profiles[id] = [requiredCapabilities |-> {"typed-scientific-provenance"}]
      BY <1>3, <2>1, <2>3 DEF Over
    <3> QED
      BY <3>1, PlainFits
  <2> QED
    BY <2>2, <2>3
<1>4. ASSUME NEW id \in DOMAIN d.realizations PROVE RecordFits("realizations", d.realizations[id])
  <2>1. d.realizations = [x \in Ids(m, "realizations") |-> MigratedRealization(m, x)]
    BY <1>1 DEF New, Renewed
  <2>2. id \in Ids(m, "realizations") /\ RecordFits("realizations", m.realizations[id])
    BY <1>4, <2>1 DEF Ids, Reg, SchemaFits
  <2>3. /\ FieldFits("realizations", "provenanceIds", Inherited(m, id))
        /\ FieldFits("realizations", "provenanceIds", {"migration"})
        /\ FieldFits("realizations", "representationStatus", {"undetermined"})
    BY DEF FieldFits, Times
  <2>4. RecordFits("realizations", MigratedRealization(m, id))
    <3> DEFINE r == m.realizations[id]
               heir == With(r, "provenanceIds", Inherited(m, id))
               fresh == With(With(r, "provenanceIds", {"migration"}), "representationStatus", {"undetermined"})
    <3>1. RecordFits("realizations", heir)
      BY <2>2, <2>3, FieldsFit
    <3>2. RecordFits("realizations", fresh)
      BY <2>2, <2>3, FieldsFit
    <3>3. ASSUME NEW x, RecordFits("realizations", x) PROVE RecordFits("realizations", Digested(x))
      <4>1. FieldFits("realizations", "contentDigests", {"sha256"} \X At(x, "sha256"))
        BY DEF FieldFits, Times
      <4> QED
        BY <3>3, <4>1, FieldsFit DEF Digested
    <3>4. MigratedRealization(m, id) = Digested(IF Inherited(m, id) # {} THEN heir ELSE fresh)
      BY DEF MigratedRealization
    <3> HIDE DEF heir, fresh
    <3> QED
      BY <3>1, <3>2, <3>3, <3>4
  <2> QED
    BY <2>1, <2>2, <2>4
<1>5. ASSUME NEW id \in DOMAIN d.poses PROVE RecordFits("poses", d.poses[id])
  <2>1. d.poses = [x \in Ids(m, "poses") |-> MigratedPose(m, m.poses[x])]
    BY <1>1 DEF New, Renewed
  <2>2. id \in Ids(m, "poses") /\ RecordFits("poses", m.poses[id])
    BY <1>5, <2>1 DEF Ids, Reg, SchemaFits
  <2>3. RecordFits("poses", MigratedPose(m, m.poses[id]))
    BY <2>2, FollowingFits DEF MigratedPose
  <2> QED
    BY <2>1, <2>2, <2>3
<1>10. ASSUME NEW id \in DOMAIN d.renderConfigurations
       PROVE RecordFits("renderConfigurations", d.renderConfigurations[id])
  <2>1. d.renderConfigurations =
          [x \in Ids(m, "renderConfigurations") |-> MigratedConfiguration(m, m.renderConfigurations[x])]
    BY <1>1 DEF New, Renewed
  <2>2. id \in Ids(m, "renderConfigurations") /\ RecordFits("renderConfigurations", m.renderConfigurations[id])
    BY <1>10, <2>1 DEF Ids, Reg, SchemaFits
  <2>3. RecordFits("renderConfigurations", MigratedConfiguration(m, m.renderConfigurations[id]))
    BY <2>2, FollowingFits DEF MigratedConfiguration
  <2> QED
    BY <2>1, <2>2, <2>3
<1>6. /\ IsFiniteSet(Ids(d, "activities"))
      /\ \A id \in DOMAIN d.activities : RecordFits("activities", d.activities[id])
  <2> DEFINE old == [id \in Ids(m, "paradata") |-> Promoted(m, m.paradata[id])]
             more == [migration |-> MigrationActivity(m)]
  <2>1. "activities" \in DOMAIN d /\ d.activities = Over(old, more)
    BY <1>1 DEF New, Renewed
  <2>2. DOMAIN d.activities = Ids(m, "paradata") \cup {"migration"}
    BY <2>1 DEF Over
  <2>3. IsFiniteSet(Ids(d, "activities"))
    <3>1. Ids(d, "activities") = Ids(m, "paradata") \cup {"migration"}
      BY <2>1, <2>2 DEF Ids, Reg
    <3> QED
      BY <3>1, FS_AddElement DEF SchemaFits
  <2>4. ASSUME NEW id \in Ids(m, "paradata") PROVE RecordFits("activities", d.activities[id])
    <3>1. RecordFits("paradata", m.paradata[id])
      BY <2>4 DEF SchemaFits, Ids, Reg
    <3>2. d.activities[id] = Promoted(m, m.paradata[id])
      BY <2>1, <2>4 DEF Over
    <3> QED
      BY <3>1, <3>2, PromotedFits
  <2>5. RecordFits("activities", MigrationActivity(m))
    <3>1. Modified(m) \in Int
      BY ModifiedIsTime
    <3>2. DOMAIN MigrationActivity(m) = {"activityKind", "startedAt", "endedAt", "agentIds", "protocolId",
                                         "softwareEnvironmentId", "inputIds", "outputIds"}
      BY DEF MigrationActivity
    <3>3. FieldFits("activities", "startedAt", {Modified(m)}) /\ FieldFits("activities", "endedAt", {Modified(m)})
      BY <3>1 DEF FieldFits
    <3>4. MigrationActivity(m).startedAt = {Modified(m)} /\ MigrationActivity(m).endedAt = {Modified(m)}
      BY DEF MigrationActivity
    <3>5. \A f \in DOMAIN MigrationActivity(m) \ {"startedAt", "endedAt"} : FieldFits("activities", f, MigrationActivity(m)[f])
      BY <3>2 DEF FieldFits, Times
    <3> QED
      BY <3>2, <3>3, <3>4, <3>5 DEF RecordFits, RequiredFields
  <2>6. ASSUME NEW id \in DOMAIN d.activities, id \notin Ids(m, "paradata") PROVE d.activities[id] = MigrationActivity(m)
    BY <2>1, <2>2, <2>6 DEF Over
  <2> QED
    BY <2>3, <2>4, <2>5, <2>6
<1>7. ASSUME NEW g \in {"agents", "protocols", "softwareEnvironments"}, NEW id \in DOMAIN d[g] PROVE RecordFits(g, d[g][id])
  <2> DEFINE r == d[g][id]
  <2>1. d[g] = New(m)[g]
    BY <1>1, <1>7 DEF Renewed
  <2>2. ASSUME NEW f, NEW x, NEW k, NEW y, d[g] = With(Declared03(m, f, x), k, y) PROVE r = x \/ r = y
    BY <1>7, <2>2 DEF With, Declared03
  <2>3. \/ \E x, k, y : /\ d[g] = With(Declared03(m, "softwareAgentId", x), k, y)
                         /\ x = [agentKind |-> {"software-agent"}] /\ y = [agentKind |-> {"software-agent"}]
        \/ \E x, k, y : d[g] = With(Declared03(m, "protocolId", x), k, y) /\ x = <<>> /\ y = <<>>
        \/ \E x, k, y : /\ d[g] = With(Declared03(m, "softwareEnvironmentId", x), k, y)
                         /\ x = [scope |-> {"declaration"}] /\ y = Software
    BY <1>7, <2>1 DEF New
  <2>4. r \in {[agentKind |-> {"software-agent"}], <<>>, [scope |-> {"declaration"}], Software}
    BY <2>2, <2>3
  <2>5. DOMAIN r \subseteq {"agentKind", "scope", "sources", "locks", "runtime", "requiredCapabilities"}
    BY <2>4 DEF Software
  <2> QED
    BY <2>5, PlainFits
<1>8. ASSUME NEW g \in DOMAIN d, NEW id \in DOMAIN d[g] PROVE RecordFits(g, d[g][id])
  <2>1. CASE g \in Renewed
    BY <1>2, <1>3, <1>4, <1>5, <1>6, <1>7, <1>8, <1>10, <2>1 DEF Renewed
  <2>2. CASE g \notin Renewed
    BY <1>1, <1>8, <2>2 DEF SchemaFits
  <2> QED
    BY <2>1, <2>2
<1>9. IsFiniteSet(Ids(d, "paradata"))
  <2>1. Ids(d, "paradata") \in {{}, Ids(m, "paradata")}
    BY <1>1 DEF Ids, Reg, Renewed
  <2> QED
    BY <2>1, FS_EmptySet DEF SchemaFits
<1> QED
  BY <1>1, <1>2, <1>6, <1>8, <1>9 DEF SchemaFits, d

(* What has been accepted is what the rules hold of, and what has been     *)
(* migrated is the migration of its origin, ...                            *)
DraftInv ==
  /\ SchemaFits(doc)
  /\ report = "valid" => AcceptedAs(format, doc)
  /\ origin # NoOrigin => SchemaFits(origin) /\ doc = Migrated(origin)

LEMMA DraftInvariant == DraftSpec => []DraftInv
<1>1. DraftInit => DraftInv
  BY AuthoringAssumption DEF DraftInit, DraftInv
<1>2. ASSUME DraftInv, [DraftNext]_draftVars PROVE DraftInv'
  <2>1. ASSUME NEW e \in Edits, Edit(e) PROVE DraftInv'
    <3>1. SchemaFits(doc')
      BY <2>1, <1>2, EditFits, AuthoringAssumption DEF Edit, DraftInv
    <3> QED
      BY <2>1, <3>1 DEF Edit, DraftInv
  <2>2. CASE Validate
    BY <1>2, <2>2 DEF Validate, DraftInv
  <2>3. CASE Migrate
    BY <1>2, <2>3, MigratedFits DEF Migrate, DraftInv, AcceptedAs
  <2>4. CASE UNCHANGED draftVars
    BY <1>2, <2>4 DEF draftVars, DraftInv
  <2> QED
    BY <1>2, <2>1, <2>2, <2>3, <2>4 DEF DraftNext
<1> QED
  BY <1>1, <1>2, PTL DEF DraftSpec

LEMMA ValidFits == ASSUME DraftInv, Valid PROVE ManifestFits(doc) /\ SchemaFits(doc)
BY DEF DraftInv, Valid, AcceptedAs

(* ... so that a migration invents no provenance, whatever is migrated.    *)
THEOREM MigrationsInventNothing == DraftSpec => []MigrationInventsNothing
<1>1. ASSUME DraftInv, origin # NoOrigin PROVE MigrationInventsNothing
  <2> DEFINE m == origin
  <2>1. SchemaFits(m) /\ doc = Migrated(m)
    BY <1>1 DEF DraftInv
  <2> HIDE DEF m
  <2>2. /\ "realizations" \in DOMAIN doc /\ "activities" \in DOMAIN doc
        /\ doc.realizations = [id \in Ids(m, "realizations") |-> MigratedRealization(m, id)]
        /\ doc.activities = Over([id \in Ids(m, "paradata") |-> Promoted(m, m.paradata[id])],
                                 [migration |-> MigrationActivity(m)])
    BY <2>1, MigratedIs DEF New, Renewed
  <2>3. \A p \in Ids(m, "paradata") : /\ Promoted(m, m.paradata[p]).inputIds \subseteq At(m.paradata[p], "inputIds")
                                      /\ Promoted(m, m.paradata[p]).outputIds \subseteq At(m.paradata[p], "outputIds")
    <3> TAKE p \in Ids(m, "paradata")
    <3>1. /\ Promoted(m, m.paradata[p]).inputIds = At(m.paradata[p], "inputIds") \cap Kept(m)
          /\ Promoted(m, m.paradata[p]).outputIds = At(m.paradata[p], "outputIds") \cap Kept(m)
      BY DEF Promoted, Over
    <3> QED
      BY <3>1
  <2>4. ASSUME NEW id \in Ids(doc, "realizations")
        PROVE  \/ doc.realizations[id].representationStatus = {"undetermined"}
               \/ /\ doc.realizations[id].representationStatus = m.realizations[id].representationStatus
                  /\ \E p \in m.realizations[id].provenanceIds \cap Ids(m, "paradata") :
                       id \in At(m.paradata[p], "outputIds")
    <3> DEFINE r == m.realizations[id]
    <3>1. id \in Ids(m, "realizations") /\ doc.realizations[id] = MigratedRealization(m, id)
      BY <2>2, <2>4 DEF Ids, Reg
    <3>2. "representationStatus" \in DOMAIN r
      <4>1. RecordFits("realizations", r)
        BY <2>1, <3>1 DEF SchemaFits, Ids, Reg
      <4> QED
        BY <4>1 DEF RecordFits, RequiredFields
    <3>3. CASE Inherited(m, id) = {}
      BY <3>1, <3>3 DEF MigratedRealization, Digested, With
    <3>4. CASE Inherited(m, id) # {}
      <4>1. doc.realizations[id] = Digested(With(r, "provenanceIds", Inherited(m, id)))
        BY <3>1, <3>4 DEF MigratedRealization
      <4>2. doc.realizations[id].representationStatus = r.representationStatus
        BY <3>2, <4>1 DEF Digested, With
      <4>3. PICK p \in Inherited(m, id) : TRUE
        BY <3>4
      <4>4. p \in At(r, "provenanceIds") \cap Ids(m, "paradata") /\ id \in Promoted(m, m.paradata[p]).outputIds
        BY <4>3 DEF Inherited
      <4>5. p \in r.provenanceIds
        BY <4>4 DEF At
      <4> QED
        BY <2>3, <4>2, <4>4, <4>5
    <3> QED
      BY <3>3, <3>4
  <2>5. ASSUME NEW a \in Ids(doc, "activities") \ {"migration"}
        PROVE  /\ a \in Ids(m, "paradata")
               /\ doc.activities[a].inputIds \subseteq At(m.paradata[a], "inputIds")
               /\ doc.activities[a].outputIds \subseteq At(m.paradata[a], "outputIds")
    <3>1. a \in DOMAIN doc.activities
      BY <2>2, <2>5 DEF Ids, Reg
    <3>2. a \in Ids(m, "paradata") /\ doc.activities[a] = Promoted(m, m.paradata[a])
      BY <2>2, <2>5, <3>1 DEF Over
    <3> QED
      BY <2>3, <3>2
  <2> QED
    BY <2>4, <2>5 DEF MigrationInventsNothing, m
<1>2. DraftInv => MigrationInventsNothing
  BY <1>1 DEF MigrationInventsNothing
<1> QED
  BY <1>2, DraftInvariant, PTL

(* The rule is about neighbours; that any two segments are apart follows   *)
(* from it segment by segment.                                             *)
LEMMA SegmentsApart ==
  ASSUME NEW s, Len(s) \in Nat, DOMAIN s = 1 .. Len(s), \A k \in DOMAIN s : IsSegment(s[k]),
         \A k \in 1 .. Len(s) - 1 : Follows(s[k], s[k + 1]),
         NEW j \in DOMAIN s, NEW k \in DOMAIN s, j < k
  PROVE  s[j].to <= s[k].from
<1> DEFINE n == Len(s)
           T == {d \in Nat : j + 1 + d <= n => s[j].to <= s[j + 1 + d].from}
<1> HIDE DEF n
<1>1. n \in Nat /\ j \in 1 .. n /\ k \in 1 .. n
  BY DEF n
<1>2. \A i \in 1 .. n : s[i].from \in Int /\ s[i].to \in Int
  BY DEF IsSegment, n
<1>3. \A i \in 1 .. n - 1 : s[i].to <= s[i + 1].from /\ s[i + 1].from < s[i + 1].to
  BY DEF Follows, n
<1>4. 0 \in T
  BY <1>1, <1>3
<1>5. ASSUME NEW d \in T PROVE d + 1 \in T
  <2> SUFFICES ASSUME j + 1 + (d + 1) <= n PROVE s[j].to <= s[j + 1 + (d + 1)].from
    OBVIOUS
  <2> DEFINE i == j + 1 + d
  <2>1. i \in 1 .. n - 1 /\ i + 1 = j + 1 + (d + 1) /\ i - 1 \in 1 .. n - 1 /\ (i - 1) + 1 = i
    BY <1>1
  <2>2. s[j].to <= s[i].from
    <3>1. d \in Nat /\ j + 1 + d <= n
      BY <1>1
    <3> QED
      BY <3>1
  <2> HIDE DEF i
  <2>3. s[i].from < s[i].to /\ s[i].to <= s[i + 1].from
    BY <1>3, <2>1
  <2>4. s[j].to \in Int /\ s[i].from \in Int /\ s[i].to \in Int /\ s[i + 1].from \in Int
    <3>1. i \in 1 .. n /\ i + 1 \in 1 .. n
      BY <1>1, <2>1
    <3> QED
      BY <1>1, <1>2, <3>1
  <2>5. s[j].to <= s[i + 1].from
    BY <2>2, <2>3, <2>4
  <2> QED
    BY <2>1, <2>5
<1>6. T = Nat
  <2>1. T \in SUBSET Nat
    OBVIOUS
  <2> HIDE DEF T
  <2> QED
    BY <1>4, <1>5, <2>1, NatSetInduction
<1>7. k - j - 1 \in Nat /\ j + 1 + (k - j - 1) = k
  BY <1>1
<1>8. k - j - 1 \in T
  BY <1>6, <1>7
<1> QED
  BY <1>1, <1>7, <1>8

(* An instant of the source lies in one segment at most, and neighbours    *)
(* without a gap agree where they touch.                                   *)
THEOREM SynchronizationsAreFunctions == DraftSpec => []SynchronizationIsAFunction
<1>1. ASSUME DraftInv, Valid, NEW id \in Ids(doc, "synchronizationMappings"),
             NEW s \in doc.synchronizationMappings[id].segments
      PROVE  /\ \A j, k \in DOMAIN s : j < k => s[j].from .. s[j].to - 1 \cap s[k].from .. s[k].to - 1 = {}
             /\ \A k \in 1 .. Len(s) - 1 : s[k].gap = "none" => Image(s[k], s[k].to) = Image(s[k + 1], s[k].to)
  <2> DEFINE x == doc.synchronizationMappings[id]
  <2>1. \A k \in 1 .. Len(s) - 1 : Follows(s[k], s[k + 1])
    <3>1. MappingFits(doc, id)
      BY <1>1, ValidFits DEF ManifestFits, MultimodalFits
    <3> QED
      BY <3>1 DEF MappingFits, SegmentsFit
  <2>2. Len(s) \in Nat /\ DOMAIN s = 1 .. Len(s) /\ \A k \in DOMAIN s : IsSegment(s[k])
    <3>1. RecordFits("synchronizationMappings", x)
      BY <1>1, ValidFits DEF SchemaFits, Ids, Reg
    <3>2. FieldFits("synchronizationMappings", "segments", x.segments)
      BY <3>1 DEF RecordFits, RequiredFields
    <3> QED
      BY <3>2 DEF FieldFits
  <2>3. ASSUME NEW j \in DOMAIN s, NEW k \in DOMAIN s, j < k
        PROVE  s[j].from .. s[j].to - 1 \cap s[k].from .. s[k].to - 1 = {}
    <3>1. s[j].to <= s[k].from
      BY <2>1, <2>2, <2>3, SegmentsApart
    <3>2. s[j].from \in Int /\ s[j].to \in Int /\ s[k].from \in Int /\ s[k].to \in Int
      BY <2>2 DEF IsSegment
    <3> QED
      BY <3>1, <3>2
  <2>4. ASSUME NEW k \in 1 .. Len(s) - 1, s[k].gap = "none" PROVE Image(s[k], s[k].to) = Image(s[k + 1], s[k].to)
    <3>1. s[k].to = s[k + 1].from /\ Image(s[k], s[k].to) = Image(s[k + 1], s[k + 1].from)
      BY <2>1, <2>4 DEF Follows
    <3> QED
      BY <3>1
  <2> QED
    BY <2>3, <2>4
<1>2. DraftInv => SynchronizationIsAFunction
  <2> SUFFICES ASSUME DraftInv, Valid, NEW x \in Holds(doc, "synchronizationMappings"), NEW s \in x.segments
               PROVE  /\ \A j, k \in DOMAIN s : j < k => s[j].from .. s[j].to - 1 \cap s[k].from .. s[k].to - 1 = {}
                      /\ \A k \in 1 .. Len(s) - 1 : s[k].gap = "none" => Image(s[k], s[k].to) = Image(s[k + 1], s[k].to)
    BY DEF SynchronizationIsAFunction
  <2>1. PICK id \in Ids(doc, "synchronizationMappings") : x = doc.synchronizationMappings[id]
    BY DEF Holds, Ids, Reg
  <2> QED
    BY <1>1, <2>1
<1> QED
  BY <1>2, DraftInvariant, PTL

(* The activities that one has its inputs from, step by step.              *)
Suppliers(m, a) == {p \in Ids(m, "activities") : m.activities[p].outputIds \cap m.activities[a].inputIds # {}}

Reaches(f, m, c) ==
  f = [n \in 0 .. Cardinality(Ids(m, "activities")) |->
         IF n = 0 THEN Suppliers(m, c)
         ELSE LET below == f[n - 1] IN below \cup UNION {Suppliers(m, p) : p \in below}]

LEMMA ReachExists ==
  ASSUME NEW m, NEW c, Cardinality(Ids(m, "activities")) \in Nat
  PROVE  \E f : Reaches(f, m, c)
<1> DEFINE Wider(b) == b \cup UNION {Suppliers(m, p) : p \in b}
           Value(k, n) == IF n = 0 THEN Suppliers(m, c) ELSE Wider(k[n - 1])
           Some(n) == \E k : k = [i \in 0..n |-> Value(k, i)]
           T == {n \in Nat : Some(n)}
<1> HIDE DEF Wider
<1>1. Some(0)
  <2> DEFINE k == [i \in 0..0 |-> Suppliers(m, c)]
  <2>1. k = [i \in 0..0 |-> Value(k, i)]
    OBVIOUS
  <2> QED
    BY <2>1
<1>2. ASSUME NEW n \in Nat, Some(n) PROVE Some(n + 1)
  <2>1. PICK k : k = [i \in 0..n |-> Value(k, i)]
    BY <1>2
  <2> DEFINE l == [i \in 0..(n + 1) |-> Value(k, i)]
  <2>2. ASSUME NEW i \in 0..n PROVE l[i] = k[i]
    <3>1. i \in 0..(n + 1) /\ k[i] = Value(k, i)
      BY <2>1
    <3> QED
      BY <3>1
  <2>3. \A i \in 0..(n + 1) : Value(k, i) = Value(l, i)
    <3> SUFFICES ASSUME NEW i \in 0..(n + 1), i # 0 PROVE k[i - 1] = l[i - 1]
      OBVIOUS
    <3>1. i - 1 \in 0..n
      OBVIOUS
    <3> QED
      BY <2>2, <3>1
  <2>4. l = [i \in 0..(n + 1) |-> Value(l, i)]
    BY <2>3
  <2> HIDE DEF l
  <2> QED
    BY <2>4
<1>3. T = Nat
  <2> HIDE DEF Some
  <2>1. T \subseteq Nat /\ 0 \in T /\ \A n \in T : n + 1 \in T
    BY <1>1, <1>2
  <2> HIDE DEF T
  <2> QED
    BY <2>1, NatSetInduction
<1>4. Some(Cardinality(Ids(m, "activities")))
  BY <1>3
<1> QED
  BY <1>4 DEF Reaches, Wider

Start(m, a) == Val(m.activities[a], "startedAt")
Ended(m, a) == Val(m.activities[a], "endedAt")

LEMMA ActivityTimes ==
  ASSUME NEW m, SchemaFits(m), NEW a \in Ids(m, "activities")
  PROVE  /\ {"startedAt", "endedAt"} \subseteq DOMAIN m.activities[a]
         /\ Start(m, a) \in m.activities[a].startedAt /\ Ended(m, a) \in m.activities[a].endedAt
         /\ Start(m, a) \in Int /\ Ended(m, a) \in Int
<1> DEFINE r == m.activities[a]
<1>1. RecordFits("activities", r)
  BY DEF SchemaFits, Ids, Reg
<1>2. ASSUME NEW f \in {"startedAt", "endedAt"} PROVE f \in DOMAIN r /\ r[f] \subseteq Int /\ r[f] # {}
  <2>1. <<"activities", f>> \in RequiredFields
    BY DEF RequiredFields
  <2>2. f \in DOMAIN r
    BY <1>1, <2>1 DEF RecordFits
  <2>3. FieldFits("activities", f, r[f])
    BY <1>1, <2>2 DEF RecordFits
  <2> QED
    BY <2>1, <2>2, <2>3 DEF FieldFits, Times
<1> QED
  BY <1>2 DEF Start, Ended, Val

(* What an activity has its inputs from has ended when it starts, and no   *)
(* later than it ends itself.                                              *)
LEMMA SuppliersEnded ==
  ASSUME NEW m, SchemaFits(m), ManifestFits(m), NEW a \in Ids(m, "activities"), NEW p \in Suppliers(m, a)
  PROVE  p \in Ids(m, "activities") /\ Ended(m, p) <= Start(m, a) /\ Start(m, a) <= Ended(m, a)
<1> DEFINE r == m.activities[a]
           q == m.activities[p]
<1>1. p \in Ids(m, "activities") /\ Reg(m, "activities") = m.activities
  BY DEF Suppliers, Ids, Reg
<1>2. r \in Holds(m, "activities") /\ q \in Holds(m, "activities")
  BY <1>1 DEF Holds
<1>3. ActivityFits(m, r) /\ InputsAvailable(m, r)
  BY <1>2 DEF ManifestFits, ScientificFits
<1>4. PICK ref : ref \in q.outputIds /\ ref \in r.inputIds
  BY DEF Suppliers
<1>5. q.endedAt \subseteq AvailableAt(m, ref)
  <2>1. q \in {b \in Holds(m, "activities") : ref \in b.outputIds}
    BY <1>2, <1>4
  <2> QED
    BY <2>1 DEF AvailableAt
<1>6. AvailableBy(m, ref, Start(m, a))
  BY <1>3, <1>4 DEF InputsAvailable, Start
<1>7. Ended(m, p) <= Start(m, a)
  BY <1>1, <1>5, <1>6, ActivityTimes DEF AvailableBy
<1>8. Start(m, a) <= Ended(m, a)
  BY <1>3, ActivityTimes DEF ActivityFits, Ordered, At
<1> QED
  BY <1>1, <1>7, <1>8

(* By induction over the steps: all that is reached has ended before c     *)
(* starts, and supplies something that is reached, or c.  Were c itself    *)
(* reached, then what is reached would have no end, against the order of   *)
(* the activities.                                                         *)
LEMMA BeforeIsEarlier ==
  ASSUME NEW m, SchemaFits(m), ManifestFits(m), NEW c \in Ids(m, "activities")
  PROVE  \A p \in Before(m, c) : p # c /\ Ended(m, p) <= Start(m, c)
<1> DEFINE Acts == Ids(m, "activities")
           N == Cardinality(Acts)
           f == CHOOSE x : Reaches(x, m, c)
           Good(S) == \A x \in S : /\ x \in Acts /\ Ended(m, x) <= Start(m, c)
                                   /\ \E y \in S \cup {c} : x \in Suppliers(m, y)
           T == {n \in Nat : n <= N => Good(f[n])}
<1>1. N \in Nat
  BY FS_CardinalityType DEF SchemaFits
<1>2. Reaches(f, m, c)
  BY <1>1, ReachExists
<1>3. Before(m, c) = f[N]
  BY DEF Before, Reaches, Suppliers
<1> HIDE DEF f
<1>4. f[0] = Suppliers(m, c)
  <2>1. 0 \in 0 .. N
    BY <1>1
  <2> QED
    BY <1>2, <2>1 DEF Reaches
<1>5. \A n \in Nat : n + 1 <= N => f[n + 1] = f[n] \cup UNION {Suppliers(m, p) : p \in f[n]}
  <2> HIDE DEF N
  <2> SUFFICES ASSUME NEW n \in Nat, n + 1 <= N
               PROVE  f[n + 1] = f[n] \cup UNION {Suppliers(m, p) : p \in f[n]}
    OBVIOUS
  <2>1. n + 1 \in 0 .. N /\ n + 1 # 0 /\ (n + 1) - 1 = n
    BY <1>1
  <2> QED
    BY <1>2, <2>1 DEF Reaches, N
<1> HIDE DEF N
<1>6. \A y \in Acts : \A x \in Suppliers(m, y) :
        x \in Acts /\ Ended(m, x) <= Start(m, y) /\ Start(m, y) <= Ended(m, y)
  BY SuppliersEnded
<1>7. \A y \in Acts : Start(m, y) \in Int /\ Ended(m, y) \in Int
  BY ActivityTimes
<1>8. Good(f[0])
  BY <1>4, <1>6
<1> HIDE DEF Acts
<1>9. ASSUME NEW S, Good(S) PROVE Good(S \cup UNION {Suppliers(m, p) : p \in S})
  <2> DEFINE U == S \cup UNION {Suppliers(m, p) : p \in S}
  <2> SUFFICES ASSUME NEW x \in U
               PROVE  x \in Acts /\ Ended(m, x) <= Start(m, c) /\ \E y \in U \cup {c} : x \in Suppliers(m, y)
    OBVIOUS
  <2>1. CASE x \in S
    BY <1>9, <2>1
  <2>2. ASSUME NEW y \in S, x \in Suppliers(m, y)
        PROVE  x \in Acts /\ Ended(m, x) <= Start(m, c) /\ y \in U
    <3>1. y \in Acts /\ Ended(m, y) <= Start(m, c)
      BY <1>9
    <3>2. x \in Acts /\ Ended(m, x) <= Start(m, y) /\ Start(m, y) <= Ended(m, y)
      BY <1>6, <2>2, <3>1
    <3>3. /\ Ended(m, x) \in Int /\ Start(m, y) \in Int /\ Ended(m, y) \in Int /\ Start(m, c) \in Int
      BY <1>7, <3>1, <3>2 DEF Acts
    <3> QED
      BY <3>1, <3>2, <3>3
  <2> QED
    BY <2>1, <2>2
<1> HIDE DEF Good
<1>10. 0 \in T
  BY <1>8
<1>11. ASSUME NEW n \in T PROVE n + 1 \in T
  <2> SUFFICES ASSUME n + 1 <= N PROVE Good(f[n + 1])
    OBVIOUS
  <2>1. Good(f[n])
    BY <1>1
  <2> QED
    BY <1>5, <1>9, <2>1
<1>12. T = Nat
  <2>1. T \in SUBSET Nat
    OBVIOUS
  <2> HIDE DEF T
  <2> QED
    BY <1>10, <1>11, <2>1, NatSetInduction
<1>13. Good(f[N])
  BY <1>1, <1>12
<1>14. c \notin f[N]
  <2> SUFFICES ASSUME c \in f[N] PROVE FALSE
    OBVIOUS
  <2> DEFINE edges == {e \in Acts \X Acts : m.activities[e[1]].outputIds \cap m.activities[e[2]].inputIds # {}}
             nodes == f[N]
  <2>1. Acyclic(edges)
    BY DEF ManifestFits, ScientificFits, ActivitiesOrdered, Acts
  <2>2. ASSUME NEW x \in nodes PROVE \E e \in edges : e[1] = x /\ e[2] \in nodes
    <3>1. PICK y \in nodes : x \in Suppliers(m, y)
      BY <1>13, <2>2 DEF Good
    <3>2. x \in Acts /\ y \in Acts
      BY <1>13 DEF Good
    <3>3. <<x, y>> \in edges
      BY <3>1, <3>2 DEF Suppliers
    <3> QED
      BY <3>3
  <2> HIDE DEF edges, nodes
  <2>3. nodes \in SUBSET {e[1] : e \in edges} /\ nodes # {}
    BY <2>2 DEF nodes
  <2>4. PICK x \in nodes : \A e \in edges : ~(e[1] = x /\ e[2] \in nodes)
    BY <2>1, <2>3 DEF Acyclic
  <2> QED
    BY <2>2, <2>4
<1> QED
  BY <1>3, <1>13, <1>14 DEF Good

(* Along every chain of activities of an accepted manifest, each has ended *)
(* when the next one starts, and none is behind itself, however many there *)
(* are and whatever their times.                                           *)
THEOREM AcceptedProvenanceIsCausal == DraftSpec => []ProvenanceIsCausal
<1>1. ASSUME DraftInv, Valid, NEW c \in Ids(doc, "activities"), NEW p \in Before(doc, c)
      PROVE  p # c /\ Val(doc.activities[p], "endedAt") <= Val(doc.activities[c], "startedAt")
  <2>1. SchemaFits(doc) /\ ManifestFits(doc)
    BY <1>1, ValidFits
  <2>2. p # c /\ Ended(doc, p) <= Start(doc, c)
    BY <2>1, BeforeIsEarlier
  <2> QED
    BY <2>2 DEF Ended, Start
<1>2. DraftInv => ProvenanceIsCausal
  BY <1>1 DEF ProvenanceIsCausal
<1> QED
  BY <1>2, DraftInvariant, PTL

(* The records that are played are the same in the projection to 0.3; of   *)
(* its realizations they ask the number of frames.                         *)
Sampled == {"sampleMappings", "sampleVariants", "signalRegions", "loopPointSets", "perspectiveGroups"}

LEMMA ProjectionKeeps ==
  ASSUME NEW m
  PROVE  LET P == ProjectTo03(m) IN
         /\ \A g \in Sampled : Ids(P, g) = Ids(m, g) /\ \A id \in Ids(m, g) : P[g][id] = m[g][id]
         /\ Ids(P, "realizations") = Ids(m, "realizations")
         /\ \A id \in Ids(m, "realizations") :
              At(P.realizations[id], "frameCount") = At(m.realizations[id], "frameCount")
<1> DEFINE P == ProjectTo03(m)
           kept == DOMAIN m \ (Dropped \cup Paradata \cup ({"analyses"} \cup Interpretations))
           To03(g, r) == CASE g = "realizations" -> RealizationTo03(r)
                           [] g = "coordinateFrames" -> FrameTo03(r)
                           [] g = "poses" -> PoseTo03(m, r)
                           [] g = "distributions" -> DistributionTo03(r)
                           [] OTHER -> r
           Base == [g \in kept |-> [id \in DOMAIN m[g] |-> To03(g, m[g][id])]]
           Mine == Sampled \cup {"realizations"}
<1>1. P = With(With(Base, "paradata", Together(m, Paradata)), "analyses", Together(m, {"analyses"} \cup Interpretations))
  BY DEF ProjectTo03
<1>2. \A g \in Mine : g # "paradata" /\ g # "analyses" /\ (g \in kept <=> g \in DOMAIN m)
  BY DEF Sampled, Dropped, Paradata, Interpretations
<1>3. \A g \in Sampled : \A r : To03(g, r) = r
  BY DEF Sampled
<1>4. \A r : To03("realizations", r) = RealizationTo03(r)
  OBVIOUS
<1> HIDE DEF P, To03, kept
<1>5. DOMAIN Base = kept /\ \A g \in kept : DOMAIN Base[g] = DOMAIN m[g] /\ \A id \in DOMAIN m[g] : Base[g][id] = To03(g, m[g][id])
  OBVIOUS
<1> HIDE DEF Base
<1>6. ASSUME NEW g \in Mine
      PROVE  /\ Ids(P, g) = Ids(m, g)
             /\ \A id \in Ids(m, g) : P[g][id] = To03(g, m[g][id])
  <2>1. g \in DOMAIN P <=> g \in DOMAIN m
    BY <1>1, <1>2, <1>5 DEF With
  <2>2. g \in DOMAIN m => P[g] = Base[g]
    BY <1>1, <1>2, <1>5 DEF With
  <2>3. g \in DOMAIN m => g \in kept
    BY <1>2
  <2> QED
    BY <1>5, <2>1, <2>2, <2>3 DEF Ids, Reg
<1>7. \A r : At(RealizationTo03(r), "frameCount") = At(r, "frameCount")
  BY DEF RealizationTo03, With, Without, At
<1> QED
  BY <1>3, <1>4, <1>6, <1>7 DEF P

LEMMA LinkedSame ==
  ASSUME NEW m, NEW g \in Sampled, NEW r, NEW f
  PROVE  Linked(ProjectTo03(m), r, f, g) = Linked(m, r, f, g)
BY ProjectionKeeps DEF Linked

LEMMA HeldSame ==
  ASSUME NEW m, NEW g \in Sampled
  PROVE  Holds(ProjectTo03(m), g) = Holds(m, g)
<1> DEFINE P == ProjectTo03(m)
<1>1. Ids(P, g) = Ids(m, g) /\ \A id \in Ids(m, g) : P[g][id] = m[g][id]
  BY ProjectionKeeps
<1>2. \A w : \A id \in Ids(w, g) : Reg(w, g)[id] = w[g][id]
  BY DEF Ids, Reg
<1> HIDE DEF P
<1>3. Holds(P, g) = Holds(m, g)
  BY <1>1, <1>2 DEF Holds
<1> QED
  BY <1>3 DEF P

LEMMA LinkedHeld == ASSUME NEW m, NEW r, NEW f, NEW g PROVE Linked(m, r, f, g) \subseteq Holds(m, g)
BY DEF Linked, Holds, Ids, Reg

(* What the retained rules of 0.3 demand of the projection holds of the    *)
(* manifest itself: nothing that is played has been rejected, superseded   *)
(* or merely inferred, and no region ends after its audio.                 *)
THEOREM PlayedRecordsStayUsable == DraftSpec => []PlayedRecordsAreUsable
<1>1. ASSUME DraftInv, Valid, NEW v \in Played(doc)
      PROVE  /\ Usable(v)
             /\ \A r \in Linked(doc, v, "signalRegionIds", "signalRegions") :
                  /\ Usable(r)
                  /\ \A audio \in Linked(doc, v, "realizationId", "realizations") :
                       \A e \in r.endExclusive, n \in At(audio, "frameCount") : e <= n
             /\ \A l \in Linked(doc, v, "loopPointSetIds", "loopPointSets") : Usable(l)
             /\ \A p \in Linked(doc, v, "perspectiveGroupId", "perspectiveGroups") : Usable(p)
  <2> DEFINE P == ProjectTo03(doc)
  <2>1. PlayableFit(P) /\ SchemaFits(doc)
    BY <1>1, ValidFits DEF ManifestFits, ManifestFits03
  <2>2. PICK x \in Holds(doc, "sampleMappings") : v \in VariantsOf(doc, x)
    BY DEF Played
  <2>3. v \in Holds(doc, "sampleVariants") /\ v \in VariantsOf(P, x) /\ x \in Holds(P, "sampleMappings")
    BY <2>2, LinkedSame, LinkedHeld, HeldSame DEF VariantsOf, Sampled
  <2>4. v \in Holds(P, "sampleVariants")
    BY <2>3, HeldSame DEF Sampled
  <2>5. Usable(v) /\ VariantFits(P, v)
    BY <2>1, <2>3, <2>4 DEF PlayableFit, MappingFits03
  <2>6. /\ \A l \in Linked(doc, v, "loopPointSetIds", "loopPointSets") : Usable(l)
        /\ \A p \in Linked(doc, v, "perspectiveGroupId", "perspectiveGroups") : Usable(p)
    BY <2>5, LinkedSame DEF VariantFits, Sampled
  <2>7. ASSUME NEW r \in Linked(doc, v, "signalRegionIds", "signalRegions")
        PROVE  /\ Usable(r)
               /\ \A audio \in Linked(doc, v, "realizationId", "realizations") :
                    \A e \in r.endExclusive, n \in At(audio, "frameCount") : e <= n
    <3>1. r \in Linked(P, v, "signalRegionIds", "signalRegions") /\ r \in Holds(doc, "signalRegions")
      BY <2>7, LinkedSame, LinkedHeld DEF Sampled
    <3>2. r.realizationId = v.realizationId /\ Usable(r)
      BY <2>5, <3>1 DEF VariantFits
    <3>3. RegionFits(P, r)
      BY <2>1, <3>1, HeldSame DEF PlayableFit, Sampled
    <3>4. "realizationId" \in DOMAIN r
      <4>1. PICK id \in Ids(doc, "signalRegions") : r = doc.signalRegions[id]
        BY <3>1 DEF Holds, Ids, Reg
      <4>2. RecordFits("signalRegions", r)
        BY <2>1, <4>1 DEF SchemaFits, Ids, Reg
      <4> QED
        BY <4>2 DEF RecordFits, RequiredFields
    <3>5. ASSUME NEW audio \in Linked(doc, v, "realizationId", "realizations"),
                 NEW e \in r.endExclusive, NEW n \in At(audio, "frameCount")
          PROVE  e <= n
      <4>1. PICK id \in At(v, "realizationId") \cap Ids(doc, "realizations") : audio = doc.realizations[id]
        BY <3>5 DEF Linked
      <4>2. id \in At(r, "realizationId")
        BY <3>2, <3>4, <4>1 DEF At
      <4>3. id \in Ids(P, "realizations") /\ At(P.realizations[id], "frameCount") = At(audio, "frameCount")
        BY <4>1, ProjectionKeeps
      <4>4. P.realizations[id] \in Linked(P, r, "realizationId", "realizations")
        BY <4>2, <4>3 DEF Linked
      <4> QED
        BY <3>3, <3>5, <4>3, <4>4 DEF RegionFits
    <3> QED
      BY <3>2, <3>5
  <2> QED
    BY <2>5, <2>6, <2>7
<1>2. DraftInv => PlayedRecordsAreUsable
  BY <1>1 DEF PlayedRecordsAreUsable
<1> QED
  BY <1>2, DraftInvariant, PTL
=============================================================================
