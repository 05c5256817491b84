------------------------------- MODULE Packing -------------------------------
(***************************************************************************)
(* pack_workspace() of the reference tools: a workspace is validated, read *)
(* again, and written to an archive, which is validated in its turn.       *)
(* While it runs an editor may change the workspace, another program may   *)
(* create the output, and the process may end.  The two tools differ in    *)
(* what they read when, and in what they do when something goes wrong      *)
(* (contract/vao-0.5.0/Tools: vao05.py:5292-5368 and vao03.py:2565-2599).  *)
(***************************************************************************)
EXTENDS CarrierContract, SequencesExt

CONSTANTS
  Tools,          \* "0.5.0" and "0.3.3", or one of them
  Workspaces,     \* what an author starts with
  Carriers,       \* the descriptors and ...
  Files, Spots,   \* ... the files that an editor may put into a workspace, and where
  MaxEdits,       \* how often the workspace changes, and ...
  MaxRuns         \* ... how often an author tries to pack: bounds for TLC

ASSUME PackingAssumption ==
  Tools \subseteq {"0.5.0", "0.3.3"} /\ Spots \subseteq Paths /\ MaxEdits \in Nat /\ MaxRuns \in Nat

VARIABLES
  tool, work,
  out,            \* what is at the output's path
  pc,             \* where the tool is
  made,           \* created: this run has made the output
  parts,          \* the manifest and the descriptor that were read
  todo,           \* the paths still to be copied
  edited, runs,
  appeared        \* another program has made a file of its own: once, a bound

packVars == <<tool, work, out, pc, made, parts, todo, edited, runs, appeared>>

None == [kind |-> "none"]
Foreign == [kind |-> "foreign"]
Own(archive) == [kind |-> "own", archive |-> archive]

NoParts == <<>>

PackInit ==
  /\ tool \in Tools /\ work \in Workspaces
  /\ out = None /\ pc = "start" /\ made = FALSE
  /\ parts = NoParts /\ todo = <<>> /\ edited = 0 /\ runs = 1 /\ appeared = FALSE

Fits(w) == IF tool = "0.5.0" THEN WorkspaceFits(w) ELSE WorkspaceFits03(w)

Finished(a) == IF tool = "0.5.0" THEN ArchiveFits(a) ELSE ArchiveFits03(a)

Check ==
  /\ pc = "start"
  /\ pc' = IF Fits(work) THEN "checked" ELSE "refused"
  /\ UNCHANGED <<tool, work, out, made, parts, todo, edited, runs, appeared>>

(* The output must not be there; 0.3.3 lists the payload now.              *)
Exists ==
  /\ pc = "checked"
  /\ pc' = IF out # None THEN "refused" ELSE IF tool = "0.5.0" THEN "manifest" ELSE "open"
  /\ todo' = IF tool = "0.3.3" THEN SetToSeq(FilesOf(work.tree)) ELSE todo
  /\ UNCHANGED <<tool, work, out, made, parts, edited, runs, appeared>>

(* The two structural files are read one after the other: by 0.5.0 before  *)
(* the output is opened, by 0.3.3 afterwards.                              *)
ReadManifest ==
  /\ pc = "manifest"
  /\ parts' = [manifest |-> work.manifest]
  /\ pc' = "carrier"
  /\ UNCHANGED <<tool, work, out, made, todo, edited, runs, appeared>>

ReadCarrier ==
  /\ pc = "carrier"
  /\ parts' = parts @@ [carrier |-> work.carrier]
  /\ pc' = IF tool = "0.5.0" THEN "open" ELSE "copy"
  /\ out' = IF tool = "0.5.0" THEN out
            ELSE Own([out.archive EXCEPT !.manifest = parts.manifest, !.carrier = work.carrier])
  /\ UNCHANGED <<tool, work, made, todo, edited, runs, appeared>>

(* Slip: the output is removed, whoever made it.                           *)
RemainsNone == None

(* What the handler of exceptions leaves at the output's path.             *)
Remains == IF tool = "0.5.0" /\ ~made THEN out ELSE None

Fail == pc' = "failed" /\ out' = Remains

(* The output is opened for exclusive creation; 0.5.0 writes the two files *)
(* and lists the payload now.                                              *)
Open ==
  /\ pc = "open"
  /\ \/ /\ out # None
        /\ Fail
        /\ UNCHANGED <<made, todo>>
     \/ /\ out = None
        /\ out' = Own([ordered |-> TRUE, stray |-> FALSE, entries |-> <<>>,
                       manifest |-> IF tool = "0.5.0" THEN parts.manifest ELSE "",
                       carrier |-> IF tool = "0.5.0" THEN parts.carrier ELSE ""])
        /\ made' = TRUE
        /\ todo' = IF tool = "0.5.0" THEN SetToSeq(DOMAIN work.tree) ELSE todo
        /\ pc' = IF tool = "0.5.0" THEN "copy" ELSE "manifest"
  /\ UNCHANGED <<tool, work, parts, edited, runs, appeared>>

Entry(p) == [path |-> p, kind |-> "file", encrypted |-> FALSE, data |-> work.tree[p].data]

(* The size that 0.5.0 expects at a path: none where no mapping spells it. *)
Expected(p) ==
  UNION {Parsed[parts.manifest].realizations[e.realization].byteSize :
           e \in {d \in Range(parts.carrier.embedded) :
                    d.path = p /\ d.realization \in Ids(Parsed[parts.manifest], "realizations")}}

(* Files that are gone or no longer regular are passed over by 0.5.0; one  *)
(* without a mapping, with a second link, or of another size stops it.     *)
Skips(p) == tool = "0.5.0" /\ p \notin FilesOf(work.tree)

Copies(p) ==
  /\ p \in DOMAIN work.tree
  /\ tool = "0.5.0" => work.tree[p].links = 1 /\ Expected(p) = {Len(work.tree[p].data)}

Copy ==
  /\ pc = "copy" /\ todo # <<>>
  /\ LET p == Head(todo) IN
       \/ /\ Skips(p)
          /\ UNCHANGED <<out, pc>>
       \/ /\ ~Skips(p) /\ Copies(p)
          /\ out' = [out EXCEPT !.archive.entries = Append(@, Entry(p))]
          /\ UNCHANGED pc
       \/ /\ ~Skips(p) /\ ~Copies(p)
          /\ Fail
  /\ todo' = Tail(todo)
  /\ UNCHANGED <<tool, work, made, parts, edited, runs, appeared>>

(* The archive is validated by reading it again.                           *)
Finish ==
  /\ pc = "copy" /\ todo = <<>>
  /\ IF Finished(out.archive) THEN pc' = "done" /\ UNCHANGED out ELSE Fail
  /\ UNCHANGED <<tool, work, made, parts, todo, edited, runs, appeared>>

Step == Check \/ Exists \/ ReadManifest \/ ReadCarrier \/ Open \/ Copy \/ Finish

-----------------------------------------------------------------------------
Running == pc \notin {"refused", "failed", "done", "ended"}

(* The process ends at any moment, and its handlers do not run.            *)
Crash ==
  /\ Running /\ pc # "start"
  /\ pc' = "ended"
  /\ UNCHANGED <<tool, work, out, made, parts, todo, edited, runs, appeared>>

Again ==
  /\ pc \in {"refused", "failed", "ended"} /\ runs < MaxRuns
  /\ runs' = runs + 1
  /\ pc' = "start" /\ made' = FALSE /\ parts' = NoParts /\ todo' = <<>>
  /\ UNCHANGED <<tool, work, out, edited, appeared>>

(* Another program puts a file of its own at the output's path.            *)
Appear ==
  /\ out = None /\ ~appeared
  /\ out' = Foreign /\ appeared' = TRUE
  /\ UNCHANGED <<tool, work, pc, made, parts, todo, edited, runs>>

Change(w) ==
  /\ edited < MaxEdits /\ w # work
  /\ work' = w
  /\ edited' = edited + 1
  /\ UNCHANGED <<tool, out, pc, made, parts, todo, runs, appeared>>

EditManifest == \E bytes \in Documents : Change([work EXCEPT !.manifest = bytes])
EditCarrier  == \E c \in Carriers : Change([work EXCEPT !.carrier = c])
PutFile      == \E p \in Spots, f \in Files : Change([work EXCEPT !.tree = (p :> f) @@ @])
DropFile     == \E p \in DOMAIN work.tree :
                  Change([work EXCEPT !.tree = Restrict(@, DOMAIN @ \ {p})])

PackNext == Step \/ Crash \/ Again \/ Appear \/ EditManifest \/ EditCarrier \/ PutFile \/ DropFile

-----------------------------------------------------------------------------
(* What groups and all they depend on, step by step, are made of.          *)
Needed(m, groups) ==
  LET Grow[n \in 0 .. Cardinality(Ids(m, "assetGroups"))] ==
        IF n = 0 THEN groups
        ELSE LET below == Grow[n - 1] IN below \cup UNION {At(m.assetGroups[g], "dependsOnGroupIds") : g \in below}
  IN  UNION {m.assetGroups[g].realizationIds : g \in Grow[Cardinality(Ids(m, "assetGroups"))]}

(* The entries of an archive that its descriptor maps a realization to.    *)
Places(a, rid) ==
  {k \in DOMAIN a.entries : \E e \in Range(a.carrier.embedded) :
     e.realization = rid /\ Canonical[e.path] = Canonical[a.entries[k].path]}

Sealed(a) ==
  LET m == Parsed[a.manifest] IN
  /\ a.carrier.manifest = a.manifest
  /\ \A rid \in Needed(m, a.carrier.complete) :
       \E k \in DOMAIN a.entries :
         Places(a, rid) = {k} /\ m.realizations[rid].sha256 = {a.entries[k].data}
  /\ \A k \in DOMAIN a.entries : \E rid \in Ids(m, "realizations") : k \in Places(a, rid)

(* An archive that a pack has reported speaks for itself: its manifest is  *)
(* the one its descriptor was made for, everything that its complete       *)
(* groups need, however indirectly, is in it once and byte for byte, and   *)
(* nothing is in it that its manifest does not describe, whatever happened *)
(* to the workspace in the meantime.                                       *)
PackedIsSealed == pc = "done" => Sealed(out.archive)

(* "remove a partial output after any failure" and "refuse to overwrite an *)
(* existing target" (VAO_CONFORMANCE_0.5.0.md:86-87): when a pack of 0.5.0 *)
(* fails, what it has written is gone, and a file of another program stays *)
(* where it is, also when it appears between the look at the path and the  *)
(* creation.                                                               *)
OutputIsOurs ==
  [][tool = "0.5.0" => /\ out = Foreign => out' = Foreign
                       /\ pc' = "failed" /\ made => out'.kind # "own"]_packVars

(* The file of another program stays, whichever the tool.                  *)
TargetStays == [][out = Foreign => out' = Foreign]_packVars
=============================================================================
