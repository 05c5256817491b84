------------------------------- MODULE Records -------------------------------
(***************************************************************************)
(* Manifests as the validators see them: registries of records.  A         *)
(* registry is a function from identifiers; a record is a function from    *)
(* its fields to sets of values.  An absent field is the empty set, a      *)
(* single value a set of one, and a list the set of its elements: the      *)
(* validators ask of lists only what is in them.  A record that is nested  *)
(* in another one has a registry of its own and a field that leads back.   *)
(* Times are numbers: _instant() computes exact seconds.                   *)
(***************************************************************************)
EXTENDS Integers, Sequences, FiniteSets

At(r, f) == IF f \in DOMAIN r THEN r[f] ELSE {}

Has(r, f) == At(r, f) # {}

(* The value of a field that has one.                                      *)
Val(r, f) == CHOOSE v \in r[f] : TRUE

Reg(m, g) == IF g \in DOMAIN m THEN m[g] ELSE <<>>

Ids(m, g) == DOMAIN Reg(m, g)

(* A function with one entry set, and one laid over another.               *)
With(r, f, v) == [g \in DOMAIN r \cup {f} |-> IF g = f THEN v ELSE r[g]]

Over(r, s) == [f \in DOMAIN r \cup DOMAIN s |-> IF f \in DOMAIN r THEN r[f] ELSE s[f]]

Holds(m, g) == {Reg(m, g)[id] : id \in Ids(m, g)}

(* The identifiers that anything in the manifest declares.                 *)
Known(m) == UNION {DOMAIN m[g] : g \in DOMAIN m}

(* The references of one field lead into one registry.                     *)
Into(m, r, f, g) == At(r, f) \subseteq Ids(m, g)

(* The records of registry g that the field leads to.                      *)
Linked(m, r, f, g) == {m[g][id] : id \in At(r, f) \cap Ids(m, g)}

(* A table of references: rows of a registry, a field and the registry it  *)
(* leads into.                                                             *)
Resolve(m, table) ==
  \A row \in table : \A r \in Holds(m, row[1]) : Into(m, r, row[2], row[3])

(* Two single values agree, or one of them is not there.                   *)
Ordered(r, f, g)  == \A s \in At(r, f), e \in At(r, g) : s <= e
Increases(r, f, g) == \A s \in At(r, f), e \in At(r, g) : s < e

(* A graph without a cycle: every set of nodes has one without a successor *)
(* in the set.                                                             *)
Acyclic(edges) ==
  \A nodes \in SUBSET {e[1] : e \in edges} :
     nodes # {} => \E n \in nodes : \A e \in edges : ~(e[1] = n /\ e[2] \in nodes)

(* The edges that a field of the records of a registry makes within it.    *)
Edges(m, g, f) ==
  UNION {{<<id, ref>> : ref \in At(m[g][id], f) \cap Ids(m, g)} : id \in Ids(m, g)}
=============================================================================
