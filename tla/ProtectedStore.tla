--------------------------- MODULE ProtectedStore ---------------------------
(***************************************************************************)
(* What the shared cache promises its users, without locks, quotas, lease  *)
(* files or hashing: a process that holds an asset finds its file where it *)
(* was, until it drops it or dies.  Only a writer outside the cache may    *)
(* damage a file, and no damaged file becomes good again in place.         *)
(***************************************************************************)
CONSTANTS Proc, Asset

VARIABLES content,   \* what lies at the path of an asset
          held       \* <<process, asset>>: the assets in use

svars == <<content, held>>

States == {"absent", "good", "bad"}

Free(a) == \A p \in Proc : <<p, a>> \notin held

Init ==
  /\ content = [a \in Asset |-> "absent"]
  /\ held = {}

Publish(a) ==
  /\ content[a] = "absent"
  /\ content' = [content EXCEPT ![a] = "good"]
  /\ UNCHANGED held

(* Eviction, quarantine and clearing alike.                                *)
Withdraw(a) ==
  /\ content[a] # "absent"
  /\ Free(a)
  /\ content' = [content EXCEPT ![a] = "absent"]
  /\ UNCHANGED held

Damage(a) ==
  /\ content[a] = "good"
  /\ content' = [content EXCEPT ![a] = "bad"]
  /\ UNCHANGED held

Hold(p, a) ==
  /\ content[a] # "absent"
  /\ held' = held \cup {<<p, a>>}
  /\ UNCHANGED content

Drop(p, a) ==
  /\ held' = held \ {<<p, a>>}
  /\ UNCHANGED content

Die(p) ==
  /\ held' = {h \in held : h[1] # p}
  /\ UNCHANGED content

Next ==
  \/ \E a \in Asset : Publish(a) \/ Withdraw(a) \/ Damage(a)
  \/ \E p \in Proc : \/ Die(p)
                     \/ \E a \in Asset : Hold(p, a) \/ Drop(p, a)

Spec == Init /\ [][Next]_svars

(* A held asset is never missing.                                          *)
HeldIsPresent == \A p \in Proc, a \in Asset : <<p, a>> \in held => content[a] # "absent"
=============================================================================
