---------------------------- MODULE MCAssetCache ----------------------------
(* Two processes with different quotas share a cache of three assets: the  *)
(* largest one exceeds the smaller quota, and does not fit beside both of  *)
(* the others in the larger.                                               *)
EXTENDS AssetCache

CONSTANTS p1, p2, a1, a2, a3

MCProc == {p1, p2}
MCAsset == {a1, a2, a3}
MCSize == [a \in MCAsset |-> IF a = a3 THEN 3 ELSE 1]
MCQuota == [p \in MCProc |-> IF p = p1 THEN 4 ELSE 2]
=============================================================================
