---------------------------- MODULE MCVulnCache ----------------------------
(***************************************************************************)
(* Instances of VulnCache for TLC.  The ancestries a1 and a2 share the     *)
(* feature f1, a3 has none; v1 affects f1, v2 both features, v3 affects f2. *)
(* In the second instance v3 has a version that f1's cannot be compared to. *)
(***************************************************************************)
EXTENDS VulnCache

CONSTANTS a1, a2, a3, f1, f2, v1, v2, v3

MCFeaturesOf ==
    [a \in Ancestries |-> IF a = a1 THEN {f1} ELSE IF a = a2 THEN {f1, f2} ELSE {}]
MCAffected ==
    {<<v1, f1>>, <<v2, f1>>, <<v2, f2>>, <<v3, f2>>} \cap Pairs
Comparable == {}
Incomparable == {<<v3, f1>>}
=============================================================================
