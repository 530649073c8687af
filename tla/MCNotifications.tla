-------------------------- MODULE MCNotifications --------------------------
(* Instances of Notifications: two vulnerabilities that change, and one     *)
(* vulnerability with images that are posted again while it is read.        *)
EXTENDS Notifications, TLC

CONSTANTS v1, v2, a1, a2, a3, f1, f2

Images == {a1, a2, a3}
MCInstances ==
    {<<{v1, v2}, {}>>, <<{v1}, Images>>} \cup {<<{v1}, Images \ {a}>> : a \in Images}
MCMaxRounds == [s \in SUBSET Images |-> IF Cardinality(s) = 2 THEN 3 ELSE 2]
MCContents ==
    {[severity |-> "low", affected |-> <<f1>>],
     [severity |-> "low", affected |-> <<f2>>],
     [severity |-> "low", affected |-> <<f1, f1>>],
     [severity |-> "high", affected |-> <<>>]}
MCFeatureSets == {{f1}, {f2}}
Symmetry == Permutations(Images)
=============================================================================
