----------------------------- MODULE MCWorker -----------------------------
(***************************************************************************)
(* Two instances scan the image <<l1, l2>>.  Of w1's detectors, os and apt *)
(* find the namespaces n1 and n2, of one version format, in l1, and dpkg   *)
(* finds f1 and f2 in l1, of which only f1 is left in l2, with a new f3.   *)
(* w2's detector extra finds f4 in l2: w2 knows no namespace and refuses   *)
(* the image unless w1 has scanned it.                                     *)
(***************************************************************************)
EXTENDS Worker, TLC

CONSTANTS w1, w2, os, apt, dpkg, extra, dpkg2, l1, l2, a1, a2, f1, f2, f3, f4, n1, n2, v1

MCRequests == {<<w1, "post", a1>>, <<w2, "post", a1>>, <<w2, "get", a1>>}
MCEnabled == w1 :> {os, apt, dpkg} @@ w2 :> {extra}
MCLayersOf == a1 :> <<l1, l2>>
MCFormat == [x \in {f1, f2, f3, f4, n1, n2} |-> v1]
MCFinds ==
    os :> (l1 :> {n1} @@ l2 :> {})
    @@ apt :> (l1 :> {n2} @@ l2 :> {})
    @@ dpkg :> (l1 :> {f1, f2} @@ l2 :> {f1, f3})
    @@ extra :> (l1 :> {} @@ l2 :> {f4})

\* An upgrade: w2's detector dpkg2 finds in l1 what w1's detector dpkg finds,
\* and nothing is found in l2, the second layer of a1.
SharedRequests == {<<w1, "post", a2>>, <<w2, "post", a2>>, <<w2, "post", a1>>}
SharedEnabled == w1 :> {os, dpkg} @@ w2 :> {os, dpkg2}
SharedLayersOf == a1 :> <<l1, l2>> @@ a2 :> <<l1>>
SharedFinds ==
    os :> (l1 :> {n1} @@ l2 :> {})
    @@ dpkg :> (l1 :> {f1, f2} @@ l2 :> {})
    @@ dpkg2 :> (l1 :> {f1, f2} @@ l2 :> {})
=============================================================================
