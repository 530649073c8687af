--------------------------- MODULE MCBulkPersist ---------------------------
(* Instances of BulkPersist: two sessions and three rows.  Namespaces are   *)
(* debian:8, debian:9 (both dpkg) and centos:7 (rpm); features have a name, *)
(* a version and a version format.                                          *)
EXTENDS BulkPersist

MCKeys ==
    [namespace |-> {<<2, 1>>, <<3, 1>>, <<1, 2>>},
     feature |-> {<<1, 2, 1>>, <<2, 1, 1>>, <<2, 2, 1>>},
     layer_feature |-> {<<1>>, <<2>>, <<3>>}]
=============================================================================
