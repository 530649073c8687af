------------------------------ MODULE MCFetch ------------------------------
(* Instances of Fetch: every source, and two appenders with two feeds.      *)
EXTENDS Fetch

MCKinds == {"ubuntu", "alpine", "debian", "oracle", "rhel"}
\* Numbers of different length, in any order; 1 is not to be managed.
Pages == { p \in [1 .. 3 -> {1, 2, 3, 12}] : IsInjective(p) }
MCIds == [k \in MCKinds |-> IF k \in ListKinds THEN Pages ELSE {<<1, 2, 3>>}]
MCUnmapped == {2}
MCOthers == {"other"}
MCRegistered == {{}, {"other", NVD}}
MCFeeds == <<"2017", "2018">>
MCFeedOf == [v \in {1, 2, 3, 12} |-> IF v = 2 THEN 2 ELSE 1]
MCRated == {1}
=============================================================================
