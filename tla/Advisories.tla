----------------------------- MODULE Advisories -----------------------------
(***************************************************************************)
(* How the vulnerability sources (ext/vulnsrc) turn what they download     *)
(* into vulnerabilities with affected features, and how the updater        *)
(* regroups the vulnerabilities of all sources by namespace                *)
(* (doVulnerabilitiesNamespacing).                                         *)
(*                                                                         *)
(* A severity is its place in database.Severities.  A vulnerability is     *)
(* [name, severity, affected], where affected is a sequence of affected    *)
(* features [namespace, feature, version, fixedIn] and a version is a text *)
(* of VersionFormats.  A namespace is <<distribution, release>>.           *)
(***************************************************************************)
EXTENDS VersionFormats

Unknown == 1
Negligible == 2
Low == 3
Medium == 4
High == 5
Critical == 6
Defcon1 == 7
Severities == <<Unknown, Negligible, Low, Medium, High, Critical, Defcon1>>
SeverityCompare(s1, s2) == s1 - s2
ValidSeverity(s) == \E i \in DOMAIN Severities : Severities[i] = s

Affected(namespace, feature, version) ==
    [namespace |-> namespace, feature |-> feature, version |-> version,
     fixedIn |-> IF version = MaxVersion THEN <<>> ELSE version]

-----------------------------------------------------------------------------
(* Faulty variants of the definitions below, as a mistake in the code would *)
(* make them.                                                               *)
composeFirstOnly(groups) == IF groups = <<>> THEN <<>> ELSE Head(groups)
ubuntuUniqueByPackage(release, package) == package
debianKeepLast(node, v) ==
    [v EXCEPT !.affected = <<[namespace |-> <<"debian", node.release>>, feature |-> node.package,
                              version |-> node.fixedVersion, fixedIn |-> node.fixedVersion]>>]
namespacingIndexByName(v, fv) == v.name

-----------------------------------------------------------------------------
(* Ubuntu: a tracker file lists lines [release, package, status, note].     *)
SeverityFromPriority(priority) ==
    CASE priority = "negligible" -> Negligible
      [] priority = "low" -> Low
      [] priority = "medium" -> Medium
      [] priority = "high" -> High
      [] priority = "critical" -> Critical
      [] OTHER -> Unknown

ubuntuIgnoredReleases == {"upstream", "devel"}
ubuntuReleases == [xenial |-> "16.04", bionic |-> "18.04"]
ubuntuVersion(line) == IF line.status = "released" THEN line.note ELSE MaxVersion
ubuntuUnique(release, package) == <<release, package>>

ubuntuLine(s, line) ==
    CASE \/ line.package = "linux"
         \/ line.status \notin {"needed", "active", "deferred", "released", "not-affected"}
         \/ line.release \in ubuntuIgnoredReleases -> s
      [] line.release \notin DOMAIN ubuntuReleases ->
            [s EXCEPT !.unknownReleases = @ \cup {line.release}]
      [] \/ ubuntuVersion(line) = <<>>
         \/ ubuntuUnique(line.release, line.package) \in s.unique -> s
      [] OTHER ->
            [s EXCEPT !.unique = @ \cup {ubuntuUnique(line.release, line.package)},
                      !.affected = Append(@, Affected(<<"ubuntu", ubuntuReleases[line.release]>>,
                                                      line.package, ubuntuVersion(line)))]

parseUbuntuCVE(file) ==
    LET read == FoldLeft(ubuntuLine,
                         [unique |-> {}, affected |-> <<>>, unknownReleases |-> {}], file.lines)
    IN  [vulnerability |-> [name |-> file.name, severity |-> SeverityFromPriority(file.priority),
                            affected |-> read.affected],
         unknownReleases |-> read.unknownReleases]

-----------------------------------------------------------------------------
(* Debian: one document maps packages to vulnerabilities to releases.  It   *)
(* is read as a sequence of nodes [package, name, release, status,          *)
(* fixedVersion, urgency], in the order in which the code visits its maps.  *)
SeverityFromUrgency(urgency) ==
    CASE urgency \in {"end-of-life", "unimportant"} -> Negligible
      [] urgency = "low" -> Low
      [] urgency = "medium" -> Medium
      [] urgency = "high" -> High
      [] OTHER -> Unknown

debianReleases == [jessie |-> "8", stretch |-> "9"]
debianVersion(node) ==
    CASE node.status = "open" -> MaxVersion
      [] /\ node.status = "resolved" /\ Valid("dpkg", node.fixedVersion)
         /\ node.fixedVersion # <<Zero>> -> node.fixedVersion
      [] OTHER -> <<>>

\* A vulnerability that gets no version is kept only if the map already has
\* it, and then with the severity that the node raised.
debianKeep(node, v) ==
    IF debianVersion(node) = <<>> THEN v
    ELSE [v EXCEPT !.affected =
            Append(@, Affected(<<"debian", debianReleases[node.release]>>,
                               node.package, debianVersion(node)))]
debianNode(m, node) ==
    LET found == IF node.name \in DOMAIN m THEN m[node.name]
                 ELSE [name |-> node.name, severity |-> Unknown, affected |-> <<>>]
        severity == SeverityFromUrgency(node.urgency)
        raised == IF SeverityCompare(severity, found.severity) > 0
                  THEN [found EXCEPT !.severity = severity] ELSE found
    IN  IF \/ node.release \notin DOMAIN debianReleases
           \/ node.name = "TEMP"
           \/ node.status = "undetermined"
           \/ debianVersion(node) = <<>> /\ node.name \notin DOMAIN m
        THEN m
        ELSE (node.name :> debianKeep(node, raised)) @@ m

parseDebianJSON(nodes) == Range(FoldLeft(debianNode, <<>>, nodes))

-----------------------------------------------------------------------------
(* Alpine: a file lists fixes [package, version, names] for one release.    *)
alpineVulnerabilities(file) ==
    FlattenSeq([i \in DOMAIN file.fixes |->
        LET fix == file.fixes[i]
        IN  IF ~Valid("dpkg", fix.version) THEN <<>>
            ELSE [j \in DOMAIN fix.names |->
                    [name |-> fix.names[j], severity |-> Unknown,
                     affected |-> <<Affected(<<"alpine", file.distro>>, fix.package, fix.version)>>]]])

-----------------------------------------------------------------------------
(* Oracle and Red Hat: an advisory has a tree of criteria [operator,        *)
(* criterias, criterions].  A criterion is [kind, os, package, version]:    *)
(* "installed" names a release, "earlier" a package, "ignored" is signed    *)
(* with a key or concerns another product.                                  *)
getCriterions(node) ==
    LET criterions == SelectSeq(node.criterions, LAMBDA c : c.kind # "ignored")
    IN  CASE node.operator = "AND" -> <<criterions>>
          [] node.operator = "OR" -> [i \in DOMAIN criterions |-> <<criterions[i]>>]
          [] OTHER -> <<>>

\* All the ways to take one possibility of each group, joined in order.
compose(groups) ==
    LET Join(possibilities, group) ==
            FlattenSeq([i \in DOMAIN possibilities |->
                [j \in DOMAIN group |-> possibilities[i] \o group[j]]])
    IN  FoldLeft(Join, Head(groups), Tail(groups))

RECURSIVE getPossibilities(_)
getPossibilities(node) ==
    LET inner == [i \in DOMAIN node.criterias |-> getPossibilities(node.criterias[i])]
        groups == IF node.criterions = <<>> THEN inner ELSE Append(inner, getCriterions(node))
    IN  CASE node.criterias = <<>> -> getCriterions(node)
          [] node.criterias # <<>> /\ node.operator = "AND" -> compose(groups)
          [] node.criterias # <<>> /\ node.operator = "OR" -> FlattenSeq(groups)
          [] OTHER -> <<>>

\* The feature that one possibility describes: the last release and the last
\* package named in it.  A version that does not parse leaves the one before.
NoFeature == [os |-> 0, feature |-> "", version |-> <<>>]
readCriterion(f, c) ==
    CASE c.kind = "installed" -> [f EXCEPT !.os = c.os]
      [] c.kind = "earlier" ->
            [f EXCEPT !.feature = c.package,
                      !.version = IF Valid("rpm", c.version) THEN c.version ELSE @]
      [] OTHER -> f

firstConsideredRHEL == 5
toFeatures(distribution, node) ==
    LET possibilities == getPossibilities(node)
        read == [i \in DOMAIN possibilities |->
                    FoldLeft(readCriterion, NoFeature, possibilities[i])]
        valid == SelectSeq(read, LAMBDA f :
                    /\ distribution = "centos" => f.os >= firstConsideredRHEL
                    /\ f.feature # "" /\ f.version \notin {<<>>, MaxVersion})
        \* A map by release and name: the last one read stays.
        kept == { i \in DOMAIN valid :
                    \A j \in i + 1 .. Len(valid) :
                        <<valid[j].os, valid[j].feature>> # <<valid[i].os, valid[i].feature>> }
    IN  { Affected(<<distribution, valid[i].os>>, valid[i].feature, valid[i].version) : i \in kept }

ovalSeverity(distribution, severity) ==
    CASE severity = "n/a" /\ distribution = "oracle" -> Negligible
      [] severity = "low" -> Low
      [] severity = "moderate" -> Medium
      [] severity = "important" -> High
      [] severity = "critical" -> Critical
      [] OTHER -> Unknown

parseELSA(definition) ==
    LET pkgs == toFeatures("oracle", definition.criteria)
    IN  IF pkgs = {} THEN <<>>
        ELSE <<[name |-> definition.name, affected |-> SetToSeq(pkgs),
                severity |-> ovalSeverity("oracle", definition.severity)]>>

\* One vulnerability for each CVE of the advisory, or one for the advisory if
\* it refers to nothing else.
parseRHSA(definition) ==
    LET pkgs == toFeatures("centos", definition.criteria)
        Vulnerability(name, severity) ==
            [name |-> name, affected |-> SetToSeq(pkgs), severity |-> ovalSeverity("centos", severity)]
    IN  CASE pkgs = {} -> <<>>
          [] pkgs # {} /\ definition.references = 1 ->
                <<Vulnerability(definition.name, definition.severity)>>
          [] OTHER -> [i \in DOMAIN definition.cves |->
                LET cve == definition.cves[i]
                IN  Vulnerability(cve.name, IF cve.impact = "" THEN definition.severity
                                            ELSE cve.impact)]

-----------------------------------------------------------------------------
(* The updater's regrouping of the vulnerabilities of all sources.          *)
namespacingIndex(v, fv) == <<fv.namespace, v.name>>
wellFormed(fv) == fv.version # <<>> /\ fv.feature # ""

\* The first vulnerability that names an index gives the new one its severity.
namespaceFeature(m, v, fv) ==
    LET index == namespacingIndex(v, fv)
    IN  IF ~wellFormed(fv) THEN m
        ELSE IF index \in DOMAIN m THEN [m EXCEPT ![index].affected = Append(@, fv)]
        ELSE (index :> [name |-> v.name, severity |-> v.severity, namespace |-> fv.namespace,
                        affected |-> <<fv>>]) @@ m

doVulnerabilitiesNamespacing(vulnerabilities) ==
    LET Split(m, v) == FoldLeft(LAMBDA n, fv : namespaceFeature(n, v, fv), m, v.affected)
        all == Range(FoldLeft(Split, <<>>, vulnerabilities))
    IN  { v \in all : v.name # "" /\ ValidSeverity(v.severity) }
=============================================================================
