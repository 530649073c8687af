----------------------------- MODULE MCFormats -----------------------------
(***************************************************************************)
(* Small sets of questions for Formats.                                    *)
(***************************************************************************)
EXTENDS Formats

(* Every text of up to three of these characters, and epochs before two.   *)
One == Zero + 1
Two == Zero + 2
LetterA == 97
Body == {Tilde, Zero, One, LetterA, Hyphen, Dot}
MCVersionTexts ==
    {MinVersion, MaxVersion, <<Two>>, <<LetterA, LetterA + 1>>} \cup SeqOf(Body, 3)
    \cup { <<e, Colon>> \o b : e \in {Zero, One, LetterA},
                               b \in SeqOf({Tilde, One, LetterA, Hyphen}, 2) }

(* The release files of distributions, as the tests of the detectors have   *)
(* them.  The deciding ones exclude the detector that disagrees, or are the *)
(* only ones that are understood.                                           *)
Line(key, os, version) == [key |-> key, os |-> os, version |-> version]
Release(os, version) == <<Line("release", os, version)>>
OsRelease(os, version) ==
    <<Line("NAME", os, <<>>), Line("VERSION_ID", "", version), Line("ID", os, <<>>)>>
LsbRelease(os, version) ==
    <<Line("DISTRIB_ID", os, <<>>), Line("DISTRIB_RELEASE", "", version)>>
AptSources(release) ==
    <<Line("deb other", "xenial", <<>>), Line("deb main", "unknown", <<>>),
      Line("deb main", release, <<>>)>>

Distributions ==
    { [namespace |-> [os |-> "debian", version |-> <<8>>, format |-> "dpkg"], deciding |-> {},
       files |-> ("etc/os-release" :> OsRelease("debian", <<8>>)) @@
                 ("usr/lib/os-release" :> OsRelease("debian", <<8>>)) @@
                 ("etc/lsb-release" :> LsbRelease("debian", <<8, 1>>)) @@
                 ("etc/apt/sources.list" :> AptSources("jessie"))],
      [namespace |-> [os |-> "ubuntu", version |-> <<16, 4>>, format |-> "dpkg"], deciding |-> {},
       files |-> ("etc/os-release" :> OsRelease("ubuntu", <<16, 4>>)) @@
                 ("etc/lsb-release" :> LsbRelease("ubuntu", <<16, 4>>)) @@
                 ("etc/apt/sources.list" :> AptSources("xenial"))],
      [namespace |-> [os |-> "centos", version |-> <<7>>, format |-> "rpm"], deciding |-> {},
       files |-> ("etc/os-release" :> OsRelease("centos", <<7>>)) @@
                 ("etc/lsb-release" :> LsbRelease("centos", <<7, 1>>)) @@
                 ("etc/centos-release" :> Release("centos", <<7, 1, 1503>>)) @@
                 ("etc/system-release" :> Release("centos", <<7, 1, 1503>>))],
      [namespace |-> [os |-> "centos", version |-> <<7>>, format |-> "rpm"],
       deciding |-> {"etc/redhat-release"},
       files |-> ("etc/os-release" :> OsRelease("rhel", <<7, 2>>)) @@
                 ("etc/redhat-release" :> Release("rhel", <<7, 2>>)) @@
                 ("etc/system-release" :> Release("rhel", <<7, 2>>))],
      [namespace |-> [os |-> "oracle", version |-> <<7>>, format |-> "rpm"],
       deciding |-> {"etc/oracle-release"},
       files |-> ("etc/os-release" :> OsRelease("ol", <<7, 2>>)) @@
                 ("etc/redhat-release" :> Release("rhel", <<7, 2>>)) @@
                 ("etc/oracle-release" :> Release("oracle", <<7, 2>>))],
      [namespace |-> [os |-> "alpine", version |-> <<3, 4>>, format |-> "dpkg"],
       deciding |-> {"etc/alpine-release"},
       files |-> ("etc/os-release" :> OsRelease("alpine", <<3, 4, 6>>)) @@
                 ("etc/alpine-release" :> <<Line("number", "", <<3, 4, 6>>)>>)] }

(* The archive of a layer with some of the files, perhaps with ./ before    *)
(* their names, an older copy of one, a directory and a backup file.        *)
Entry(name, kind, content) ==
    [name |-> name, kind |-> kind, size |-> "small", content |-> content]
ArchiveOf(distribution, present, dot, noise) ==
    LET names == SetToSeq(present)
        Name(f) == IF dot THEN <<"./", f>> ELSE <<f>>
        files == [i \in DOMAIN names |->
                    Entry(Name(names[i]), "regular", distribution.files[names[i]])]
        before == <<Entry(<<"etc">>, "directory", <<>>),
                    Entry(Name(names[1]), "regular", OsRelease("fedora", <<20>>))>>
        after == <<Entry(<<"etc/os-release", ".bak">>, "regular", OsRelease("fedora", <<20>>))>>
    IN  IF noise THEN before \o files \o after ELSE files
MCLayers ==
    UNION { { [namespace |-> d.namespace, deciding |-> d.deciding, files |-> Restrict(d.files, present),
               archive |-> ArchiveOf(d, present, dot, noise)] :
                present \in SUBSET DOMAIN d.files \ {{}},
                dot \in BOOLEAN, noise \in BOOLEAN } : d \in Distributions }

BadVersion == <<Hyphen>>
Stanzas ==
    [name : {"a", "b"}, version : {<<One>>, BadVersion}, source : {""}, sourceVersion : {<<>>}]
    \cup [name : {"a"}, version : {<<One>>, BadVersion}, source : {"s"},
          sourceVersion : {<<>>, <<Two>>, BadVersion}]
MCPackageFiles == UNION { [1 .. n -> Stanzas] : n \in 1 .. 3 }

MCSourceTexts ==
    { p \o s : p \in SeqOf({LetterA, Hyphen, Dot}, 6),
               s \in { <<Dot>> \o SrcText \o <<Dot>> \o RpmText,
                       <<Dot>> \o NosrcText \o <<Dot>> \o RpmText,
                       <<Dot>> \o RpmText, <<Dot>> \o RpmText \o <<Dot>> \o SrcText, <<>> } }

Criterion(kind, os, package, version) ==
    [kind |-> kind, os |-> os, package |-> package, version |-> version]
Criterions == { Criterion("installed", 6, "", <<>>), Criterion("earlier", 0, "a", <<One>>),
                Criterion("earlier", 0, "b", <<Two>>), Criterion("ignored", 0, "", <<>>) }
Leaves == [operator : {"AND", "OR"}, criterias : {<<>>}, criterions : SeqOf(Criterions, 2)]
MCCriteriaTrees ==
    Leaves \cup [operator : {"AND", "OR"}, criterias : SeqOf(Leaves, 2) \ {<<>>},
                 criterions : {<<>>, <<Criterion("earlier", 0, "b", <<Two>>)>>}]

MCUbuntuFiles ==
    [name : {"CVE-1"}, priority : {"low"},
     lines : SeqOf([release : {"xenial", "bionic"}, package : {"a", "linux"},
                    status : {"needed"}, note : {<<>>}]
                   \cup [release : {"xenial", "upstream", "unknown"}, package : {"a", "b"},
                         status : {"released", "DNE"}, note : {<<>>, <<One>>}]
                   \cup [release : {"xenial"}, package : {"a"},
                         status : {"released"}, note : {BadVersion}], 3)]

(* The nodes of a package, and those of a vulnerability in it, are visited  *)
(* one after the other.                                                     *)
Together(d, Key(_)) ==
    \A i, j, k \in DOMAIN d : i < j /\ j < k /\ Key(d[i]) = Key(d[k]) => Key(d[j]) = Key(d[i])
MCDebianDocuments ==
    LET Nodes == [package : {"a"}, name : {"CVE-1", "TEMP"}, release : {"jessie", "stretch"},
                  status : {"open", "resolved"}, fixedVersion : {<<Zero>>, <<One>>},
                  urgency : {"low", "high"}]
                 \cup [package : {"b"}, name : {"CVE-1"}, release : {"jessie", "unknown"},
                       status : {"resolved", "undetermined"}, fixedVersion : {<<One>>, BadVersion},
                       urgency : {"medium"}]
    IN  { d \in SeqOf(Nodes, 3) :
            /\ IsInjective([i \in DOMAIN d |-> <<d[i].package, d[i].name, d[i].release>>])
            /\ Together(d, LAMBDA n : n.package)
            /\ Together(d, LAMBDA n : <<n.package, n.name>>) }

(* What the sources answer for small documents.                             *)
UbuntuAnswers ==
    { <<parseUbuntuCVE([name |-> "CVE-1", priority |-> p, lines |->
          <<[release |-> "xenial", package |-> "a", status |-> "needed", note |-> <<>>],
            [release |-> "bionic", package |-> "a", status |-> "released", note |-> <<One>>]>>]).vulnerability>> :
        p \in {"low", "untriaged"} }
AlpineAnswers ==
    { alpineVulnerabilities([distro |-> "v3.4", fixes |->
          <<[package |-> "a", version |-> <<One>>, names |-> <<"CVE-1", "CVE-2">>],
            [package |-> p, version |-> v, names |-> <<"CVE-1">>]>>]) :
        p \in {"a", "b"}, v \in {<<Two>>, BadVersion} }
Definition(name, references, cves) ==
    [name |-> name, severity |-> "moderate", references |-> references, cves |-> cves,
     criteria |-> [operator |-> "AND", criterions |-> <<Criterion("installed", 6, "", <<>>)>>,
                   criterias |-> <<[operator |-> "OR", criterias |-> <<>>, criterions |->
                        <<Criterion("earlier", 0, "a", <<One>>), Criterion("earlier", 0, "b", <<Two>>)>>]>>]]
OvalAnswers ==
    { parseELSA(Definition("ELSA-1", 1, <<>>)),
      parseRHSA(Definition("RHSA-1", 1, <<>>)),
      parseRHSA(Definition("RHSA-1", 2, <<[name |-> "CVE-1", impact |-> "low"],
                                          [name |-> "CVE-2", impact |-> ""]>>)) }
DebianAnswers ==
    { SetToSeq(parseDebianJSON(<<[package |-> "a", name |-> "CVE-1", release |-> "jessie", status |-> s,
                                  fixedVersion |-> <<One>>, urgency |-> "high"]>>)) :
        s \in {"open", "resolved", "undetermined"} }
MCUpdates ==
    LET answers == UbuntuAnswers \cup AlpineAnswers \cup OvalAnswers \cup DebianAnswers
    IN  { a \o b \o c : a, b, c \in answers }
=============================================================================
