------------------------------ MODULE Formats ------------------------------
(***************************************************************************)
(* Questions put to the pure parts of the program, one at a time: compare  *)
(* two versions, read a layer, read a package database, read the document  *)
(* of a vulnerability source, regroup what the sources answered.  Each     *)
(* answer is compared with a definition that says what it should be and    *)
(* not how it is computed.                                                 *)
(***************************************************************************)
EXTENDS Detection, Advisories

CONSTANTS VersionTexts,    \* texts of versions
          ImageFormats,    \* formats of layer archives
          Layers,          \* archives of layers, with the release they describe
          PackageFiles,    \* sequences of stanzas of a package database
          SourceTexts,     \* texts of source package names
          CriteriaTrees,   \* criteria of OVAL advisories
          UbuntuFiles,     \* files of the Ubuntu tracker
          DebianDocuments, \* sequences of nodes of the Debian document
          Updates          \* sequences of vulnerabilities

VARIABLE input             \* the question, NoInput between two questions

NoInput == [kind |-> "none"]
Ask(kind, values) ==
    /\ input = NoInput
    /\ \E value \in values : input' = [kind |-> kind, value |-> value]

Init == input = NoInput
AskVersion == Ask("version", VersionTexts)
AskLayer == Ask("layer", [layer : Layers, format : ImageFormats])
AskPackages == Ask("packages", PackageFiles)
AskSourceRPM == Ask("source rpm", SourceTexts)
AskCriteria == Ask("criteria", CriteriaTrees)
AskUbuntu == Ask("ubuntu", UbuntuFiles)
AskDebian == Ask("debian", DebianDocuments)
AskUpdate == Ask("update", Updates)
Done == input # NoInput /\ input' = NoInput

Next == \/ AskLayer \/ AskPackages \/ AskSourceRPM \/ AskCriteria
        \/ AskUbuntu \/ AskDebian \/ AskUpdate \/ AskVersion \/ Done
Spec == Init /\ [][Next]_input

-----------------------------------------------------------------------------
\* The texts that parse, and their keys, computed once.
ValidTexts == [f \in Parsers |-> { t \in VersionTexts : Valid(f, t) }]
Keys == [f \in Parsers |-> [t \in ValidTexts[f] |-> KeyOf(f, t)]]

\* Versions compare as each format says, so that Compare is a total order, with
\* #MINV# first and #MAXV# last, and InRange its strict part: dpkg's as Debian
\* policy orders them, rpm's segment by segment, with a tilde before the end of a
\* text, the end before letters and letters before numbers.
VersionOrder ==
    input.kind = "version" =>
        \A format \in Parsers : input.value \in ValidTexts[format] =>
            \A other \in ValidTexts[format] :
                LET expected == KeyCompare(Keys[format][input.value], Keys[format][other])
                IN  /\ Compare(format, input.value, other) = expected
                    /\ InRange(format, input.value, other) <=> expected < 0

\* A docker layer whose release files describe one release, and that has the
\* files which decide for its distribution, gets the namespace of that release
\* from every detector that finds anything, whichever of the other files it has.
\* And every release file is extracted, with the content that comes last in the
\* archive, whatever else it holds (ExtractFiles).  Without a deciding file the
\* detectors may disagree (osrelease, redhatrelease), and no detector looks for
\* the files of an appc archive where its extractor leaves them.
LayerNamespace ==
    input.kind = "layer" =>
        LET layer == input.value.layer
            Name(f) == IF input.value.format = "aci" THEN <<"rootfs/", f>> ELSE <<f>>
            archive == [i \in DOMAIN layer.archive |->
                IF input.value.format = "aci"
                THEN [layer.archive[i] EXCEPT !.name = <<"rootfs/">> \o TrimDot(@)]
                ELSE layer.archive[i]]
            extracted == Extract(input.value.format, archive,
                                 RequiredFilenames(NamespaceDetectors))
        IN  /\ extracted.ok
            /\ \A f \in DOMAIN layer.files :
                Name(f) \in DOMAIN extracted.files /\ extracted.files[Name(f)] = layer.files[f]
            /\ input.value.format = "docker" /\ layer.deciding \subseteq DOMAIN layer.files =>
                { n.namespace : n \in Detect(extracted.files, NamespaceDetectors) }
                    = {layer.namespace}

\* The lines of a package database, for its stanzas [name, version, source,
\* sourceVersion]; the last stanza may lack the blank line that ends it.
StanzaLines(stanza) ==
    <<[field |-> "Package", name |-> stanza.name, version |-> <<>>]>>
    \o (IF stanza.source = "" THEN <<>>
        ELSE <<[field |-> "Source", name |-> stanza.source, version |-> stanza.sourceVersion]>>)
    \o <<[field |-> "Version", name |-> "", version |-> stanza.version],
         [field |-> "Other", name |-> "", version |-> <<>>]>>
DatabaseLines(stanzas) ==
    LET blank == [field |-> "blank", name |-> "", version |-> <<>>]
    IN  FlattenSeq([i \in DOMAIN stanzas |-> StanzaLines(stanzas[i]) \o <<blank>>])

\* The packages of a dpkg or apk database are those of its stanzas with a valid
\* version: nothing of a stanza, or of one that was skipped, is attributed to
\* another, and the last one needs no line that ends it.
ListedPackages ==
    input.kind = "packages" =>
        LET lines == DatabaseLines(input.value)
            stanzas == { s \in Range(input.value) : Valid("dpkg", s.version) }
            dpkgPackage(s) ==
                [name |-> s.name, version |-> s.version,
                 sourceName |-> IF s.source = "" THEN s.name ELSE s.source,
                 sourceVersion |-> IF s.source # "" /\ Valid("dpkg", s.sourceVersion)
                                   THEN s.sourceVersion ELSE s.version]
        IN  \A n \in {0, 1} :
                LET text == SubSeq(lines, 1, Len(lines) - n)
                IN  /\ dpkgListFeatures(text) = { dpkgPackage(s) : s \in stanzas }
                    /\ apkListFeatures(text) =
                        { [NoPackage EXCEPT !.name = s.name, !.version = s.version] : s \in stanzas }

\* A source package name is accepted exactly if it can be read as
\* name-version-release.src.rpm, and then it is read that way; the packages of
\* a row with such a name, and no others, are listed.
SourceRPM ==
    input.kind = "source rpm" =>
        LET text == input.value
            Ends == { <<Dot>> \o arch \o <<Dot>> \o RpmText : arch \in {SrcText, NosrcText} }
            n == Len(text)
            Cut(i, j) == SubSeq(text, i, j)
            readings ==
                { r \in [name : 1 .. n, version : 1 .. n, release : { n - Len(e) : e \in Ends }] :
                    /\ r.name + 2 <= r.version /\ r.version + 2 <= r.release
                    /\ Cut(r.release + 1, n) \in Ends
                    /\ text[r.name + 1] = Hyphen /\ text[r.version + 1] = Hyphen
                    /\ Hyphen \notin Range(Cut(r.name + 2, r.version))
                    /\ Hyphen \notin Range(Cut(r.version + 2, r.release))
                    /\ Valid("rpm", Cut(r.name + 2, r.release)) }
            Row(name, epoch) ==
                [fields |-> 3, name |-> name, epoch |-> epoch, version |-> <<Zero>>, source |-> text]
            listed == rpmListFeatures({ Row(p, e) : p \in {"a", "gpg-pubkey"}, e \in {<<>>, <<Zero>>} })
        IN  \/ readings = {} /\ listed = {} /\ parseSourceRPM(text) = NoSource
            \/ \E r \in readings :
                /\ readings = {r}
                /\ parseSourceRPM(text) = [name |-> Cut(1, r.name),
                                           version |-> Cut(r.name + 2, r.release)]
                /\ listed = { [name |-> "a", version |-> v, sourceName |-> Cut(1, r.name),
                               sourceVersion |-> Cut(r.name + 2, r.release)] :
                                v \in {<<Zero>>, <<Zero, Colon, Zero>>} }

\* Whether a tree of criteria holds when the criterions of true do.
RECURSIVE Satisfied(_, _)
Satisfied(node, true) ==
    LET terms == [i \in DOMAIN node.criterias |-> Satisfied(node.criterias[i], true)]
        own == { c \in Range(node.criterions) : c.kind # "ignored" }
    IN  IF node.operator = "AND"
        THEN (\A i \in DOMAIN terms : terms[i]) /\ own \subseteq true
        ELSE (\E i \in DOMAIN terms : terms[i]) \/ own \cap true # {}

\* The possibilities of an advisory are its disjunctive normal form: its
\* criteria hold exactly if all criterions of one possibility do.
PossibilitiesAreDNF ==
    input.kind = "criteria" =>
        LET possibilities == getPossibilities(input.value)
            all == UNION { Range(p) : p \in Range(possibilities) }
        IN  \A true \in SUBSET all :
                Satisfied(input.value, true) <=>
                    \E p \in Range(possibilities) : Range(p) \subseteq true

\* Ubuntu: a tracker file lists, for every known release and package, the version
\* of the first line about them that gives one, so one affected feature at most;
\* a note of a released line is a version even if it cannot be parsed as one;
\* every unknown release with such a line is reported.
UbuntuFeatures ==
    input.kind = "ubuntu" =>
        LET file == input.value
            lines == SelectSeq(file.lines, LAMBDA l :
                        /\ l.package # "linux"
                        /\ l.status \notin {"DNE", "ignored"}
                        /\ l.release \notin ubuntuIgnoredReleases
                        /\ l.status = "released" => l.note # <<>>)
            known == { i \in DOMAIN lines : lines[i].release \in DOMAIN ubuntuReleases }
            first == { i \in known : \A j \in known :
                        (lines[j].release = lines[i].release /\ lines[j].package = lines[i].package)
                            => i <= j }
            Version(l) == IF l.status = "released" THEN l.note ELSE MaxVersion
            read == parseUbuntuCVE(file)
        IN  /\ Range(read.vulnerability.affected) =
                    { Affected(<<"ubuntu", ubuntuReleases[lines[i].release]>>,
                               lines[i].package, Version(lines[i])) : i \in first }
            /\ Len(read.vulnerability.affected) = Cardinality(first)
            /\ { lines[i].release : i \in DOMAIN lines \ known } \subseteq read.unknownReleases

\* Debian: a vulnerability is read exactly if a node of a known release is open
\* or gives a version that fixes it, and lists each such node's feature once,
\* in whichever order the maps of the document are walked.  Its severity is the
\* highest urgency of its nodes from the first of those on: of the nodes that
\* are visited earlier, which list nothing, the urgency is forgotten.
DebianFeatures ==
    input.kind = "debian" =>
        LET nodes == SelectSeq(input.value, LAMBDA n :
                        /\ n.release \in DOMAIN debianReleases
                        /\ n.name # "TEMP" /\ n.status # "undetermined")
            About(name) == { i \in DOMAIN nodes : nodes[i].name = name }
            Listed(name) ==
                { i \in About(name) :
                    \/ nodes[i].status = "open"
                    \/ Valid("dpkg", nodes[i].fixedVersion) /\ nodes[i].fixedVersion # <<Zero>> }
            Feature(n) == Affected(<<"debian", debianReleases[n.release]>>, n.package,
                                   IF n.status = "open" THEN MaxVersion ELSE n.fixedVersion)
            names == { name \in { n.name : n \in Range(nodes) } : Listed(name) # {} }
            read == parseDebianJSON(input.value)
        IN  /\ { v.name : v \in read } = names /\ Cardinality(read) = Cardinality(names)
            /\ \A v \in read :
                /\ Range(v.affected) = { Feature(nodes[i]) : i \in Listed(v.name) }
                /\ Len(v.affected) = Cardinality(Listed(v.name))
                /\ v.severity = Max({ SeverityFromUrgency(nodes[i].urgency) :
                                        i \in { k \in About(v.name) : k >= Min(Listed(v.name)) } })


\* The vulnerabilities of all sources are regrouped without losing, inventing
\* or moving an affected feature: there is one vulnerability for each namespace
\* and name, and it lists the features of that namespace given under that name.
Namespaced ==
    input.kind = "update" =>
        LET vulnerabilities == input.value
            response == doVulnerabilitiesNamespacing(vulnerabilities)
            Given(name) == UNION { Range(v.affected) : v \in { w \in Range(vulnerabilities) : w.name = name } }
            OfNamespace(features, namespace) ==
                { fv \in features : fv.namespace = namespace /\ wellFormed(fv) }
        IN  /\ \A v \in response :
                    /\ Range(v.affected) = OfNamespace(Given(v.name), v.namespace)
                    /\ \E w \in Range(vulnerabilities) : w.name = v.name /\ w.severity = v.severity
            /\ \A w \in Range(vulnerabilities) : \A fv \in Range(w.affected) :
                    wellFormed(fv) =>
                        Cardinality({ v \in response : v.name = w.name
                                                       /\ v.namespace = fv.namespace }) = 1
=============================================================================
