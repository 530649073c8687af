------------------------------ MODULE Detection ------------------------------
(***************************************************************************)
(* What the scanner reads out of one layer: the files extracted from its   *)
(* archive (ext/imagefmt, pkg/tarutil), the namespace found in them by the *)
(* detectors (ext/featurens) and the features found by the listers         *)
(* (ext/featurefmt).                                                       *)
(*                                                                         *)
(* A file name is a sequence of pieces, so that one name can be a prefix   *)
(* of another.  The content of a release file is a sequence of lines       *)
(* [key, os, version], where a version is a sequence of numbers; the       *)
(* content of a package database is a sequence of lines [field, name,      *)
(* version], where a version is a text of VersionFormats.                  *)
(***************************************************************************)
EXTENDS VersionFormats

-----------------------------------------------------------------------------
(* Faulty variants of the definitions below, as a mistake in the code would *)
(* make them.                                                               *)
blacklistWithoutRedhat == {"etc/oracle-release", "usr/lib/centos-release"}
dpkgBlankKeepsPackage(pkg) == [pkg EXCEPT !.name = "", !.version = <<>>]
LastBeforeFirst(t, c, before) == SelectInSeq(SubSeq(t, 1, before - 1), LAMBDA d : d = c)

-----------------------------------------------------------------------------
(* The archive of a layer, a sequence of entries [name, kind, size, content] *)
TrimDot(name) == IF name # <<>> /\ Head(name) = "./" THEN Tail(name) ELSE name

\* The result of reading an archive: the files, or an error.
NoFiles == <<>>
ExtractEntry(result, entry, filenames) ==
    LET filename == TrimDot(entry.name)
        toBeExtracted == \E s \in filenames : IsPrefix(s, filename)
    IN  CASE ~result.ok -> result
          [] entry.kind = "corrupt" \/ (toBeExtracted /\ entry.size = "too big") ->
                [ok |-> FALSE, files |-> NoFiles]
          [] toBeExtracted /\ entry.kind \in {"symlink", "link", "regular"} ->
                [result EXCEPT !.files = (filename :> entry.content) @@ @]
          [] OTHER -> result

ExtractFiles(entries, filenames) ==
    FoldLeft(LAMBDA r, e : ExtractEntry(r, e, filenames),
             [ok |-> TRUE, files |-> NoFiles], entries)

\* The extractors: an appc archive keeps everything in its rootfs directory.
Extract(format, entries, toExtract) ==
    CASE format = "docker" -> ExtractFiles(entries, toExtract)
      [] format = "aci" -> ExtractFiles(entries, { <<"rootfs/">> \o f : f \in toExtract })
      [] OTHER -> [ok |-> FALSE, files |-> NoFiles]

-----------------------------------------------------------------------------
(* The namespace detectors, each a function of the extracted files.         *)
NoNamespace == [os |-> "", version |-> <<>>, format |-> ""]
HasFile(files, name) == <<name>> \in DOMAIN files
Lines(files, name) == IF HasFile(files, name) THEN files[<<name>>] ELSE <<>>

VersionFormat(os) ==
    CASE os \in {"debian", "ubuntu"} -> "dpkg"
      [] os \in {"centos", "rhel", "fedora", "amzn", "ol", "oracle"} -> "rpm"
      [] OTHER -> ""
Namespace(os, version, format) ==
    IF format = "" \/ version = <<>> THEN NoNamespace
    ELSE [os |-> os, version |-> version, format |-> format]

\* The last line with the key, the line that wins.
LastLine(lines, key) ==
    LET i == SelectLastInSeq(lines, LAMBDA l : l.key = key)
    IN  IF i = 0 THEN [key |-> key, os |-> "", version |-> <<>>] ELSE lines[i]

blacklistFilenames == {"etc/oracle-release", "etc/redhat-release", "usr/lib/centos-release"}
osrelease(files) ==
    LET lines == Lines(files, "etc/os-release") \o Lines(files, "usr/lib/os-release")
        os == LastLine(lines, "ID").os
    IN  IF \E f \in blacklistFilenames : HasFile(files, f) THEN NoNamespace
        ELSE Namespace(os, LastLine(lines, "VERSION_ID").version, VersionFormat(os))

\* The minor version is dropped only for an ID that was read before.
lsbrelease(files) ==
    LET Read(r, l) ==
            CASE l.key = "DISTRIB_ID" -> [r EXCEPT !.os = l.os]
              [] l.key = "DISTRIB_RELEASE" /\ r.os \in {"centos", "debian"} ->
                    [r EXCEPT !.version = SubSeq(l.version, 1, 1)]
              [] l.key = "DISTRIB_RELEASE" -> [r EXCEPT !.version = l.version]
              [] OTHER -> r
        read == FoldLeft(Read, [os |-> "", version |-> <<>>],
                         Lines(files, "etc/lsb-release"))
    IN  Namespace(read.os, read.version, VersionFormat(read.os))

\* A part of the mappings of release names to versions.
DebianReleasesMapping == [jessie |-> <<8>>, stretch |-> <<9>>]
UbuntuReleasesMapping == [xenial |-> <<16, 4>>, bionic |-> <<18, 4>>]
aptsources(files) ==
    LET lines == Lines(files, "etc/apt/sources.list")
        i == SelectInSeq(lines, LAMBDA l :
                /\ l.key = "deb main"
                /\ l.os \in DOMAIN DebianReleasesMapping \cup DOMAIN UbuntuReleasesMapping)
    IN  CASE i = 0 -> NoNamespace
          [] lines[i].os \in DOMAIN DebianReleasesMapping ->
                Namespace("debian", DebianReleasesMapping[lines[i].os], "dpkg")
          [] OTHER -> Namespace("ubuntu", UbuntuReleasesMapping[lines[i].os], "dpkg")

\* The first file that matches one of the three patterns; a release of RHEL is
\* given the namespace of CentOS.
redhatrelease(files) ==
    LET lines == FlattenSeq([i \in 1 .. 4 |-> Lines(files,
                    <<"etc/oracle-release", "etc/centos-release",
                      "etc/redhat-release", "etc/system-release">>[i])])
        i == SelectInSeq(lines, LAMBDA l : l.key = "release")
        Name(os) == IF os = "rhel" THEN "centos" ELSE os
    IN  IF i = 0 THEN NoNamespace
        ELSE Namespace(Name(lines[i].os), SubSeq(lines[i].version, 1, 1), "rpm")

alpinerelease(files) ==
    LET lines == Lines(files, "etc/alpine-release")
        i == SelectInSeq(lines, LAMBDA l : Len(l.version) = 3)
    IN  IF i = 0 THEN NoNamespace
        ELSE Namespace("alpine", SubSeq(lines[i].version, 1, 2), "dpkg")

NamespaceDetectors ==
    {"os-release", "lsb-release", "apt-sources", "redhat-release", "alpine-release"}
NamespaceFilenames(detector) ==
    CASE detector = "os-release" -> {"etc/os-release", "usr/lib/os-release"}
      [] detector = "lsb-release" -> {"etc/lsb-release"}
      [] detector = "apt-sources" -> {"etc/apt/sources.list"}
      [] detector = "redhat-release" -> {"etc/oracle-release", "etc/centos-release",
                                         "etc/redhat-release", "etc/system-release"}
      [] detector = "alpine-release" -> {"etc/alpine-release"}
RequiredFilenames(toUse) ==
    { <<f>> : f \in UNION { NamespaceFilenames(d) : d \in toUse } }

DetectBy(detector, files) ==
    CASE detector = "os-release" -> osrelease(files)
      [] detector = "lsb-release" -> lsbrelease(files)
      [] detector = "apt-sources" -> aptsources(files)
      [] detector = "redhat-release" -> redhatrelease(files)
      [] detector = "alpine-release" -> alpinerelease(files)
Detect(files, toUse) ==
    { n \in { [namespace |-> DetectBy(d, files), by |-> d] : d \in toUse } :
        n.namespace # NoNamespace }

-----------------------------------------------------------------------------
(* The feature listers.                                                     *)
NoPackage == [name |-> "", version |-> <<>>, sourceName |-> "", sourceVersion |-> <<>>]
validPackage(pkg) == pkg.name # "" /\ pkg.version # <<>>

addSourcePackage(pkg) ==
    [pkg EXCEPT !.sourceName = IF @ = "" THEN pkg.name ELSE @,
                !.sourceVersion = IF @ = <<>> THEN pkg.version ELSE @]

dpkgBlankLine(pkg) == NoPackage
dpkgLine(pkg, line) ==
    CASE line.field = "Package" -> [pkg EXCEPT !.name = line.name, !.version = <<>>]
      [] line.field = "Source" ->
            [pkg EXCEPT !.sourceName = line.name,
                        !.sourceVersion = IF Valid("dpkg", line.version) THEN line.version ELSE @]
      [] line.field = "Version" /\ Valid("dpkg", line.version) ->
            [pkg EXCEPT !.version = line.version]
      [] line.field = "blank" -> dpkgBlankLine(pkg)
      [] OTHER -> pkg

\* After every line, the package read so far is added once it is valid.
dpkgListFeatures(lines) ==
    LET Scan(s, line) ==
            LET pkg == dpkgLine(s.pkg, line)
            IN  IF validPackage(pkg)
                THEN [pkg |-> addSourcePackage(pkg), pkgs |-> s.pkgs \cup {addSourcePackage(pkg)}]
                ELSE [s EXCEPT !.pkg = pkg]
    IN  FoldLeft(Scan, [pkg |-> NoPackage, pkgs |-> {}], lines).pkgs

\* Here a package is added at the line that ends it, and forgotten only then.
apkListFeatures(lines) ==
    LET Scan(s, line) ==
            CASE line.field = "blank" /\ validPackage(s.pkg) ->
                    [pkg |-> NoPackage, pkgs |-> s.pkgs \cup {s.pkg}]
              [] line.field = "Package" -> [s EXCEPT !.pkg.name = line.name]
              [] line.field = "Version" /\ Valid("dpkg", line.version) ->
                    [s EXCEPT !.pkg.version = line.version]
              [] OTHER -> s
        last == FoldLeft(Scan, [pkg |-> NoPackage, pkgs |-> {}], lines)
    IN  last.pkgs \cup { pkg \in {last.pkg} : validPackage(pkg) }

\* parseSourceRPM reads name-version-release.src.rpm from its end.
LastBefore(t, c, before) == SelectLastInSeq(SubSeq(t, 1, before - 1), LAMBDA d : d = c)
RpmText == <<114, 112, 109>>
SrcText == <<115, 114, 99>>
NosrcText == <<110, 111, 115, 114, 99>>
NoSource == [name |-> <<>>, version |-> <<>>]
parseSourceRPM(text) ==
    LET type == LastBefore(text, Dot, Len(text) + 1)
        arch == LastBefore(text, Dot, type)
        release == LastBefore(text, Hyphen, arch)
        version == LastBefore(text, Hyphen, release)
        concatVersion == SubSeq(text, version + 1, arch - 1)
    IN  IF /\ 0 \notin {type, arch, release, version}
           /\ SubSeq(text, type + 1, Len(text)) = RpmText
           /\ SubSeq(text, arch + 1, type - 1) \in {SrcText, NosrcText}
           /\ release + 1 < arch
           /\ version + 1 < release
           /\ Valid("rpm", concatVersion)
           /\ version > 1
        THEN [name |-> SubSeq(text, 1, version - 1), version |-> concatVersion]
        ELSE NoSource

\* The rows that rpm prints; fields is the number of words in the row, and
\* the empty epoch, printed as (none), is left out of the version.
ignoredPackages == {"gpg-pubkey"}
rpmRowVersion(row) ==
    IF row.epoch = <<>> THEN row.version ELSE row.epoch \o <<Colon>> \o row.version
rpmListFeatures(rows) ==
    { [name |-> row.name, version |-> rpmRowVersion(row),
       sourceName |-> parseSourceRPM(row.source).name,
       sourceVersion |-> parseSourceRPM(row.source).version] :
        row \in { r \in rows : /\ r.fields = 3
                               /\ r.name \notin ignoredPackages
                               /\ Valid("rpm", rpmRowVersion(r))
                               /\ parseSourceRPM(r.source) # NoSource
                               /\ r.name # "" } }
=============================================================================
