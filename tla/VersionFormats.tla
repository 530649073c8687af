--------------------------- MODULE VersionFormats ---------------------------
(***************************************************************************)
(* The version formats (ext/versionfmt): how the text of a package version *)
(* is parsed and how two versions compare, for dpkg and for rpm.  A text   *)
(* is a sequence of character codes, because the comparisons work on the   *)
(* codes.  Compare returns Err and newVersion NoVersion where the code     *)
(* returns an error.                                                       *)
(*                                                                         *)
(* The keys at the end give the order that each comparison should be: a    *)
(* text is mapped to a sequence of numbers, and texts compare as their     *)
(* sequences do.                                                           *)
(***************************************************************************)
EXTENDS Integers, Sequences, FiniteSets, SequencesExt

Space == 32
Hash == 35
Plus == 43
Hyphen == 45
Dot == 46
Zero == 48
Colon == 58
Underscore == 95
Tilde == 126
IsDigit(c) == c \in 48 .. 57
IsLetter(c) == c \in 65 .. 90 \cup 97 .. 122

MinVersion == <<Hash, 77, 73, 78, 86, Hash>>
MaxVersion == <<Hash, 77, 65, 88, 86, Hash>>

\* What Compare and newVersion return together with an error.
Err == 2
NoVersion == [epoch |-> -1, version |-> <<>>, revision |-> <<>>]

signum(a) == IF a < 0 THEN -1 ELSE IF a > 0 THEN 1 ELSE 0

\* The longest prefix of t whose characters all satisfy Test, and the rest.
PrefixOf(t, Test(_)) ==
    LET first == SelectInSeq(t, LAMBDA c : ~Test(c))
    IN  IF first = 0 THEN t ELSE SubSeq(t, 1, first - 1)
After(t, prefix) == SubSeq(t, Len(prefix) + 1, Len(t))
Digits(t) == PrefixOf(t, IsDigit)
TrimZeros(t) == After(t, PrefixOf(t, LAMBDA c : c = Zero))

\* The first difference of two texts of equal length, 0 if there is none.
FirstDifference(s, t) ==
    LET i == SelectInSeq([j \in 1 .. Len(s) |-> s[j] - t[j]], LAMBDA d : d # 0)
    IN  IF i = 0 THEN 0 ELSE s[i] - t[i]

TrimLeft(str) == After(str, PrefixOf(str, LAMBDA c : c = Space))
TrimSpace(str) == Reverse(TrimLeft(Reverse(TrimLeft(str))))

\* strconv.Atoi, with -1 for a text that is not a number without a minus sign.
Value(digits) == FoldLeft(LAMBDA n, c : 10 * n + (c - Zero), 0, digits)
Atoi(str) ==
    LET digits == IF str # <<>> /\ Head(str) = Plus THEN Tail(str) ELSE str
    IN  IF digits # <<>> /\ Digits(digits) = digits THEN Value(digits) ELSE -1

-----------------------------------------------------------------------------
\* Faulty variants of the definitions below, as a mistake in the code would
\* make them.
orderTildeLast(c) ==
    IF IsDigit(c) THEN 0 ELSE IF IsLetter(c) THEN c ELSE c + 256
compareSegmentsAlphaFirst(s, t) ==
    CASE Head(s) = Tilde /\ Head(t) = Tilde -> 0
      [] Head(s) = Tilde -> -1
      [] Head(t) = Tilde -> 1
      [] IsDigit(Head(s)) /\ IsDigit(Head(t)) ->
            LET x == TrimZeros(s)  y == TrimZeros(t)
            IN  IF Len(x) # Len(y) THEN signum(Len(x) - Len(y))
                ELSE signum(FirstDifference(x, y))
      [] IsDigit(Head(s)) -> -1
      [] IsDigit(Head(t)) -> 1
      [] OTHER ->
            LET n == IF Len(s) < Len(t) THEN Len(s) ELSE Len(t)
                d == FirstDifference(SubSeq(s, 1, n), SubSeq(t, 1, n))
            IN  IF d # 0 THEN signum(d) ELSE signum(Len(s) - Len(t))

\* The epoch before the first colon, the version and, after the hyphen, the
\* revision.
splitVersion(str, colon, hyphen) ==
    [epoch |-> IF colon = 0 THEN 0 ELSE Atoi(SubSeq(str, 1, colon - 1)),
     version |-> SubSeq(str, colon + 1, IF hyphen = 0 THEN Len(str) ELSE hyphen - 1),
     revision |-> IF hyphen = 0 THEN <<>> ELSE SubSeq(str, hyphen + 1, Len(str))]

Allowed(t, symbols) ==
    \A i \in DOMAIN t : IsDigit(t[i]) \/ IsLetter(t[i]) \/ t[i] \in symbols
checkVersion(str, v, VersionSymbols, RevisionSymbols) ==
    CASE str \in {MinVersion, MaxVersion} ->
            [epoch |-> 0, version |-> str, revision |-> <<>>]
      [] /\ str # <<>> /\ v.epoch >= 0 /\ v.version # <<>>
         /\ Allowed(v.version, VersionSymbols)
         /\ Allowed(v.revision, RevisionSymbols) -> v
      [] OTHER -> NoVersion

\* newVersion of both formats, after TrimSpace.  The hyphen that starts the
\* revision is the last one for dpkg and the first one for rpm.
newVersion(str, hyphen, VersionSymbols, RevisionSymbols) ==
    checkVersion(str, splitVersion(str, SelectInSeq(str, LAMBDA c : c = Colon), hyphen),
                 VersionSymbols, RevisionSymbols)

dpkgVersion(text) ==
    LET str == TrimSpace(text)
    IN  newVersion(str, SelectLastInSeq(str, LAMBDA c : c = Hyphen),
                   {Dot, Hyphen, Plus, Tilde, Colon, Underscore},
                   {Dot, Plus, Tilde, Underscore})

rpmVersion(text) ==
    LET str == TrimSpace(text)
    IN  newVersion(str, SelectInSeq(str, LAMBDA c : c = Hyphen),
                   {Dot, Hyphen, Plus, Tilde, Colon, Underscore},
                   {Dot, Hyphen, Plus, Tilde, Colon, Underscore})

-----------------------------------------------------------------------------
order(c) ==
    CASE IsDigit(c) -> 0
      [] IsLetter(c) -> c
      [] c = Tilde -> -1
      [] OTHER -> c + 256

\* verrevcmp: characters other than digits compare by their order, the end of
\* a text and a digit having order 0; runs of digits compare as numbers.
RECURSIVE verrevcmp(_, _)
verrevcmp(t1, t2) ==
    LET NonDigit(t) == t # <<>> /\ ~IsDigit(Head(t))
        Order(t) == IF t = <<>> THEN 0 ELSE order(Head(t))
        d1 == TrimZeros(Digits(t1))
        d2 == TrimZeros(Digits(t2))
    IN  CASE t1 = <<>> /\ t2 = <<>> -> 0
          [] NonDigit(t1) \/ NonDigit(t2) ->
                IF Order(t1) # Order(t2) THEN Order(t1) - Order(t2)
                ELSE verrevcmp(Tail(t1), Tail(t2))
          [] Len(d1) # Len(d2) -> Len(d1) - Len(d2)
          [] d1 # d2 -> FirstDifference(d1, d2)
          [] OTHER -> verrevcmp(After(t1, Digits(t1)), After(t2, Digits(t2)))

\* rpmvercmp's segments: runs of letters, runs of digits and single tildes.
RECURSIVE Segments(_)
Segments(t) ==
    LET segment == CASE t = <<>> -> <<>>
                     [] Head(t) = Tilde -> <<Tilde>>
                     [] IsDigit(Head(t)) -> Digits(t)
                     [] OTHER -> PrefixOf(t, IsLetter)
    IN  IF t = <<>> THEN <<>>
        ELSE IF segment = <<>> THEN Segments(Tail(t))
        ELSE <<segment>> \o Segments(After(t, segment))

\* The body of rpmvercmp's loop, 0 to go on with the next segments.
compareSegments(s, t) ==
    CASE Head(s) = Tilde /\ Head(t) = Tilde -> 0
      [] Head(s) = Tilde -> -1
      [] Head(t) = Tilde -> 1
      [] IsDigit(Head(s)) /\ IsDigit(Head(t)) ->
            LET x == TrimZeros(s)  y == TrimZeros(t)
            IN  IF Len(x) # Len(y) THEN signum(Len(x) - Len(y))
                ELSE signum(FirstDifference(x, y))
      [] IsDigit(Head(s)) -> 1
      [] IsDigit(Head(t)) -> -1
      [] OTHER ->
            LET n == IF Len(s) < Len(t) THEN Len(s) ELSE Len(t)
                d == FirstDifference(SubSeq(s, 1, n), SubSeq(t, 1, n))
            IN  IF d # 0 THEN signum(d) ELSE signum(Len(s) - Len(t))

\* rpmvercmp: the first segments that differ decide; then the longer list of
\* segments wins, unless it goes on with a tilde.
rpmvercmp(strA, strB) ==
    LET a == Segments(strA)
        b == Segments(strB)
        segs == IF Len(a) < Len(b) THEN Len(a) ELSE Len(b)
        i == SelectInSeq([j \in 1 .. segs |-> compareSegments(a[j], b[j])],
                         LAMBDA d : d # 0)
    IN  CASE i # 0 -> compareSegments(a[i], b[i])
          [] Len(a) = Len(b) -> 0
          [] Len(a) > segs /\ Head(a[segs + 1]) = Tilde -> -1
          [] Len(b) > segs /\ Head(b[segs + 1]) = Tilde -> 1
          [] OTHER -> signum(Len(a) - Len(b))

\* parser.Compare of both formats, given what the format's comparison returns
\* for the versions and for the revisions.
compareVersions(v1, v2, byVersion, byRevision) ==
    LET min(v) == v.version = MinVersion
        max(v) == v.version = MaxVersion
    IN  CASE NoVersion \in {v1, v2} -> Err
          [] v1 = v2 -> 0
          [] min(v1) \/ max(v2) -> -1
          [] min(v2) \/ max(v1) -> 1
          [] v1.epoch # v2.epoch -> signum(v1.epoch - v2.epoch)
          [] byVersion # 0 -> signum(byVersion)
          [] OTHER -> signum(byRevision)
dpkgCompare(a, b) ==
    LET v1 == dpkgVersion(a)  v2 == dpkgVersion(b)
    IN  compareVersions(v1, v2, verrevcmp(v1.version, v2.version),
                        verrevcmp(v1.revision, v2.revision))
rpmCompare(a, b) ==
    LET v1 == rpmVersion(a)  v2 == rpmVersion(b)
    IN  compareVersions(v1, v2, rpmvercmp(v1.version, v2.version),
                        rpmvercmp(v1.revision, v2.revision))

\* The registered parsers, and the helpers of the driver that look one up.
Parsers == {"dpkg", "rpm"}
Parse(format, text) == IF format = "dpkg" THEN dpkgVersion(text) ELSE rpmVersion(text)
Valid(format, text) == format \in Parsers /\ Parse(format, text) # NoVersion
Compare(format, a, b) ==
    CASE format = "dpkg" -> dpkgCompare(a, b)
      [] format = "rpm" -> rpmCompare(a, b)
      [] OTHER -> Err
InRange(format, version, range) == Compare(format, version, range) < 0

-----------------------------------------------------------------------------
\* Sequences of integers compare lexicographically, as if zeros followed.
SeqCompare(s, t) ==
    LET At(u, i) == IF i \in DOMAIN u THEN u[i] ELSE 0
        longest == IF Len(s) < Len(t) THEN Len(t) ELSE Len(s)
        i == SelectInSeq([j \in 1 .. longest |-> At(s, j) - At(t, j)], LAMBDA d : d # 0)
    IN  IF i = 0 THEN 0 ELSE signum(At(s, i) - At(t, i))

\* Debian policy: the parts without digits by their modified character codes,
\* each ended by 0, and the numbers between them by their value.
RECURSIVE dpkgKey(_)
dpkgKey(t) ==
    LET Modified(c) == IF c = Tilde THEN -1 ELSE IF IsLetter(c) THEN c ELSE c + 1000
        text == PrefixOf(t, LAMBDA c : ~IsDigit(c))
        number == Digits(After(t, text))
    IN  IF t = <<>> THEN <<>>
        ELSE [i \in DOMAIN text |-> Modified(text[i])] \o <<0, Value(number)>>
             \o dpkgKey(After(t, text \o number))

\* rpm: a tilde comes before the end of a text, which comes before letters,
\* which come before numbers.
rpmKey(t) ==
    FlattenSeq([i \in DOMAIN Segments(t) |->
        LET s == Segments(t)[i]
        IN  CASE Head(s) = Tilde -> <<-1>>
              [] IsDigit(Head(s)) -> <<1000, Value(s)>>
              [] OTHER -> s \o <<0>>])

\* The key of a text that parses, and the order of keys.
KeyOf(format, text) ==
    LET v == Parse(format, text)
        Key(t) == IF format = "dpkg" THEN dpkgKey(t) ELSE rpmKey(t)
    IN  CASE v.version = MinVersion -> [rank |-> <<-1>>, version |-> <<>>, revision |-> <<>>]
          [] v.version = MaxVersion -> [rank |-> <<1>>, version |-> <<>>, revision |-> <<>>]
          [] OTHER -> [rank |-> <<0, v.epoch>>, version |-> Key(v.version),
                       revision |-> Key(v.revision)]
KeyCompare(k, l) ==
    LET results == << SeqCompare(k.rank, l.rank), SeqCompare(k.version, l.version),
                      SeqCompare(k.revision, l.revision) >>
        i == SelectInSeq(results, LAMBDA r : r # 0)
    IN  IF i = 0 THEN 0 ELSE results[i]
=============================================================================
