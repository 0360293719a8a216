---------------------------- MODULE ChecksumReport ----------------------------
(***************************************************************************)
(* What duplicate_file_detection promises of two files that sha256sum      *)
(* wrote.  Each line is a checksum, two blanks and a path, behind a        *)
(* backslash when sha256sum had to escape the path.  A line is known by    *)
(* where it starts, and its number is how many start before it.            *)
(***************************************************************************)
EXTENDS DuplicateFiles, FiniteSetsExt

CONSTANTS Blank, Backslash

ASSUME BlankAssumption == Blank \in Char /\ Backslash \in Char

Starts(text) == {p \in 1 .. Len(text) : p = 1 \/ text[p - 1] = NL}
Rank(text, p) == Cardinality({q \in Starts(text) : q < p})
Lines(text) == Cardinality(Starts(text))

EndOf(text, p) ==
    LET ends == {k \in p .. Len(text) : text[k] = NL}
    IN  IF ends = {} THEN Len(text) ELSE Min(ends) - 1

SumAt(text, p) == IF text[p] = Backslash THEN p + 1 ELSE p
SumOf(text, p) == text[SumAt(text, p)]
PathIn(text, p) == SubSeq(text, SumAt(text, p) + 3, EndOf(text, p))

IsEntry(text, p) ==
    LET s == SumAt(text, p)
    IN  /\ s + 3 <= EndOf(text, p)
        /\ text[s] \in Sum /\ text[s + 1] = Blank /\ text[s + 2] = Blank

WellFormed(text) == text # Missing /\ \A p \in Starts(text) : IsEntry(text, p)

BothWellFormed == \A s \in Which : WellFormed(files[s])

\* The arrays hold, at every moment, the first lines of the files sha256sum
\* wrote: the checksum of a line with the path of that line (s1.l lines 15-26).
ArraysFollowTheLines ==
    \A s \in Which :
        WellFormed(files[s]) =>
            /\ idx[s] <= Lines(files[s])
            /\ \A p \in Starts(files[s]) :
                  LET k == Rank(files[s], p)
                  IN  k < idx[s] => /\ checksum[s][k] = SumOf(files[s], p)
                                    /\ filepath[s][k] = PathIn(files[s], p)

\* The pairs of lines with equal checksums, and those that a report in the order
\* of the first file, and for each of its lines in that of the second, has before.
Pairs == {o \in Starts(files[1]) \X Starts(files[2]) :
             SumOf(files[1], o[1]) = SumOf(files[2], o[2])}
Earlier(o) == {e \in Pairs : e[1] < o[1] \/ (e[1] = o[1] /\ e[2] < o[2])}

\* What main prints for two such files (lines 62-68) is, pair by pair and in
\* order, the join of their lines on the checksum, and all of it when it
\* returns 0.
ReportIsTheJoin ==
    BothWellFormed =>
        /\ Len(printed) <= Cardinality(Pairs)
        /\ \A o \in Pairs :
              LET n == Cardinality(Earlier(o)) + 1
              IN  n <= Len(printed) =>
                      printed[n] = <<PathIn(files[1], o[1]), PathIn(files[2], o[2])>>
        /\ status = 0 => Len(printed) = Cardinality(Pairs)

\* The unchecked arrays (main.c lines 11-19) overflow exactly for a file of
\* more than ARRAY_MAX_LEN lines: for two files sha256sum wrote, main returns
\* 0 when they fit and has no defined behaviour otherwise.
UndefinedExactlyWhenTooLong ==
    BothWellFormed =>
        LET fit == \A s \in Which : Lines(files[s]) <= MaxLen IN
        /\ pc = "undefined" => ~fit
        /\ status = 0 => fit

=============================================================================
