-------------------------- MODULE MCDuplicateFiles --------------------------
(* TLC instance of DuplicateFiles: arrays of two entries, files of up to     *)
(* three sha256sum lines (one too many for the arrays), and texts that       *)
(* sha256sum never writes.                                                   *)
EXTENDS ChecksumReport, SequencesExt

\* "<sum>  <path>\n"; sha256sum writes a backslash first when it escaped the path.
LineOf(prefix, sum, path) == prefix \o <<sum, " ", " ">> \o path \o <<NL>>

SampleLines == {LineOf(<<>>, s, p) : s \in {"A", "B"}, p \in {<<"p">>, <<"q">>}}
         \cup {LineOf(<<"bs">>, "A", <<"p", "q">>), LineOf(<<>>, "B", <<"A">>)}

Sha256sum(n) ==
    {FlattenSeq(ls) : ls \in UNION {[1 .. k -> SampleLines] : k \in 0 .. n}}

Strange == UNION {[1 .. k -> {"A", "p", " ", NL}] : k \in 0 .. 4}

Sample == LineOf(<<>>, "A", <<"q">>)

MCFile == (Sha256sum(2) \X Sha256sum(1))
          \cup (Sha256sum(3) \X {Sample})
          \cup ({Sample} \X Sha256sum(3))
          \cup (Strange \X {Sample, Missing})
          \cup ({Sample, Missing} \X Strange)

=============================================================================
