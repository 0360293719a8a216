----------------------------- MODULE LatexRepl -----------------------------
(***************************************************************************)
(* latex_repl.l: LaTeX commands are written as the character they name,    *)
(* with wprintf, and everything else is echoed, with fwrite.  A stream is  *)
(* wide or narrow from the first character on, and the C library refuses   *)
(* what is written to it in the other way.                                 *)
(*                                                                         *)
(* Of the 2444 rules, which differ in the name and the code only, there    *)
(* are those of Names: names that begin with another name, and codes in    *)
(* and out of the ASCII range.                                             *)
(***************************************************************************)
EXTENDS TextScanner

VARIABLE orientation  \* of stdout: "none", "wide" or "narrow"

Names == {<<"\\", "dot">>, <<"\\", "dot", "eq">>, <<"\\", "bar">>, <<"\\", "bar", "wedge">>,
          <<"\\", "mathdollar">>, <<"\\", "equal">>}
CodeOf(name) ==
  CASE name = <<"\\", "dot">> -> 775
    [] name = <<"\\", "dot", "eq">> -> 8784
    [] name = <<"\\", "bar">> -> 772
    [] name = <<"\\", "bar", "wedge">> -> 8892
    [] name = <<"\\", "mathdollar">> -> 36
    [] name = <<"\\", "equal">> -> 61

\* wprintf in the locale the program starts with, as it does not set another.
Character(code) == IF code < 128 THEN code ELSE "?"

\* The rule for the longest name ahead.
Longest(names) == CHOOSE n \in names : \A other \in names : Len(other) <= Len(n)
NamesAhead == {n \in Names : Ahead(n)}

\* A bug: every call reopens the stream, so that each kind of output arrives.
AcceptsAny(way) == TRUE
Accepts(way) == orientation \in {"none", way}

Write(way, what) ==
  /\ orientation' = IF orientation = "none" THEN way ELSE orientation
  /\ out' = IF Accepts(way) THEN out \o what ELSE out

print_unicode ==
  /\ Runs("latex") /\ NamesAhead # {}
  /\ LET name == Longest(NamesAhead)
     IN  /\ Write("wide", <<[char |-> Character(CodeOf(name))]>>)
         /\ Take(Len(name))
  /\ UNCHANGED start

EchoOne ==
  /\ Runs("latex") /\ More /\ NamesAhead = {}
  /\ Write("narrow", EchoNext(1))
  /\ Take(1)
  /\ UNCHANGED start

LatexReturn == Ends("latex", <<>>) /\ UNCHANGED orientation

LatexNext == print_unicode \/ EchoOne \/ LatexReturn

LatexInit == ScannerInit /\ orientation = "none"

LatexSpec == LatexInit /\ [][LatexNext]_<<scanned, orientation>>

-----------------------------------------------------------------------------
\* The reference: the text in commands and single symbols, of which those that
\* are commands, or those that are not, are kept.
NamesAt(t, k) == {n \in Names : k + Len(n) <= Len(t) /\ SubSeq(t, k + 1, k + Len(n)) = n}
PieceAt(t, k) == IF NamesAt(t, k) = {} THEN SubSeq(t, k + 1, k + 1) ELSE Longest(NamesAt(t, k))
Shown(piece) ==
  IF piece \in Names THEN [char |-> Character(CodeOf(piece))] ELSE Echoed(piece[1])

KeptFrom(t, commands) ==
  LET from[k \in 0..Len(t)] ==
        IF k = Len(t) THEN <<>>
        ELSE LET piece == PieceAt(t, k)
                 kept == IF (piece \in Names) = commands THEN <<Shown(piece)>> ELSE <<>>
             IN  kept \o from[k + Len(piece)]
  IN  from

\* What the first piece of a text is decides of all of latex_repl's output: only
\* characters of commands arrive, or only echoed text, in the order of the text
\* (print_unicode, latex_repl.l:6-8, against the echo of flex).
FirstPieceDecides ==
  program = "latex" /\ scanner = "ended" /\ text # <<>> =>
    out = KeptFrom(text, NamesAt(text, 0) # {})[0]

=============================================================================
