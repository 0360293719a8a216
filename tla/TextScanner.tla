---------------------------- MODULE TextScanner ----------------------------
(***************************************************************************)
(* What the small scanners of the repository have in common: a text that   *)
(* is matched from its beginning, a start condition, and what is written.  *)
(* A symbol of the text is a byte, or a word that no rule divides.  One    *)
(* step is one match.                                                      *)
(***************************************************************************)
EXTENDS Integers, Sequences, SequencesExt

CONSTANTS Input  \* programs with the texts they may read

\* No symbol is the empty word, which Peek gives behind the end of a text.
Symbol == STRING \ {""}

ASSUME InputAssumption == \A i \in Input : i[2] \in Seq(Symbol)

Digit == {"0", "1", "2", "3", "4", "5", "6", "7", "8", "9"}
Newline == "\n"

VARIABLES program, text,
          at,       \* symbols matched
          start,    \* the start condition
          out,      \* what was echoed and printed
          scanner   \* "runs", "ended" when main has returned, or "overflow"

scanned == <<program, text, at, start, out, scanner>>

ScannerInit ==
  /\ \E i \in Input : program = i[1] /\ text = i[2]
  /\ at = 0
  /\ start = "INITIAL"
  /\ out = <<>>
  /\ scanner = "runs"

Runs(p) == scanner = "runs" /\ program = p
More == at < Len(text)

\* The symbol behind the next n, or none; and the symbols ahead.
Peek(n) == IF at + n < Len(text) THEN text[at + n + 1] ELSE ""
Head1 == Peek(0)
Following(n) == SubSeq(text, at + 1, at + n)
Ahead(word) == at + Len(word) <= Len(text) /\ Following(Len(word)) = word
AtLineStart == at > 0 => text[at] = Newline

\* How many of the symbols behind the next k are of a class: what class* matches.
SpanAt(k, class) ==
  CHOOSE n \in 0..Len(text) :
    /\ \A i \in 0..(n - 1) : Peek(k + i) \in class \ {""}
    /\ Peek(k + n) \notin class \ {""}
Span(class) == SpanAt(0, class)
Until(c) == Span({text[i] : i \in 1..Len(text)} \ {c})

Numeral == <<"0", "1", "2", "3", "4", "5", "6", "7", "8", "9">>
DigitValue == [d \in Digit |-> CHOOSE v \in 0..9 : Numeral[v + 1] = d]
atol(ds) ==
  LET value[n \in 0..Len(ds)] == IF n = 0 THEN 0 ELSE 10 * value[n - 1] + DigitValue[ds[n]]
  IN  value[Len(ds)]

Take(n) == at' = at + n /\ UNCHANGED <<program, text, scanner>>
Echoed(symbol) == [echo |-> symbol]
EchoNext(n) == [i \in 1..n |-> Echoed(Peek(i - 1))]
Echo == Take(1) /\ out' = Append(out, Echoed(Head1))

\* yylex and main return, after main printed a result.
Ends(p, result) ==
  /\ Runs(p) /\ ~More
  /\ out' = out \o result
  /\ scanner' = "ended"
  /\ UNCHANGED <<program, text, at, start>>
=============================================================================
