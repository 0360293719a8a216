------------------------------ MODULE SdsText ------------------------------
(***************************************************************************)
(* The functions of edit_distance/sds.c that compute on bytes: splitting   *)
(* and joining, quoting and reading arguments, and decimal numbers.  Bytes *)
(* are their codes in ASCII, as the functions tell single ones apart.      *)
(***************************************************************************)
EXTENDS Integers, Sequences, SequencesExt, FiniteSetsExt

-----------------------------------------------------------------------------
(* sdssplitlen, sdsjoinsds.                                                *)

\* The separator of length n is found at offset j of t.
FoundAt(t, j, sep) ==
  j + Len(sep) <= Len(t) /\ SubSeq(t, j + 1, j + Len(sep)) = sep

\* Where the loop of sdssplitlen is: the offset, where the element at work
\* starts, the elements and the slots allocated for them.
SplitPlace == [j : Nat, start : Nat, tokens : Seq(Seq(Nat)), slots : Nat]

\* The array grows when there is no room for this element and the final one.
SplitStep(t, sep, p) ==
  LET room == IF p.slots < Len(p.tokens) + 2 THEN 2 * p.slots ELSE p.slots
  IN  IF FoundAt(t, p.j, sep)
      THEN [j |-> p.j + Len(sep), start |-> p.j + Len(sep),
            tokens |-> Append(p.tokens, SubSeq(t, p.start + 1, p.j)), slots |-> room]
      ELSE [p EXCEPT !.j = @ + 1, !.slots = room]

SplitEnd(t, sep) ==
  LET end[p \in SplitPlace] ==
        IF p.j >= Len(t) - (Len(sep) - 1) THEN p ELSE end[SplitStep(t, sep, p)]
  IN  end

INITIAL_SLOTS == 5

Split(t, sep) ==
  LET end == SplitEnd(t, sep)[[j |-> 0, start |-> 0, tokens |-> <<>>, slots |-> INITIAL_SLOTS]]
  IN  IF t = <<>> THEN [tokens |-> <<>>, slots |-> INITIAL_SLOTS]
      ELSE [tokens |-> Append(end.tokens, SubSeq(t, end.start + 1, Len(t))),
            slots |-> end.slots]

\* What is left when malloc refuses the array, an element or a larger array:
\* the elements made so far and the array are freed, and the count is 0.
NoTokens == [tokens |-> <<>>, slots |-> 0]

\* What a call may return, for a separator that is not empty.
sdssplitlen(t, sep) == {Split(t, sep), NoTokens}

sdsjoinsds(tokens, sep) ==
  FlattenSeq([j \in 1..Len(tokens) |->
                tokens[j] \o (IF j # Len(tokens) THEN sep ELSE <<>>)])

-----------------------------------------------------------------------------
(* sdscatrepr: a byte as it is printed between quotes.                     *)

LF == 10
CR == 13
TAB == 9
BEL == 7
BS == 8
Space == 32
DQUOTE == 34
QUOTE == 39
BACKSLASH == 92

isprint(c) == c \in 32..126
isspace(c) == c \in 9..13 \cup {32}

Letter == [c \in {LF, CR, TAB, BEL, BS} |->
             CASE c = LF -> 110 [] c = CR -> 114 [] c = TAB -> 116
               [] c = BEL -> 97 [] c = BS -> 98]

HexDigit(n) == IF n < 10 THEN 48 + n ELSE 97 + n - 10
HexDigits == (48..57) \cup (97..102) \cup (65..70)
hex_digit_to_int(c) ==
  CASE c \in 48..57 -> c - 48 [] c \in 97..102 -> c - 97 + 10 [] c \in 65..70 -> c - 65 + 10

EscapedNoQuote(c) ==
  CASE c = BACKSLASH -> <<BACKSLASH, c>>
    [] c \in DOMAIN Letter -> <<BACKSLASH, Letter[c]>>
    [] isprint(c) /\ c # BACKSLASH -> <<c>>
    [] OTHER -> <<BACKSLASH, 120, HexDigit(c \div 16), HexDigit(c % 16)>>

Escaped(c) ==
  CASE c \in {BACKSLASH, DQUOTE} -> <<BACKSLASH, c>>
    [] c \in DOMAIN Letter -> <<BACKSLASH, Letter[c]>>
    [] isprint(c) /\ c \notin {BACKSLASH, DQUOTE} -> <<c>>
    [] OTHER -> <<BACKSLASH, 120, HexDigit(c \div 16), HexDigit(c % 16)>>

\* What sdscatrepr appends, in the pieces it appends it in.
ReprPieces(t) == <<<<DQUOTE>>>> \o [i \in 1..Len(t) |-> Escaped(t[i])] \o <<<<DQUOTE>>>>

-----------------------------------------------------------------------------
(* sdssplitargs.  line is what precedes the NUL; p is the index of the     *)
(* next byte.  The result has ok = FALSE where the function returns NULL   *)
(* for unbalanced quotes.                                                  *)

CString(t) == SubSeq(t, 1, Min({i \in 1..Len(t) : t[i] = 0} \cup {Len(t) + 1}) - 1)

Meant(c) == IF \E k \in DOMAIN Letter : Letter[k] = c
            THEN CHOOSE k \in DOMAIN Letter : Letter[k] = c ELSE c

\* The byte at place i; the NUL is behind the last one.
CharAt(line, i) == IF i \in 1..Len(line) THEN line[i] ELSE 0

\* Where the loop over one argument is, and the quotes it is in, if any.
ReadPlace == [p : Nat, mode : {Space, DQUOTE, QUOTE}, token : Seq(Nat)]

TokenEnds(line, q) ==
  CharAt(line, q.p) \in
    (IF q.mode = Space THEN {Space, LF, CR, TAB, 0} ELSE {q.mode, 0})

IsHex(line, p) ==
  /\ CharAt(line, p) = BACKSLASH /\ CharAt(line, p + 1) = 120
  /\ CharAt(line, p + 2) \in HexDigits /\ CharAt(line, p + 3) \in HexDigits

ReadStep(line, q) ==
  LET c == CharAt(line, q.p)
      next == CharAt(line, q.p + 1)
      hex == IsHex(line, q.p)
      to(n, mode, token) == [p |-> q.p + n, mode |-> mode, token |-> token]
      add(n, b) == to(n, q.mode, Append(q.token, b))
  IN  CASE q.mode = DQUOTE /\ hex ->
             add(4, 16 * hex_digit_to_int(CharAt(line, q.p + 2))
                      + hex_digit_to_int(CharAt(line, q.p + 3)))
        [] q.mode = DQUOTE /\ ~hex /\ c = BACKSLASH /\ next # 0 -> add(2, Meant(next))
        [] q.mode = QUOTE /\ c = BACKSLASH /\ next = QUOTE -> add(2, QUOTE)
        [] q.mode = Space /\ c \in {DQUOTE, QUOTE} -> to(1, c, q.token)
        [] OTHER -> add(1, c)

ReadEnd(line) ==
  LET end[q \in ReadPlace] == IF TokenEnds(line, q) THEN q ELSE end[ReadStep(line, q)]
  IN  end

\* A closing quote must be followed by a space or nothing at all.
ReadToken(line, p) ==
  LET q == ReadEnd(line)[[p |-> p, mode |-> Space, token |-> <<>>]]
      c == CharAt(line, q.p)
      next == CharAt(line, q.p + 1)
  IN  [ok |-> q.mode = Space \/ (c = q.mode /\ (next = 0 \/ isspace(next))),
       p |-> IF c = 0 THEN q.p ELSE q.p + 1,
       token |-> q.token]

ArgsPlace == [ok : BOOLEAN, p : Nat, vector : Seq(Seq(Nat))]

ArgsStep(line, q) ==
  LET r == ReadToken(line, q.p)
  IN  IF isspace(CharAt(line, q.p)) THEN [q EXCEPT !.p = @ + 1]
      ELSE [ok |-> r.ok, p |-> r.p, vector |-> Append(q.vector, r.token)]

ArgsEnd(line) ==
  LET end[q \in ArgsPlace] ==
        IF ~q.ok \/ CharAt(line, q.p) = 0 THEN q ELSE end[ArgsStep(line, q)]
  IN  end

sdssplitargs(t) ==
  LET end == ArgsEnd(CString(t))[[ok |-> TRUE, p |-> 1, vector |-> <<>>]]
  IN  [ok |-> end.ok, args |-> IF end.ok THEN end.vector ELSE <<>>]

-----------------------------------------------------------------------------
(* sdsll2str: the digits of the magnitude are written backwards.  -value   *)
(* has no meaning for the least long long, for which it is not called.     *)

\* What is left of the number, and the digits so far.
DigitPlace == [v : Nat, text : Seq(Nat)]

DigitStep(p) == [v |-> p.v \div 10, text |-> Append(p.text, 48 + (p.v % 10))]

DigitEnd ==
  LET end[p \in DigitPlace] == IF p.v = 0 THEN p ELSE end[DigitStep(p)]
  IN  end

\* The loop makes at least one digit.
Digits(v) == DigitEnd[DigitStep([v |-> v, text |-> <<>>])].text

sdsll2str(value) ==
  LET v == IF value < 0 THEN -value ELSE value
  IN  Reverse(Digits(v) \o (IF value < 0 THEN <<45>> ELSE <<>>))
=============================================================================
