---------------------------- MODULE TextFilters ----------------------------
(***************************************************************************)
(* Three small scanners that read a text once: C/strip_c_comments.l,       *)
(* arithmetic/get_max.l and arithmetic/average.l.  A word of get_max with  *)
(* its colon is one symbol.  The driver of strip_c_comments is             *)
(* MmapDriver's.                                                           *)
(***************************************************************************)
EXTENDS TextScanner

CONSTANTS Key,          \* words with their colon
          KeyLength,    \* the characters of each
          CURRENT_REPO  \* bytes of current_repo (256)

ASSUME KeyAssumption ==
  /\ Key \subseteq Symbol \ (Digit \cup {Newline})
  /\ KeyLength \in [Key -> Nat] /\ CURRENT_REPO \in Nat

VARIABLES current_repo, max_watchers_count, count, sum

results == <<current_repo, max_watchers_count, count, sum>>

ResultsInit ==
  /\ current_repo = "" /\ max_watchers_count = 0
  /\ count = 0 /\ sum = 0

TextPrograms == {"strip", "max", "average"}

-----------------------------------------------------------------------------
(* strip_c_comments.l: two exclusive states; what no rule of INITIAL       *)
(* matches is echoed.  The rule for // takes the newline too, and does not *)
(* match without one.                                                      *)

LineComment == Ahead(<<"/", "/">>) /\ at + Until(Newline) < Len(text)

OpenComment ==
  /\ Runs("strip") /\ start = "INITIAL" /\ Ahead(<<"/", "*">>)
  /\ Take(2)
  /\ start' = "COMMENT"
  /\ UNCHANGED <<out, results>>

DropLine ==
  /\ Runs("strip") /\ start = "INITIAL" /\ LineComment
  /\ Take(Until(Newline) + 1)
  /\ UNCHANGED <<start, out, results>>

EchoCode ==
  /\ Runs("strip") /\ start = "INITIAL" /\ More
  /\ ~Ahead(<<"/", "*">>) /\ ~LineComment
  /\ Echo
  /\ UNCHANGED <<start, results>>

CloseComment ==
  /\ Runs("strip") /\ start = "COMMENT" /\ Ahead(<<"*", "/">>)
  /\ Take(2)
  /\ start' = "INITIAL"
  /\ UNCHANGED <<out, results>>

\* The rule of lex tutorials, which takes the star behind a run of text with it.
DropCommentAndStar ==
  /\ Runs("strip") /\ start = "COMMENT" /\ More /\ ~Ahead(<<"*", "/">>)
  /\ Take(IF Until("*") + at < Len(text) THEN Until("*") + 1 ELSE Until("*"))
  /\ UNCHANGED <<start, out, results>>

DropComment ==
  /\ Runs("strip") /\ start = "COMMENT" /\ More /\ ~Ahead(<<"*", "/">>)
  /\ Take(IF Head1 = "*" THEN 1 ELSE Until("*"))
  /\ UNCHANGED <<start, out, results>>

-----------------------------------------------------------------------------
(* get_max.l.  The exclusive state integer has a rule for numbers only:    *)
(* anything else is echoed there, newlines and keys too.                   *)

PrintMax == [repo |-> current_repo, most |-> max_watchers_count]

\* strcpy, without a check.
TooLong(key) == KeyLength[key] >= CURRENT_REPO

KeyKeepsTheMaximum ==
  /\ Runs("max") /\ start = "INITIAL" /\ More /\ Head1 \in Key
  /\ \/ current_repo = Head1 /\ UNCHANGED out
     \/ /\ current_repo # Head1 /\ ~TooLong(Head1)
        /\ out' = IF current_repo # "" THEN Append(out, PrintMax) ELSE out
  /\ current_repo' = Head1
  /\ start' = "integer"
  /\ Take(1)
  /\ UNCHANGED <<max_watchers_count, count, sum>>

NewKey ==
  /\ Runs("max") /\ start = "INITIAL" /\ More /\ Head1 \in Key
  /\ \/ /\ current_repo = Head1
        /\ start' = "integer"
        /\ Take(1)
        /\ UNCHANGED <<out, current_repo, max_watchers_count>>
     \/ /\ current_repo # Head1
        /\ out' = IF current_repo # "" THEN Append(out, PrintMax) ELSE out
        /\ \/ /\ ~TooLong(Head1)
              /\ current_repo' = Head1
              /\ max_watchers_count' = 0
              /\ start' = "integer"
              /\ Take(1)
           \/ /\ TooLong(Head1)
              /\ scanner' = "overflow"
              /\ UNCHANGED <<program, text, at, start, current_repo, max_watchers_count>>
  /\ UNCHANGED <<count, sum>>

Number ==
  /\ Runs("max") /\ start = "integer" /\ More /\ Head1 \in Digit
  /\ LET n == IF Head1 = "0" THEN 1 ELSE Span(Digit)
         cmp == atol(Following(n))
     IN  /\ max_watchers_count' = IF cmp > max_watchers_count THEN cmp ELSE max_watchers_count
         /\ Take(n)
  /\ start' = "INITIAL"
  /\ UNCHANGED <<out, current_repo, count, sum>>

EndLine ==
  /\ Runs("max") /\ start = "INITIAL" /\ More /\ Head1 = Newline
  /\ Take(1)
  /\ UNCHANGED <<start, out, results>>

EchoOther ==
  /\ Runs("max") /\ More
  /\ IF start = "integer" THEN Head1 \notin Digit ELSE Head1 \notin Key \cup {Newline}
  /\ Echo
  /\ UNCHANGED <<start, results>>

-----------------------------------------------------------------------------
(* average.l: numbers at the start of a line.                              *)

Leading ==
  /\ Runs("average") /\ AtLineStart /\ More /\ Head1 \in Digit
  /\ count' = count + 1
  /\ sum' = sum + atol(Following(Span(Digit)))
  /\ Take(Span(Digit))
  /\ UNCHANGED <<start, out, current_repo, max_watchers_count>>

Skip ==
  /\ Runs("average") /\ More /\ ~(AtLineStart /\ Head1 \in Digit)
  /\ Take(1)
  /\ UNCHANGED <<start, out, results>>

-----------------------------------------------------------------------------
\* Without a number the average is a conversion of 0/0 to an integer.
Undefined == [undefined |-> TRUE]

\* What main does after yylex.
Result ==
  CASE program = "strip" -> <<>>
    [] program = "max" /\ current_repo = "" -> <<>>
    [] program = "max" /\ current_repo # "" -> <<PrintMax>>
    [] program = "average" /\ count = 0 -> <<Undefined>>
    [] program = "average" /\ count > 0 -> <<[average |-> sum \div count]>>

Return == program \in TextPrograms /\ Ends(program, Result) /\ UNCHANGED results

TextNext == OpenComment \/ DropLine \/ EchoCode \/ CloseComment \/ DropComment
              \/ NewKey \/ Number \/ EndLine \/ EchoOther \/ Leading \/ Skip \/ Return

TextInit == ScannerInit /\ ResultsInit

TextSpec == TextInit /\ [][TextNext]_<<scanned, results>>

-----------------------------------------------------------------------------
\* The reference for strip_c_comments: where the two symbols a and b stand behind
\* the first k of a text, what ends a comment, and what is left of the text
\* there, when it does not begin in a comment.
Places(t, k, a, b) == {i \in k..(Len(t) - 2) : t[i + 1] = a /\ t[i + 2] = b}
LineEnds(t, k) == {i \in (k + 1)..Len(t) : t[i] = Newline}
Opens(t, k) == Places(t, k, "/", "*") \cup {i \in Places(t, k, "/", "/") : LineEnds(t, i) # {}}

CodeFrom(t) ==
  LET from[k \in 0..Len(t)] ==
        LET first == Min(Opens(t, k))
            code == SubSeq(t, k + 1, first)
            closes == Places(t, first + 2, "*", "/")
        IN  IF Opens(t, k) = {} THEN SubSeq(t, k + 1, Len(t))
            ELSE IF t[first + 2] = "/" THEN code \o from[Min(LineEnds(t, first))]
            ELSE IF closes = {} THEN code
            ELSE code \o from[Min(closes) + 2]
  IN  from

\* strip_c_comments prints the text without its comments: from an opener to the
\* first closer behind it, whatever stars lie between, to the end of the text
\* when there is none, and line comments with their newline.  What looks like an
\* opener inside of a comment opens nothing (strip_c_comments.l:18-22).
CommentsAreStripped ==
  program = "strip" /\ scanner = "ended" =>
    LET code == CodeFrom(text)[0] IN out = [k \in 1..Len(code) |-> Echoed(code[k])]

-----------------------------------------------------------------------------
\* The reference for get_max.l and average.l: keys and numbers by their places
\* in the text.  A number is as long as digits follow.
Keys == {k \in 1..Len(text) : text[k] \in Key}
Digits == {k \in 1..Len(text) : text[k] \in Digit}
NumberAt(k) == atol(SubSeq(text, k, Min({e \in k..Len(text) : e + 1 \notin Digits})))

\* get_max looks for a number when the last key or digit it has passed is a key;
\* it stores the keys it meets when it does not.
LooksForNumber(k) == \E j \in Keys : j < k /\ \A i \in Digits : i < k => i < j
Stored == {k \in Keys : ~LooksForNumber(k)}
ReadNumbers == {k \in Digits : LooksForNumber(k)}

\* A 0 is a number of its own.
LastDigit(k) == IF text[k] = "0" THEN k ELSE Min({e \in k..Len(text) : e + 1 \notin Digits})
ValueAt(k) == atol(SubSeq(text, k, LastDigit(k)))
InReadNumbers == UNION {k..LastDigit(k) : k \in ReadNumbers}

\* What no rule matches, newlines too when a number should stand there.
Unmatched == {k \in 1..Len(text) : /\ k \notin Stored \cup InReadNumbers
                                   /\ text[k] = Newline => LooksForNumber(k)}

\* The stored keys that differ from the one before, and what the run in front of
\* a place comes to.
RunStarts == {k \in Stored : ~\E j \in Stored : /\ j < k /\ text[j] = text[k]
                                               /\ \A i \in Stored : ~(j < i /\ i < k)}
RunBefore(p) == Max({r \in RunStarts : r < p})
Line(p) ==
  [repo |-> text[RunBefore(p)],
   most |-> Max({0} \cup {ValueAt(k) : k \in {j \in ReadNumbers : RunBefore(p) < j /\ j < p}})]

\* A key and a NUL behind it.
HasRoom(key) == KeyLength[key] + 1 <= CURRENT_REPO

\* The places where something is printed: a run is over at the next, and at the end.
Printing == Unmatched \cup {p \in RunStarts \cup {Len(text) + 1} : \E r \in RunStarts : r < p}
PrintedFor(p) == IF p \in Unmatched THEN Echoed(text[p]) ELSE Line(p)
Rank(p) == Cardinality({q \in Printing : q <= p})

\* The numbers lines begin with, and the sum of those in the first k symbols.
LeadingNumbers == {k \in Digits : k = 1 \/ text[k - 1] = Newline}
Totals ==
  LET total[k \in 0..Len(text)] ==
        IF k = 0 THEN 0 ELSE total[k - 1] + (IF k \in LeadingNumbers THEN NumberAt(k) ELSE 0)
  IN  total

\* What get_max prints of any text: one line per run of equal keys, in their
\* order, with the largest of the run's numbers, and between the lines, at their
\* places, the symbols no rule matches - a key among them where a number should
\* stand, which is not looked at (get_max.l:8-29).  A key is copied into
\* current_repo whatever its length: the program leaves the array at the first
\* stored key that does not fit, and only there.  average prints the mean of the
\* numbers lines begin with, and is undefined exactly on a text without any
\* (average.l:7-21).
StatisticsAreOfTheLines ==
  /\ program = "max" /\ scanner # "runs" =>
        /\ \A k \in RunStarts : k <= at => HasRoom(text[k])
        /\ scanner = "overflow" <=> at + 1 \in RunStarts /\ ~HasRoom(text[at + 1])
        /\ Len(out) = Rank(at + 1)
        /\ \A p \in Printing : p <= at + 1 => out[Rank(p)] = PrintedFor(p)
  /\ program = "average" /\ scanner = "ended" =>
        out = IF LeadingNumbers = {} THEN <<Undefined>>
              ELSE <<[average |-> Totals[Len(text)] \div Cardinality(LeadingNumbers)]>>

=============================================================================
