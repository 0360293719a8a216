--------------------------- MODULE SourceRewriter ---------------------------
(***************************************************************************)
(* rewrite_source_code/scanner.l: lines of the form  field: 'name',  get a *)
(* text behind them, the rest is printed as it is.  Each such match is     *)
(* also appended to line_buffer, which nothing ever clears.  The driver is *)
(* MmapDriver's.                                                           *)
(***************************************************************************)
EXTENDS TextScanner

CONSTANTS LINE_BUFFER  \* bytes of line_buffer (2048)

ASSUME BufferAssumption == LINE_BUFFER \in Nat \ {0}

VARIABLE line_buffer   \* bytes in use, the NUL not counted

PATTERN == "field"
COLON == ":"
SQUOTE == "'"
COMMA == ","
WS == {" ", "\t"}
ALPHA == {"a", "z", PATTERN}

\* The bytes of the symbols at some places of a text.
Bytes(t, places) == Cardinality(places) + 4 * Cardinality({k \in places : t[k] = PATTERN})

\* {PATTERN}{COLON}{WS}*{SQUOTE}{ALPHA}+{SQUOTE}{WS}*{COMMA}{WS}*{NL}?
FieldLength ==
  LET quote == 2 + SpanAt(2, WS)
      close == quote + 1 + SpanAt(quote + 1, ALPHA)
      comma == close + 1 + SpanAt(close + 1, WS)
      end == comma + 1 + SpanAt(comma + 1, WS)
  IN  IF /\ Ahead(<<PATTERN, COLON>>)
         /\ Peek(quote) = SQUOTE /\ close > quote + 1
         /\ Peek(close) = SQUOTE /\ Peek(comma) = COMMA
      THEN IF Peek(end) = Newline THEN end + 1 ELSE end
      ELSE 0

Replacement == [text |-> "this is a new replacement"]

\* A bug: the last character matched is not printed.
DropsTheEnd(n) == EchoNext(n - 1) \o <<Replacement>>
Rewritten(n) == EchoNext(n) \o <<Replacement>>

\* strcat, without a check.
Appended(n) == line_buffer + Bytes(text, (at + 1)..(at + n))

RewriteField ==
  /\ Runs("rewrite") /\ FieldLength > 0
  /\ LET full == Appended(FieldLength) >= LINE_BUFFER
     IN  \/ /\ ~full
            /\ out' = out \o Rewritten(FieldLength)
            /\ line_buffer' = Appended(FieldLength)
            /\ Take(FieldLength)
         \/ /\ full
            /\ scanner' = "overflow"
            /\ UNCHANGED <<program, text, at, out, line_buffer>>
  /\ UNCHANGED start

PrintOther ==
  /\ Runs("rewrite") /\ More /\ FieldLength = 0
  /\ Echo
  /\ UNCHANGED <<start, line_buffer>>

RewriteReturn == Ends("rewrite", <<>>) /\ UNCHANGED line_buffer

RewriteNext == RewriteField \/ PrintOther \/ RewriteReturn

RewriteInit == ScannerInit /\ line_buffer = 0

RewriteSpec == RewriteInit /\ [][RewriteNext]_<<scanned, line_buffer>>

-----------------------------------------------------------------------------
\* The reference: the regular expression, as the places of its characters, and
\* where the longest match that begins at a place ends.
Reaches(t, from, to, class, symbol) ==
  from <= to /\ t[to] = symbol /\ \A k \in from..(to - 1) : t[k] \in class

IsField(t, i, j) ==
  /\ t[i] = PATTERN
  /\ \E open \in (i + 2)..j :
       /\ t[i + 1] = COLON /\ Reaches(t, i + 2, open, WS, SQUOTE)
       /\ \E close \in (open + 2)..j :
            /\ Reaches(t, open + 1, close, ALPHA, SQUOTE)
            /\ \E comma \in close..j :
                 /\ Reaches(t, close + 1, comma, WS, COMMA)
                 /\ \A k \in (comma + 1)..j : t[k] \in WS \/ (k = j /\ t[k] = Newline)

FieldEnds(t, i) == {j \in i..Len(t) : IsField(t, i, j)}
FieldEnd(t) == [i \in {k \in DOMAIN t : FieldEnds(t, k) # {}} |-> Max(FieldEnds(t, i))]

\* The fields that end in front of a place, and the places in them.
EndedBefore(ends, k) == {i \in DOMAIN ends : ends[i] < k}
InFields(ends, k) == UNION {i..ends[i] : i \in EndedBefore(ends, k)}

\* Where a symbol is printed, with a replacement behind each field.
PrintedAt(ends, k) == k + Cardinality(EndedBefore(ends, k))

\* The rewriter prints all of the text, and its replacement behind each field
\* as long as the rule can take it. line_buffer holds all fields of the file so
\* far: the program leaves it at the first field that no longer fits, and only
\* there (rewrite_source_code/scanner.l:96-106).
EveryFieldIsRewritten ==
  program = "rewrite" =>
    LET ends == FieldEnd(text)
    IN  /\ Len(out) = PrintedAt(ends, at + 1) - 1
        /\ \A k \in 1..at : out[PrintedAt(ends, k)] = Echoed(text[k])
        /\ \A i \in DOMAIN ends : i <= at => out[PrintedAt(ends, ends[i]) + 1] = Replacement
        /\ Bytes(text, InFields(ends, at + 1)) < LINE_BUFFER
        /\ scanner = "ended" => at = Len(text)
        /\ scanner = "overflow" =>
             /\ at + 1 \in DOMAIN ends
             /\ Bytes(text, InFields(ends, ends[at + 1] + 1)) >= LINE_BUFFER
=============================================================================
