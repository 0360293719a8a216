----------------------------- MODULE RegexBuilder -----------------------------
(***************************************************************************)
(* regex_builder/scanner.l: the scanner names every run of characters of   *)
(* one class with its length, the run length encoding from which a regular *)
(* expression for the line can be written, and echoes each line behind its *)
(* encoding from line_buffer.                                              *)
(*                                                                         *)
(* A text is a sequence of characters.  flex takes the rule that matches   *)
(* the longest text and, of several, the one that comes first.             *)
(***************************************************************************)
EXTENDS Integers, SequencesExt

CONSTANTS
    Lower, Upper, Digit, \* the characters of these classes
    HexLetter,           \* a .. f and A .. F
    Blank,               \* [[:blank:]]
    Char,                \* all characters
    Text,                \* the texts main may hand to the scanner
    BufferSize           \* sizeof line_buffer; 2048 in the code

ASSUME ClassAssumption ==
    /\ Lower \cup Upper \cup Digit \cup Blank \cup HexLetter \subseteq Char
    /\ HexLetter \subseteq Lower \cup Upper
    /\ "\n" \notin Lower \cup Upper \cup Digit \cup Blank
    /\ {"+", "-"} \cap Digit = {}
    /\ Text \subseteq Seq(Char)
    /\ BufferSize \in Nat \ {0}

VARIABLES
    text,        \* the whole text
    pos,         \* how many of its characters have been matched
    line_buffer, \* the array of that name, up to its NUL
    printed,     \* what was printed: encoded runs and echoed lines
    scanner

builder == <<text, pos, line_buffer, printed, scanner>>

-----------------------------------------------------------------------------
(* The tables                                                              *)

\* The classes of data[] whose matches are shown instead of encoded.
Shown == {"LOWER"}

\* The classes data[] has an entry for.
Listed == {"COLON", "COMMA", "COMMENT", "DIGIT", "DOLLAR", "DOT",
           "ESCAPESEQUENCE", "FSLASH", "GT", "INTEGER", "LBRACE", "LBRACK",
           "LOWER", "LPAREN", "LT", "MONTH", "NL", "OR", "POWER", "RBRACE",
           "RBRACK", "RPAREN", "SEMICOLON", "STAR", "TIMEZONE", "UNDERSCORE",
           "UPPER", "WS", "XDIGIT", "EQUAL"}

\* The function ends without a return for a name that is not listed, and its
\* caller uses whatever it finds.
search_print_struct(name) == IF name \in Listed THEN {name \in Shown} ELSE BOOLEAN

\* A rule: its place among the rules, the class it names, the names it looks up for
\* one character and for more, and the characters it is made of.
Rule(place, name, one, more, chars) ==
    [place |-> place, name |-> name, one |-> one, more |-> more, chars |-> chars]
Plain(place, name, chars) == Rule(place, name, name, name, chars)

NewLine == "\n"

RulesColonToGt ==
    { Plain(1, "COLON", {":"}), Plain(2, "COMMA", {","}),
      Plain(3, "COMMENT", Char), Plain(4, "DIGIT", Digit),
      Plain(5, "DOLLAR", {"$"}), Plain(6, "DOT", {"."}),
      Plain(7, "BACKSLASH", {"\\"}), Plain(8, "GT", {">"}) }

RulesIntegerToLt ==
    { Plain(9, "INTEGER", Digit \cup {"+", "-"}), Plain(10, "LBRACE", {"{"}),
      Rule(11, "LBRACK", "LT", "LT", {"]"}), Plain(12, "LOWER", Lower),
      Plain(13, "LPAREN", {"("}), Rule(14, "LT", "WORD", "WORD", {"<"}) }

RuleNl == Plain(15, "NL", {NewLine})

RulesOrToStar ==
    { Plain(16, "OR", {"|"}), Plain(17, "POWER", {"^"}), Plain(18, "RBRACE", {"}"}),
      Plain(19, "RPAREN", {")"}), Plain(20, "SEMICOLON", {";"}),
      Plain(21, "STAR", {"*"}) }

RulesUnderscoreToXdigit ==
    { Plain(22, "UNDERSCORE", {"_"}), Plain(23, "UPPER", Upper),
      Plain(24, "EQUAL", {"="}), Plain(25, "PERCENT", {"%"}),
      Plain(26, "WS", Blank), Plain(27, "FSLASH", {"/"}),
      Rule(28, "XDIGIT", "XDIGIT", "", Digit \cup HexLetter) }

Rules == RulesColonToGt \cup RulesIntegerToLt \cup {RuleNl} \cup RulesOrToStar
         \cup RulesUnderscoreToXdigit

-----------------------------------------------------------------------------
(* Matching                                                                *)

Lexeme(n) == SubSeq(text, pos + 1, pos + n)

Over(s, chars) == \A k \in 1 .. Len(s) : s[k] \in chars

\* ((+|-)?(0|[1-9][0-9]*))+ : a sign stands before a digit.
Signed(s) == \A k \in 1 .. Len(s) :
                s[k] \in {"+", "-"} => k < Len(s) /\ s[k + 1] \in Digit

\* ("///".*)+ : three slashes and the rest of the line.
Comment(s) == /\ Len(s) >= 3
              /\ \A k \in 1 .. 3 : s[k] = "/"
              /\ \A k \in 1 .. Len(s) : s[k] # NewLine

Matches(rule, s) ==
    /\ s # <<>>
    /\ Over(s, rule.chars)
    /\ rule.name = "INTEGER" => Signed(s)
    /\ rule.name = "COMMENT" => Comment(s)

\* The rules that match n characters where the scanner stands.
Matching(n) == {rule \in Rules : Matches(rule, Lexeme(n))}

Longest(lengths) == IF lengths = {} THEN 0 ELSE Max(lengths)

MatchLength == Longest({n \in 1 .. (Len(text) - pos) : Matching(n) # {}})

\* Were the rules tried from the end of the file.
LastRule(n) ==
    CHOOSE rule \in Matching(n) : \A other \in Matching(n) : rule.place >= other.place

FirstRule(n) ==
    CHOOSE rule \in Matching(n) : \A other \in Matching(n) : rule.place <= other.place

-----------------------------------------------------------------------------
(* Actions                                                                 *)

BuilderInit ==
    /\ text \in Text
    /\ pos = 0
    /\ line_buffer = <<>>
    /\ printed = <<>>
    /\ scanner = "runs"

\* What a rule prints: the text itself, or the class and the length.
Item(rule, n, shown) ==
    [name |-> rule.name, length |-> n, shown |-> shown, from |-> pos]

\* strcat(line_buffer, yytext) has room for the text and a NUL.
Room(n) == Len(line_buffer) + n < BufferSize

Lookup(rule, n) == search_print_struct(IF n = 1 THEN rule.one ELSE rule.more)

\* Every rule but NL: append to line_buffer, print the text or its encoding.
MatchRun ==
    /\ scanner = "runs"
    /\ LET n == MatchLength
           rule == FirstRule(n)
       IN
        /\ n > 0
        /\ rule.name # "NL"
        /\ IF Room(n)
           THEN \E shown \in Lookup(rule, n) :
                /\ line_buffer' = line_buffer \o Lexeme(n)
                /\ printed' = Append(printed, Item(rule, n, shown))
                /\ pos' = pos + n
                /\ UNCHANGED scanner
           ELSE scanner' = "undefined" /\ UNCHANGED <<line_buffer, printed, pos>>
    /\ UNCHANGED text

\* The line kept in the buffer for the next one.
KeepLine(line) == line

ClearLine(line) == <<>>

\* {NL}+ also prints the line and clears the buffer.
MatchNewLines ==
    /\ scanner = "runs"
    /\ LET n == MatchLength
           rule == FirstRule(n)
           line == line_buffer \o Lexeme(n)
       IN
        /\ n > 0
        /\ rule.name = "NL"
        /\ IF Room(n)
           THEN \E shown \in Lookup(rule, n) :
                /\ printed' = printed \o <<Item(rule, n, shown),
                                           [name |-> "line", echo |-> line]>>
                /\ line_buffer' = ClearLine(line)
                /\ pos' = pos + n
                /\ UNCHANGED scanner
           ELSE scanner' = "undefined" /\ UNCHANGED <<line_buffer, printed, pos>>
    /\ UNCHANGED text

\* The rule . drops a character no other rule matches.
MatchOther ==
    /\ scanner = "runs"
    /\ pos < Len(text)
    /\ MatchLength = 0
    /\ pos' = pos + 1
    /\ UNCHANGED <<text, line_buffer, printed, scanner>>

EndOfText ==
    /\ scanner = "runs"
    /\ pos = Len(text)
    /\ scanner' = "done"
    /\ UNCHANGED <<text, pos, line_buffer, printed>>

BuilderNext == MatchRun \/ MatchNewLines \/ MatchOther \/ EndOfText

BuilderSpec == BuilderInit /\ [][BuilderNext]_builder

-----------------------------------------------------------------------------
(* Properties                                                              *)

\* What was printed, and the positions of the text an item stands for.
Items(out) == {k \in DOMAIN out : out[k].name # "line"}
Lines(out) == {k \in DOMAIN out : out[k].name = "line"}
End(it) == it.from + it.length
EncodedBy(out, items) == UNION {(out[k].from + 1) .. End(out[k]) : k \in items}
Encoded == EncodedBy(printed, Items(printed))

CharsOf(names) == UNION {rule.chars : rule \in {r \in Rules : r.name \in names}}

\* What a reader of the patterns takes the classes that overlap to be, and which
\* of them is meant where two reach equally far.
Classes == [COMMENT |-> Char \ {NewLine}, DIGIT |-> Digit, INTEGER |-> Digit \cup {"+", "-"},
            LOWER |-> Lower, UPPER |-> Upper, FSLASH |-> {"/"}, XDIGIT |-> Digit \cup HexLetter]
Order == <<"COMMENT", "DIGIT", "INTEGER", "LOWER", "UPPER", "FSLASH", "XDIGIT">>
Names == {rule.name : rule \in Rules}

\* The character at q can stand in a run of this class: a sign only before a digit.
Continues(name, q) ==
    /\ q \in DOMAIN text
    /\ text[q] \in IF name \in DOMAIN Classes THEN Classes[name] ELSE CharsOf({name})
    /\ name = "INTEGER" /\ text[q] \in {"+", "-"} =>
          q + 1 \in DOMAIN text /\ text[q + 1] \in Digit

\* A run of this class can begin at p: a comment only with three slashes.
Begins(name, p) ==
    name = "COMMENT" => \A q \in p .. (p + 2) : q \in DOMAIN text /\ text[q] = "/"

\* How many characters the run of this class that begins at p has, counted up to
\* the first that does not belong to it.
Reach(name, p) ==
    IF Begins(name, p) THEN Min({q \in p .. (Len(text) + 1) : ~Continues(name, q)}) - p ELSE 0

\* However the classes overlap (a digit is DIGIT, INTEGER and XDIGIT, a letter
\* LOWER or UPPER and XDIGIT), every item is the run of its class from where it
\* begins to the first character that cannot go on with it, no class reaches
\* farther from there, and none that comes first reaches as far; items are in the
\* order of the text and do not overlap; and no run of any class begins at a
\* character left out (scanner.l:108-603). A run need not begin where its class
\* does: 0az is XDIGIT{2} for 0a, and then LOWER for z alone.
ItemsTileTheText ==
    /\ \A k \in Items(printed) :
          LET it == printed[k]
              p == it.from + 1
          IN  /\ it.name \in Names /\ it.length > 0
              /\ it.length = Reach(it.name, p)
              /\ \A name \in Names : Reach(name, p) <= it.length
              /\ \A a, b \in DOMAIN Order :
                    a < b /\ it.name = Order[b] => Reach(Order[a], p) < it.length
    /\ \A j, k \in Items(printed) : j < k => End(printed[j]) <= printed[k].from
    /\ \A p \in (1 .. pos) \ Encoded : \A name \in Names : Reach(name, p) = 0

\* Positions of a text that are all of one line and its newlines.
OneLine(t, window) ==
    \A k \in window, m \in window : k < m /\ t[k] = NewLine => t[m] = NewLine

\* The part of the text behind p with at least BufferSize of the characters,
\* all of one line and its newlines.
LongLines(t, chars) ==
    {p \in DOMAIN t : \E q \in p .. Len(t) :
        /\ OneLine(t, p .. q)
        /\ Cardinality({k \in p .. q : t[k] \in chars}) >= BufferSize}

\* The items since the last line that was printed before the k-th output.
LineOf(out, k) == {j \in Items(out) : j < k /\ \A i \in Lines(out) : i < k => i < j}

\* A string is the characters at these positions of the text, in their order.
Spells(t, string, positions) ==
    /\ Len(string) = Cardinality(positions)
    /\ \A p \in positions : string[Cardinality({q \in positions : q <= p})] = t[p]

EndsInNewLines(line) ==
    \E n \in 1 .. Len(line) : \A c \in DOMAIN line : line[c] = NewLine <=> c >= n

\* Each echoed line is the characters encoded since the line before it, with its
\* newlines at its end and no other, and line_buffer is those encoded since the
\* last one (lines 356-375): nothing of one line is echoed with the next, or left
\* in the buffer to fill it. So strcat, unchecked, only runs over line_buffer on
\* a text with a line that does not fit it together with its newlines, and
\* always does on one with so many characters the scanner encodes.
LineBufferHoldsTheLine ==
    /\ \A k \in Lines(printed) :
          /\ Spells(text, printed[k].echo, EncodedBy(printed, LineOf(printed, k)))
          /\ EndsInNewLines(printed[k].echo)
    /\ Spells(text, line_buffer, EncodedBy(printed, LineOf(printed, Len(printed) + 1)))
    /\ \A c \in DOMAIN line_buffer : line_buffer[c] # NewLine
    /\ scanner = "undefined" => LongLines(text, Char) # {}
    /\ scanner = "done" =>
          LongLines(text, CharsOf({r.name : r \in Rules} \ {"INTEGER", "COMMENT"})) = {}

=============================================================================
