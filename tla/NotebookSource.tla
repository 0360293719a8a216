---------------------------- MODULE NotebookSource ----------------------------
(***************************************************************************)
(* extract_source_from_ipynb_notebooks/source.l: the scanner copies the    *)
(* "source" array of every cell of a notebook to yyout, the code cells as  *)
(* they are and the markdown cells with a '#' after every newline.         *)
(*                                                                         *)
(* A notebook is a sequence of symbols.  "cell_type" and "source" are the  *)
(* key of a line with what the rules of lines 21 and 26 match behind it    *)
(* (for "source" that includes the opening bracket), "blank" is the text   *)
(* "\n" alone on its line, "%" a character that printf takes for the start *)
(* of a conversion, and any other text is a character or a word.           *)
(***************************************************************************)
EXTENDS Integers, SequencesExt

CONSTANTS
    Notebook, \* the files main may be given
    Other,    \* symbols that no rule names
    CountOnly \* whether --count was given: a subset of BOOLEAN

NewLine == "\n"
Key == {"cell_type", "source"}
Symbol == Other \cup Key \cup {"markdown", "code", "[", "]", "blank", "%", NewLine}

\* Keys and blank lines are the first thing on their lines.
AtLineStart(text, k) == k = 1 \/ text[k - 1] = NewLine

ASSUME NotebookAssumption ==
    \A n \in Notebook : /\ n \in Seq(Symbol)
                        /\ \A k \in 1 .. Len(n) :
                              n[k] \in Key \cup {"blank"} => AtLineStart(n, k)
ASSUME CountOnlyAssumption == CountOnly \subseteq BOOLEAN

VARIABLES
    notebook,
    print_count,
    pos,            \* how many symbols have been matched
    start,          \* the start condition, or "undefined"
    yytext,         \* what yymore keeps of the matches so far
    balanced, count, prefix_comment,
    yyout           \* the results file

vars == <<notebook, print_count, pos, start, yytext, balanced, count,
          prefix_comment, yyout>>
args == <<notebook, print_count>>

Init == /\ notebook \in Notebook
        /\ print_count \in CountOnly
        /\ pos = 0
        /\ start = "INITIAL"
        /\ yytext = <<>>
        /\ balanced = 0
        /\ count = 0
        /\ prefix_comment = FALSE
        /\ yyout = <<>>

Here == notebook[pos + 1]

Step(p) == p + 1

\* The scanner is in a start condition with one of the symbols in front.
Matched(condition, symbols) ==
    /\ start = condition
    /\ pos < Len(notebook)
    /\ Here \in symbols
    /\ pos' = Step(pos)
    /\ UNCHANGED args

cell == <<balanced, count, prefix_comment>>

-----------------------------------------------------------------------------
(* Outside of a source array                                               *)

MatchCellType ==
    /\ Matched("INITIAL", {"cell_type"})
    /\ start' = "CELL_TYPE"
    /\ UNCHANGED <<yytext, cell, yyout>>

\* A cell that keeps the prefix of the one before it.
SamePrefix(type) == prefix_comment

PrefixOf(type) == type = "markdown"

MatchMarkdownOrCode ==
    /\ Matched("CELL_TYPE", {"markdown", "code"})
    /\ prefix_comment' = PrefixOf(Here)
    /\ start' = "INITIAL"
    /\ UNCHANGED <<yytext, balanced, count, yyout>>

\* No rule of CELL_TYPE matches anything else, and the default rule echoes it.
EchoInCellType ==
    /\ Matched("CELL_TYPE", Symbol \ {"markdown", "code"})
    /\ yyout' = Append(yyout, Here)
    /\ UNCHANGED <<start, yytext, cell>>

\* balanced goes down for the bracket "source" ends with.
MatchSource ==
    /\ Matched("INITIAL", {"source"})
    /\ yytext' = <<Here>>
    /\ balanced' = balanced - 1
    /\ start' = "SOURCE"
    /\ UNCHANGED <<count, prefix_comment, yyout>>

SkipOther ==
    /\ Matched("INITIAL", Symbol \ Key)
    /\ UNCHANGED <<start, yytext, cell, yyout>>

-----------------------------------------------------------------------------
(* In a source array                                                       *)

More == yytext' = Append(yytext, Here)

\* A bracket that is matched as any other character.
Unseen(symbol) == 0

\* The brackets a symbol opens in SOURCE: "source" is no rule of it.
Opens(symbol) == IF symbol \in {"[", "source"} THEN 1 ELSE 0

MatchText ==
    /\ Matched("SOURCE", Symbol \ {"]", "blank", NewLine})
    /\ balanced' = balanced - Opens(Here)
    /\ More
    /\ UNCHANGED <<start, count, prefix_comment, yyout>>

\* yymore called for the closing bracket as well.
KeptText(text) == Append(text, Here)

NoText(text) == <<>>

\* The last bracket prints what yymore kept, in front of a newline.
MatchClosing ==
    /\ Matched("SOURCE", {"]"})
    /\ balanced' = balanced + 1
    /\ IF balanced' = 0
       THEN /\ yyout' = IF print_count
                        THEN yyout
                        ELSE yyout \o yytext \o <<Here, NewLine>>
            /\ count' = count + 1
            /\ start' = "INITIAL"
            /\ yytext' = NoText(yytext)
       ELSE /\ More
            /\ UNCHANGED <<yyout, count, start>>
    /\ UNCHANGED prefix_comment

\* Line 43 matches without yymore: what the earlier matches kept is dropped.
MatchBlankLine ==
    /\ Matched("SOURCE", {"blank"})
    /\ yytext' = <<>>
    /\ UNCHANGED <<start, cell, yyout>>

\* fprintf(yyout, tmp) has no argument for a conversion in the text.
HasConversion(text) == \E k \in DOMAIN text : text[k] = "%"

\* In a markdown cell the line is written (without its newline, in front of
\* "\n#"), and the next one begins anew. print_count is not looked at.
MatchNewLine ==
    /\ Matched("SOURCE", {NewLine})
    /\ IF ~prefix_comment
       THEN More /\ UNCHANGED <<start, yyout>>
       ELSE IF HasConversion(yytext)
            THEN start' = "undefined" /\ UNCHANGED <<yytext, yyout>>
            ELSE /\ yyout' = yyout \o yytext \o <<NewLine, "#">>
                 /\ yytext' = <<>>
                 /\ UNCHANGED start
    /\ UNCHANGED cell

Next == \/ MatchCellType \/ MatchMarkdownOrCode \/ EchoInCellType
        \/ MatchSource \/ SkipOther
        \/ MatchText \/ MatchClosing \/ MatchBlankLine \/ MatchNewLine

Spec == Init /\ [][Next]_vars

AtEnd == pos = Len(notebook)

-----------------------------------------------------------------------------
(* Properties                                                              *)

\* Every variable has a value of its type.
TypeOK ==
    /\ notebook \in Notebook /\ print_count \in CountOnly
    /\ pos \in 0 .. Len(notebook)
    /\ start \in {"INITIAL", "CELL_TYPE", "SOURCE", "undefined"}
    /\ yytext \in Seq(Symbol)
    /\ balanced \in Int /\ count \in Nat /\ prefix_comment \in BOOLEAN
    /\ yyout \in Seq(Symbol \cup {"#"})

\* The brackets opened and closed from the s-th symbol of a text to the k-th.
Opened(t, s, k) == {j \in s .. k : t[j] \in {"[", "source"}}
Closed(t, s, k) == {j \in s .. k : t[j] = "]"}
Depth(t, s, k) == Cardinality(Opened(t, s, k)) - Cardinality(Closed(t, s, k))

\* In a source array, balanced counts the brackets of that array alone that are
\* still open, below zero; outside it is zero: whatever the notebook holds, one
\* cell's brackets never count for the next (lines 26-42).
BalancedCountsOpenBrackets ==
    IF start = "SOURCE"
    THEN /\ balanced < 0
         /\ \E from \in 1 .. pos :
               notebook[from] = "source" /\ balanced + Depth(notebook, from, pos) = 0
    ELSE start # "undefined" => balanced = 0

\* yymore keeps text only inside a source array: nothing of a cell is printed
\* with a later one.
YymoreEndsWithTheCell == start \in {"INITIAL", "CELL_TYPE"} => yytext = <<>>

-----------------------------------------------------------------------------
\* The reference: the source array that begins at s, to its last bracket, and
\* where symbols of a kind stand in it from k on.
Sources(t) == {s \in DOMAIN t : t[s] = "source"}
ArrayAt(t, s) == {k \in s .. Len(t) : \A j \in s .. (k - 1) : Depth(t, s, j) > 0}
Behind(t, s, k, symbol) == {n \in ArrayAt(t, s) : n >= k /\ t[n] = symbol}

\* A notebook: each cell is a markdown or a code cell, its array is closed, and
\* holds no key.
IsNotebook(t) ==
    /\ \A k \in DOMAIN t :
          t[k] = "cell_type" => k < Len(t) /\ t[k + 1] \in {"markdown", "code"}
    /\ \A s \in Sources(t) :
          /\ \E e \in ArrayAt(t, s) : Depth(t, s, e) = 0
          /\ \A k \in ArrayAt(t, s) : t[k] \in Key => k = s

\* The last cell_type before the array says markdown.
IsMarkdown(t, s) ==
    \E c \in 1 .. (s - 1) : /\ t[c] = "cell_type" /\ t[c + 1] = "markdown"
                            /\ \A d \in (c + 1) .. (s - 1) : t[d] # "cell_type"

\* What the results file should hold of a symbol of an array: not the lines of a
\* code cell in front of a blank line, nor the blank line, and with --count only
\* the whole lines of a markdown cell.
IsWritten(t, listing, s, k) ==
    /\ \A b \in Behind(t, s, k, "blank") : IsMarkdown(t, s) /\ b # k
    /\ listing => IsMarkdown(t, s) /\ Behind(t, s, k, NewLine) # {}

AsWritten(t, s, k) ==
    IF Depth(t, s, k) = 0 THEN <<t[k], NewLine>>
    ELSE IF IsMarkdown(t, s) /\ t[k] = NewLine THEN <<NewLine, "#">>
    ELSE <<t[k]>>

Written(t, listing, k) ==
    LET s == CHOOSE s \in Sources(t) : k \in ArrayAt(t, s)
    IN  IF (\E a \in Sources(t) : k \in ArrayAt(t, a)) /\ IsWritten(t, listing, s, k)
        THEN AsWritten(t, s, k)
        ELSE <<>>

\* The ends of the lines of markdown cells behind a percent sign.
Conversions(t) ==
    {n \in DOMAIN t : \E s \in Sources(t) :
        /\ IsMarkdown(t, s) /\ n \in ArrayAt(t, s) /\ t[n] = NewLine
        /\ \E k \in s .. n : t[k] = "%"}

\* Of a notebook the results file holds the source of every cell, in order, each
\* as its type asks, and count is their number. A percent sign is copied from a
\* code cell, but undoes the program, that prints the line as a format (line 50),
\* in a line of a markdown cell, and only there, whatever the file holds.
ExtractsEverySource ==
    /\ start = "undefined" => \E k \in DOMAIN notebook : notebook[k] = "%"
    /\ IsNotebook(notebook) =>
          /\ start = "undefined" => pos \in Conversions(notebook)
          /\ AtEnd /\ start # "undefined" =>
                /\ Conversions(notebook) = {}
                /\ count = Cardinality(Sources(notebook))
                /\ yyout = FlattenSeq([k \in DOMAIN notebook |->
                                          Written(notebook, print_count, k)])

=============================================================================
