--------------------------- MODULE MCNotebookSource ---------------------------
(* TLC instance of NotebookSource: notebooks of up to 2 cells with sources   *)
(* of up to 2 lines, blank lines and percent signs, and sequences of symbols *)
(* that are no notebook.                                                     *)
EXTENDS NotebookSource

\* The text between the brackets of a source array: none, or lines that begin
\* and end with a newline.
Array(lines) == IF lines = <<>> THEN <<>> ELSE <<NewLine>> \o FlattenSeq(lines)

Lines == {<<"x", NewLine>>, <<"[", "x", "]", NewLine>>, <<"x", "cell", NewLine>>}

Cell(type, lines) ==
    [type |-> type, lines |-> lines,
     text |-> <<"cell_type", type, NewLine, "x", NewLine, "source">>
              \o Array(lines) \o <<"]", NewLine>>]

Cells == {Cell(t, ls) : t \in {"markdown", "code"},
                        ls \in UNION {[1 .. k -> Lines] : k \in 0 .. 2}}
BlankCells == {Cell(t, <<<<"x", NewLine>>, <<"blank", NewLine>>>>) :
                  t \in {"markdown", "code"}}
RawCells == {Cell("raw", <<<<"x", NewLine>>>>)}

PercentCells == {Cell(t, <<<<"%", NewLine>>>>) : t \in {"markdown", "code"}}

Text(cells) == FlattenSeq([k \in DOMAIN cells |-> cells[k].text])

GoodCells == UNION {[1 .. k -> Cells] : k \in 0 .. 2}

Odd == {o \in UNION {[1 .. k -> {"cell_type", "source", "code", "[", "]",
                                 "blank", NewLine}] : k \in 0 .. 4} :
          \A k \in DOMAIN o : o[k] \in Key \cup {"blank"} => AtLineStart(o, k)}

MCNotebook ==
    {Text(c) : c \in GoodCells}
    \cup {Text(<<a, b>>) : a \in Cells \cup BlankCells \cup RawCells,
                           b \in BlankCells \cup RawCells}
    \cup {Text(<<a, b>>) : a \in Cells, b \in PercentCells}
    \cup Odd

=============================================================================
