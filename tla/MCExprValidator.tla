--------------------------- MODULE MCExprValidator ---------------------------
(* TLC instance of ExprValidator: the session of example.png and all texts   *)
(* of up to 7 words after its definitions, with redefinitions, on a          *)
(* terminal and in files shorter and longer than one read.                   *)
EXTENDS ExprValidator

Definitions1 == <<"integer", "1", NewLine, "binop", "+", NewLine>>
Definitions2 == <<"integer", "1", "+", NewLine, "binop", " ", "1", "+", NewLine>>

Body(n) == UNION {[1 .. k -> {"1", "+", NewLine}] : k \in 0 .. n}
           \cup UNION {[1 .. k -> {"1", "x", " "}] : k \in 0 .. 3}

MCText == {Definitions1 \o b : b \in Body(5)}
          \cup {Definitions2 \o b : b \in Body(2)}
          \cup {b \o Definitions1 : b \in {c \in Body(2) : c = <<>> \/ c[Len(c)] = NewLine}}
          \cup {Definitions1 \o <<"1", "+", "1">> \o b \o <<"1", "+", "1", NewLine>> :
                    b \in Body(2)}

=============================================================================
