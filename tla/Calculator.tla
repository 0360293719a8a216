----------------------------- MODULE Calculator -----------------------------
(***************************************************************************)
(* The calculator of calc/: the scanner expr.l hands tokens to yyparse,    *)
(* the parser Bison generated from expr.y (expr.tab.c), whose reductions   *)
(* compute in a union of a float and an int and print one answer per line. *)
(*                                                                         *)
(* The parser is modelled as it runs: the packed tables of expr.tab.c, the *)
(* two parallel stacks, which grow from YYINITDEPTH to YYMAXDEPTH, and the *)
(* lookahead token.  A value is the expression that computes it, so two    *)
(* values are equal only when they are computed alike: a leaf <<i>> is the *)
(* number scanned as the i-th token, <<op, l, r>> and <<"neg", e>> are the *)
(* results of the grammar's actions.                                       *)
(***************************************************************************)
EXTENDS Integers, Sequences, SequencesExt, FiniteSetsExt

CONSTANTS YYINITDEPTH,  \* first size of the stacks (200 in the program)
          YYMAXDEPTH,   \* their largest size (10000)
          MaxTokens     \* bound of the model: tokens before the end of input

ASSUME DepthAssumption == /\ YYINITDEPTH \in Nat \ {0}
                          /\ YYMAXDEPTH \in Nat
                          /\ YYINITDEPTH <= YYMAXDEPTH
                          /\ MaxTokens \in Nat

-----------------------------------------------------------------------------
(* Symbols and tables of expr.tab.c.                                       *)

YYEMPTY == -2
YYEOF == 0
YYerror == 1
RATIONAL == 3
INTEGER == 4
PLUS == 5
MINUS == 6
MULT == 7
DIV == 8
EXPON == 9
EOL == 10
LB == 11
RB == 12

YYFINAL == 2
YYLAST == 75
YYNTOKENS == 13
YYPACT_NINF == -7
YYSTATES == 0..40

\* A C array: indices start at 0.
Array(t) == [i \in 0..(Len(t) - 1) |-> t[i + 1]]

yypact == Array(<<
  -7, 27, -7, -7, -7, 36, -7, 36, -7, 59, 65, 3, 17, 43, 51, 2, 2, 2, 2, 2,
  -7, -2, -2, -2, -2, -7, -7, -7, 2, 2, 3, 3, -6, -6, -6, -2, -2, 17, 17, 5, 5>>)

yydefact == Array(<<
  2, 0, 1, 7, 15, 0, 4, 0, 3, 0, 0, 12, 19, 0, 0, 0, 0, 0, 0, 0,
  5, 0, 0, 0, 0, 6, 14, 21, 0, 0, 8, 9, 10, 11, 13, 0, 0, 16, 17, 18, 20>>)

yypgoto == Array(<<-7, -7, -7, 0, -1>>)

yydefgoto == Array(<<0, 1, 8, 11, 12>>)

yytable == Array(<<
  10, 9, 4, 19, 35, 3, 14, 13, 28, 36, 17, 18, 19, 29, 24, 30, 31, 32, 33, 34,
  37, 38, 39, 40, 23, 0, 24, 2, 0, 13, 3, 4, 0, 5, 0, 14, 0, 6, 7, 3,
  4, 0, 5, 0, 0, 0, 0, 7, 15, 16, 17, 18, 19, 0, 0, 26, 21, 22, 23, 0,
  24, 0, 0, 27, 15, 16, 17, 18, 19, 20, 21, 22, 23, 0, 24, 25>>)

yycheck == Array(<<
  1, 1, 4, 9, 6, 3, 7, 7, 6, 11, 7, 8, 9, 11, 9, 15, 16, 17, 18, 19,
  21, 22, 23, 24, 7, -1, 9, 0, -1, 29, 3, 4, -1, 6, -1, 36, -1, 10, 11, 3,
  4, -1, 6, -1, -1, -1, -1, 11, 5, 6, 7, 8, 9, -1, -1, 12, 5, 6, 7, -1,
  9, -1, -1, 12, 5, 6, 7, 8, 9, 10, 5, 6, 7, -1, 9, 10>>)

yyr1 == Array(<<0, 13, 14, 14, 15, 15, 15, 16, 16, 16, 16, 16, 16, 16, 16,
                17, 17, 17, 17, 17, 17, 17>>)

yyr2 == Array(<<0, 2, 0, 2, 1, 2, 2, 1, 3, 3, 3, 3, 2, 3, 3, 1, 3, 3, 3, 2, 3, 3>>)

\* The entry of the packed table for row base and key, or 0 when it has none.
Packed(base, key) ==
  LET n == base + key
  IN  IF n \in 0..YYLAST /\ yycheck[n] = key THEN yytable[n] ELSE 0

-----------------------------------------------------------------------------
VARIABLES yystack,      \* yyss and yyvs, bottom first: [state, val]
          yystacksize,  \* what both have room for
          yychar,       \* the lookahead token, or YYEMPTY
          yylval,       \* the scanner's value
          label,        \* where yyparse is
          printed,      \* what was written: answers and messages
          read          \* history: the tokens scanned

vars == <<yystack, yystacksize, yychar, yylval, label, printed, read>>

yystate == Last(yystack).state

\* A union holds the member last written; reading the other one reinterprets.
Union(member, e) == [member |-> member, e |-> e]
Garbage == Union("none", <<>>)
Member(member, v) ==
  IF v.member = member THEN v.e ELSE <<"bits of", v.member, "as", member, v.e>>
Message(m) == Union("message", m)

Init ==
  /\ yystack = <<[state |-> 0, val |-> Garbage]>>
  /\ yystacksize = YYINITDEPTH
  /\ yychar = YYEMPTY
  /\ yylval = Garbage
  /\ label = "yysetstate"
  /\ printed = <<>>
  /\ read = <<>>

FullTooLate == yystacksize < Len(yystack)  \* a bug: the check is off by one
Full == yystacksize <= Len(yystack)

\* The stack is checked each time a state was pushed: there is room for one
\* more entry, or it grows, or yyparse gives up (also when malloc fails).
yysetstate ==
  /\ label = "yysetstate"
  /\ \/ /\ ~Full
        /\ label' = IF yystate = YYFINAL THEN "accept" ELSE "yybackup"
        /\ UNCHANGED <<yystacksize, printed>>
     \/ /\ Full
        /\ yystacksize < YYMAXDEPTH
        /\ yystacksize' = Min({2 * yystacksize, YYMAXDEPTH})
        /\ label' = IF yystate = YYFINAL THEN "accept" ELSE "yybackup"
        /\ UNCHANGED printed
     \/ /\ Full
        /\ label' = "exhausted"
        /\ printed' = Append(printed, Message("memory exhausted"))
        /\ yystacksize' \in IF yystacksize < YYMAXDEPTH  \* malloc returned NULL
                            THEN {Min({2 * yystacksize, YYMAXDEPTH})}
                            ELSE {yystacksize}
  /\ UNCHANGED <<yystack, yychar, yylval, read>>

NeedsTokenAlways == yychar = YYEMPTY  \* a bug: no default reductions
NeedsToken == yypact[yystate] # YYPACT_NINF /\ yychar = YYEMPTY

\* yylex: numbers set their member of yylval; a character of no rule is
\* reported and returned as the end of a line.
yylex ==
  /\ label = "yybackup"
  /\ NeedsToken
  /\ \E tok \in {YYEOF} \cup (IF Len(read) < MaxTokens THEN 3..12 ELSE {}) :
       \/ /\ yychar' = tok
          /\ read' = Append(read, tok)
          /\ yylval' = CASE tok = RATIONAL -> Union("rational", <<Len(read) + 1>>)
                         [] tok = INTEGER -> Union("integer", <<Len(read) + 1>>)
                         [] OTHER -> yylval
          /\ UNCHANGED printed
       \/ /\ tok = EOL
          /\ yychar' = EOL
          /\ read' = Append(read, EOL)
          /\ printed' = Append(printed, Message("Illegal character"))
          /\ UNCHANGED yylval
  /\ UNCHANGED <<yystack, yystacksize, label>>

\* What to do in the current state: a token to shift, or a rule to reduce by.
\* A bug: the states after a minus sign and its operand never shift, as with
\* a precedence of its own for the sign.
EntrySignFirst ==
  IF yypact[yystate] = YYPACT_NINF \/ yystate \in {11, 12} THEN 0
  ELSE Packed(yypact[yystate], yychar)
Entry == IF yypact[yystate] = YYPACT_NINF THEN 0 ELSE Packed(yypact[yystate], yychar)

Shift ==
  /\ label = "yybackup"
  /\ ~NeedsToken
  /\ Entry > 0
  /\ yystack' = Append(yystack, [state |-> Entry, val |-> yylval])
  /\ yychar' = YYEMPTY
  /\ label' = "yysetstate"
  /\ UNCHANGED <<yystacksize, yylval, printed, read>>

\* The grammar's action for rule n on the values of its right-hand side.
BinaryRules == [n \in {8, 9, 10, 11, 13, 16, 17, 18, 20} |->
  CASE n \in {8, 16}  -> PLUS
    [] n \in {9, 17}  -> MINUS
    [] n \in {10, 18} -> MULT
    [] n = 11         -> DIV
    [] n \in {13, 20} -> EXPON]

Action(n, rhs) ==
  LET member == IF yyr1[n] = 16 THEN "rational" ELSE "integer"
      arg(i) == Member(member, rhs[i])
  IN  CASE n \in DOMAIN BinaryRules ->
                           Union(member, <<BinaryRules[n], arg(1), arg(3)>>)
        [] n \in {12, 19} -> Union(member, <<"neg", arg(2)>>)
        [] n \in {14, 21} -> Union(member, arg(2))
        [] n \in {7, 15}  -> Union(member, arg(1))
        [] n = 2          -> Garbage
        [] OTHER          -> rhs[1]

Answer(n, rhs) ==
  CASE n = 5 -> <<Union("rational", Member("rational", rhs[1]))>>
    [] n = 6 -> <<Union("integer", Member("integer", rhs[1]))>>
    [] OTHER -> <<>>

Goto(state, lhs) ==
  LET n == yypgoto[lhs - YYNTOKENS] + state
  IN  IF n \in 0..YYLAST /\ yycheck[n] = state THEN yytable[n]
      ELSE yydefgoto[lhs - YYNTOKENS]

Reduce ==
  /\ label = "yybackup"
  /\ ~NeedsToken
  /\ Entry <= 0
  /\ LET n == IF Entry < 0 THEN -Entry ELSE yydefact[yystate]
         rest == SubSeq(yystack, 1, Len(yystack) - yyr2[n])
         rhs == [i \in 1..yyr2[n] |-> yystack[Len(rest) + i].val]
     IN  /\ n # 0
         /\ yystack' = Append(rest, [state |-> Goto(Last(rest).state, yyr1[n]),
                                     val |-> Action(n, rhs)])
         /\ printed' = printed \o Answer(n, rhs)
  /\ label' = "yysetstate"
  /\ UNCHANGED <<yystacksize, yychar, yylval, read>>

\* yyerrlab and yyerrlab1: the message, then states are popped until one
\* shifts the error token.  None does (NoErrorRule), so the parse aborts.
ShiftsError(s) == yypact[s] # YYPACT_NINF /\ Packed(yypact[s], YYerror) > 0

ASSUME NoErrorRule == \A s \in YYSTATES : ~ShiftsError(s)

ErrorSkipsTheToken ==  \* a bug: the parse goes on without the bad token
  /\ label = "yybackup"
  /\ ~NeedsToken
  /\ Entry = 0
  /\ yydefact[yystate] = 0
  /\ printed' = Append(printed, Message("syntax error"))
  /\ yychar' = YYEMPTY
  /\ UNCHANGED <<yystack, yystacksize, yylval, label, read>>

Error ==
  /\ label = "yybackup"
  /\ ~NeedsToken
  /\ Entry = 0
  /\ yydefact[yystate] = 0
  /\ printed' = Append(printed, Message("syntax error"))
  /\ yystack' = SubSeq(yystack, 1, 1)
  /\ label' = "abort"
  /\ UNCHANGED <<yystacksize, yychar, yylval, read>>

\* yyreturn pops what is left and yyparse returns; main ends the program.
Return ==
  /\ label \in {"accept", "abort", "exhausted"}
  /\ yystack' = SubSeq(yystack, 1, 1)
  /\ yychar' = YYEMPTY
  /\ label' = "returned"
  /\ UNCHANGED <<yystacksize, yylval, printed, read>>

Next == yysetstate \/ yylex \/ Shift \/ Reduce \/ Error \/ Return

Spec == Init /\ [][Next]_vars

-----------------------------------------------------------------------------
(* The stacks stay inside their allocation: what is pushed next fits when  *)
(* yybackup runs, whatever the nesting of the input, and they are given up *)
(* only at YYMAXDEPTH or when malloc fails (yysetstate, yynewstate). Nor   *)
(* does a reduction read or pop below the bottom entry: the states on the  *)
(* stack are a path of the automaton the tables pack (yyreduce).           *)
StacksHaveRoom ==
  /\ Len(yystack) <= yystacksize
  /\ yystacksize \in YYINITDEPTH..YYMAXDEPTH
  /\ label = "yybackup" => Len(yystack) < yystacksize
  /\ label = "yybackup" /\ ~NeedsToken /\ Entry <= 0 =>
        yyr2[yydefact[yystate]] < Len(yystack)

-----------------------------------------------------------------------------
\* The language of the grammar, from the tokens alone: where a token stands in
\* its line, and whether it can stand there in a valid input. A line is all
\* rational or all integer, and integers are not divided.
Operands == {RATIONAL, INTEGER, RB}

LineBegins(t, k) == Max({0} \cup {e \in 1..(k - 1) : t[e] = EOL}) + 1

Count(t, i, j, tok) == Cardinality({k \in i..j : t[k] = tok})
Level(t, i, k) == Count(t, i, k - 1, LB) - Count(t, i, k - 1, RB)
AfterOperand(t, i, k) == k > i /\ t[k - 1] \in Operands

Fits(t, k) ==
  LET i == LineBegins(t, k)
      operand == AfterOperand(t, i, k)
  IN  CASE t[k] = RATIONAL -> ~operand /\ Count(t, i, k - 1, INTEGER) = 0
        [] t[k] = INTEGER -> ~operand /\ Count(t, i, k - 1, RATIONAL) = 0
        [] t[k] = LB -> ~operand
        [] t[k] = RB -> operand /\ Level(t, i, k) > 0
        [] t[k] = MINUS -> TRUE
        [] t[k] = DIV -> operand /\ Count(t, i, k - 1, INTEGER) = 0
        [] t[k] = EOL -> k = i \/ (operand /\ Level(t, i, k) = 0)
        [] t[k] = YYEOF -> k = i
        [] OTHER -> operand

\* The answers printed, and the ends of the lines read that hold something.
Answered == {i \in DOMAIN printed : printed[i].member # "message"}
Asked == {k \in DOMAIN read : read[k] = EOL /\ LineBegins(read, k) < k}
Said(m) == \E i \in DOMAIN printed : printed[i].member = "message" /\ printed[i].e = m

(* The calculator is interactive: when it waits for more input it has      *)
(* answered every line it was given (the default reductions of yybackup    *)
(* do not read a lookahead token first).                                   *)
AnswersBeforeItReads ==
  label = "yybackup" /\ NeedsToken => Cardinality(Answered) = Cardinality(Asked)

(* A syntax error is reported exactly when the last token cannot follow    *)
(* the ones before it, and then the calculator stops (yyerrlab; expr.y has *)
(* no error rule); it accepts only an input of complete lines.             *)
StopsAtTheFirstError ==
  /\ \A k \in 1..(Len(read) - 1) : Fits(read, k)
  /\ Said("syntax error") => ~Fits(read, Len(read))
  /\ label = "accept" => read # <<>> /\ Last(read) = YYEOF /\ Fits(read, Len(read))
  /\ label = "abort" => Said("syntax error")

-----------------------------------------------------------------------------
\* What an expression means, from the tokens alone: its operators outside of all
\* brackets, those of them that are signs, and those no sign stands before.
Operators == {PLUS, MINUS, MULT, DIV, EXPON}

Top(t, i, j) == {k \in i..j : t[k] \in Operators /\ Level(t, i, k) = 0}
Signs(t, i, j) == {k \in Top(t, i, j) : ~AfterOperand(t, i, k)}
Sums(t, i, j) == {k \in Top(t, i, j) \ Signs(t, i, j) : t[k] \in {PLUS, MINUS}}
Unsigned(t, i, j) == {k \in Top(t, i, j) : \A u \in Signs(t, i, j) : k < u}
Products(t, i, j) == {k \in Unsigned(t, i, j) : t[k] \in {MULT, DIV}}
Powers(t, i, j) == {k \in Unsigned(t, i, j) : t[k] = EXPON}

\* The meaning of the expression in t[i..j]: sums bind least and products and
\* powers more; a minus sign takes all that follows it up to the next sum.
Meaning(t) ==
  LET meaning[s \in (1..(Len(t) + 1)) \X (0..Len(t))] ==
        LET i == s[1]
            j == s[2]
            sums == Sums(t, i, j)
            products == Products(t, i, j)
            powers == Powers(t, i, j)
            Split(k) == <<t[k], meaning[<<i, k - 1>>], meaning[<<k + 1, j>>]>>
        IN  CASE sums # {} -> Split(Max(sums))
              [] sums = {} /\ products # {} -> Split(Max(products))
              [] sums = {} /\ products = {} /\ powers # {} -> Split(Min(powers))
              [] sums = {} /\ i \in Signs(t, i, j) -> <<"neg", meaning[<<i + 1, j>>]>>
              [] Top(t, i, j) = {} /\ i < j /\ t[i] = LB -> meaning[<<i + 1, j - 1>>]
              [] OTHER -> <<i>>
  IN  meaning

ValueOf(t, i, j) ==
  Union(IF \E k \in i..j : t[k] = RATIONAL THEN "rational" ELSE "integer",
        Meaning(t)[<<i, j>>])

(* Every answer is the value its line has by the precedence rules of       *)
(* expr.y, computed in one type throughout (the actions of rules 5 to 21): *)
(* no reduction reads the union member another rule wrote, and no answer   *)
(* is lost, repeated or out of order.                                      *)
AnswersAsWritten ==
  \A i \in Answered : \E k \in Asked :
    /\ Cardinality({a \in Answered : a <= i}) = Cardinality({e \in Asked : e <= k})
    /\ printed[i] = ValueOf(read, LineBegins(read, k), k - 1)

=============================================================================
