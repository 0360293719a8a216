--------------------------- MODULE Parsers_proofs ---------------------------
(***************************************************************************)
(* Proofs about the two programs with a parser of bison's. Calculator: for *)
(* inputs of any length and stacks of any depth, the states on the stack   *)
(* are a path of the parser's automaton, so that no reduction reaches      *)
(* below the bottom and no push above the top; and the top state says      *)
(* where the line stands, so that a token that is shifted fits, one that   *)
(* is an error does not, and each line is answered at its end; and what    *)
(* stands on the stack is worth what the tokens it was made of mean, so    *)
(* that each answer is the value of its line.                              *)
(* ExprValidator: for texts, reads and tables of any size, the scanner     *)
(* returns what the text means, the parser judges what one call was given, *)
(* and how often it is called depends on how the input is read.            *)
(***************************************************************************)
EXTENDS Calculator, ExprValidator, FiniteSetTheorems, WellFoundedInduction, TLAPS

(***************************************************************************)
(* The calculator.                                                         *)
(***************************************************************************)

\* The states that may lie directly below a state on the stack, by state: the
\* automaton that yypact, yytable and yypgoto pack.
Below == Array(<<
  {}, {0}, {1}, {1, 5, 7} \cup (15..19) \cup {28, 29},
  {1, 5, 7} \cup (21..24) \cup {35, 36}, {1, 5, 7}, {1}, {1, 5, 7}, {1}, {1}, {1},
  {5, 28}, {5, 35}, {7, 29}, {7, 36}, {9, 13}, {9, 13}, {9, 11, 13, 30, 31},
  {9, 11, 13, 30, 31}, {9, 11, 13} \cup (30..34), {9}, {10, 14}, {10, 14},
  {10, 12, 14, 37, 38}, {10, 12, 14} \cup (37..40), {10}, {13}, {14},
  (15..19) \cup {28, 29}, (15..19) \cup {28, 29}, {15}, {16}, {17}, {18}, {19},
  (21..24) \cup {35, 36}, (21..24) \cup {35, 36}, {21}, {22}, {23}, {24}>>)

\* The states in which a left-hand side may begin.
RationalPlaces == {1, 5, 7} \cup (15..19) \cup {28, 29}
IntegerPlaces == {1, 5, 7} \cup (21..24) \cup {35, 36}
Places == [lhs \in 14..17 |-> IF lhs = 14 THEN {0}
                              ELSE IF lhs = 15 THEN {1}
                              ELSE IF lhs = 16 THEN RationalPlaces
                              ELSE IntegerPlaces]

IsSequence(s) == s \in Seq({s[i] : i \in DOMAIN s})

\* A stack that some input can have left: it is never empty, state 0 lies at its
\* bottom, and every other state on a state it may follow.
IsPath(s) ==
  /\ IsSequence(s)
  /\ Len(s) > 0
  /\ s[1].state = 0
  /\ \A i \in 1..Len(s) : s[i].state \in YYSTATES
  /\ \A i \in 2..Len(s) : s[i - 1].state \in Below[s[i].state]

Inv ==
  /\ IsPath(yystack)
  /\ label \in {"yysetstate", "yybackup", "accept", "abort", "exhausted", "returned"}
  /\ label = "yybackup" => yystate # YYFINAL
  /\ Len(yystack) <= yystacksize
  /\ yystacksize \in YYINITDEPTH..YYMAXDEPTH
  /\ label = "yybackup" => Len(yystack) < yystacksize

-----------------------------------------------------------------------------
(* What the tables of expr.tab.c hold.                                     *)

LEMMA TableValues ==
  /\ \A n \in 0..YYLAST : yytable[n] \in YYSTATES
  /\ \A s \in YYSTATES : yydefact[s] \in 0..21 /\ (s # YYFINAL => yydefact[s] # 1)
  /\ \A n \in 0..21 : yyr2[n] \in 0..3
  /\ \A n \in 1..21 : n # 1 => yyr1[n] \in 14..17
<1>1. \A n \in 0..YYLAST : yytable[n] \in YYSTATES
  BY SMTT(60) DEF yytable, Array, YYLAST, YYSTATES
<1>2. \A s \in YYSTATES : yydefact[s] \in 0..21 /\ (s # YYFINAL => yydefact[s] # 1)
  BY SMTT(60) DEF yydefact, Array, YYSTATES, YYFINAL
<1>3. \A n \in 0..21 : yyr2[n] \in 0..3
  BY SMTT(60) DEF yyr2, Array
<1>4. \A n \in 1..21 : n # 1 => yyr1[n] \in 14..17
  BY SMTT(60) DEF yyr1, Array
<1> QED
  BY <1>1, <1>2, <1>3, <1>4

\* A token that is shifted leads to a state that may follow.
LEMMA ShiftsFollow ==
  ASSUME NEW p \in YYSTATES, NEW tok,
         yypact[p] # YYPACT_NINF, Packed(yypact[p], tok) > 0
  PROVE  /\ Packed(yypact[p], tok) \in YYSTATES
         /\ p \in Below[Packed(yypact[p], tok)]
<1> DEFINE n == yypact[p] + tok
<1>1. \A s \in YYSTATES, k \in 0..YYLAST :
        yypact[s] # YYPACT_NINF /\ yypact[s] + yycheck[k] = k /\ yytable[k] > 0 =>
          s \in Below[yytable[k]]
  BY SMTT(120) DEF yypact, yycheck, yytable, Below, Array, YYSTATES, YYLAST, YYPACT_NINF
<1>2. n \in 0..YYLAST /\ yycheck[n] = tok /\ Packed(yypact[p], tok) = yytable[n]
  BY DEF Packed
<1> HIDE DEF n
<1>3. yypact[p] + yycheck[n] = n
  BY <1>2 DEF n
<1> QED
  BY <1>1, <1>2, <1>3, TableValues

\* So does a left-hand side that is pushed where it may begin.
LEMMA GotosFollow ==
  ASSUME NEW lhs \in 14..17, NEW p \in Places[lhs]
  PROVE  Goto(p, lhs) \in YYSTATES /\ p \in Below[Goto(p, lhs)]
<1> USE DEF Goto, yypgoto, yycheck, yytable, yydefgoto, Array, YYLAST, YYNTOKENS,
            YYSTATES, Places
<1>1. \A s \in Places[16] : Goto(s, 16) \in YYSTATES /\ s \in Below[Goto(s, 16)]
  BY SMTT(60) DEF RationalPlaces, Below
<1>2. \A s \in Places[17] : Goto(s, 17) \in YYSTATES /\ s \in Below[Goto(s, 17)]
  BY SMTT(60) DEF IntegerPlaces, Below
<1>3. \A s \in Places[15] : Goto(s, 15) \in YYSTATES /\ s \in Below[Goto(s, 15)]
  BY SMTT(60) DEF Below
<1>4. \A s \in Places[14] : Goto(s, 14) \in YYSTATES /\ s \in Below[Goto(s, 14)]
  BY SMTT(60) DEF Below
<1> HIDE DEF Goto, yypgoto, yycheck, yytable, yydefgoto, Array, YYLAST, YYNTOKENS,
             YYSTATES, Places
<1> QED
  BY <1>1, <1>2, <1>3, <1>4

\* The states below a right-hand side are places of its left-hand side, and
\* the bottom is not one of those it is made of.
LEMMA RulesFit ==
  ASSUME NEW q \in YYSTATES, q # YYFINAL, yydefact[q] # 0
  PROVE  LET lhs == Places[yyr1[yydefact[q]]]
             length == yyr2[yydefact[q]]
         IN  /\ length = 0 => q = 0 /\ q \in lhs
             /\ length = 1 => Below[q] \subseteq lhs
             /\ length = 2 => \A a \in Below[q] : a # 0 /\ Below[a] \subseteq lhs
             /\ length = 3 => \A a \in Below[q] :
                                a # 0 /\ \A b \in Below[a] :
                                           b # 0 /\ Below[b] \subseteq lhs
<1> USE DEF Places, IntegerPlaces, RationalPlaces, yydefact, yyr1, yyr2, Below, Array,
            YYSTATES, YYFINAL
<1>1. yyr2[yydefact[q]] = 0 => q = 0 /\ q \in Places[yyr1[yydefact[q]]]
  BY SMTT(60)
<1>2. yyr2[yydefact[q]] = 1 => Below[q] \subseteq Places[yyr1[yydefact[q]]]
  BY SMTT(60)
<1>3. yyr2[yydefact[q]] = 2 =>
        \A a \in Below[q] : a # 0 /\ Below[a] \subseteq Places[yyr1[yydefact[q]]]
  BY SMTT(60)
<1>4. yyr2[yydefact[q]] = 3 =>
        \A a \in Below[q] :
          a # 0 /\ \A b \in Below[a] :
                     b # 0 /\ Below[b] \subseteq Places[yyr1[yydefact[q]]]
  BY SMTT(60)
<1> HIDE DEF Places, IntegerPlaces, RationalPlaces, yydefact, yyr1, yyr2, Below, Array,
             YYSTATES, YYFINAL
<1> QED
  BY <1>1, <1>2, <1>3, <1>4

-----------------------------------------------------------------------------
(* Sequences, and what pushing and popping do to a path.                   *)

LEMMA Sequence ==
  ASSUME NEW S, NEW s \in Seq(S)
  PROVE  IsSequence(s)
<1> DEFINE R == {s[i] : i \in DOMAIN s}
<1>1. s = [i \in 1..Len(s) |-> s[i]] /\ Len(s) \in Nat /\ DOMAIN s = 1..Len(s)
  OBVIOUS
<1>2. \A i \in 1..Len(s) : s[i] \in R
  BY <1>1
<1> HIDE DEF R
<1>3. s \in Seq(R)
  BY <1>1, <1>2
<1> QED
  BY <1>3 DEF IsSequence, R

LEMMA PushKeepsPath ==
  ASSUME NEW s, IsPath(s), NEW e,
         e.state \in YYSTATES, Last(s).state \in Below[e.state]
  PROVE  /\ IsPath(Append(s, e))
         /\ Len(Append(s, e)) = Len(s) + 1
         /\ Last(Append(s, e)) = e
<1> DEFINE R == {s[i] : i \in DOMAIN s}
           S == R \cup {e}
           t == Append(s, e)
<1>1. s \in Seq(S) /\ Len(s) \in Nat \ {0}
  <2>1. s \in Seq(R) /\ Len(s) > 0
    BY DEF IsPath, IsSequence
  <2>2. R \subseteq S
    OBVIOUS
  <2> HIDE DEF R, S
  <2> QED
    BY <2>1, <2>2
<1> HIDE DEF R
<1>2. e \in S
  OBVIOUS
<1> HIDE DEF S
<1>3. /\ t \in Seq(S) /\ Len(t) = Len(s) + 1 /\ t[Len(s) + 1] = e
      /\ \A i \in 1..Len(s) : t[i] = s[i]
  BY <1>1, <1>2
<1>4. IsSequence(t)
  BY <1>3, Sequence
<1> HIDE DEF t
<1>5. Last(t) = e
  BY <1>1, <1>3 DEF Last
<1>6. s[Len(s)].state \in Below[e.state]
  BY DEF Last
<1>7. \A i \in 1..Len(t) : t[i].state \in YYSTATES
  BY <1>1, <1>3 DEF IsPath
<1>8. \A i \in 2..Len(t) : t[i - 1].state \in Below[t[i].state]
  <2> TAKE i \in 2..Len(t)
  <2>1. CASE i = Len(t)
    BY <2>1, <1>1, <1>3, <1>6
  <2>2. CASE i # Len(t)
    <3>1. i \in 2..Len(s) /\ i - 1 \in 1..Len(s) /\ i \in 1..Len(s)
      BY <2>2, <1>1, <1>3
    <3> QED
      BY <3>1, <1>3 DEF IsPath
  <2> QED
    BY <2>1, <2>2
<1>9. IsPath(t)
  BY <1>1, <1>3, <1>4, <1>7, <1>8 DEF IsPath
<1> QED
  BY <1>3, <1>5, <1>9 DEF t

LEMMA PopKeepsPath ==
  ASSUME NEW s, IsPath(s), NEW n \in 1..Len(s)
  PROVE  /\ IsPath(SubSeq(s, 1, n))
         /\ Len(SubSeq(s, 1, n)) = n
         /\ Last(SubSeq(s, 1, n)) = s[n]
<1> DEFINE S == {s[i] : i \in DOMAIN s}
           t == SubSeq(s, 1, n)
<1>1. s \in Seq(S)
  BY DEF IsPath, IsSequence
<1> HIDE DEF S
<1>2. n \in Nat \ {0} /\ n <= Len(s) /\ Len(s) \in Nat
  BY <1>1
<1>3. t \in Seq(S) /\ Len(t) = n /\ \A i \in 1..n : t[i] = s[i]
  BY <1>1, <1>2
<1>4. IsSequence(t)
  BY <1>3, Sequence
<1> HIDE DEF t
<1>5. Last(t) = s[n]
  BY <1>2, <1>3 DEF Last
<1>6. \A i \in 1..Len(t) : t[i].state \in YYSTATES
  BY <1>2, <1>3 DEF IsPath
<1>7. \A i \in 2..Len(t) : t[i - 1].state \in Below[t[i].state]
  BY <1>2, <1>3 DEF IsPath
<1>8. IsPath(t)
  BY <1>2, <1>3, <1>4, <1>6, <1>7 DEF IsPath
<1> QED
  BY <1>3, <1>5, <1>8 DEF t

\* What a reduction pops is there, and leaves a place of its left-hand side on
\* top: each of the one to three entries it pops lies on another one.
LEMMA ReduceFits ==
  ASSUME NEW s, IsPath(s), NEW q, q = Last(s).state, q # YYFINAL, yydefact[q] # 0
  PROVE  LET n == yydefact[q]
             left == Len(s) - yyr2[n]
         IN  /\ n \in 1..21 /\ n # 1
             /\ left \in 1..Len(s)
             /\ s[left].state \in Places[yyr1[n]]
<1> DEFINE n == yydefact[q]
           length == yyr2[n]
           top == Len(s)
<1>1. top \in Nat \ {0}
  BY DEF IsPath, IsSequence
<1>2. q \in YYSTATES /\ q = s[top].state
  BY <1>1 DEF IsPath, Last
<1>3. n \in 1..21 /\ n # 1
  BY <1>2, TableValues
<1>4. length \in 0..3
  <2> HIDE DEF n
  <2> QED
    BY <1>3, TableValues
<1>5. /\ s[1].state = 0
      /\ \A i \in 2..top : s[i - 1].state \in Below[s[i].state]
  BY DEF IsPath
<1>6. Below[0] = {}
  BY DEF Below, Array
<1>7. /\ length = 0 => q = 0 /\ q \in Places[yyr1[n]]
      /\ length = 1 => Below[q] \subseteq Places[yyr1[n]]
      /\ length = 2 => \A a \in Below[q] : a # 0 /\ Below[a] \subseteq Places[yyr1[n]]
      /\ length = 3 => \A a \in Below[q] :
                         a # 0 /\ \A b \in Below[a] :
                                    b # 0 /\ Below[b] \subseteq Places[yyr1[n]]
  BY <1>2, RulesFit
<1>8. length # 0 => top > 1
  <2>1. yyr2[yydefact[0]] = 0
    BY SMTT(60) DEF yyr2, yydefact, Array
  <2>2. top = 1 => q = 0
    BY <1>2, <1>5
  <2>3. top = 1 => length = 0
    BY <2>1, <2>2
  <2> HIDE DEF length, top
  <2> QED
    BY <2>3, <1>1
<1> HIDE DEF n, length, top
<1>9. CASE length = 0
  BY <1>1, <1>2, <1>3, <1>4, <1>7, <1>9 DEF n, length, top
<1>10. CASE length = 1
  <2>1. s[top - 1].state \in Below[q]
    BY <1>1, <1>2, <1>5, <1>8, <1>10
  <2> QED
    BY <2>1, <1>1, <1>3, <1>4, <1>7, <1>8, <1>10 DEF n, length, top
<1>11. CASE length = 2
  <2>1. s[top - 1].state \in Below[q] /\ s[top - 1].state # 0
    BY <1>1, <1>2, <1>5, <1>7, <1>8, <1>11
  <2>2. top > 2
    BY <2>1, <1>1, <1>5, <1>8, <1>11
  <2>3. s[top - 2].state \in Below[s[top - 1].state]
    BY <2>2, <1>1, <1>5
  <2>4. s[top - 2].state \in Places[yyr1[n]]
    BY <2>1, <2>3, <1>7, <1>11
  <2> QED
    BY <2>2, <2>4, <1>1, <1>3, <1>4, <1>11 DEF n, length, top
<1>12. CASE length = 3
  <2>1. s[top - 1].state \in Below[q] /\ s[top - 1].state # 0
    BY <1>1, <1>2, <1>5, <1>7, <1>8, <1>12
  <2>2. top > 2
    BY <2>1, <1>1, <1>5, <1>8, <1>12
  <2>3. s[top - 2].state \in Below[s[top - 1].state] /\ s[top - 2].state # 0
    <3>1. s[top - 2].state \in Below[s[top - 1].state]
      BY <2>2, <1>1, <1>5
    <3> QED
      BY <3>1, <2>1, <1>7, <1>12
  <2>4. top > 3
    BY <2>2, <2>3, <1>1, <1>5
  <2>5. s[top - 3].state \in Below[s[top - 2].state]
    BY <2>4, <1>1, <1>5
  <2>6. s[top - 3].state \in Places[yyr1[n]]
    BY <2>1, <2>3, <2>5, <1>7, <1>12
  <2> QED
    BY <2>4, <2>6, <1>1, <1>3, <1>4, <1>12 DEF n, length, top
<1> QED
  BY <1>4, <1>9, <1>10, <1>11, <1>12

-----------------------------------------------------------------------------
LEMMA MinOfTwo ==
  ASSUME NEW a \in Nat, NEW b \in Nat
  PROVE  Min({a, b}) = IF a <= b THEN a ELSE b
BY DEF Min

\* An entry of the tables is a token to shift, or none.
LEMMA EntryIsShift == yystate \in YYSTATES => Entry \in YYSTATES
<1> SUFFICES ASSUME yystate \in YYSTATES PROVE Entry \in YYSTATES
  OBVIOUS
<1>1. \A base, key : Packed(base, key) \in YYSTATES
  BY TableValues DEF Packed, YYSTATES
<1> QED
  BY <1>1 DEF Entry, YYSTATES

LEMMA TopIsAState ==
  ASSUME IsPath(yystack)
  PROVE  /\ yystate \in YYSTATES
         /\ Len(yystack) \in Nat \ {0}
<1>1. Len(yystack) \in Nat \ {0}
  BY DEF IsPath, IsSequence
<1> QED
  BY <1>1 DEF IsPath, yystate, Last

LEMMA InitInv == Init => Inv
<1> SUFFICES ASSUME Init PROVE Inv
  OBVIOUS
<1> DEFINE e == [state |-> 0, val |-> Garbage]
<1>1. yystack = <<e>> /\ e.state = 0
  BY DEF Init
<1> HIDE DEF e
<1>2. yystack \in Seq({e}) /\ Len(yystack) = 1 /\ yystack[1] = e
  BY <1>1
<1>3. IsSequence(yystack)
  BY <1>2, Sequence
<1>4. IsPath(yystack)
  BY <1>1, <1>2, <1>3 DEF IsPath, YYSTATES
<1> QED
  BY <1>2, <1>4, DepthAssumption DEF Init, Inv

LEMMA StepInv == Inv /\ [Next]_vars => Inv'
<1> SUFFICES ASSUME Inv, [Next]_vars PROVE Inv'
  OBVIOUS
<1>1. /\ IsPath(yystack) /\ yystate \in YYSTATES /\ Len(yystack) \in Nat \ {0}
      /\ yystacksize \in Nat \ {0} /\ YYMAXDEPTH \in Nat
  BY TopIsAState, DepthAssumption DEF Inv
<1>2. CASE yysetstate
  <2>1. yystack' = yystack /\ IsPath(yystack)' /\ yystate' = yystate
    BY <1>1, <1>2 DEF yysetstate, yystate, IsPath
  <2>2. yystacksize < YYMAXDEPTH =>
          LET new == Min({2 * yystacksize, YYMAXDEPTH})
          IN  new \in YYINITDEPTH..YYMAXDEPTH /\ new > yystacksize
    <3> DEFINE double == 2 * yystacksize
    <3>1. Min({double, YYMAXDEPTH}) = IF double <= YYMAXDEPTH THEN double
                                      ELSE YYMAXDEPTH
      BY <1>1, MinOfTwo
    <3> QED
      BY <3>1, <1>1, DepthAssumption DEF Inv
  <2>3. CASE ~Full /\ UNCHANGED yystacksize /\
             label' = IF yystate = YYFINAL THEN "accept" ELSE "yybackup"
    BY <2>1, <2>3, <1>1 DEF Inv, Full
  <2>4. CASE /\ Full /\ yystacksize < YYMAXDEPTH
             /\ yystacksize' = Min({2 * yystacksize, YYMAXDEPTH})
             /\ label' = IF yystate = YYFINAL THEN "accept" ELSE "yybackup"
    BY <2>1, <2>2, <2>4, <1>1 DEF Inv, Full
  <2>5. CASE /\ label' = "exhausted"
             /\ yystacksize' \in IF yystacksize < YYMAXDEPTH
                                 THEN {Min({2 * yystacksize, YYMAXDEPTH})}
                                 ELSE {yystacksize}
    BY <2>1, <2>2, <2>5, <1>1 DEF Inv
  <2> QED
    BY <1>2, <2>3, <2>4, <2>5 DEF yysetstate
<1>3. CASE yylex
  BY <1>3 DEF yylex, Inv, yystate, IsPath
<1>4. CASE Shift
  <2> DEFINE e == [state |-> Entry, val |-> yylval]
  <2>1. Entry \in YYSTATES /\ yystate \in Below[Entry]
    BY <1>1, <1>4, ShiftsFollow DEF Shift, Entry
  <2>2. e.state = Entry /\ yystack' = Append(yystack, e)
    BY <1>4 DEF Shift
  <2> HIDE DEF e
  <2>3. IsPath(yystack') /\ Len(yystack') = Len(yystack) + 1
    BY <1>1, <2>1, <2>2, PushKeepsPath DEF yystate
  <2>4. label = "yybackup" /\ label' = "yysetstate" /\ yystacksize' = yystacksize
    BY <1>4 DEF Shift
  <2> QED
    BY <1>1, <2>3, <2>4 DEF Inv, IsPath
<1>5. CASE Reduce
  <2> DEFINE n == yydefact[yystate]
             left == Len(yystack) - yyr2[n]
             rest == SubSeq(yystack, 1, left)
  <2>1. Entry = 0 /\ n # 0 /\ yystate # YYFINAL
    <3>1. Entry <= 0 /\ label = "yybackup"
      BY <1>5 DEF Reduce
    <3>2. Entry \in 0..40
      BY <1>1, EntryIsShift DEF YYSTATES
    <3>3. \A k \in 0..40 : k <= 0 => k = 0 /\ ~(k < 0)
      OBVIOUS
    <3>4. Entry = 0 /\ ~(Entry < 0)
      BY <3>1, <3>2, <3>3, Zenon
    <3>5. n # 0
      BY <1>5, <3>4, Zenon DEF Reduce
    <3> QED
      BY <3>1, <3>4, <3>5 DEF Inv
  <2>2. n \in 1..21 /\ n # 1 /\ left \in 1..Len(yystack)
        /\ yystack[left].state \in Places[yyr1[n]]
    BY <1>1, <2>1, ReduceFits DEF yystate
  <2>3. PICK e : /\ e.state = Goto(Last(rest).state, yyr1[n])
                 /\ yystack' = Append(rest, e)
    <3> DEFINE rhs == [i \in 1..yyr2[n] |-> yystack[Len(rest) + i].val]
               new == [state |-> Goto(Last(rest).state, yyr1[n]),
                       val |-> Action(n, rhs)]
    <3>1. yystack' = Append(rest, new)
      <4>1. ~(Entry < 0)
        BY <2>1
      <4> QED
        BY <1>5, <4>1, Zenon DEF Reduce
    <3>2. new.state = Goto(Last(rest).state, yyr1[n])
      BY Zenon
    <3> QED
      BY <3>1, <3>2, Zenon
  <2> HIDE DEF n, left
  <2>4. IsPath(rest) /\ Len(rest) = left /\ Last(rest) = yystack[left]
    BY <1>1, <2>2, PopKeepsPath
  <2> HIDE DEF rest
  <2>5. yyr1[n] \in 14..17
    BY <2>2, TableValues
  <2>6. e.state \in YYSTATES /\ Last(rest).state \in Below[e.state]
    BY <2>2, <2>3, <2>4, <2>5, GotosFollow
  <2>7. IsPath(yystack') /\ Len(yystack') = left + 1
    BY <2>3, <2>4, <2>6, PushKeepsPath
  <2>8. label = "yybackup" /\ label' = "yysetstate" /\ yystacksize' = yystacksize
    BY <1>5 DEF Reduce
  <2> QED
    BY <1>1, <2>2, <2>7, <2>8 DEF Inv, IsPath
<1>6. ASSUME yystack' = SubSeq(yystack, 1, 1), yystacksize' = yystacksize,
             label' \in {"abort", "returned"}
      PROVE  Inv'
  <2>1. IsPath(yystack') /\ Len(yystack') = 1
    BY <1>1, <1>6, PopKeepsPath
  <2> QED
    BY <1>1, <1>6, <2>1 DEF Inv, IsPath
<1>7. CASE Error
  BY <1>6, <1>7 DEF Error
<1>8. CASE Return
  BY <1>6, <1>8 DEF Return
<1>9. CASE UNCHANGED vars
  BY <1>9 DEF vars, Inv, yystate, IsPath
<1> QED
  BY <1>2, <1>3, <1>4, <1>5, <1>7, <1>8, <1>9 DEF Next

-----------------------------------------------------------------------------
\* The stacks of yyparse are neither overrun nor read below their bottom, for any
\* input and any limits of their size (yysetstate and yyreduce of expr.tab.c).
THEOREM ParserStaysOnItsStack == Spec => []StacksHaveRoom
<1>1. Inv => StacksHaveRoom
  <2> SUFFICES ASSUME Inv PROVE StacksHaveRoom
    OBVIOUS
  <2>1. ASSUME label = "yybackup" PROVE yyr2[yydefact[yystate]] < Len(yystack)
    <3>1. IsPath(yystack) /\ yystate # YYFINAL /\ Len(yystack) \in Nat \ {0}
      BY <2>1, TopIsAState DEF Inv
    <3>2. CASE yydefact[yystate] = 0
      <4>1. yyr2[0] = 0
        BY SMT DEF yyr2, Array
      <4> QED
        BY <3>1, <3>2, <4>1
    <3>3. CASE yydefact[yystate] # 0
      <4> DEFINE n == yydefact[yystate]
      <4>1. n \in 0..21 /\ Len(yystack) - yyr2[n] \in 1..Len(yystack)
        BY <3>1, <3>3, ReduceFits, TopIsAState, TableValues DEF yystate
      <4> HIDE DEF n
      <4>2. yyr2[n] \in 0..3
        BY <4>1, TableValues
      <4> QED
        BY <3>1, <4>1, <4>2 DEF n
    <3> QED
      BY <3>2, <3>3
  <2> QED
    BY <2>1 DEF Inv, StacksHaveRoom
<1> QED
  BY <1>1, InitInv, StepInv, PTL DEF Spec

-----------------------------------------------------------------------------
(* What a state of the calculator's parser says of the line it has read.   *)

Tokens == {YYEOF} \cup (3..12)

\* The states behind an operand, at the beginning of a line, in a rational and
\* in an integer line, and behind an opening and a closing bracket.
AfterStates == {3, 4, 26, 27} \cup (9..14) \cup (30..34) \cup (37..40)
StartStates == {0, 1, 6, 8, 20, 25}
RationalStates == {3, 9, 11, 13, 26} \cup (15..19) \cup (28..34)
IntegerStates == {4, 10, 12, 14, 27} \cup (21..24) \cup (35..40)
OpenStates == {7, 29, 36}
CloseStates == {26, 27}

\* The tokens a state shifts, and the state behind them.
Shiftable(p, tok) ==
  /\ tok \in {RATIONAL, INTEGER, LB} => p \notin AfterStates
  /\ tok = RATIONAL => p \notin IntegerStates
  /\ tok = INTEGER => p \notin RationalStates
  /\ tok \in {PLUS, MULT, DIV, EXPON, RB} => p \in AfterStates
  /\ tok = DIV => p \notin IntegerStates
  /\ tok = RB => p \in {13, 14}
  /\ tok = EOL => p \in {1, 9, 10}
  /\ tok = YYEOF => p = 1

LeadsTo(p, tok, q) ==
  /\ tok \in Tokens
  /\ q \in AfterStates <=> tok \in Operands
  /\ q \in StartStates <=> tok = EOL
  /\ q \in RationalStates <=> tok = RATIONAL \/ (tok # EOL /\ p \in RationalStates)
  /\ q \in IntegerStates <=> tok = INTEGER \/ (tok # EOL /\ p \in IntegerStates)
  /\ q \in OpenStates <=> tok = LB
  /\ q \in CloseStates <=> tok = RB
  /\ q = YYFINAL <=> tok = YYEOF
  /\ q \in {20, 25} <=> tok = EOL /\ p # 1
  /\ p \notin CloseStates /\ p \notin {20, 25}

\* The tokens that are an error in a state without a reduction.
Unfit(p, tok) ==
  /\ tok \in {RATIONAL, INTEGER, LB} =>
       \/ p \in AfterStates
       \/ tok = RATIONAL /\ p \in IntegerStates
       \/ tok = INTEGER /\ p \in RationalStates
  /\ tok # MINUS
  /\ tok \in {PLUS, MULT, EXPON} => p \notin AfterStates
  /\ tok = DIV => p \notin AfterStates \/ p \in IntegerStates
  /\ tok = RB => p \notin AfterStates \/ p \in {9, 10}
  /\ tok = EOL => p \notin StartStates /\ (p \notin AfterStates \/ p \in {13, 14})
  /\ tok = YYEOF => p \notin StartStates

LEMMA ShiftsAre ==
  ASSUME NEW p \in YYSTATES, NEW tok, yypact[p] # YYPACT_NINF, Packed(yypact[p], tok) > 0
  PROVE  Shiftable(p, tok) /\ LeadsTo(p, tok, Packed(yypact[p], tok))
<1> DEFINE n == yypact[p] + tok
<1>1. \A s \in YYSTATES, k \in 0..YYLAST :
        yypact[s] # YYPACT_NINF /\ yypact[s] + yycheck[k] = k /\ yytable[k] > 0 =>
          Shiftable(s, yycheck[k])
  BY SMTT(120) DEF yypact, yycheck, yytable, Shiftable, Array, YYSTATES, YYLAST, YYPACT_NINF,
     RATIONAL, INTEGER, LB, RB, PLUS, MULT, DIV, EXPON, EOL, YYEOF, AfterStates, IntegerStates,
     RationalStates
<1>2. \A s \in YYSTATES, k \in 0..YYLAST :
        yypact[s] # YYPACT_NINF /\ yypact[s] + yycheck[k] = k /\ yytable[k] > 0 =>
          LeadsTo(s, yycheck[k], yytable[k])
  BY SMTT(120) DEF yypact, yycheck, yytable, LeadsTo, Array, YYSTATES, YYLAST, YYPACT_NINF,
     RATIONAL, INTEGER, LB, RB, EOL, YYEOF, YYFINAL, AfterStates, IntegerStates, RationalStates,
     StartStates, OpenStates, CloseStates, Operands, Tokens
<1>3. n \in 0..YYLAST /\ yycheck[n] = tok /\ Packed(yypact[p], tok) = yytable[n]
  BY DEF Packed
<1> HIDE DEF n
<1>4. yypact[p] + yycheck[n] = n
  BY <1>3 DEF n
<1> QED
  BY <1>1, <1>2, <1>3, <1>4

LEMMA ErrorsAre ==
  ASSUME NEW p \in YYSTATES, p # YYFINAL, yydefact[p] = 0, NEW tok \in Tokens,
         Packed(yypact[p], tok) <= 0
  PROVE  Unfit(p, tok)
<1>2. \A s \in YYSTATES, c \in 0..12 :
        /\ s # YYFINAL /\ yydefact[s] = 0 /\ c \in Tokens
        /\ yypact[s] + c \in 0..YYLAST /\ yycheck[yypact[s] + c] = c
             => yytable[yypact[s] + c] = 0
        => Unfit(s, c)
  BY SMTT(200) DEF yypact, yydefact, yycheck, yytable, Unfit, Array, YYSTATES, YYLAST, YYFINAL,
     RATIONAL, INTEGER, LB, RB, PLUS, MINUS, MULT, DIV, EXPON, EOL, YYEOF, AfterStates,
     IntegerStates, RationalStates, StartStates, Tokens
<1>3. tok \in 0..12
  BY DEF Tokens, YYEOF
<1>4. ASSUME yypact[p] + tok \in 0..YYLAST, yycheck[yypact[p] + tok] = tok
      PROVE  yytable[yypact[p] + tok] = 0
  <2>1. Packed(yypact[p], tok) = yytable[yypact[p] + tok]
    BY <1>4 DEF Packed
  <2>2. yytable[yypact[p] + tok] \in 0..40
    BY <1>4, TableValues DEF YYSTATES
  <2> QED
    BY <2>1, <2>2
<1> QED
  BY <1>2, <1>3, <1>4

\* The states a left-hand side leads to, and those it is reduced in, say the same.
Alike(p, q) ==
  /\ p \in AfterStates <=> q \in AfterStates
  /\ p \in StartStates <=> q \in StartStates
  /\ p \in RationalStates <=> q \in RationalStates
  /\ p \in IntegerStates <=> q \in IntegerStates

Pushed == [lhs \in 14..17 |-> IF lhs = 14 THEN {1}
                              ELSE IF lhs = 15 THEN {8}
                              ELSE IF lhs = 16 THEN {9, 11, 13} \cup (30..34)
                              ELSE {10, 12, 14} \cup (37..40)]

LEMMA GotosAre ==
  ASSUME NEW lhs \in 14..17, NEW p \in Places[lhs]
  PROVE  Goto(p, lhs) \in Pushed[lhs]
<1> USE DEF Goto, yypgoto, yycheck, yytable, yydefgoto, Array, YYLAST, YYNTOKENS, Places, Pushed
<1>1. \A s \in Places[16] : Goto(s, 16) \in Pushed[16]
  BY SMTT(60) DEF RationalPlaces
<1>2. \A s \in Places[17] : Goto(s, 17) \in Pushed[17]
  BY SMTT(60) DEF IntegerPlaces
<1>3. \A s \in Places[15] : Goto(s, 15) \in Pushed[15]
  BY SMTT(60)
<1>4. \A s \in Places[14] : Goto(s, 14) \in Pushed[14]
  BY SMTT(60)
<1> HIDE DEF Goto, yypgoto, yycheck, yytable, yydefgoto, Array, YYLAST, YYNTOKENS, Places, Pushed
<1> QED
  BY <1>1, <1>2, <1>3, <1>4

LEMMA ReductionsAre ==
  ASSUME NEW q \in YYSTATES, q # YYFINAL, yydefact[q] # 0, NEW r \in Pushed[yyr1[yydefact[q]]]
  PROVE  /\ Alike(r, q) /\ r \notin OpenStates /\ r \notin CloseStates /\ r # YYFINAL
         /\ r \notin {20, 25}
<1>1. \A s \in YYSTATES : s # YYFINAL /\ yydefact[s] # 0 =>
        \A r1 \in Pushed[yyr1[yydefact[s]]] :
          Alike(r1, s) /\ r1 \notin OpenStates /\ r1 \notin CloseStates /\ r1 # YYFINAL
            /\ r1 \notin {20, 25}
  BY SMTT(120) DEF yydefact, yyr1, Array, YYSTATES, YYFINAL, Pushed, Alike, AfterStates,
     StartStates, RationalStates, IntegerStates, OpenStates, CloseStates
<1> QED
  BY <1>1

\* The brackets among the states a reduction pops: the opening one of a bracketed
\* expression, which is the lowest, or none.
LEMMA PopsAre ==
  ASSUME NEW q \in YYSTATES, q # YYFINAL, yydefact[q] # 0
  PROVE  LET length == yyr2[yydefact[q]]
         IN  /\ q \in CloseStates => length = 3
             /\ q \notin OpenStates
             /\ length \in {2, 3} => \A a \in Below[q] : a \notin OpenStates
             /\ length = 3 => \A a \in Below[q] :
                                \A b \in Below[a] : b \in OpenStates <=> q \in CloseStates
<1> USE DEF yydefact, yyr2, Below, Array, YYSTATES, YYFINAL, OpenStates, CloseStates
<1>1. \A s \in YYSTATES : s # YYFINAL /\ yydefact[s] # 0 =>
        (s \in CloseStates => yyr2[yydefact[s]] = 3) /\ s \notin OpenStates
  BY SMTT(60)
<1>2. \A s \in YYSTATES : s # YYFINAL /\ yydefact[s] # 0 /\ yyr2[yydefact[s]] \in {2, 3} =>
        \A a \in Below[s] : a \notin OpenStates
  BY SMTT(60)
<1>3. \A s \in YYSTATES : s # YYFINAL /\ yydefact[s] # 0 /\ yyr2[yydefact[s]] = 3 =>
        \A a \in Below[s] : \A b \in Below[a] : b \in OpenStates <=> s \in CloseStates
  BY SMTT(60)
<1> HIDE DEF yydefact, yyr2, Below, Array, YYSTATES, YYFINAL, OpenStates, CloseStates
<1> QED
  BY <1>1, <1>2, <1>3

LEMMA AnswersAre ==
  ASSUME NEW q \in YYSTATES
  PROVE  yydefact[q] \in {5, 6} <=> q \in {20, 25}
BY SMTT(60) DEF yydefact, Array, YYSTATES

-----------------------------------------------------------------------------
(* Where a token stands in its line, when one more has been read.          *)

Begins(t, n) == LineBegins(t, n + 1)
Behind(t, n) == AfterOperand(t, Begins(t, n), n + 1)
Has(t, n, tok) == Count(t, Begins(t, n), n, tok)

LEMMA GreatestOf ==
  ASSUME NEW n \in Nat, NEW T \in SUBSET (0..n), 0 \in T, NEW m \in T, \A x \in T : x <= m
  PROVE  Max(T) = m
<1>1. \A x \in T : x \in Nat
  OBVIOUS
<1>2. \A x \in T : m >= x
  BY <1>1
<1>3. \A y \in T : (\A x \in T : y >= x) => y = m
  <2> TAKE y \in T
  <2> HAVE \A x \in T : y >= x
  <2>1. y >= m /\ y <= m
    OBVIOUS
  <2> QED
    BY <1>1, <2>1
<1> QED
  BY <1>2, <1>3, Zenon DEF Max

LEMMA LeastNatural ==
  ASSUME NEW T \in SUBSET Nat, T # {}
  PROVE  \E x \in T : \A y \in T : x <= y
<1>1. PICK x \in T : \A y \in T : ~ (<<y, x>> \in OpToRel(<, Nat))
  BY NatLessThanWellFounded, WFMin, Zenon
<1>2. \A y \in T : ~ (y < x)
  BY <1>1 DEF OpToRel
<1> QED
  BY <1>2

LEMMA GreatestExists ==
  ASSUME NEW n \in Nat, NEW T \in SUBSET (0..n), 0 \in T
  PROVE  \E m \in T : m \in Nat /\ m <= n /\ \A x \in T : x <= m
<1> DEFINE Rest == {n - x : x \in T}
<1>1. Rest \in SUBSET Nat /\ Rest # {}
  OBVIOUS
<1> HIDE DEF Rest
<1>2. PICK r \in Rest : \A y \in Rest : r <= y
  BY <1>1, LeastNatural
<1>3. PICK m \in T : r = n - m
  BY <1>2 DEF Rest
<1>4. \A y \in T : y <= m
  <2> TAKE y \in T
  <2>1. n - m <= n - y
    BY <1>2, <1>3 DEF Rest
  <2> QED
    BY <2>1
<1> QED
  BY <1>4

\* The beginning of the line, and where it is one token later.
LEMMA BeginsIs ==
  ASSUME NEW t, NEW n \in Nat
  PROVE  /\ Begins(t, n) \in 1..(n + 1)
         /\ \A e \in 1..n : t[e] = EOL => e < Begins(t, n)
         /\ Begins(t, n) > 1 => t[Begins(t, n) - 1] = EOL
<1> DEFINE T == {0} \cup {e \in 1..((n + 1) - 1) : t[e] = EOL}
<1>1. (n + 1) - 1 = n
  OBVIOUS
<1>2. T \in SUBSET (0..n) /\ 0 \in T /\ \A e \in T : e > 0 => t[e] = EOL
  BY <1>1
<1>3. \A e \in 1..n : t[e] = EOL => e \in T
  BY <1>1
<1>4. Begins(t, n) = Max(T) + 1
  BY DEF Begins, LineBegins
<1> HIDE DEF T
<1>5. PICK m \in T : m \in Nat /\ m <= n /\ \A x \in T : x <= m
  BY <1>2, GreatestExists
<1>6. Max(T) = m
  BY <1>2, <1>5, GreatestOf
<1>7. Begins(t, n) = m + 1 /\ (m + 1) - 1 = m
  BY <1>4, <1>5, <1>6
<1>8. \A e \in 1..n : t[e] = EOL => e <= m
  BY <1>3, <1>5
<1>9. Begins(t, n) > 1 => t[m] = EOL
  BY <1>2, <1>5, <1>7
<1> QED
  BY <1>5, <1>7, <1>8, <1>9

LEMMA BeginsIsOnly ==
  ASSUME NEW t, NEW n \in Nat, NEW b \in 1..(n + 1), \A e \in 1..n : t[e] = EOL => e < b,
         b > 1 => t[b - 1] = EOL
  PROVE  Begins(t, n) = b
<1>1. /\ Begins(t, n) \in 1..(n + 1)
      /\ \A e \in 1..n : t[e] = EOL => e < Begins(t, n)
      /\ Begins(t, n) > 1 => t[Begins(t, n) - 1] = EOL
  BY BeginsIs
<1>2. ~(Begins(t, n) < b)
  <2>1. Begins(t, n) < b => b - 1 \in 1..n /\ t[b - 1] = EOL /\ ~(b - 1 < Begins(t, n))
    BY <1>1
  <2> QED
    BY <1>1, <2>1
<1>3. ~(b < Begins(t, n))
  <2>1. b < Begins(t, n) => /\ Begins(t, n) - 1 \in 1..n /\ t[Begins(t, n) - 1] = EOL
                            /\ ~(Begins(t, n) - 1 < b)
    BY <1>1
  <2> QED
    BY <1>1, <2>1
<1> QED
  BY <1>1, <1>2, <1>3

\* What one more token does to a line.
LEMMA NextBegins ==
  ASSUME NEW t, NEW n \in Nat
  PROVE  Begins(t, n + 1) = IF t[n + 1] = EOL THEN n + 2 ELSE Begins(t, n)
<1>1. /\ Begins(t, n) \in 1..(n + 1)
      /\ \A e \in 1..n : t[e] = EOL => e < Begins(t, n)
      /\ Begins(t, n) > 1 => t[Begins(t, n) - 1] = EOL
  BY BeginsIs
<1>2. n + 1 \in Nat /\ (n + 1) + 1 = n + 2 /\ (n + 2) - 1 = n + 1
  OBVIOUS
<1>3. \A e \in 1..(n + 1) : e \in 1..n \/ e = n + 1
  OBVIOUS
<1>4. CASE t[n + 1] = EOL
  <2>1. PICK b \in 1..((n + 1) + 1) : b = n + 2
    BY <1>2
  <2>2. \A e \in 1..(n + 1) : e < b
    BY <2>1
  <2>3. b > 1 => t[b - 1] = EOL
    BY <1>2, <1>4, <2>1
  <2>4. Begins(t, n + 1) = b
    BY <1>2, <2>2, <2>3, BeginsIsOnly
  <2> QED
    BY <1>4, <2>1, <2>4
<1>5. CASE t[n + 1] # EOL
  <2>1. PICK b \in 1..((n + 1) + 1) : b = Begins(t, n)
    BY <1>1
  <2>2. \A e \in 1..(n + 1) : t[e] = EOL => e < b
    BY <1>1, <1>3, <1>5, <2>1
  <2>3. b > 1 => t[b - 1] = EOL
    BY <1>1, <2>1
  <2>4. Begins(t, n + 1) = b
    BY <1>2, <2>2, <2>3, BeginsIsOnly
  <2> QED
    BY <1>5, <2>1, <2>4
<1> QED
  BY <1>4, <1>5

LEMMA NextBehind ==
  ASSUME NEW t, NEW n \in Nat
  PROVE  /\ Behind(t, n + 1) <=> t[n + 1] \in Operands
         /\ Begins(t, n + 1) = (n + 1) + 1 <=> t[n + 1] = EOL
<1>1. Begins(t, n) \in 1..(n + 1)
  BY BeginsIs
<1>2. Begins(t, n + 1) = IF t[n + 1] = EOL THEN n + 2 ELSE Begins(t, n)
  BY NextBegins
<1>3. t[n + 1] = EOL => t[n + 1] \notin Operands
  BY DEF EOL, Operands, RATIONAL, INTEGER, RB
<1>4. ((n + 1) + 1) - 1 = n + 1 /\ (n + 1) + 1 = n + 2
  OBVIOUS
<1>5. (n + 1) + 1 > Begins(t, n + 1) <=> t[n + 1] # EOL
  BY <1>1, <1>2
<1>6. Begins(t, n + 1) = (n + 1) + 1 <=> t[n + 1] = EOL
  BY <1>1, <1>2
<1> QED
  BY <1>3, <1>4, <1>5, <1>6 DEF Behind, AfterOperand

LEMMA CountIs ==
  ASSUME NEW t, NEW i \in Nat, NEW j \in Int, NEW tok
  PROVE  IsFiniteSet({k \in i..j : t[k] = tok}) /\ Count(t, i, j, tok) \in Nat
<1>1. IsFiniteSet(i..j)
  BY FS_Interval
<1>2. IsFiniteSet({k \in i..j : t[k] = tok})
  BY <1>1, FS_Subset
<1> QED
  BY <1>2, FS_CardinalityType DEF Count

LEMMA NextHas ==
  ASSUME NEW t, NEW n \in Nat, NEW tok
  PROVE  /\ Has(t, n, tok) \in Nat
         /\ Has(t, n + 1, tok) = IF t[n + 1] = EOL THEN 0
                                 ELSE Has(t, n, tok) + (IF t[n + 1] = tok THEN 1 ELSE 0)
<1>1. Begins(t, n) \in 1..(n + 1) /\ Begins(t, n) \in Nat
  BY BeginsIs
<1>2. Begins(t, n + 1) = IF t[n + 1] = EOL THEN n + 2 ELSE Begins(t, n)
  BY NextBegins
<1> DEFINE S(i, j) == {k \in i..j : t[k] = tok}
<1>3. PICK b \in Nat : b = Begins(t, n) /\ b <= n + 1
  BY <1>1
<1>4. IsFiniteSet(S(b, n)) /\ Cardinality(S(b, n)) \in Nat /\ Has(t, n, tok) = Cardinality(S(b, n))
  <2>1. n \in Int
    OBVIOUS
  <2>2. IsFiniteSet({k \in b..n : t[k] = tok}) /\ Count(t, b, n, tok) \in Nat
    BY <2>1, CountIs
  <2> QED
    BY <1>3, <2>2 DEF Count, Has
<1>5. CASE t[n + 1] = EOL
  <2>1. S(n + 2, n + 1) = {}
    OBVIOUS
  <2>2. Has(t, n + 1, tok) = Cardinality(S(n + 2, n + 1))
    BY <1>2, <1>5 DEF Has, Count
  <2> QED
    BY <1>4, <1>5, <2>1, <2>2, FS_EmptySet
<1>6. CASE t[n + 1] # EOL
  <2>1. Has(t, n + 1, tok) = Cardinality(S(b, n + 1))
    BY <1>2, <1>3, <1>6 DEF Has, Count
  <2>2. S(b, n + 1) = IF t[n + 1] = tok THEN S(b, n) \cup {n + 1} ELSE S(b, n)
    BY <1>3
  <2>3. n + 1 \notin S(b, n)
    BY <1>3
  <2> HIDE DEF S
  <2>4. Cardinality(S(b, n) \cup {n + 1}) = Cardinality(S(b, n)) + 1
    BY <1>4, <2>3, FS_AddElement
  <2> QED
    BY <1>4, <1>6, <2>1, <2>2, <2>4
<1> QED
  BY <1>4, <1>5, <1>6

\* Nothing has been read.
LEMMA FirstPlace ==
  ASSUME NEW t
  PROVE  /\ Begins(t, 0) = 1 /\ ~Behind(t, 0)
         /\ \A tok : Has(t, 0, tok) = 0
<1>1. Begins(t, 0) \in 1..(0 + 1) /\ 0 \in Nat
  BY BeginsIs
<1>2. Begins(t, 0) = 1
  BY <1>1
<1>3. ~Behind(t, 0)
  BY <1>2 DEF Behind, AfterOperand
<1>4. \A tok : {k \in 1..0 : t[k] = tok} = {}
  OBVIOUS
<1>5. \A tok : Has(t, 0, tok) = 0
  BY <1>2, <1>4, FS_EmptySet DEF Has, Count
<1> QED
  BY <1>2, <1>3, <1>5

\* What is read later does not matter.
LEMMA PlaceStays ==
  ASSUME NEW t, NEW u, NEW n \in Nat, \A k \in 1..n : u[k] = t[k]
  PROVE  /\ Begins(u, n) = Begins(t, n) /\ (Behind(u, n) <=> Behind(t, n))
         /\ \A tok : Has(u, n, tok) = Has(t, n, tok)
<1>1. /\ Begins(t, n) \in 1..(n + 1)
      /\ \A e \in 1..n : t[e] = EOL => e < Begins(t, n)
      /\ Begins(t, n) > 1 => t[Begins(t, n) - 1] = EOL
  BY BeginsIs
<1>2. PICK b \in 1..(n + 1) : b = Begins(t, n)
  BY <1>1
<1>3. \A e \in 1..n : u[e] = EOL => e < b
  BY <1>1, <1>2
<1>4. b > 1 => u[b - 1] = EOL
  <2>1. b > 1 => b - 1 \in 1..n
    BY <1>2
  <2> QED
    BY <1>1, <1>2, <2>1
<1>5. Begins(u, n) = b
  BY <1>3, <1>4, BeginsIsOnly
<1>6. (n + 1) - 1 = n /\ (n + 1 > b => n \in 1..n)
  BY <1>2
<1>7. Behind(u, n) <=> Behind(t, n)
  BY <1>2, <1>5, <1>6 DEF Behind, AfterOperand
<1>8. \A tok : {k \in b..n : u[k] = tok} = {k \in b..n : t[k] = tok}
  BY <1>2
<1> QED
  BY <1>2, <1>5, <1>7, <1>8 DEF Has, Count

\* Whether a token fits, by what has been read of its line.
Depth(t, n) == Has(t, n, LB) - Has(t, n, RB)

FitsBehind(t, n, tok) ==
  /\ tok \in {RATIONAL, INTEGER, LB} => ~Behind(t, n)
  /\ tok = RATIONAL => Has(t, n, INTEGER) = 0
  /\ tok = INTEGER => Has(t, n, RATIONAL) = 0
  /\ tok \in {PLUS, MULT, DIV, EXPON, RB} => Behind(t, n)
  /\ tok = DIV => Has(t, n, INTEGER) = 0
  /\ tok = RB => Depth(t, n) > 0
  /\ tok = EOL => Begins(t, n) = n + 1 \/ (Behind(t, n) /\ Depth(t, n) = 0)
  /\ tok = YYEOF => Begins(t, n) = n + 1

LEMMA FitsIs ==
  ASSUME NEW t, NEW n \in Nat, t[n + 1] \in Tokens
  PROVE  Fits(t, n + 1) <=> FitsBehind(t, n, t[n + 1])
<1>1. (n + 1) - 1 = n
  OBVIOUS
<1> DEFINE tok == t[n + 1]
<1>2. Fits(t, n + 1) <=>
        CASE tok = RATIONAL -> ~Behind(t, n) /\ Has(t, n, INTEGER) = 0
          [] tok = INTEGER -> ~Behind(t, n) /\ Has(t, n, RATIONAL) = 0
          [] tok = LB -> ~Behind(t, n)
          [] tok = RB -> Behind(t, n) /\ Depth(t, n) > 0
          [] tok = MINUS -> TRUE
          [] tok = DIV -> Behind(t, n) /\ Has(t, n, INTEGER) = 0
          [] tok = EOL -> n + 1 = Begins(t, n) \/ (Behind(t, n) /\ Depth(t, n) = 0)
          [] tok = YYEOF -> n + 1 = Begins(t, n)
          [] OTHER -> Behind(t, n)
  BY <1>1 DEF Fits, Begins, Behind, Has, Depth, Level
<1> DEFINE F == Fits(t, n + 1)
           B == Behind(t, n)
           I == Has(t, n, INTEGER) = 0
           R == Has(t, n, RATIONAL) = 0
           D == Depth(t, n) > 0
           Z == Depth(t, n) = 0
           L == n + 1 = Begins(t, n)
<1>3. tok \in Tokens
  OBVIOUS
<1> HIDE DEF tok, F, B, I, R, D, Z, L
<1>4. F <=> /\ tok \in {RATIONAL, INTEGER, LB} => ~B
            /\ tok = RATIONAL => I
            /\ tok = INTEGER => R
            /\ tok \in {PLUS, MULT, DIV, EXPON, RB} => B
            /\ tok = DIV => I
            /\ tok = RB => D
            /\ tok = EOL => L \/ (B /\ Z)
            /\ tok = YYEOF => L
  BY <1>2, <1>3 DEF Tokens, RATIONAL, INTEGER, LB, RB, PLUS, MINUS, MULT, DIV, EXPON, EOL, YYEOF,
     F, B, I, R, D, Z, L
<1> QED
  BY <1>4, Zenon DEF F, B, I, R, D, Z, L, tok, FitsBehind

-----------------------------------------------------------------------------
(* The stack, and where the line it has read stands.                       *)

Open(s) == {i \in 1..Len(s) : s[i].state \in OpenStates}
Closes(q) == IF q \in CloseStates THEN 1 ELSE 0

Follows(t, n, s) ==
  /\ Last(s).state \in AfterStates <=> Behind(t, n)
  /\ Last(s).state \in StartStates <=> Begins(t, n) = n + 1
  /\ Last(s).state \in RationalStates <=> Has(t, n, RATIONAL) > 0
  /\ Last(s).state \in IntegerStates <=> Has(t, n, INTEGER) > 0
  /\ Depth(t, n) = Cardinality(Open(s)) - Closes(Last(s).state)

LEMMA PathIs ==
  ASSUME NEW s, IsPath(s)
  PROVE  /\ Len(s) \in Nat \ {0} /\ Last(s) = s[Len(s)]
         /\ IsFiniteSet(Open(s)) /\ Cardinality(Open(s)) \in Nat
<1>1. Len(s) \in Nat \ {0}
  BY DEF IsPath, IsSequence
<1>2. IsFiniteSet(1..Len(s))
  BY <1>1, FS_Interval
<1>3. IsFiniteSet(Open(s))
  BY <1>2, FS_Subset DEF Open
<1> QED
  BY <1>1, <1>3, FS_CardinalityType DEF Last

\* An expression that is a line has no brackets below, and one in brackets has.
LEMMA DepthOfPath ==
  ASSUME NEW s, IsPath(s), NEW p, p = Last(s).state
  PROVE  /\ p \in {1, 9, 10} => Cardinality(Open(s)) = 0
         /\ p \in {13, 14} => Cardinality(Open(s)) > 0
<1>1. /\ Below[0] = {} /\ Below[1] = {0} /\ Below[9] = {1} /\ Below[10] = {1}
      /\ Below[13] = {7, 29} /\ Below[14] = {7, 36}
  BY SMTT(60) DEF Below, Array
<1>2. Len(s) \in Nat \ {0} /\ p = s[Len(s)].state
      /\ IsFiniteSet(Open(s)) /\ Cardinality(Open(s)) \in Nat
  BY PathIs
<1>3. s[1].state = 0 /\ \A i \in 2..Len(s) : s[i - 1].state \in Below[s[i].state]
  BY DEF IsPath
<1>4. ASSUME p \in {1, 9, 10} PROVE Cardinality(Open(s)) = 0
  <2>1. \A i \in 2..Len(s) : s[i].state = 1 => i = 2
    <3> TAKE i \in 2..Len(s)
    <3> HAVE s[i].state = 1
    <3>1. s[i - 1].state = 0
      BY <1>1, <1>3
    <3>2. i - 1 \in 2..Len(s) => s[(i - 1) - 1].state \in Below[0]
      BY <1>3, <3>1
    <3> QED
      BY <1>1, <1>2, <3>2
  <2>2. \A i \in 1..Len(s) : s[i].state \in {0, 1, 9, 10}
    <3>1. CASE p = 1
      <4>1. PICK m \in Nat \ {0} : m = Len(s)
        BY <1>2
      <4>2. m # 1 /\ s[m].state = 1
        BY <1>2, <1>3, <3>1, <4>1
      <4>3. m \in 2..Len(s)
        BY <4>1, <4>2
      <4>4. m = 2
        BY <2>1, <4>2, <4>3
      <4>5. \A i \in 1..Len(s) : i = 1 \/ i = m
        BY <4>1, <4>4
      <4> QED
        BY <1>3, <4>2, <4>5
    <3>2. CASE p \in {9, 10}
      <4>1. Len(s) \in 2..Len(s)
        BY <1>2, <1>3, <3>2
      <4>2. s[Len(s) - 1].state = 1
        BY <1>1, <1>2, <1>3, <3>2, <4>1
      <4>3. Len(s) - 1 = 2
        <5>1. Len(s) - 1 \in 2..Len(s)
          BY <1>2, <1>3, <4>1, <4>2
        <5> QED
          BY <2>1, <4>2, <5>1
      <4>4. \A i \in 1..Len(s) : i = 1 \/ i = 2 \/ i = Len(s)
        <5>1. PICK m \in Nat : m = Len(s)
          BY <1>2
        <5>2. m = 3
          BY <4>3, <5>1
        <5> QED
          BY <5>1, <5>2
      <4>5. s[2].state = 1
        BY <4>2, <4>3
      <4> QED
        BY <1>2, <1>3, <3>2, <4>4, <4>5
    <3> QED
      BY <1>4, <3>1, <3>2
  <2>3. Open(s) = {}
    BY <2>2 DEF Open, OpenStates
  <2> QED
    BY <2>3, FS_EmptySet
<1>5. ASSUME p \in {13, 14} PROVE Cardinality(Open(s)) > 0
  <2>1. Len(s) \in 2..Len(s) /\ Len(s) - 1 \in 1..Len(s)
    BY <1>2, <1>3, <1>5
  <2>2. s[Len(s) - 1].state \in OpenStates
    BY <1>1, <1>2, <1>3, <1>5, <2>1 DEF OpenStates
  <2>3. Open(s) # {}
    BY <2>1, <2>2 DEF Open
  <2> QED
    BY <1>2, <2>3, FS_EmptySet
<1> QED
  BY <1>4, <1>5

LEMMA OnTop ==
  ASSUME NEW s, IsPath(s), NEW e
  PROVE  /\ Len(Append(s, e)) = Len(s) + 1 /\ Last(Append(s, e)) = e
         /\ Open(Append(s, e)) = IF e.state \in OpenStates THEN Open(s) \cup {Len(s) + 1}
                                 ELSE Open(s)
<1> DEFINE R == {s[i] : i \in DOMAIN s}
           S == R \cup {e}
           u == Append(s, e)
<1>1. s \in Seq(S) /\ Len(s) \in Nat \ {0} /\ e \in S
  <2>1. s \in Seq(R) /\ Len(s) > 0
    BY DEF IsPath, IsSequence
  <2>2. R \subseteq S /\ e \in S
    OBVIOUS
  <2> HIDE DEF R, S
  <2> QED
    BY <2>1, <2>2
<1> HIDE DEF S
<1>2. /\ Len(u) = Len(s) + 1 /\ u[Len(s) + 1] = e
      /\ \A i \in 1..Len(s) : u[i] = s[i]
  BY <1>1
<1> HIDE DEF u
<1>3. Last(u) = e
  BY <1>1, <1>2 DEF Last
<1>4. \A i : i \in 1..Len(u) <=> i \in 1..Len(s) \/ i = Len(s) + 1
  BY <1>1, <1>2
<1>5. Open(u) = IF e.state \in OpenStates THEN Open(s) \cup {Len(s) + 1} ELSE Open(s)
  <2>1. \A i : i \in Open(u) <=> i \in Open(s) \/ (i = Len(s) + 1 /\ e.state \in OpenStates)
    BY <1>2, <1>4 DEF Open
  <2> QED
    BY <2>1
<1> QED
  BY <1>2, <1>3, <1>5 DEF u

\* A token that is shifted fits, and the new top says where the line then stands.
LEMMA ShiftFits ==
  ASSUME NEW t, NEW n \in Nat, NEW s, IsPath(s), Follows(t, n, s), NEW p, p = Last(s).state,
         t[n + 1] \in Tokens, Shiftable(p, t[n + 1])
  PROVE  Fits(t, n + 1)
<1> DEFINE tok == t[n + 1]
<1>1. /\ p \in AfterStates <=> Behind(t, n)
      /\ p \in StartStates <=> Begins(t, n) = n + 1
      /\ p \in RationalStates <=> Has(t, n, RATIONAL) > 0
      /\ p \in IntegerStates <=> Has(t, n, INTEGER) > 0
      /\ Depth(t, n) = Cardinality(Open(s)) - Closes(p)
  BY DEF Follows
<1>2. Has(t, n, RATIONAL) \in Nat /\ Has(t, n, INTEGER) \in Nat
  BY NextHas
<1>3. Cardinality(Open(s)) \in Nat /\ (p \in {1, 9, 10} => Cardinality(Open(s)) = 0)
      /\ (p \in {13, 14} => Cardinality(Open(s)) > 0)
  BY PathIs, DepthOfPath
<1>4. /\ p \in {1, 9, 10, 13, 14} => Closes(p) = 0
      /\ 1 \in StartStates /\ (p \in {9, 10} => p \in AfterStates)
  BY DEF Closes, CloseStates, StartStates, AfterStates
<1>5. p \in {13, 14} => Depth(t, n) > 0
  BY <1>1, <1>3, <1>4
<1>6. p \in {9, 10} => Depth(t, n) = 0
  BY <1>1, <1>3, <1>4
<1> HIDE DEF tok
<1>7. Shiftable(p, tok)
  BY DEF tok
<1>8. FitsBehind(t, n, tok)
  BY <1>1, <1>2, <1>4, <1>5, <1>6, <1>7 DEF FitsBehind, Shiftable
<1> QED
  BY <1>8, FitsIs DEF tok

LEMMA ShiftFollows ==
  ASSUME NEW t, NEW n \in Nat, NEW s, IsPath(s), Follows(t, n, s), NEW p, p = Last(s).state,
         Shiftable(p, t[n + 1]), NEW e, LeadsTo(p, t[n + 1], e.state)
  PROVE  Follows(t, n + 1, Append(s, e))
<1> DEFINE tok == t[n + 1]
<1>0. tok \in Tokens /\ tok = t[n + 1]
  BY DEF LeadsTo
<1>1. /\ p \in AfterStates <=> Behind(t, n)
      /\ p \in RationalStates <=> Has(t, n, RATIONAL) > 0
      /\ p \in IntegerStates <=> Has(t, n, INTEGER) > 0
      /\ Depth(t, n) = Cardinality(Open(s)) - Closes(p)
  BY DEF Follows
<1>2. /\ Behind(t, n + 1) <=> tok \in Operands
      /\ Begins(t, n + 1) = (n + 1) + 1 <=> tok = EOL
  BY NextBehind
<1>3. \A x : /\ Has(t, n, x) \in Nat
             /\ Has(t, n + 1, x) = IF tok = EOL THEN 0
                                   ELSE Has(t, n, x) + (IF tok = x THEN 1 ELSE 0)
  BY NextHas
<1>4. /\ Last(Append(s, e)) = e
      /\ Open(Append(s, e)) = IF e.state \in OpenStates THEN Open(s) \cup {Len(s) + 1}
                              ELSE Open(s)
  BY OnTop
<1>5. Len(s) \in Nat /\ IsFiniteSet(Open(s)) /\ Cardinality(Open(s)) \in Nat
  BY PathIs
<1>6. p \in {1, 9, 10} => Cardinality(Open(s)) = 0
  BY DepthOfPath
<1> DEFINE q == e.state
<1>7. LeadsTo(p, tok, q) /\ Shiftable(p, tok)
  OBVIOUS
<1> HIDE DEF tok, q
<1>8. /\ q \in AfterStates <=> tok \in Operands
      /\ q \in StartStates <=> tok = EOL
      /\ q \in RationalStates <=> tok = RATIONAL \/ (tok # EOL /\ p \in RationalStates)
      /\ q \in IntegerStates <=> tok = INTEGER \/ (tok # EOL /\ p \in IntegerStates)
      /\ q \in OpenStates <=> tok = LB
      /\ q \in CloseStates <=> tok = RB
      /\ p \notin CloseStates
      /\ tok = EOL => p \in {1, 9, 10}
  BY <1>7 DEF LeadsTo, Shiftable
<1>9. RATIONAL # EOL /\ INTEGER # EOL /\ LB # EOL /\ RB # EOL /\ LB # RB
  BY DEF RATIONAL, INTEGER, EOL, LB, RB
<1>10. q \in RationalStates <=> Has(t, n + 1, RATIONAL) > 0
  BY <1>1, <1>3, <1>8, <1>9
<1>11. q \in IntegerStates <=> Has(t, n + 1, INTEGER) > 0
  BY <1>1, <1>3, <1>8, <1>9
<1>12. Cardinality(Open(Append(s, e))) = Cardinality(Open(s)) + (IF tok = LB THEN 1 ELSE 0)
  <2>1. Len(s) + 1 \notin Open(s)
    BY <1>5 DEF Open
  <2>2. Cardinality(Open(s) \cup {Len(s) + 1}) = Cardinality(Open(s)) + 1
    BY <1>5, <2>1, FS_AddElement
  <2>3. e.state \in OpenStates <=> tok = LB
    BY <1>8 DEF q
  <2> QED
    BY <1>4, <1>5, <2>2, <2>3
<1>13. Depth(t, n + 1) = Cardinality(Open(Append(s, e))) - Closes(q)
  <2>1. Closes(p) = 0 /\ Closes(q) = IF tok = RB THEN 1 ELSE 0
    BY <1>8 DEF Closes
  <2>2. CASE tok = EOL
    BY <1>3, <1>6, <1>8, <1>9, <1>12, <2>1, <2>2 DEF Depth
  <2>3. CASE tok # EOL
    <3>1. /\ Has(t, n + 1, LB) = Has(t, n, LB) + (IF tok = LB THEN 1 ELSE 0)
          /\ Has(t, n + 1, RB) = Has(t, n, RB) + (IF tok = RB THEN 1 ELSE 0)
          /\ Has(t, n, LB) \in Nat /\ Has(t, n, RB) \in Nat
      BY <1>3, <2>3
    <3> QED
      BY <1>1, <1>5, <1>9, <1>12, <2>1, <3>1 DEF Depth
  <2> QED
    BY <2>2, <2>3
<1> QED
  BY <1>2, <1>4, <1>8, <1>10, <1>11, <1>13 DEF Follows, q

\* A token that no state shifts does not fit.
LEMMA ErrorDoesNotFit ==
  ASSUME NEW t, NEW n \in Nat, NEW s, IsPath(s), Follows(t, n, s), NEW p, p = Last(s).state,
         t[n + 1] \in Tokens, Unfit(p, t[n + 1])
  PROVE  ~Fits(t, n + 1)
<1> DEFINE tok == t[n + 1]
<1>1. /\ p \in AfterStates <=> Behind(t, n)
      /\ p \in StartStates <=> Begins(t, n) = n + 1
      /\ p \in RationalStates <=> Has(t, n, RATIONAL) > 0
      /\ p \in IntegerStates <=> Has(t, n, INTEGER) > 0
      /\ Depth(t, n) = Cardinality(Open(s)) - Closes(p)
  BY DEF Follows
<1>2. Has(t, n, RATIONAL) \in Nat /\ Has(t, n, INTEGER) \in Nat
  BY NextHas
<1>3. Cardinality(Open(s)) \in Nat /\ (p \in {1, 9, 10} => Cardinality(Open(s)) = 0)
      /\ (p \in {13, 14} => Cardinality(Open(s)) > 0)
  BY PathIs, DepthOfPath
<1>4. p \in {1, 9, 10, 13, 14} => Closes(p) = 0
  BY DEF Closes, CloseStates
<1>5. p \in {13, 14} => Depth(t, n) # 0
  BY <1>1, <1>3, <1>4
<1>6. p \in {9, 10} => ~(Depth(t, n) > 0)
  BY <1>1, <1>3, <1>4
<1> HIDE DEF tok
<1>7. Unfit(p, tok) /\ tok \in Tokens
  BY DEF tok
<1>8. \/ tok \in {RATIONAL, INTEGER, LB} \/ tok = MINUS \/ tok \in {PLUS, MULT, EXPON}
      \/ tok = DIV \/ tok = RB \/ tok = EOL \/ tok = YYEOF
  BY <1>7 DEF Tokens, RATIONAL, INTEGER, LB, RB, PLUS, MINUS, MULT, DIV, EXPON, EOL, YYEOF
<1>9. ~FitsBehind(t, n, tok)
  BY <1>1, <1>2, <1>5, <1>6, <1>7, <1>8 DEF FitsBehind, Unfit
<1> QED
  BY <1>9, FitsIs DEF tok

\* A reduction leaves the line where it is.
LEMMA ReduceFollows ==
  ASSUME NEW t, NEW n \in Nat, NEW s, IsPath(s), Follows(t, n, s), NEW q, q = Last(s).state,
         q # YYFINAL, yydefact[q] # 0,
         NEW left, left = Len(s) - yyr2[yydefact[q]], NEW e, e.state \in Pushed[yyr1[yydefact[q]]]
  PROVE  Follows(t, n, Append(SubSeq(s, 1, left), e))
<1> DEFINE rest == SubSeq(s, 1, left)
           length == yyr2[yydefact[q]]
<1>1. /\ Len(s) \in Nat \ {0} /\ q = s[Len(s)].state
      /\ IsFiniteSet(Open(s)) /\ Cardinality(Open(s)) \in Nat
  BY PathIs
<1>2. q \in YYSTATES
  BY <1>1 DEF IsPath
<1>3. left \in 1..Len(s)
  BY ReduceFits
<1>4. IsPath(rest) /\ Len(rest) = left
  BY <1>3, PopKeepsPath
<1>5. /\ Alike(e.state, q) /\ e.state \notin OpenStates /\ e.state \notin CloseStates
  BY <1>2, ReductionsAre
<1>6. Last(Append(rest, e)) = e /\ Open(Append(rest, e)) = Open(rest)
  BY <1>4, <1>5, OnTop
<1>7. Open(rest) = {i \in Open(s) : i <= left}
  <2> DEFINE R == {s[i] : i \in DOMAIN s}
  <2>1. s \in Seq(R)
    BY DEF IsPath, IsSequence
  <2> HIDE DEF R
  <2>2. \A i \in 1..left : rest[i] = s[i]
    BY <1>1, <1>3, <2>1
  <2>3. \A i : i \in 1..left <=> i \in 1..Len(s) /\ i <= left
    BY <1>1, <1>3
  <2> HIDE DEF rest
  <2> QED
    BY <1>4, <2>2, <2>3 DEF Open
<1>8. /\ q \in CloseStates => length = 3
      /\ q \notin OpenStates
      /\ length \in {2, 3} => \A a \in Below[q] : a \notin OpenStates
      /\ length = 3 => \A a \in Below[q] :
                         \A b \in Below[a] : b \in OpenStates <=> q \in CloseStates
  BY <1>2, PopsAre
<1>9. length \in 0..3
  BY <1>2, TableValues
<1>10. \A i \in 2..Len(s) : s[i - 1].state \in Below[s[i].state]
  BY DEF IsPath
<1> HIDE DEF length, rest
<1>11. PICK m \in Nat \ {0} : m = Len(s)
  BY <1>1
<1>12. left = m - length /\ left \in 1..m
  BY <1>3, <1>11 DEF length
<1>13. length \in {2, 3} => s[m - 1].state \in Below[q]
  <2>1. length \in {2, 3} => m \in 2..Len(s)
    BY <1>11, <1>12
  <2> QED
    BY <1>1, <1>10, <1>11, <2>1
<1>14. length = 3 => s[m - 2].state \in Below[s[m - 1].state]
  <2>1. length = 3 => m - 1 \in 2..Len(s) /\ (m - 1) - 1 = m - 2
    BY <1>11, <1>12
  <2> QED
    BY <1>10, <2>1
<1>15. \A i \in Open(s) : i <= left \/ (i = left + 1 /\ q \in CloseStates)
  <2> TAKE i \in Open(s)
  <2>1. i \in 1..m /\ s[i].state \in OpenStates
    BY <1>11 DEF Open
  <2>2. i # m
    BY <1>1, <1>8, <1>11, <2>1
  <2>3. i = m - 1 => length \notin {2, 3}
    BY <1>8, <1>13, <2>1
  <2>4. i = m - 2 /\ length = 3 => q \in CloseStates
    BY <1>8, <1>13, <1>14, <2>1
  <2>5. i <= left \/ i = m \/ (i = m - 1 /\ length \in {2, 3}) \/ (i = m - 2 /\ length = 3)
    <3>1. i \in Nat /\ i <= m
      BY <1>11, <2>1
    <3>2. length = 0 \/ length = 1 \/ length = 2 \/ length = 3
      BY <1>9
    <3>3. \/ (length = 0 /\ left = m)
          \/ (length = 1 /\ left = m - 1)
          \/ (length = 2 /\ left = m - 2)
          \/ (length = 3 /\ left = m - 3)
      BY <1>12, <3>2
    <3> QED
      BY <1>11, <3>1, <3>3
  <2>6. i = m - 2 /\ length = 3 => i = left + 1
    BY <1>12
  <2> QED
    BY <2>2, <2>3, <2>4, <2>5, <2>6
<1>16. q \in CloseStates => left + 1 \in Open(s)
  <2>1. q \in CloseStates => length = 3 /\ left + 1 = m - 2 /\ m - 2 \in 1..m
    BY <1>8, <1>12
  <2> QED
    BY <1>8, <1>11, <1>13, <1>14, <2>1 DEF Open
<1>17. Cardinality(Open(rest)) = Cardinality(Open(s)) - Closes(q)
  <2>1. CASE q \notin CloseStates
    <3>1. Open(rest) = Open(s)
      BY <1>7, <1>15, <2>1
    <3> QED
      BY <1>1, <2>1, <3>1 DEF Closes
  <2>2. CASE q \in CloseStates
    <3>1. Open(s) = Open(rest) \cup {left + 1}
      BY <1>7, <1>15, <1>16, <2>2
    <3>2. left + 1 \notin Open(rest)
      BY <1>7, <1>12
    <3>3. IsFiniteSet(Open(rest)) /\ Cardinality(Open(rest)) \in Nat
      BY <1>4, PathIs
    <3>4. Cardinality(Open(rest) \cup {left + 1}) = Cardinality(Open(rest)) + 1
      BY <3>2, <3>3, FS_AddElement
    <3> QED
      BY <2>2, <3>1, <3>3, <3>4 DEF Closes
  <2> QED
    BY <2>1, <2>2
<1>18. Closes(e.state) = 0
  BY <1>5 DEF Closes
<1>19. Cardinality(Open(rest)) - Closes(e.state) = Cardinality(Open(s)) - Closes(q)
  <2>1. Closes(q) \in {0, 1}
    BY DEF Closes
  <2> QED
    BY <1>1, <1>17, <1>18, <2>1
<1> QED
  BY <1>5, <1>6, <1>19 DEF Follows, Alike, rest

\* Nothing has been read, and the stack has its bottom only.
LEMMA NothingFollows ==
  ASSUME NEW t, NEW s, IsPath(s), Len(s) = 1
  PROVE  Follows(t, 0, s)
<1>1. Last(s).state = 0
  BY PathIs DEF IsPath
<1>2. Open(s) = {}
  <2>1. \A i \in 1..Len(s) : s[i].state \notin OpenStates
    BY DEF IsPath, OpenStates
  <2> QED
    BY <2>1 DEF Open
<1>3. Cardinality(Open(s)) = 0
  BY <1>2, FS_EmptySet
<1>4. /\ Begins(t, 0) = 0 + 1 /\ ~Behind(t, 0)
      /\ Has(t, 0, RATIONAL) = 0 /\ Has(t, 0, INTEGER) = 0
      /\ Has(t, 0, LB) = 0 /\ Has(t, 0, RB) = 0
  BY FirstPlace
<1>5. Depth(t, 0) = 0
  BY <1>4 DEF Depth
<1>6. /\ 0 \notin AfterStates /\ 0 \in StartStates /\ 0 \notin RationalStates
      /\ 0 \notin IntegerStates /\ Closes(0) = 0
  BY DEF AfterStates, StartStates, RationalStates, IntegerStates, Closes, CloseStates
<1> QED
  BY <1>1, <1>3, <1>4, <1>5, <1>6 DEF Follows

-----------------------------------------------------------------------------
(* What is printed.                                                        *)

IsMessage(p) == p.member = "message"
AnsweredIn(pr) == {i \in DOMAIN pr : ~IsMessage(pr[i])}
SaidIn(pr, m) == \E i \in DOMAIN pr : IsMessage(pr[i]) /\ pr[i].e = m

LEMMA PrintedIs ==
  ASSUME NEW pr, IsSequence(pr)
  PROVE  /\ Len(pr) \in Nat /\ DOMAIN pr = 1..Len(pr)
         /\ IsFiniteSet(AnsweredIn(pr)) /\ Cardinality(AnsweredIn(pr)) \in Nat
<1>1. Len(pr) \in Nat /\ DOMAIN pr = 1..Len(pr)
  BY DEF IsSequence
<1>2. IsFiniteSet(1..Len(pr))
  BY <1>1, FS_Interval
<1>3. IsFiniteSet(AnsweredIn(pr))
  BY <1>1, <1>2, FS_Subset DEF AnsweredIn
<1> QED
  BY <1>1, <1>3, FS_CardinalityType

LEMMA PrintsOne ==
  ASSUME NEW pr, IsSequence(pr), NEW a
  PROVE  /\ Append(pr, a) = pr \o <<a>> /\ IsSequence(Append(pr, a))
         /\ Cardinality(AnsweredIn(Append(pr, a)))
              = Cardinality(AnsweredIn(pr)) + (IF IsMessage(a) THEN 0 ELSE 1)
         /\ \A m : SaidIn(Append(pr, a), m) <=> SaidIn(pr, m) \/ (IsMessage(a) /\ a.e = m)
<1> DEFINE R == {pr[i] : i \in DOMAIN pr}
           S == R \cup {a}
           u == Append(pr, a)
<1>1. pr \in Seq(S) /\ a \in S
  <2>1. pr \in Seq(R)
    BY DEF IsSequence
  <2>2. R \subseteq S /\ a \in S
    OBVIOUS
  <2> HIDE DEF R, S
  <2> QED
    BY <2>1, <2>2
<1> HIDE DEF S
<1>2. /\ u \in Seq(S) /\ Len(u) = Len(pr) + 1 /\ u[Len(pr) + 1] = a
      /\ \A i \in 1..Len(pr) : u[i] = pr[i]
      /\ u = pr \o <<a>>
  BY <1>1
<1>3. IsSequence(u)
  BY <1>2, Sequence
<1> HIDE DEF u
<1>4. /\ Len(pr) \in Nat /\ DOMAIN pr = 1..Len(pr)
      /\ IsFiniteSet(AnsweredIn(pr)) /\ Cardinality(AnsweredIn(pr)) \in Nat
  BY PrintedIs
<1>5. \A i : i \in DOMAIN u <=> i \in DOMAIN pr \/ i = Len(pr) + 1
  <2>1. DOMAIN u = 1..(Len(pr) + 1)
    BY <1>2, <1>3, PrintedIs
  <2> QED
    BY <1>4, <2>1
<1>6. Len(pr) + 1 \notin DOMAIN pr
  BY <1>4
<1>7. AnsweredIn(u) = IF IsMessage(a) THEN AnsweredIn(pr) ELSE AnsweredIn(pr) \cup {Len(pr) + 1}
  <2>1. \A i : i \in AnsweredIn(u) <=> i \in AnsweredIn(pr) \/ (i = Len(pr) + 1 /\ ~IsMessage(a))
    BY <1>2, <1>4, <1>5, <1>6 DEF AnsweredIn
  <2> QED
    BY <2>1
<1>8. Len(pr) + 1 \notin AnsweredIn(pr)
  BY <1>6 DEF AnsweredIn
<1>9. Cardinality(AnsweredIn(pr) \cup {Len(pr) + 1}) = Cardinality(AnsweredIn(pr)) + 1
  BY <1>4, <1>8, FS_AddElement
<1>10. Cardinality(AnsweredIn(u)) = Cardinality(AnsweredIn(pr)) + (IF IsMessage(a) THEN 0 ELSE 1)
  BY <1>4, <1>7, <1>9
<1>11. \A m : SaidIn(u, m) <=> SaidIn(pr, m) \/ (IsMessage(a) /\ a.e = m)
  BY <1>2, <1>4, <1>5, <1>6 DEF SaidIn
<1> QED
  BY <1>2, <1>3, <1>10, <1>11 DEF u

LEMMA PrintsNothing ==
  ASSUME NEW pr, IsSequence(pr)
  PROVE  pr \o <<>> = pr
BY DEF IsSequence

LEMMA MessagesAre ==
  /\ \A m : IsMessage(Message(m)) /\ Message(m).e = m
  /\ \A e : ~IsMessage(Union("rational", e)) /\ ~IsMessage(Union("integer", e))
  /\ "Illegal character" # "syntax error" /\ "memory exhausted" # "syntax error"
BY DEF IsMessage, Message, Union

\* The ends of lines that hold something among the first n tokens.
AskedIn(t, n) == {k \in 1..n : t[k] = EOL /\ LineBegins(t, k) < k}

LEMMA AskedMore ==
  ASSUME NEW t, NEW n \in Nat
  PROVE  /\ IsFiniteSet(AskedIn(t, n)) /\ Cardinality(AskedIn(t, n)) \in Nat
         /\ Cardinality(AskedIn(t, n + 1)) =
              Cardinality(AskedIn(t, n))
                + (IF t[n + 1] = EOL /\ Begins(t, n) # n + 1 THEN 1 ELSE 0)
<1>1. IsFiniteSet(1..n)
  BY FS_Interval
<1>2. IsFiniteSet(AskedIn(t, n))
  BY <1>1, FS_Subset DEF AskedIn
<1>3. Cardinality(AskedIn(t, n)) \in Nat
  BY <1>2, FS_CardinalityType
<1>4. Begins(t, n) = LineBegins(t, n + 1) /\ Begins(t, n) \in 1..(n + 1)
  BY BeginsIs DEF Begins
<1>5. LineBegins(t, n + 1) < n + 1 <=> Begins(t, n) # n + 1
  BY <1>4
<1>6. \A k : k \in 1..(n + 1) <=> k \in 1..n \/ k = n + 1
  OBVIOUS
<1>7. AskedIn(t, n + 1) = IF t[n + 1] = EOL /\ Begins(t, n) # n + 1
                          THEN AskedIn(t, n) \cup {n + 1} ELSE AskedIn(t, n)
  <2>1. \A k : k \in AskedIn(t, n + 1) <=>
                 k \in AskedIn(t, n) \/ (k = n + 1 /\ t[n + 1] = EOL /\ Begins(t, n) # n + 1)
    BY <1>5, <1>6 DEF AskedIn
  <2> QED
    BY <2>1
<1>8. n + 1 \notin AskedIn(t, n)
  BY DEF AskedIn
<1>9. Cardinality(AskedIn(t, n) \cup {n + 1}) = Cardinality(AskedIn(t, n)) + 1
  BY <1>2, <1>8, FS_AddElement
<1> QED
  BY <1>2, <1>3, <1>7, <1>9

\* What is read later changes none of this.
LEMMA ReadMore ==
  ASSUME NEW t, NEW u, NEW n \in Nat, \A k \in 1..n : u[k] = t[k] /\ t[k] \in Tokens
  PROVE  /\ \A k \in 1..n : Fits(u, k) <=> Fits(t, k)
         /\ AskedIn(u, n) = AskedIn(t, n)
         /\ \A s : Follows(u, n, s) <=> Follows(t, n, s)
<1>1. ASSUME NEW k \in 1..n PROVE (Fits(u, k) <=> Fits(t, k)) /\ LineBegins(u, k) = LineBegins(t, k)
  <2>1. PICK j \in Nat : j = k - 1
    OBVIOUS
  <2>2. j + 1 = k /\ \A i \in 1..j : u[i] = t[i]
    BY <2>1
  <2>3. /\ Begins(u, j) = Begins(t, j) /\ (Behind(u, j) <=> Behind(t, j))
        /\ \A tok : Has(u, j, tok) = Has(t, j, tok)
    BY <2>2, PlaceStays
  <2>4. FitsBehind(u, j, t[k]) <=> FitsBehind(t, j, t[k])
    BY <2>3 DEF FitsBehind, Depth
  <2>5. u[k] = t[k] /\ t[k] \in Tokens
    OBVIOUS
  <2>6. (Fits(u, k) <=> FitsBehind(u, j, t[k])) /\ (Fits(t, k) <=> FitsBehind(t, j, t[k]))
    BY <2>2, <2>5, FitsIs
  <2> QED
    BY <2>2, <2>3, <2>4, <2>6 DEF Begins
<1>2. AskedIn(u, n) = AskedIn(t, n)
  BY <1>1 DEF AskedIn
<1>3. \A s : Follows(u, n, s) <=> Follows(t, n, s)
  <2>1. /\ Begins(u, n) = Begins(t, n) /\ (Behind(u, n) <=> Behind(t, n))
        /\ \A tok : Has(u, n, tok) = Has(t, n, tok)
    BY PlaceStays
  <2> QED
    BY <2>1 DEF Follows, Depth
<1> QED
  BY <1>1, <1>2, <1>3

-----------------------------------------------------------------------------
(* What the parser has shifted, where its stack then stands and what it    *)
(* has printed, and what a step makes of it.                               *)

SyntaxErrorIn(pr) == SaidIn(pr, "syntax error")
OtherMessage(m) == m # "syntax error"
Ends == {20, 25}

\* The first n tokens of t are shifted onto s, and the lines among them answered.
Handled(t, n, s, pr) ==
  /\ Follows(t, n, s)
  /\ Last(s).state = YYFINAL => n > 0 /\ n = Len(t) /\ t[n] = YYEOF
  /\ \A k \in 1..n : Fits(t, k)
  /\ ~SyntaxErrorIn(pr)
  /\ Cardinality(AnsweredIn(pr)) + (IF Last(s).state \in Ends THEN 1 ELSE 0)
       = Cardinality(AskedIn(t, n))

\* StopsAtTheFirstError, of the tokens t read, the prints pr and the label l.
StopsIn(t, pr, l) ==
  /\ \A k \in 1..(Len(t) - 1) : Fits(t, k)
  /\ SyntaxErrorIn(pr) => ~Fits(t, Len(t))
  /\ l = "accept" => t # <<>> /\ Last(t) = YYEOF /\ Fits(t, Len(t))
  /\ l = "abort" => SyntaxErrorIn(pr)

LEMMA StopsIs == StopsAtTheFirstError <=> StopsIn(read, printed, label)
<1>1. Said("syntax error") <=> SyntaxErrorIn(printed)
  BY DEF Said, SaidIn, IsMessage, SyntaxErrorIn
<1> QED
  BY <1>1, Zenon DEF StopsAtTheFirstError, StopsIn

LEMMA HandledStops ==
  ASSUME NEW t \in Seq(Tokens), NEW n \in Nat, n = Len(t) \/ n = Len(t) - 1, NEW s, NEW pr,
         Handled(t, n, s, pr), NEW l \in {"yysetstate", "yybackup", "exhausted"}
  PROVE  StopsIn(t, pr, l)
<1>1. Len(t) \in Nat
  OBVIOUS
<1>2. \A k \in 1..(Len(t) - 1) : k \in 1..n
  BY <1>1
<1>3. l # "accept" /\ l # "abort"
  OBVIOUS
<1> QED
  BY <1>2, <1>3 DEF Handled, StopsIn

LEMMA HandledAccepts ==
  ASSUME NEW t \in Seq(Tokens), NEW n \in Nat, NEW s, NEW pr, Handled(t, n, s, pr),
         Last(s).state = YYFINAL
  PROVE  StopsIn(t, pr, "accept")
<1>1. Len(t) \in Nat /\ n > 0 /\ n = Len(t) /\ t[n] = YYEOF
  BY DEF Handled
<1>2. t # <<>> /\ Last(t) = YYEOF
  BY <1>1 DEF Last
<1>3. \A k \in 1..(Len(t) - 1) : k \in 1..n
  BY <1>1
<1>4. n \in 1..n
  BY <1>1
<1>5. (\A k \in 1..n : Fits(t, k)) /\ ~SyntaxErrorIn(pr)
  BY DEF Handled
<1>6. Fits(t, Len(t)) /\ \A k \in 1..(Len(t) - 1) : Fits(t, k)
  BY <1>1, <1>3, <1>4, <1>5
<1>7. "accept" # "abort"
  OBVIOUS
<1> QED
  BY <1>2, <1>5, <1>6, <1>7 DEF StopsIn

\* One more token is read.
LEMMA TokenRead ==
  ASSUME NEW t \in Seq(Tokens), NEW tok \in Tokens, NEW n \in Nat, n = Len(t), NEW s, NEW pr,
         Handled(t, n, s, pr), Last(s).state # YYFINAL
  PROVE  /\ Append(t, tok) \in Seq(Tokens) /\ Len(Append(t, tok)) = n + 1
         /\ Append(t, tok)[n + 1] = tok /\ Handled(Append(t, tok), n, s, pr)
<1> DEFINE u == Append(t, tok)
<1>1. u \in Seq(Tokens) /\ Len(u) = n + 1 /\ u[n + 1] = tok
  OBVIOUS
<1>2. \A k \in 1..n : u[k] = t[k] /\ t[k] \in Tokens
  OBVIOUS
<1> HIDE DEF u
<1>3. /\ \A k \in 1..n : Fits(u, k) <=> Fits(t, k)
      /\ AskedIn(u, n) = AskedIn(t, n)
      /\ Follows(u, n, s) <=> Follows(t, n, s)
  BY <1>2, ReadMore
<1>4. Handled(u, n, s, pr)
  BY <1>3 DEF Handled
<1> QED
  BY <1>1, <1>4 DEF u

\* A message that is not the one about the syntax is printed.
LEMMA MessagePrinted ==
  ASSUME NEW t, NEW n, NEW s, NEW pr, IsSequence(pr), Handled(t, n, s, pr),
         NEW m, OtherMessage(m)
  PROVE  Handled(t, n, s, Append(pr, Message(m))) /\ IsSequence(Append(pr, Message(m)))
<1>1. PICK a : a = Message(m) /\ IsMessage(a) /\ a.e = m
  BY MessagesAre
<1>2. /\ IsSequence(Append(pr, a))
      /\ Cardinality(AnsweredIn(Append(pr, a)))
           = Cardinality(AnsweredIn(pr)) + (IF IsMessage(a) THEN 0 ELSE 1)
      /\ \A x : SaidIn(Append(pr, a), x) <=> SaidIn(pr, x) \/ (IsMessage(a) /\ a.e = x)
  BY PrintsOne
<1>3. Cardinality(AnsweredIn(pr)) \in Nat
  BY PrintedIs
<1>4. Cardinality(AnsweredIn(Append(pr, a))) = Cardinality(AnsweredIn(pr))
  BY <1>1, <1>2, <1>3
<1>5. SyntaxErrorIn(Append(pr, a)) <=> SyntaxErrorIn(pr)
  BY <1>1, <1>2 DEF SyntaxErrorIn, OtherMessage
<1> QED
  BY <1>1, <1>2, <1>4, <1>5 DEF Handled

\* A token is shifted.
LEMMA TokenShifted ==
  ASSUME NEW t \in Seq(Tokens), NEW n \in Nat, n + 1 = Len(t), NEW s, IsPath(s),
         NEW pr, IsSequence(pr), Handled(t, n, s, pr), NEW p, p = Last(s).state,
         Shiftable(p, t[n + 1]), NEW e, LeadsTo(p, t[n + 1], e.state)
  PROVE  Handled(t, n + 1, Append(s, e), pr)
<1>1. /\ Follows(t, n, s) /\ (\A k \in 1..n : Fits(t, k)) /\ ~SyntaxErrorIn(pr)
      /\ Cardinality(AnsweredIn(pr)) + (IF p \in Ends THEN 1 ELSE 0)
           = Cardinality(AskedIn(t, n))
  BY DEF Handled
<1>2. t[n + 1] \in Tokens
  BY DEF LeadsTo
<1>3. Fits(t, n + 1) /\ Follows(t, n + 1, Append(s, e))
  BY <1>1, <1>2, ShiftFits, ShiftFollows
<1>4. Last(Append(s, e)) = e
  BY OnTop
<1>5. \A k \in 1..(n + 1) : Fits(t, k)
  <2>1. \A k \in 1..(n + 1) : k \in 1..n \/ k = n + 1
    OBVIOUS
  <2> QED
    BY <1>1, <1>3, <2>1
<1>6. e.state = YYFINAL => n + 1 > 0 /\ n + 1 = Len(t) /\ t[n + 1] = YYEOF
  <2>1. e.state = YYFINAL => t[n + 1] = YYEOF
    BY DEF LeadsTo
  <2> QED
    BY <2>1
<1>7. p \notin Ends /\ (e.state \in Ends <=> t[n + 1] = EOL /\ Begins(t, n) # n + 1)
  <2>1. p \notin Ends /\ (e.state \in Ends <=> t[n + 1] = EOL /\ p # 1)
    BY DEF LeadsTo, Ends
  <2>2. t[n + 1] = EOL => p \in {1, 9, 10}
    BY DEF Shiftable
  <2>3. p \in {1, 9, 10} => (p # 1 <=> p \notin StartStates)
    BY DEF StartStates
  <2>4. p \in StartStates <=> Begins(t, n) = n + 1
    BY <1>1 DEF Follows
  <2> QED
    BY <2>1, <2>2, <2>3, <2>4
<1>8. Cardinality(AnsweredIn(pr)) + (IF e.state \in Ends THEN 1 ELSE 0)
        = Cardinality(AskedIn(t, n + 1))
  <2>1. /\ Cardinality(AskedIn(t, n)) \in Nat
        /\ Cardinality(AskedIn(t, n + 1)) =
             Cardinality(AskedIn(t, n))
               + (IF t[n + 1] = EOL /\ Begins(t, n) # n + 1 THEN 1 ELSE 0)
    BY AskedMore
  <2>2. Cardinality(AnsweredIn(pr)) \in Nat
    BY PrintedIs
  <2>3. Cardinality(AnsweredIn(pr)) = Cardinality(AskedIn(t, n))
    BY <1>1, <1>7, <2>2
  <2> QED
    BY <1>7, <2>1, <2>3
<1> QED
  BY <1>1, <1>3, <1>4, <1>5, <1>6, <1>8 DEF Handled

\* A rule is reduced by, and its answer printed.
LEMMA RuleReduced ==
  ASSUME NEW t, NEW n \in Nat, NEW s, IsPath(s), NEW pr, IsSequence(pr), Handled(t, n, s, pr),
         NEW q, q = Last(s).state, q # YYFINAL, yydefact[q] # 0,
         NEW left, left = Len(s) - yyr2[yydefact[q]], NEW e, e.state \in Pushed[yyr1[yydefact[q]]],
         NEW rhs
  PROVE  /\ Handled(t, n, Append(SubSeq(s, 1, left), e), pr \o Answer(yydefact[q], rhs))
         /\ IsSequence(pr \o Answer(yydefact[q], rhs))
<1> DEFINE new == Append(SubSeq(s, 1, left), e)
           more == pr \o Answer(yydefact[q], rhs)
<1>1. /\ Follows(t, n, s) /\ (\A k \in 1..n : Fits(t, k)) /\ ~SyntaxErrorIn(pr)
      /\ Cardinality(AnsweredIn(pr)) + (IF q \in Ends THEN 1 ELSE 0)
           = Cardinality(AskedIn(t, n))
  BY DEF Handled
<1>2. q \in YYSTATES
  BY PathIs DEF IsPath
<1>3. Follows(t, n, new)
  BY <1>1, ReduceFollows
<1>4. left \in 1..Len(s)
  BY ReduceFits
<1>5. Last(new) = e
  <2>1. IsPath(SubSeq(s, 1, left))
    BY <1>4, PopKeepsPath
  <2> QED
    BY <2>1, OnTop
<1>6. e.state # YYFINAL /\ e.state \notin Ends
  BY <1>2, ReductionsAre DEF Ends
<1>7. yydefact[q] \in {5, 6} <=> q \in Ends
  BY <1>2, AnswersAre DEF Ends
<1>8. Cardinality(AnsweredIn(pr)) \in Nat
  BY PrintedIs
<1>9. CASE q \in Ends
  <2>1. PICK a : Answer(yydefact[q], rhs) = <<a>> /\ ~IsMessage(a)
    <3>1. CASE yydefact[q] = 5
      BY <3>1, MessagesAre DEF Answer
    <3>2. CASE yydefact[q] = 6
      BY <3>2, MessagesAre DEF Answer
    <3> QED
      BY <1>7, <1>9, <3>1, <3>2
  <2>2. /\ more = Append(pr, a) /\ IsSequence(more)
        /\ Cardinality(AnsweredIn(more)) = Cardinality(AnsweredIn(pr)) + 1
        /\ SyntaxErrorIn(more) <=> SyntaxErrorIn(pr)
    <3>1. /\ Append(pr, a) = pr \o <<a>> /\ IsSequence(Append(pr, a))
          /\ Cardinality(AnsweredIn(Append(pr, a)))
               = Cardinality(AnsweredIn(pr)) + (IF IsMessage(a) THEN 0 ELSE 1)
          /\ \A m : SaidIn(Append(pr, a), m) <=> SaidIn(pr, m) \/ (IsMessage(a) /\ a.e = m)
      BY PrintsOne
    <3>2. more = Append(pr, a)
      BY <2>1, <3>1
    <3>3. SyntaxErrorIn(more) <=> SyntaxErrorIn(pr)
      BY <2>1, <3>1, <3>2 DEF SyntaxErrorIn
    <3> HIDE DEF more
    <3> QED
      BY <2>1, <3>1, <3>2, <3>3
  <2>3. Cardinality(AnsweredIn(more)) = Cardinality(AskedIn(t, n))
    BY <1>1, <1>9, <2>2
  <2>4. Cardinality(AnsweredIn(more)) \in Nat
    BY <2>2, PrintedIs
  <2>5. Cardinality(AnsweredIn(more)) + 0 = Cardinality(AskedIn(t, n))
    BY <2>3, <2>4
  <2> HIDE DEF new, more
  <2> QED
    BY <1>1, <1>3, <1>5, <1>6, <2>2, <2>5 DEF Handled, new, more
<1>10. CASE q \notin Ends
  <2>1. Answer(yydefact[q], rhs) = <<>>
    BY <1>7, <1>10 DEF Answer
  <2>2. more = pr
    BY <2>1, PrintsNothing
  <2> HIDE DEF new, more
  <2> QED
    BY <1>1, <1>3, <1>5, <1>6, <1>10, <2>2 DEF Handled, new, more
<1> QED
  BY <1>9, <1>10

\* The token that is read is an error: the parser says so.
LEMMA ErrorStops ==
  ASSUME NEW t \in Seq(Tokens), NEW n \in Nat, n + 1 = Len(t), NEW s, IsPath(s),
         NEW pr, IsSequence(pr), Handled(t, n, s, pr), NEW p, p = Last(s).state,
         Unfit(p, t[n + 1])
  PROVE  /\ StopsIn(t, Append(pr, Message("syntax error")), "abort")
         /\ IsSequence(Append(pr, Message("syntax error")))
<1>1. PICK m : m = "syntax error"
  OBVIOUS
<1>2. PICK a : a = Message(m) /\ IsMessage(a) /\ a.e = m
  BY MessagesAre
<1>3. IsSequence(Append(pr, a)) /\ SaidIn(Append(pr, a), m)
  BY <1>2, PrintsOne
<1>4. ~Fits(t, n + 1)
  <2>1. t[n + 1] \in Tokens
    OBVIOUS
  <2>2. Follows(t, n, s)
    BY DEF Handled
  <2> QED
    BY <2>1, <2>2, ErrorDoesNotFit
<1>5. \A k \in 1..n : Fits(t, k)
  BY DEF Handled
<1>6. Len(t) - 1 = n
  OBVIOUS
<1>7. "abort" # "accept"
  OBVIOUS
<1> QED
  BY <1>1, <1>2, <1>3, <1>4, <1>5, <1>6, <1>7 DEF StopsIn, SyntaxErrorIn

-----------------------------------------------------------------------------
(* The calculator: what it has read, shifted and printed.                  *)

Running == {"yysetstate", "yybackup"}

\* All that was read but the lookahead token was shifted.
TokensShifted == IF yychar = YYEMPTY THEN Len(read) ELSE Len(read) - 1

ReadInv ==
  /\ Inv
  /\ read \in Seq(Tokens) /\ IsSequence(printed)
  /\ yychar # YYEMPTY => Len(read) > 0 /\ yychar = read[Len(read)]
  /\ label \in Running => Handled(read, TokensShifted, yystack, printed)
  /\ StopsIn(read, printed, label)

\* The invariant while the parser runs, of constants.
LEMMA RunningIs ==
  ASSUME ReadInv, label \in Running
  PROVE  \E t \in Seq(Tokens), n \in Nat :
           \E s, pr :
             /\ t = read /\ n = TokensShifted /\ s = yystack /\ pr = printed
             /\ IsPath(s) /\ IsSequence(pr) /\ Handled(t, n, s, pr)
             /\ yychar = YYEMPTY => n = Len(t)
             /\ yychar # YYEMPTY => n + 1 = Len(t) /\ yychar = t[n + 1]
<1>1. PICK t \in Seq(Tokens) : t = read
  BY DEF ReadInv
<1>2. PICK m \in Nat : m = Len(t)
  OBVIOUS
<1>3. yychar # YYEMPTY => m > 0 /\ yychar = t[m]
  BY <1>1, <1>2 DEF ReadInv
<1>4. PICK n \in Nat : n = IF yychar = YYEMPTY THEN m ELSE m - 1
  BY <1>3
<1>5. n = TokensShifted
  BY <1>1, <1>2, <1>4 DEF TokensShifted
<1>6. (yychar = YYEMPTY => n = Len(t)) /\ (yychar # YYEMPTY => n + 1 = Len(t) /\ yychar = t[n + 1])
  BY <1>2, <1>3, <1>4
<1>7. IsPath(yystack) /\ IsSequence(printed) /\ Handled(t, n, yystack, printed)
  BY <1>1, <1>5 DEF ReadInv, Inv
<1> QED
  BY <1>1, <1>5, <1>6, <1>7

LEMMA ReadInit == Init => ReadInv
<1> SUFFICES ASSUME Init PROVE ReadInv
  OBVIOUS
<1>1. Inv
  BY InitInv
<1>2. PICK t \in Seq(Tokens) : t = read /\ t = <<>> /\ Len(t) = 0
  <2>1. <<>> \in Seq(Tokens) /\ Len(<<>>) = 0
    OBVIOUS
  <2> QED
    BY <2>1 DEF Init
<1>3. PICK pr : pr = printed /\ pr = <<>> /\ DOMAIN pr = {} /\ IsSequence(pr)
  <2>1. DOMAIN <<>> = {} /\ IsSequence(<<>>)
    BY DEF IsSequence
  <2> QED
    BY <2>1 DEF Init
<1>4. PICK s : s = yystack /\ IsPath(s) /\ Len(s) = 1 /\ Last(s).state = 0
  BY <1>1 DEF Init, Inv, Last
<1>5. yychar = YYEMPTY /\ label = "yysetstate"
  BY DEF Init
<1>6. PICK n \in Nat : n = 0
  OBVIOUS
<1>7. Follows(t, n, s)
  BY <1>4, <1>6, NothingFollows
<1>8. AnsweredIn(pr) = {} /\ AskedIn(t, n) = {} /\ ~SyntaxErrorIn(pr)
  <2>1. 1..0 = {}
    OBVIOUS
  <2> QED
    BY <1>3, <1>6, <2>1 DEF AnsweredIn, AskedIn, SyntaxErrorIn, SaidIn
<1>9. Cardinality(AnsweredIn(pr)) + 0 = Cardinality(AskedIn(t, n))
  BY <1>8, FS_EmptySet
<1>10. 0 # YYFINAL /\ 0 \notin Ends /\ \A k \in 1..0 : Fits(t, k)
  BY DEF YYFINAL, Ends
<1>11. Handled(t, n, s, pr)
  BY <1>4, <1>6, <1>7, <1>8, <1>9, <1>10 DEF Handled
<1>12. StopsIn(t, pr, "yysetstate")
  BY <1>2, <1>6, <1>11, HandledStops
<1>13. TokensShifted = n
  BY <1>2, <1>5, <1>6 DEF TokensShifted
<1> QED
  BY <1>1, <1>2, <1>3, <1>4, <1>5, <1>11, <1>12, <1>13 DEF ReadInv

\* yylex: one more token is read, and none shifted.
LEMMA LexStep ==
  ASSUME ReadInv, yylex, Inv'
  PROVE  ReadInv'
<1>1. /\ label = "yybackup" /\ label' = label /\ yystack' = yystack /\ yychar = YYEMPTY
  BY DEF yylex, NeedsToken
<1>2. label \in Running /\ label' \in {"yysetstate", "yybackup", "exhausted"}
  BY <1>1 DEF Running
<1>3. PICK t \in Seq(Tokens), n \in Nat :
        \E s, pr :
          /\ t = read /\ n = TokensShifted /\ s = yystack /\ pr = printed
          /\ IsPath(s) /\ IsSequence(pr) /\ Handled(t, n, s, pr)
          /\ n = Len(t)
  BY <1>1, <1>2, RunningIs
<1>4. PICK s, pr :
        /\ t = read /\ n = TokensShifted /\ s = yystack /\ pr = printed
        /\ IsPath(s) /\ IsSequence(pr) /\ Handled(t, n, s, pr)
        /\ n = Len(t)
  BY <1>3
<1>5. PICK tok \in Tokens :
        /\ yychar' = tok /\ read' = Append(read, tok)
        /\ \/ printed' = printed
           \/ printed' = Append(printed, Message("Illegal character"))
  BY DEF yylex, Tokens, EOL, YYEOF
<1>6. Last(s).state # YYFINAL
  BY <1>1, <1>4 DEF ReadInv, Inv, yystate
<1>7. PICK u \in Seq(Tokens) :
        u = Append(t, tok) /\ Len(u) = n + 1 /\ u[n + 1] = tok /\ Handled(u, n, s, pr)
  <2>1. n = Len(t) /\ Handled(t, n, s, pr)
    BY <1>4
  <2>2. /\ Append(t, tok) \in Seq(Tokens) /\ Len(Append(t, tok)) = n + 1
        /\ Append(t, tok)[n + 1] = tok /\ Handled(Append(t, tok), n, s, pr)
    BY <1>6, <2>1, TokenRead, Zenon
  <2> QED
    BY <2>2, Zenon
<1>8. read' = u /\ yychar' # YYEMPTY
  <2>1. tok # YYEMPTY
    BY DEF Tokens, YYEMPTY, YYEOF
  <2> QED
    BY <1>4, <1>5, <1>7, <2>1
<1>9. TokensShifted' = n
  BY <1>7, <1>8 DEF TokensShifted
<1>10. PICK qr : qr = printed' /\ IsSequence(qr) /\ Handled(u, n, s, qr)
  <2>1. CASE printed' = printed
    BY <1>4, <1>7, <2>1
  <2>2. CASE printed' = Append(printed, Message("Illegal character"))
    <3>1. PICK m : m = "Illegal character" /\ OtherMessage(m)
      BY MessagesAre, Zenon DEF OtherMessage
    <3>2. Handled(u, n, s, Append(pr, Message(m))) /\ IsSequence(Append(pr, Message(m)))
      BY <1>4, <1>7, <3>1, MessagePrinted
    <3> QED
      BY <1>4, <2>2, <3>1, <3>2
  <2> QED
    BY <1>5, <2>1, <2>2
<1>11. StopsIn(u, qr, label')
  <2>1. n = Len(u) - 1
    BY <1>7
  <2> QED
    BY <1>2, <1>10, <2>1, HandledStops
<1>12. Len(u) > 0 /\ yychar' = u[Len(u)]
  <2>1. Len(u) = n + 1 /\ u[n + 1] = tok
    BY <1>7
  <2>2. n + 1 > 0
    OBVIOUS
  <2> QED
    BY <1>5, <2>1, <2>2
<1>13. Handled(read', TokensShifted', yystack', printed')
  BY <1>1, <1>4, <1>8, <1>9, <1>10
<1>14. StopsIn(read', printed', label')
  BY <1>8, <1>10, <1>11
<1> QED
  BY <1>8, <1>10, <1>12, <1>13, <1>14 DEF ReadInv

\* Shift: the lookahead token fits.
LEMMA ShiftStep ==
  ASSUME ReadInv, Shift, Inv'
  PROVE  ReadInv'
<1>1. /\ label = "yybackup" /\ label' = "yysetstate" /\ yychar' = YYEMPTY /\ Entry > 0
      /\ ~NeedsToken /\ read' = read /\ printed' = printed
  BY DEF Shift
<1>2. label \in Running /\ label' \in {"yysetstate", "yybackup", "exhausted"}
  BY <1>1 DEF Running
<1>3. PICK p \in YYSTATES : p = yystate
  BY TopIsAState DEF ReadInv, Inv
<1>4. yypact[p] # YYPACT_NINF /\ Entry = Packed(yypact[p], yychar) /\ yychar # YYEMPTY
  <2>1. yypact[p] # YYPACT_NINF
    BY <1>1, <1>3 DEF Entry
  <2> QED
    BY <1>1, <1>3, <2>1 DEF Entry, NeedsToken
<1>5. PICK t \in Seq(Tokens), n \in Nat :
        \E s, pr :
          /\ t = read /\ n = TokensShifted /\ s = yystack /\ pr = printed
          /\ IsPath(s) /\ IsSequence(pr) /\ Handled(t, n, s, pr)
          /\ n + 1 = Len(t) /\ yychar = t[n + 1]
  BY <1>2, <1>4, RunningIs
<1>6. PICK s, pr :
        /\ t = read /\ n = TokensShifted /\ s = yystack /\ pr = printed
        /\ IsPath(s) /\ IsSequence(pr) /\ Handled(t, n, s, pr)
        /\ n + 1 = Len(t) /\ yychar = t[n + 1]
  BY <1>5
<1>7. PICK q : q = Entry
  OBVIOUS
<1>8. Shiftable(p, t[n + 1]) /\ LeadsTo(p, t[n + 1], q)
  BY <1>1, <1>4, <1>6, <1>7, ShiftsAre
<1>9. PICK e : e.state = q /\ yystack' = Append(s, e)
  <2> DEFINE new == [state |-> Entry, val |-> yylval]
  <2>1. new.state = q /\ yystack' = Append(s, new)
    BY <1>6, <1>7 DEF Shift
  <2> QED
    BY <2>1
<1>10. Handled(t, n + 1, Append(s, e), pr)
  <2>1. p = Last(s).state
    BY <1>3, <1>6 DEF yystate
  <2> QED
    BY <1>6, <1>8, <1>9, <2>1, TokenShifted
<1>11. PICK m \in Nat : m = n + 1 /\ m = Len(t)
  BY <1>6
<1>12. TokensShifted' = m
  BY <1>1, <1>6, <1>11 DEF TokensShifted
<1>13. StopsIn(t, pr, label')
  BY <1>2, <1>10, <1>11, HandledStops
<1>14. Handled(read', TokensShifted', yystack', printed')
  BY <1>1, <1>6, <1>9, <1>10, <1>11, <1>12
<1>15. read' \in Seq(Tokens) /\ IsSequence(printed') /\ StopsIn(read', printed', label')
  BY <1>1, <1>6, <1>13
<1> QED
  BY <1>1, <1>14, <1>15 DEF ReadInv

\* Reduce: the line stands where it stood; at its end, the answer is printed.
LEMMA ReduceStep ==
  ASSUME ReadInv, Reduce, Inv'
  PROVE  ReadInv'
<1>1. /\ label = "yybackup" /\ label' = "yysetstate" /\ yychar' = yychar /\ read' = read
      /\ Entry <= 0
  BY DEF Reduce
<1>2. label \in Running /\ label' \in {"yysetstate", "yybackup", "exhausted"}
  BY <1>1 DEF Running
<1>3. PICK q \in YYSTATES : q = yystate /\ q # YYFINAL
  BY <1>1, TopIsAState DEF ReadInv, Inv
<1>4. PICK t \in Seq(Tokens), n \in Nat :
        \E s, pr :
          /\ t = read /\ n = TokensShifted /\ s = yystack /\ pr = printed
          /\ IsPath(s) /\ IsSequence(pr) /\ Handled(t, n, s, pr)
          /\ yychar = YYEMPTY => n = Len(t)
          /\ yychar # YYEMPTY => n + 1 = Len(t) /\ yychar = t[n + 1]
  BY <1>2, RunningIs
<1>5. PICK s, pr :
        /\ t = read /\ n = TokensShifted /\ s = yystack /\ pr = printed
        /\ IsPath(s) /\ IsSequence(pr) /\ Handled(t, n, s, pr)
        /\ yychar = YYEMPTY => n = Len(t)
        /\ yychar # YYEMPTY => n + 1 = Len(t) /\ yychar = t[n + 1]
  BY <1>4
<1>6. Entry = 0 /\ ~(Entry < 0)
  <2>1. Entry \in 0..40
    BY <1>3, EntryIsShift DEF YYSTATES
  <2>2. \A k \in 0..40 : k <= 0 => k = 0 /\ ~(k < 0)
    OBVIOUS
  <2> QED
    BY <1>1, <2>1, <2>2, Zenon
<1> DEFINE rule == yydefact[q]
           left == Len(s) - yyr2[rule]
           rest == SubSeq(s, 1, left)
           rhs == [i \in 1..yyr2[rule] |-> s[Len(rest) + i].val]
           new == [state |-> Goto(Last(rest).state, yyr1[rule]), val |-> Action(rule, rhs)]
<1>7. rule # 0 /\ yystack' = Append(rest, new) /\ printed' = pr \o Answer(rule, rhs)
  BY <1>3, <1>5, <1>6, Zenon DEF Reduce
<1>8. q = Last(s).state
  BY <1>3, <1>5 DEF yystate
<1>9. /\ rule \in 1..21 /\ rule # 1 /\ left \in 1..Len(s)
      /\ s[left].state \in Places[yyr1[rule]]
  BY <1>3, <1>5, <1>7, <1>8, ReduceFits
<1>10. PICK e : e = new /\ e.state = Goto(Last(rest).state, yyr1[rule])
  <2>1. new.state = Goto(Last(rest).state, yyr1[rule])
    BY Zenon
  <2> QED
    BY <2>1, Zenon
<1>11. PICK r : r = rhs
  OBVIOUS
<1>12. e.state \in Pushed[yyr1[rule]]
  <2> HIDE DEF rule, left
  <2>1. Last(rest) = s[left]
    BY <1>5, <1>9, PopKeepsPath
  <2>2. yyr1[rule] \in 14..17
    BY <1>9, TableValues
  <2> HIDE DEF rest
  <2> QED
    BY <1>9, <1>10, <2>1, <2>2, GotosAre
<1> HIDE DEF rhs, new
<1>13. /\ Handled(t, n, Append(rest, e), pr \o Answer(rule, r))
       /\ IsSequence(pr \o Answer(rule, r))
  BY <1>3, <1>5, <1>7, <1>8, <1>12, RuleReduced
<1>14. PICK qr : /\ qr = printed' /\ IsSequence(qr)
                 /\ Handled(t, n, yystack', qr)
  BY <1>7, <1>10, <1>11, <1>13
<1>15. TokensShifted' = n
  BY <1>1, <1>5 DEF TokensShifted
<1>16. StopsIn(t, qr, label')
  <2>1. n = Len(t) \/ n = Len(t) - 1
    BY <1>5
  <2> QED
    BY <1>2, <1>14, <2>1, HandledStops
<1>17. read' \in Seq(Tokens) /\ StopsIn(read', printed', label')
       /\ Handled(read', TokensShifted', yystack', printed')
  BY <1>1, <1>5, <1>14, <1>15, <1>16
<1>18. yychar' # YYEMPTY => Len(read') > 0 /\ yychar' = read'[Len(read')]
  BY <1>1 DEF ReadInv
<1> QED
  BY <1>14, <1>17, <1>18 DEF ReadInv

\* The tables have an entry or a reduction for each state, and a state behind the
\* end of a line reads no token.
LEMMA RowsAre ==
  /\ \A s \in YYSTATES : yydefact[s] = 0 => yypact[s] # YYPACT_NINF /\ s # YYFINAL
  /\ \A s \in Ends : yypact[s] = YYPACT_NINF
<1>1. \A s \in YYSTATES : yydefact[s] = 0 => yypact[s] # YYPACT_NINF /\ s # YYFINAL
  BY SMTT(60) DEF yydefact, yypact, YYPACT_NINF, YYSTATES, YYFINAL, Array
<1>2. \A s \in Ends : yypact[s] = YYPACT_NINF
  BY SMTT(60) DEF yypact, YYPACT_NINF, Ends, Array
<1> QED
  BY <1>1, <1>2

\* Error: the lookahead token does not fit.
LEMMA ErrorStep ==
  ASSUME ReadInv, Error, Inv'
  PROVE  ReadInv'
<1>1. /\ label = "yybackup" /\ label' = "abort" /\ yychar' = yychar /\ read' = read
      /\ Entry = 0 /\ ~NeedsToken /\ yydefact[yystate] = 0
      /\ printed' = Append(printed, Message("syntax error"))
  BY DEF Error
<1>2. label \in Running /\ label' \notin Running
  BY <1>1 DEF Running
<1>3. PICK p \in YYSTATES : p = yystate
  BY TopIsAState DEF ReadInv, Inv
<1>4. yypact[p] # YYPACT_NINF /\ p # YYFINAL
  BY <1>1, <1>3, RowsAre
<1>5. Packed(yypact[p], yychar) = 0 /\ yychar # YYEMPTY
  BY <1>1, <1>3, <1>4 DEF Entry, NeedsToken
<1>6. PICK t \in Seq(Tokens), n \in Nat :
        \E s, pr :
          /\ t = read /\ n = TokensShifted /\ s = yystack /\ pr = printed
          /\ IsPath(s) /\ IsSequence(pr) /\ Handled(t, n, s, pr)
          /\ n + 1 = Len(t) /\ yychar = t[n + 1]
  BY <1>2, <1>5, RunningIs
<1>7. PICK s, pr :
        /\ t = read /\ n = TokensShifted /\ s = yystack /\ pr = printed
        /\ IsPath(s) /\ IsSequence(pr) /\ Handled(t, n, s, pr)
        /\ n + 1 = Len(t) /\ yychar = t[n + 1]
  BY <1>6
<1>8. Unfit(p, t[n + 1])
  <2>1. t[n + 1] \in Tokens
    BY <1>7
  <2>2. Packed(yypact[p], t[n + 1]) <= 0
    BY <1>5, <1>7
  <2> QED
    BY <1>1, <1>3, <1>4, <2>1, <2>2, ErrorsAre
<1>9. /\ StopsIn(t, Append(pr, Message("syntax error")), "abort")
      /\ IsSequence(Append(pr, Message("syntax error")))
  <2>1. p = Last(s).state
    BY <1>3, <1>7 DEF yystate
  <2> QED
    BY <1>7, <1>8, <2>1, ErrorStops
<1>10. StopsIn(read', printed', label') /\ IsSequence(printed') /\ read' \in Seq(Tokens)
  BY <1>1, <1>7, <1>9
<1>11. yychar' # YYEMPTY => Len(read') > 0 /\ yychar' = read'[Len(read')]
  BY <1>1 DEF ReadInv
<1> QED
  BY <1>2, <1>10, <1>11 DEF ReadInv

\* yysetstate: the input is accepted when its end has been shifted.
LEMMA SetStateStep ==
  ASSUME ReadInv, yysetstate, Inv'
  PROVE  ReadInv'
<1>1. /\ label = "yysetstate" /\ yystack' = yystack /\ yychar' = yychar /\ read' = read
      /\ \/ /\ printed' = printed
            /\ label' = IF yystate = YYFINAL THEN "accept" ELSE "yybackup"
         \/ /\ printed' = Append(printed, Message("memory exhausted"))
            /\ label' = "exhausted"
  BY DEF yysetstate
<1>2. label \in Running
  BY <1>1 DEF Running
<1>3. PICK t \in Seq(Tokens), n \in Nat :
        \E s, pr :
          /\ t = read /\ n = TokensShifted /\ s = yystack /\ pr = printed
          /\ IsPath(s) /\ IsSequence(pr) /\ Handled(t, n, s, pr)
          /\ yychar = YYEMPTY => n = Len(t)
          /\ yychar # YYEMPTY => n + 1 = Len(t) /\ yychar = t[n + 1]
  BY <1>2, RunningIs
<1>4. PICK s, pr :
        /\ t = read /\ n = TokensShifted /\ s = yystack /\ pr = printed
        /\ IsPath(s) /\ IsSequence(pr) /\ Handled(t, n, s, pr)
        /\ yychar = YYEMPTY => n = Len(t)
        /\ yychar # YYEMPTY => n + 1 = Len(t) /\ yychar = t[n + 1]
  BY <1>3
<1>5. TokensShifted' = n
  BY <1>1, <1>4 DEF TokensShifted
<1>6. n = Len(t) \/ n = Len(t) - 1
  BY <1>4
<1>7. PICK qr : qr = printed' /\ IsSequence(qr) /\ Handled(t, n, s, qr)
  <2>1. CASE printed' = printed
    BY <1>4, <2>1
  <2>2. CASE printed' = Append(printed, Message("memory exhausted"))
    <3>1. PICK m : m = "memory exhausted" /\ OtherMessage(m)
      BY MessagesAre, Zenon DEF OtherMessage
    <3>2. Handled(t, n, s, Append(pr, Message(m))) /\ IsSequence(Append(pr, Message(m)))
      BY <1>4, <3>1, MessagePrinted
    <3> QED
      BY <1>4, <2>2, <3>1, <3>2
  <2> QED
    BY <1>1, <2>1, <2>2
<1>8. StopsIn(t, qr, label')
  <2>1. CASE label' = "accept" /\ yystate = YYFINAL
    <3>1. Last(s).state = YYFINAL
      BY <1>4, <2>1 DEF yystate
    <3> QED
      BY <1>7, <2>1, <3>1, HandledAccepts
  <2>2. CASE label' \in {"yysetstate", "yybackup", "exhausted"}
    BY <1>6, <1>7, <2>2, HandledStops
  <2> QED
    BY <1>1, <2>1, <2>2
<1>9. read' \in Seq(Tokens) /\ StopsIn(read', printed', label')
      /\ Handled(read', TokensShifted', yystack', printed')
  BY <1>1, <1>4, <1>5, <1>7, <1>8
<1>10. yychar' # YYEMPTY => Len(read') > 0 /\ yychar' = read'[Len(read')]
  BY <1>1 DEF ReadInv
<1> QED
  BY <1>7, <1>9, <1>10 DEF ReadInv

LEMMA ReadStep == ReadInv /\ [Next]_vars => ReadInv'
<1> SUFFICES ASSUME ReadInv, [Next]_vars PROVE ReadInv'
  OBVIOUS
<1>1. Inv'
  BY StepInv DEF ReadInv
<1>2. CASE Return
  <2>1. /\ read' = read /\ printed' = printed /\ yychar' = YYEMPTY /\ label' = "returned"
    BY <1>2 DEF Return
  <2>2. label' \notin Running /\ label' # "accept" /\ label' # "abort"
    BY <2>1 DEF Running
  <2>3. StopsIn(read', printed', label')
    BY <2>1, <2>2 DEF ReadInv, StopsIn
  <2> QED
    BY <1>1, <2>1, <2>2, <2>3 DEF ReadInv
<1>3. CASE UNCHANGED vars
  <2>1. /\ read' = read /\ printed' = printed /\ yychar' = yychar /\ label' = label
        /\ yystack' = yystack
    BY <1>3 DEF vars
  <2>2. TokensShifted' = TokensShifted
    BY <2>1 DEF TokensShifted
  <2> QED
    BY <1>1, <2>1, <2>2 DEF ReadInv
<1> QED
  BY <1>1, <1>2, <1>3, SetStateStep, LexStep, ShiftStep, ReduceStep, ErrorStep DEF Next

-----------------------------------------------------------------------------
\* Whenever the calculator waits for a token it has printed the answer of every line
\* it read to the end, for inputs of any length and stacks of any depth (the default
\* reductions of yybackup and the actions of rules 5 and 6 in expr.tab.c).
THEOREM EveryLineIsAnsweredFirst == Spec => []AnswersBeforeItReads
<1>1. ReadInv => AnswersBeforeItReads
  <2> SUFFICES ASSUME ReadInv, label = "yybackup", NeedsToken
               PROVE  Cardinality(Answered) = Cardinality(Asked)
    BY DEF AnswersBeforeItReads
  <2>1. yypact[yystate] # YYPACT_NINF /\ yychar = YYEMPTY
    BY DEF NeedsToken
  <2>2. label \in Running
    BY DEF Running
  <2>3. PICK t \in Seq(Tokens), n \in Nat :
          \E s, pr :
            /\ t = read /\ n = TokensShifted /\ s = yystack /\ pr = printed
            /\ IsPath(s) /\ IsSequence(pr) /\ Handled(t, n, s, pr)
            /\ n = Len(t)
    BY <2>1, <2>2, RunningIs
  <2>4. PICK s, pr :
          /\ t = read /\ n = TokensShifted /\ s = yystack /\ pr = printed
          /\ IsPath(s) /\ IsSequence(pr) /\ Handled(t, n, s, pr)
          /\ n = Len(t)
    BY <2>3
  <2>5. Last(s).state \notin Ends
    BY <2>1, <2>4, RowsAre DEF yystate
  <2>6. Cardinality(AnsweredIn(pr)) = Cardinality(AskedIn(t, n))
    <3>1. Cardinality(AnsweredIn(pr)) + 0 = Cardinality(AskedIn(t, n))
      BY <2>4, <2>5 DEF Handled
    <3>2. Cardinality(AnsweredIn(pr)) \in Nat
      BY <2>4, PrintedIs
    <3> QED
      BY <3>1, <3>2
  <2>7. Answered = AnsweredIn(pr)
    BY <2>4 DEF Answered, AnsweredIn, IsMessage
  <2>8. Asked = AskedIn(t, n)
    <3>1. DOMAIN t = 1..n
      BY <2>4
    <3> QED
      BY <2>4, <3>1 DEF Asked, AskedIn
  <2> QED
    BY <2>6, <2>7, <2>8
<1> QED
  BY <1>1, ReadInit, ReadStep, PTL DEF Spec

\* A syntax error is reported exactly at the first token that cannot follow the ones
\* before it, and only complete lines are accepted, for inputs of any length and stacks
\* of any depth: the automaton of expr.tab.c shifts what the grammar allows and nothing
\* else (yybackup, yyerrlab, yyacceptlab).
THEOREM ErrorsAreTheFirst == Spec => []StopsAtTheFirstError
<1>1. ReadInv => StopsAtTheFirstError
  BY StopsIs DEF ReadInv
<1> QED
  BY <1>1, ReadInit, ReadStep, PTL DEF Spec

-----------------------------------------------------------------------------
(* The brackets that are open, along a part of a line.                     *)

Opens(tok) == IF tok = LB THEN 1 ELSE IF tok = RB THEN -1 ELSE 0

LEMMA CountSplits ==
  ASSUME NEW t, NEW i \in Nat, NEW m \in Nat, NEW j \in Nat, i <= m, m <= j + 1, NEW tok
  PROVE  Count(t, i, j, tok) = Count(t, i, m - 1, tok) + Count(t, m, j, tok)
<1> DEFINE S(a, b) == {k \in a..b : t[k] = tok}
<1>1. m - 1 \in Int /\ j \in Int
  OBVIOUS
<1>2. /\ IsFiniteSet(S(i, m - 1)) /\ Cardinality(S(i, m - 1)) \in Nat
      /\ IsFiniteSet(S(m, j)) /\ Cardinality(S(m, j)) \in Nat
  <2>1. IsFiniteSet(S(i, m - 1)) /\ Count(t, i, m - 1, tok) \in Nat
    BY <1>1, CountIs
  <2>2. IsFiniteSet(S(m, j)) /\ Count(t, m, j, tok) \in Nat
    BY <1>1, CountIs
  <2> QED
    BY <2>1, <2>2 DEF Count
<1>3. S(i, j) = S(i, m - 1) \cup S(m, j)
  <2>1. \A k : k \in i..j <=> k \in i..(m - 1) \/ k \in m..j
    OBVIOUS
  <2> QED
    BY <2>1
<1>4. S(i, m - 1) \cap S(m, j) = {}
  OBVIOUS
<1>5. /\ Count(t, i, j, tok) = Cardinality(S(i, j))
      /\ Count(t, i, m - 1, tok) = Cardinality(S(i, m - 1))
      /\ Count(t, m, j, tok) = Cardinality(S(m, j))
  BY DEF Count
<1> HIDE DEF S
<1>6. Cardinality(S(i, m - 1) \cup S(m, j)) = Cardinality(S(i, m - 1)) + Cardinality(S(m, j)) - 0
  BY <1>2, <1>4, FS_Union, FS_EmptySet
<1> QED
  BY <1>2, <1>3, <1>5, <1>6

LEMMA CountOne ==
  ASSUME NEW t, NEW k \in Nat, NEW tok
  PROVE  /\ Count(t, k, k - 1, tok) = 0
         /\ Count(t, k, k, tok) = IF t[k] = tok THEN 1 ELSE 0
<1>1. {x \in k..(k - 1) : t[x] = tok} = {}
  OBVIOUS
<1>2. {x \in k..k : t[x] = tok} = IF t[k] = tok THEN {k} ELSE {}
  OBVIOUS
<1> QED
  BY <1>1, <1>2, FS_EmptySet, FS_Singleton DEF Count

LEMMA LevelIs ==
  ASSUME NEW t, NEW i \in Nat, NEW k \in Nat, i <= k
  PROVE  /\ Level(t, i, k) \in Int /\ Level(t, i, i) = 0
         /\ Level(t, i, k + 1) = Level(t, i, k) + Opens(t[k])
<1>1. /\ Count(t, i, k - 1, LB) \in Nat /\ Count(t, i, k - 1, RB) \in Nat
  <2>1. k - 1 \in Int
    OBVIOUS
  <2> QED
    BY <2>1, CountIs
<1>2. \A tok : Count(t, i, k, tok) = Count(t, i, k - 1, tok) + Count(t, k, k, tok)
  BY CountSplits
<1>3. \A tok : Count(t, i, i - 1, tok) = 0 /\ Count(t, k, k, tok) = IF t[k] = tok THEN 1 ELSE 0
  BY CountOne
<1>4. (k + 1) - 1 = k /\ LB # RB
  BY DEF LB, RB
<1> QED
  BY <1>1, <1>2, <1>3, <1>4 DEF Level, Opens

LEMMA LevelSplits ==
  ASSUME NEW t, NEW i \in Nat, NEW m \in Nat, NEW k \in Nat, i <= m, m <= k, k > 0
  PROVE  Level(t, i, k) = Level(t, i, m) + Level(t, m, k)
<1>1. PICK j \in Nat : j = k - 1
  OBVIOUS
<1>2. \A tok : Count(t, i, j, tok) = Count(t, i, m - 1, tok) + Count(t, m, j, tok)
  BY <1>1, CountSplits
<1>3. \A tok : Count(t, i, m - 1, tok) \in Nat /\ Count(t, m, j, tok) \in Nat
  <2>1. m - 1 \in Int /\ j \in Int
    OBVIOUS
  <2> QED
    BY <2>1, CountIs
<1> QED
  BY <1>1, <1>2, <1>3 DEF Level

-----------------------------------------------------------------------------
(* Expressions in a line, and how they are put together.                   *)

\* t[i..j] is an expression: its brackets match and it ends with an operand.
Whole(t, i, j) ==
  /\ i <= j
  /\ t[j] \in Operands
  /\ \A k \in i..j : t[k] # EOL
  /\ \A k \in i..j : Level(t, i, k) >= 0
  /\ Level(t, i, j + 1) = 0

LEMMA TokensDiffer ==
  /\ \A tok \in Operators : Opens(tok) = 0 /\ tok # EOL /\ tok \notin Operands
  /\ Opens(LB) = 1 /\ Opens(RB) = -1 /\ LB \notin Operators /\ RB \notin Operators
  /\ Opens(RATIONAL) = 0 /\ Opens(INTEGER) = 0
  /\ RATIONAL \notin Operators /\ INTEGER \notin Operators /\ EOL \notin Operators
  /\ EOL \notin Operands /\ LB # EOL /\ RB \in Operands /\ LB \notin Operands
BY DEF Operators, Opens, EOL, Operands, LB, RB, RATIONAL, INTEGER, PLUS, MINUS, MULT, DIV, EXPON

\* Two expressions and an operator between them.
LEMMA Joined ==
  ASSUME NEW t, NEW i \in Nat, NEW k \in Nat, NEW j \in Nat, i > 0,
         Whole(t, i, k - 1), t[k] \in Operators, Whole(t, k + 1, j)
  PROVE  /\ Whole(t, i, j) /\ i < k /\ k < j
         /\ Top(t, i, j) = Top(t, i, k - 1) \cup {k} \cup Top(t, k + 1, j)
         /\ Signs(t, i, j) = Signs(t, i, k - 1) \cup Signs(t, k + 1, j)
         /\ k \notin Signs(t, i, j)
<1>1. /\ i <= k - 1 /\ k + 1 <= j /\ t[k - 1] \in Operands /\ t[j] \in Operands
      /\ (k - 1) + 1 = k /\ Level(t, i, k) = 0 /\ Level(t, k + 1, j + 1) = 0
      /\ \A m \in i..(k - 1) : t[m] # EOL /\ Level(t, i, m) >= 0
      /\ \A m \in (k + 1)..j : t[m] # EOL /\ Level(t, k + 1, m) >= 0
  BY DEF Whole
<1>2. Opens(t[k]) = 0 /\ t[k] # EOL /\ t[k] \notin Operands
  BY TokensDiffer
<1>3. Level(t, i, k + 1) = 0
  BY <1>1, <1>2, LevelIs
<1>4. \A m \in (k + 1)..(j + 1) : Level(t, i, m) = Level(t, k + 1, m)
  <2> TAKE m \in (k + 1)..(j + 1)
  <2>1. m \in Nat /\ k + 1 \in Nat /\ i <= k + 1 /\ k + 1 <= m /\ m > 0
    BY <1>1
  <2>2. Level(t, i, m) = Level(t, i, k + 1) + Level(t, k + 1, m)
    BY <2>1, LevelSplits
  <2>3. Level(t, k + 1, m) \in Int
    BY <2>1, LevelIs
  <2> QED
    BY <1>3, <2>2, <2>3
<1>5. \A m : m \in i..j <=> m \in i..(k - 1) \/ m = k \/ m \in (k + 1)..j
  BY <1>1
<1>6. Whole(t, i, j)
  <2>1. i <= j /\ j + 1 \in (k + 1)..(j + 1)
    BY <1>1
  <2>2. \A m \in i..j : t[m] # EOL
    BY <1>1, <1>2, <1>5
  <2>3. \A m \in i..j : Level(t, i, m) >= 0
    <3> TAKE m \in i..j
    <3>1. m \in (k + 1)..j => m \in (k + 1)..(j + 1)
      OBVIOUS
    <3>2. Level(t, i, k) >= 0
      BY <1>1
    <3> QED
      BY <1>1, <1>4, <1>5, <3>1, <3>2
  <2>4. Level(t, i, j + 1) = 0
    BY <1>1, <1>4, <2>1
  <2> QED
    BY <1>1, <2>1, <2>2, <2>3, <2>4 DEF Whole
<1>7. \A m \in (k + 1)..j : Level(t, i, m) = 0 <=> Level(t, k + 1, m) = 0
  <2> TAKE m \in (k + 1)..j
  <2>1. m \in (k + 1)..(j + 1)
    OBVIOUS
  <2> QED
    BY <1>4, <2>1
<1>8. Top(t, i, j) = Top(t, i, k - 1) \cup {k} \cup Top(t, k + 1, j)
  <2>1. \A m : m \in Top(t, i, j) <=> m \in Top(t, i, k - 1) \/ m = k \/ m \in Top(t, k + 1, j)
    BY <1>1, <1>5, <1>7 DEF Top
  <2> QED
    BY <2>1
<1>9. \A m \in (k + 1)..j : AfterOperand(t, i, m) <=> AfterOperand(t, k + 1, m)
  <2> TAKE m \in (k + 1)..j
  <2>1. m > i /\ (m = k + 1 \/ m > k + 1) /\ (k + 1) - 1 = k /\ ~(k + 1 > k + 1)
    BY <1>1
  <2> QED
    BY <1>2, <2>1 DEF AfterOperand
<1>10. AfterOperand(t, i, k)
  BY <1>1 DEF AfterOperand
<1>11. \A m : m \in Top(t, k + 1, j) => m \in (k + 1)..j
  BY DEF Top
<1>12. \A m : m \in Signs(t, i, j) <=> m \in Signs(t, i, k - 1) \/ m \in Signs(t, k + 1, j)
  BY <1>8, <1>9, <1>10, <1>11 DEF Signs
<1>13. k \notin Signs(t, i, j)
  BY <1>10 DEF Signs
<1>14. i < k /\ k < j
  BY <1>1
<1> QED
  BY <1>6, <1>8, <1>12, <1>13, <1>14

\* An expression behind a sign.
LEMMA Signed ==
  ASSUME NEW t, NEW i \in Nat, NEW j \in Nat, i > 0, t[i] \in Operators, Whole(t, i + 1, j)
  PROVE  /\ Whole(t, i, j) /\ i < j
         /\ Top(t, i, j) = {i} \cup Top(t, i + 1, j)
         /\ i \in Signs(t, i, j)
         /\ Signs(t, i, j) = {i} \cup Signs(t, i + 1, j)
<1>1. /\ i + 1 <= j /\ t[j] \in Operands /\ Level(t, i + 1, j + 1) = 0
      /\ \A m \in (i + 1)..j : t[m] # EOL /\ Level(t, i + 1, m) >= 0
  BY DEF Whole
<1>2. Opens(t[i]) = 0 /\ t[i] # EOL /\ t[i] \notin Operands
  BY TokensDiffer
<1>3. Level(t, i, i) = 0 /\ Level(t, i, i + 1) = 0
  BY <1>2, LevelIs
<1>4. \A m \in (i + 1)..(j + 1) : Level(t, i, m) = Level(t, i + 1, m)
  <2> TAKE m \in (i + 1)..(j + 1)
  <2>1. m \in Nat /\ i + 1 \in Nat /\ i <= i + 1 /\ i + 1 <= m /\ m > 0
    BY <1>1
  <2>2. Level(t, i, m) = Level(t, i, i + 1) + Level(t, i + 1, m)
    BY <2>1, LevelSplits
  <2>3. Level(t, i + 1, m) \in Int
    BY <2>1, LevelIs
  <2> QED
    BY <1>3, <2>2, <2>3
<1>5. \A m : m \in i..j <=> m = i \/ m \in (i + 1)..j
  BY <1>1
<1>6. Whole(t, i, j)
  <2>1. i <= j /\ j + 1 \in (i + 1)..(j + 1)
    BY <1>1
  <2>2. \A m \in i..j : t[m] # EOL
    BY <1>1, <1>2, <1>5
  <2>3. \A m \in i..j : Level(t, i, m) >= 0
    <3> TAKE m \in i..j
    <3>1. m \in (i + 1)..j => m \in (i + 1)..(j + 1)
      OBVIOUS
    <3> QED
      BY <1>1, <1>3, <1>4, <1>5, <3>1
  <2>4. Level(t, i, j + 1) = 0
    BY <1>1, <1>4, <2>1
  <2> QED
    BY <1>1, <2>1, <2>2, <2>3, <2>4 DEF Whole
<1>7. \A m \in (i + 1)..j : Level(t, i, m) = 0 <=> Level(t, i + 1, m) = 0
  <2> TAKE m \in (i + 1)..j
  <2>1. m \in (i + 1)..(j + 1)
    OBVIOUS
  <2> QED
    BY <1>4, <2>1
<1>8. Top(t, i, j) = {i} \cup Top(t, i + 1, j)
  <2>1. \A m : m \in Top(t, i, j) <=> m = i \/ m \in Top(t, i + 1, j)
    BY <1>3, <1>5, <1>7 DEF Top
  <2> QED
    BY <2>1
<1>9. \A m \in (i + 1)..j : AfterOperand(t, i, m) <=> AfterOperand(t, i + 1, m)
  <2> TAKE m \in (i + 1)..j
  <2>1. m > i /\ (m = i + 1 \/ m > i + 1) /\ (i + 1) - 1 = i /\ ~(i + 1 > i + 1)
    BY <1>1
  <2> QED
    BY <1>2, <2>1 DEF AfterOperand
<1>10. ~AfterOperand(t, i, i)
  BY DEF AfterOperand
<1>11. \A m : m \in Top(t, i + 1, j) => m \in (i + 1)..j
  BY DEF Top
<1>12. \A m : m \in Signs(t, i, j) <=> m = i \/ m \in Signs(t, i + 1, j)
  BY <1>8, <1>9, <1>10, <1>11 DEF Signs
<1>13. Signs(t, i, j) = {i} \cup Signs(t, i + 1, j) /\ i \in Signs(t, i, j)
  BY <1>12
<1>14. i < j
  BY <1>1
<1> QED
  BY <1>6, <1>8, <1>13, <1>14

\* An expression in brackets.
LEMMA Bracketed ==
  ASSUME NEW t, NEW i \in Nat, NEW j \in Nat, i > 0, t[i] = LB, t[j] = RB, Whole(t, i + 1, j - 1)
  PROVE  Whole(t, i, j) /\ i + 1 < j /\ Top(t, i, j) = {}
<1>1. /\ i + 1 <= j - 1 /\ (j - 1) + 1 = j /\ Level(t, i + 1, j) = 0
      /\ \A m \in (i + 1)..(j - 1) : t[m] # EOL /\ Level(t, i + 1, m) >= 0
  BY DEF Whole
<1>2. Level(t, i, i) = 0 /\ Level(t, i, i + 1) = 1
  BY TokensDiffer, LevelIs
<1>3. \A m \in (i + 1)..j : Level(t, i, m) = 1 + Level(t, i + 1, m) /\ Level(t, i + 1, m) \in Int
  <2> TAKE m \in (i + 1)..j
  <2>1. m \in Nat /\ i + 1 \in Nat /\ i <= i + 1 /\ i + 1 <= m /\ m > 0
    BY <1>1
  <2>2. Level(t, i, m) = Level(t, i, i + 1) + Level(t, i + 1, m)
    BY <2>1, LevelSplits
  <2>3. Level(t, i + 1, m) \in Int
    BY <2>1, LevelIs
  <2> QED
    BY <1>2, <2>2, <2>3
<1>4. \A m : m \in i..j <=> m = i \/ m \in (i + 1)..(j - 1) \/ m = j
  BY <1>1
<1>5. \A m \in (i + 1)..(j - 1) : Level(t, i, m) > 0
  <2> TAKE m \in (i + 1)..(j - 1)
  <2>1. m \in (i + 1)..j
    OBVIOUS
  <2> QED
    BY <1>1, <1>3, <2>1
<1>6. Level(t, i, j) = 1
  <2>1. j \in (i + 1)..j
    BY <1>1
  <2> QED
    BY <1>1, <1>3, <2>1
<1>7. Level(t, i, j + 1) = 0
  <2>0. i <= j
    BY <1>1
  <2>1. Level(t, i, j + 1) = Level(t, i, j) + Opens(t[j])
    BY <2>0, LevelIs
  <2> QED
    BY <1>6, <2>1, TokensDiffer
<1>8. Whole(t, i, j)
  <2>1. i <= j
    BY <1>1
  <2>2. \A m \in i..j : t[m] # EOL
    BY <1>1, <1>4, TokensDiffer
  <2>3. \A m \in i..j : Level(t, i, m) >= 0
    <3> TAKE m \in i..j
    <3>1. CASE m = i
      BY <1>2, <3>1
    <3>2. CASE m = j
      BY <1>6, <3>2
    <3>3. CASE m \in (i + 1)..(j - 1)
      <4>1. m \in (i + 1)..j /\ Level(t, i + 1, m) >= 0
        BY <1>1, <3>3
      <4> QED
        BY <1>3, <4>1
    <3> QED
      BY <1>4, <3>1, <3>2, <3>3
  <2> QED
    BY <1>7, <2>1, <2>2, <2>3, TokensDiffer DEF Whole
<1>9. Top(t, i, j) = {}
  <2>1. \A m \in i..j : Level(t, i, m) = 0 => m = i
    <3> TAKE m \in i..j
    <3>1. m \in (i + 1)..(j - 1) => Level(t, i, m) # 0
      BY <1>5
    <3> QED
      BY <1>4, <1>6, <3>1
  <2>2. t[i] \notin Operators
    BY TokensDiffer
  <2> QED
    BY <2>1, <2>2 DEF Top
<1>10. i + 1 < j
  BY <1>1
<1> QED
  BY <1>8, <1>9, <1>10

\* A number.
LEMMA NumberIs ==
  ASSUME NEW t, NEW i \in Nat, t[i] \in {RATIONAL, INTEGER}
  PROVE  Whole(t, i, i) /\ Top(t, i, i) = {} /\ t[i] # LB
<1>1. t[i] \in Operands /\ t[i] # EOL /\ t[i] # LB /\ Opens(t[i]) = 0 /\ t[i] \notin Operators
  BY TokensDiffer DEF Operands, EOL, RATIONAL, INTEGER, LB
<1>2. Level(t, i, i) = 0 /\ Level(t, i, i + 1) = 0
  BY <1>1, LevelIs
<1>3. \A m : m \in i..i <=> m = i
  OBVIOUS
<1>4. Whole(t, i, i)
  BY <1>1, <1>2, <1>3 DEF Whole
<1>5. Top(t, i, i) = {}
  BY <1>1, <1>3 DEF Top
<1> QED
  BY <1>1, <1>4, <1>5

\* Without operators there are no signs, sums, products and powers.
LEMMA NoOperators ==
  ASSUME NEW t, NEW i, NEW j, Top(t, i, j) = {}
  PROVE  /\ Signs(t, i, j) = {} /\ Sums(t, i, j) = {} /\ Unsigned(t, i, j) = {}
         /\ Products(t, i, j) = {} /\ Powers(t, i, j) = {}
BY DEF Signs, Sums, Unsigned, Products, Powers

\* What the operators of an expression with an operator in the middle are.
LEMMA JoinedSets ==
  ASSUME NEW t, NEW i \in Nat, NEW k \in Nat, NEW j \in Nat, i > 0,
         Whole(t, i, k - 1), t[k] \in Operators, Whole(t, k + 1, j)
  PROVE  /\ Sums(t, i, j) = Sums(t, i, k - 1) \cup Sums(t, k + 1, j)
                              \cup (IF t[k] \in {PLUS, MINUS} THEN {k} ELSE {})
         /\ Sums(t, i, k - 1) \subseteq i..(k - 1)
         /\ Signs(t, i, k - 1) = {} =>
              /\ Unsigned(t, i, j) = Top(t, i, k - 1) \cup {k} \cup Unsigned(t, k + 1, j)
              /\ Unsigned(t, i, k - 1) = Top(t, i, k - 1)
<1>1. /\ i < k /\ k < j
      /\ Top(t, i, j) = Top(t, i, k - 1) \cup {k} \cup Top(t, k + 1, j)
      /\ Signs(t, i, j) = Signs(t, i, k - 1) \cup Signs(t, k + 1, j)
      /\ k \notin Signs(t, i, j)
  BY Joined
<1>2. /\ \A m \in Top(t, i, k - 1) : m \in i..(k - 1) /\ m < k
      /\ \A m \in Top(t, k + 1, j) : m \in (k + 1)..j /\ m > k
  BY DEF Top
<1>3. /\ \A m \in Signs(t, i, k - 1) : m \in Top(t, i, k - 1)
      /\ \A m \in Signs(t, k + 1, j) : m \in Top(t, k + 1, j)
  BY DEF Signs
<1>4. \A m : m \in Top(t, i, k - 1) => m \notin Top(t, k + 1, j) /\ m # k
  BY <1>2
<1>5. \A m \in Top(t, k + 1, j) : m # k
  BY <1>2
<1>6. Sums(t, i, j) = Sums(t, i, k - 1) \cup Sums(t, k + 1, j)
                        \cup (IF t[k] \in {PLUS, MINUS} THEN {k} ELSE {})
  <2>1. \A m : m \in Sums(t, i, j) <=>
                 m \in Sums(t, i, k - 1) \/ m \in Sums(t, k + 1, j)
                   \/ (m = k /\ t[k] \in {PLUS, MINUS})
    BY <1>1, <1>3, <1>4, <1>5 DEF Sums
  <2> QED
    BY <2>1
<1>7. Sums(t, i, k - 1) \subseteq i..(k - 1)
  BY <1>2 DEF Sums
<1>8. ASSUME Signs(t, i, k - 1) = {}
      PROVE  /\ Unsigned(t, i, j) = Top(t, i, k - 1) \cup {k} \cup Unsigned(t, k + 1, j)
             /\ Unsigned(t, i, k - 1) = Top(t, i, k - 1)
  <2>1. Signs(t, i, j) = Signs(t, k + 1, j)
    BY <1>1, <1>8
  <2>2. \A u \in Signs(t, k + 1, j) : u \in (k + 1)..j
    BY <1>2, <1>3
  <2>3. \A m \in Top(t, i, k - 1) : \A u \in Signs(t, k + 1, j) : m < u
    <3> TAKE m \in Top(t, i, k - 1)
    <3> TAKE u \in Signs(t, k + 1, j)
    <3>1. m \in i..(k - 1) /\ u \in (k + 1)..j
      BY <1>2, <2>2
    <3> QED
      BY <3>1
  <2>4. \A u \in Signs(t, k + 1, j) : k < u
    BY <2>2
  <2>5. \A m : m \in Unsigned(t, i, j) <=>
                 m \in Top(t, i, k - 1) \/ m = k \/ m \in Unsigned(t, k + 1, j)
    BY <1>1, <2>1, <2>3, <2>4 DEF Unsigned
  <2>6. Unsigned(t, i, k - 1) = Top(t, i, k - 1)
    BY <1>8 DEF Unsigned
  <2> QED
    BY <2>5, <2>6
<1> QED
  BY <1>6, <1>7, <1>8

-----------------------------------------------------------------------------
(* The meaning of an expression exists, and is what its parts mean.        *)

\* What the expression in t[i..j] means when f says what its parts mean.
SplitAt(t, f, i, j, k) == <<t[k], f[<<i, k - 1>>], f[<<k + 1, j>>]>>

ByParts(t, f, i, j) ==
  LET sums == Sums(t, i, j)
      products == Products(t, i, j)
      powers == Powers(t, i, j)
  IN  CASE sums # {} -> SplitAt(t, f, i, j, Max(sums))
        [] sums = {} /\ products # {} -> SplitAt(t, f, i, j, Max(products))
        [] sums = {} /\ products = {} /\ powers # {} -> SplitAt(t, f, i, j, Min(powers))
        [] sums = {} /\ i \in Signs(t, i, j) -> <<"neg", f[<<i + 1, j>>]>>
        [] Top(t, i, j) = {} /\ i < j /\ t[i] = LB -> f[<<i + 1, j - 1>>]
        [] OTHER -> <<i>>

\* At most one of its cases holds.
LEMMA OneCase ==
  ASSUME NEW t, NEW i \in Nat, NEW j
  PROVE  /\ i \in Signs(t, i, j) => Products(t, i, j) = {} /\ Powers(t, i, j) = {}
         /\ Top(t, i, j) = {} => /\ Sums(t, i, j) = {} /\ Products(t, i, j) = {}
                                /\ Powers(t, i, j) = {} /\ Signs(t, i, j) = {}
<1>1. ASSUME i \in Signs(t, i, j) PROVE Unsigned(t, i, j) = {}
  <2>1. \A k \in Top(t, i, j) : k \in Int /\ k >= i
    BY DEF Top
  <2>2. \A k \in Top(t, i, j) : ~(k < i)
    BY <2>1
  <2> QED
    BY <1>1, <2>2 DEF Unsigned
<1>2. i \in Signs(t, i, j) => Products(t, i, j) = {} /\ Powers(t, i, j) = {}
  BY <1>1 DEF Products, Powers
<1> QED
  BY <1>2, NoOperators

Parts(n) == (1..(n + 1)) \X (0..n)
IsMeaning(t, f) == f = [s \in Parts(Len(t)) |-> ByParts(t, f, s[1], s[2])]

LEMMA MaxIs ==
  ASSUME NEW T \in SUBSET Int, NEW m \in T, \A x \in T : x <= m
  PROVE  Max(T) = m
<1>1. \A x \in T : m >= x
  OBVIOUS
<1>2. \A y \in T : (\A x \in T : y >= x) => y = m
  OBVIOUS
<1> QED
  BY <1>1, <1>2, Zenon DEF Max

LEMMA MinIs ==
  ASSUME NEW T \in SUBSET Int, NEW m \in T, \A x \in T : m <= x
  PROVE  Min(T) = m
<1>1. \A y \in T : (\A x \in T : y <= x) => y = m
  OBVIOUS
<1> QED
  BY <1>1, Zenon DEF Min

\* A finite set of integers has a greatest and a least element.
LEMMA BoundsExist ==
  ASSUME NEW i \in Nat, NEW j \in Nat, NEW T \in SUBSET (i..j), T # {}
  PROVE  Max(T) \in T /\ Min(T) \in T
<1>1. T \in SUBSET Nat
  OBVIOUS
<1>2. PICK l \in T : \A y \in T : l <= y
  BY <1>1, LeastNatural
<1>3. PICK g \in T \cup {0} : \A y \in T \cup {0} : y <= g
  <2>1. T \cup {0} \in SUBSET (0..j) /\ 0 \in T \cup {0}
    OBVIOUS
  <2> HIDE <1>1
  <2> QED
    BY <2>1, GreatestExists
<1>4. \E m \in T : \A y \in T : y <= m
  <2>1. CASE g \in T
    BY <1>3, <2>1
  <2>2. CASE g = 0
    <3>1. \A y \in T : y <= 0 /\ y \in Nat
      BY <1>1, <1>3, <2>2
    <3> QED
      BY <3>1
  <2> QED
    BY <1>3, <2>1, <2>2
<1>5. PICK m \in T : \A y \in T : y <= m
  BY <1>4
<1>6. T \in SUBSET Int
  OBVIOUS
<1>7. Max(T) = m
  BY <1>5, <1>6, MaxIs
<1>8. Min(T) = l
  BY <1>2, <1>6, MinIs
<1> QED
  BY <1>7, <1>8

\* The parts of an expression are shorter than it is.
AgreeBelow(f, g, n, d) == \A p \in Parts(n) : p[2] - p[1] < d => f[p] = g[p]

LEMMA PartsAreShorter ==
  ASSUME NEW t, NEW n \in Nat, n = Len(t), NEW i \in 1..(n + 1), NEW j \in 0..n, NEW f, NEW g,
         AgreeBelow(f, g, n, j - i)
  PROVE  ByParts(t, f, i, j) = ByParts(t, g, i, j)
<1>1. /\ Sums(t, i, j) \in SUBSET (i..j) /\ Products(t, i, j) \in SUBSET (i..j)
      /\ Powers(t, i, j) \in SUBSET (i..j) /\ Signs(t, i, j) \in SUBSET (i..j)
  BY DEF Sums, Products, Powers, Unsigned, Signs, Top
<1>2. \A a \in 1..(n + 1), b \in 0..n : b - a < j - i => f[<<a, b>>] = g[<<a, b>>]
  <2> TAKE a \in 1..(n + 1), b \in 0..n
  <2>1. <<a, b>> \in Parts(n) /\ <<a, b>>[1] = a /\ <<a, b>>[2] = b
    BY DEF Parts
  <2> QED
    BY <2>1 DEF AgreeBelow
<1>3. \A k \in i..j : /\ f[<<i, k - 1>>] = g[<<i, k - 1>>]
                      /\ f[<<k + 1, j>>] = g[<<k + 1, j>>]
  <2> TAKE k \in i..j
  <2>1. k - 1 \in 0..n /\ (k - 1) - i < j - i
    OBVIOUS
  <2>2. k + 1 \in 1..(n + 1) /\ j - (k + 1) < j - i
    OBVIOUS
  <2> QED
    BY <1>2, <2>1, <2>2
<1>4. i \in Signs(t, i, j) => f[<<i + 1, j>>] = g[<<i + 1, j>>]
  BY <1>1, <1>3
<1>5. i < j => f[<<i + 1, j - 1>>] = g[<<i + 1, j - 1>>]
  <2>1. i < j => i + 1 \in 1..(n + 1) /\ j - 1 \in 0..n /\ (j - 1) - (i + 1) < j - i
    OBVIOUS
  <2> QED
    BY <1>2, <2>1
<1>6. i \in Nat /\ j \in Nat
  OBVIOUS
<1>7. /\ Sums(t, i, j) # {} => Max(Sums(t, i, j)) \in i..j
      /\ Products(t, i, j) # {} => Max(Products(t, i, j)) \in i..j
      /\ Powers(t, i, j) # {} => Min(Powers(t, i, j)) \in i..j
  BY <1>1, <1>6, BoundsExist
<1>11. CASE Sums(t, i, j) # {}
  <2>1. PICK k \in i..j : k = Max(Sums(t, i, j))
    BY <1>7, <1>11
  <2>2. \A x : ByParts(t, x, i, j) = SplitAt(t, x, i, j, k)
    BY <1>6, <1>11, <2>1, OneCase DEF ByParts
  <2> QED
    BY <1>3, <2>2 DEF SplitAt
<1>12. CASE Sums(t, i, j) = {} /\ Products(t, i, j) # {}
  <2>1. PICK k \in i..j : k = Max(Products(t, i, j))
    BY <1>7, <1>12
  <2>2. \A x : ByParts(t, x, i, j) = SplitAt(t, x, i, j, k)
    BY <1>6, <1>12, <2>1, OneCase DEF ByParts
  <2> QED
    BY <1>3, <2>2 DEF SplitAt
<1>13. CASE Sums(t, i, j) = {} /\ Products(t, i, j) = {} /\ Powers(t, i, j) # {}
  <2>1. PICK k \in i..j : k = Min(Powers(t, i, j))
    BY <1>7, <1>13
  <2>2. \A x : ByParts(t, x, i, j) = SplitAt(t, x, i, j, k)
    BY <1>6, <1>13, <2>1, OneCase DEF ByParts
  <2> QED
    BY <1>3, <2>2 DEF SplitAt
<1>14. CASE Sums(t, i, j) = {} /\ Products(t, i, j) = {} /\ Powers(t, i, j) = {}
  BY <1>4, <1>5, <1>14 DEF ByParts
<1> QED
  BY <1>11, <1>12, <1>13, <1>14

LEMMA MeaningExists ==
  ASSUME NEW t, Len(t) \in Nat
  PROVE  \E f : IsMeaning(t, f)
<1>1. PICK n \in Nat : n = Len(t)
  OBVIOUS
<1> DEFINE Size(s) == s[2] + n + 1 - s[1]
           Good(d, f) == /\ f = [s \in Parts(n) |-> f[s]]
                         /\ \A s \in Parts(n) : Size(s) < d => f[s] = ByParts(t, f, s[1], s[2])
           Bad == {d \in Nat : ~(\E f : Good(d, f))}
<1>2. \A s \in Parts(n) : s[1] \in 1..(n + 1) /\ s[2] \in 0..n /\ Size(s) \in Nat
  BY DEF Parts
<1>3. ASSUME NEW d \in Nat, NEW f, Good(d, f) PROVE \E h : Good(d + 1, h)
  <2> DEFINE h == [s \in Parts(n) |-> ByParts(t, f, s[1], s[2])]
  <2>1. h = [s \in Parts(n) |-> h[s]] /\ \A s \in Parts(n) : h[s] = ByParts(t, f, s[1], s[2])
    OBVIOUS
  <2> HIDE DEF h
  <2>2. \A s \in Parts(n) : Size(s) < d => h[s] = f[s]
    BY <1>3, <2>1
  <2>3. ASSUME NEW s \in Parts(n), Size(s) < d + 1 PROVE h[s] = ByParts(t, h, s[1], s[2])
    <3>1. PICK i \in 1..(n + 1), j \in 0..n : i = s[1] /\ j = s[2]
      BY <1>2
    <3>2. AgreeBelow(h, f, n, j - i)
      <4> SUFFICES ASSUME NEW p \in Parts(n), p[2] - p[1] < j - i PROVE h[p] = f[p]
        BY DEF AgreeBelow
      <4>1. p[1] \in 1..(n + 1) /\ p[2] \in 0..n
        BY <1>2
      <4>2. j + n + 1 - i < d + 1
        BY <2>3, <3>1
      <4>3. Size(p) < d
        BY <4>1, <4>2
      <4> QED
        BY <2>2, <4>3
    <3>3. ByParts(t, h, i, j) = ByParts(t, f, i, j)
      BY <1>1, <3>2, PartsAreShorter
    <3> QED
      BY <2>1, <3>1, <3>3
  <2> QED
    BY <2>1, <2>3
<1>4. 0 \notin Bad
  <2>1. Good(0, [s \in Parts(n) |-> 0])
    BY <1>2
  <2> HIDE DEF Good
  <2> QED
    BY <2>1
<1>5. ASSUME NEW d \in Nat, d + 1 \in Bad PROVE d \in Bad
  <2> HIDE DEF Good
  <2> QED
    BY <1>3, <1>5
<1>6. Bad = {}
  <2> SUFFICES ASSUME Bad # {} PROVE FALSE
    OBVIOUS
  <2>1. Bad \in SUBSET Nat
    OBVIOUS
  <2> HIDE DEF Bad
  <2>2. PICK d \in Bad : \A y \in Bad : d <= y
    BY <2>1, LeastNatural
  <2>3. d \in Nat /\ d # 0 /\ d - 1 \in Nat /\ (d - 1) + 1 = d
    BY <1>4, <2>1
  <2>4. d - 1 \in Bad
    BY <1>5, <2>3
  <2> QED
    BY <2>2, <2>3, <2>4
<1>7. 2 * n + 2 \in Nat
  OBVIOUS
<1>8. PICK f : Good(2 * n + 2, f)
  <2> HIDE DEF Good
  <2> QED
    BY <1>6, <1>7
<1>9. \A s \in Parts(n) : Size(s) < 2 * n + 2
  BY <1>2
<1>10. \A s \in Parts(n) : f[s] = ByParts(t, f, s[1], s[2])
  BY <1>8, <1>9
<1>11. f = [s \in Parts(n) |-> ByParts(t, f, s[1], s[2])]
  BY <1>8, <1>10
<1> QED
  BY <1>1, <1>11 DEF IsMeaning

LEMMA MeaningIs ==
  ASSUME NEW t, Len(t) \in Nat, NEW i \in 1..(Len(t) + 1), NEW j \in 0..Len(t)
  PROVE  Meaning(t)[<<i, j>>] = ByParts(t, Meaning(t), i, j)
<1>1. Meaning(t) = CHOOSE f : IsMeaning(t, f)
  BY Zenon DEF Meaning, IsMeaning, ByParts, SplitAt, Parts
<1>2. IsMeaning(t, Meaning(t))
  BY <1>1, MeaningExists, Zenon
<1>3. <<i, j>> \in Parts(Len(t)) /\ <<i, j>>[1] = i /\ <<i, j>>[2] = j
  BY DEF Parts
<1> QED
  BY <1>2, <1>3 DEF IsMeaning

\* What is read later does not change what an expression is and means.
Agree(t, u, n) == \A k \in 1..n : u[k] = t[k]

LEMMA SetsStay ==
  ASSUME NEW t, NEW u, NEW n \in Nat, Agree(t, u, n),
         NEW i \in Nat, i > 0, NEW j \in 0..n
  PROVE  /\ Top(u, i, j) = Top(t, i, j) /\ Signs(u, i, j) = Signs(t, i, j)
         /\ Sums(u, i, j) = Sums(t, i, j) /\ Unsigned(u, i, j) = Unsigned(t, i, j)
         /\ Products(u, i, j) = Products(t, i, j) /\ Powers(u, i, j) = Powers(t, i, j)
         /\ Whole(t, i, j) => Whole(u, i, j)
<1>1. \A k \in i..j : k \in 1..n /\ u[k] = t[k]
  BY DEF Agree
<1>2. \A k \in i..(j + 1) : Level(u, i, k) = Level(t, i, k)
  <2> TAKE k \in i..(j + 1)
  <2>1. \A m \in i..(k - 1) : u[m] = t[m]
    BY <1>1
  <2>2. \A tok : {m \in i..(k - 1) : u[m] = tok} = {m \in i..(k - 1) : t[m] = tok}
    BY <2>1
  <2> QED
    BY <2>2 DEF Level, Count
<1>3. \A k \in i..j : Level(u, i, k) = Level(t, i, k)
  <2> TAKE k \in i..j
  <2>1. k \in i..(j + 1)
    OBVIOUS
  <2> QED
    BY <1>2, <2>1
<1>4. Top(u, i, j) = Top(t, i, j)
  BY <1>1, <1>3 DEF Top
<1>5. \A k \in i..j : AfterOperand(u, i, k) <=> AfterOperand(t, i, k)
  <2> TAKE k \in i..j
  <2>1. k > i => k - 1 \in i..j
    OBVIOUS
  <2> QED
    BY <1>1, <2>1 DEF AfterOperand
<1>6. \A k \in Top(t, i, j) : k \in i..j
  BY DEF Top
<1>7. Signs(u, i, j) = Signs(t, i, j)
  BY <1>4, <1>5, <1>6 DEF Signs
<1>8. Sums(u, i, j) = Sums(t, i, j)
  BY <1>1, <1>4, <1>6, <1>7 DEF Sums
<1>9. Unsigned(u, i, j) = Unsigned(t, i, j)
  BY <1>4, <1>7 DEF Unsigned
<1>10. \A k \in Unsigned(t, i, j) : k \in i..j
  BY <1>6 DEF Unsigned
<1>11. Products(u, i, j) = Products(t, i, j) /\ Powers(u, i, j) = Powers(t, i, j)
  BY <1>1, <1>9, <1>10 DEF Products, Powers
<1>12. ASSUME Whole(t, i, j) PROVE Whole(u, i, j)
  <2>1. j \in i..j /\ j + 1 \in i..(j + 1)
    BY <1>12 DEF Whole
  <2> QED
    BY <1>1, <1>2, <1>3, <1>12, <2>1 DEF Whole
<1> QED
  BY <1>4, <1>7, <1>8, <1>9, <1>11, <1>12

LEMMA MeaningStays ==
  ASSUME NEW t, NEW u, NEW n \in Nat, n = Len(t), Len(u) \in Nat, n <= Len(u),
         Agree(t, u, n), NEW i \in 1..(n + 1), NEW j \in 0..n
  PROVE  Meaning(u)[<<i, j>>] = Meaning(t)[<<i, j>>]
<1> DEFINE Size(s) == s[2] + n + 1 - s[1]
           Bad == {d \in Nat : \E s \in Parts(n) : Size(s) = d /\ Meaning(u)[s] # Meaning(t)[s]}
<1>1. \A s \in Parts(n) : /\ s[1] \in 1..(n + 1) /\ s[2] \in 0..n /\ Size(s) \in Nat
                          /\ s = <<s[1], s[2]>>
  BY DEF Parts
<1>2. ASSUME NEW d \in Bad, \A y \in Bad : d <= y PROVE FALSE
  <2>1. PICK s \in Parts(n) : Size(s) = d /\ Meaning(u)[s] # Meaning(t)[s]
    OBVIOUS
  <2>2. PICK a \in 1..(n + 1), b \in 0..n : a = s[1] /\ b = s[2] /\ s = <<a, b>>
    BY <1>1
  <2>3. AgreeBelow(Meaning(u), Meaning(t), n, b - a)
    <3> SUFFICES ASSUME NEW p \in Parts(n), p[2] - p[1] < b - a
                 PROVE  Meaning(u)[p] = Meaning(t)[p]
      BY DEF AgreeBelow
    <3>1. p[1] \in 1..(n + 1) /\ p[2] \in 0..n /\ Size(p) \in Nat
      BY <1>1
    <3>2. d = b + n + 1 - a
      BY <2>1, <2>2
    <3>3. Size(p) < d
      BY <3>1, <3>2
    <3>4. Size(p) \notin Bad
      <4>1. d \in Nat
        OBVIOUS
      <4> HIDE DEF Bad, Size
      <4> QED
        BY <1>2, <3>1, <3>3, <4>1
    <3> QED
      BY <3>1, <3>4
  <2>4. ByParts(t, Meaning(u), a, b) = ByParts(t, Meaning(t), a, b)
    BY <2>3, PartsAreShorter
  <2>5. ByParts(u, Meaning(u), a, b) = ByParts(t, Meaning(u), a, b)
    <3>1. a \in Nat /\ a > 0
      OBVIOUS
    <3>2. /\ Top(u, a, b) = Top(t, a, b) /\ Signs(u, a, b) = Signs(t, a, b)
          /\ Sums(u, a, b) = Sums(t, a, b)
          /\ Products(u, a, b) = Products(t, a, b) /\ Powers(u, a, b) = Powers(t, a, b)
      BY <3>1, SetsStay
    <3>3. \A k \in a..b : u[k] = t[k]
      BY DEF Agree
    <3>4. /\ Sums(t, a, b) \in SUBSET (a..b) /\ Products(t, a, b) \in SUBSET (a..b)
          /\ Powers(t, a, b) \in SUBSET (a..b)
      BY DEF Sums, Products, Powers, Unsigned, Top
    <3>5. /\ Sums(t, a, b) # {} => Max(Sums(t, a, b)) \in a..b
          /\ Products(t, a, b) # {} => Max(Products(t, a, b)) \in a..b
          /\ Powers(t, a, b) # {} => Min(Powers(t, a, b)) \in a..b
      <4>1. b \in Nat
        OBVIOUS
      <4> QED
        BY <3>1, <3>4, <4>1, BoundsExist
    <3>6. \A f : /\ Sums(t, a, b) # {} => SplitAt(u, f, a, b, Max(Sums(t, a, b)))
                                          = SplitAt(t, f, a, b, Max(Sums(t, a, b)))
                 /\ Products(t, a, b) # {} => SplitAt(u, f, a, b, Max(Products(t, a, b)))
                                              = SplitAt(t, f, a, b, Max(Products(t, a, b)))
                 /\ Powers(t, a, b) # {} => SplitAt(u, f, a, b, Min(Powers(t, a, b)))
                                            = SplitAt(t, f, a, b, Min(Powers(t, a, b)))
      BY <3>3, <3>5, Zenon DEF SplitAt
    <3>7. a < b => u[a] = t[a]
      BY <3>3
    <3>8. /\ a \in Signs(t, a, b) => Products(t, a, b) = {} /\ Powers(t, a, b) = {}
          /\ Top(t, a, b) = {} => /\ Sums(t, a, b) = {} /\ Products(t, a, b) = {}
                                  /\ Powers(t, a, b) = {} /\ Signs(t, a, b) = {}
      BY <3>1, OneCase
    <3>9. CASE Sums(t, a, b) # {}
      BY <3>2, <3>6, <3>8, <3>9 DEF ByParts
    <3>10. CASE Sums(t, a, b) = {} /\ Products(t, a, b) # {}
      BY <3>2, <3>6, <3>8, <3>10 DEF ByParts
    <3>11. CASE Sums(t, a, b) = {} /\ Products(t, a, b) = {} /\ Powers(t, a, b) # {}
      BY <3>2, <3>6, <3>8, <3>11 DEF ByParts
    <3>12. CASE Sums(t, a, b) = {} /\ Products(t, a, b) = {} /\ Powers(t, a, b) = {}
      BY <3>2, <3>7, <3>8, <3>12 DEF ByParts
    <3> QED
      BY <3>9, <3>10, <3>11, <3>12
  <2>6. Meaning(t)[<<a, b>>] = ByParts(t, Meaning(t), a, b)
    BY MeaningIs
  <2>7. Meaning(u)[<<a, b>>] = ByParts(u, Meaning(u), a, b)
    <3>1. a \in 1..(Len(u) + 1) /\ b \in 0..Len(u)
      OBVIOUS
    <3> QED
      BY <3>1, MeaningIs
  <2> QED
    BY <2>1, <2>2, <2>4, <2>5, <2>6, <2>7, Zenon
<1>3. Bad = {}
  <2> SUFFICES ASSUME Bad # {} PROVE FALSE
    OBVIOUS
  <2>1. Bad \in SUBSET Nat
    OBVIOUS
  <2> HIDE DEF Bad
  <2>2. PICK d \in Bad : \A y \in Bad : d <= y
    BY <2>1, LeastNatural
  <2> QED
    BY <1>2, <2>2
<1>4. <<i, j>> \in Parts(n)
  BY DEF Parts
<1>5. Size(<<i, j>>) \in Nat
  BY <1>1, <1>4
<1> QED
  BY <1>3, <1>4, <1>5

-----------------------------------------------------------------------------
(* What an expression put together of others means.                        *)

LEMMA SumMeans ==
  ASSUME NEW t, Len(t) \in Nat, NEW i \in Nat, NEW k \in Nat, NEW j \in Nat, i > 0, j <= Len(t),
         Whole(t, i, k - 1), t[k] \in {PLUS, MINUS}, Whole(t, k + 1, j), Sums(t, k + 1, j) = {}
  PROVE  Meaning(t)[<<i, j>>] = SplitAt(t, Meaning(t), i, j, k)
<1>1. t[k] \in Operators
  BY DEF Operators
<1>2. i < k /\ k < j
  BY <1>1, Joined
<1>3. Sums(t, i, j) = Sums(t, i, k - 1) \cup {k} /\ Sums(t, i, k - 1) \subseteq i..(k - 1)
  <2>1. Sums(t, i, j) = Sums(t, i, k - 1) \cup Sums(t, k + 1, j)
                          \cup (IF t[k] \in {PLUS, MINUS} THEN {k} ELSE {})
        /\ Sums(t, i, k - 1) \subseteq i..(k - 1)
    BY <1>1, JoinedSets, SMTT(60)
  <2> QED
    BY <2>1
<1>4. /\ Sums(t, i, j) \in SUBSET Int /\ k \in Sums(t, i, j)
      /\ \A x \in Sums(t, i, j) : x <= k
  BY <1>3
<1>5. Max(Sums(t, i, j)) = k
  BY <1>4, MaxIs
<1>6. i \in 1..(Len(t) + 1) /\ j \in 0..Len(t)
  BY <1>2
<1>7. Sums(t, i, j) # {} /\ Top(t, i, j) # {}
  BY <1>4, NoOperators
<1>8. ByParts(t, Meaning(t), i, j) = SplitAt(t, Meaning(t), i, j, k)
  BY <1>5, <1>7 DEF ByParts
<1> QED
  BY <1>6, <1>8, MeaningIs

\* What stands on either side of a product, and of a power.
PowerSides(t, i, k, j) ==
  /\ Whole(t, i, k - 1) /\ Top(t, i, k - 1) = {}
  /\ Whole(t, k + 1, j) /\ Sums(t, k + 1, j) = {} /\ Products(t, k + 1, j) = {}

ProductSides(t, i, k, j) ==
  /\ Whole(t, i, k - 1) /\ Sums(t, i, k - 1) = {} /\ Signs(t, i, k - 1) = {}
  /\ Whole(t, k + 1, j) /\ Sums(t, k + 1, j) = {} /\ Products(t, k + 1, j) = {}

LEMMA ProductMeans ==
  ASSUME NEW t, Len(t) \in Nat, NEW i \in Nat, NEW k \in Nat, NEW j \in Nat, i > 0, j <= Len(t),
         ProductSides(t, i, k, j), t[k] \in {MULT, DIV}
  PROVE  /\ Meaning(t)[<<i, j>>] = SplitAt(t, Meaning(t), i, j, k)
         /\ Sums(t, i, j) = {} /\ Signs(t, i, j) = Signs(t, k + 1, j)
<1>0. /\ Whole(t, i, k - 1) /\ Sums(t, i, k - 1) = {} /\ Signs(t, i, k - 1) = {}
      /\ Whole(t, k + 1, j) /\ Sums(t, k + 1, j) = {} /\ Products(t, k + 1, j) = {}
  BY DEF ProductSides
<1>1. t[k] \in Operators /\ t[k] \notin {PLUS, MINUS}
  BY DEF Operators, PLUS, MINUS, MULT, DIV
<1>2. i < k /\ k < j /\ Signs(t, i, j) = Signs(t, k + 1, j)
  <2>1. i < k /\ k < j /\ Signs(t, i, j) = Signs(t, i, k - 1) \cup Signs(t, k + 1, j)
    <3>1. t[k] \in Operators
      BY <1>1
    <3> QED
      BY <1>0, <3>1, Joined
  <2> QED
    BY <1>0, <2>1
<1>3. /\ Sums(t, i, j) = {}
      /\ Unsigned(t, i, j) = Top(t, i, k - 1) \cup {k} \cup Unsigned(t, k + 1, j)
  BY <1>0, <1>1, JoinedSets
<1>4. \A x \in Unsigned(t, k + 1, j) : t[x] \notin {MULT, DIV}
  BY <1>0 DEF Products
<1>5. Products(t, i, j) = {x \in Top(t, i, k - 1) : t[x] \in {MULT, DIV}} \cup {k}
  <2>1. \A x : x \in Products(t, i, j) <=>
                 (x \in Top(t, i, k - 1) /\ t[x] \in {MULT, DIV}) \/ x = k
    BY <1>3, <1>4 DEF Products
  <2> QED
    BY <2>1
<1>6. \A x \in Top(t, i, k - 1) : x \in Int /\ x <= k
  BY DEF Top
<1>7. /\ Products(t, i, j) \in SUBSET Int /\ k \in Products(t, i, j)
      /\ \A x \in Products(t, i, j) : x <= k
  BY <1>5, <1>6
<1>8. Max(Products(t, i, j)) = k
  BY <1>7, MaxIs
<1>9. i \in 1..(Len(t) + 1) /\ j \in 0..Len(t)
  BY <1>2
<1>10. Products(t, i, j) # {} /\ Top(t, i, j) # {} /\ i \notin Signs(t, i, j)
  BY <1>7, NoOperators, OneCase
<1>11. ByParts(t, Meaning(t), i, j) = SplitAt(t, Meaning(t), i, j, k)
  BY <1>3, <1>8, <1>10 DEF ByParts
<1> QED
  BY <1>2, <1>3, <1>9, <1>11, MeaningIs

LEMMA PowerMeans ==
  ASSUME NEW t, Len(t) \in Nat, NEW i \in Nat, NEW k \in Nat, NEW j \in Nat, i > 0, j <= Len(t),
         PowerSides(t, i, k, j), t[k] = EXPON
  PROVE  /\ Meaning(t)[<<i, j>>] = SplitAt(t, Meaning(t), i, j, k)
         /\ Sums(t, i, j) = {} /\ Products(t, i, j) = {} /\ Signs(t, i, j) = Signs(t, k + 1, j)
<1>0. /\ Whole(t, i, k - 1) /\ Top(t, i, k - 1) = {}
      /\ Whole(t, k + 1, j) /\ Sums(t, k + 1, j) = {} /\ Products(t, k + 1, j) = {}
  BY DEF PowerSides
<1>1. t[k] \in Operators /\ t[k] \notin {PLUS, MINUS} /\ t[k] \notin {MULT, DIV}
  BY DEF Operators, PLUS, MINUS, MULT, DIV, EXPON
<1>2. Signs(t, i, k - 1) = {} /\ Sums(t, i, k - 1) = {}
  BY <1>0, NoOperators
<1>3. i < k /\ k < j /\ Signs(t, i, j) = Signs(t, k + 1, j)
  <2>1. i < k /\ k < j /\ Signs(t, i, j) = Signs(t, i, k - 1) \cup Signs(t, k + 1, j)
    <3>1. t[k] \in Operators
      BY <1>1
    <3> QED
      BY <1>0, <3>1, Joined
  <2> QED
    BY <1>2, <2>1
<1>4. Sums(t, i, j) = {} /\ Unsigned(t, i, j) = {k} \cup Unsigned(t, k + 1, j)
  BY <1>0, <1>1, <1>2, JoinedSets
<1>5. \A x \in Unsigned(t, k + 1, j) : t[x] \notin {MULT, DIV}
  BY <1>0 DEF Products
<1>6. Products(t, i, j) = {}
  BY <1>1, <1>4, <1>5 DEF Products
<1>7. \A x \in Unsigned(t, i, j) : x \in Int /\ k <= x
  <2>1. \A x \in Unsigned(t, k + 1, j) : x \in (k + 1)..j
    BY DEF Unsigned, Top
  <2> QED
    BY <1>4, <2>1
<1>8. /\ Powers(t, i, j) \in SUBSET Int /\ k \in Powers(t, i, j)
      /\ \A x \in Powers(t, i, j) : k <= x
  BY <1>4, <1>7 DEF Powers
<1>9. Min(Powers(t, i, j)) = k
  BY <1>8, MinIs
<1>10. i \in 1..(Len(t) + 1) /\ j \in 0..Len(t)
  BY <1>3
<1>11. Powers(t, i, j) # {} /\ Top(t, i, j) # {} /\ i \notin Signs(t, i, j)
  BY <1>8, NoOperators, OneCase
<1>12. ByParts(t, Meaning(t), i, j) = SplitAt(t, Meaning(t), i, j, k)
  BY <1>4, <1>6, <1>9, <1>11 DEF ByParts
<1> QED
  BY <1>3, <1>4, <1>6, <1>10, <1>12, MeaningIs

LEMMA SignMeans ==
  ASSUME NEW t, Len(t) \in Nat, NEW i \in Nat, NEW j \in Nat, i > 0, j <= Len(t),
         t[i] \in Operators, Whole(t, i + 1, j), Sums(t, i + 1, j) = {}
  PROVE  /\ Meaning(t)[<<i, j>>] = <<"neg", Meaning(t)[<<i + 1, j>>]>>
         /\ Sums(t, i, j) = {} /\ Products(t, i, j) = {}
<1>1. /\ i < j /\ i \in Signs(t, i, j)
      /\ Top(t, i, j) = {i} \cup Top(t, i + 1, j)
      /\ Signs(t, i, j) = {i} \cup Signs(t, i + 1, j)
  BY Signed
<1>2. Sums(t, i, j) = {}
  BY <1>1 DEF Sums
<1>3. Products(t, i, j) = {} /\ Powers(t, i, j) = {} /\ Top(t, i, j) # {}
  BY <1>1, OneCase
<1>4. i \in 1..(Len(t) + 1) /\ j \in 0..Len(t)
  BY <1>1
<1>5. ByParts(t, Meaning(t), i, j) = <<"neg", Meaning(t)[<<i + 1, j>>]>>
  BY <1>1, <1>2, <1>3 DEF ByParts
<1> QED
  BY <1>2, <1>3, <1>4, <1>5, MeaningIs

LEMMA BracketMeans ==
  ASSUME NEW t, Len(t) \in Nat, NEW i \in Nat, NEW j \in Nat, i > 0, j <= Len(t),
         t[i] = LB, t[j] = RB, Whole(t, i + 1, j - 1)
  PROVE  Meaning(t)[<<i, j>>] = Meaning(t)[<<i + 1, j - 1>>]
<1>1. i + 1 < j /\ Top(t, i, j) = {}
  BY Bracketed
<1>2. /\ Sums(t, i, j) = {} /\ Products(t, i, j) = {} /\ Powers(t, i, j) = {}
      /\ Signs(t, i, j) = {}
  BY <1>1, NoOperators
<1>3. i \in 1..(Len(t) + 1) /\ j \in 0..Len(t) /\ i < j
  BY <1>1
<1>4. ByParts(t, Meaning(t), i, j) = Meaning(t)[<<i + 1, j - 1>>]
  BY <1>1, <1>2, <1>3 DEF ByParts
<1> QED
  BY <1>3, <1>4, MeaningIs

LEMMA NumberMeans ==
  ASSUME NEW t, Len(t) \in Nat, NEW i \in Nat, i > 0, i <= Len(t), t[i] \in {RATIONAL, INTEGER}
  PROVE  Meaning(t)[<<i, i>>] = <<i>>
<1>1. Top(t, i, i) = {} /\ ~(i < i)
  BY NumberIs
<1>2. /\ Sums(t, i, i) = {} /\ Products(t, i, i) = {} /\ Powers(t, i, i) = {}
      /\ Signs(t, i, i) = {}
  BY <1>1, NoOperators
<1>3. i \in 1..(Len(t) + 1) /\ i \in 0..Len(t)
  OBVIOUS
<1>4. ByParts(t, Meaning(t), i, i) = <<i>>
  BY <1>1, <1>2 DEF ByParts
<1> QED
  BY <1>3, <1>4, MeaningIs

-----------------------------------------------------------------------------
(* What the tables say of the symbols on the stack.                        *)

\* The symbol behind which a state is entered (14 to 17: input, line, rat, int).
yystos == Array(<<
  0, 14, 0, 3, 4, 6, 10, 11, 15, 16, 17, 16, 17, 16, 17, 5, 6, 7, 8, 9,
  10, 5, 6, 7, 9, 10, 12, 12, 6, 11, 16, 16, 16, 16, 16, 6, 11, 17, 17, 17, 17>>)

\* The states that hold an expression, and the kinds of them: a line or what is in
\* brackets, the operand of a sign, and the second one of a sum, product or power.
Expressions == Pushed[16] \cup Pushed[17]
WholeStates == {9, 10, 13, 14}
NegStates == {11, 12}
SumStates == {30, 31, 37, 38}
ProductStates == {32, 33, 39}
PowerStates == {34, 40}
BinaryStates == SumStates \cup ProductStates \cup PowerStates

\* The tokens that take an expression that is a sum or has a sign apart.
Binds(q, tok) == tok \in {MULT, EXPON} \/ (tok = DIV /\ q \in Pushed[16])

LEMMA PushedAre ==
  /\ Pushed[14] = {1} /\ Pushed[15] = {8}
  /\ Pushed[16] = {9, 11, 13} \cup (30..34) /\ Pushed[17] = {10, 12, 14} \cup (37..40)
  /\ Expressions = WholeStates \cup NegStates \cup BinaryStates
  /\ Expressions \subseteq YYSTATES
  /\ \A q \in Expressions : yystos[q] = IF q \in Pushed[16] THEN 16 ELSE 17
  /\ Pushed[16] \cap Pushed[17] = {}
<1>1. /\ Pushed[14] = {1} /\ Pushed[15] = {8}
      /\ Pushed[16] = {9, 11, 13} \cup (30..34) /\ Pushed[17] = {10, 12, 14} \cup (37..40)
  BY DEF Pushed
<1>2. Expressions = WholeStates \cup NegStates \cup BinaryStates
  BY <1>1 DEF Expressions, WholeStates, NegStates, BinaryStates, SumStates, ProductStates,
     PowerStates
<1>3. Expressions \subseteq YYSTATES /\ Pushed[16] \cap Pushed[17] = {}
  BY <1>1 DEF Expressions, YYSTATES
<1>4. \A q \in {9, 11, 13} \cup (30..34) : yystos[q] = 16
  BY SMTT(60) DEF yystos, Array
<1>5. \A q \in {10, 12, 14} \cup (37..40) : yystos[q] = 17
  BY SMTT(60) DEF yystos, Array
<1> QED
  BY <1>1, <1>2, <1>3, <1>4, <1>5 DEF Expressions

LEMMA ShiftedSymbol ==
  ASSUME NEW p \in YYSTATES, NEW tok, yypact[p] # YYPACT_NINF, Packed(yypact[p], tok) > 0
  PROVE  /\ yystos[Packed(yypact[p], tok)] = tok /\ tok \in Tokens
         /\ Packed(yypact[p], tok) \notin Expressions \cup {0, 1, 8}
<1> DEFINE n == yypact[p] + tok
<1>1. \A s \in YYSTATES, k \in 0..YYLAST :
        yypact[s] # YYPACT_NINF /\ yypact[s] + yycheck[k] = k /\ yytable[k] > 0 =>
          /\ yystos[yytable[k]] = yycheck[k] /\ yycheck[k] \in Tokens
          /\ yytable[k] \notin Expressions \cup {0, 1, 8}
  BY SMTT(120), PushedAre DEF yypact, yycheck, yytable, yystos, Array, YYSTATES, YYLAST, YYPACT_NINF,
     Tokens, YYEOF, Expressions
<1>2. n \in 0..YYLAST /\ yycheck[n] = tok /\ Packed(yypact[p], tok) = yytable[n]
  BY DEF Packed
<1> HIDE DEF n
<1>3. yypact[p] + yycheck[n] = n
  BY <1>2 DEF n
<1> QED
  BY <1>1, <1>2, <1>3

LEMMA GotoAgain ==
  ASSUME NEW r \in Expressions, NEW p \in Below[r]
  PROVE  Goto(p, yystos[r]) = r
<1>1. \A x \in Pushed[16] : \A y \in Below[x] : Goto(y, 16) = x
  BY SMTT(60), PushedAre DEF Goto, yypgoto, yycheck, yytable, yydefgoto, Array, YYLAST, YYNTOKENS, Below
<1>2. \A x \in Pushed[17] : \A y \in Below[x] : Goto(y, 17) = x
  BY SMTT(60), PushedAre DEF Goto, yypgoto, yycheck, yytable, yydefgoto, Array, YYLAST, YYNTOKENS, Below
<1> QED
  BY <1>1, <1>2, PushedAre DEF Expressions

\* The rules of the grammar with an operator.
LEMMA BinaryRulesAre ==
  /\ DOMAIN BinaryRules = {8, 9, 10, 11, 13, 16, 17, 18, 20}
  /\ BinaryRules[8] = PLUS /\ BinaryRules[9] = MINUS /\ BinaryRules[10] = MULT
  /\ BinaryRules[11] = DIV /\ BinaryRules[13] = EXPON /\ BinaryRules[16] = PLUS
  /\ BinaryRules[17] = MINUS /\ BinaryRules[18] = MULT /\ BinaryRules[20] = EXPON
BY DEF BinaryRules

LEMMA BinaryAre ==
  ASSUME NEW q \in BinaryStates
  PROVE  LET n == yydefact[q]
         IN  /\ n \in DOMAIN BinaryRules /\ yyr2[n] = 3 /\ yyr1[n] = yystos[q]
             /\ \A o \in Below[q] :
                  /\ BinaryRules[n] = yystos[o]
                  /\ q \in SumStates => yystos[o] \in {PLUS, MINUS} /\ Below[o] \subseteq WholeStates
                  /\ q \in ProductStates =>
                       /\ yystos[o] \in {MULT, DIV} /\ (yystos[o] = DIV => q \in Pushed[16])
                       /\ Below[o] \cap (ProductStates \cup PowerStates) = {}
                  /\ q \in PowerStates => yystos[o] = EXPON
                  /\ Below[o] \subseteq Pushed[yystos[q]]
<1> USE DEF yydefact, yyr1, yyr2, yystos, Below, Array, SumStates, ProductStates, PowerStates,
            WholeStates, PLUS, MINUS, MULT, DIV, EXPON
<1>1. q \in SumStates \/ q \in ProductStates \/ q \in PowerStates
  BY DEF BinaryStates
<1>2. CASE q \in SumStates
  BY <1>2, BinaryRulesAre, PushedAre, SMTT(60)
<1>3. CASE q \in ProductStates
  BY <1>3, BinaryRulesAre, PushedAre, SMTT(60)
<1>4. CASE q \in PowerStates
  BY <1>4, BinaryRulesAre, PushedAre, SMTT(60)
<1> QED
  BY <1>1, <1>2, <1>3, <1>4

LEMMA NegationsAre ==
  ASSUME NEW q \in NegStates
  PROVE  LET n == yydefact[q]
         IN  n \in {12, 19} /\ yyr2[n] = 2 /\ yyr1[n] = yystos[q]
               /\ \A a \in Below[q] : yystos[a] = MINUS
BY SMTT(60) DEF yydefact, yyr1, yyr2, yystos, Below, Array, NegStates, MINUS

LEMMA BracketsAre ==
  ASSUME NEW q \in CloseStates
  PROVE  LET n == yydefact[q]
         IN  n \in {14, 21} /\ yyr2[n] = 3 /\ yystos[q] = RB
               /\ \A a \in Below[q] :
                    /\ a \in WholeStates /\ yyr1[n] = yystos[a]
                    /\ \A b \in Below[a] : yystos[b] = LB
BY SMTT(60) DEF yydefact, yyr1, yyr2, yystos, Below, Array, CloseStates, WholeStates, RB, LB

LEMMA NumbersAre ==
  /\ yydefact[3] = 7 /\ yydefact[4] = 15 /\ yyr2[7] = 1 /\ yyr2[15] = 1
  /\ yyr1[7] = 16 /\ yyr1[15] = 17 /\ yystos[3] = RATIONAL /\ yystos[4] = INTEGER
BY SMTT(60) DEF yydefact, yyr1, yyr2, yystos, Array, RATIONAL, INTEGER

\* The lookahead token of a reduction binds no more than the expression it makes.
LEMMA LookaheadsAre ==
  /\ \A q \in BinaryStates \cup NegStates : yypact[q] # YYPACT_NINF
  /\ \A q \in SumStates \cup NegStates, tok \in Tokens :
       Packed(yypact[q], tok) <= 0 => ~Binds(q, tok)
  /\ \A q \in BinaryStates, tok \in Tokens : Packed(yypact[q], tok) <= 0 => tok # EXPON
<1> USE DEF yypact, Array, SumStates, ProductStates, PowerStates, BinaryStates, NegStates,
            Packed, yycheck, yytable, YYLAST, MULT, DIV, EXPON
<1>1. \A q \in BinaryStates \cup NegStates : yypact[q] # YYPACT_NINF
  BY SMTT(60) DEF YYPACT_NINF
<1>2. \A q \in SumStates \cup NegStates : ~(Packed(yypact[q], MULT) <= 0)
  BY SMTT(60)
<1>3. \A q \in BinaryStates \cup NegStates : ~(Packed(yypact[q], EXPON) <= 0)
  BY SMTT(60)
<1>4. \A q \in SumStates \cup NegStates : q \in Pushed[16] => ~(Packed(yypact[q], DIV) <= 0)
  BY SMTT(60), PushedAre
<1>5. SumStates \subseteq BinaryStates
  OBVIOUS
<1> HIDE DEF yypact, Array, SumStates, ProductStates, PowerStates, BinaryStates, NegStates,
             Packed, yycheck, yytable, YYLAST, MULT, DIV, EXPON
<1>6. ASSUME NEW q \in SumStates \cup NegStates, NEW tok, Packed(yypact[q], tok) <= 0
      PROVE  ~Binds(q, tok)
  <2>1. ASSUME tok = MULT PROVE FALSE
    <3>1. Packed(yypact[q], MULT) <= 0
      BY <1>6, <2>1, Zenon
    <3> QED
      BY <1>2, <3>1, Zenon
  <2>2. ASSUME tok = EXPON PROVE FALSE
    <3>1. Packed(yypact[q], EXPON) <= 0
      BY <1>6, <2>2, Zenon
    <3> QED
      BY <1>3, <1>5, <3>1, Zenon
  <2>3. ASSUME tok = DIV, q \in Pushed[16] PROVE FALSE
    <3>1. Packed(yypact[q], DIV) <= 0
      BY <1>6, <2>3, Zenon
    <3> QED
      BY <1>4, <2>3, <3>1, Zenon
  <2> QED
    BY <2>1, <2>2, <2>3, Zenon DEF Binds
<1>7. ASSUME NEW q \in BinaryStates, NEW tok, Packed(yypact[q], tok) <= 0, tok = EXPON
      PROVE  FALSE
  <2>1. Packed(yypact[q], EXPON) <= 0
    BY <1>7, Zenon
  <2> QED
    BY <1>3, <2>1, Zenon
<1> QED
  BY <1>1, <1>6, <1>7, Zenon

\* The states of the lines.
LEMMA LinesAre ==
  /\ yydefact[0] = 2 /\ yyr2[2] = 0 /\ yyr1[2] = 14
  /\ yydefact[6] = 4 /\ yyr2[4] = 1 /\ yyr1[4] = 15 /\ yystos[6] = EOL
  /\ yydefact[8] = 3 /\ yyr2[3] = 2 /\ yyr1[3] = 14 /\ Below[8] = {1}
  /\ yydefact[20] = 5 /\ yyr2[5] = 2 /\ yyr1[5] = 15 /\ yystos[20] = EOL /\ Below[20] = {9}
  /\ yydefact[25] = 6 /\ yyr2[6] = 2 /\ yyr1[6] = 15 /\ yystos[25] = EOL /\ Below[25] = {10}
  /\ Below[9] = {1} /\ Below[10] = {1} /\ Below[1] = {0} /\ Below[6] = {1} /\ Below[0] = {}
BY SMTT(60) DEF yydefact, yyr1, yyr2, yystos, Below, Array, EOL

LEMMA ReducingStates ==
  ASSUME NEW q \in YYSTATES, q # YYFINAL, yydefact[q] # 0
  PROVE  q \in BinaryStates \cup NegStates \cup CloseStates \cup {3, 4} \cup {0, 6, 8, 20, 25}
BY SMTT(60) DEF yydefact, Array, YYSTATES, YYFINAL, BinaryStates, SumStates, ProductStates,
   PowerStates, NegStates, CloseStates

-----------------------------------------------------------------------------
(* What an expression on the stack is, and what a reduction makes of it.   *)

MemberOf(q) == IF q \in Pushed[16] THEN "rational" ELSE "integer"
NumberOf(q) == IF q \in Pushed[16] THEN RATIONAL ELSE INTEGER

\* The numbers in t[i..j] are of one kind, and there is one.
OfKind(t, i, j, num) ==
  /\ \E k \in i..j : t[k] = num
  /\ \A k \in i..j : t[k] \in {RATIONAL, INTEGER} => t[k] = num

\* How loose the operators of t[i..j] may be, by its state and what follows it.
Shape(t, q, i, j) ==
  /\ q \notin WholeStates => Sums(t, i, j) = {}
  /\ q \in ProductStates \cup PowerStates => Products(t, i, j) = {}
  /\ j < Len(t) /\ Binds(q, t[j + 1]) => Sums(t, i, j) = {} /\ Signs(t, i, j) = {}
  /\ j < Len(t) /\ t[j + 1] = EXPON => Top(t, i, j) = {}
  /\ j = Len(t) => Top(t, i, j) = {}

IsExpression(t, q, val, i, j) ==
  /\ Whole(t, i, j)
  /\ OfKind(t, i, j, NumberOf(q))
  /\ Shape(t, q, i, j)
  /\ val = Union(MemberOf(q), Meaning(t)[<<i, j>>])

\* A reduction in state q: it needs no lookahead token, or has none to shift.
Lookahead(t, q, j) ==
  yypact[q] = YYPACT_NINF \/ (j < Len(t) /\ Packed(yypact[q], t[j + 1]) <= 0)

LEMMA UnionIs ==
  /\ \A m, e : Member(m, Union(m, e)) = e
  /\ \A m, e : Union(m, e).member = m /\ Union(m, e).e = e
BY DEF Member, Union

LEMMA KindOf ==
  ASSUME NEW q \in Expressions, NEW r \in Pushed[yystos[q]]
  PROVE  MemberOf(r) = MemberOf(q) /\ NumberOf(r) = NumberOf(q) /\ r \in Expressions
         /\ (r \in Pushed[16] <=> q \in Pushed[16])
         /\ MemberOf(q) = IF yystos[q] = 16 THEN "rational" ELSE "integer"
<1>1. yystos[q] = IF q \in Pushed[16] THEN 16 ELSE 17
  BY PushedAre
<1>2. CASE q \in Pushed[16]
  BY <1>1, <1>2, PushedAre DEF MemberOf, NumberOf, Expressions
<1>3. CASE q \notin Pushed[16]
  <2>1. r \in Pushed[17] /\ r \notin Pushed[16]
    BY <1>1, <1>3, PushedAre
  <2> QED
    BY <1>1, <1>3, <2>1, PushedAre DEF MemberOf, NumberOf, Expressions
<1> QED
  BY <1>2, <1>3

\* The members that the actions read are those that were written.
LEMMA BinaryValue ==
  ASSUME NEW q \in BinaryStates, NEW o \in Below[q], NEW rhs, NEW x, NEW y,
         rhs[1] = Union(MemberOf(q), x), rhs[3] = Union(MemberOf(q), y)
  PROVE  Action(yydefact[q], rhs) = Union(MemberOf(q), <<yystos[o], x, y>>)
<1>1. PICK n : n = yydefact[q] /\ n \in DOMAIN BinaryRules /\ yyr1[n] = yystos[q]
                 /\ BinaryRules[n] = yystos[o]
  BY BinaryAre
<1>2. q \in Expressions /\ MemberOf(q) = IF yyr1[n] = 16 THEN "rational" ELSE "integer"
  <2>1. q \in Expressions /\ q \in Pushed[yystos[q]]
    BY PushedAre DEF Expressions
  <2> QED
    BY <1>1, <2>1, KindOf
<1>3. PICK m : m = MemberOf(q)
  OBVIOUS
<1>4. Member(m, rhs[1]) = x /\ Member(m, rhs[3]) = y
  BY <1>3, UnionIs
<1>5. n \notin {12, 19} /\ n \notin {14, 21} /\ n \notin {7, 15} /\ n # 2
  BY <1>1, BinaryRulesAre
<1>6. Action(n, rhs) = Union(m, <<BinaryRules[n], Member(m, rhs[1]), Member(m, rhs[3])>>)
  BY <1>1, <1>2, <1>3, <1>5 DEF Action
<1> QED
  BY <1>1, <1>3, <1>4, <1>6

LEMMA KindJoined ==
  ASSUME NEW t, NEW i \in Nat, NEW k \in Nat, NEW j \in Nat, i < k, k < j, NEW num,
         OfKind(t, i, k - 1, num), t[k] \in Operators, OfKind(t, k + 1, j, num)
  PROVE  OfKind(t, i, j, num)
<1>1. \A m : m \in i..j <=> m \in i..(k - 1) \/ m = k \/ m \in (k + 1)..j
  OBVIOUS
<1>2. t[k] \notin {RATIONAL, INTEGER}
  BY TokensDiffer
<1> QED
  BY <1>1, <1>2 DEF OfKind

\* Behind an expression with operators nothing follows that binds them apart.
LEMMA ShapeBehind ==
  ASSUME NEW t, NEW n \in Nat, n = Len(t), t \in Seq(Tokens), NEW i, NEW j \in Nat, j <= n,
         NEW q \in BinaryStates \cup NegStates, Lookahead(t, q, j),
         NEW r \in Pushed[yystos[q]],
         r \notin WholeStates => Sums(t, i, j) = {},
         r \in ProductStates \cup PowerStates => Products(t, i, j) = {},
         j < n /\ Binds(q, t[j + 1]) => Sums(t, i, j) = {} /\ Signs(t, i, j) = {}
  PROVE  Shape(t, r, i, j)
<1>1. j < n /\ Packed(yypact[q], t[j + 1]) <= 0 /\ t[j + 1] \in Tokens
  <2>1. yypact[q] # YYPACT_NINF
    BY LookaheadsAre
  <2>2. j < n /\ Packed(yypact[q], t[j + 1]) <= 0
    BY <2>1 DEF Lookahead
  <2>3. j + 1 \in 1..n
    BY <2>2
  <2> QED
    BY <2>2, <2>3
<1>2. t[j + 1] # EXPON
  <2>1. CASE q \in BinaryStates
    BY <1>1, <2>1, LookaheadsAre
  <2>2. CASE q \in NegStates
    <3>1. ~Binds(q, t[j + 1])
      BY <1>1, <2>2, LookaheadsAre
    <3> QED
      BY <3>1 DEF Binds
  <2> QED
    BY <2>1, <2>2
<1>3. q \in Expressions
  BY PushedAre
<1>4. Binds(r, t[j + 1]) <=> Binds(q, t[j + 1])
  BY <1>3, KindOf DEF Binds
<1>5. j # n
  BY <1>1
<1> QED
  BY <1>1, <1>2, <1>4, <1>5 DEF Shape

\* Rules 8 to 11, 13, 16 to 18 and 20: two expressions and an operator between them.
LEMMA BinaryMakes ==
  ASSUME NEW t, NEW n \in Nat, n = Len(t), t \in Seq(Tokens),
         NEW i \in Nat, NEW k \in Nat, NEW j \in Nat, i > 0, j <= n,
         NEW q \in BinaryStates, NEW o \in Below[q], NEW a \in Below[o], NEW rhs,
         IsExpression(t, a, rhs[1], i, k - 1), t[k] = yystos[o],
         IsExpression(t, q, rhs[3], k + 1, j), Lookahead(t, q, j)
  PROVE  IsExpression(t, a, Action(yydefact[q], rhs), i, j)
<1>1. /\ BinaryRules[yydefact[q]] = yystos[o] /\ yydefact[q] \in DOMAIN BinaryRules
      /\ q \in SumStates => yystos[o] \in {PLUS, MINUS} /\ Below[o] \subseteq WholeStates
      /\ q \in ProductStates =>
           /\ yystos[o] \in {MULT, DIV} /\ (yystos[o] = DIV => q \in Pushed[16])
           /\ Below[o] \cap (ProductStates \cup PowerStates) = {}
      /\ q \in PowerStates => yystos[o] = EXPON
      /\ Below[o] \subseteq Pushed[yystos[q]]
  BY BinaryAre
<1>2. q \in Expressions /\ a \in Pushed[yystos[q]]
  BY <1>1, PushedAre
<1>3. /\ MemberOf(a) = MemberOf(q) /\ NumberOf(a) = NumberOf(q)
      /\ a \in Pushed[16] <=> q \in Pushed[16]
  BY <1>2, KindOf
<1>4. PICK x : x = Meaning(t)[<<i, k - 1>>] /\ rhs[1] = Union(MemberOf(q), x)
  BY <1>3 DEF IsExpression
<1>5. PICK y : y = Meaning(t)[<<k + 1, j>>] /\ rhs[3] = Union(MemberOf(q), y)
  BY DEF IsExpression
<1>6. Action(yydefact[q], rhs) = Union(MemberOf(a), <<t[k], x, y>>)
  <2>1. Action(yydefact[q], rhs) = Union(MemberOf(q), <<yystos[o], x, y>>)
    BY <1>4, <1>5, BinaryValue
  <2> QED
    BY <1>3, <2>1
<1>7. Whole(t, i, k - 1) /\ Whole(t, k + 1, j)
  BY DEF IsExpression
<1>8. q \in SumStates \/ q \in ProductStates \/ q \in PowerStates
  BY DEF BinaryStates
<1>9. t[k] \in Operators
  BY <1>1, <1>8 DEF Operators
<1>10. Whole(t, i, j) /\ i < k /\ k < j
  BY <1>7, <1>9, Joined
<1>11. OfKind(t, i, j, NumberOf(a))
  <2>1. OfKind(t, i, k - 1, NumberOf(a)) /\ OfKind(t, k + 1, j, NumberOf(a))
    BY <1>3 DEF IsExpression
  <2> QED
    BY <1>9, <1>10, <2>1, KindJoined
<1>12. Len(t) \in Nat /\ k - 1 < Len(t) /\ (k - 1) + 1 = k /\ j <= Len(t)
  BY <1>10
<1>13. Shape(t, a, i, k - 1) /\ Shape(t, q, k + 1, j)
  BY DEF IsExpression
<1>14. ASSUME Meaning(t)[<<i, j>>] = SplitAt(t, Meaning(t), i, j, k), Shape(t, a, i, j)
       PROVE  IsExpression(t, a, Action(yydefact[q], rhs), i, j)
  <2>1. Meaning(t)[<<i, j>>] = <<t[k], x, y>>
    BY <1>4, <1>5, <1>14 DEF SplitAt
  <2> QED
    BY <1>6, <1>10, <1>11, <1>14, <2>1 DEF IsExpression
<1>15. CASE q \in SumStates
  <2>1. Sums(t, k + 1, j) = {} /\ t[k] \in {PLUS, MINUS} /\ a \in WholeStates
    <3>1. q \notin WholeStates
      BY <1>15 DEF SumStates, WholeStates
    <3> QED
      BY <1>1, <1>13, <1>15, <3>1 DEF Shape
  <2>2. Meaning(t)[<<i, j>>] = SplitAt(t, Meaning(t), i, j, k)
    BY <1>7, <1>12, <2>1, SumMeans
  <2>3. a \notin ProductStates \cup PowerStates
    BY <2>1 DEF WholeStates, ProductStates, PowerStates
  <2>4. ~(j < n /\ Binds(q, t[j + 1]))
    <3>1. j < n /\ Packed(yypact[q], t[j + 1]) <= 0
      BY <1>15, LookaheadsAre DEF Lookahead, BinaryStates
    <3>2. j + 1 \in 1..n
      BY <3>1
    <3>3. t[j + 1] \in Tokens
      BY <3>2
    <3> QED
      BY <1>15, <3>1, <3>3, LookaheadsAre
  <2>5. Shape(t, a, i, j)
    BY <1>2, <2>1, <2>3, <2>4, ShapeBehind
  <2> QED
    BY <1>14, <2>2, <2>5
<1>16. CASE q \in ProductStates
  <2>1. t[k] \in {MULT, DIV} /\ Binds(a, t[k]) /\ a \notin ProductStates \cup PowerStates
    <3>1. t[k] \in {MULT, DIV} /\ (t[k] = DIV => a \in Pushed[16])
      BY <1>1, <1>3, <1>16
    <3> QED
      BY <1>1, <1>16, <3>1 DEF Binds
  <2>2. Sums(t, i, k - 1) = {} /\ Signs(t, i, k - 1) = {}
    BY <1>12, <1>13, <2>1 DEF Shape
  <2>3. Sums(t, k + 1, j) = {} /\ Products(t, k + 1, j) = {}
    <3>1. q \notin WholeStates
      BY <1>16 DEF ProductStates, WholeStates
    <3> QED
      BY <1>13, <1>16, <3>1 DEF Shape
  <2>4. /\ Meaning(t)[<<i, j>>] = SplitAt(t, Meaning(t), i, j, k)
        /\ Sums(t, i, j) = {} /\ Signs(t, i, j) = Signs(t, k + 1, j)
    <3>1. ProductSides(t, i, k, j) /\ t[k] \in {MULT, DIV}
      BY <1>7, <2>1, <2>2, <2>3 DEF ProductSides
    <3> QED
      BY <1>12, <3>1, ProductMeans
  <2>5. j < n /\ Binds(q, t[j + 1]) => Sums(t, i, j) = {} /\ Signs(t, i, j) = {}
    BY <1>13, <2>4 DEF Shape
  <2>6. Shape(t, a, i, j)
    BY <1>2, <2>1, <2>4, <2>5, ShapeBehind
  <2> QED
    BY <1>14, <2>4, <2>6
<1>17. CASE q \in PowerStates
  <2>1. t[k] = EXPON
    BY <1>1, <1>17
  <2>2. Top(t, i, k - 1) = {}
    BY <1>12, <1>13, <2>1 DEF Shape
  <2>3. Sums(t, k + 1, j) = {} /\ Products(t, k + 1, j) = {}
    <3>1. q \notin WholeStates
      BY <1>17 DEF PowerStates, WholeStates
    <3> QED
      BY <1>13, <1>17, <3>1 DEF Shape
  <2>4. /\ Meaning(t)[<<i, j>>] = SplitAt(t, Meaning(t), i, j, k)
        /\ Sums(t, i, j) = {} /\ Products(t, i, j) = {} /\ Signs(t, i, j) = Signs(t, k + 1, j)
    <3>1. PowerSides(t, i, k, j)
      BY <1>7, <2>2, <2>3 DEF PowerSides
    <3> QED
      BY <1>12, <2>1, <3>1, PowerMeans
  <2>5. j < n /\ Binds(q, t[j + 1]) => Sums(t, i, j) = {} /\ Signs(t, i, j) = {}
    BY <1>13, <2>4 DEF Shape
  <2>6. Shape(t, a, i, j)
    BY <1>2, <2>4, <2>5, ShapeBehind
  <2> QED
    BY <1>14, <2>4, <2>6
<1> QED
  BY <1>8, <1>15, <1>16, <1>17

\* Rules 12 and 19: a sign and an expression.
LEMMA SignMakes ==
  ASSUME NEW t, NEW n \in Nat, n = Len(t), t \in Seq(Tokens),
         NEW i \in Nat, NEW j \in Nat, i > 0, j <= n,
         NEW q \in NegStates, NEW a \in Below[q], t[i] = yystos[a], NEW rhs,
         IsExpression(t, q, rhs[2], i + 1, j), Lookahead(t, q, j),
         NEW r \in Pushed[yyr1[yydefact[q]]]
  PROVE  IsExpression(t, r, Action(yydefact[q], rhs), i, j)
<1>1. /\ yydefact[q] \in {12, 19} /\ yyr1[yydefact[q]] = yystos[q] /\ t[i] = MINUS
  BY NegationsAre
<1>2. q \in Expressions
  BY PushedAre
<1>3. /\ MemberOf(r) = MemberOf(q) /\ NumberOf(r) = NumberOf(q)
      /\ MemberOf(q) = IF yystos[q] = 16 THEN "rational" ELSE "integer"
      /\ q \in Pushed[yystos[q]] /\ r \in Pushed[yystos[q]]
  <2>1. r \in Pushed[yystos[q]]
    BY <1>1
  <2>2. q \in Pushed[yystos[q]]
    BY <1>2, PushedAre DEF Expressions
  <2> QED
    BY <1>2, <2>1, <2>2, KindOf
<1>4. PICK x : x = Meaning(t)[<<i + 1, j>>] /\ rhs[2] = Union(MemberOf(q), x)
  BY DEF IsExpression
<1>5. Action(yydefact[q], rhs) = Union(MemberOf(r), <<"neg", x>>)
  <2>1. PICK m : m = yydefact[q] /\ m \in {12, 19} /\ yyr1[m] = yystos[q]
    BY <1>1
  <2>2. m \notin DOMAIN BinaryRules
    BY <2>1, BinaryRulesAre
  <2>3. PICK u : u = MemberOf(q)
    OBVIOUS
  <2>4. Member(u, rhs[2]) = x
    BY <1>4, <2>3, UnionIs
  <2>5. Action(m, rhs) = Union(u, <<"neg", Member(u, rhs[2])>>)
    BY <1>3, <2>1, <2>2, <2>3 DEF Action
  <2> QED
    BY <1>3, <2>1, <2>3, <2>4, <2>5
<1>6. t[i] \in Operators
  BY <1>1 DEF Operators
<1>7. Whole(t, i + 1, j) /\ Shape(t, q, i + 1, j) /\ OfKind(t, i + 1, j, NumberOf(r))
  BY <1>3 DEF IsExpression
<1>8. Whole(t, i, j) /\ i < j
  BY <1>6, <1>7, Signed
<1>9. OfKind(t, i, j, NumberOf(r))
  <2>1. \A m : m \in i..j <=> m = i \/ m \in (i + 1)..j
    BY <1>8
  <2>2. t[i] \notin {RATIONAL, INTEGER}
    BY <1>6, TokensDiffer
  <2> QED
    BY <1>7, <2>1, <2>2 DEF OfKind
<1>10. Sums(t, i + 1, j) = {}
  <2>1. q \notin WholeStates
    BY DEF NegStates, WholeStates
  <2> QED
    BY <1>7, <2>1 DEF Shape
<1>11. /\ Meaning(t)[<<i, j>>] = <<"neg", Meaning(t)[<<i + 1, j>>]>>
       /\ Sums(t, i, j) = {} /\ Products(t, i, j) = {}
  <2>1. Len(t) \in Nat /\ j <= Len(t)
    OBVIOUS
  <2> QED
    BY <1>6, <1>7, <1>10, <2>1, SignMeans
<1>12. ~(j < n /\ Binds(q, t[j + 1]))
  <2>1. j < n /\ Packed(yypact[q], t[j + 1]) <= 0
    BY LookaheadsAre DEF Lookahead
  <2>2. j + 1 \in 1..n
    BY <2>1
  <2>3. t[j + 1] \in Tokens
    BY <2>2
  <2> QED
    BY <2>1, <2>3, LookaheadsAre
<1>13. Shape(t, r, i, j)
  BY <1>3, <1>11, <1>12, ShapeBehind
<1>14. Action(yydefact[q], rhs) = Union(MemberOf(r), Meaning(t)[<<i, j>>])
  BY <1>4, <1>5, <1>11
<1> QED
  BY <1>8, <1>9, <1>13, <1>14 DEF IsExpression

\* Without operators, every state will do.
LEMMA ShapeOfNone ==
  ASSUME NEW t, NEW r, NEW i, NEW j, Top(t, i, j) = {}
  PROVE  Shape(t, r, i, j)
BY NoOperators DEF Shape

\* Rules 14 and 21: an expression in brackets.
LEMMA BracketMakes ==
  ASSUME NEW t, NEW n \in Nat, n = Len(t), t \in Seq(Tokens),
         NEW i \in Nat, NEW j \in Nat, i > 0, j <= n,
         NEW q \in CloseStates, t[j] = yystos[q], NEW a \in Below[q],
         NEW b \in Below[a], t[i] = yystos[b], NEW rhs,
         IsExpression(t, a, rhs[2], i + 1, j - 1),
         NEW r \in Pushed[yyr1[yydefact[q]]]
  PROVE  IsExpression(t, r, Action(yydefact[q], rhs), i, j)
<1>1. /\ yydefact[q] \in {14, 21} /\ t[j] = RB /\ t[i] = LB
      /\ a \in WholeStates /\ yyr1[yydefact[q]] = yystos[a]
  BY BracketsAre
<1>2. a \in Expressions /\ r \in Pushed[yystos[a]]
  BY <1>1, PushedAre
<1>3. /\ MemberOf(r) = MemberOf(a) /\ NumberOf(r) = NumberOf(a)
      /\ MemberOf(a) = IF yystos[a] = 16 THEN "rational" ELSE "integer"
  BY <1>2, KindOf
<1>4. PICK x : x = Meaning(t)[<<i + 1, j - 1>>] /\ rhs[2] = Union(MemberOf(a), x)
  BY DEF IsExpression
<1>5. Action(yydefact[q], rhs) = Union(MemberOf(r), x)
  <2>1. PICK m : m = yydefact[q] /\ m \in {14, 21} /\ yyr1[m] = yystos[a]
    BY <1>1
  <2>2. m \notin DOMAIN BinaryRules /\ m \notin {12, 19}
    BY <2>1, BinaryRulesAre
  <2>3. PICK u : u = MemberOf(a)
    OBVIOUS
  <2>4. Member(u, rhs[2]) = x
    BY <1>4, <2>3, UnionIs
  <2>5. Action(m, rhs) = Union(u, Member(u, rhs[2]))
    BY <1>3, <2>1, <2>2, <2>3 DEF Action
  <2> QED
    BY <1>3, <2>1, <2>3, <2>4, <2>5
<1>6. Whole(t, i + 1, j - 1) /\ OfKind(t, i + 1, j - 1, NumberOf(r))
  BY <1>3 DEF IsExpression
<1>7. Whole(t, i, j) /\ i + 1 < j /\ Top(t, i, j) = {}
  BY <1>1, <1>6, Bracketed
<1>8. OfKind(t, i, j, NumberOf(r))
  <2>1. \A m : m \in i..j <=> m = i \/ m \in (i + 1)..(j - 1) \/ m = j
    BY <1>7
  <2>2. t[i] \notin {RATIONAL, INTEGER} /\ t[j] \notin {RATIONAL, INTEGER}
    BY <1>1 DEF LB, RB, RATIONAL, INTEGER
  <2> QED
    BY <1>6, <2>1, <2>2 DEF OfKind
<1>9. Meaning(t)[<<i, j>>] = x
  <2>1. Len(t) \in Nat /\ j <= Len(t)
    OBVIOUS
  <2> QED
    BY <1>1, <1>4, <1>6, <2>1, BracketMeans
<1>10. Shape(t, r, i, j)
  BY <1>7, ShapeOfNone
<1> QED
  BY <1>5, <1>7, <1>8, <1>9, <1>10 DEF IsExpression

\* Rules 7 and 15: a number.
LEMMA NumberMakes ==
  ASSUME NEW t, NEW n \in Nat, n = Len(t), t \in Seq(Tokens),
         NEW j \in Nat, j > 0, j <= n, NEW q \in {3, 4}, t[j] = yystos[q], NEW rhs,
         rhs[1] = Union(IF q = 3 THEN "rational" ELSE "integer", <<j>>),
         NEW r \in Pushed[yyr1[yydefact[q]]]
  PROVE  IsExpression(t, r, Action(yydefact[q], rhs), j, j)
<1>1. /\ yydefact[q] = IF q = 3 THEN 7 ELSE 15
      /\ yyr1[yydefact[q]] = IF q = 3 THEN 16 ELSE 17
      /\ t[j] = IF q = 3 THEN RATIONAL ELSE INTEGER
  BY NumbersAre
<1>2. /\ r \in Pushed[16] <=> q = 3
      /\ MemberOf(r) = IF q = 3 THEN "rational" ELSE "integer"
      /\ NumberOf(r) = t[j]
  <2>1. r \in Pushed[16] <=> q = 3
    BY <1>1, PushedAre
  <2> QED
    BY <1>1, <2>1 DEF MemberOf, NumberOf
<1>3. Action(yydefact[q], rhs) = Union(MemberOf(r), <<j>>)
  <2>1. PICK m : m = yydefact[q] /\ m \in {7, 15} /\ (yyr1[m] = 16 <=> q = 3)
    BY <1>1
  <2>2. m \notin DOMAIN BinaryRules /\ m \notin {12, 19} /\ m \notin {14, 21}
    BY <2>1, BinaryRulesAre
  <2>3. PICK u : u = MemberOf(r)
    OBVIOUS
  <2>4. u = IF yyr1[m] = 16 THEN "rational" ELSE "integer"
    BY <1>2, <2>1, <2>3
  <2>5. Member(u, rhs[1]) = <<j>>
    BY <1>2, <2>3, UnionIs
  <2>6. Action(m, rhs) = Union(u, Member(u, rhs[1]))
    BY <2>1, <2>2, <2>4 DEF Action
  <2> QED
    BY <2>1, <2>3, <2>5, <2>6
<1>4. t[j] \in {RATIONAL, INTEGER}
  BY <1>1
<1>5. Whole(t, j, j) /\ Top(t, j, j) = {}
  BY <1>4, NumberIs
<1>6. OfKind(t, j, j, NumberOf(r))
  <2>1. \A m : m \in j..j <=> m = j
    OBVIOUS
  <2> QED
    BY <1>2, <2>1 DEF OfKind
<1>7. Meaning(t)[<<j, j>>] = <<j>>
  <2>1. Len(t) \in Nat /\ j <= Len(t)
    OBVIOUS
  <2> QED
    BY <1>4, <2>1, NumberMeans
<1>8. Shape(t, r, j, j)
  BY <1>5, ShapeOfNone
<1> QED
  BY <1>3, <1>5, <1>6, <1>7, <1>8 DEF IsExpression

-----------------------------------------------------------------------------
(* The tokens that the entries of the stack stand for.                     *)

NumberStates == {3, 4}
LineStates == {1, 8}

\* An entry that stands for t[(b + 1)..d]: a token, lines or an expression.
Covers(t, x, b, d) ==
  /\ x.state \in LineStates => d = 0 \/ t[d] = EOL
  /\ x.state \notin Expressions \cup LineStates \cup {0} => d = b + 1 /\ t[d] = yystos[x.state]
  /\ x.state \in NumberStates =>
       x.val = Union(IF x.state = 3 THEN "rational" ELSE "integer", <<d>>)
  /\ x.state \in Expressions => IsExpression(t, x.state, x.val, b + 1, d)

\* The entries of the stack stand for the first n tokens, one behind the other:
\* the p-th one ends with the e[p]-th token.
Spanned(t, n, s, e) ==
  /\ e \in [1..Len(s) -> 0..n]
  /\ e[1] = 0 /\ e[Len(s)] = n
  /\ \A p, r \in 1..Len(s) : p <= r => e[p] <= e[r]
  /\ \A p \in 2..Len(s) : Covers(t, s[p], e[p - 1], e[p])

LEMMA EntriesAre ==
  ASSUME NEW s, IsPath(s), NEW x
  PROVE  /\ Len(s) \in Nat \ {0}
         /\ Len(Append(s, x)) = Len(s) + 1 /\ Append(s, x)[Len(s) + 1] = x
         /\ \A p \in 1..Len(s) : Append(s, x)[p] = s[p]
         /\ \A left \in 1..Len(s) :
              Len(SubSeq(s, 1, left)) = left /\ \A p \in 1..left : SubSeq(s, 1, left)[p] = s[p]
<1> DEFINE R == {s[i] : i \in DOMAIN s}
           S == R \cup {x}
<1>1. s \in Seq(S) /\ x \in S
  <2>1. s \in Seq(R)
    BY DEF IsPath, IsSequence
  <2>2. R \subseteq S /\ x \in S
    OBVIOUS
  <2> HIDE DEF R, S
  <2> QED
    BY <2>1, <2>2
<1> HIDE DEF S
<1>2. Len(s) \in Nat \ {0}
  BY PathIs
<1>3. /\ Len(Append(s, x)) = Len(s) + 1 /\ Append(s, x)[Len(s) + 1] = x
      /\ \A p \in 1..Len(s) : Append(s, x)[p] = s[p]
  BY <1>1, <1>2
<1>4. ASSUME NEW left \in 1..Len(s)
      PROVE  Len(SubSeq(s, 1, left)) = left /\ \A p \in 1..left : SubSeq(s, 1, left)[p] = s[p]
  BY <1>1, <1>2, <1>4
<1> QED
  BY <1>2, <1>3, <1>4

LEMMA SpanGrows ==
  ASSUME NEW t, NEW n \in Nat, NEW s, IsPath(s), NEW e, Spanned(t, n, s, e),
         NEW d \in Nat, n <= d, NEW x, Covers(t, x, n, d)
  PROVE  \E f : Spanned(t, d, Append(s, x), f)
<1>1. PICK m \in Nat \ {0} : m = Len(s)
  BY EntriesAre
<1>2. PICK u : u = Append(s, x) /\ Len(u) = m + 1 /\ u[m + 1] = x /\ \A p \in 1..m : u[p] = s[p]
  <2>1. /\ Len(Append(s, x)) = Len(s) + 1 /\ Append(s, x)[Len(s) + 1] = x
        /\ \A p \in 1..Len(s) : Append(s, x)[p] = s[p]
    BY EntriesAre
  <2> QED
    BY <1>1, <2>1
<1>3. /\ e \in [1..m -> 0..n] /\ e[1] = 0 /\ e[m] = n
      /\ \A p, r \in 1..m : p <= r => e[p] <= e[r]
      /\ \A p \in 2..m : Covers(t, s[p], e[p - 1], e[p])
  BY <1>1 DEF Spanned
<1> DEFINE f == [p \in 1..(m + 1) |-> IF p = m + 1 THEN d ELSE e[p]]
<1>4. /\ f[m + 1] = d /\ \A p \in 1..m : f[p] = e[p]
      /\ f \in [1..(m + 1) -> 0..d]
  <2>1. \A p \in 1..(m + 1) : p = m + 1 \/ p \in 1..m
    OBVIOUS
  <2>2. \A p \in 1..m : e[p] \in 0..d
    BY <1>3
  <2>3. d \in 0..d /\ m + 1 \in 1..(m + 1) /\ \A p \in 1..m : p # m + 1 /\ p \in 1..(m + 1)
    OBVIOUS
  <2> QED
    BY <2>1, <2>2, <2>3
<1> HIDE DEF f
<1>5. f[1] = 0 /\ f[m + 1] = d
  <2>1. 1 \in 1..m
    OBVIOUS
  <2> QED
    BY <1>3, <1>4, <2>1
<1>6. ASSUME NEW p \in 2..(m + 1)
      PROVE  Covers(t, u[p], f[p - 1], f[p])
  <2>1. CASE p = m + 1
    <3>1. p - 1 = m /\ m \in 1..m
      BY <2>1
    <3>2. f[p - 1] = n /\ f[p] = d /\ u[p] = x
      BY <1>2, <1>3, <1>4, <2>1, <3>1
    <3> QED
      BY <3>2
  <2>2. CASE p # m + 1
    <3>1. p \in 2..m /\ p \in 1..m /\ p - 1 \in 1..m
      BY <2>2
    <3>2. f[p] = e[p] /\ f[p - 1] = e[p - 1] /\ u[p] = s[p]
      BY <1>2, <1>4, <3>1
    <3> QED
      BY <1>3, <3>1, <3>2
  <2> QED
    BY <2>1, <2>2
<1>7. \A p, r \in 1..(m + 1) : p <= r => f[p] <= f[r]
  <2> TAKE p, r \in 1..(m + 1)
  <2> HAVE p <= r
  <2>1. CASE r = m + 1
    <3>1. f[p] \in 0..d /\ f[r] = d
      BY <1>4, <2>1
    <3> QED
      BY <3>1
  <2>2. CASE r # m + 1
    <3>1. p \in 1..m /\ r \in 1..m
      BY <2>2
    <3> QED
      BY <1>3, <1>4, <3>1
  <2> QED
    BY <2>1, <2>2
<1>8. Spanned(t, d, u, f)
  BY <1>2, <1>4, <1>5, <1>6, <1>7 DEF Spanned
<1> QED
  BY <1>2, <1>8

LEMMA SpanShrinks ==
  ASSUME NEW t, NEW n \in Nat, NEW s, IsPath(s), NEW e, Spanned(t, n, s, e),
         NEW left \in 1..Len(s)
  PROVE  /\ e[left] \in 0..n
         /\ \E f : Spanned(t, e[left], SubSeq(s, 1, left), f)
<1>1. PICK m \in Nat \ {0} : m = Len(s)
  BY EntriesAre
<1>2. PICK u : u = SubSeq(s, 1, left) /\ Len(u) = left /\ \A p \in 1..left : u[p] = s[p]
  <2>1. Len(SubSeq(s, 1, left)) = left /\ \A p \in 1..left : SubSeq(s, 1, left)[p] = s[p]
    BY EntriesAre
  <2> QED
    BY <2>1
<1>3. /\ e \in [1..m -> 0..n] /\ e[1] = 0 /\ left \in 1..m
      /\ \A p, r \in 1..m : p <= r => e[p] <= e[r]
      /\ \A p \in 2..m : Covers(t, s[p], e[p - 1], e[p])
  BY <1>1 DEF Spanned
<1>4. PICK d \in 0..n : d = e[left]
  BY <1>3
<1>5. \A p \in 1..left : e[p] \in 0..d
  <2> TAKE p \in 1..left
  <2>1. p \in 1..m /\ p <= left
    BY <1>3
  <2>2. e[p] <= e[left] /\ e[p] \in 0..n
    BY <1>3, <2>1
  <2> QED
    BY <1>4, <2>2
<1> DEFINE f == [p \in 1..left |-> e[p]]
<1>6. f \in [1..left -> 0..d] /\ \A p \in 1..left : f[p] = e[p]
  BY <1>5
<1> HIDE DEF f
<1>7. f[1] = 0 /\ f[left] = d
  <2>1. 1 \in 1..left /\ left \in 1..left
    OBVIOUS
  <2> QED
    BY <1>3, <1>4, <1>6, <2>1
<1>8. ASSUME NEW p \in 2..left
      PROVE  Covers(t, u[p], f[p - 1], f[p])
  <2>1. p \in 2..m /\ p \in 1..left /\ p - 1 \in 1..left
    BY <1>3
  <2>2. f[p] = e[p] /\ f[p - 1] = e[p - 1] /\ u[p] = s[p]
    BY <1>2, <1>6, <2>1
  <2> QED
    BY <1>3, <2>1, <2>2
<1>9. \A p, r \in 1..left : p <= r => f[p] <= f[r]
  <2> TAKE p, r \in 1..left
  <2> HAVE p <= r
  <2>1. p \in 1..m /\ r \in 1..m
    BY <1>3
  <2>2. e[p] <= e[r]
    BY <1>3, <2>1
  <2> QED
    BY <1>6, <2>2
<1>10. Spanned(t, d, u, f)
  BY <1>2, <1>6, <1>7, <1>8, <1>9 DEF Spanned
<1> QED
  BY <1>2, <1>4, <1>10

\* What is read later does not change what an entry stands for.
LEMMA CoversStay ==
  ASSUME NEW t, NEW n \in Nat, n = Len(t), NEW u, Len(u) \in Nat, n <= Len(u), Agree(t, u, n),
         NEW b \in 0..n, NEW d \in 0..n, NEW x, Covers(t, x, b, d)
  PROVE  Covers(u, x, b, d)
<1>1. \A k \in 1..n : u[k] = t[k]
  BY DEF Agree
<1>2. PICK i \in 1..(n + 1) : i = b + 1 /\ i \in Nat /\ i > 0
  OBVIOUS
<1>3. ASSUME x.state \in LineStates PROVE d = 0 \/ u[d] = EOL
  <2>1. d # 0 => d \in 1..n
    OBVIOUS
  <2> QED
    BY <1>1, <1>3, <2>1 DEF Covers
<1>4. ASSUME x.state \notin Expressions \cup LineStates \cup {0}
      PROVE  d = b + 1 /\ u[d] = yystos[x.state]
  <2>1. d = b + 1 /\ t[d] = yystos[x.state]
    BY <1>4 DEF Covers
  <2>2. d \in 1..n
    BY <2>1
  <2> QED
    BY <1>1, <2>1, <2>2
<1>5. ASSUME IsExpression(t, x.state, x.val, i, d)
      PROVE  IsExpression(u, x.state, x.val, i, d)
  <2>1. /\ Top(u, i, d) = Top(t, i, d) /\ Signs(u, i, d) = Signs(t, i, d)
        /\ Sums(u, i, d) = Sums(t, i, d) /\ Products(u, i, d) = Products(t, i, d)
        /\ Whole(t, i, d) => Whole(u, i, d)
    BY <1>2, SetsStay
  <2>2. Meaning(u)[<<i, d>>] = Meaning(t)[<<i, d>>]
    BY MeaningStays
  <2>3. PICK num : num = NumberOf(x.state)
    OBVIOUS
  <2>4. OfKind(u, i, d, num)
    <3>1. OfKind(t, i, d, num)
      BY <1>5, <2>3 DEF IsExpression
    <3>2. \A k \in i..d : u[k] = t[k]
      BY <1>1, <1>2
    <3> QED
      BY <3>1, <3>2 DEF OfKind
  <2>5. PICK q : q = x.state
    OBVIOUS
  <2>6. Shape(t, q, i, d)
    BY <1>5, <2>5 DEF IsExpression
  <2>7. Shape(u, q, i, d)
    <3>1. CASE d = n
      <4>1. Top(u, i, d) = {}
        BY <2>1, <2>6, <3>1 DEF Shape
      <4> QED
        BY <4>1, ShapeOfNone
    <3>2. CASE d < n
      <4>1. d < Len(u) /\ d # Len(u) /\ d + 1 \in 1..n
        BY <3>2
      <4>2. u[d + 1] = t[d + 1] /\ d < Len(t)
        BY <1>1, <3>2, <4>1
      <4> QED
        BY <2>1, <2>6, <4>1, <4>2 DEF Shape
    <3>3. d = n \/ d < n
      OBVIOUS
    <3> QED
      BY <3>1, <3>2, <3>3
  <2> QED
    BY <1>5, <2>1, <2>2, <2>3, <2>4, <2>5, <2>7 DEF IsExpression
<1> QED
  BY <1>2, <1>3, <1>4, <1>5 DEF Covers

LEMMA SpanStays ==
  ASSUME NEW t, Len(t) \in Nat, NEW u, Len(u) \in Nat, Len(t) <= Len(u), Agree(t, u, Len(t)),
         NEW n \in 0..Len(t), NEW s, NEW e, Spanned(t, n, s, e)
  PROVE  Spanned(u, n, s, e)
<1>1. /\ e \in [1..Len(s) -> 0..n]
      /\ e[1] = 0 /\ e[Len(s)] = n
      /\ \A p, r \in 1..Len(s) : p <= r => e[p] <= e[r]
      /\ \A p \in 2..Len(s) : Covers(t, s[p], e[p - 1], e[p])
  BY DEF Spanned
<1>2. ASSUME NEW p \in 2..Len(s) PROVE Covers(u, s[p], e[p - 1], e[p])
  <2>1. p \in 1..Len(s) /\ p - 1 \in 1..Len(s)
    OBVIOUS
  <2>2. e[p - 1] \in 0..Len(t) /\ e[p] \in 0..Len(t)
    BY <1>1, <2>1
  <2> QED
    BY <1>1, <2>2, CoversStay
<1> QED
  BY <1>1, <1>2 DEF Spanned

\* A token is shifted.
LEMMA SpanShifts ==
  ASSUME NEW t, Len(t) \in Nat, NEW n \in Nat, n + 1 = Len(t), NEW s, IsPath(s), NEW e,
         Spanned(t, n, s, e), NEW p \in YYSTATES, yypact[p] # YYPACT_NINF, NEW x,
         x.state = Packed(yypact[p], t[n + 1]), x.state > 0,
         t[n + 1] = RATIONAL => x.val = Union("rational", <<n + 1>>),
         t[n + 1] = INTEGER => x.val = Union("integer", <<n + 1>>)
  PROVE  \E f : Spanned(t, n + 1, Append(s, x), f)
<1>1. yystos[x.state] = t[n + 1] /\ x.state \notin Expressions \cup {0, 1, 8}
  <2>1. PICK tok : tok = t[n + 1] /\ x.state = Packed(yypact[p], tok)
    OBVIOUS
  <2>2. Packed(yypact[p], tok) > 0
    BY <2>1
  <2>3. /\ yystos[Packed(yypact[p], tok)] = tok
        /\ Packed(yypact[p], tok) \notin Expressions \cup {0, 1, 8}
    BY <2>2, ShiftedSymbol
  <2> QED
    BY <2>1, <2>3
<1>2. x.state \in NumberStates =>
        x.val = Union(IF x.state = 3 THEN "rational" ELSE "integer", <<n + 1>>)
  BY <1>1, NumbersAre DEF NumberStates
<1>3. Covers(t, x, n, n + 1)
  BY <1>1, <1>2 DEF Covers, LineStates
<1>4. n + 1 \in Nat /\ n <= n + 1
  OBVIOUS
<1> QED
  BY <1>3, <1>4, SpanGrows

LEMMA TokenStates ==
  /\ \A o \in YYSTATES : yystos[o] \in 3..12 => o \notin Expressions \cup LineStates \cup {0}
  /\ \A o \in Expressions : o \notin NumberStates \cup LineStates \cup {0}
  /\ CloseStates \subseteq YYSTATES /\ \A o \in CloseStates : o \notin Expressions
<1>1. \A o \in YYSTATES : yystos[o] \in 3..12 => o \notin LineStates \cup {0}
  BY SMTT(60) DEF yystos, Array, YYSTATES, LineStates
<1>2. \A o \in Expressions : yystos[o] \in {16, 17}
  BY PushedAre
<1>3. \A k \in {16, 17} : k \notin 3..12
  OBVIOUS
<1>4. Expressions = WholeStates \cup NegStates \cup BinaryStates
  BY PushedAre
<1>5. \A o \in Expressions : o \notin NumberStates \cup LineStates \cup {0} \cup CloseStates
  BY <1>4 DEF WholeStates, NegStates, BinaryStates, SumStates, ProductStates, PowerStates,
     NumberStates, LineStates, CloseStates
<1>6. CloseStates \subseteq YYSTATES
  BY DEF CloseStates, YYSTATES
<1> QED
  BY <1>1, <1>2, <1>3, <1>5, <1>6

LEMMA CoversExpression ==
  ASSUME NEW t, NEW x, x.state \in Expressions, NEW b, NEW d,
         IsExpression(t, x.state, x.val, b + 1, d)
  PROVE  Covers(t, x, b, d)
BY TokenStates DEF Covers

\* The values of the right-hand side that lies on the first entries.
RightHand(s, left, length, rhs) == \A i \in 1..length : rhs[i] = s[left + i].val

\* A rule is reduced by.
LEMMA SpanReduces ==
  ASSUME NEW t, t \in Seq(Tokens), NEW n \in Nat, n <= Len(t), NEW s, IsPath(s), NEW e,
         Spanned(t, n, s, e), NEW q, q = Last(s).state, q # YYFINAL, yydefact[q] # 0,
         Lookahead(t, q, n), NEW left, left = Len(s) - yyr2[yydefact[q]],
         NEW rhs, RightHand(s, left, yyr2[yydefact[q]], rhs),
         NEW x, x.state = Goto(s[left].state, yyr1[yydefact[q]]),
         x.val = Action(yydefact[q], rhs)
  PROVE  \E f : Spanned(t, n, Append(SubSeq(s, 1, left), x), f)
<1>1. PICK m \in Nat \ {0} : m = Len(s)
  BY EntriesAre
<1>2. q = s[m].state /\ q \in YYSTATES
  <2>1. q = s[m].state
    BY <1>1, PathIs
  <2> QED
    BY <1>1, <2>1 DEF IsPath
<1>3. /\ e \in [1..m -> 0..n] /\ e[1] = 0 /\ e[m] = n
      /\ \A p \in 2..m : Covers(t, s[p], e[p - 1], e[p])
  BY <1>1 DEF Spanned
<1>4. /\ yydefact[q] \in 1..21 /\ yydefact[q] # 1
      /\ left \in 1..m /\ s[left].state \in Places[yyr1[yydefact[q]]]
  BY <1>1, ReduceFits
<1>5. x.state \in Pushed[yyr1[yydefact[q]]]
  <2>1. yyr1[yydefact[q]] \in 14..17
    BY <1>4, TableValues
  <2> QED
    BY <1>4, <2>1, GotosAre
<1>6. \A p \in 2..m : s[p - 1].state \in Below[s[p].state]
  BY <1>1 DEF IsPath
<1>7. PICK len : len = Len(t) /\ len \in Nat /\ n <= len
  OBVIOUS
<1>8. ASSUME NEW d \in 0..n, d = e[left], Covers(t, x, d, n)
      PROVE  \E f : Spanned(t, n, Append(SubSeq(s, 1, left), x), f)
  <2>1. PICK rest : rest = SubSeq(s, 1, left) /\ IsPath(rest)
    BY <1>1, <1>4, PopKeepsPath
  <2>2. PICK f : Spanned(t, d, rest, f)
    BY <1>1, <1>4, <1>8, <2>1, SpanShrinks
  <2> QED
    BY <1>8, <2>1, <2>2, SpanGrows
<1>9. \A p \in 1..m : e[p] \in 0..n
  BY <1>3
<1>10. CASE q \in BinaryStates
  <2>1. /\ yyr2[yydefact[q]] = 3 /\ yyr1[yydefact[q]] = yystos[q]
        /\ \A o \in Below[q] :
             BinaryRules[yydefact[q]] = yystos[o] /\ Below[o] \subseteq Pushed[yystos[q]]
        /\ yydefact[q] \in DOMAIN BinaryRules
    BY <1>10, BinaryAre
  <2>2. left = m - 3 /\ m - 3 \in 1..m /\ m \in 2..m /\ m - 1 \in 2..m /\ m - 2 \in 2..m
    BY <1>1, <1>4, <2>1
  <2>3. PICK o : o = s[m - 1].state /\ o \in Below[q] /\ o \in YYSTATES
    <3>1. s[m - 1].state \in Below[q]
      BY <1>2, <1>6, <2>2
    <3>2. s[m - 1].state \in YYSTATES
      BY <1>1, <2>2 DEF IsPath
    <3> QED
      BY <3>1, <3>2
  <2>4. PICK a : a = s[m - 2].state /\ a \in Below[o] /\ a \in Pushed[yystos[q]]
    <3>1. (m - 1) - 1 = m - 2
      OBVIOUS
    <3>2. s[m - 2].state \in Below[o]
      BY <1>6, <2>2, <2>3, <3>1
    <3> QED
      BY <2>1, <2>3, <3>2
  <2>5. q \in Expressions /\ a \in Expressions /\ yystos[a] = yystos[q]
    BY <1>10, <2>4, PushedAre, KindOf
  <2>6. x.state = a
    <3>1. (m - 2) - 1 = m - 3
      OBVIOUS
    <3>2. s[left].state \in Below[a]
      BY <1>6, <2>2, <2>4, <3>1
    <3> QED
      BY <2>1, <2>5, <3>2, GotoAgain
  <2>7. PICK k \in 0..n, d \in 0..n, c \in 0..n : k = e[m - 1] /\ d = e[left] /\ c = e[m - 2]
    <3>1. m - 1 \in 1..m /\ left \in 1..m /\ m - 2 \in 1..m
      BY <2>2
    <3>2. e[m - 1] \in 0..n /\ e[left] \in 0..n /\ e[m - 2] \in 0..n
      BY <1>9, <3>1
    <3> QED
      BY <3>2
  <2>8. IsExpression(t, q, s[m].val, k + 1, n)
    <3>1. Covers(t, s[m], k, n)
      BY <1>3, <2>2, <2>7
    <3> QED
      BY <1>2, <2>5, <3>1 DEF Covers
  <2>9. k = c + 1 /\ t[k] = yystos[o]
    <3>1. Covers(t, s[m - 1], c, k)
      <4>1. (m - 1) - 1 = m - 2
        OBVIOUS
      <4> QED
        BY <1>3, <2>2, <2>7, <4>1
    <3>2. o \notin Expressions \cup LineStates \cup {0}
      <4>1. yystos[o] \in {PLUS, MINUS, MULT, DIV, EXPON}
        <5>1. \A z \in DOMAIN BinaryRules : BinaryRules[z] \in {PLUS, MINUS, MULT, DIV, EXPON}
          BY BinaryRulesAre
        <5> QED
          BY <2>1, <2>3, <5>1
      <4>2. yystos[o] \in 3..12
        BY <4>1 DEF PLUS, MINUS, MULT, DIV, EXPON
      <4> QED
        BY <2>3, <4>2, TokenStates
    <3> QED
      BY <2>3, <3>1, <3>2 DEF Covers
  <2>10. IsExpression(t, a, s[m - 2].val, d + 1, c)
    <3>1. Covers(t, s[m - 2], d, c)
      <4>1. (m - 2) - 1 = left
        BY <2>2
      <4> QED
        BY <1>3, <2>2, <2>7, <4>1
    <3> QED
      BY <2>4, <2>5, <3>1 DEF Covers
  <2>11. rhs[1] = s[m - 2].val /\ rhs[3] = s[m].val
    <3>1. 1 \in 1..3 /\ 3 \in 1..3
      OBVIOUS
    <3>2. left + 1 = m - 2 /\ left + 3 = m
      <4>1. left = m - 3
        BY <2>2
      <4> QED
        BY <1>1, <4>1
    <3> QED
      BY <2>1, <3>1, <3>2 DEF RightHand
  <2>12. PICK i \in Nat : i = d + 1 /\ i > 0
    OBVIOUS
  <2>13. c = k - 1 /\ k \in Nat
    BY <2>9
  <2>14. IsExpression(t, a, rhs[1], i, k - 1) /\ IsExpression(t, q, rhs[3], k + 1, n)
    BY <2>8, <2>10, <2>11, <2>12, <2>13
  <2>15. IsExpression(t, a, Action(yydefact[q], rhs), i, n)
    BY <1>7, <1>10, <2>3, <2>4, <2>9, <2>12, <2>13, <2>14, BinaryMakes
  <2>16. Covers(t, x, d, n)
    BY <2>5, <2>6, <2>12, <2>15, CoversExpression
  <2> QED
    BY <1>8, <2>7, <2>16
<1>11. CASE q \in NegStates
  <2>1. /\ yydefact[q] \in {12, 19} /\ yyr2[yydefact[q]] = 2 /\ yyr1[yydefact[q]] = yystos[q]
        /\ \A a \in Below[q] : yystos[a] = MINUS
    BY <1>11, NegationsAre
  <2>2. left = m - 2 /\ m - 2 \in 1..m /\ m \in 2..m /\ m - 1 \in 2..m
    BY <1>1, <1>4, <2>1
  <2>3. PICK a : a = s[m - 1].state /\ a \in Below[q] /\ a \in YYSTATES
    <3>1. s[m - 1].state \in Below[q]
      BY <1>2, <1>6, <2>2
    <3>2. s[m - 1].state \in YYSTATES
      BY <1>1, <2>2 DEF IsPath
    <3> QED
      BY <3>1, <3>2
  <2>4. q \in Expressions /\ x.state \in Pushed[yystos[q]] /\ x.state \in Expressions
    <3>1. q \in Expressions /\ x.state \in Pushed[yystos[q]]
      BY <1>5, <1>11, <2>1, PushedAre
    <3> QED
      BY <3>1, KindOf
  <2>5. PICK i \in 0..n, d \in 0..n : i = e[m - 1] /\ d = e[left]
    BY <1>9, <2>2
  <2>6. IsExpression(t, q, s[m].val, i + 1, n)
    <3>1. Covers(t, s[m], i, n)
      BY <1>3, <2>2, <2>5
    <3> QED
      BY <1>2, <2>4, <3>1 DEF Covers
  <2>7. i = d + 1 /\ t[i] = yystos[a]
    <3>1. Covers(t, s[m - 1], d, i)
      <4>1. (m - 1) - 1 = left
        BY <2>2
      <4> QED
        BY <1>3, <2>2, <2>5, <4>1
    <3>2. a \notin Expressions \cup LineStates \cup {0}
      <4>1. yystos[a] \in 3..12
        BY <2>1, <2>3 DEF MINUS
      <4> QED
        BY <2>3, <4>1, TokenStates
    <3> QED
      BY <2>3, <3>1, <3>2 DEF Covers
  <2>8. rhs[2] = s[m].val
    <3>1. 2 \in 1..2 /\ left + 2 = m
      BY <2>2
    <3> QED
      BY <2>1, <3>1 DEF RightHand
  <2>9. i \in Nat /\ i > 0
    BY <2>7
  <2>10. IsExpression(t, x.state, Action(yydefact[q], rhs), i, n)
    BY <1>5, <1>7, <1>11, <2>3, <2>6, <2>7, <2>8, <2>9, SignMakes
  <2>11. Covers(t, x, d, n)
    BY <2>4, <2>7, <2>10, CoversExpression
  <2> QED
    BY <1>8, <2>5, <2>11
<1>12. CASE q \in CloseStates
  <2>1. /\ yydefact[q] \in {14, 21} /\ yyr2[yydefact[q]] = 3 /\ yystos[q] = RB
        /\ \A a \in Below[q] :
             /\ a \in WholeStates /\ yyr1[yydefact[q]] = yystos[a]
             /\ \A b \in Below[a] : yystos[b] = LB
    BY <1>12, BracketsAre
  <2>2. left = m - 3 /\ m - 3 \in 1..m /\ m \in 2..m /\ m - 1 \in 2..m /\ m - 2 \in 2..m
    BY <1>1, <1>4, <2>1
  <2>3. PICK a : a = s[m - 1].state /\ a \in Below[q] /\ a \in Expressions
    <3>1. s[m - 1].state \in Below[q]
      BY <1>2, <1>6, <2>2
    <3> QED
      BY <2>1, <3>1, PushedAre
  <2>4. PICK b : b = s[m - 2].state /\ b \in Below[a] /\ b \in YYSTATES
    <3>1. (m - 1) - 1 = m - 2
      OBVIOUS
    <3>2. s[m - 2].state \in Below[a]
      BY <1>6, <2>2, <2>3, <3>1
    <3>3. s[m - 2].state \in YYSTATES
      BY <1>1, <2>2 DEF IsPath
    <3> QED
      BY <3>2, <3>3
  <2>5. x.state \in Expressions
    <3>1. x.state \in Pushed[yystos[a]]
      BY <1>5, <2>1, <2>3
    <3> QED
      BY <2>3, <3>1, KindOf
  <2>6. PICK k \in 0..n, d \in 0..n, i \in 0..n : k = e[m - 1] /\ d = e[left] /\ i = e[m - 2]
    <3>1. m - 1 \in 1..m /\ left \in 1..m /\ m - 2 \in 1..m
      BY <2>2
    <3>2. e[m - 1] \in 0..n /\ e[left] \in 0..n /\ e[m - 2] \in 0..n
      BY <1>9, <3>1
    <3> QED
      BY <3>2
  <2>7. n = k + 1 /\ t[n] = yystos[q]
    <3>1. Covers(t, s[m], k, n)
      BY <1>3, <2>2, <2>6
    <3>2. q \notin Expressions \cup LineStates \cup {0}
      <4>1. yystos[q] \in 3..12
        BY <2>1 DEF RB
      <4> QED
        BY <1>2, <4>1, TokenStates
    <3> QED
      BY <1>2, <3>1, <3>2 DEF Covers
  <2>8. IsExpression(t, a, s[m - 1].val, i + 1, k)
    <3>1. Covers(t, s[m - 1], i, k)
      <4>1. (m - 1) - 1 = m - 2
        OBVIOUS
      <4> QED
        BY <1>3, <2>2, <2>6, <4>1
    <3> QED
      BY <2>3, <3>1 DEF Covers
  <2>9. i = d + 1 /\ t[i] = yystos[b]
    <3>1. Covers(t, s[m - 2], d, i)
      <4>1. (m - 2) - 1 = left
        BY <2>2
      <4> QED
        BY <1>3, <2>2, <2>6, <4>1
    <3>2. b \notin Expressions \cup LineStates \cup {0}
      <4>1. yystos[b] \in 3..12
        BY <2>1, <2>3, <2>4 DEF LB
      <4> QED
        BY <2>4, <4>1, TokenStates
    <3> QED
      BY <2>4, <3>1, <3>2 DEF Covers
  <2>10. rhs[2] = s[m - 1].val
    <3>1. 2 \in 1..3 /\ left + 2 = m - 1
      BY <2>2
    <3> QED
      BY <2>1, <3>1 DEF RightHand
  <2>11. i \in Nat /\ i > 0 /\ n - 1 = k
    BY <2>7, <2>9
  <2>12. IsExpression(t, a, rhs[2], i + 1, n - 1)
    BY <2>8, <2>10, <2>11
  <2>13. IsExpression(t, x.state, Action(yydefact[q], rhs), i, n)
    BY <1>5, <1>7, <1>12, <2>3, <2>4, <2>7, <2>9, <2>11, <2>12, BracketMakes
  <2>14. Covers(t, x, d, n)
    BY <2>5, <2>9, <2>13, CoversExpression
  <2> QED
    BY <1>8, <2>6, <2>14
<1>13. CASE q \in {3, 4}
  <2>1. /\ yyr2[yydefact[q]] = 1 /\ yyr1[yydefact[q]] \in {16, 17} /\ yystos[q] \in 3..12
    BY <1>13, NumbersAre DEF RATIONAL, INTEGER
  <2>2. left = m - 1 /\ m - 1 \in 1..m /\ m \in 2..m
    BY <1>1, <1>4, <2>1
  <2>3. x.state \in Expressions
    BY <1>5, <2>1 DEF Expressions
  <2>4. PICK d \in 0..n : d = e[left]
    BY <1>9, <2>2
  <2>5. /\ n = d + 1 /\ t[n] = yystos[q]
        /\ s[m].val = Union(IF q = 3 THEN "rational" ELSE "integer", <<n>>)
    <3>1. Covers(t, s[m], d, n)
      BY <1>3, <2>2, <2>4
    <3>2. q \notin Expressions \cup LineStates \cup {0}
      BY <1>2, <2>1, TokenStates
    <3>3. q \in NumberStates
      BY <1>13 DEF NumberStates
    <3> QED
      BY <1>2, <3>1, <3>2, <3>3 DEF Covers
  <2>6. rhs[1] = Union(IF q = 3 THEN "rational" ELSE "integer", <<n>>)
    <3>1. 1 \in 1..1 /\ left + 1 = m
      BY <2>2
    <3> QED
      BY <2>1, <2>5, <3>1 DEF RightHand
  <2>7. n > 0
    BY <2>5
  <2>8. IsExpression(t, x.state, Action(yydefact[q], rhs), n, n)
    BY <1>5, <1>7, <1>13, <2>5, <2>6, <2>7, NumberMakes
  <2>9. Covers(t, x, d, n)
    BY <2>3, <2>5, <2>8, CoversExpression
  <2> QED
    BY <1>8, <2>4, <2>9
<1>14. CASE q \in {0, 6, 8, 20, 25}
  <2>1. n = 0 \/ t[n] = EOL
    <3>1. CASE q = 0
      <4>1. Below[q] = {}
        BY <3>1, LinesAre
      <4>2. m \notin 2..m
        BY <1>2, <1>6, <4>1
      <4> QED
        BY <1>3, <4>2
    <3>2. CASE q # 0
      <4>1. m # 1
        BY <1>1, <1>2, <3>2 DEF IsPath
      <4>2. Covers(t, s[m], e[m - 1], n)
        BY <1>3, <4>1
      <4>3. CASE q = 8
        BY <1>2, <4>2, <4>3 DEF Covers, LineStates
      <4>4. CASE q # 8
        <5>1. yystos[q] = EOL
          BY <1>14, <3>2, <4>4, LinesAre
        <5>2. q \notin Expressions \cup LineStates \cup {0}
          <6>1. yystos[q] \in 3..12
            BY <5>1 DEF EOL
          <6> QED
            BY <1>2, <6>1, TokenStates
        <5> QED
          BY <1>2, <4>2, <5>1, <5>2 DEF Covers
      <4> QED
        BY <4>3, <4>4
    <3> QED
      BY <3>1, <3>2
  <2>2. x.state \in LineStates
    <3>1. yyr1[yydefact[q]] \in {14, 15}
      BY <1>14, LinesAre
    <3> QED
      BY <1>5, <3>1, PushedAre DEF LineStates
  <2>3. PICK d \in 0..n : d = e[left]
    BY <1>4, <1>9
  <2>4. Covers(t, x, d, n)
    <3>1. x.state \notin Expressions /\ x.state \notin NumberStates
      <4>1. x.state \notin Expressions
        BY <2>2, TokenStates
      <4> QED
        BY <2>2, <4>1 DEF LineStates, NumberStates
    <3> QED
      BY <2>1, <2>2, <3>1 DEF Covers
  <2> QED
    BY <1>8, <2>3, <2>4
<1> QED
  BY <1>2, <1>10, <1>11, <1>12, <1>13, <1>14, ReducingStates

-----------------------------------------------------------------------------
(* The answers, and the lines they are the values of.                      *)

RankIn(pr, i) == Cardinality({a \in AnsweredIn(pr) : a <= i})

\* AnswersAsWritten, of the tokens t read and the prints pr.
AnswerTo(t, k, rank, a) ==
  /\ Cardinality(AskedIn(t, k)) = rank
  /\ a = ValueOf(t, LineBegins(t, k), k - 1)

AnswersIn(t, n, pr) ==
  \A i \in AnsweredIn(pr) : \E k \in AskedIn(t, n) : AnswerTo(t, k, RankIn(pr, i), pr[i])

LEMMA AnswersAreIn ==
  ASSUME NEW t \in Seq(Tokens), t = read, AnswersIn(t, Len(t), printed)
  PROVE  AnswersAsWritten
<1>1. PICK n \in Nat : n = Len(t) /\ DOMAIN t = 1..n
  OBVIOUS
<1>2. Answered = AnsweredIn(printed)
  BY DEF Answered, AnsweredIn, IsMessage
<1>3. Asked = AskedIn(t, n)
  BY <1>1 DEF Asked, AskedIn
<1>4. \A k \in 1..n : {e \in Asked : e <= k} = AskedIn(t, k)
  BY <1>1, <1>3 DEF AskedIn
<1>5. \A k \in AskedIn(t, n) : k \in 1..n
  BY DEF AskedIn
<1> QED
  BY <1>1, <1>2, <1>3, <1>4, <1>5 DEF AnswersIn, AnswerTo, AnswersAsWritten, RankIn

\* What is read later does not change the value of a line.
LEMMA AnswersStay ==
  ASSUME NEW t, NEW n \in Nat, n = Len(t), NEW u, Len(u) \in Nat, n <= Len(u), Agree(t, u, n),
         NEW m \in Nat, n <= m, NEW pr, AnswersIn(t, n, pr)
  PROVE  AnswersIn(u, m, pr)
<1>1. \A k \in 1..n : u[k] = t[k]
  BY DEF Agree
<1>2. ASSUME NEW k \in 1..n
      PROVE  LineBegins(u, k) = LineBegins(t, k) /\ LineBegins(t, k) \in 1..k
  <2>1. PICK j \in Nat : j = k - 1 /\ j + 1 = k
    OBVIOUS
  <2>2. \A i \in 1..j : u[i] = t[i]
    BY <1>1, <2>1
  <2>3. Begins(u, j) = Begins(t, j) /\ Begins(t, j) \in 1..(j + 1)
    BY <2>2, PlaceStays, BeginsIs
  <2> QED
    BY <2>1, <2>3 DEF Begins
<1>3. \A k \in 1..n : AskedIn(u, k) = AskedIn(t, k)
  <2> TAKE k \in 1..n
  <2>1. \A i \in 1..k : i \in 1..n
    OBVIOUS
  <2> QED
    BY <1>1, <1>2, <2>1 DEF AskedIn
<1>4. ASSUME NEW k \in 1..n
      PROVE  ValueOf(u, LineBegins(u, k), k - 1) = ValueOf(t, LineBegins(t, k), k - 1)
  <2>1. PICK i \in 1..(n + 1) : i = LineBegins(t, k)
    BY <1>2
  <2>2. PICK j \in 0..n : j = k - 1
    OBVIOUS
  <2>3. Meaning(u)[<<i, j>>] = Meaning(t)[<<i, j>>]
    BY MeaningStays
  <2>4. \A x \in i..j : u[x] = t[x]
    BY <1>1
  <2>5. (\E x \in i..j : u[x] = RATIONAL) <=> (\E x \in i..j : t[x] = RATIONAL)
    BY <2>4
  <2>6. ValueOf(u, i, j) = ValueOf(t, i, j)
    BY <2>3, <2>5, Zenon DEF ValueOf
  <2> QED
    BY <1>2, <2>1, <2>2, <2>6
<1>5. ASSUME NEW k \in AskedIn(t, n) PROVE k \in AskedIn(u, m) /\ k \in 1..n
  <2>1. k \in 1..n /\ k \in 1..m
    BY <1>5 DEF AskedIn
  <2> QED
    BY <1>1, <1>2, <1>5, <2>1 DEF AskedIn
<1> QED
  BY <1>3, <1>4, <1>5 DEF AnswersIn, AnswerTo

\* One more line is printed: it is no answer, or the next one.
LEMMA AnswersGrow ==
  ASSUME NEW t, NEW n \in Nat, NEW pr, IsSequence(pr), AnswersIn(t, n, pr), NEW a,
         ~IsMessage(a) => \E k \in AskedIn(t, n) :
                            AnswerTo(t, k, Cardinality(AnsweredIn(pr)) + 1, a)
  PROVE  AnswersIn(t, n, Append(pr, a))
<1> DEFINE R == {pr[i] : i \in DOMAIN pr}
           S == R \cup {a}
<1>1. pr \in Seq(S) /\ a \in S
  <2>1. pr \in Seq(R)
    BY DEF IsSequence
  <2>2. R \subseteq S /\ a \in S
    OBVIOUS
  <2> HIDE DEF R, S
  <2> QED
    BY <2>1, <2>2
<1> HIDE DEF S
<1>2. PICK m \in Nat : m = Len(pr) /\ DOMAIN pr = 1..m
  BY PrintedIs
<1>3. PICK u : /\ u = Append(pr, a) /\ DOMAIN u = 1..(m + 1) /\ u[m + 1] = a
               /\ \A i \in 1..m : u[i] = pr[i]
  <2>1. /\ DOMAIN Append(pr, a) = 1..(Len(pr) + 1) /\ Append(pr, a)[Len(pr) + 1] = a
        /\ \A i \in 1..Len(pr) : Append(pr, a)[i] = pr[i]
    BY <1>1
  <2> QED
    BY <1>2, <2>1
<1>4. IsFiniteSet(AnsweredIn(pr)) /\ Cardinality(AnsweredIn(pr)) \in Nat
  BY PrintedIs
<1>5. \A i : i \in AnsweredIn(u) <=> i \in AnsweredIn(pr) \/ (i = m + 1 /\ ~IsMessage(a))
  BY <1>2, <1>3 DEF AnsweredIn
<1>6. \A i \in AnsweredIn(pr) : i \in 1..m
  BY <1>2 DEF AnsweredIn
<1>7. ASSUME NEW i \in AnsweredIn(pr) PROVE RankIn(u, i) = RankIn(pr, i) /\ u[i] = pr[i]
  <2>1. i \in 1..m /\ ~(m + 1 <= i)
    BY <1>6
  <2>2. {x \in AnsweredIn(u) : x <= i} = {x \in AnsweredIn(pr) : x <= i}
    BY <1>5, <2>1
  <2> QED
    BY <1>3, <2>1, <2>2 DEF RankIn
<1>8. ASSUME ~IsMessage(a) PROVE RankIn(u, m + 1) = Cardinality(AnsweredIn(pr)) + 1
  <2>1. \A x \in AnsweredIn(pr) : x <= m + 1
    BY <1>6
  <2>2. {x \in AnsweredIn(u) : x <= m + 1} = AnsweredIn(pr) \cup {m + 1}
    <3>1. m + 1 <= m + 1
      OBVIOUS
    <3> QED
      BY <1>5, <1>8, <2>1, <3>1
  <2>3. m + 1 \notin AnsweredIn(pr)
    BY <1>6
  <2>4. Cardinality(AnsweredIn(pr) \cup {m + 1}) = Cardinality(AnsweredIn(pr)) + 1
    BY <1>4, <2>3, FS_AddElement
  <2> QED
    BY <2>2, <2>4 DEF RankIn
<1>9. ASSUME NEW i \in AnsweredIn(u)
      PROVE  \E k \in AskedIn(t, n) : AnswerTo(t, k, RankIn(u, i), u[i])
  <2>1. CASE i \in AnsweredIn(pr)
    BY <1>7, <2>1 DEF AnswersIn
  <2>2. CASE i = m + 1 /\ ~IsMessage(a)
    BY <1>3, <1>8, <2>2
  <2> QED
    BY <1>5, <1>9, <2>1, <2>2
<1> QED
  BY <1>3, <1>9 DEF AnswersIn

\* The line whose end has been shifted, and the value of the expression in it.
LEMMA LineMeans ==
  ASSUME NEW t, t \in Seq(Tokens), NEW n \in Nat, n <= Len(t), NEW s, IsPath(s), NEW e,
         Spanned(t, n, s, e), NEW q, q = Last(s).state, q \in Ends,
         NEW left, left = Len(s) - 2
  PROVE  /\ left + 1 \in 1..Len(s)
         /\ n \in AskedIn(t, n)
         /\ s[left + 1].val = ValueOf(t, LineBegins(t, n), n - 1)
         /\ s[left + 1].val.member = IF q = 20 THEN "rational" ELSE "integer"
<1>1. PICK m \in Nat \ {0} : m = Len(s)
  BY EntriesAre
<1>2. q = s[m].state /\ s[1].state = 0
  BY <1>1, PathIs DEF IsPath
<1>3. /\ e \in [1..m -> 0..n] /\ e[1] = 0 /\ e[m] = n
      /\ \A p \in 2..m : Covers(t, s[p], e[p - 1], e[p])
  BY <1>1 DEF Spanned
<1>4. \A p \in 2..m : s[p - 1].state \in Below[s[p].state]
  BY <1>1 DEF IsPath
<1>5. m \in 2..m
  <2>1. m # 1
    BY <1>2 DEF Ends
  <2> QED
    BY <2>1
<1>6. PICK a : a = s[m - 1].state /\ a = (IF q = 20 THEN 9 ELSE 10)
  <2>1. s[m - 1].state \in Below[q]
    BY <1>2, <1>4, <1>5
  <2> QED
    BY <2>1, LinesAre DEF Ends
<1>7. a \in Expressions /\ (a \in Pushed[16] <=> q = 20)
  <2>1. CASE q = 20
    BY <1>6, <2>1, PushedAre DEF Expressions
  <2>2. CASE q # 20
    BY <1>6, <2>2, PushedAre DEF Expressions
  <2> QED
    BY <2>1, <2>2
<1>8. m - 1 \in 2..m /\ (m - 1) - 1 = m - 2
  <2>1. m - 1 # 1
    <3>1. s[m - 1].state # 0
      BY <1>6
    <3> QED
      BY <1>2, <3>1
  <2> QED
    BY <1>5, <2>1
<1>9. s[m - 2].state = 1
  <2>1. s[m - 2].state \in Below[a]
    BY <1>4, <1>6, <1>8
  <2> QED
    BY <1>6, <2>1, LinesAre
<1>10. m - 2 \in 2..m
  <2>1. m - 2 # 1
    BY <1>2, <1>9
  <2> QED
    BY <1>8, <2>1
<1>11. PICK b \in 0..n, c \in 0..n : b = e[m - 2] /\ c = e[m - 1]
  <2>1. m - 1 \in 1..m /\ m - 2 \in 1..m
    BY <1>8, <1>10
  <2>2. e[m - 2] \in 0..n /\ e[m - 1] \in 0..n
    BY <1>3, <2>1
  <2> QED
    BY <2>2
<1>12. b = 0 \/ t[b] = EOL
  <2>1. Covers(t, s[m - 2], e[(m - 2) - 1], b)
    BY <1>3, <1>10, <1>11
  <2> QED
    BY <1>9, <2>1 DEF Covers, LineStates
<1>13. IsExpression(t, a, s[m - 1].val, b + 1, c)
  <2>1. Covers(t, s[m - 1], b, c)
    BY <1>3, <1>8, <1>11
  <2> QED
    BY <1>6, <1>7, <2>1 DEF Covers
<1>14. n = c + 1 /\ t[n] = EOL
  <2>1. Covers(t, s[m], c, n)
    BY <1>3, <1>5, <1>11
  <2>2. yystos[q] = EOL /\ q \in YYSTATES
    BY LinesAre DEF Ends, YYSTATES
  <2>3. q \notin Expressions \cup LineStates \cup {0}
    <3>1. yystos[q] \in 3..12
      BY <2>2 DEF EOL
    <3> QED
      BY <2>2, <3>1, TokenStates
  <2> QED
    BY <1>2, <2>1, <2>2, <2>3 DEF Covers
<1>15. /\ b + 1 <= c /\ \A k \in (b + 1)..c : t[k] # EOL
  BY <1>13 DEF IsExpression, Whole
<1>16. LineBegins(t, n) = b + 1
  <2>1. PICK i \in 1..(c + 1) : i = b + 1
    BY <1>11, <1>15
  <2>2. \A k \in 1..c : t[k] = EOL => k < i
    <3> TAKE k \in 1..c
    <3>1. k >= i => k \in (b + 1)..c
      BY <2>1
    <3> QED
      BY <1>15, <2>1, <3>1
  <2>3. i > 1 => t[i - 1] = EOL
    <3>1. i - 1 = b /\ (i > 1 => b # 0)
      BY <1>11, <2>1
    <3> QED
      BY <1>12, <3>1
  <2>4. Begins(t, c) = i
    BY <1>11, <2>2, <2>3, BeginsIsOnly
  <2> QED
    BY <1>14, <2>1, <2>4 DEF Begins
<1>17. n \in AskedIn(t, n)
  <2>1. n \in 1..n /\ b + 1 < n
    BY <1>14, <1>15
  <2> QED
    BY <1>14, <1>16, <2>1 DEF AskedIn
<1>18. s[m - 1].val = ValueOf(t, b + 1, c)
       /\ s[m - 1].val.member = IF q = 20 THEN "rational" ELSE "integer"
  <2>1. OfKind(t, b + 1, c, NumberOf(a))
        /\ s[m - 1].val = Union(MemberOf(a), Meaning(t)[<<b + 1, c>>])
    BY <1>13 DEF IsExpression
  <2>2. CASE q = 20
    <3>1. MemberOf(a) = "rational" /\ \E k \in (b + 1)..c : t[k] = RATIONAL
      BY <1>7, <2>1, <2>2 DEF OfKind, NumberOf, MemberOf
    <3> QED
      BY <2>1, <2>2, <3>1, UnionIs DEF ValueOf
  <2>3. CASE q # 20
    <3>1. MemberOf(a) = "integer" /\ ~(\E k \in (b + 1)..c : t[k] = RATIONAL)
      BY <1>7, <2>1, <2>3 DEF OfKind, NumberOf, MemberOf, RATIONAL, INTEGER
    <3> QED
      BY <2>1, <2>3, <3>1, UnionIs DEF ValueOf
  <2> QED
    BY <2>2, <2>3
<1>19. left + 1 = m - 1 /\ n - 1 = c /\ m - 1 \in 1..Len(s)
  BY <1>1, <1>8, <1>14
<1> QED
  BY <1>16, <1>17, <1>18, <1>19

-----------------------------------------------------------------------------
(* The calculator: what its stack stands for and what its answers are.     *)

MeantInv ==
  /\ ReadInv
  /\ AnswersIn(read, Len(read), printed)
  /\ yychar = RATIONAL => yylval = Union("rational", <<Len(read)>>)
  /\ yychar = INTEGER => yylval = Union("integer", <<Len(read)>>)
  /\ label \in Running => \E e : Spanned(read, TokensShifted, yystack, e)

LEMMA MeantInit == Init => MeantInv
<1> SUFFICES ASSUME Init PROVE MeantInv
  OBVIOUS
<1>1. ReadInv
  BY ReadInit
<1>2. PICK t \in Seq(Tokens) : t = read /\ Len(t) = 0
  BY <1>1 DEF ReadInv, Init
<1>3. PICK pr : pr = printed /\ AnsweredIn(pr) = {}
  <2>1. DOMAIN <<>> = {}
    OBVIOUS
  <2> QED
    BY <2>1 DEF Init, AnsweredIn
<1>4. AnswersIn(t, Len(t), pr)
  BY <1>3 DEF AnswersIn
<1>5. yychar = YYEMPTY /\ yychar # RATIONAL /\ yychar # INTEGER
  BY DEF Init, YYEMPTY, RATIONAL, INTEGER
<1>6. PICK s : s = yystack /\ Len(s) = 1
  BY DEF Init
<1>7. PICK e : e = [p \in 1..1 |-> 0]
  OBVIOUS
<1>8. Spanned(t, 0, s, e)
  <2>1. 2..1 = {} /\ \A p \in 1..1 : p = 1
    OBVIOUS
  <2>2. e \in [1..1 -> 0..0] /\ e[1] = 0
    BY <1>7
  <2> QED
    BY <1>6, <2>1, <2>2 DEF Spanned
<1>9. TokensShifted = 0
  BY <1>2, <1>5 DEF TokensShifted
<1> QED
  BY <1>1, <1>2, <1>3, <1>4, <1>5, <1>6, <1>8, <1>9 DEF MeantInv

\* The invariant while the parser runs, of constants.
LEMMA RunsWith ==
  ASSUME MeantInv, label \in Running
  PROVE  \E t \in Seq(Tokens), n \in Nat, len \in Nat :
           \E s, pr, e :
             /\ t = read /\ n = TokensShifted /\ s = yystack /\ pr = printed /\ len = Len(t)
             /\ IsPath(s) /\ IsSequence(pr) /\ Handled(t, n, s, pr) /\ AnswersIn(t, len, pr)
             /\ Spanned(t, n, s, e)
             /\ yychar = YYEMPTY => n = len
             /\ yychar # YYEMPTY => n + 1 = len /\ yychar = t[n + 1]
<1>1. PICK t \in Seq(Tokens), n \in Nat :
        \E s, pr :
          /\ t = read /\ n = TokensShifted /\ s = yystack /\ pr = printed
          /\ IsPath(s) /\ IsSequence(pr) /\ Handled(t, n, s, pr)
          /\ yychar = YYEMPTY => n = Len(t)
          /\ yychar # YYEMPTY => n + 1 = Len(t) /\ yychar = t[n + 1]
  BY RunningIs DEF MeantInv
<1>2. PICK len \in Nat : len = Len(t)
  OBVIOUS
<1>3. PICK e : Spanned(read, TokensShifted, yystack, e)
  BY DEF MeantInv
<1>4. AnswersIn(read, Len(read), printed)
  BY DEF MeantInv
<1> QED
  BY <1>1, <1>2, <1>3, <1>4

\* A message is no answer.
LEMMA MessageAnswersNothing ==
  ASSUME NEW t, NEW n \in Nat, NEW pr, IsSequence(pr), AnswersIn(t, n, pr), NEW m
  PROVE  AnswersIn(t, n, Append(pr, Message(m)))
<1>1. PICK a : a = Message(m) /\ IsMessage(a)
  BY MessagesAre
<1> QED
  BY <1>1, AnswersGrow

\* yylex: a number has its place as its value.
LEMMA LexMeans ==
  ASSUME MeantInv, yylex, ReadInv'
  PROVE  MeantInv'
<1>1. /\ label = "yybackup" /\ label' = label /\ yystack' = yystack /\ yychar = YYEMPTY
  BY DEF yylex, NeedsToken
<1>2. label \in Running
  BY <1>1 DEF Running
<1>3. PICK t \in Seq(Tokens), n \in Nat, len \in Nat :
        \E s, pr, e :
          /\ t = read /\ n = TokensShifted /\ s = yystack /\ pr = printed /\ len = Len(t)
          /\ IsPath(s) /\ IsSequence(pr) /\ Handled(t, n, s, pr) /\ AnswersIn(t, len, pr)
          /\ Spanned(t, n, s, e)
          /\ n = len
  BY <1>1, <1>2, RunsWith
<1>4. PICK s, pr, e :
        /\ t = read /\ n = TokensShifted /\ s = yystack /\ pr = printed /\ len = Len(t)
        /\ IsPath(s) /\ IsSequence(pr) /\ AnswersIn(t, n, pr) /\ Spanned(t, n, s, e) /\ n = len
  BY <1>3
<1>5. PICK tok \in Tokens :
        /\ yychar' = tok /\ read' = Append(read, tok)
        /\ \/ /\ printed' = printed
              /\ yylval' = CASE tok = RATIONAL -> Union("rational", <<Len(read) + 1>>)
                             [] tok = INTEGER -> Union("integer", <<Len(read) + 1>>)
                             [] OTHER -> yylval
           \/ printed' = Append(printed, Message("Illegal character")) /\ tok = EOL
  BY DEF yylex, Tokens, EOL, YYEOF
<1>6. PICK u \in Seq(Tokens) :
        u = Append(t, tok) /\ Len(u) = n + 1 /\ u[n + 1] = tok /\ Agree(t, u, n)
  <2>1. /\ Append(t, tok) \in Seq(Tokens) /\ Len(Append(t, tok)) = n + 1
        /\ Append(t, tok)[n + 1] = tok /\ \A k \in 1..n : Append(t, tok)[k] = t[k]
    BY <1>4
  <2> QED
    BY <2>1 DEF Agree
<1>7. read' = u /\ yychar' # YYEMPTY
  <2>1. tok # YYEMPTY
    BY DEF Tokens, YYEMPTY, YYEOF
  <2> QED
    BY <1>4, <1>5, <1>6, <2>1
<1>8. TokensShifted' = n
  BY <1>6, <1>7 DEF TokensShifted
<1>9. PICK m \in Nat : m = n + 1 /\ m = Len(u) /\ n <= m
  BY <1>6
<1>10. Spanned(u, n, s, e)
  <2>1. n \in 0..n /\ n = Len(t)
    BY <1>4
  <2> QED
    BY <1>4, <1>6, <1>9, <2>1, SpanStays
<1>11. AnswersIn(u, m, pr)
  BY <1>4, <1>6, <1>9, AnswersStay
<1>12. AnswersIn(u, m, printed')
  <2>1. CASE printed' = printed
    BY <1>4, <1>11, <2>1
  <2>2. CASE printed' = Append(printed, Message("Illegal character"))
    BY <1>4, <1>11, <2>2, MessageAnswersNothing
  <2> QED
    BY <1>5, <2>1, <2>2
<1>13. /\ tok = RATIONAL => yylval' = Union("rational", <<m>>)
       /\ tok = INTEGER => yylval' = Union("integer", <<m>>)
  <2>1. Len(read) + 1 = m
    BY <1>4, <1>9
  <2>2. EOL # RATIONAL /\ EOL # INTEGER /\ RATIONAL # INTEGER
    BY DEF RATIONAL, INTEGER, EOL
  <2>3. CASE tok = RATIONAL
    BY <1>5, <2>1, <2>2, <2>3
  <2>4. CASE tok = INTEGER
    BY <1>5, <2>1, <2>2, <2>4
  <2> QED
    BY <2>3, <2>4
<1> QED
  BY <1>1, <1>4, <1>5, <1>7, <1>8, <1>9, <1>10, <1>12, <1>13 DEF MeantInv

\* Shift: the token is one more entry.
LEMMA ShiftMeans ==
  ASSUME MeantInv, Shift, ReadInv'
  PROVE  MeantInv'
<1>1. /\ label = "yybackup" /\ yychar' = YYEMPTY /\ Entry > 0
      /\ ~NeedsToken /\ read' = read /\ printed' = printed
  BY DEF Shift
<1>2. label \in Running
  BY <1>1 DEF Running
<1>3. PICK p \in YYSTATES : p = yystate
  BY TopIsAState DEF MeantInv, ReadInv, Inv
<1>4. yypact[p] # YYPACT_NINF /\ Entry = Packed(yypact[p], yychar) /\ yychar # YYEMPTY
  <2>1. yypact[p] # YYPACT_NINF
    BY <1>1, <1>3 DEF Entry
  <2> QED
    BY <1>1, <1>3, <2>1 DEF Entry, NeedsToken
<1>5. PICK t \in Seq(Tokens), n \in Nat, len \in Nat :
        \E s, pr, e :
          /\ t = read /\ n = TokensShifted /\ s = yystack /\ pr = printed /\ len = Len(t)
          /\ IsPath(s) /\ IsSequence(pr) /\ Handled(t, n, s, pr) /\ AnswersIn(t, len, pr)
          /\ Spanned(t, n, s, e)
          /\ n + 1 = len /\ yychar = t[n + 1]
  BY <1>2, <1>4, RunsWith
<1>6. PICK s, pr, e :
        /\ t = read /\ n = TokensShifted /\ s = yystack /\ pr = printed /\ len = Len(t)
        /\ IsPath(s) /\ AnswersIn(t, len, pr) /\ Spanned(t, n, s, e)
        /\ n + 1 = len /\ yychar = t[n + 1]
  BY <1>5
<1>7. PICK x : x.state = Entry /\ x.val = yylval /\ yystack' = Append(s, x)
  <2> DEFINE new == [state |-> Entry, val |-> yylval]
  <2>1. new.state = Entry /\ new.val = yylval /\ yystack' = Append(s, new)
    BY <1>6 DEF Shift
  <2> QED
    BY <2>1
<1>8. /\ t[n + 1] = RATIONAL => x.val = Union("rational", <<n + 1>>)
      /\ t[n + 1] = INTEGER => x.val = Union("integer", <<n + 1>>)
  BY <1>6, <1>7 DEF MeantInv
<1>9. x.state = Packed(yypact[p], t[n + 1]) /\ x.state > 0
  BY <1>1, <1>4, <1>6, <1>7
<1>10. PICK f : Spanned(t, n + 1, Append(s, x), f)
  <2>1. Len(t) \in Nat /\ n + 1 = Len(t)
    BY <1>6
  <2> QED
    BY <1>4, <1>6, <1>8, <1>9, <2>1, SpanShifts
<1>11. TokensShifted' = n + 1
  BY <1>1, <1>6 DEF TokensShifted
<1>12. yychar' # RATIONAL /\ yychar' # INTEGER
  BY <1>1 DEF YYEMPTY, RATIONAL, INTEGER
<1> QED
  BY <1>1, <1>6, <1>7, <1>10, <1>11, <1>12 DEF MeantInv

\* Reduce: the entries make one, and at the end of a line its value is printed.
LEMMA ReduceMeans ==
  ASSUME MeantInv, Reduce, ReadInv'
  PROVE  MeantInv'
<1>1. /\ label = "yybackup" /\ yychar' = yychar /\ read' = read /\ yylval' = yylval
      /\ Entry <= 0 /\ ~NeedsToken
  BY DEF Reduce
<1>2. label \in Running
  BY <1>1 DEF Running
<1>3. PICK q \in YYSTATES : q = yystate /\ q # YYFINAL
  BY <1>1, TopIsAState DEF MeantInv, ReadInv, Inv
<1>4. PICK t \in Seq(Tokens), n \in Nat, len \in Nat :
        \E s, pr, e :
          /\ t = read /\ n = TokensShifted /\ s = yystack /\ pr = printed /\ len = Len(t)
          /\ IsPath(s) /\ IsSequence(pr) /\ Handled(t, n, s, pr) /\ AnswersIn(t, len, pr)
          /\ Spanned(t, n, s, e)
          /\ yychar = YYEMPTY => n = len
          /\ yychar # YYEMPTY => n + 1 = len /\ yychar = t[n + 1]
  BY <1>2, RunsWith
<1>5. PICK s, pr, e :
        /\ t = read /\ n = TokensShifted /\ s = yystack /\ pr = printed /\ len = Len(t)
        /\ IsPath(s) /\ IsSequence(pr) /\ Handled(t, n, s, pr) /\ AnswersIn(t, len, pr)
        /\ Spanned(t, n, s, e)
        /\ yychar = YYEMPTY => n = len
        /\ yychar # YYEMPTY => n + 1 = len /\ yychar = t[n + 1]
  BY <1>4
<1>6. Entry = 0 /\ ~(Entry < 0)
  <2>1. Entry \in 0..40
    BY <1>3, EntryIsShift DEF YYSTATES
  <2>2. \A k \in 0..40 : k <= 0 => k = 0 /\ ~(k < 0)
    OBVIOUS
  <2> QED
    BY <1>1, <2>1, <2>2, Zenon
<1>7. n <= len /\ Lookahead(t, q, n)
  <2>1. CASE yypact[q] = YYPACT_NINF
    <3>1. n <= len
      BY <1>5
    <3> QED
      BY <2>1, <3>1 DEF Lookahead
  <2>2. CASE yypact[q] # YYPACT_NINF
    <3>1. yychar # YYEMPTY
      BY <1>1, <1>3, <2>2 DEF NeedsToken
    <3>2. n + 1 = len /\ n < len /\ n <= len /\ yychar = t[n + 1]
      BY <1>5, <3>1
    <3>3. Packed(yypact[q], t[n + 1]) <= 0
      BY <1>1, <1>3, <2>2, <3>2 DEF Entry
    <3> QED
      BY <1>5, <3>2, <3>3 DEF Lookahead
  <2> QED
    BY <2>1, <2>2
<1> DEFINE rule == yydefact[q]
           left == Len(s) - yyr2[rule]
           rest == SubSeq(s, 1, left)
           rhs == [i \in 1..yyr2[rule] |-> s[Len(rest) + i].val]
           new == [state |-> Goto(Last(rest).state, yyr1[rule]), val |-> Action(rule, rhs)]
<1>8. rule # 0 /\ yystack' = Append(rest, new) /\ printed' = pr \o Answer(rule, rhs)
  BY <1>3, <1>5, <1>6, Zenon DEF Reduce
<1>9. q = Last(s).state
  BY <1>3, <1>5 DEF yystate
<1>10. left \in 1..Len(s)
  BY <1>3, <1>5, <1>8, <1>9, ReduceFits
<1>11. Len(rest) = left /\ Last(rest) = s[left]
  <2> HIDE DEF rule, left
  <2> QED
    BY <1>5, <1>10, PopKeepsPath
<1>12. PICK r : r = rhs /\ RightHand(s, left, yyr2[rule], r)
  <2> HIDE DEF rule, left, rest
  <2>1. \A i \in 1..yyr2[rule] : rhs[i] = s[left + i].val
    BY <1>11
  <2> QED
    BY <2>1 DEF RightHand
<1>13. PICK x : /\ x = new /\ x.state = Goto(s[left].state, yyr1[rule])
                /\ x.val = Action(rule, r)
  <2>1. new.state = Goto(Last(rest).state, yyr1[rule]) /\ new.val = Action(rule, rhs)
    BY Zenon
  <2> QED
    BY <1>11, <1>12, <2>1, Zenon
<1> HIDE DEF rhs, new
<1>14. PICK f : Spanned(t, n, Append(rest, x), f)
  BY <1>3, <1>5, <1>7, <1>8, <1>9, <1>12, <1>13, SpanReduces
<1>15. AnswersIn(t, len, pr \o Answer(rule, r))
  <2>1. CASE q \in Ends
    <3>1. rule = IF q = 20 THEN 5 ELSE 6
      BY <2>1, LinesAre DEF Ends
    <3>2. left = Len(s) - 2
      BY <2>1, LinesAre DEF Ends
    <3>3. PICK v : v = s[left + 1].val
      OBVIOUS
    <3>4. /\ n \in AskedIn(t, n) /\ v = ValueOf(t, LineBegins(t, n), n - 1)
          /\ v.member = IF q = 20 THEN "rational" ELSE "integer"
      BY <1>5, <1>7, <1>9, <2>1, <3>2, <3>3, LineMeans
    <3>5. r[1] = v
      <4>1. yyr2[rule] = 2 /\ 1 \in 1..2
        BY <2>1, LinesAre DEF Ends
      <4> QED
        BY <1>12, <3>3, <4>1 DEF RightHand
    <3>6. Answer(rule, r) = <<v>>
      <4>1. PICK m, y : v = Union(m, y) /\ m = IF q = 20 THEN "rational" ELSE "integer"
        BY <3>4, UnionIs DEF ValueOf
      <4>2. Union(m, Member(m, v)) = v
        BY <4>1, UnionIs
      <4> QED
        BY <3>1, <3>5, <4>1, <4>2 DEF Answer
    <3>7. Cardinality(AskedIn(t, n)) = Cardinality(AnsweredIn(pr)) + 1
      BY <1>5, <1>9, <2>1 DEF Handled
    <3>8. AnswerTo(t, n, Cardinality(AnsweredIn(pr)) + 1, v)
      BY <3>4, <3>7 DEF AnswerTo
    <3>9. n \in AskedIn(t, len)
      <4>1. n \in 1..n /\ t[n] = EOL /\ LineBegins(t, n) < n
        BY <3>4 DEF AskedIn
      <4>2. n \in 1..len
        BY <1>7, <4>1
      <4> QED
        BY <4>1, <4>2 DEF AskedIn
    <3>10. AnswersIn(t, len, Append(pr, v))
      BY <1>5, <3>8, <3>9, AnswersGrow
    <3>11. pr \o <<v>> = Append(pr, v)
      BY <1>5, PrintsOne
    <3> QED
      BY <3>6, <3>10, <3>11
  <2>2. CASE q \notin Ends
    <3>1. rule \notin {5, 6}
      BY <2>2, AnswersAre DEF Ends
    <3>2. Answer(rule, r) = <<>>
      BY <3>1 DEF Answer
    <3> QED
      BY <1>5, <3>2, PrintsNothing
  <2> QED
    BY <2>1, <2>2
<1>16. TokensShifted' = n
  BY <1>1, <1>5 DEF TokensShifted
<1>17. /\ yychar' = RATIONAL => yylval' = Union("rational", <<Len(read')>>)
       /\ yychar' = INTEGER => yylval' = Union("integer", <<Len(read')>>)
  BY <1>1 DEF MeantInv
<1>18. Spanned(read', TokensShifted', yystack', f)
  BY <1>1, <1>5, <1>8, <1>13, <1>14, <1>16
<1>19. AnswersIn(read', Len(read'), printed')
  BY <1>1, <1>5, <1>8, <1>12, <1>15
<1> QED
  BY <1>17, <1>18, <1>19 DEF MeantInv

\* The other actions print messages only and shift and reduce nothing.
LEMMA OthersMean ==
  ASSUME MeantInv, ReadInv', read' = read,
         \/ /\ yysetstate
            /\ label' \notin Running \/ (yystack' = yystack /\ yychar' = yychar)
         \/ Error \/ Return \/ UNCHANGED vars
  PROVE  MeantInv'
<1>1. /\ printed' = printed \/ \E m : printed' = Append(printed, Message(m))
      /\ yylval' = yylval /\ (yychar' = yychar \/ yychar' = YYEMPTY)
  BY DEF yysetstate, Error, Return, vars
<1>2. \/ label' \notin Running
      \/ label \in Running /\ yystack' = yystack /\ yychar' = yychar
  BY DEF yysetstate, Error, Return, vars, Running
<1>3. PICK t \in Seq(Tokens), len \in Nat : t = read /\ len = Len(t)
  <2>1. PICK t \in Seq(Tokens) : t = read
    BY DEF MeantInv, ReadInv
  <2>2. Len(t) \in Nat
    OBVIOUS
  <2> QED
    BY <2>1, <2>2
<1>4. PICK pr : pr = printed /\ IsSequence(pr) /\ AnswersIn(t, len, pr)
  BY <1>3 DEF MeantInv, ReadInv
<1>5. AnswersIn(t, len, printed')
  BY <1>1, <1>4, MessageAnswersNothing
<1>6. /\ yychar' = RATIONAL => yylval' = Union("rational", <<Len(read')>>)
      /\ yychar' = INTEGER => yylval' = Union("integer", <<Len(read')>>)
  <2>1. YYEMPTY # RATIONAL /\ YYEMPTY # INTEGER
    BY DEF YYEMPTY, RATIONAL, INTEGER
  <2> QED
    BY <1>1, <2>1 DEF MeantInv
<1>7. label' \in Running => \E e : Spanned(read', TokensShifted', yystack', e)
  <2> HAVE label' \in Running
  <2>1. label \in Running /\ yystack' = yystack /\ yychar' = yychar
    BY <1>2
  <2>2. TokensShifted' = TokensShifted
    BY <2>1 DEF TokensShifted
  <2> QED
    BY <2>1, <2>2 DEF MeantInv
<1> QED
  BY <1>3, <1>5, <1>6, <1>7 DEF MeantInv

LEMMA MeantStep == MeantInv /\ [Next]_vars => MeantInv'
<1> SUFFICES ASSUME MeantInv, [Next]_vars PROVE MeantInv'
  OBVIOUS
<1>1. ReadInv'
  BY ReadStep DEF MeantInv
<1>2. CASE yysetstate
  <2>1. read' = read /\ yystack' = yystack /\ yychar' = yychar
    BY <1>2 DEF yysetstate
  <2> QED
    BY <1>1, <1>2, <2>1, OthersMean
<1>3. CASE Error
  BY <1>1, <1>3, OthersMean DEF Error
<1>4. CASE Return
  BY <1>1, <1>4, OthersMean DEF Return
<1>5. CASE UNCHANGED vars
  BY <1>1, <1>5, OthersMean DEF vars
<1> QED
  BY <1>1, <1>2, <1>3, <1>4, <1>5, LexMeans, ShiftMeans, ReduceMeans DEF Next

\* Each answer is the value that its line has by the precedence of the operators, in
\* one type throughout, and the n-th answer is that of the n-th line, for inputs of
\* any length and stacks of any depth (the tables and the actions of rules 5 to 21).
THEOREM AnswersAreMeant == Spec => []AnswersAsWritten
<1>1. MeantInv => AnswersAsWritten
  BY AnswersAreIn DEF MeantInv, ReadInv
<1> QED
  BY <1>1, MeantInit, MeantStep, PTL DEF Spec

(***************************************************************************)
(* The validator of expressions.                                           *)
(***************************************************************************)

-----------------------------------------------------------------------------
(* Least elements, and how many elements of a set are below one.           *)

First(T) == CHOOSE x \in T : \A y \in T : x <= y

LEMMA FirstIs ==
  ASSUME NEW T \in SUBSET Nat, T # {}
  PROVE  First(T) \in T /\ \A y \in T : First(T) <= y
BY LeastNatural DEF First

LEMMA FirstIsOnly ==
  ASSUME NEW T \in SUBSET Nat, NEW x \in T, \A y \in T : x <= y
  PROVE  First(T) = x
<1>1. First(T) \in T /\ First(T) <= x /\ x <= First(T)
  BY FirstIs
<1>2. First(T) \in Nat /\ x \in Nat
  BY <1>1
<1> QED
  BY <1>1, <1>2

Before(T, x) == Cardinality({y \in T : y < x})

\* Two sets of equal size are compared element by element; each of them gets
\* one that is greater than all others.
LEMMA OneMoreOfEach ==
  ASSUME NEW T \in SUBSET Nat, IsFiniteSet(T), NEW t \in Nat, \A x \in T : x < t,
         NEW U \in SUBSET Nat, IsFiniteSet(U), NEW u \in Nat, \A y \in U : y < u,
         Cardinality(T) = Cardinality(U),
         NEW Fit, <<t, u>> \in Fit,
         \A x \in T, y \in U : Before(T, x) = Before(U, y) => <<x, y>> \in Fit
  PROVE  /\ Cardinality(T \cup {t}) = Cardinality(U \cup {u})
         /\ \A x \in T \cup {t}, y \in U \cup {u} :
              Before(T \cup {t}, x) = Before(U \cup {u}, y) => <<x, y>> \in Fit
<1>1. ASSUME NEW S \in SUBSET Nat, IsFiniteSet(S), NEW s \in Nat, \A x \in S : x < s
      PROVE  /\ Cardinality(S) \in Nat
             /\ Cardinality(S \cup {s}) = Cardinality(S) + 1
             /\ Before(S \cup {s}, s) = Cardinality(S)
             /\ \A x \in S : /\ Before(S \cup {s}, x) = Before(S, x)
                             /\ Before(S, x) < Cardinality(S)
  <2>1. s \notin S
    BY <1>1
  <2>2. Cardinality(S) \in Nat /\ Cardinality(S \cup {s}) = Cardinality(S) + 1
    BY <1>1, <2>1, FS_CardinalityType, FS_AddElement
  <2>3. {y \in S \cup {s} : y < s} = S
    <3>1. ~(s < s)
      BY <1>1
    <3> QED
      BY <3>1, <1>1
  <2>4. ASSUME NEW x \in S
        PROVE  Before(S \cup {s}, x) = Before(S, x) /\ Before(S, x) < Cardinality(S)
    <3> DEFINE B == {y \in S : y < x}
    <3>1. {y \in S \cup {s} : y < x} = B
      BY <1>1
    <3>2. B \in SUBSET S /\ x \notin B
      OBVIOUS
    <3>3. IsFiniteSet(B) /\ Cardinality(B) <= Cardinality(S) /\ Cardinality(B) # Cardinality(S)
      BY <3>2, <1>1, FS_Subset
    <3>4. Cardinality(B) \in Nat
      BY <3>3, FS_CardinalityType
    <3> HIDE DEF B
    <3>5. Cardinality(B) < Cardinality(S)
      BY <3>3, <3>4, <2>2
    <3> QED
      BY <3>1, <3>5 DEF Before, B
  <2> QED
    BY <2>2, <2>3, <2>4 DEF Before
<1>2. /\ Cardinality(T) \in Nat
      /\ Cardinality(T \cup {t}) = Cardinality(T) + 1
      /\ Before(T \cup {t}, t) = Cardinality(T)
      /\ \A x \in T : Before(T \cup {t}, x) = Before(T, x) /\ Before(T, x) < Cardinality(T)
  BY <1>1
<1>3. /\ Cardinality(U \cup {u}) = Cardinality(U) + 1
      /\ Before(U \cup {u}, u) = Cardinality(U)
      /\ \A y \in U : Before(U \cup {u}, y) = Before(U, y) /\ Before(U, y) < Cardinality(U)
  BY <1>1
<1> QED
  BY <1>2, <1>3

-----------------------------------------------------------------------------
(* The validator's text, and the words its lines define.                   *)

LEMMA LineStarts ==
  ASSUME NEW k \in Nat \ {0}
  PROVE  /\ LineStart(k) \in 1 .. k
         /\ StartsLine(text, LineStart(k))
         /\ \A c \in (LineStart(k) + 1) .. k : ~StartsLine(text, c)
<1> DEFINE Back == {c \in 0 .. (k - 1) : StartsLine(text, k - c)}
<1>1. k - 1 \in Back
  BY DEF StartsLine
<1>2. PICK c \in Back : \A d \in Back : c <= d
  <2>1. Back \in SUBSET Nat
    OBVIOUS
  <2> HIDE DEF Back
  <2> QED
    BY <1>1, <2>1, LeastNatural
<1>3. \A d \in (k - c + 1) .. k : ~StartsLine(text, d)
  <2> SUFFICES ASSUME NEW d \in (k - c + 1) .. k, StartsLine(text, d) PROVE FALSE
    OBVIOUS
  <2>1. k - d \in 0 .. (k - 1) /\ k - (k - d) = d /\ k - d < c
    BY <1>2
  <2>2. k - d \in Back
    BY <2>1
  <2> QED
    BY <1>2, <2>1, <2>2
<1>4. k - c \in 1 .. k /\ StartsLine(text, k - c)
  BY <1>2
<1> HIDE DEF Back
<1>5. \E b \in 1 .. k : /\ StartsLine(text, b)
                        /\ \A d \in (b + 1) .. k : ~StartsLine(text, d)
  BY <1>3, <1>4
<1> QED
  BY <1>5, Zenon DEF LineStart

\* A symbol begins a line or is on the line of the one before it.
LEMMA NextOnLine ==
  ASSUME NEW k \in Nat \ {0}
  PROVE  LineStart(k + 1) = IF text[k] = NewLine THEN k + 1 ELSE LineStart(k)
<1>1. /\ LineStart(k) \in 1 .. k /\ StartsLine(text, LineStart(k))
      /\ \A c \in (LineStart(k) + 1) .. k : ~StartsLine(text, c)
  BY LineStarts
<1>2. /\ LineStart(k + 1) \in 1 .. (k + 1) /\ StartsLine(text, LineStart(k + 1))
      /\ \A c \in (LineStart(k + 1) + 1) .. (k + 1) : ~StartsLine(text, c)
  BY LineStarts
<1>3. StartsLine(text, k + 1) <=> text[k] = NewLine
  BY DEF StartsLine
<1>4. CASE text[k] = NewLine
  <2>1. ~(k + 1 \in (LineStart(k + 1) + 1) .. (k + 1))
    BY <1>2, <1>3, <1>4
  <2> QED
    BY <1>2, <1>4, <2>1
<1>5. CASE text[k] # NewLine
  <2>1. LineStart(k + 1) # k + 1
    BY <1>2, <1>3, <1>5
  <2>2. LineStart(k + 1) \in 1 .. k
    BY <1>2, <2>1
  <2>3. ~(LineStart(k + 1) < LineStart(k))
    <3> SUFFICES ASSUME LineStart(k + 1) < LineStart(k) PROVE FALSE
      OBVIOUS
    <3>1. LineStart(k) \in (LineStart(k + 1) + 1) .. (k + 1)
      BY <1>1, <2>2
    <3> QED
      BY <3>1, <1>1, <1>2
  <2>4. ~(LineStart(k) < LineStart(k + 1))
    <3> SUFFICES ASSUME LineStart(k) < LineStart(k + 1) PROVE FALSE
      OBVIOUS
    <3>1. LineStart(k + 1) \in (LineStart(k) + 1) .. k
      BY <1>1, <2>2
    <3> QED
      BY <3>1, <1>1, <1>2
  <2> QED
    BY <1>1, <1>5, <2>2, <2>3, <2>4
<1> QED
  BY <1>4, <1>5

LEMMA FirstOnLine == LineStart(1) = 1
<1>1. LineStart(1) \in 1 .. 1
  BY LineStarts
<1> QED
  BY <1>1

\* A keyword begins its line.
LEMMA KeywordStarts ==
  ASSUME NEW k \in Nat \ {0}, StartsLine(text, k)
  PROVE  LineStart(k) = k
<1>1. CASE k = 1
  BY <1>1, FirstOnLine
<1>2. CASE k # 1
  <2>1. k - 1 \in Nat \ {0} /\ (k - 1) + 1 = k /\ text[k - 1] = NewLine
    BY <1>2 DEF StartsLine
  <2> QED
    BY <2>1, NextOnLine
<1> QED
  BY <1>1, <1>2

\* The positions up to n that define a name.
Defining(name, n) == {d \in 1 .. n : text[d] = name /\ text[LineStart(d)] \in Keyword}

TypeFrom(defs) == IF defs = {} THEN "LOOKUP" ELSE Type(text[LineStart(First(defs))])

LookupIn(list, name) ==
  LET at == {n \in DOMAIN list : list[n].name = name}
  IN  IF at = {} THEN "LOOKUP" ELSE list[First(at)].type

LEMMA LookupIsIn == \A name : lookup_word(name) = LookupIn(word_list, name)
BY DEF lookup_word, LookupIn, First

WordEntry == [name : Word, type : Types]

LEMMA LookupInFront ==
  ASSUME NEW list \in Seq(WordEntry), NEW e \in WordEntry, NEW name
  PROVE  /\ <<e>> \o list \in Seq(WordEntry)
         /\ LookupIn(<<e>> \o list, name) = IF e.name = name THEN e.type ELSE LookupIn(list, name)
<1> DEFINE new == <<e>> \o list
           at == {n \in DOMAIN list : list[n].name = name}
           then == {n \in DOMAIN new : new[n].name = name}
<1>1. /\ new \in Seq(WordEntry) /\ Len(new) = Len(list) + 1
      /\ new[1] = e /\ \A n \in 1 .. Len(list) : new[n + 1] = list[n]
  OBVIOUS
<1>2. DOMAIN new = 1 .. Len(new) /\ DOMAIN list = 1 .. Len(list) /\ Len(list) \in Nat
  BY <1>1
<1> HIDE DEF new
<1>3. then \in SUBSET Nat /\ at \in SUBSET Nat
  BY <1>2
<1>4. CASE e.name = name
  <2>1. 1 \in then /\ \A n \in then : 1 <= n
    BY <1>1, <1>2, <1>4
  <2> HIDE DEF then, at
  <2>2. First(then) = 1 /\ then # {}
    BY <1>3, <2>1, FirstIsOnly
  <2> QED
    BY <1>1, <1>4, <2>2 DEF LookupIn, new, then
<1>5. CASE e.name # name /\ at = {}
  <2>1. then = {}
    <3> SUFFICES ASSUME NEW n \in then PROVE FALSE
      OBVIOUS
    <3>1. n # 1
      BY <1>1, <1>5
    <3>2. n - 1 \in 1 .. Len(list) /\ (n - 1) + 1 = n
      BY <3>1, <1>1, <1>2
    <3>3. n - 1 \in at
      BY <3>2, <1>1, <1>2
    <3> QED
      BY <3>3, <1>5
  <2> QED
    BY <1>1, <1>5, <2>1 DEF LookupIn, new
<1>6. CASE e.name # name /\ at # {}
  <2>1. First(at) \in at /\ \A n \in at : First(at) <= n
    <3> HIDE DEF at
    <3> QED
      BY <1>3, <1>6, FirstIs
  <2>2. First(at) + 1 \in then
    BY <1>1, <1>2, <2>1
  <2>3. \A n \in then : First(at) + 1 <= n
    <3> TAKE n \in then
    <3>1. n # 1
      BY <1>1, <1>6
    <3>2. n - 1 \in 1 .. Len(list) /\ (n - 1) + 1 = n
      BY <3>1, <1>1, <1>2
    <3>3. n - 1 \in at
      BY <3>2, <1>1, <1>2
    <3>4. First(at) <= n - 1 /\ First(at) \in Nat
      BY <3>3, <2>1, <1>3
    <3> QED
      BY <3>2, <3>4
  <2>4. First(then) = First(at) + 1 /\ then # {}
    <3> HIDE DEF then
    <3> QED
      BY <1>3, <2>2, <2>3, FirstIsOnly
  <2>5. new[First(then)] = list[First(at)]
    BY <1>1, <1>2, <2>1, <2>4
  <2> QED
    BY <1>1, <1>6, <2>4, <2>5 DEF LookupIn, new
<1> QED
  BY <1>4, <1>5, <1>6

LEMMA LookupNothing == \A name : LookupIn(<<>>, name) = "LOOKUP"
BY DEF LookupIn

-----------------------------------------------------------------------------
(* Types, and reading.                                                     *)

Traced == Types \cup {"yyparse", "end", "expression is valid", "syntax error"}

ValidatorTypes ==
  /\ text \in Seq(Symbol)
  /\ \A k \in 1 .. Len(text) : text[k] \in Keyword => StartsLine(text, k)
  /\ interactive \in BOOLEAN
  /\ filled \in 0 .. Len(text)
  /\ eof \in BOOLEAN
  /\ pos \in 0 .. filled
  /\ state \in Types \cup {"LOOKUP"}
  /\ word_list \in Seq(WordEntry)
  /\ token \in {"none", "end"} \cup Types
  /\ pc \in {"main", "yylex", "yyparse", "test", "exit"}
  /\ pc = "yyparse" <=> token # "none"
  /\ trace \in Seq(Traced)

LEMMA ChunkIs ==
  ASSUME NEW n \in Nat, n = Len(text), filled \in 0 .. n, interactive \in BOOLEAN
  PROVE  /\ Chunk.size \in 0 .. (n - filled)
         /\ Chunk.eof \in BOOLEAN
         /\ Chunk.eof => Chunk.size = n - filled
         /\ ~Chunk.eof => Chunk.size > 0
         /\ ~interactive /\ n < Block => Chunk.eof
         /\ interactive /\ n > 0 /\ text[n] = NewLine /\ Chunk.eof => Chunk.size = 0
<1> DEFINE ends == {k \in (filled + 1) .. n : \/ interactive /\ text[k] = NewLine
                                              \/ ~interactive /\ k = filled + Block}
<1>1. Chunk = IF ends = {} THEN [size |-> n - filled, eof |-> TRUE]
              ELSE [size |-> First(ends) - filled, eof |-> FALSE]
  BY DEF Chunk, First
<1>2. ends \in SUBSET Nat
  OBVIOUS
<1>3. ASSUME ends # {} PROVE First(ends) \in (filled + 1) .. n
  <2>1. First(ends) \in ends
    <3> HIDE DEF ends
    <3> QED
      BY <1>2, <1>3, FirstIs
  <2> QED
    BY <2>1
<1>4. ~interactive /\ n < Block => ends = {}
  BY BlockAssumption
<1>5. interactive /\ n > 0 /\ text[n] = NewLine /\ filled < n => n \in ends
  OBVIOUS
<1> HIDE DEF ends
<1>6. CASE ends = {}
  <2>1. Chunk.size = n - filled /\ Chunk.eof
    BY <1>1, <1>6
  <2> QED
    BY <2>1, <1>5, <1>6
<1>7. CASE ends # {}
  <2>1. Chunk.size = First(ends) - filled /\ ~Chunk.eof /\ Chunk.eof \in BOOLEAN
    BY <1>1, <1>7
  <2> QED
    BY <2>1, <1>3, <1>4, <1>7
<1> QED
  BY <1>6, <1>7

LEMMA MatchedMoves ==
  ASSUME ValidatorTypes, NEW symbols, Matched(symbols)
  PROVE  /\ pos + 1 \in 1 .. Len(text) /\ pos' = pos + 1 /\ pos' \in 0 .. filled
         /\ Next1 = text[pos + 1] /\ Next1 \in symbols /\ Next1 \in Symbol
         /\ pc = "yylex" /\ token = "none" /\ filled > 0
         /\ UNCHANGED <<text, interactive, filled, eof>>
<1>1. pos \in Nat /\ filled \in 0 .. Len(text) /\ pos < filled /\ Len(text) \in Nat
  BY DEF ValidatorTypes, Matched
<1>2. pos + 1 \in 1 .. Len(text)
  BY <1>1
<1>3. text[pos + 1] \in Symbol
  BY <1>2 DEF ValidatorTypes
<1> QED
  BY <1>1, <1>2, <1>3 DEF Matched, Advance, Next1, ValidatorTypes, input, reader

LEMMA LookedUp ==
  ASSUME ValidatorTypes, NEW name
  PROVE  lookup_word(name) \in Types \cup {"LOOKUP"}
<1> DEFINE at == {n \in DOMAIN word_list : word_list[n].name = name}
<1>1. at \in SUBSET Nat /\ at \subseteq DOMAIN word_list
  BY DEF ValidatorTypes
<1>2. ASSUME at # {} PROVE First(at) \in DOMAIN word_list
  <2> HIDE DEF at
  <2> QED
    BY <1>1, <1>2, FirstIs
<1>3. ASSUME at # {} PROVE word_list[First(at)].type \in Types
  <2>1. word_list[First(at)] \in WordEntry
    BY <1>2, <1>3 DEF ValidatorTypes
  <2> QED
    BY <2>1 DEF WordEntry
<1> QED
  BY <1>3, LookupIsIn DEF LookupIn

\* What a step adds to the trace.
LEMMA TraceGrows ==
  ASSUME ValidatorTypes, NEW t \in Traced
  PROVE  /\ Append(trace, t) \in Seq(Traced)
         /\ Len(Append(trace, t)) = Len(trace) + 1
         /\ Append(trace, t)[Len(trace) + 1] = t
         /\ \A k \in 1 .. Len(trace) : Append(trace, t)[k] = trace[k]
<1>1. trace \in Seq(Traced)
  BY DEF ValidatorTypes
<1> QED
  BY <1>1

LEMMA TraceGrowsByTwo ==
  ASSUME ValidatorTypes, NEW t \in Traced, NEW m \in Traced
  PROVE  /\ trace \o <<t, m>> \in Seq(Traced)
         /\ Len(trace \o <<t, m>>) = Len(trace) + 2
         /\ (trace \o <<t, m>>)[Len(trace) + 1] = t
         /\ (trace \o <<t, m>>)[Len(trace) + 2] = m
         /\ \A k \in 1 .. Len(trace) : (trace \o <<t, m>>)[k] = trace[k]
<1>1. trace \in Seq(Traced)
  BY DEF ValidatorTypes
<1> QED
  BY <1>1

LEMMA Messages == {"yyparse", "expression is valid", "syntax error"} \subseteq Traced
BY DEF Traced

LEMMA TypesAppend ==
  ASSUME ValidatorTypes, NEW t \in Traced
  PROVE  /\ Append(trace, t) \in Seq(Traced)
         /\ trace \o <<t, "expression is valid">> \in Seq(Traced)
         /\ trace \o <<t, "syntax error">> \in Seq(Traced)
BY TraceGrows, TraceGrowsByTwo, Messages

LEMMA TypesInit == ValidatorInit => ValidatorTypes
<1> SUFFICES ASSUME ValidatorInit PROVE ValidatorTypes
  OBVIOUS
<1>1. text \in Seq(Symbol) /\ \A k \in 1 .. Len(text) : text[k] \in Keyword => StartsLine(text, k)
  BY TextAssumption DEF ValidatorInit
<1>2. Len(text) \in Nat
  BY <1>1
<1>3. word_list \in Seq(WordEntry) /\ trace \in Seq(Traced)
  BY DEF ValidatorInit
<1>4. interactive \in BOOLEAN /\ eof \in BOOLEAN
  BY InteractiveAssumption DEF ValidatorInit
<1>5. filled \in 0 .. Len(text) /\ pos \in 0 .. filled
  BY <1>2 DEF ValidatorInit
<1> QED
  BY <1>1, <1>3, <1>4, <1>5 DEF ValidatorInit, ValidatorTypes

LEMMA TypesStep == ValidatorTypes /\ [ValidatorNext]_validator => ValidatorTypes'
<1> SUFFICES ASSUME ValidatorTypes, [ValidatorNext]_validator PROVE ValidatorTypes'
  OBVIOUS
<1> USE DEF input, reader, parser
<1>1. CASE Fill
  <2>1. Chunk.size \in 0 .. (Len(text) - filled) /\ Chunk.eof \in BOOLEAN
    BY ChunkIs DEF ValidatorTypes
  <2>2. filled' \in 0 .. Len(text) /\ pos \in 0 .. filled'
    BY <1>1, <2>1 DEF Fill, ValidatorTypes
  <2> QED
    BY <1>1, <2>1, <2>2 DEF Fill, ValidatorTypes
<1>2. CASE MatchNewLine
  <2>1. Matched({NewLine})
    BY <1>2 DEF MatchNewLine
  <2> QED
    BY <1>2, <2>1, MatchedMoves DEF MatchNewLine, StateAfterNewLine, ValidatorTypes
<1>3. CASE MatchKeyword
  <2>1. Matched(Keyword)
    BY <1>3 DEF MatchKeyword
  <2> QED
    BY <1>3, <2>1, MatchedMoves DEF MatchKeyword, Type, Types, ValidatorTypes
<1>4. CASE AddWord
  <2>1. Matched(Word)
    BY <1>4 DEF AddWord
  <2>2. [name |-> Next1, type |-> state] \in WordEntry
    BY <1>4, <2>1, MatchedMoves DEF AddWord, WordEntry, ValidatorTypes
  <2>3. <<[name |-> Next1, type |-> state]>> \o word_list \in Seq(WordEntry)
    BY <2>2, LookupInFront DEF ValidatorTypes
  <2>4. word_list' \in Seq(WordEntry)
    BY <1>4, <2>3 DEF AddWord, ValidatorTypes
  <2> QED
    BY <1>4, <2>1, <2>4, MatchedMoves DEF AddWord, ValidatorTypes
<1>5. CASE LookUpWord
  <2>1. Matched(Word)
    BY <1>5 DEF LookUpWord
  <2>2. lookup_word(Next1) \in Types \cup {"LOOKUP"}
    BY LookedUp
  <2>3. \A t \in Types : t # "none"
    BY DEF Types
  <2> QED
    BY <1>5, <2>1, <2>2, <2>3, MatchedMoves DEF LookUpWord, ValidatorTypes
<1>6. CASE MatchOther
  <2>1. Matched(Other)
    BY <1>6 DEF MatchOther
  <2> QED
    BY <1>6, <2>1, MatchedMoves DEF MatchOther, ValidatorTypes
<1>7. CASE CallParser
  <2>1. trace' \in Seq(Traced)
    BY <1>7, TraceGrows, Messages DEF CallParser
  <2> QED
    BY <1>7, <2>1 DEF CallParser, ValidatorTypes
<1>8. CASE ShiftToken
  <2>1. token # "none" /\ token \in Traced
    BY <1>8 DEF ValidatorTypes, Traced, ShiftToken, SyntaxError
  <2>2. trace' = Append(trace, token) \/ trace' = trace \o <<token, "expression is valid">>
    BY <1>8 DEF ShiftToken
  <2>3. CASE trace' = Append(trace, token)
    BY <1>8, <2>1, <2>3, TypesAppend DEF ShiftToken, ValidatorTypes
  <2>4. CASE trace' = trace \o <<token, "expression is valid">>
    BY <1>8, <2>1, <2>4, TypesAppend DEF ShiftToken, ValidatorTypes
  <2> QED
    BY <2>2, <2>3, <2>4
<1>9. CASE SyntaxError
  <2>1. token # "none" /\ token \in Traced
    BY <1>9 DEF ValidatorTypes, Traced, ShiftToken, SyntaxError
  <2>2. trace' \in Seq(Traced)
    BY <1>9, <2>1, TypesAppend DEF SyntaxError
  <2> QED
    BY <1>9, <2>2 DEF SyntaxError, Abort, ValidatorTypes
<1>10. CASE Test
  BY <1>10 DEF Test, ValidatorTypes
<1>11. CASE UNCHANGED validator
  BY <1>11 DEF validator, ValidatorTypes
<1> QED
  BY <1>1, <1>2, <1>3, <1>4, <1>5, <1>6, <1>7, <1>8, <1>9, <1>10, <1>11 DEF ValidatorNext

-----------------------------------------------------------------------------
(* The symbol table.                                                       *)

\* The scanner's state is what its line begins with, and a name has the type of
\* the first line that defines it.
WordsInv ==
  /\ state = IF pos = 0 \/ text[pos] = NewLine \/ text[LineStart(pos)] \notin Keyword
             THEN "LOOKUP" ELSE Type(text[LineStart(pos)])
  /\ \A name \in Word : lookup_word(name) = TypeFrom(Defining(name, pos))

LEMMA TextStays ==
  ASSUME text' = text
  PROVE  /\ \A k : LineStart(k)' = LineStart(k) /\ MeaningAt(k)' = MeaningAt(k)
         /\ \A name, n : Defining(name, n)' = Defining(name, n)
         /\ \A defs : TypeFrom(defs)' = TypeFrom(defs)
<1>1. \A k : LineStart(k)' = LineStart(k)
  BY DEF LineStart
<1>2. \A k : Definitions(k)' = Definitions(k)
  BY <1>1 DEF Definitions
<1>3. ASSUME NEW k PROVE MeaningAt(k)' = MeaningAt(k)
  <2> DEFINE d == CHOOSE d \in Definitions(k) : \A e \in Definitions(k) : d <= e
  <2>1. d' = d
    BY <1>2
  <2>2. LineStart(d)' = LineStart(d)
    BY <1>1, <2>1 DEF LineStart
  <2> QED
    BY <1>1, <1>2, <2>1, <2>2 DEF MeaningAt
<1>4. \A name, n : Defining(name, n)' = Defining(name, n)
  BY <1>1 DEF Defining
<1>5. \A defs : TypeFrom(defs)' = TypeFrom(defs)
  BY <1>1 DEF TypeFrom, First
<1> QED
  BY <1>1, <1>3, <1>4, <1>5

\* What the symbol behind pos adds to the definitions of a name.
LEMMA DefiningNext ==
  ASSUME ValidatorTypes, NEW name, pos + 1 \in 1 .. Len(text)
  PROVE  /\ Defining(name, pos) \in SUBSET Nat
         /\ Defining(name, pos + 1) =
              IF text[pos + 1] = name /\ text[LineStart(pos + 1)] \in Keyword
              THEN Defining(name, pos) \cup {pos + 1} ELSE Defining(name, pos)
<1>1. pos \in Nat /\ 1 .. (pos + 1) = (1 .. pos) \cup {pos + 1} /\ 1 .. pos \in SUBSET Nat
  BY DEF ValidatorTypes
<1> QED
  BY <1>1, Zenon DEF Defining

LEMMA DefinitionsGrow ==
  ASSUME ValidatorTypes, NEW name, pos + 1 \in 1 .. Len(text),
         NEW defs, defs = Defining(name, pos), defs # {}
  PROVE  TypeFrom(Defining(name, pos + 1)) = TypeFrom(defs)
<1>1. /\ defs \in SUBSET Nat
      /\ Defining(name, pos + 1) \in {defs, defs \cup {pos + 1}}
      /\ \A d \in defs : d <= pos
      /\ pos \in Nat
  BY DefiningNext DEF Defining, ValidatorTypes
<1>2. First(defs) \in defs /\ \A d \in defs : First(defs) <= d
  BY <1>1, FirstIs
<1>3. First(defs \cup {pos + 1}) = First(defs)
  <2>1. defs \cup {pos + 1} \in SUBSET Nat
    BY <1>1
  <2>2. \A d \in defs \cup {pos + 1} : First(defs) <= d
    BY <1>1, <1>2
  <2>3. First(defs) \in defs \cup {pos + 1}
    BY <1>2
  <2> QED
    BY <2>1, <2>2, <2>3, FirstIsOnly
<1> QED
  BY <1>1, <1>3 DEF TypeFrom

\* The line of the next symbol, as the scanner's state remembers it.
LEMMA StateRemembers ==
  ASSUME ValidatorTypes, WordsInv, pos + 1 \in 1 .. Len(text), text[pos + 1] \notin Keyword
  PROVE  /\ state = "LOOKUP" => text[LineStart(pos + 1)] \notin Keyword
         /\ state # "LOOKUP" => /\ text[LineStart(pos + 1)] \in Keyword
                                /\ state = Type(text[LineStart(pos + 1)])
<1>1. pos \in Nat
  BY DEF ValidatorTypes
<1>2. CASE pos = 0
  BY <1>2, FirstOnLine DEF WordsInv
<1>3. CASE pos # 0
  <2>1. LineStart(pos + 1) = IF text[pos] = NewLine THEN pos + 1 ELSE LineStart(pos)
    BY <1>1, <1>3, NextOnLine
  <2>2. \A w : Type(w) # "LOOKUP"
    BY DEF Type
  <2> QED
    BY <1>3, <2>1, <2>2 DEF WordsInv
<1> QED
  BY <1>2, <1>3

\* A step over a symbol that defines nothing.
LEMMA NothingDefined ==
  ASSUME ValidatorTypes, WordsInv, pos + 1 \in 1 .. Len(text), pos' = pos + 1,
         UNCHANGED <<text, word_list>>,
         text[pos + 1] \notin Word \/ text[LineStart(pos + 1)] \notin Keyword
  PROVE  \A name \in Word : lookup_word(name)' = TypeFrom(Defining(name, pos))'
<1> SUFFICES ASSUME NEW name \in Word
             PROVE  lookup_word(name)' = TypeFrom(Defining(name, pos))'
  OBVIOUS
<1>1. lookup_word(name)' = lookup_word(name)
  BY DEF lookup_word
<1>2. Defining(name, pos)' = Defining(name, pos + 1) /\ Defining(name, pos + 1) = Defining(name, pos)
  BY TextStays, DefiningNext DEF Defining
<1> QED
  BY <1>1, <1>2, TextStays DEF WordsInv, TypeFrom

LEMMA StateKept ==
  ASSUME ValidatorTypes, WordsInv, pos + 1 \in 1 .. Len(text), pos' = pos + 1,
         UNCHANGED <<text, state>>, text[pos + 1] \notin Keyword \cup {NewLine}
  PROVE  (state = IF pos = 0 \/ text[pos] = NewLine \/ text[LineStart(pos)] \notin Keyword
                  THEN "LOOKUP" ELSE Type(text[LineStart(pos)]))'
<1>1. pos' # 0 /\ text'[pos'] = text[pos + 1] /\ LineStart(pos)' = LineStart(pos + 1)
  <2>1. LineStart(pos)' = LineStart(pos + 1)
    BY TextStays DEF LineStart
  <2> QED
    BY <2>1 DEF ValidatorTypes
<1> QED
  BY <1>1, StateRemembers

LEMMA WordsStep == ValidatorTypes /\ WordsInv /\ [ValidatorNext]_validator => WordsInv'
<1> SUFFICES ASSUME ValidatorTypes, WordsInv, [ValidatorNext]_validator PROVE WordsInv'
  OBVIOUS
<1> USE DEF input, reader, parser
<1>1. ASSUME UNCHANGED <<text, pos, state, word_list>> PROVE WordsInv'
  <2>1. \A name : lookup_word(name)' = lookup_word(name)
    BY <1>1 DEF lookup_word
  <2>2. /\ LineStart(pos)' = LineStart(pos)
        /\ \A name : TypeFrom(Defining(name, pos))' = TypeFrom(Defining(name, pos))
    BY <1>1 DEF LineStart, TypeFrom, Defining
  <2> QED
    BY <1>1, <2>1, <2>2 DEF WordsInv
<1>2. CASE MatchNewLine
  <2>1. Matched({NewLine})
    BY <1>2 DEF MatchNewLine
  <2>2. text[pos + 1] = NewLine /\ text[pos + 1] \notin Word
    BY <2>1, MatchedMoves, WordAssumption
  <2>3. \A name \in Word : lookup_word(name)' = TypeFrom(Defining(name, pos))'
    BY <1>2, <2>1, <2>2, MatchedMoves, NothingDefined DEF MatchNewLine
  <2>4. text'[pos'] = NewLine /\ state' = "LOOKUP"
    BY <1>2, <2>1, <2>2, MatchedMoves DEF MatchNewLine, StateAfterNewLine
  <2> QED
    BY <2>3, <2>4 DEF WordsInv
<1>3. CASE MatchKeyword
  <2>1. Matched(Keyword)
    BY <1>3 DEF MatchKeyword
  <2>2. text[pos + 1] \in Keyword /\ text[pos + 1] \notin Word /\ text[pos + 1] # NewLine
    BY <2>1, MatchedMoves, WordAssumption DEF Keyword, NewLine
  <2>3. \A name \in Word : lookup_word(name)' = TypeFrom(Defining(name, pos))'
    BY <1>3, <2>1, <2>2, MatchedMoves, NothingDefined DEF MatchKeyword
  <2>4. LineStart(pos + 1) = pos + 1
    <3>1. pos + 1 \in 1 .. Len(text) /\ StartsLine(text, pos + 1)
      BY <2>1, <2>2, MatchedMoves DEF ValidatorTypes
    <3> QED
      BY <3>1, KeywordStarts
  <2>5. LineStart(pos)' = LineStart(pos + 1)
    BY <2>1, MatchedMoves, TextStays DEF LineStart
  <2>6. state' = Type(text[pos + 1]) /\ text'[pos'] = text[pos + 1] /\ pos' # 0
    BY <1>3, <2>1, MatchedMoves DEF MatchKeyword
  <2>7. text' = text
    BY <2>1, MatchedMoves
  <2> QED
    BY <2>2, <2>3, <2>4, <2>5, <2>6, <2>7 DEF WordsInv
<1>4. CASE AddWord
  <2>1. Matched(Word)
    BY <1>4 DEF AddWord
  <2>2. /\ text[pos + 1] \in Word /\ text[pos + 1] \notin Keyword \cup {NewLine}
        /\ pos + 1 \in 1 .. Len(text) /\ pos' = pos + 1 /\ UNCHANGED <<text, state>>
    BY <1>4, <2>1, MatchedMoves, WordAssumption DEF AddWord
  <2>3. text[LineStart(pos + 1)] \in Keyword /\ state = Type(text[LineStart(pos + 1)])
    BY <1>4, <2>2, StateRemembers DEF AddWord
  <2>4. ASSUME NEW name \in Word
        PROVE  lookup_word(name)' = TypeFrom(Defining(name, pos))'
    <3> DEFINE e == [name |-> text[pos + 1], type |-> state]
               defs == Defining(name, pos)
    <3>1. TypeFrom(Defining(name, pos))' = TypeFrom(Defining(name, pos + 1))
      BY <2>2, TextStays DEF Defining, TypeFrom
    <3>2. lookup_word(name) = TypeFrom(defs)
      BY DEF WordsInv
    <3>3. \A other : lookup_word(other)' = LookupIn(word_list', other)
      BY DEF lookup_word, LookupIn, First
    <3>4. /\ e \in WordEntry
          /\ word_list' = IF lookup_word(text[pos + 1]) = "LOOKUP" THEN <<e>> \o word_list
                          ELSE word_list
      BY <1>4, <2>1, <2>2, MatchedMoves DEF AddWord, Unknown, WordEntry, ValidatorTypes
    <3>5. LookupIn(<<e>> \o word_list, name) =
            IF name = text[pos + 1] THEN state ELSE lookup_word(name)
      BY <3>4, LookupInFront, LookupIsIn DEF ValidatorTypes
    <3>6. CASE name # text[pos + 1]
      <4>1. Defining(name, pos + 1) = defs
        BY <3>6, <2>2, DefiningNext
      <4>2. lookup_word(name)' = lookup_word(name)
        BY <3>3, <3>4, <3>5, <3>6, LookupIsIn
      <4> QED
        BY <3>1, <3>2, <4>1, <4>2
    <3>7. CASE name = text[pos + 1] /\ defs = {}
      <4>1. lookup_word(name) = "LOOKUP"
        BY <3>2, <3>7 DEF TypeFrom
      <4>2. lookup_word(name)' = state
        BY <3>3, <3>4, <3>5, <3>7, <4>1
      <4>3. Defining(name, pos + 1) = {pos + 1}
        BY <2>2, <2>3, <3>7, DefiningNext
      <4>4. First({pos + 1}) = pos + 1
        BY DEF First
      <4> QED
        BY <2>3, <3>1, <4>2, <4>3, <4>4 DEF TypeFrom
    <3>8. CASE name = text[pos + 1] /\ defs # {}
      <4>1. lookup_word(name) # "LOOKUP"
        BY <3>2, <3>8 DEF TypeFrom, Type
      <4>2. lookup_word(name)' = lookup_word(name)
        BY <3>3, <3>4, <3>8, <4>1, LookupIsIn
      <4>3. TypeFrom(Defining(name, pos + 1)) = TypeFrom(defs)
        BY <2>2, <3>8, DefinitionsGrow
      <4> QED
        BY <3>1, <3>2, <4>2, <4>3
    <3> QED
      BY <3>6, <3>7, <3>8
  <2> QED
    BY <2>2, <2>4, StateKept DEF WordsInv
<1>5. CASE LookUpWord
  <2>1. Matched(Word)
    BY <1>5 DEF LookUpWord
  <2>2. text[pos + 1] \in Word /\ text[pos + 1] \notin Keyword \cup {NewLine}
    BY <2>1, MatchedMoves, WordAssumption
  <2>3. text[LineStart(pos + 1)] \notin Keyword
    BY <1>5, <2>1, <2>2, MatchedMoves, StateRemembers DEF LookUpWord
  <2>4. \A name \in Word : lookup_word(name)' = TypeFrom(Defining(name, pos))'
    BY <1>5, <2>1, <2>3, MatchedMoves, NothingDefined DEF LookUpWord
  <2>5. UNCHANGED <<text, state>> /\ pos' = pos + 1 /\ pos + 1 \in 1 .. Len(text)
    BY <1>5, <2>1, MatchedMoves DEF LookUpWord
  <2> QED
    BY <2>2, <2>4, <2>5, StateKept DEF WordsInv
<1>6. CASE MatchOther
  <2>1. Matched(Other)
    BY <1>6 DEF MatchOther
  <2>2. text[pos + 1] \notin Word /\ text[pos + 1] \notin Keyword \cup {NewLine}
    BY <2>1, MatchedMoves, WordAssumption
  <2>3. \A name \in Word : lookup_word(name)' = TypeFrom(Defining(name, pos))'
    BY <1>6, <2>1, <2>2, MatchedMoves, NothingDefined DEF MatchOther
  <2>4. UNCHANGED <<text, state>> /\ pos' = pos + 1 /\ pos + 1 \in 1 .. Len(text)
    BY <1>6, <2>1, MatchedMoves DEF MatchOther
  <2> QED
    BY <2>2, <2>3, <2>4, StateKept DEF WordsInv
<1>7. CASE Fill \/ CallParser \/ ShiftToken \/ SyntaxError \/ Test \/ UNCHANGED validator
  BY <1>1, <1>7 DEF Fill, CallParser, ShiftToken, SyntaxError, Test, validator
<1> QED
  BY <1>2, <1>3, <1>4, <1>5, <1>6, <1>7 DEF ValidatorNext

LEMMA WordsInit == ValidatorInit => WordsInv
<1> SUFFICES ASSUME ValidatorInit PROVE WordsInv
  OBVIOUS
<1>1. \A name : Defining(name, pos) = {}
  BY DEF ValidatorInit, Defining
<1>2. \A name : lookup_word(name) = "LOOKUP"
  BY LookupIsIn, LookupNothing DEF ValidatorInit
<1> QED
  BY <1>1, <1>2 DEF ValidatorInit, WordsInv, TypeFrom

-----------------------------------------------------------------------------
(* The tokens.                                                             *)

Returned == IF token \in Types THEN Append(trace, token) ELSE trace
Given(s) == {k \in DOMAIN s : s[k] \in Types}
Meant == {k \in 1 .. pos : MeaningAt(k) # "nothing"}

TokensInv ==
  /\ Cardinality(Given(Returned)) = Cardinality(Meant)
  /\ \A g \in Given(Returned), m \in Meant :
       Before(Given(Returned), g) = Before(Meant, m) => Returned[g] = MeaningAt(m)

LEMMA TokensAre == TokensInv = TokensFollowTheText
BY Zenon DEF TokensInv, TokensFollowTheText, Returned, Given, Meant, Before

LEMMA AppendTwo ==
  ASSUME NEW s \in Seq(Traced), NEW t \in Traced, NEW m \in Traced
  PROVE  s \o <<t, m>> = Append(Append(s, t), m)
OBVIOUS

\* A message does not count as a token, and a token counts once.
LEMMA GivenGrows ==
  ASSUME NEW s \in Seq(Traced), NEW t \in Traced
  PROVE  /\ Given(s) \in SUBSET Nat /\ IsFiniteSet(Given(s))
         /\ \A k \in Given(s) : k < Len(s) + 1 /\ Append(s, t)[k] = s[k]
         /\ Given(Append(s, t)) = IF t \in Types THEN Given(s) \cup {Len(s) + 1} ELSE Given(s)
<1>1. DOMAIN s = 1 .. Len(s) /\ Len(s) \in Nat
  OBVIOUS
<1>2. Given(s) \in SUBSET (1 .. Len(s))
  BY <1>1 DEF Given
<1>3. IsFiniteSet(Given(s))
  <2>1. IsFiniteSet(1 .. Len(s))
    BY <1>1, FS_Interval
  <2> QED
    BY <1>2, <2>1, FS_Subset
<1>4. \A k \in 1 .. Len(s) : Append(s, t)[k] = s[k]
  OBVIOUS
<1>5. Append(s, t)[Len(s) + 1] = t /\ DOMAIN Append(s, t) = (1 .. Len(s)) \cup {Len(s) + 1}
  OBVIOUS
<1>6. Given(Append(s, t)) = IF t \in Types THEN Given(s) \cup {Len(s) + 1} ELSE Given(s)
  BY <1>1, <1>4, <1>5 DEF Given
<1> QED
  BY <1>1, <1>2, <1>3, <1>4, <1>6

\* Steps after which the same tokens are given, at the same places.
LEMMA SameTokens ==
  ASSUME TokensInv, UNCHANGED <<text, pos>>, Given(Returned)' = Given(Returned),
         \A k \in Given(Returned) : Returned[k]' = Returned[k]
  PROVE  TokensInv'
<1>1. Meant' = Meant /\ \A k : MeaningAt(k)' = MeaningAt(k)
  BY TextStays DEF Meant
<1> DEFINE G == Given(Returned)
           R == Returned
<1>2. G' = G /\ \A k \in G : R[k]' = R[k]
  OBVIOUS
<1>3. /\ Cardinality(G) = Cardinality(Meant)
      /\ \A g \in G, m \in Meant : Before(G, g) = Before(Meant, m) => R[g] = MeaningAt(m)
  BY DEF TokensInv
<1>4. TokensInv' = (/\ Cardinality(G') = Cardinality(Meant')
                    /\ \A g \in G', m \in Meant' :
                         Before(G', g) = Before(Meant', m) => R'[g] = MeaningAt(m)')
  BY DEF TokensInv, Before
<1> HIDE DEF G, R
<1> QED
  BY <1>1, <1>2, <1>3, <1>4

\* A symbol without a meaning.
LEMMA NothingMeant ==
  ASSUME TokensInv, ValidatorTypes, text' = text, pos' = pos + 1, UNCHANGED <<token, trace>>,
         MeaningAt(pos + 1) = "nothing"
  PROVE  TokensInv'
<1>1. \A k : MeaningAt(k)' = MeaningAt(k)
  BY TextStays
<1>2. 1 .. (pos + 1) = (1 .. pos) \cup {pos + 1}
  BY DEF ValidatorTypes
<1>3. Meant' = Meant
  BY <1>1, <1>2 DEF Meant
<1>4. Returned' = Returned /\ Given(Returned)' = Given(Returned)
  BY DEF Returned, Given
<1> DEFINE G == Given(Returned)
           R == Returned
<1>5. /\ Cardinality(G) = Cardinality(Meant)
      /\ \A g \in G, m \in Meant : Before(G, g) = Before(Meant, m) => R[g] = MeaningAt(m)
  BY DEF TokensInv
<1>6. TokensInv' = (/\ Cardinality(G') = Cardinality(Meant')
                    /\ \A g \in G', m \in Meant' :
                         Before(G', g) = Before(Meant', m) => R'[g] = MeaningAt(m)')
  BY DEF TokensInv, Before
<1>7. G' = G /\ R' = R
  BY <1>4
<1> HIDE DEF G, R
<1> QED
  BY <1>1, <1>3, <1>5, <1>6, <1>7

\* A word that means something is returned as the token it means.
LEMMA TokenReturned ==
  ASSUME TokensInv, ValidatorTypes, text' = text, pos' = pos + 1, UNCHANGED trace,
         token = "none", token' \in Types, MeaningAt(pos + 1) = token'
  PROVE  TokensInv'
<1> DEFINE G == Given(trace)
           t == Len(trace) + 1
           u == pos + 1
           new == Append(trace, token')
           Fit == {p \in (G \cup {t}) \X (Meant \cup {u}) : new[p[1]] = MeaningAt(p[2])}
<1>1. \A k : MeaningAt(k)' = MeaningAt(k)
  BY TextStays
<1>2. token' \in Traced /\ trace \in Seq(Traced) /\ Len(trace) \in Nat /\ pos \in Nat
  <2>1. token' \in Traced
    BY DEF Traced
  <2>2. trace \in Seq(Traced) /\ pos \in Nat
    BY DEF ValidatorTypes
  <2> QED
    BY <2>1, <2>2
<1>3. Returned = trace /\ Returned' = new
  BY DEF Returned, Types
<1>4. MeaningAt(u) # "nothing"
  BY DEF Types
<1>5. Meant' = Meant \cup {u}
  <2>1. 1 .. (pos + 1) = (1 .. pos) \cup {pos + 1}
    BY <1>2
  <2> QED
    BY <1>1, <1>4, <2>1 DEF Meant
<1>6. /\ Meant \in SUBSET Nat /\ IsFiniteSet(Meant) /\ \A m \in Meant : m < u
  <2>1. IsFiniteSet(1 .. pos)
    BY <1>2, FS_Interval
  <2>2. Meant \in SUBSET (1 .. pos)
    BY DEF Meant
  <2>3. IsFiniteSet(Meant)
    BY <2>1, <2>2, FS_Subset
  <2> QED
    BY <1>2, <2>2, <2>3
<1>7. /\ G \in SUBSET Nat /\ IsFiniteSet(G) /\ \A g \in G : g < t /\ new[g] = trace[g]
      /\ Given(new) = G \cup {t} /\ new[t] = token'
  <2> DEFINE w == token'
  <2>1. w \in Traced /\ w \in Types
    BY <1>2
  <2> HIDE DEF w
  <2>2. /\ Given(trace) \in SUBSET Nat /\ IsFiniteSet(Given(trace))
        /\ \A k \in Given(trace) : k < Len(trace) + 1 /\ Append(trace, w)[k] = trace[k]
        /\ Given(Append(trace, w)) = Given(trace) \cup {Len(trace) + 1}
    BY <1>2, <2>1, GivenGrows
  <2>3. Append(trace, w)[Len(trace) + 1] = w
    BY <1>2, <2>1
  <2> QED
    BY <2>2, <2>3 DEF w
<1>8. /\ Cardinality(G) = Cardinality(Meant)
      /\ \A g \in G, m \in Meant : Before(G, g) = Before(Meant, m) => trace[g] = MeaningAt(m)
  BY <1>3 DEF TokensInv
<1>9. TokensInv' = (/\ Cardinality(Given(new)) = Cardinality(Meant')
                    /\ \A g \in Given(new), m \in Meant' :
                         Before(Given(new), g) = Before(Meant', m) => new[g] = MeaningAt(m)')
  <2> HIDE DEF new
  <2>1. Given(Returned)' = Given(new)
    BY <1>3 DEF Given
  <2> QED
    BY <1>3, <2>1 DEF TokensInv, Before
<1>10. <<t, u>> \in Fit
  BY <1>7
<1>11. \A g \in G, m \in Meant : Before(G, g) = Before(Meant, m) => <<g, m>> \in Fit
  BY <1>7, <1>8
<1>12. t \in Nat /\ u \in Nat
  BY <1>2
<1>13. \A p \in Fit : new[p[1]] = MeaningAt(p[2])
  OBVIOUS
<1> HIDE DEF G, t, u, new, Fit
<1> DEFINE M == Meant
<1>15. /\ M \in SUBSET Nat /\ IsFiniteSet(M) /\ \A m \in M : m < u
       /\ G \in SUBSET Nat /\ IsFiniteSet(G) /\ \A g \in G : g < t
       /\ Cardinality(G) = Cardinality(M)
       /\ \A g \in G, m \in M : Before(G, g) = Before(M, m) => <<g, m>> \in Fit
  BY <1>6, <1>7, <1>8, <1>11
<1> HIDE DEF M
<1>14. /\ Cardinality(G \cup {t}) = Cardinality(M \cup {u})
       /\ \A g \in G \cup {t}, m \in M \cup {u} :
            Before(G \cup {t}, g) = Before(M \cup {u}, m) => <<g, m>> \in Fit
  BY <1>10, <1>12, <1>15, OneMoreOfEach
<1>16. \A g, m : <<g, m>> \in Fit => new[g] = MeaningAt(m)
  BY <1>13
<1> QED
  BY <1>1, <1>5, <1>7, <1>9, <1>14, <1>16 DEF M

LEMMA TokensStep ==
  ValidatorTypes /\ WordsInv /\ TokensInv /\ [ValidatorNext]_validator => TokensInv'
<1> SUFFICES ASSUME ValidatorTypes, WordsInv, TokensInv, [ValidatorNext]_validator
             PROVE  TokensInv'
  OBVIOUS
<1> USE DEF input, reader, parser
<1>1. ASSUME UNCHANGED <<text, pos, token, trace>> PROVE TokensInv'
  <2>1. Given(Returned)' = Given(Returned) /\ \A k : Returned[k]' = Returned[k]
    BY <1>1 DEF Given, Returned
  <2> QED
    BY <1>1, <2>1, SameTokens
<1>2. ASSUME NEW symbols, Matched(symbols), \A w \in symbols : w \notin Word,
             UNCHANGED <<token, trace>>
      PROVE  TokensInv'
  <2>1. MeaningAt(pos + 1) = "nothing"
    BY <1>2, MatchedMoves DEF MeaningAt
  <2> QED
    BY <1>2, <2>1, MatchedMoves, NothingMeant
<1>3. CASE MatchNewLine \/ MatchKeyword \/ MatchOther
  <2>1. \E symbols : Matched(symbols) /\ \A w \in symbols : w \notin Word
    BY <1>3, WordAssumption DEF MatchNewLine, MatchKeyword, MatchOther
  <2> QED
    BY <1>2, <1>3, <2>1 DEF MatchNewLine, MatchKeyword, MatchOther
<1>4. CASE AddWord
  <2>1. Matched(Word)
    BY <1>4 DEF AddWord
  <2>2. text[pos + 1] \notin Keyword /\ pos + 1 \in 1 .. Len(text)
    BY <2>1, MatchedMoves, WordAssumption
  <2>3. text[LineStart(pos + 1)] \in Keyword
    BY <1>4, <2>2, StateRemembers DEF AddWord
  <2>4. MeaningAt(pos + 1) = "nothing"
    BY <2>3 DEF MeaningAt
  <2> QED
    BY <1>4, <2>1, <2>4, MatchedMoves, NothingMeant DEF AddWord
<1>5. CASE LookUpWord
  <2> DEFINE word == text[pos + 1]
             defs == Defining(word, pos)
  <2>1. Matched(Word)
    BY <1>5 DEF LookUpWord
  <2>2. /\ word \in Word /\ word \notin Keyword /\ pos + 1 \in 1 .. Len(text)
        /\ Next1 = word
    BY <2>1, MatchedMoves, WordAssumption
  <2>3. text[LineStart(pos + 1)] \notin Keyword
    BY <1>5, <2>2, StateRemembers DEF LookUpWord
  <2>4. lookup_word(word) = TypeFrom(defs)
    BY <2>2 DEF WordsInv
  <2>5. Definitions(pos + 1) = defs
    <3>1. (pos + 1) - 1 = pos
      BY DEF ValidatorTypes
    <3> QED
      BY <3>1 DEF Definitions, Defining
  <2>6. MeaningAt(pos + 1) = IF defs = {} THEN "nothing" ELSE TypeFrom(defs)
    <3> DEFINE d == CHOOSE d \in Definitions(pos + 1) : \A e \in Definitions(pos + 1) : d <= e
    <3>1. MeaningAt(pos + 1) = IF defs = {} THEN "nothing" ELSE Type(text[LineStart(d)])
      BY <2>2, <2>3, <2>5 DEF MeaningAt
    <3>2. d = First(defs)
      BY <2>5 DEF First
    <3> QED
      BY <3>1, <3>2 DEF TypeFrom
  <2>7. TypeFrom(defs) # "LOOKUP" => defs # {} /\ TypeFrom(defs) \in Types
    BY DEF TypeFrom, Type, Types
  <2>8. TypeFrom(defs) = "LOOKUP" => defs = {}
    BY DEF TypeFrom, Type
  <2>9. CASE TypeFrom(defs) = "LOOKUP"
    <3>1. MeaningAt(pos + 1) = "nothing" /\ UNCHANGED <<token, trace>>
      BY <1>5, <2>2, <2>4, <2>6, <2>8, <2>9 DEF LookUpWord
    <3> QED
      BY <2>1, <3>1, MatchedMoves, NothingMeant
  <2>10. CASE TypeFrom(defs) # "LOOKUP"
    <3>1. MeaningAt(pos + 1) = token' /\ token' \in Types /\ UNCHANGED trace
      BY <1>5, <2>2, <2>4, <2>6, <2>7, <2>10 DEF LookUpWord
    <3> QED
      BY <2>1, <3>1, MatchedMoves, TokenReturned
  <2> QED
    BY <2>9, <2>10
<1>6. ASSUME token \notin Types, token' \notin Types, NEW t \in Traced, t \notin Types,
             trace' = Append(trace, t), UNCHANGED <<text, pos>>
      PROVE  TokensInv'
  <2>1. trace \in Seq(Traced)
    BY DEF ValidatorTypes
  <2>2. Returned = trace /\ Returned' = Append(trace, t)
    BY <1>6 DEF Returned
  <2>3. Given(Returned)' = Given(Append(trace, t))
    BY <2>2 DEF Given
  <2>4. Given(Append(trace, t)) = Given(trace)
        /\ \A k \in Given(trace) : Append(trace, t)[k] = trace[k]
    BY <1>6, <2>1, GivenGrows
  <2> QED
    BY <1>6, <2>2, <2>3, <2>4, SameTokens
<1>7. CASE CallParser
  <2>1. token = "none"
    BY <1>7 DEF CallParser, ValidatorTypes
  <2>2. "yyparse" \in Traced /\ "yyparse" \notin Types /\ "none" \notin Types
    BY DEF Traced, Types
  <2> QED
    BY <1>6, <1>7, <2>1, <2>2 DEF CallParser
\* What the parser adds to the trace is the token that was returned to it, and messages.
<1>8. ASSUME token \in Traced, token' = "none", UNCHANGED <<text, pos>>,
             \/ trace' = Append(trace, token)
             \/ \E m \in {"expression is valid", "syntax error"} : trace' = trace \o <<token, m>>
      PROVE  TokensInv'
  <2>1. trace \in Seq(Traced) /\ Append(trace, token) \in Seq(Traced) /\ "none" \notin Types
    <3>1. trace \in Seq(Traced)
      BY DEF ValidatorTypes
    <3>2. "none" \notin Types
      BY DEF Types
    <3> QED
      BY <1>8, <3>1, <3>2, TypesAppend
  <2>2. /\ Given(Append(trace, token)) = Given(Returned)
        /\ \A k \in Given(Returned) : Append(trace, token)[k] = Returned[k]
    BY <1>8, <2>1, GivenGrows DEF Returned
  <2>3. CASE trace' = Append(trace, token)
    <3>1. Returned' = Append(trace, token)
      BY <1>8, <2>1, <2>3 DEF Returned
    <3>2. Given(Returned)' = Given(Append(trace, token))
      BY <3>1 DEF Given
    <3> QED
      BY <1>8, <2>2, <3>1, <3>2, SameTokens
  <2>4. CASE trace' # Append(trace, token)
    <3>1. PICK m \in {"expression is valid", "syntax error"} : trace' = trace \o <<token, m>>
      BY <1>8, <2>4
    <3>2. m \in Traced /\ m \notin Types
      BY <3>1 DEF Traced, Types
    <3>3. trace' = Append(Append(trace, token), m)
      <4>1. trace \o <<token, m>> = Append(Append(trace, token), m)
        BY <1>8, <2>1, <3>2, AppendTwo
      <4> QED
        BY <3>1, <4>1
    <3> DEFINE s == Append(trace, token)
    <3>4. Given(Append(s, m)) = Given(s) /\ \A k \in Given(s) : Append(s, m)[k] = s[k]
      <4> HIDE DEF s
      <4> QED
        BY <2>1, <3>2, GivenGrows DEF s
    <3>5. Returned' = Append(s, m)
      BY <1>8, <2>1, <3>3 DEF Returned
    <3>6. Given(Returned)' = Given(Append(s, m))
      BY <3>5 DEF Given
    <3> HIDE DEF s
    <3> QED
      BY <1>8, <2>2, <3>4, <3>5, <3>6, SameTokens DEF s
  <2> QED
    BY <2>3, <2>4
<1>9. CASE ShiftToken
  <2>1. token \in Traced
    BY <1>9 DEF ValidatorTypes, Traced, ShiftToken
  <2>2. trace' = Append(trace, token) \/ trace' = trace \o <<token, "expression is valid">>
    BY <1>9 DEF ShiftToken
  <2> QED
    BY <1>8, <1>9, <2>1, <2>2 DEF ShiftToken
<1>10. CASE SyntaxError
  <2>1. token \in Traced
    BY <1>10 DEF ValidatorTypes, Traced, SyntaxError
  <2> QED
    BY <1>8, <1>10, <2>1 DEF SyntaxError
<1>11. CASE Fill
  <2>1. token = "none" /\ token' \in {"none", "end"} /\ UNCHANGED <<text, pos, trace>>
    BY <1>11 DEF Fill, ValidatorTypes
  <2>2. "none" \notin Types /\ "end" \notin Types
    BY DEF Types
  <2>3. Returned' = Returned /\ Given(Returned)' = Given(Returned)
    BY <2>1, <2>2 DEF Returned, Given
  <2> QED
    BY <2>1, <2>3, SameTokens
<1>12. CASE Test \/ UNCHANGED validator
  BY <1>1, <1>12 DEF Test, validator
<1> QED
  BY <1>3, <1>4, <1>5, <1>7, <1>9, <1>10, <1>11, <1>12 DEF ValidatorNext

LEMMA TokensInit == ValidatorInit => TokensInv
<1> SUFFICES ASSUME ValidatorInit PROVE TokensInv
  OBVIOUS
<1>1. Returned = <<>> /\ Meant = {}
  BY DEF ValidatorInit, Returned, Meant, Types
<1>2. Given(Returned) = {}
  BY <1>1 DEF Given
<1> QED
  BY <1>1, <1>2 DEF TokensInv

\* What the scanner returns is what the text means, for every text, whatever it
\* defines, and however reads divide it (symbol_table.l).
THEOREM TokensAreTheText == ValidatorSpec => []TokensFollowTheText
<1>1. ValidatorInit => ValidatorTypes /\ WordsInv /\ TokensInv
  BY TypesInit, WordsInit, TokensInit
<1>2. ValidatorTypes /\ WordsInv /\ TokensInv /\ [ValidatorNext]_validator
        => (ValidatorTypes /\ WordsInv /\ TokensInv)'
  BY TypesStep, WordsStep, TokensStep
<1>3. TokensInv => TokensFollowTheText
  BY TokensAre
<1> QED
  BY <1>1, <1>2, <1>3, PTL DEF ValidatorSpec

-----------------------------------------------------------------------------
(* The parser.                                                             *)

\* The parser's stacks by the number of the tokens on them, and what a trace
\* ends with when the parser has them.
Opening == <<"yyparse", "INTEGER", "BINOP", "INTEGER">>
Verdict == "expression is valid"

EndsWith(s, k, n) == k >= n /\ \A i \in 1 .. n : s[k - n + i] = Opening[i]

Judged(s) ==
  /\ \A k \in 1 .. Len(s) : s[k] = Verdict <=> EndsWith(s, k - 1, 4)
  /\ ~EndsWith(s, Len(s), 4)

Shifted(n) == IF n = 1 THEN <<>> ELSE IF n = 2 THEN <<"INTEGER">> ELSE <<"INTEGER", "BINOP">>

\* The stack is what the trace ends with.
StackInv ==
  /\ stack = <<"expression">> \/ \E n \in 1 .. 3 : stack = Shifted(n)
  /\ pc \in {"yylex", "yyparse"} =>
       IF stack = <<"expression">>
       THEN Len(trace) > 0 /\ trace[Len(trace)] = Verdict
       ELSE \E n \in 1 .. 3 : stack = Shifted(n) /\ EndsWith(trace, Len(trace), n)

LEMMA Literals ==
  /\ Verdict \in Traced /\ \A i \in 1 .. 4 : Opening[i] \in Traced /\ Opening[i] # Verdict
  /\ \A i \in 2 .. 4 : Opening[i] # Opening[1]
  /\ \A i \in 1 .. 2 : Opening[i] # Opening[3] /\ Opening[4] # Opening[3]
<1>1. Opening[1] = "yyparse" /\ Opening[2] = "INTEGER" /\ Opening[3] = "BINOP" /\ Opening[4] = "INTEGER"
  BY DEF Opening
<1>2. \A i \in 1 .. 4 : i = 1 \/ i = 2 \/ i = 3 \/ i = 4
  OBVIOUS
<1>3. \A i \in 2 .. 4 : i = 2 \/ i = 3 \/ i = 4
  OBVIOUS
<1>4. \A i \in 1 .. 2 : i = 1 \/ i = 2
  OBVIOUS
<1>5. Verdict \in Traced /\ \A i \in 1 .. 4 : Opening[i] \in Traced /\ Opening[i] # Verdict
  BY <1>1, <1>2 DEF Verdict, Traced, Types
<1>6. \A i \in 2 .. 4 : Opening[i] # Opening[1]
  BY <1>1, <1>3
<1>7. \A i \in 1 .. 2 : Opening[i] # Opening[3] /\ Opening[4] # Opening[3]
  BY <1>1, <1>4
<1> QED
  BY <1>5, <1>6, <1>7

LEMMA SubSeqIs ==
  ASSUME NEW S, NEW s \in Seq(S), NEW m \in 1 .. Len(s), NEW n \in m .. Len(s)
  PROVE  /\ SubSeq(s, m, n) \in Seq(S) /\ Len(SubSeq(s, m, n)) = n - m + 1
         /\ \A i \in 1 .. (n - m + 1) : SubSeq(s, m, n)[i] = s[m + i - 1]
OBVIOUS

LEMMA SequencesEqual ==
  ASSUME NEW S, NEW s \in Seq(S), NEW t \in Seq(S), Len(s) = Len(t),
         \A i \in 1 .. Len(s) : s[i] = t[i]
  PROVE  s = t
OBVIOUS

\* The last n entries before k as a sequence of their own.
LEMMA EndIs ==
  ASSUME NEW S, NEW s \in Seq(S), NEW end \in Seq(S), Len(end) > 0,
         NEW k \in Len(end) .. Len(s)
  PROVE  (\A i \in 1 .. Len(end) : s[k - Len(end) + i] = end[i])
           <=> SubSeq(s, k - Len(end) + 1, k) = end
<1> DEFINE n == Len(end)
           m == k - n + 1
           part == SubSeq(s, m, k)
<1>1. n \in Nat /\ Len(s) \in Nat /\ n > 0
  OBVIOUS
<1>2. n = Len(end)
  OBVIOUS
<1> HIDE DEF n
<1>3. m \in 1 .. Len(s) /\ k \in m .. Len(s) /\ k - m + 1 = n
      /\ \A i \in 1 .. n : m + i - 1 = k - n + i
  BY <1>1, <1>2
<1>4. part \in Seq(S) /\ Len(part) = n /\ \A i \in 1 .. n : part[i] = s[k - n + i]
  BY <1>3, SubSeqIs
<1> HIDE DEF m, part
<1>5. (\A i \in 1 .. n : part[i] = end[i]) <=> part = end
  BY <1>2, <1>4, SequencesEqual
<1>6. (\A i \in 1 .. n : s[k - n + i] = end[i]) <=> part = end
  BY <1>4, <1>5
<1> QED
  BY <1>2, <1>6 DEF m, part

LEMMA JudgedIs == ValidatorTypes => (Judged(trace) => ValidIsOneExpression)
<1>1. Opening \in Seq(Traced) /\ Len(Opening) = 4
  BY DEF Opening, Traced, Types
<1>2. ASSUME NEW s \in Seq(Traced), Judged(s), NEW k \in 1 .. Len(s)
      PROVE  s[k] = Verdict <=> k > 4 /\ SubSeq(s, k - 4, k - 1) = Opening
  <2>1. s[k] = Verdict <=> EndsWith(s, k - 1, 4)
    BY <1>2 DEF Judged
  <2>2. k \in Nat /\ Len(s) \in Nat /\ k <= Len(s) /\ (k > 4 <=> k - 1 >= 4)
    BY <1>2
  <2>3. CASE k > 4
    <3>1. k - 1 \in Len(Opening) .. Len(s) /\ (k - 1) - 4 + 1 = k - 4
      BY <1>1, <2>2, <2>3
    <3>2. (\A i \in 1 .. 4 : s[(k - 1) - 4 + i] = Opening[i])
            <=> SubSeq(s, (k - 1) - 4 + 1, k - 1) = Opening
      BY <1>1, <3>1, EndIs
    <3> QED
      BY <2>1, <2>2, <2>3, <3>1, <3>2 DEF EndsWith
  <2> QED
    BY <2>1, <2>2, <2>3 DEF EndsWith
<1>3. ASSUME ValidatorTypes, Judged(trace), NEW k \in DOMAIN trace
      PROVE  trace[k] = Verdict <=> k > 4 /\ SubSeq(trace, k - 4, k - 1) = Opening
  <2>1. trace \in Seq(Traced)
    BY <1>3 DEF ValidatorTypes
  <2>2. DOMAIN trace = 1 .. Len(trace)
    BY <2>1
  <2> QED
    BY <1>2, <1>3, <2>1, <2>2
<1> QED
  BY <1>3 DEF ValidIsOneExpression, Verdict, Opening

\* What a sequence ends with, when it gets one more entry.
LEMMA EndsAppend ==
  ASSUME NEW S, NEW s \in Seq(S), NEW t \in S
  PROVE  /\ Append(s, t) \in Seq(S) /\ Len(Append(s, t)) = Len(s) + 1
         /\ Append(s, t)[Len(s) + 1] = t
         /\ \A k \in 1 .. Len(s) : Append(s, t)[k] = s[k]
         /\ \A k \in 0 .. Len(s), n \in 1 .. 4 : EndsWith(Append(s, t), k, n) <=> EndsWith(s, k, n)
         /\ \A n \in 1 .. 4 : EndsWith(Append(s, t), Len(s) + 1, n) =>
              /\ t = Opening[n]
              /\ \A m \in 1 .. 3 : m + 1 = n => EndsWith(s, Len(s), m)
         /\ \A m \in 1 .. 3 : EndsWith(s, Len(s), m) /\ t = Opening[m + 1]
              => EndsWith(Append(s, t), Len(s) + 1, m + 1)
<1> DEFINE l == Len(s)
           one == Append(s, t)
<1>1. l \in Nat
  OBVIOUS
<1>2. one \in Seq(S) /\ Len(one) = l + 1 /\ one[l + 1] = t /\ \A k \in 1 .. l : one[k] = s[k]
  OBVIOUS
<1> HIDE DEF l, one
<1>3. ASSUME NEW k \in 0 .. l, NEW n \in 1 .. 4
      PROVE  EndsWith(one, k, n) <=> EndsWith(s, k, n)
  <2>1. k >= n => \A i \in 1 .. n : k - n + i \in 1 .. l
    BY <1>1
  <2> QED
    BY <1>2, <2>1 DEF EndsWith
<1>4. ASSUME NEW n \in 1 .. 4, EndsWith(one, l + 1, n)
      PROVE  t = Opening[n] /\ \A m \in 1 .. 3 : m + 1 = n => EndsWith(s, l, m)
  <2>1. n \in 1 .. n /\ (l + 1) - n + n = l + 1
    BY <1>1
  <2>0. \A i \in 1 .. n : one[(l + 1) - n + i] = Opening[i]
    BY <1>4, Zenon DEF EndsWith
  <2>2. one[l + 1] = Opening[n]
    <3>1. one[(l + 1) - n + n] = Opening[n]
      BY <2>0, <2>1, Zenon
    <3> QED
      BY <2>1, <3>1, Zenon
  <2>3. ASSUME NEW m \in 1 .. 3, m + 1 = n PROVE EndsWith(s, l, m)
    <3>1. l >= m /\ \A i \in 1 .. m : i \in 1 .. n /\ l - m + i \in 1 .. l
                       /\ (l + 1) - n + i = l - m + i
      BY <1>1, <1>4, <2>3 DEF EndsWith
    <3>2. \A i \in 1 .. m : one[l - m + i] = Opening[i]
      <4> TAKE i \in 1 .. m
      <4>1. one[(l + 1) - n + i] = Opening[i] /\ (l + 1) - n + i = l - m + i
        BY <2>0, <3>1, Zenon
      <4> QED
        BY <4>1, Zenon
    <3> QED
      BY <1>2, <3>1, <3>2 DEF EndsWith
  <2> QED
    BY <1>2, <2>2, <2>3
<1>5. ASSUME NEW m \in 1 .. 3, EndsWith(s, l, m), t = Opening[m + 1]
      PROVE  EndsWith(one, l + 1, m + 1)
  <2>1. l >= m /\ l + 1 >= m + 1
    BY <1>1, <1>5 DEF EndsWith
  <2>2. ASSUME NEW i \in 1 .. (m + 1) PROVE one[(l + 1) - (m + 1) + i] = Opening[i]
    <3>1. CASE i = m + 1
      <4>1. (l + 1) - (m + 1) + i = l + 1
        BY <1>1, <3>1
      <4> QED
        BY <1>2, <1>5, <3>1, <4>1
    <3>2. CASE i # m + 1
      <4>1. i \in 1 .. m /\ (l + 1) - (m + 1) + i = l - m + i /\ l - m + i \in 1 .. l
        BY <1>1, <2>1, <3>2
      <4>2. s[l - m + i] = Opening[i]
        BY <1>5, <4>1 DEF EndsWith
      <4> QED
        BY <1>2, <4>1, <4>2
    <3> QED
      BY <3>1, <3>2
  <2> QED
    BY <2>1, <2>2, Zenon DEF EndsWith
<1> QED
  BY <1>2, <1>3, <1>4, <1>5 DEF l, one

LEMMA JudgedAppend ==
  ASSUME NEW s \in Seq(Traced), NEW t \in Traced, Judged(s), t # Verdict
  PROVE  /\ ~EndsWith(Append(s, t), Len(s) + 1, 4) => Judged(Append(s, t))
         /\ EndsWith(Append(s, t), Len(s) + 1, 4) => Judged(Append(Append(s, t), Verdict))
<1> DEFINE l == Len(s)
           one == Append(s, t)
           two == Append(one, Verdict)
<1>1. l \in Nat
  OBVIOUS
<1>2. /\ one \in Seq(Traced) /\ Len(one) = l + 1 /\ one[l + 1] = t
      /\ \A k \in 1 .. l : one[k] = s[k]
      /\ \A k \in 0 .. l : EndsWith(one, k, 4) <=> EndsWith(s, k, 4)
  <2>1. 4 \in 1 .. 4
    OBVIOUS
  <2> QED
    BY <2>1, EndsAppend
<1>3. /\ Len(two) = l + 2 /\ two[l + 2] = Verdict
      /\ \A k \in 1 .. (l + 1) : two[k] = one[k]
      /\ \A k \in 0 .. (l + 1) : EndsWith(two, k, 4) <=> EndsWith(one, k, 4)
      /\ ~EndsWith(two, l + 2, 4)
  <2>1. 4 \in 1 .. 4 /\ (l + 1) + 1 = l + 2
    BY <1>1
  <2>2. Verdict \in Traced /\ Verdict # Opening[4]
    BY <2>1, Literals
  <2> HIDE DEF l, one
  <2> QED
    BY <1>2, <2>1, <2>2, EndsAppend
<1>4. /\ \A k \in 1 .. l : s[k] = Verdict <=> EndsWith(s, k - 1, 4)
      /\ ~EndsWith(s, l, 4)
  BY DEF Judged
<1>5. l = Len(s)
  OBVIOUS
<1> HIDE DEF l, one, two
<1>6. ASSUME NEW k \in 1 .. (l + 1)
      PROVE  one[k] = Verdict <=> EndsWith(one, k - 1, 4)
  <2>1. CASE k = l + 1
    <3>1. k - 1 = l /\ l \in 0 .. l
      BY <1>1, <2>1
    <3> QED
      BY <1>2, <1>4, <2>1, <3>1
  <2>2. CASE k # l + 1
    <3>1. k \in 1 .. l /\ k - 1 \in 0 .. l
      BY <1>1, <2>2
    <3> QED
      BY <3>1, <1>2, <1>4
  <2> QED
    BY <2>1, <2>2
<1>7. ~EndsWith(one, l + 1, 4) => Judged(one)
  BY <1>2, <1>6 DEF Judged
<1>8. ASSUME EndsWith(one, l + 1, 4) PROVE Judged(two)
  <2>1. ASSUME NEW k \in 1 .. (l + 2)
        PROVE  two[k] = Verdict <=> EndsWith(two, k - 1, 4)
    <3>1. CASE k = l + 2
      <4>1. k - 1 = l + 1 /\ l + 1 \in 0 .. (l + 1)
        BY <1>1, <3>1
      <4> QED
        BY <3>1, <4>1, <1>3, <1>8
    <3>2. CASE k # l + 2
      <4>1. k \in 1 .. (l + 1) /\ k - 1 \in 0 .. (l + 1)
        BY <1>1, <3>2
      <4> QED
        BY <4>1, <1>3, <1>6
    <3> QED
      BY <3>1, <3>2
  <2> QED
    BY <2>1, <1>3 DEF Judged
<1> QED
  BY <1>5, <1>7, <1>8 DEF one, two

LEMMA AppendSecond ==
  ASSUME NEW S, NEW s \in Seq(S), NEW t \in S
  PROVE  Len(s) = 1 => Append(s, t) = <<s[1], t>>
<1> DEFINE w == Append(s, t)
<1>1. w \in Seq(S) /\ Len(w) = Len(s) + 1 /\ w[Len(s) + 1] = t
      /\ \A k \in 1 .. Len(s) : w[k] = s[k]
  BY EndsAppend
<1> HIDE DEF w
<1>2. ASSUME Len(s) = 1 PROVE w = <<s[1], t>>
  <2>1. 1 \in 1 .. 1 /\ 1 + 1 = 2
    OBVIOUS
  <2>2. Len(w) = 2 /\ w[1] = s[1] /\ w[2] = t
    BY <1>1, <1>2, <2>1, Zenon
  <2> DEFINE a == w[1]
             v == <<a, t>>
  <2>3. a \in S
    BY <1>1, <2>2, SMT
  <2>4. v[1] = a /\ v[2] = t
    OBVIOUS
  <2> HIDE DEF a
  <2>5. v \in Seq(S) /\ Len(v) = 2
    BY <2>3
  <2> HIDE DEF v
  <2>6. \A i \in 1 .. 2 : v[i] = w[i]
    <3>1. \A i \in 1 .. 2 : i = 1 \/ i = 2
      OBVIOUS
    <3> QED
      BY <2>2, <2>4, <3>1 DEF a
  <2>7. v = w
    BY <1>1, <2>2, <2>5, <2>6, SequencesEqual
  <2> QED
    BY <2>2, <2>7 DEF a, v
<1> QED
  BY <1>2 DEF w

\* The parser's stack has the shape StackInv gives it, by the number of
\* tokens shifted.
LEMMA ExpectedIs ==
  /\ \A n \in 1 .. 3 : stack = Shifted(n) =>
       /\ Expected = Opening[n + 1] /\ (Len(stack) = 2 <=> n = 3)
       /\ n < 3 => Append(stack, Opening[n + 1]) = Shifted(n + 1)
       /\ stack # <<"expression">>
  /\ stack = <<"expression">> => Expected = "end"
  /\ \A m, n \in 1 .. 3 : Shifted(m) = Shifted(n) => m = n
<1>0. \A n \in 1 .. 3 : n = 1 \/ n = 2 \/ n = 3
  OBVIOUS
<1>a. Len(<<>>) = 0 /\ Len(<<"INTEGER">>) = 1 /\ Len(<<"INTEGER", "BINOP">>) = 2
      /\ Len(<<"expression">>) = 1
  OBVIOUS
<1>b. <<"INTEGER">> # <<"expression">>
  <2>1. <<"INTEGER">>[1] = "INTEGER" /\ <<"expression">>[1] = "expression"
    OBVIOUS
  <2> QED
    BY <2>1
<1>c. Shifted(1) = <<>> /\ Shifted(2) = <<"INTEGER">> /\ Shifted(3) = <<"INTEGER", "BINOP">>
  BY DEF Shifted
<1>d. Opening[2] = "INTEGER" /\ Opening[3] = "BINOP" /\ Opening[4] = "INTEGER"
  BY DEF Opening
<1>e. <<>> # <<"INTEGER">> /\ <<>> # <<"INTEGER", "BINOP">> /\ <<>> # <<"expression">>
      /\ <<"INTEGER">> # <<"INTEGER", "BINOP">> /\ <<"expression">> # <<"INTEGER", "BINOP">>
  BY <1>a
<1>f. /\ Append(<<>>, "INTEGER") = <<"INTEGER">>
      /\ Append(<<"INTEGER">>, "BINOP") = <<"INTEGER", "BINOP">>
  <2> DEFINE u == <<"INTEGER">>
  <2>0. "INTEGER" \in Types
    BY DEF Types
  <2>1. u \in Seq(Types) /\ Len(u) = 1 /\ u[1] = "INTEGER"
    BY <2>0
  <2>2. "BINOP" \in Types
    BY DEF Types
  <2>3. Append(<<>>, "INTEGER") = <<"INTEGER">>
    OBVIOUS
  <2> HIDE DEF u
  <2>4. Append(u, "BINOP") = <<u[1], "BINOP">>
    BY <2>1, <2>2, AppendSecond
  <2> QED
    BY <2>1, <2>3, <2>4, Zenon DEF u
<1>1. stack = <<>> => Expected = "INTEGER"
  BY DEF Expected
<1>2. stack = <<"INTEGER">> => Expected = "BINOP"
  BY <1>e, Zenon DEF Expected
<1>3. stack = <<"INTEGER", "BINOP">> => Expected = "INTEGER"
  BY <1>e, Zenon DEF Expected
<1>4. stack = <<"expression">> => Expected = "end"
  BY <1>b, <1>e, Zenon DEF Expected
<1>5. stack = Shifted(1) =>
       /\ Expected = Opening[1 + 1] /\ Len(stack) = 0
       /\ Append(stack, Opening[1 + 1]) = Shifted(1 + 1)
       /\ stack # <<"expression">>
  <2>1. 1 + 1 = 2
    OBVIOUS
  <2> QED
    BY <2>1, <1>1, <1>a, <1>c, <1>d, <1>e, <1>f, Zenon
<1>6. stack = Shifted(2) =>
       /\ Expected = Opening[2 + 1] /\ Len(stack) = 1
       /\ Append(stack, Opening[2 + 1]) = Shifted(2 + 1)
       /\ stack # <<"expression">>
  <2>1. 2 + 1 = 3
    OBVIOUS
  <2> QED
    BY <2>1, <1>2, <1>a, <1>b, <1>c, <1>d, <1>e, <1>f, Zenon
<1>7. stack = Shifted(3) =>
       /\ Expected = Opening[3 + 1] /\ Len(stack) = 2
       /\ stack # <<"expression">>
  <2>1. 3 + 1 = 4
    OBVIOUS
  <2> QED
    BY <2>1, <1>3, <1>a, <1>c, <1>d, <1>e, <1>f, Zenon
<1>8. \A m, n \in 1 .. 3 : Shifted(m) = Shifted(n) => m = n
  BY <1>0, <1>c, <1>e, Zenon
<1>9. \A n \in 1 .. 3 : stack = Shifted(n) =>
       /\ Expected = Opening[n + 1] /\ (Len(stack) = 2 <=> n = 3)
       /\ n < 3 => Append(stack, Opening[n + 1]) = Shifted(n + 1)
       /\ stack # <<"expression">>
  <2>1. TAKE n \in 1 .. 3
  <2>2. CASE n = 1
    <3>1. Len(stack) = 0 => Len(stack) # 2
      OBVIOUS
    <3> QED
      BY <2>2, <3>1, <1>5
  <2>3. CASE n = 2
    BY <2>3, <1>6
  <2>4. CASE n = 3
    <3>1. ~(n < 3)
      BY <2>4
    <3> QED
      BY <2>4, <3>1, <1>7
  <2> QED
    BY <1>0, <2>2, <2>3, <2>4
<1> QED
  BY <1>4, <1>8, <1>9

LEMMA ShiftedIsNot == \A n \in 1 .. 3 : Shifted(n) # <<"expression">>
<1>1. \A n \in 1 .. 3 : n = 1 \/ n = 2 \/ n = 3
  OBVIOUS
<1>2. <<"INTEGER">> # <<"expression">>
  <2>1. <<"INTEGER">>[1] = "INTEGER" /\ <<"expression">>[1] = "expression"
    OBVIOUS
  <2> QED
    BY <2>1
<1>3. Len(<<>>) = 0 /\ Len(<<"INTEGER", "BINOP">>) = 2 /\ Len(<<"expression">>) = 1
  OBVIOUS
<1> QED
  BY <1>1, <1>2, <1>3, Zenon DEF Shifted

\* A token that does not complete an expression.
LEMMA NotWhole ==
  ASSUME ValidatorTypes, StackInv, pc = "yyparse", NEW t \in Traced,
         ~(stack = Shifted(3) /\ t = Opening[4])
  PROVE  ~EndsWith(Append(trace, t), Len(trace) + 1, 4)
<1>1. trace \in Seq(Traced)
  BY DEF ValidatorTypes
<1>2. 4 \in 1 .. 4 /\ 3 \in 1 .. 3 /\ 3 + 1 = 4
  OBVIOUS
<1> SUFFICES ASSUME EndsWith(Append(trace, t), Len(trace) + 1, 4) PROVE FALSE
  OBVIOUS
<1>3. t = Opening[4] /\ EndsWith(trace, Len(trace), 3)
  BY <1>1, <1>2, EndsAppend
<1>4. Len(trace) \in Nat
  BY <1>1
<1>5. trace[Len(trace)] = Opening[3]
  BY <1>3, <1>4 DEF EndsWith
<1>6. stack # <<"expression">>
  <2>1. Opening[3] # Verdict
    BY Literals
  <2> QED
    BY <1>5, <2>1 DEF StackInv
<1>7. PICK n \in 1 .. 3 : stack = Shifted(n) /\ EndsWith(trace, Len(trace), n)
  BY <1>6 DEF StackInv
<1>8. trace[Len(trace)] = Opening[n]
  BY <1>4, <1>7 DEF EndsWith
<1>9. n = 1 \/ n = 2
  BY <1>3, <1>7
<1> QED
  BY <1>5, <1>8, <1>9, Literals

LEMMA StackStep ==
  ValidatorTypes /\ StackInv /\ Judged(trace) /\ [ValidatorNext]_validator
    => StackInv' /\ Judged(trace)'
<1> SUFFICES ASSUME ValidatorTypes, StackInv, Judged(trace), [ValidatorNext]_validator
             PROVE  StackInv' /\ Judged(trace)'
  OBVIOUS
<1>0. trace \in Seq(Traced)
  BY DEF ValidatorTypes
<1>1. ASSUME UNCHANGED <<stack, trace>>, pc' \in {"yylex", "yyparse"} => pc \in {"yylex", "yyparse"}
      PROVE  StackInv' /\ Judged(trace)'
  BY <1>1 DEF StackInv
<1>2. CASE Fill \/ MatchNewLine \/ MatchKeyword \/ AddWord \/ LookUpWord \/ MatchOther
  <2>1. UNCHANGED <<stack, trace>> /\ pc = "yylex"
    BY <1>2 DEF Fill, MatchNewLine, MatchKeyword, AddWord, LookUpWord, MatchOther, Matched, parser
  <2> QED
    BY <1>1, <2>1
<1>3. CASE Test \/ UNCHANGED validator
  <2>1. UNCHANGED <<stack, trace>> /\ (pc' \in {"exit", "main"} \/ pc' = pc)
    BY <1>3 DEF Test, validator, parser
  <2> QED
    BY <1>1, <2>1
<1>4. CASE CallParser
  <2>1. /\ stack' = Shifted(1) /\ trace' = Append(trace, Opening[1])
    BY <1>4 DEF CallParser, Opening, Shifted
  <2>2. 4 \in 1 .. 4 /\ 1 \in 1 .. 4 /\ 1 \in 1 .. 3 /\ 4 \in 2 .. 4
    OBVIOUS
  <2>3. Opening[1] \in Traced /\ Opening[1] # Verdict /\ Opening[1] # Opening[4]
    BY <2>2, Literals
  <2>4. Judged(trace)'
    BY <1>0, <2>1, <2>2, <2>3, EndsAppend, JudgedAppend
  <2>5. Len(trace') = Len(trace) + 1 /\ trace'[Len(trace) + 1] = Opening[1] /\ Len(trace) \in Nat
    BY <1>0, <2>1, <2>3, EndsAppend
  <2>6. EndsWith(trace', Len(trace'), 1)
    <3>1. Len(trace') - 1 + 1 = Len(trace') /\ Len(trace') >= 1 /\ \A i \in 1 .. 1 : i = 1
      BY <2>5
    <3> QED
      BY <2>5, <3>1 DEF EndsWith
  <2>7. stack' # <<"expression">>
    BY <2>1, <2>2, ShiftedIsNot
  <2> QED
    BY <2>1, <2>2, <2>4, <2>6, <2>7 DEF StackInv
<1>5. CASE ShiftToken
  <2>1. token \in Traced /\ pc = "yyparse" /\ token = Expected /\ token # Verdict
    <3>1. pc = "yyparse" /\ token = Expected
      BY <1>5 DEF ShiftToken
    <3> QED
      BY <3>1 DEF ValidatorTypes, Traced, Types, Verdict
  <2>2. CASE token = "end"
    <3>1. trace' = Append(trace, token) /\ stack' = Shifted(1) /\ pc' = "test"
      BY <1>5, <2>2 DEF ShiftToken, Shifted
    <3>2. token # Opening[4]
      BY <2>2 DEF Opening
    <3>3. Judged(trace)'
      BY <1>0, <2>1, <3>1, <3>2, NotWhole, JudgedAppend
    <3>4. pc' \notin {"yylex", "yyparse"} /\ 1 \in 1 .. 3
      BY <3>1
    <3> QED
      BY <3>1, <3>3, <3>4 DEF StackInv
  <2>3. ASSUME token # "end"
        PROVE  \E n \in 1 .. 3 : /\ stack = Shifted(n) /\ EndsWith(trace, Len(trace), n)
                                 /\ token = Opening[n + 1]
    <3>1. stack # <<"expression">>
      BY <2>1, <2>3, ExpectedIs
    <3>2. PICK n \in 1 .. 3 : stack = Shifted(n) /\ EndsWith(trace, Len(trace), n)
      BY <2>1, <3>1 DEF StackInv
    <3> QED
      BY <2>1, <3>2, ExpectedIs
  <2>4. CASE token # "end"
    <3>1. PICK n \in 1 .. 3 : /\ stack = Shifted(n) /\ EndsWith(trace, Len(trace), n)
                              /\ token = Opening[n + 1]
      BY <2>3, <2>4
    <3>2. Len(stack) = 2 <=> n = 3
      BY <3>1, ExpectedIs
    <3>3. EndsWith(Append(trace, token), Len(trace) + 1, n + 1)
      BY <1>0, <2>1, <3>1, EndsAppend
    <3>4. CASE n = 3
      <4>1. trace' = trace \o <<token, Verdict>> /\ stack' = <<"expression">>
        BY <1>5, <2>4, <3>2, <3>4 DEF ShiftToken, Verdict
      <4>2. Verdict \in Traced
        BY Literals
      <4>3. trace' = Append(Append(trace, token), Verdict)
        BY <1>0, <2>1, <4>1, <4>2, AppendTwo
      <4>4. EndsWith(Append(trace, token), Len(trace) + 1, 4)
        <5>1. n + 1 = 4
          BY <3>4
        <5> QED
          BY <3>3, <5>1
      <4>5. Judged(trace)'
        BY <1>0, <2>1, <4>3, <4>4, JudgedAppend
      <4>6. /\ Append(trace, token) \in Seq(Traced)
            /\ Len(trace') = Len(Append(trace, token)) + 1
            /\ trace'[Len(Append(trace, token)) + 1] = Verdict
        BY <1>0, <2>1, <4>2, <4>3, EndsAppend
      <4>7. Len(Append(trace, token)) \in Nat
        BY <4>6
      <4> QED
        BY <4>1, <4>5, <4>6, <4>7 DEF StackInv
    <3>5. CASE n # 3
      <4>0. n < 3 /\ n + 1 \in 1 .. 3
        BY <3>5
      <4>1. trace' = Append(trace, token) /\ stack' = Append(stack, token)
        BY <1>5, <2>4, <3>2, <3>5 DEF ShiftToken
      <4>2. stack' = Shifted(n + 1)
        BY <3>1, <4>0, <4>1, ExpectedIs
      <4>3. stack # Shifted(3)
        BY <3>1, <3>5, ExpectedIs
      <4>4. Judged(trace)'
        BY <1>0, <2>1, <4>1, <4>3, NotWhole, JudgedAppend
      <4>5. Len(trace') = Len(trace) + 1
        BY <1>0, <2>1, <4>1, EndsAppend
      <4>6. EndsWith(trace', Len(trace'), n + 1)
        BY <3>3, <4>1, <4>5
      <4>7. stack' # <<"expression">>
        BY <4>0, <4>2, ShiftedIsNot
      <4> QED
        BY <4>0, <4>2, <4>4, <4>6, <4>7 DEF StackInv
    <3> QED
      BY <3>4, <3>5
  <2> QED
    BY <2>2, <2>4
<1>6. CASE SyntaxError
  <2>1. /\ pc = "yyparse" /\ token # Expected /\ trace' = trace \o <<token, "syntax error">>
        /\ stack' = Shifted(1) /\ pc' = "test"
    BY <1>6 DEF SyntaxError, Abort, Shifted
  <2>2. token \in Traced /\ token # Verdict
    BY <2>1 DEF ValidatorTypes, Traced, Types, Verdict
  <2>3. "syntax error" \in Traced /\ "syntax error" # Verdict /\ "syntax error" # Opening[4]
    BY DEF Traced, Verdict, Opening
  <2>4. ~(stack = Shifted(3) /\ token = Opening[4])
    <3>1. 3 \in 1 .. 3 /\ 3 + 1 = 4
      OBVIOUS
    <3> QED
      BY <2>1, <3>1, ExpectedIs
  <2> DEFINE s == Append(trace, token)
             e == "syntax error"
  <2>5. s \in Seq(Traced) /\ Judged(s)
    BY <1>0, <2>1, <2>2, <2>4, NotWhole, JudgedAppend, EndsAppend
  <2>6. trace' = Append(s, e)
    BY <1>0, <2>1, <2>2, <2>3, AppendTwo
  <2>7. e \in Traced /\ e # Verdict /\ e # Opening[4]
    BY <2>3
  <2> HIDE DEF s, e
  <2>8. ~EndsWith(Append(s, e), Len(s) + 1, 4)
    <3>1. 4 \in 1 .. 4
      OBVIOUS
    <3> QED
      BY <3>1, <2>5, <2>7, EndsAppend
  <2>9. Judged(trace)'
    BY <2>5, <2>6, <2>7, <2>8, JudgedAppend
  <2>10. pc' \notin {"yylex", "yyparse"} /\ 1 \in 1 .. 3
    <3>1. pc' = "test"
      BY <2>1
    <3> QED
      BY <3>1
  <2> QED
    BY <2>1, <2>9, <2>10 DEF StackInv
<1> QED
  BY <1>2, <1>3, <1>4, <1>5, <1>6 DEF ValidatorNext

\* "expression is valid" is said of three tokens of one call, and of all such,
\* for every text and reading (expression_parser.y:10).
THEOREM ValidMeansAnExpression == ValidatorSpec => []ValidIsOneExpression
<1>1. ValidatorInit => ValidatorTypes /\ StackInv /\ Judged(trace)
  <2>1. ASSUME ValidatorInit PROVE ValidatorTypes /\ StackInv /\ Judged(trace)
    <3>1. stack = Shifted(1) /\ Len(trace) = 0 /\ pc = "main"
      BY <2>1 DEF ValidatorInit, Shifted
    <3> QED
      BY <2>1, <3>1, TypesInit DEF StackInv, Judged, EndsWith
  <2> QED
    BY <2>1
<1>2. ValidatorTypes /\ StackInv /\ Judged(trace) /\ [ValidatorNext]_validator
        => (ValidatorTypes /\ StackInv /\ Judged(trace))'
  BY TypesStep, StackStep
<1>3. ValidatorTypes /\ Judged(trace) => ValidIsOneExpression
  BY JudgedIs
<1> QED
  BY <1>1, <1>2, <1>3, PTL DEF ValidatorSpec

-----------------------------------------------------------------------------
(* The end of the input.                                                   *)

OnceInv ==
  /\ ~interactive /\ Len(text) < Block =>
       /\ pc = "main" => trace = <<>>
       /\ ~eof => filled = 0 /\ pc \in {"main", "yylex"}
       /\ \A j, k \in 1 .. Len(trace) : trace[j] = "yyparse" /\ trace[k] = "yyparse" => j = k
  /\ interactive /\ eof /\ Len(text) > 0 /\ text[Len(text)] = NewLine => pos = Len(text)
  /\ pc = "exit" => eof

LEMMA OnceStep ==
  ValidatorTypes /\ OnceInv /\ [ValidatorNext]_validator => OnceInv'
<1> SUFFICES ASSUME ValidatorTypes, OnceInv, [ValidatorNext]_validator PROVE OnceInv'
  OBVIOUS
<1>0. /\ trace \in Seq(Traced) /\ Len(trace) \in Nat /\ Len(text) \in Nat
      /\ filled \in 0 .. Len(text) /\ pos \in 0 .. filled
  BY DEF ValidatorTypes
<1> USE DEF input, reader, parser
<1>1. CASE Fill
  <2>1. /\ ~interactive /\ Len(text) < Block => Chunk.eof
        /\ interactive /\ Len(text) > 0 /\ text[Len(text)] = NewLine /\ Chunk.eof => Chunk.size = 0
        /\ Chunk.eof => Chunk.size = Len(text) - filled
    BY <1>0, ChunkIs DEF ValidatorTypes
  <2>2. /\ pos = filled /\ eof' = Chunk.eof /\ UNCHANGED <<text, interactive, pos, trace>>
        /\ pc = "yylex" /\ pc' \in {"yylex", "yyparse"}
    BY <1>1 DEF Fill
  <2>3. interactive /\ Len(text) > 0 /\ text[Len(text)] = NewLine /\ eof' => pos = Len(text)
    BY <1>0, <2>1, <2>2
  <2> QED
    BY <2>1, <2>2, <2>3 DEF OnceInv
<1>2. ASSUME NEW symbols, Matched(symbols), trace' = trace, pc' \in {"yylex", "yyparse"}
      PROVE  OnceInv'
  <2>1. /\ UNCHANGED <<text, interactive, eof, filled>> /\ filled > 0 /\ pos + 1 \in 1 .. Len(text)
        /\ pos' = pos + 1 /\ pos' \in 0 .. filled
    BY <1>2, MatchedMoves
  <2>2. interactive /\ eof /\ Len(text) > 0 /\ text[Len(text)] = NewLine => FALSE
    BY <1>0, <2>1 DEF OnceInv
  <2> QED
    BY <1>0, <1>2, <2>1, <2>2 DEF OnceInv
<1>3. CASE MatchNewLine \/ MatchKeyword \/ AddWord \/ LookUpWord \/ MatchOther
  <2>1. /\ \E symbols : Matched(symbols)
        /\ trace' = trace /\ pc' \in {"yylex", "yyparse"}
    BY <1>3 DEF MatchNewLine, MatchKeyword, AddWord, LookUpWord, MatchOther, Matched
  <2> QED
    BY <1>2, <2>1
<1>4. CASE CallParser
  <2>1. /\ UNCHANGED <<text, interactive, eof, filled, pos>> /\ pc = "main" /\ pc' = "yylex"
        /\ trace' = Append(trace, "yyparse")
    BY <1>4 DEF CallParser
  <2>2. trace = <<>> => Len(trace') = 1
    BY <2>1
  <2>3. \A j, k \in 1 .. 1 : j = k
    OBVIOUS
  <2> QED
    BY <2>1, <2>2, <2>3 DEF OnceInv
<1>5. ASSUME NEW n \in Nat, trace' \in Seq(Traced), Len(trace') = Len(trace) + n,
             \A k \in 1 .. Len(trace) : trace'[k] = trace[k],
             \A k \in (Len(trace) + 1) .. (Len(trace) + n) : trace'[k] # "yyparse",
             UNCHANGED <<text, interactive, eof, filled, pos>>,
             pc = "yyparse", pc' \in {"yylex", "test"}
      PROVE  OnceInv'
  <2>1. \A k \in 1 .. Len(trace') : trace'[k] = "yyparse" =>
           k \in 1 .. Len(trace) /\ trace[k] = "yyparse"
    <3> TAKE k \in 1 .. Len(trace')
    <3>1. k \in 1 .. Len(trace) \/ k \in (Len(trace) + 1) .. (Len(trace) + n)
      BY <1>0, <1>5
    <3> QED
      BY <3>1, <1>5
  <2> QED
    BY <1>5, <2>1 DEF OnceInv
<1>6. CASE ShiftToken
  <2>1. /\ UNCHANGED <<text, interactive, eof, filled, pos>> /\ pc = "yyparse"
        /\ pc' \in {"yylex", "test"}
        /\ trace' = Append(trace, token) \/ trace' = trace \o <<token, "expression is valid">>
    BY <1>6 DEF ShiftToken
  <2>2. token \in Traced /\ token # "yyparse"
    BY <2>1 DEF ValidatorTypes, Traced, Types
  <2>3. CASE trace' = Append(trace, token)
    <3>1. /\ trace' \in Seq(Traced) /\ Len(trace') = Len(trace) + 1
          /\ trace'[Len(trace) + 1] = token /\ \A k \in 1 .. Len(trace) : trace'[k] = trace[k]
      BY <2>2, <2>3, TraceGrows
    <3>2. \A k \in (Len(trace) + 1) .. (Len(trace) + 1) : trace'[k] # "yyparse"
      BY <1>0, <2>2, <3>1
    <3> QED
      BY <1>5, <2>1, <3>1, <3>2
  <2>4. CASE trace' = trace \o <<token, "expression is valid">>
    <3>1. /\ trace' \in Seq(Traced) /\ Len(trace') = Len(trace) + 2
          /\ trace'[Len(trace) + 1] = token /\ trace'[Len(trace) + 2] = "expression is valid"
          /\ \A k \in 1 .. Len(trace) : trace'[k] = trace[k]
      <4>1. "expression is valid" \in Traced
        BY Messages
      <4> QED
        BY <2>2, <2>4, <4>1, TraceGrowsByTwo
    <3>2. \A k \in (Len(trace) + 1) .. (Len(trace) + 2) : trace'[k] # "yyparse"
      <4>1. \A k \in (Len(trace) + 1) .. (Len(trace) + 2) : k = Len(trace) + 1 \/ k = Len(trace) + 2
        BY <1>0
      <4> QED
        BY <2>2, <3>1, <4>1
    <3> QED
      BY <1>5, <2>1, <3>1, <3>2
  <2> QED
    BY <2>1, <2>3, <2>4
<1>7. CASE SyntaxError
  <2>1. /\ UNCHANGED <<text, interactive, eof, filled, pos>> /\ pc = "yyparse" /\ pc' = "test"
        /\ trace' = trace \o <<token, "syntax error">>
    BY <1>7 DEF SyntaxError, Abort
  <2>2. token \in Traced /\ token # "yyparse"
    BY <2>1 DEF ValidatorTypes, Traced, Types
  <2>3. /\ trace' \in Seq(Traced) /\ Len(trace') = Len(trace) + 2
        /\ trace'[Len(trace) + 1] = token /\ trace'[Len(trace) + 2] = "syntax error"
        /\ \A k \in 1 .. Len(trace) : trace'[k] = trace[k]
    <3>1. "syntax error" \in Traced
      BY Messages
    <3> QED
      BY <2>1, <2>2, <3>1, TraceGrowsByTwo
  <2>4. \A k \in (Len(trace) + 1) .. (Len(trace) + 2) : trace'[k] # "yyparse"
    <3>1. \A k \in (Len(trace) + 1) .. (Len(trace) + 2) : k = Len(trace) + 1 \/ k = Len(trace) + 2
      BY <1>0
    <3> QED
      BY <2>2, <2>3, <3>1
  <2> QED
    BY <1>5, <2>1, <2>3, <2>4
<1>8. CASE Test
  <2>1. UNCHANGED <<text, interactive, eof, filled, pos, trace>> /\ pc = "test"
        /\ pc' = IF eof THEN "exit" ELSE "main"
    BY <1>8 DEF Test, AtEnd
  <2> QED
    BY <2>1 DEF OnceInv
<1>9. CASE UNCHANGED validator
  BY <1>9 DEF validator, OnceInv
<1> QED
  BY <1>1, <1>3, <1>4, <1>6, <1>7, <1>8, <1>9 DEF ValidatorNext

\* A file shorter than one read is judged by one call, and a terminal's input to
\* its last line, for every block size (expression_parser.y:18-22).
THEOREM OneReadIsOneCall == ValidatorSpec => []FileIsJudgedOnce
<1>1. ValidatorInit => ValidatorTypes /\ OnceInv
  BY TypesInit DEF ValidatorInit, OnceInv
<1>2. ValidatorTypes /\ OnceInv /\ [ValidatorNext]_validator => (ValidatorTypes /\ OnceInv)'
  BY TypesStep, OnceStep
<1>3. ValidatorTypes /\ OnceInv => FileIsJudgedOnce
  <2> SUFFICES ASSUME ValidatorTypes, OnceInv PROVE FileIsJudgedOnce
    OBVIOUS
  <2>1. DOMAIN trace = 1 .. Len(trace) /\ (text # <<>> => Len(text) > 0)
    BY DEF ValidatorTypes
  <2> QED
    BY <2>1 DEF OnceInv, FileIsJudgedOnce
<1> QED
  BY <1>1, <1>2, <1>3, PTL DEF ValidatorSpec

=============================================================================
