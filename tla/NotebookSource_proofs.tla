------------------------ MODULE NotebookSource_proofs ------------------------
(* Proofs about NotebookSource for notebooks of every length: types, the     *)
(* count of brackets, the text yymore keeps, and what is extracted.          *)
EXTENDS NotebookSource, FiniteSetTheorems, SequenceTheorems, WellFoundedInduction, TLAPS

\* The three are inductive together.
Inv == TypeOK /\ BalancedCountsOpenBrackets /\ YymoreEndsWithTheCell

\* The symbol in front of the scanner is one of the alphabet.
LEMMA HereIsSymbol ==
    ASSUME TypeOK, pos < Len(notebook)
    PROVE  Here \in Symbol /\ pos + 1 \in 0 .. Len(notebook)
<1>1. notebook \in Seq(Symbol) /\ Len(notebook) \in Nat
  BY NotebookAssumption DEF TypeOK
<1> QED
  BY <1>1 DEF TypeOK, Here

LEMMA MatchedTypes ==
    ASSUME TypeOK, NEW condition, NEW symbols, Matched(condition, symbols)
    PROVE  /\ notebook' \in Notebook /\ print_count' \in CountOnly
           /\ pos' \in 0 .. Len(notebook') /\ Here \in Symbol
           /\ start = condition /\ Here \in symbols
<1>1. Here \in Symbol /\ pos + 1 \in 0 .. Len(notebook)
  BY HereIsSymbol DEF Matched
<1> QED
  BY <1>1 DEF Matched, Step, args, TypeOK

\* A subset of the positions so far, and what one more adds to its size.
LEMMA OneMore ==
    ASSUME NEW a \in Nat, NEW b \in Nat, NEW S \in SUBSET (a .. b)
    PROVE  /\ IsFiniteSet(S) /\ Cardinality(S) \in Nat
           /\ Cardinality(S \cup {b + 1}) = Cardinality(S) + 1
<1>1. IsFiniteSet(a .. b)
  BY FS_Interval
<1>2. IsFiniteSet(S)
  BY <1>1, FS_Subset
<1>3. b + 1 \notin S
  OBVIOUS
<1> QED
  BY <1>2, <1>3, FS_AddElement, FS_CardinalityType

\* What one more symbol adds to the brackets opened and closed.
LEMMA DepthStep ==
    ASSUME NEW t, NEW k \in Nat, NEW s \in 1 .. k
    PROVE  /\ Depth(t, s, k) \in Int
           /\ Depth(t, s, k + 1) = Depth(t, s, k) + Opens(t[k + 1])
                                     - (IF t[k + 1] = "]" THEN 1 ELSE 0)
<1> DEFINE here == t[k + 1]
<1>0. s \in Nat /\ k \in Nat
  OBVIOUS
<1>1. s .. (k + 1) = (s .. k) \cup {k + 1}
  OBVIOUS
<1>2. /\ Opened(t, s, k + 1) = IF here \in {"[", "source"} THEN Opened(t, s, k) \cup {k + 1}
                                                           ELSE Opened(t, s, k)
      /\ Closed(t, s, k + 1) = IF here = "]" THEN Closed(t, s, k) \cup {k + 1}
                                             ELSE Closed(t, s, k)
  BY <1>1 DEF Opened, Closed
<1>3. Opened(t, s, k) \in SUBSET (s .. k) /\ Closed(t, s, k) \in SUBSET (s .. k)
  BY DEF Opened, Closed
<1>4. /\ Cardinality(Opened(t, s, k)) \in Nat
      /\ Cardinality(Opened(t, s, k) \cup {k + 1}) = Cardinality(Opened(t, s, k)) + 1
  BY <1>0, <1>3, OneMore, Zenon
<1>5. /\ Cardinality(Closed(t, s, k)) \in Nat
      /\ Cardinality(Closed(t, s, k) \cup {k + 1}) = Cardinality(Closed(t, s, k)) + 1
  BY <1>0, <1>3, OneMore, Zenon
<1>6. Depth(t, s, k) \in Int
  BY <1>4, <1>5 DEF Depth
<1>7. /\ Cardinality(Opened(t, s, k + 1)) = Cardinality(Opened(t, s, k)) + Opens(here)
      /\ Cardinality(Closed(t, s, k + 1)) =
            Cardinality(Closed(t, s, k)) + (IF here = "]" THEN 1 ELSE 0)
  <2> HIDE DEF here
  <2> QED
    BY <1>2, <1>4, <1>5 DEF Opens
<1> QED
  BY <1>4, <1>5, <1>6, <1>7 DEF Opens, Depth

\* An array begins with the bracket "source" ends with.
LEMMA DepthFirst ==
    ASSUME NEW t, NEW s \in Nat, t[s] = "source"
    PROVE  Depth(t, s, s) = 1
<1>1. Closed(t, s, s) = {} /\ Opened(t, s, s) = {s}
  BY DEF Closed, Opened
<1>2. Cardinality(Closed(t, s, s)) = 0 /\ Cardinality(Opened(t, s, s)) = 1
  BY <1>1, FS_EmptySet, FS_Singleton
<1> QED
  BY <1>2 DEF Depth

\* A symbol matched in a source array moves the count as it moves balanced.
LEMMA CountsOn ==
    ASSUME TypeOK, BalancedCountsOpenBrackets, NEW symbols, Matched("SOURCE", symbols),
           start' = "SOURCE", balanced' < 0,
           balanced' = balanced - Opens(Here) + (IF Here = "]" THEN 1 ELSE 0)
    PROVE  BalancedCountsOpenBrackets'
<1>1. /\ pos < Len(notebook) /\ pos' = pos + 1 /\ notebook' = notebook
      /\ start = "SOURCE" /\ pos \in Nat /\ balanced \in Int
  BY NotebookAssumption DEF Matched, Step, args, TypeOK
<1>2. PICK from \in 1 .. pos :
          notebook[from] = "source" /\ balanced + Depth(notebook, from, pos) = 0
  BY <1>1 DEF BalancedCountsOpenBrackets
<1>3. from \in 1 .. pos' /\ notebook'[from] = "source"
  BY <1>1, <1>2
<1>4. Depth(notebook, from, pos) \in Int
      /\ Depth(notebook, from, pos') = Depth(notebook, from, pos) + Opens(Here)
                                         - (IF Here = "]" THEN 1 ELSE 0)
  BY <1>1, <1>2, DepthStep, Zenon DEF Here
<1>5. balanced' + Depth(notebook, from, pos') = 0
  BY <1>1, <1>2, <1>4 DEF Opens
<1> QED
  BY <1>1, <1>3, <1>5 DEF BalancedCountsOpenBrackets

\* The array begins with the bracket "source" ends with.
LEMMA CountsFirst ==
    ASSUME TypeOK, MatchSource, balanced = 0
    PROVE  BalancedCountsOpenBrackets'
<1>1. PICK first \in Nat : first = pos + 1
  BY NotebookAssumption DEF TypeOK
<1>2. /\ pos' = first /\ notebook' = notebook /\ notebook[first] = "source"
      /\ start' = "SOURCE" /\ balanced' = -1
  BY <1>1 DEF MatchSource, Matched, Step, args, Here
<1>3. Depth(notebook, first, first) = 1
  BY <1>2, DepthFirst
<1>4. balanced' + Depth(notebook, first, first) = 0 /\ first \in 1 .. pos'
  BY <1>1, <1>2, <1>3, NotebookAssumption DEF TypeOK
<1> QED
  BY <1>2, <1>4 DEF BalancedCountsOpenBrackets

\* The initial state satisfies the invariant.
THEOREM InitInv == Init => Inv
<1> SUFFICES ASSUME Init PROVE Inv
  OBVIOUS
<1>1. TypeOK
  <2>1. notebook \in Seq(Symbol)
    BY NotebookAssumption DEF Init
  <2>2. 0 \in 0 .. Len(notebook)
    BY <2>1
  <2>3. <<>> \in Seq(Symbol) /\ <<>> \in Seq(Symbol \cup {"#"})
    OBVIOUS
  <2>4. 0 \in Int /\ 0 \in Nat /\ FALSE \in BOOLEAN
    OBVIOUS
  <2> QED
    BY <2>2, <2>3, <2>4, Zenon DEF Init, TypeOK
<1> QED
  BY <1>1 DEF Init, Inv, BalancedCountsOpenBrackets, YymoreEndsWithTheCell

\* Every step keeps the types, and the kept text in its cell.
LEMMA NextTypes ==
    Inv /\ [Next]_vars => TypeOK' /\ YymoreEndsWithTheCell'
<1> SUFFICES ASSUME Inv, [Next]_vars PROVE TypeOK' /\ YymoreEndsWithTheCell'
  OBVIOUS
<1>a. /\ yytext \in Seq(Symbol) /\ yyout \in Seq(Symbol \cup {"#"})
      /\ balanced \in Int /\ count \in Nat /\ prefix_comment \in BOOLEAN
      /\ TypeOK
  BY DEF Inv, TypeOK
<1>b. ASSUME Here \in Symbol
      PROVE  /\ Append(yytext, Here) \in Seq(Symbol)
             /\ Append(yyout, Here) \in Seq(Symbol \cup {"#"})
             /\ yyout \o yytext \o <<Here, NewLine>> \in Seq(Symbol \cup {"#"})
             /\ yyout \o yytext \o <<NewLine, "#">> \in Seq(Symbol \cup {"#"})
  BY <1>a, <1>b DEF Symbol
<1>c. <<>> \in Seq(Symbol)
  OBVIOUS
<1> USE DEF Inv, YymoreEndsWithTheCell, cell
<1>1. CASE MatchCellType \/ SkipOther
  BY <1>1, <1>a, MatchedTypes DEF MatchCellType, SkipOther, TypeOK
<1>2. CASE MatchMarkdownOrCode
  BY <1>2, <1>a, MatchedTypes DEF MatchMarkdownOrCode, PrefixOf, TypeOK
<1>3. CASE EchoInCellType
  BY <1>3, <1>a, <1>b, MatchedTypes DEF EchoInCellType, TypeOK
<1>4. CASE MatchSource
  <2>1. <<Here>> \in Seq(Symbol)
    BY <1>4, <1>a, MatchedTypes DEF MatchSource
  <2> QED
    BY <1>4, <1>a, <2>1, MatchedTypes DEF MatchSource, TypeOK
<1>5. CASE MatchText
  BY <1>5, <1>a, <1>b, MatchedTypes DEF MatchText, More, Opens, TypeOK
<1>6. CASE MatchClosing
  <2>1. /\ notebook' \in Notebook /\ print_count' \in CountOnly
        /\ pos' \in 0 .. Len(notebook')
        /\ Here \in Symbol /\ start = "SOURCE"
        /\ balanced' = balanced + 1 /\ UNCHANGED prefix_comment
    BY <1>6, <1>a, MatchedTypes DEF MatchClosing
  <2>2. CASE balanced' = 0
    <3>1. yyout' \in {yyout, yyout \o yytext \o <<Here, NewLine>>}
          /\ count' = count + 1 /\ start' = "INITIAL" /\ yytext' = <<>>
      BY <1>6, <2>2, Zenon DEF MatchClosing, NoText
    <3>2. yyout' \in Seq(Symbol \cup {"#"})
      BY <1>a, <1>b, <2>1, <3>1, Zenon
    <3>3. yytext' \in Seq(Symbol) /\ count' \in Nat
      BY <1>a, <3>1
    <3> QED
      BY <1>a, <2>1, <2>2, <3>1, <3>2, <3>3 DEF TypeOK
  <2>3. CASE balanced' # 0
    <3>1. /\ yytext' = Append(yytext, Here)
          /\ UNCHANGED <<yyout, count, start>>
      BY <1>6, <2>3 DEF MatchClosing, More
    <3> QED
      BY <1>a, <1>b, <2>1, <2>3, <3>1 DEF TypeOK
  <2> QED
    BY <2>2, <2>3
<1>7. CASE MatchBlankLine
  BY <1>7, <1>a, MatchedTypes DEF MatchBlankLine, TypeOK
<1>8. CASE MatchNewLine
  <2>1. /\ notebook' \in Notebook /\ print_count' \in CountOnly
        /\ pos' \in 0 .. Len(notebook')
        /\ Here \in Symbol /\ start = "SOURCE" /\ start' \in {"SOURCE", "undefined"}
        /\ UNCHANGED <<balanced, count, prefix_comment>>
    BY <1>8, <1>a, MatchedTypes DEF MatchNewLine
  <2>2. \/ yyout' = yyout \o yytext \o <<NewLine, "#">> /\ yytext' = <<>>
        \/ yytext' = Append(yytext, Here) /\ yyout' = yyout
        \/ yytext' = yytext /\ yyout' = yyout
    BY <1>8 DEF MatchNewLine, More
  <2>3. yyout' \in Seq(Symbol \cup {"#"})
    BY <1>a, <1>b, <2>1, <2>2, Zenon
  <2>4. yytext' \in Seq(Symbol)
    BY <1>a, <1>b, <1>c, <2>1, <2>2, Zenon
  <2> QED
    BY <1>a, <2>1, <2>3, <2>4 DEF TypeOK
<1>9. CASE UNCHANGED vars
  BY <1>9 DEF vars, TypeOK
<1> QED
  BY <1>1, <1>2, <1>3, <1>4, <1>5, <1>6, <1>7, <1>8, <1>9 DEF Next

\* Every step leaves the count of open brackets right.
LEMMA NextBalanced == Inv /\ [Next]_vars => BalancedCountsOpenBrackets'
<1> SUFFICES ASSUME Inv, [Next]_vars PROVE BalancedCountsOpenBrackets'
  OBVIOUS
<1>a. TypeOK /\ BalancedCountsOpenBrackets /\ balanced \in Int
  BY DEF Inv, TypeOK
<1> USE DEF cell
<1>1. CASE MatchCellType \/ SkipOther \/ MatchMarkdownOrCode \/ EchoInCellType
  <2>1. start' # "SOURCE" /\ balanced' = 0
    BY <1>1, <1>a DEF MatchCellType, SkipOther, MatchMarkdownOrCode, EchoInCellType,
                      Matched, BalancedCountsOpenBrackets
  <2> QED
    BY <2>1 DEF BalancedCountsOpenBrackets
<1>2. CASE MatchSource
  <2>1. balanced = 0
    BY <1>2, <1>a DEF MatchSource, Matched, BalancedCountsOpenBrackets
  <2> QED
    BY <1>2, <1>a, <2>1, CountsFirst
<1>3. CASE MatchText \/ MatchBlankLine \/ MatchNewLine
  <2>1. \E symbols : Matched("SOURCE", symbols)
    BY <1>3 DEF MatchText, MatchBlankLine, MatchNewLine
  <2>2. /\ start' \in {"SOURCE", "undefined"} /\ balanced' = balanced - Opens(Here)
        /\ Here # "]" /\ balanced < 0
    BY <1>3, <1>a DEF MatchText, MatchBlankLine, MatchNewLine, Matched, Opens,
                      BalancedCountsOpenBrackets, NewLine
  <2>3. balanced' < 0
    BY <1>a, <2>2 DEF Opens
  <2>4. balanced' = balanced - Opens(Here) + (IF Here = "]" THEN 1 ELSE 0)
    BY <1>a, <2>2 DEF Opens
  <2>5. CASE start' = "undefined"
    BY <2>5 DEF BalancedCountsOpenBrackets
  <2>6. CASE start' = "SOURCE"
    BY <1>a, <2>1, <2>2, <2>3, <2>4, <2>6, CountsOn
  <2> QED
    BY <2>2, <2>5, <2>6
<1>4. CASE MatchClosing
  <2>1. /\ Matched("SOURCE", {"]"}) /\ Here = "]" /\ start = "SOURCE"
        /\ balanced' = balanced + 1 /\ balanced < 0
    BY <1>4, <1>a DEF MatchClosing, Matched, BalancedCountsOpenBrackets
  <2>2. CASE balanced' = 0
    BY <1>4, <2>2 DEF MatchClosing, BalancedCountsOpenBrackets
  <2>3. CASE balanced' # 0
    <3>1. /\ start' = "SOURCE" /\ balanced' < 0
          /\ balanced' = balanced - Opens(Here) + (IF Here = "]" THEN 1 ELSE 0)
      BY <1>4, <1>a, <2>1, <2>3 DEF MatchClosing, Opens
    <3> QED
      BY <1>a, <2>1, <3>1, CountsOn
  <2> QED
    BY <2>2, <2>3
<1>5. CASE UNCHANGED vars
  BY <1>5, <1>a DEF vars, BalancedCountsOpenBrackets, Opened, Closed
<1> QED
  BY <1>1, <1>2, <1>3, <1>4, <1>5 DEF Next

\* Every step satisfies the invariant again.
THEOREM NextInv == Inv /\ [Next]_vars => Inv'
  BY NextTypes, NextBalanced DEF Inv

-----------------------------------------------------------------------------
\* Every variable keeps its type.
THEOREM TypeCorrect == Spec => []TypeOK
<1>1. Inv => TypeOK
  BY DEF Inv
<1> QED
  BY InitInv, NextInv, <1>1, PTL DEF Spec

\* For every notebook, the brackets of a source array never count for another
\* cell.
THEOREM BracketsAreBalanced == Spec => []BalancedCountsOpenBrackets
<1>1. Inv => BalancedCountsOpenBrackets
  BY DEF Inv
<1> QED
  BY InitInv, NextInv, <1>1, PTL DEF Spec

\* For every notebook, yymore keeps no text past the end of a source array.
THEOREM KeptTextEnds == Spec => []YymoreEndsWithTheCell
<1>1. Inv => YymoreEndsWithTheCell
  BY DEF Inv
<1> QED
  BY InitInv, NextInv, <1>1, PTL DEF Spec

-----------------------------------------------------------------------------
(* The arrays of a text.                                                   *)

LEMMA SourceIsPlace ==
    ASSUME NEW t \in Seq(Symbol), NEW s \in Sources(t)
    PROVE  s \in 1 .. Len(t) /\ s \in Nat /\ Len(t) \in Nat /\ t[s] = "source" /\ t[s] \in Key
  BY DEF Sources, Key

\* An array reaches from its key to the bracket that closes it.
LEMMA ArrayFirst ==
    ASSUME NEW t \in Seq(Symbol), NEW s \in Sources(t)
    PROVE  s \in ArrayAt(t, s) /\ Depth(t, s, s) = 1
<1>1. s \in s .. Len(t) /\ s .. (s - 1) = {}
  BY SourceIsPlace
<1> QED
  BY <1>1, SourceIsPlace, DepthFirst DEF ArrayAt

LEMMA ArrayIsInside ==
    ASSUME NEW t \in Seq(Symbol), NEW s \in Sources(t), NEW k \in ArrayAt(t, s)
    PROVE  /\ k \in s .. Len(t) /\ k \in Nat
           /\ \A j \in s .. (k - 1) : j \in ArrayAt(t, s) /\ Depth(t, s, j) > 0
  BY SourceIsPlace DEF ArrayAt

LEMMA ArrayGoesOn ==
    ASSUME NEW t \in Seq(Symbol), NEW s \in Sources(t), NEW k \in ArrayAt(t, s),
           Depth(t, s, k) > 0, k < Len(t)
    PROVE  k + 1 \in ArrayAt(t, s)
<1>1. k \in s .. Len(t) /\ k \in Nat /\ s \in Nat /\ Len(t) \in Nat
  BY ArrayIsInside, SourceIsPlace
<1>2. k + 1 \in s .. Len(t)
  BY <1>1
<1>3. \A j \in s .. ((k + 1) - 1) : j = k \/ j \in s .. (k - 1)
  BY <1>1
<1>4. \A j \in s .. ((k + 1) - 1) : Depth(t, s, j) > 0
  BY <1>3, ArrayIsInside
<1> QED
  BY <1>2, <1>4 DEF ArrayAt

LEMMA ArrayEnds ==
    ASSUME NEW t \in Seq(Symbol), NEW s \in Sources(t), NEW e \in ArrayAt(t, s),
           Depth(t, s, e) = 0, NEW k \in ArrayAt(t, s)
    PROVE  k <= e
<1>1. e \in s .. Len(t) /\ k \in s .. Len(t) /\ s \in Nat /\ Len(t) \in Nat
  BY ArrayIsInside, SourceIsPlace
<1>2. CASE k > e
  <2>1. e \in s .. (k - 1)
    BY <1>1, <1>2
  <2>2. Depth(t, s, e) > 0
    BY <2>1, ArrayIsInside
  <2> QED
    BY <2>2
<1> QED
  BY <1>1, <1>2

\* The arrays of a notebook are apart.
LEMMA OneArray ==
    ASSUME NEW t \in Seq(Symbol), IsNotebook(t), NEW s \in Sources(t), NEW a \in Sources(t),
           NEW k \in ArrayAt(t, s), k \in ArrayAt(t, a)
    PROVE  a = s
<1>1. /\ k \in s .. Len(t) /\ k \in a .. Len(t)
      /\ s \in Nat /\ a \in Nat /\ k \in Nat /\ Len(t) \in Nat
  BY ArrayIsInside, SourceIsPlace
<1>2. CASE a < s
  <2>1. s = k \/ s \in a .. (k - 1)
    BY <1>1, <1>2
  <2>2. s \in ArrayAt(t, a)
    BY <2>1, ArrayIsInside
  <2> QED
    BY <2>2, SourceIsPlace DEF IsNotebook
<1>3. CASE s < a
  <2>1. a = k \/ a \in s .. (k - 1)
    BY <1>1, <1>3
  <2>2. a \in ArrayAt(t, s)
    BY <2>1, ArrayIsInside
  <2> QED
    BY <2>2, SourceIsPlace DEF IsNotebook
<1> QED
  BY <1>1, <1>2, <1>3

\* What is written of a symbol, in an array and outside.
LEMMA WrittenInside ==
    ASSUME NEW t \in Seq(Symbol), IsNotebook(t), NEW s \in Sources(t),
           NEW k \in ArrayAt(t, s), NEW listing
    PROVE  Written(t, listing, k) =
              IF IsWritten(t, listing, s, k) THEN AsWritten(t, s, k) ELSE <<>>
<1>1. (CHOOSE a \in Sources(t) : k \in ArrayAt(t, a)) = s
  BY OneArray
<1>2. \E a \in Sources(t) : k \in ArrayAt(t, a)
  OBVIOUS
<1> QED
  BY <1>1, <1>2 DEF Written

LEMMA WrittenOutside ==
    ASSUME NEW t, NEW k, \A a \in Sources(t) : k \notin ArrayAt(t, a), NEW listing
    PROVE  Written(t, listing, k) = <<>>
  BY DEF Written

LEMMA WrittenIsText ==
    ASSUME NEW t \in Seq(Symbol), NEW k \in DOMAIN t, NEW listing
    PROVE  Written(t, listing, k) \in Seq(Symbol \cup {"#"})
<1>1. t[k] \in Symbol /\ NewLine \in Symbol
  BY DEF Symbol
<1>2. /\ <<t[k], NewLine>> \in Seq(Symbol \cup {"#"}) /\ <<t[k]>> \in Seq(Symbol \cup {"#"})
      /\ <<NewLine, "#">> \in Seq(Symbol \cup {"#"}) /\ <<>> \in Seq(Symbol \cup {"#"})
  BY <1>1
<1>3. \A s : AsWritten(t, s, k) \in {<<t[k], NewLine>>, <<NewLine, "#">>, <<t[k]>>}
  BY DEF AsWritten
<1>4. Written(t, listing, k) \in {<<>>, <<t[k], NewLine>>, <<NewLine, "#">>, <<t[k]>>}
  BY <1>3 DEF Written
<1> QED
  BY <1>2, <1>4

\* The kind of a cell is that of the last cell_type.
LEMMA SameKind ==
    ASSUME NEW t, NEW r \in Nat, NEW s \in 1 .. r,
           \A k \in s .. (r - 1) : t[k] # "cell_type"
    PROVE  IsMarkdown(t, r) <=> IsMarkdown(t, s)
<1>1. ASSUME IsMarkdown(t, r) PROVE IsMarkdown(t, s)
  <2>1. PICK c \in 1 .. (r - 1) : /\ t[c] = "cell_type" /\ t[c + 1] = "markdown"
                                  /\ \A d \in (c + 1) .. (r - 1) : t[d] # "cell_type"
    BY <1>1 DEF IsMarkdown
  <2>2. c \notin s .. (r - 1)
    BY <2>1
  <2>3. c \in 1 .. (s - 1) /\ \A d \in (c + 1) .. (s - 1) : d \in (c + 1) .. (r - 1)
    BY <2>2
  <2> QED
    BY <2>1, <2>3 DEF IsMarkdown
<1>2. ASSUME IsMarkdown(t, s) PROVE IsMarkdown(t, r)
  <2>1. PICK c \in 1 .. (s - 1) : /\ t[c] = "cell_type" /\ t[c + 1] = "markdown"
                                  /\ \A d \in (c + 1) .. (s - 1) : t[d] # "cell_type"
    BY <1>2 DEF IsMarkdown
  <2>2. c \in 1 .. (r - 1)
    OBVIOUS
  <2>3. \A d \in (c + 1) .. (r - 1) : d \in (c + 1) .. (s - 1) \/ d \in s .. (r - 1)
    OBVIOUS
  <2> QED
    BY <2>1, <2>2, <2>3 DEF IsMarkdown
<1> QED
  BY <1>1, <1>2

LEMMA KindIsNamed ==
    ASSUME NEW t, NEW c \in Nat \ {0}, t[c] = "cell_type", t[c + 1] \in {"markdown", "code"}
    PROVE  IsMarkdown(t, c + 2) <=> t[c + 1] = "markdown"
<1>1. c \in 1 .. ((c + 2) - 1) /\ \A d \in (c + 1) .. ((c + 2) - 1) : d = c + 1
  OBVIOUS
<1>2. t[c + 1] # "cell_type"
  OBVIOUS
<1>3. \A b \in 1 .. ((c + 2) - 1) : b = c \/ b = c + 1 \/ c \in (b + 1) .. ((c + 2) - 1)
  OBVIOUS
<1>4. ASSUME IsMarkdown(t, c + 2) PROVE t[c + 1] = "markdown"
  <2>1. PICK b \in 1 .. ((c + 2) - 1) :
               /\ t[b] = "cell_type" /\ t[b + 1] = "markdown"
               /\ \A d \in (b + 1) .. ((c + 2) - 1) : t[d] # "cell_type"
    BY <1>4 DEF IsMarkdown
  <2>2. b = c
    BY <1>2, <1>3, <2>1
  <2> QED
    BY <2>1, <2>2
<1>5. ASSUME t[c + 1] = "markdown" PROVE IsMarkdown(t, c + 2)
  BY <1>1, <1>2, <1>5 DEF IsMarkdown
<1> QED
  BY <1>4, <1>5

-----------------------------------------------------------------------------
(* Joining what is written of each symbol.                                 *)

\* A set of naturals that is not empty has a least element.
LEMMA LeastNatural ==
    ASSUME NEW T \in SUBSET Nat, T # {}
    PROVE  \E x \in T : \A y \in T : x <= y
<1>1. PICK x \in T : \A y \in T : ~ (<<y, x>> \in OpToRel(<, Nat))
  BY NatLessThanWellFounded, WFMin, Zenon
<1>2. \A y \in T : ~ (y < x)
  BY <1>1 DEF OpToRel
<1> QED
  BY <1>2

\* Induction over the naturals up to n, for what holds on a set.
LEMMA CountUp ==
    ASSUME NEW n \in Nat, NEW T, 0 \in T, \A d \in 0 .. n - 1 : d \in T => d + 1 \in T
    PROVE  \A d \in 0 .. n : d \in T
<1> SUFFICES ASSUME NEW e \in 0 .. n, e \notin T PROVE FALSE
  OBVIOUS
<1> DEFINE Out == {d \in 0 .. n : d \notin T}
<1>1. Out \in SUBSET Nat /\ Out # {}
  OBVIOUS
<1> HIDE DEF Out
<1>2. PICK d \in Out : \A y \in Out : d <= y
  BY <1>1, LeastNatural
<1>3. d \in 0 .. n /\ d \notin T /\ d # 0
  BY <1>2 DEF Out
<1>4. d - 1 \in 0 .. n - 1 /\ d - 1 \notin Out /\ (d - 1) + 1 = d
  BY <1>2, <1>3
<1>5. d - 1 \in T
  BY <1>4 DEF Out
<1> QED
  BY <1>3, <1>4, <1>5

\* The parts of a text joined one by one, as FlattenSeq does.
Joins(f, w) ==
    /\ f[0] = <<>>
    /\ \A i \in 1 .. Len(w) : f[i] = f[i - 1] \o w[i]

LEMMA JoinsExist ==
    ASSUME NEW S, NEW w \in Seq(Seq(S))
    PROVE  \E f \in [0 .. Len(w) -> Seq(S)] : Joins(f, w) /\ FlattenSeq(w) = f[Len(w)]
<1> DEFINE n == Len(w)
           Step1(g, i) == IF i = 1 THEN w[i] ELSE g[i - 1] \o w[i]
           IsUpTo(m, g) == g = [i \in 1 .. m |-> Step1(g, i)]
           T == {m \in 0 .. n : \E g \in [1 .. m -> Seq(S)] : IsUpTo(m, g)}
<1>1. n \in Nat /\ \A i \in 1 .. n : w[i] \in Seq(S)
  OBVIOUS
<1>2. 0 \in T
  <2> DEFINE none == [i \in 1 .. 0 |-> {}]
  <2>1. none \in [1 .. 0 -> Seq(S)] /\ IsUpTo(0, none)
    OBVIOUS
  <2>2. 0 \in 0 .. n
    BY <1>1
  <2> HIDE DEF IsUpTo, none
  <2> QED
    BY <2>1, <2>2
<1>3. ASSUME NEW d \in 0 .. n - 1, d \in T PROVE d + 1 \in T
  <2>1. PICK g \in [1 .. d -> Seq(S)] : IsUpTo(d, g)
    BY <1>3
  <2>2. \A i \in 1 .. d : g[i] = Step1(g, i)
    BY <2>1
  <2> DEFINE last == Step1(g, d + 1)
             h == [i \in 1 .. d + 1 |-> IF i = d + 1 THEN last ELSE g[i]]
  <2>3. last \in Seq(S)
    <3>1. d + 1 \in 1 .. n /\ (d + 1) - 1 = d /\ (d + 1 # 1 => d \in 1 .. d)
      BY <1>1
    <3> QED
      BY <1>1, <3>1
  <2> HIDE DEF last
  <2>4. h \in [1 .. d + 1 -> Seq(S)]
    BY <2>3, <1>1
  <2>5. \A i \in 1 .. d : h[i] = g[i]
    BY <1>1
  <2>6. h[d + 1] = last
    BY <1>1
  <2>7. \A i \in 1 .. d + 1 : i # 1 => i - 1 \in 1 .. d
    BY <1>1
  <2> HIDE DEF h
  <2>8. \A i \in 1 .. d + 1 : h[i] = Step1(h, i)
    <3> TAKE i \in 1 .. d + 1
    <3>1. CASE i = d + 1
      BY <2>5, <2>6, <2>7, <3>1 DEF last
    <3>2. CASE i # d + 1
      <4>1. i \in 1 .. d
        BY <3>2, <1>1
      <4> QED
        BY <2>2, <2>5, <2>7, <4>1
    <3> QED
      BY <3>1, <3>2
  <2> HIDE DEF Step1
  <2>9. IsUpTo(d + 1, h)
    <3> DEFINE v == [i \in 1 .. d + 1 |-> Step1(h, i)]
    <3>1. \A i \in 1 .. d + 1 : h[i] = v[i]
      BY <2>8
    <3>2. DOMAIN h = 1 .. d + 1 /\ h = [i \in DOMAIN h |-> h[i]]
      BY <2>4
    <3>3. DOMAIN v = 1 .. d + 1 /\ v = [i \in DOMAIN v |-> v[i]]
      OBVIOUS
    <3>4. h = v
      <4> HIDE DEF v
      <4> QED
        BY <3>1, <3>2, <3>3
    <3> QED
      BY <3>4
  <2>10. d + 1 \in 0 .. n
    BY <1>1
  <2> HIDE DEF IsUpTo
  <2> QED
    BY <2>4, <2>9, <2>10
<1> HIDE DEF T
<1>4. n \in T
  <2>1. \A d \in 0 .. n : d \in T
    <3> HIDE DEF n
    <3> QED
      BY <1>1, <1>2, <1>3, CountUp
  <2> QED
    BY <1>1, <2>1
<1> DEFINE flat == CHOOSE g : IsUpTo(n, g)
           f == [i \in 0 .. n |-> IF i = 0 THEN <<>> ELSE flat[i]]
<1>5. flat \in [1 .. n -> Seq(S)] /\ IsUpTo(n, flat)
  <2>1. PICK g \in [1 .. n -> Seq(S)] : IsUpTo(n, g)
    BY <1>4 DEF T
  <2> HIDE DEF IsUpTo, n
  <2>2. IsUpTo(n, flat)
    BY <2>1
  <2> HIDE DEF flat
  <2> DEFINE Same == {i \in 0 .. n : i = 0 \/ flat[i] = g[i]}
  <2>3. 0 \in Same
    BY <1>1
  <2>4. ASSUME NEW i \in 0 .. n - 1, i \in Same PROVE i + 1 \in Same
    <3>1. i + 1 \in 1 .. n /\ i + 1 \in 0 .. n /\ (i + 1) - 1 = i /\ (i # 0 <=> i + 1 # 1)
      BY <1>1
    <3>2. /\ flat[i + 1] = IF i + 1 = 1 THEN w[i + 1] ELSE flat[(i + 1) - 1] \o w[i + 1]
          /\ g[i + 1] = IF i + 1 = 1 THEN w[i + 1] ELSE g[(i + 1) - 1] \o w[i + 1]
      BY <2>1, <2>2, <3>1 DEF IsUpTo
    <3> QED
      BY <2>4, <3>1, <3>2
  <2> HIDE DEF Same
  <2>5. \A i \in 0 .. n : i \in Same
    BY <1>1, <2>3, <2>4, CountUp
  <2>6. \A i \in 1 .. n : i \in 0 .. n /\ flat[i] = g[i]
    BY <1>1, <2>5 DEF Same
  <2>7. flat = [i \in 1 .. n |-> flat[i]]
    BY <2>2 DEF IsUpTo
  <2> QED
    BY <2>2, <2>6, <2>7
<1>6. \A i \in 1 .. n : flat[i] = IF i = 1 THEN w[i] ELSE flat[i - 1] \o w[i]
  BY <1>5
<1>7. FlattenSeq(w) = IF n = 0 THEN <<>> ELSE flat[n]
  <2>1. n = 0 => w = <<>>
    BY <1>1
  <2> QED
    BY <2>1 DEF FlattenSeq
<1> HIDE DEF flat, n
<1>8. f \in [0 .. n -> Seq(S)] /\ f[0] = <<>> /\ \A i \in 1 .. n : f[i] = flat[i]
  <2>1. \A i \in 1 .. n : flat[i] \in Seq(S)
    BY <1>5
  <2>2. <<>> \in Seq(S) /\ 0 \in 0 .. n /\ \A i \in 1 .. n : i \in 0 .. n /\ i # 0
    BY <1>1
  <2>3. \A i \in 0 .. n : (IF i = 0 THEN <<>> ELSE flat[i]) \in Seq(S)
    <3> TAKE i \in 0 .. n
    <3>1. i = 0 \/ i \in 1 .. n
      BY <1>1
    <3> QED
      BY <2>1, <2>2, <3>1
  <2> QED
    BY <2>2, <2>3
<1>9. f[n] = FlattenSeq(w)
  BY <1>1, <1>7, <1>8
<1>10. \A i \in 1 .. n : f[i] = f[i - 1] \o w[i]
  <2> HIDE DEF f
  <2> TAKE i \in 1 .. n
  <2>1. CASE i = 1
    <3>1. f[i] = w[i] /\ f[i - 1] = <<>> /\ w[i] \in Seq(S)
      BY <1>1, <1>6, <1>8, <2>1
    <3> QED
      BY <3>1
  <2>2. CASE i # 1
    <3>1. i - 1 \in 1 .. n
      BY <1>1, <2>2
    <3> QED
      BY <1>6, <1>8, <2>2, <3>1
  <2> QED
    BY <2>1, <2>2
<1> HIDE DEF f
<1> QED
  BY <1>8, <1>9, <1>10 DEF Joins, n

LEMMA SubSeqGrows ==
    ASSUME NEW S, NEW t \in Seq(S), NEW k \in Nat, k < Len(t), NEW m \in Nat, m <= k
    PROVE  SubSeq(t, m + 1, k + 1) = Append(SubSeq(t, m + 1, k), t[k + 1])
<1>1. \A i \in 1 .. (k + 1 - m) : m + i \in 1 .. Len(t)
  OBVIOUS
<1> QED
  OBVIOUS

LEMMA EmptyTail ==
    ASSUME NEW S, NEW x \in Seq(S)
    PROVE  x \o <<>> = x
  OBVIOUS

LEMMA OneSymbolMore ==
    ASSUME NEW S, NEW x \in Seq(S), NEW t \in Seq(S), NEW k \in Nat, k < Len(t), NEW m \in 0 .. k
    PROVE  (x \o SubSeq(t, m + 1, k)) \o <<t[k + 1]>> = x \o SubSeq(t, m + 1, k + 1)
<1> DEFINE b == SubSeq(t, m + 1, k)
           c == <<t[k + 1]>>
<1>1. b \in Seq(S) /\ c \in Seq(S)
  OBVIOUS
<1>2. SubSeq(t, m + 1, k + 1) = b \o c
  OBVIOUS
<1> HIDE DEF b, c
<1>3. (x \o b) \o c = x \o (b \o c)
  BY <1>1, ConcatAssociative
<1> QED
  BY <1>2, <1>3 DEF b, c

\* The parts joined up to a place, and from there on: symbols as they are, or
\* nothing.
LEMMA JoinsText ==
    ASSUME NEW S, NEW w \in Seq(Seq(S)), NEW f \in [0 .. Len(w) -> Seq(S)], Joins(f, w),
           NEW t \in Seq(S), Len(t) = Len(w),
           NEW p \in 0 .. Len(w), NEW m \in 0 .. p,
           \A k \in (m + 1) .. p : w[k] = <<t[k]>>
    PROVE  f[p] = f[m] \o SubSeq(t, m + 1, p)
<1> DEFINE T == {d \in 0 .. p - m : f[m + d] = f[m] \o SubSeq(t, m + 1, m + d)}
<1>1. Len(w) \in Nat /\ p \in Nat /\ m \in Nat /\ p - m \in Nat /\ m <= p /\ p <= Len(w)
  OBVIOUS
<1>2. f[m] \in Seq(S)
  BY <1>1
<1>3. 0 \in T
  <2>1. SubSeq(t, m + 1, m + 0) = <<>> /\ m + 0 = m
    BY <1>1
  <2>2. f[m] \o <<>> = f[m]
    BY <1>2
  <2>3. f[m + 0] = f[m] \o SubSeq(t, m + 1, m + 0)
    BY <2>1, <2>2, Zenon
  <2>4. 0 \in 0 .. p - m
    BY <1>1
  <2> QED
    BY <2>3, <2>4, Zenon
<1>4. ASSUME NEW d \in 0 .. (p - m) - 1, d \in T PROVE d + 1 \in T
  <2> DEFINE k == m + d
  <2>1. /\ k \in Nat /\ k + 1 = m + (d + 1) /\ k + 1 \in (m + 1) .. p
        /\ k + 1 \in 1 .. Len(w) /\ (k + 1) - 1 = k /\ m + 1 \in 1 .. k + 1
        /\ d + 1 \in 0 .. p - m
    BY <1>1
  <2> HIDE DEF k
  <2>2. f[k + 1] = f[k] \o <<t[k + 1]>>
    BY <2>1 DEF Joins
  <2>3. f[k] = f[m] \o SubSeq(t, m + 1, k)
    BY <1>4 DEF k
  <2>4. (f[m] \o SubSeq(t, m + 1, k)) \o <<t[k + 1]>> = f[m] \o SubSeq(t, m + 1, k + 1)
    <3>1. m \in 0 .. k /\ k < Len(t)
      BY <1>1, <2>1
    <3> QED
      BY <1>2, <2>1, <3>1, OneSymbolMore, Zenon
  <2>6. f[k + 1] = f[m] \o SubSeq(t, m + 1, k + 1)
    BY <2>2, <2>3, <2>4, Zenon
  <2> QED
    BY <2>1, <2>6
<1> HIDE DEF T
<1>5. p - m \in T
  <2>1. \A d \in 0 .. p - m : d \in T
    BY <1>1, <1>3, <1>4, CountUp
  <2> QED
    BY <1>1, <2>1
<1>6. m + (p - m) = p
  BY <1>1
<1> QED
  BY <1>5, <1>6 DEF T

LEMMA JoinsNothing ==
    ASSUME NEW S, NEW f, NEW p \in Nat, NEW m \in 0 .. p, f[m] \in Seq(S),
           \A k \in (m + 1) .. p : f[k] = f[k - 1] \o <<>>
    PROVE  f[p] = f[m]
<1> DEFINE T == {d \in 0 .. p - m : f[m + d] = f[m]}
<1>1. p \in Nat /\ m \in Nat /\ p - m \in Nat /\ m <= p
  OBVIOUS
<1>2. f[m] \o <<>> = f[m]
  OBVIOUS
<1>3. 0 \in T
  BY <1>1
<1>4. ASSUME NEW d \in 0 .. (p - m) - 1, d \in T PROVE d + 1 \in T
  <2>1. /\ m + d + 1 \in (m + 1) .. p
        /\ (m + d + 1) - 1 = m + d /\ d + 1 \in 0 .. p - m /\ m + (d + 1) = m + d + 1
    BY <1>1
  <2>2. f[m + d + 1] = f[m + d] \o <<>>
    BY <2>1
  <2>3. f[m + d] = f[m]
    BY <1>4
  <2> QED
    BY <1>2, <2>1, <2>2, <2>3
<1> HIDE DEF T
<1>5. p - m \in T
  <2>1. \A d \in 0 .. p - m : d \in T
    BY <1>1, <1>3, <1>4, CountUp
  <2> QED
    BY <1>1, <2>1
<1>6. m + (p - m) = p
  BY <1>1
<1> QED
  BY <1>5, <1>6 DEF T

\* What the results file should hold of the first symbols.
Parts(t, listing) == [k \in DOMAIN t |-> Written(t, listing, k)]
Copied(t, listing) ==
    CHOOSE f \in [0 .. Len(t) -> Seq(Symbol \cup {"#"})] :
        Joins(f, Parts(t, listing)) /\ FlattenSeq(Parts(t, listing)) = f[Len(t)]

LEMMA CopiedIs ==
    ASSUME NEW t \in Seq(Symbol), NEW listing
    PROVE  /\ Parts(t, listing) \in Seq(Seq(Symbol \cup {"#"}))
           /\ Len(Parts(t, listing)) = Len(t)
           /\ Copied(t, listing) \in [0 .. Len(t) -> Seq(Symbol \cup {"#"})]
           /\ Joins(Copied(t, listing), Parts(t, listing))
           /\ FlattenSeq(Parts(t, listing)) = Copied(t, listing)[Len(t)]
<1>1. /\ Parts(t, listing) \in Seq(Seq(Symbol \cup {"#"}))
      /\ Len(Parts(t, listing)) = Len(t)
  <2>1. \A k \in 1 .. Len(t) : Written(t, listing, k) \in Seq(Symbol \cup {"#"})
    <3>1. \A k \in 1 .. Len(t) : k \in DOMAIN t
      OBVIOUS
    <3> QED
      BY <3>1, WrittenIsText
  <2>2. DOMAIN t = 1 .. Len(t) /\ Len(t) \in Nat
    OBVIOUS
  <2> QED
    BY <2>1, <2>2 DEF Parts
<1>2. \E f \in [0 .. Len(t) -> Seq(Symbol \cup {"#"})] :
        Joins(f, Parts(t, listing)) /\ FlattenSeq(Parts(t, listing)) = f[Len(t)]
  BY <1>1, JoinsExist
<1> HIDE DEF Parts
<1> QED
  BY <1>1, <1>2 DEF Copied

\* The same for a notebook: a stretch of it that is written as it is, one that is
\* not, and one symbol.
LEMMA CopiedText ==
    ASSUME NEW t \in Seq(Symbol), NEW listing, NEW p \in 0 .. Len(t), NEW m \in 0 .. p,
           \A k \in (m + 1) .. p : Written(t, listing, k) = <<t[k]>>
    PROVE  Copied(t, listing)[p] = Copied(t, listing)[m] \o SubSeq(t, m + 1, p)
<1>1. t \in Seq(Symbol \cup {"#"})
  OBVIOUS
<1>2. \A k \in (m + 1) .. p : Parts(t, listing)[k] = <<t[k]>>
  <2>1. \A k \in (m + 1) .. p : k \in DOMAIN t
    OBVIOUS
  <2> QED
    BY <2>1 DEF Parts
<1> QED
  BY <1>1, <1>2, CopiedIs, JoinsText

LEMMA CopiedNext ==
    ASSUME NEW t \in Seq(Symbol), NEW listing, NEW p \in Nat, p < Len(t)
    PROVE  /\ Copied(t, listing)[p] \in Seq(Symbol \cup {"#"})
           /\ Copied(t, listing)[0] = <<>>
           /\ Copied(t, listing)[p + 1] = Copied(t, listing)[p] \o Written(t, listing, p + 1)
<1>1. p + 1 \in 1 .. Len(t) /\ p \in 0 .. Len(t) /\ (p + 1) - 1 = p /\ p + 1 \in DOMAIN t
  OBVIOUS
<1>2. Parts(t, listing)[p + 1] = Written(t, listing, p + 1)
  BY <1>1 DEF Parts
<1>3. /\ Len(Parts(t, listing)) = Len(t)
      /\ Copied(t, listing) \in [0 .. Len(t) -> Seq(Symbol \cup {"#"})]
      /\ Joins(Copied(t, listing), Parts(t, listing))
  BY CopiedIs
<1>4. p + 1 \in 1 .. Len(Parts(t, listing))
  BY <1>1, <1>3
<1>5. /\ Copied(t, listing)[0] = <<>>
      /\ Copied(t, listing)[p + 1] = Copied(t, listing)[(p + 1) - 1] \o Parts(t, listing)[p + 1]
  BY <1>3, <1>4, Zenon DEF Joins
<1> QED
  BY <1>1, <1>2, <1>3, <1>5

LEMMA CopiedNothing ==
    ASSUME NEW t \in Seq(Symbol), NEW listing, NEW p \in 0 .. Len(t), NEW m \in 0 .. p,
           \A k \in (m + 1) .. p : Written(t, listing, k) = <<>>
    PROVE  Copied(t, listing)[p] = Copied(t, listing)[m]
<1> DEFINE f == Copied(t, listing)
<1>1. f[m] \in Seq(Symbol \cup {"#"})
  <2>1. m \in 0 .. Len(t)
    OBVIOUS
  <2> QED
    BY <2>1, CopiedIs
<1>2. \A k \in (m + 1) .. p : f[k] = f[k - 1] \o <<>>
  <2> TAKE k \in (m + 1) .. p
  <2>1. k - 1 \in Nat /\ k - 1 < Len(t) /\ (k - 1) + 1 = k
    OBVIOUS
  <2>2. f[(k - 1) + 1] = f[k - 1] \o Written(t, listing, (k - 1) + 1)
    BY <2>1, CopiedNext
  <2>3. Written(t, listing, k) = <<>>
    OBVIOUS
  <2> QED
    BY <2>1, <2>2, <2>3
<1> HIDE DEF f
<1>3. p \in Nat
  OBVIOUS
<1>4. f[p] = f[m]
  BY <1>1, <1>2, <1>3, JoinsNothing
<1> QED
  BY <1>4 DEF f

-----------------------------------------------------------------------------
(* What has been extracted of a notebook's first symbols.                  *)

\* The arrays that begin with the first p symbols end there.
AllClosed(t, p) ==
    \A s \in Sources(t) : s <= p => \E e \in ArrayAt(t, s) : e <= p /\ Depth(t, s, e) = 0

SourcesTo(t, p) == {s \in Sources(t) : s <= p}

\* In the array that begins at s, what yymore keeps begins behind the m-th symbol:
\* at the end of a line of a markdown cell, or of the last blank line.
InArrayOf(s, m) ==
    /\ s \in Sources(notebook) /\ pos \in ArrayAt(notebook, s)
    /\ balanced + Depth(notebook, s, pos) = 0
    /\ AllClosed(notebook, s - 1)
    /\ prefix_comment <=> IsMarkdown(notebook, s)
    /\ m \in (s - 1) .. pos
    /\ yytext = SubSeq(notebook, m + 1, pos)
    /\ yyout = Copied(notebook, print_count)[m]
    /\ \A k \in (m + 1) .. pos : /\ notebook[k] # "blank"
                                 /\ IsMarkdown(notebook, s) => notebook[k] # NewLine
    /\ IsMarkdown(notebook, s) /\ m >= s => notebook[m] \in {NewLine, "blank"}

BetweenArrays ==
    /\ AllClosed(notebook, pos)
    /\ yyout = Copied(notebook, print_count)[pos]
    /\ start = "INITIAL" => (prefix_comment <=> IsMarkdown(notebook, pos + 1))
    /\ start = "CELL_TYPE" => pos > 0 /\ notebook[pos] = "cell_type"

Extracting ==
    /\ \A n \in Conversions(notebook) : n > pos
    /\ count + (IF start = "SOURCE" THEN 1 ELSE 0) = Cardinality(SourcesTo(notebook, pos))
    /\ IF start = "SOURCE" THEN \E s, m : InArrayOf(s, m) ELSE BetweenArrays

ExtractInv ==
    /\ start = "undefined" => \E k \in DOMAIN notebook : notebook[k] = "%"
    /\ \A k \in DOMAIN yytext : \E j \in DOMAIN notebook : yytext[k] = notebook[j]
    /\ IsNotebook(notebook) =>
          IF start = "undefined" THEN pos \in Conversions(notebook) ELSE Extracting

\* A step takes the symbol in front and leaves the text alone.
LEMMA StepIs ==
    ASSUME TypeOK, NEW condition, NEW symbols, Matched(condition, symbols)
    PROVE  /\ notebook \in Seq(Symbol) /\ Len(notebook) \in Nat
           /\ DOMAIN notebook = 1 .. Len(notebook)
           /\ notebook' = notebook /\ print_count' = print_count
           /\ pos \in Nat /\ pos < Len(notebook) /\ pos' = pos + 1
           /\ start = condition /\ notebook[pos + 1] \in symbols /\ Here = notebook[pos + 1]
           /\ pos + 1 \in DOMAIN notebook
<1>1. notebook \in Seq(Symbol)
  BY NotebookAssumption DEF TypeOK
<1> QED
  BY <1>1 DEF Matched, Step, args, Here, TypeOK

\* Behind closed arrays, a symbol that is no key of another is in none.
LEMMA Outside ==
    ASSUME NEW t \in Seq(Symbol), NEW p \in Nat, p < Len(t), AllClosed(t, p),
           t[p + 1] # "source"
    PROVE  /\ \A a \in Sources(t) : p + 1 \notin ArrayAt(t, a)
           /\ AllClosed(t, p + 1)
           /\ SourcesTo(t, p + 1) = SourcesTo(t, p)
           /\ p + 1 \notin Conversions(t)
<1>1. \A a \in Sources(t) : a \in Nat /\ a # p + 1 /\ (a <= p + 1 <=> a <= p)
  BY SourceIsPlace
<1>2. ASSUME NEW a \in Sources(t), p + 1 \in ArrayAt(t, a) PROVE FALSE
  <2>1. a <= p + 1
    BY <1>2, ArrayIsInside, SourceIsPlace
  <2>2. PICK e \in ArrayAt(t, a) : e <= p /\ Depth(t, a, e) = 0
    BY <1>1, <2>1 DEF AllClosed
  <2>3. p + 1 <= e /\ e \in Nat
    BY <1>2, <2>2, ArrayEnds, ArrayIsInside
  <2> QED
    BY <2>2, <2>3
<1>3. AllClosed(t, p + 1)
  <2>1. ASSUME NEW s \in Sources(t), s <= p + 1
        PROVE  \E e \in ArrayAt(t, s) : e <= p + 1 /\ Depth(t, s, e) = 0
    <3>1. PICK e \in ArrayAt(t, s) : e <= p /\ Depth(t, s, e) = 0
      BY <1>1, <2>1 DEF AllClosed
    <3>2. e \in Nat
      BY ArrayIsInside
    <3>3. e <= p + 1
      BY <3>1, <3>2
    <3> QED
      BY <3>1, <3>3
  <2> QED
    BY <2>1 DEF AllClosed
<1>4. SourcesTo(t, p + 1) = SourcesTo(t, p)
  BY <1>1 DEF SourcesTo
<1>5. p + 1 \notin Conversions(t)
  BY <1>2 DEF Conversions
<1> QED
  BY <1>2, <1>3, <1>4, <1>5

LEMMA ConversionsAre ==
    ASSUME NEW t \in Seq(Symbol), NEW n \in Conversions(t)
    PROVE  n \in 1 .. Len(t) /\ n \in Nat /\ t[n] = NewLine
  BY DEF Conversions

LEMMA SourcesAreFinite ==
    ASSUME NEW t \in Seq(Symbol), NEW p \in Nat
    PROVE  IsFiniteSet(SourcesTo(t, p)) /\ Cardinality(SourcesTo(t, p)) \in Nat
<1>1. SourcesTo(t, p) \in SUBSET (1 .. p)
  BY SourceIsPlace DEF SourcesTo
<1> QED
  BY <1>1, OneMore

\* The steps outside of arrays.
LEMMA SkipStep ==
    ASSUME Inv, IsNotebook(notebook), start # "undefined", start # "SOURCE", Extracting,
           NEW condition, NEW symbols, Matched(condition, symbols), "source" \notin symbols,
           UNCHANGED <<yyout, count>>, start' \in {"INITIAL", "CELL_TYPE"},
           start' = "INITIAL" => (prefix_comment' <=> IsMarkdown(notebook, pos + 2)),
           start' = "CELL_TYPE" => notebook[pos + 1] = "cell_type"
    PROVE  Extracting'
<1>1. /\ notebook \in Seq(Symbol) /\ pos \in Nat /\ pos < Len(notebook)
      /\ pos' = pos + 1 /\ notebook' = notebook /\ print_count' = print_count
      /\ notebook[pos + 1] # "source" /\ Len(notebook) \in Nat
  BY StepIs DEF Inv
<1>2. /\ AllClosed(notebook, pos) /\ yyout = Copied(notebook, print_count)[pos]
      /\ \A n \in Conversions(notebook) : n > pos
      /\ count + 0 = Cardinality(SourcesTo(notebook, pos))
  BY DEF Extracting, BetweenArrays
<1>3. /\ \A a \in Sources(notebook) : pos + 1 \notin ArrayAt(notebook, a)
      /\ AllClosed(notebook, pos + 1)
      /\ SourcesTo(notebook, pos + 1) = SourcesTo(notebook, pos)
      /\ pos + 1 \notin Conversions(notebook)
  BY <1>1, <1>2, Outside
<1>4. Written(notebook, print_count, pos + 1) = <<>>
  BY <1>3, WrittenOutside
<1>5. Copied(notebook, print_count)[pos + 1] = Copied(notebook, print_count)[pos]
  <2>1. /\ Copied(notebook, print_count)[pos] \in Seq(Symbol \cup {"#"})
        /\ Copied(notebook, print_count)[pos + 1] =
              Copied(notebook, print_count)[pos] \o Written(notebook, print_count, pos + 1)
    BY <1>1, CopiedNext
  <2>2. Copied(notebook, print_count)[pos] \o <<>> = Copied(notebook, print_count)[pos]
    BY <2>1, EmptyTail
  <2> QED
    BY <1>4, <2>1, <2>2, Zenon
<1>6. \A n \in Conversions(notebook) : n > pos + 1
  <2>1. \A n \in Conversions(notebook) : n \in Nat /\ n > pos /\ n # pos + 1
    BY <1>1, <1>2, <1>3, ConversionsAre
  <2> QED
    BY <1>1, <2>1
<1>7. (pos + 1) + 1 = pos + 2 /\ pos + 1 > 0
  BY <1>1
<1>8. BetweenArrays'
  BY <1>1, <1>2, <1>3, <1>5, <1>7 DEF BetweenArrays
<1>9. count' + (IF start' = "SOURCE" THEN 1 ELSE 0) = Cardinality(SourcesTo(notebook, pos + 1))
  BY <1>2, <1>3
<1> QED
  BY <1>1, <1>6, <1>8, <1>9 DEF Extracting

LEMMA OutsideStep ==
    ASSUME Inv, IsNotebook(notebook), start # "undefined", Extracting,
           MatchCellType \/ SkipOther \/ MatchMarkdownOrCode \/ EchoInCellType
    PROVE  Extracting' /\ start' # "undefined"
<1>0. start \in {"INITIAL", "CELL_TYPE"}
  BY DEF MatchCellType, SkipOther, MatchMarkdownOrCode, EchoInCellType, Matched
<1>1. /\ start = "INITIAL" => (prefix_comment <=> IsMarkdown(notebook, pos + 1))
      /\ start = "CELL_TYPE" => pos > 0 /\ notebook[pos] = "cell_type"
  BY <1>0 DEF Extracting, BetweenArrays
<1>2. CASE MatchCellType
  <2>1. Matched("INITIAL", {"cell_type"}) /\ start' = "CELL_TYPE" /\ UNCHANGED <<yyout, count>>
    BY <1>2 DEF MatchCellType, cell
  <2>2. notebook[pos + 1] = "cell_type"
    BY <2>1, StepIs DEF Inv
  <2> QED
    BY <1>0, <2>1, <2>2, SkipStep
<1>3. CASE SkipOther
  <2>1. /\ Matched("INITIAL", Symbol \ Key) /\ start' = start /\ UNCHANGED <<yyout, count>>
        /\ prefix_comment' = prefix_comment /\ start = "INITIAL" /\ "source" \notin Symbol \ Key
    BY <1>3 DEF SkipOther, cell, Matched, Key
  <2>2. notebook[pos + 1] # "cell_type" /\ pos \in Nat
    BY <2>1, StepIs DEF Inv, Key
  <2>3. IsMarkdown(notebook, pos + 2) <=> IsMarkdown(notebook, pos + 1)
    <3>1. pos + 2 \in Nat /\ pos + 1 \in 1 .. (pos + 2)
          /\ \A k \in (pos + 1) .. ((pos + 2) - 1) : k = pos + 1
      BY <2>2
    <3>2. \A k \in (pos + 1) .. ((pos + 2) - 1) : notebook[k] # "cell_type"
      BY <2>2, <3>1
    <3> QED
      BY <3>1, <3>2, SameKind
  <2> QED
    BY <1>0, <1>1, <2>1, <2>2, <2>3, SkipStep
<1>4. CASE MatchMarkdownOrCode
  <2>1. /\ Matched("CELL_TYPE", {"markdown", "code"}) /\ start' = "INITIAL"
        /\ UNCHANGED <<yyout, count>> /\ start = "CELL_TYPE"
        /\ prefix_comment' = (Here = "markdown")
    BY <1>4 DEF MatchMarkdownOrCode, PrefixOf, Matched
  <2>2. notebook[pos + 1] \in {"markdown", "code"} /\ Here = notebook[pos + 1] /\ pos \in Nat
    BY <2>1, StepIs DEF Inv
  <2>3. pos \in Nat \ {0} /\ notebook[pos] = "cell_type"
    BY <1>1, <2>1, <2>2
  <2>4. IsMarkdown(notebook, pos + 2) <=> notebook[pos + 1] = "markdown"
    BY <2>2, <2>3, KindIsNamed
  <2>5. prefix_comment' <=> IsMarkdown(notebook, pos + 2)
    BY <2>1, <2>2, <2>4
  <2> QED
    BY <1>0, <2>1, <2>5, SkipStep
<1>5. CASE EchoInCellType
  <2>1. Matched("CELL_TYPE", Symbol \ {"markdown", "code"}) /\ start = "CELL_TYPE"
    BY <1>5 DEF EchoInCellType, Matched
  <2>2. /\ notebook[pos + 1] \notin {"markdown", "code"} /\ pos \in Nat /\ pos < Len(notebook)
        /\ DOMAIN notebook = 1 .. Len(notebook) /\ Len(notebook) \in Nat
    BY <2>1, StepIs DEF Inv
  <2>3. pos \in DOMAIN notebook /\ notebook[pos] = "cell_type"
    BY <1>1, <2>1, <2>2
  <2>4. notebook[pos + 1] \in {"markdown", "code"}
    BY <2>3 DEF IsNotebook
  <2> QED
    BY <2>2, <2>4
<1> QED
  BY <1>2, <1>3, <1>4, <1>5

\* The steps in an array.
LEMMA InsideHere ==
    ASSUME Inv, IsNotebook(notebook), NEW s, NEW m, InArrayOf(s, m), start = "SOURCE",
           NEW symbols, Matched("SOURCE", symbols)
    PROVE  /\ s \in Sources(notebook) /\ s \in Nat /\ m \in Nat /\ s <= pos /\ m <= pos /\ s - 1 <= m
           /\ pos + 1 \in ArrayAt(notebook, s) /\ notebook[pos + 1] \notin Key
           /\ Depth(notebook, s, pos) = - balanced /\ balanced \in Int /\ balanced < 0
           /\ Depth(notebook, s, pos + 1) = - balanced + Opens(Here)
                                              - (IF Here = "]" THEN 1 ELSE 0)
<1>1. /\ notebook \in Seq(Symbol) /\ pos \in Nat /\ pos < Len(notebook)
      /\ Here = notebook[pos + 1] /\ Len(notebook) \in Nat
  BY StepIs DEF Inv
<1>2. /\ s \in Sources(notebook) /\ pos \in ArrayAt(notebook, s)
      /\ balanced + Depth(notebook, s, pos) = 0 /\ m \in (s - 1) .. pos
  BY DEF InArrayOf
<1>3. pos \in s .. Len(notebook) /\ s \in 1 .. Len(notebook) /\ s \in Nat
  BY <1>1, <1>2, ArrayIsInside, SourceIsPlace
<1>4. balanced \in Int /\ balanced < 0
  BY DEF Inv, TypeOK, BalancedCountsOpenBrackets
<1>5. /\ Depth(notebook, s, pos) \in Int
      /\ Depth(notebook, s, pos + 1) = Depth(notebook, s, pos) + Opens(notebook[pos + 1])
                                         - (IF notebook[pos + 1] = "]" THEN 1 ELSE 0)
  BY <1>1, <1>3, DepthStep
<1>6. Depth(notebook, s, pos) = - balanced /\ Depth(notebook, s, pos) > 0
  BY <1>2, <1>4, <1>5
<1>7. pos + 1 \in ArrayAt(notebook, s)
  BY <1>1, <1>2, <1>6, ArrayGoesOn
<1>8. pos + 1 # s
  BY <1>1, <1>3
<1>9. notebook[pos + 1] \notin Key
  BY <1>2, <1>7, <1>8 DEF IsNotebook
<1>10. m \in Nat /\ s <= pos /\ m <= pos /\ s - 1 <= m
  BY <1>1, <1>2, <1>3
<1> QED
  BY <1>1, <1>2, <1>3, <1>4, <1>5, <1>6, <1>7, <1>9, <1>10

\* No array begins in another, and a line only ends at its newline.
LEMMA InsideStays ==
    ASSUME Inv, IsNotebook(notebook), NEW s, NEW m, InArrayOf(s, m), start = "SOURCE",
           NEW symbols, Matched("SOURCE", symbols)
    PROVE  /\ SourcesTo(notebook, pos + 1) = SourcesTo(notebook, pos)
           /\ notebook[pos + 1] # NewLine \/ ~IsMarkdown(notebook, s) =>
                 pos + 1 \notin Conversions(notebook)
<1>1. /\ notebook \in Seq(Symbol) /\ pos \in Nat /\ pos < Len(notebook)
  BY StepIs DEF Inv
<1>2. s \in Sources(notebook) /\ pos + 1 \in ArrayAt(notebook, s) /\ notebook[pos + 1] \notin Key
  BY InsideHere
<1>3. \A a \in Sources(notebook) : a \in Nat /\ a # pos + 1 /\ (a <= pos + 1 <=> a <= pos)
  BY <1>1, <1>2, SourceIsPlace
<1>4. SourcesTo(notebook, pos + 1) = SourcesTo(notebook, pos)
  BY <1>3 DEF SourcesTo
<1>5. ASSUME pos + 1 \in Conversions(notebook)
      PROVE  notebook[pos + 1] = NewLine /\ IsMarkdown(notebook, s)
  <2>1. PICK a \in Sources(notebook) :
          /\ IsMarkdown(notebook, a) /\ pos + 1 \in ArrayAt(notebook, a)
          /\ notebook[pos + 1] = NewLine
    BY <1>5 DEF Conversions
  <2>2. a = s
    BY <1>1, <1>2, <2>1, OneArray
  <2> QED
    BY <2>1, <2>2
<1> QED
  BY <1>4, <1>5

LEMMA ConversionsBehind ==
    ASSUME notebook \in Seq(Symbol), pos \in Nat, \A n \in Conversions(notebook) : n > pos,
           pos + 1 \notin Conversions(notebook)
    PROVE  \A n \in Conversions(notebook) : n > pos + 1
<1>1. \A n \in Conversions(notebook) : n \in Nat /\ n # pos + 1
  BY ConversionsAre
<1> QED
  BY <1>1

\* A symbol that yymore keeps.
LEMMA KeepStep ==
    ASSUME Inv, IsNotebook(notebook), NEW s, NEW m, InArrayOf(s, m), start = "SOURCE", Extracting,
           NEW symbols, Matched("SOURCE", symbols), start' = "SOURCE",
           UNCHANGED <<yyout, count, prefix_comment>>, yytext' = Append(yytext, Here),
           balanced' = balanced - Opens(Here) + (IF Here = "]" THEN 1 ELSE 0),
           Here # "blank", IsMarkdown(notebook, s) => Here # NewLine
    PROVE  Extracting'
<1>1. /\ notebook \in Seq(Symbol) /\ pos \in Nat /\ pos < Len(notebook)
      /\ pos' = pos + 1 /\ notebook' = notebook /\ print_count' = print_count
      /\ Here = notebook[pos + 1] /\ Len(notebook) \in Nat
  BY StepIs DEF Inv
<1>2. /\ s \in Sources(notebook) /\ s \in Nat /\ m \in Nat /\ m <= pos /\ s - 1 <= m
      /\ pos + 1 \in ArrayAt(notebook, s)
      /\ balanced \in Int
      /\ Depth(notebook, s, pos + 1) = - balanced + Opens(Here)
                                         - (IF Here = "]" THEN 1 ELSE 0)
  BY InsideHere
<1>3. /\ SourcesTo(notebook, pos + 1) = SourcesTo(notebook, pos)
      /\ pos + 1 \notin Conversions(notebook)
  BY <1>1, InsideStays
<1>4. balanced' + Depth(notebook, s, pos + 1) = 0
  BY <1>2 DEF Opens
<1>5. yytext' = SubSeq(notebook, m + 1, pos + 1)
  <2>1. yytext = SubSeq(notebook, m + 1, pos)
    BY DEF InArrayOf
  <2>2. SubSeq(notebook, m + 1, pos + 1) = Append(SubSeq(notebook, m + 1, pos), notebook[pos + 1])
    BY <1>1, <1>2, SubSeqGrows
  <2> QED
    BY <1>1, <2>1, <2>2
<1>6. \A k \in (m + 1) .. (pos + 1) :
          /\ notebook[k] # "blank"
          /\ IsMarkdown(notebook, s) => notebook[k] # NewLine
  <2>1. \A k \in (m + 1) .. (pos + 1) : k = pos + 1 \/ k \in (m + 1) .. pos
    BY <1>1, <1>2
  <2> QED
    BY <1>1, <2>1 DEF InArrayOf
<1>7. m \in (s - 1) .. (pos + 1)
  BY <1>1, <1>2
<1>8. InArrayOf(s, m)'
  BY <1>1, <1>2, <1>4, <1>5, <1>6, <1>7 DEF InArrayOf
<1>9. \A n \in Conversions(notebook) : n > pos + 1
  BY <1>1, <1>3, ConversionsBehind DEF Extracting
<1> QED
  BY <1>1, <1>3, <1>8, <1>9 DEF Extracting

\* The array begins.
LEMMA SourceStep ==
    ASSUME Inv, IsNotebook(notebook), Extracting, MatchSource
    PROVE  Extracting'
<1>1. /\ notebook \in Seq(Symbol) /\ pos \in Nat /\ pos < Len(notebook) /\ Len(notebook) \in Nat
      /\ DOMAIN notebook = 1 .. Len(notebook)
      /\ pos' = pos + 1 /\ notebook' = notebook /\ print_count' = print_count
      /\ Here = notebook[pos + 1] /\ notebook[pos + 1] = "source" /\ start = "INITIAL"
  BY StepIs DEF Inv, MatchSource
<1>2. /\ yytext' = <<Here>> /\ balanced' = balanced - 1 /\ start' = "SOURCE"
      /\ UNCHANGED <<count, prefix_comment, yyout>>
  BY DEF MatchSource
<1>3. balanced = 0
  BY <1>1 DEF Inv, BalancedCountsOpenBrackets
<1>4. /\ AllClosed(notebook, pos) /\ yyout = Copied(notebook, print_count)[pos]
      /\ prefix_comment <=> IsMarkdown(notebook, pos + 1)
      /\ \A n \in Conversions(notebook) : n > pos
      /\ count + 0 = Cardinality(SourcesTo(notebook, pos)) /\ count \in Nat
  BY <1>1 DEF Extracting, BetweenArrays, Inv, TypeOK
<1>a. PICK s \in Nat : s = pos + 1
  BY <1>1
<1>b. PICK m \in Nat : m = pos
  BY <1>1
<1>5. s \in Sources(notebook) /\ s \in Nat /\ s - 1 = pos /\ s = pos + 1
  BY <1>1, <1>a DEF Sources
<1>6. s \in ArrayAt(notebook, s) /\ Depth(notebook, s, s) = 1
  BY <1>1, <1>5, ArrayFirst
<1>7. yytext' = SubSeq(notebook, pos + 1, s)
  BY <1>1, <1>2, <1>5
<1>8. /\ balanced' + Depth(notebook, s, s) = 0 /\ pos \in (s - 1) .. s /\ ~(pos >= s)
      /\ \A k \in (pos + 1) .. s : notebook[k] # "blank" /\ notebook[k] # NewLine
  BY <1>1, <1>2, <1>3, <1>5, <1>6 DEF NewLine
<1>9. InArrayOf(s, m)'
  BY <1>1, <1>b, <1>2, <1>4, <1>5, <1>6, <1>7, <1>8 DEF InArrayOf
<1>10. count' + 1 = Cardinality(SourcesTo(notebook, pos + 1))
  <2>1. SourcesTo(notebook, pos + 1) = SourcesTo(notebook, pos) \cup {pos + 1}
    <3>1. \A a \in Sources(notebook) : a \in Nat /\ (a <= pos + 1 <=> a <= pos \/ a = pos + 1)
      BY <1>1, SourceIsPlace
    <3> QED
      BY <1>1, <1>5, <3>1 DEF SourcesTo
  <2>2. SourcesTo(notebook, pos) \in SUBSET (1 .. pos)
    BY <1>1, SourceIsPlace DEF SourcesTo
  <2>3. Cardinality(SourcesTo(notebook, pos) \cup {pos + 1}) = Cardinality(SourcesTo(notebook, pos)) + 1
    BY <1>1, <2>2, OneMore
  <2>4. count' = count /\ count = Cardinality(SourcesTo(notebook, pos))
    BY <1>2, <1>4
  <2> QED
    BY <2>1, <2>3, <2>4
<1>11. pos + 1 \notin Conversions(notebook)
  BY <1>1, ConversionsAre DEF NewLine
<1>12. \A n \in Conversions(notebook) : n > pos + 1
  BY <1>1, <1>4, <1>11, ConversionsBehind
<1>13. \E a, q : InArrayOf(a, q)'
  BY <1>9
<1> QED
  BY <1>1, <1>2, <1>10, <1>12, <1>13 DEF Extracting

\* A blank line drops what a code cell has kept, and itself in any cell.
LEMMA BlankStep ==
    ASSUME Inv, IsNotebook(notebook), NEW s, NEW m, InArrayOf(s, m), Extracting, MatchBlankLine
    PROVE  Extracting'
<1>1. /\ notebook \in Seq(Symbol) /\ pos \in Nat /\ pos < Len(notebook) /\ Len(notebook) \in Nat
      /\ pos' = pos + 1 /\ notebook' = notebook /\ print_count' = print_count
      /\ Here = notebook[pos + 1] /\ notebook[pos + 1] = "blank" /\ start = "SOURCE"
  BY StepIs DEF Inv, MatchBlankLine
<1>2. /\ yytext' = <<>> /\ UNCHANGED <<start, balanced, count, prefix_comment, yyout>>
      /\ Matched("SOURCE", {"blank"})
  BY DEF MatchBlankLine, cell
<1>3. /\ s \in Sources(notebook) /\ s \in Nat /\ m \in Nat /\ s <= pos /\ m <= pos /\ s - 1 <= m
      /\ pos + 1 \in ArrayAt(notebook, s) /\ balanced \in Int
      /\ Depth(notebook, s, pos + 1) = - balanced + Opens(Here)
                                         - (IF Here = "]" THEN 1 ELSE 0)
  BY <1>1, <1>2, InsideHere
<1>4. SourcesTo(notebook, pos + 1) = SourcesTo(notebook, pos)
      /\ pos + 1 \notin Conversions(notebook)
  <2>1. notebook[pos + 1] # NewLine
    BY <1>1 DEF NewLine
  <2> QED
    BY <1>1, <1>2, <2>1, InsideStays
<1>5. balanced' + Depth(notebook, s, pos + 1) = 0
  BY <1>1, <1>2, <1>3 DEF Opens
<1>6. pos + 1 \in Behind(notebook, s, pos + 1, "blank")
  BY <1>1, <1>3 DEF Behind
<1>7. ASSUME NEW k \in (m + 1) .. (pos + 1) PROVE Written(notebook, print_count, k) = <<>>
  <2>1. k \in ArrayAt(notebook, s) /\ pos + 1 \in Behind(notebook, s, k, "blank")
    <3>1. k = pos + 1 \/ k \in s .. ((pos + 1) - 1)
      BY <1>1, <1>3
    <3>2. k \in ArrayAt(notebook, s)
      BY <1>1, <1>3, <3>1, ArrayIsInside
    <3> QED
      BY <1>1, <1>3, <3>2 DEF Behind
  <2>2. ~IsWritten(notebook, print_count, s, k)
    <3>1. CASE IsMarkdown(notebook, s)
      <4>1. m = pos
        <5>1. notebook[pos] = NewLine
          <6>1. pos + 1 \in 1 .. Len(notebook) /\ pos + 1 # 1 /\ (pos + 1) - 1 = pos
            BY <1>1, <1>3, SourceIsPlace
          <6>2. notebook \in Notebook
            BY DEF Inv, TypeOK
          <6>3. AtLineStart(notebook, pos + 1)
            BY <1>1, <6>1, <6>2, NotebookAssumption
          <6> QED
            BY <6>1, <6>3 DEF AtLineStart
        <5>2. pos \notin (m + 1) .. pos
          BY <3>1, <5>1 DEF InArrayOf
        <5> QED
          BY <1>1, <1>3, <5>2
      <4>2. k = pos + 1
        BY <1>1, <4>1
      <4> QED
        BY <1>6, <4>2 DEF IsWritten
    <3>2. CASE ~IsMarkdown(notebook, s)
      BY <2>1, <3>2 DEF IsWritten
    <3> QED
      BY <3>1, <3>2
  <2> QED
    BY <1>1, <1>3, <2>1, <2>2, WrittenInside
<1>8. Copied(notebook, print_count)[pos + 1] = Copied(notebook, print_count)[m]
  <2>1. pos + 1 \in 0 .. Len(notebook) /\ m \in 0 .. (pos + 1)
    BY <1>1, <1>3
  <2> QED
    BY <1>1, <1>7, <2>1, CopiedNothing
<1>9. /\ yytext' = SubSeq(notebook, (pos + 1) + 1, pos + 1)
      /\ pos + 1 \in (s - 1) .. (pos + 1)
      /\ (pos + 1) + 1 .. (pos + 1) = {}
  BY <1>1, <1>2, <1>3
<1>z. PICK q \in Nat : q = pos + 1
  BY <1>1
<1>10. InArrayOf(s, q)'
  <2>1. /\ AllClosed(notebook, s - 1) /\ (prefix_comment <=> IsMarkdown(notebook, s))
        /\ yyout = Copied(notebook, print_count)[m]
    BY DEF InArrayOf
  <2> QED
    BY <1>1, <1>2, <1>3, <1>5, <1>8, <1>9, <1>z, <2>1 DEF InArrayOf
<1>11. \A n \in Conversions(notebook) : n > pos + 1
  BY <1>1, <1>4, ConversionsBehind DEF Extracting
<1>12. \E a, r : InArrayOf(a, r)'
  BY <1>10
<1> QED
  BY <1>1, <1>2, <1>4, <1>11, <1>12 DEF Extracting

\* What a stretch without newlines of a markdown cell, or without blank lines of
\* a code cell, holds in front of the symbol that writes it.
LEMMA KeptIsWritten ==
    ASSUME notebook \in Seq(Symbol), IsNotebook(notebook), NEW s, NEW m, InArrayOf(s, m),
           pos \in Nat, pos < Len(notebook), m \in Nat, s \in Nat, s - 1 <= m, m <= pos,
           s \in Sources(notebook), pos + 1 \in ArrayAt(notebook, s),
           notebook[pos + 1] # "blank",
           NEW k \in (m + 1) .. pos,
           \A n \in ArrayAt(notebook, s) : n > pos + 1 => IsMarkdown(notebook, s),
           print_count => IsMarkdown(notebook, s) /\ notebook[pos + 1] = NewLine
    PROVE  Written(notebook, print_count, k) = <<notebook[k]>>
<1>1. /\ k \in ArrayAt(notebook, s) /\ Depth(notebook, s, k) > 0
      /\ k \in Nat /\ k < pos + 1
  <2>1. k \in s .. ((pos + 1) - 1) /\ k \in Nat /\ k < pos + 1
    OBVIOUS
  <2> QED
    BY <2>1, ArrayIsInside
<1>2. notebook[k] # "blank" /\ (IsMarkdown(notebook, s) => notebook[k] # NewLine)
  BY DEF InArrayOf
<1>3. AsWritten(notebook, s, k) = <<notebook[k]>>
  BY <1>1, <1>2 DEF AsWritten
<1>4. ASSUME NEW b \in Behind(notebook, s, k, "blank")
      PROVE  IsMarkdown(notebook, s) /\ b # k
  <2>1. b \in ArrayAt(notebook, s) /\ b >= k /\ notebook[b] = "blank"
    BY DEF Behind
  <2>2. b \in Nat
    BY <2>1, ArrayIsInside
  <2>3. b \notin (m + 1) .. pos /\ b # pos + 1
    BY <2>1 DEF InArrayOf
  <2>4. b > pos + 1
    BY <1>1, <2>1, <2>2, <2>3
  <2> QED
    BY <1>1, <2>1, <2>4
<1>5. print_count => IsMarkdown(notebook, s) /\ Behind(notebook, s, k, NewLine) # {}
  <2>1. pos + 1 >= k
    BY <1>1
  <2> QED
    BY <2>1 DEF Behind
<1>6. IsWritten(notebook, print_count, s, k)
  BY <1>4, <1>5 DEF IsWritten
<1> QED
  BY <1>1, <1>3, <1>6, WrittenInside


\* The last bracket of an array: what was kept is written, or, with --count, not.
LEMMA ClosingIsCopied ==
    ASSUME Inv, IsNotebook(notebook), NEW s, NEW m, InArrayOf(s, m), start = "SOURCE",
           Matched("SOURCE", {"]"}), balanced + 1 = 0
    PROVE  /\ Depth(notebook, s, pos + 1) = 0
           /\ Copied(notebook, print_count)[pos + 1] =
                 IF print_count THEN yyout ELSE yyout \o yytext \o <<Here, NewLine>>
<1>1. /\ notebook \in Seq(Symbol) /\ pos \in Nat /\ pos < Len(notebook) /\ Len(notebook) \in Nat
      /\ Here = notebook[pos + 1] /\ notebook[pos + 1] = "]"
      /\ Here # "blank" /\ Here # NewLine /\ Opens(Here) = 0
  BY StepIs DEF Inv, NewLine, Opens
<1>2. /\ s \in Sources(notebook) /\ s \in Nat /\ m \in Nat /\ s <= pos /\ m <= pos /\ s - 1 <= m
      /\ pos + 1 \in ArrayAt(notebook, s) /\ balanced \in Int
      /\ Depth(notebook, s, pos + 1) = - balanced + Opens(Here)
                                         - (IF Here = "]" THEN 1 ELSE 0)
  BY InsideHere
<1>3. Depth(notebook, s, pos + 1) = 0
  BY <1>1, <1>2
<1>4. \A n \in ArrayAt(notebook, s) : n \in Nat /\ n <= pos + 1
  BY <1>1, <1>2, <1>3, ArrayEnds, ArrayIsInside
<1>5. \A k \in (m + 1) .. (pos + 1) : k \in ArrayAt(notebook, s) /\ k \in Nat /\ k <= pos + 1
  <2>1. \A k \in (m + 1) .. (pos + 1) : k = pos + 1 \/ k \in s .. ((pos + 1) - 1)
    BY <1>1, <1>2
  <2>2. \A k \in s .. ((pos + 1) - 1) : k \in ArrayAt(notebook, s)
    BY <1>1, <1>2, ArrayIsInside
  <2>3. \A k \in (m + 1) .. (pos + 1) : k \in Nat /\ k <= pos + 1
    BY <1>1, <1>2
  <2> QED
    BY <1>2, <2>1, <2>2, <2>3
<1>6. /\ \A b \in Behind(notebook, s, pos + 1, "blank") : FALSE
      /\ Behind(notebook, s, pos + 1, NewLine) = {}
  <2>1. \A n \in ArrayAt(notebook, s) : n >= pos + 1 => n = pos + 1
    BY <1>1, <1>4
  <2> QED
    BY <1>1, <2>1 DEF Behind
<1>7. /\ yyout = Copied(notebook, print_count)[m] /\ yytext = SubSeq(notebook, m + 1, pos)
      /\ \A k \in (m + 1) .. pos : IsMarkdown(notebook, s) => notebook[k] # NewLine
  BY DEF InArrayOf
<1>8. CASE ~print_count
  <2>1. \A k \in (m + 1) .. pos : Written(notebook, print_count, k) = <<notebook[k]>>
    <3>1. \A n \in ArrayAt(notebook, s) : n > pos + 1 => IsMarkdown(notebook, s)
      BY <1>1, <1>4
    <3> QED
      BY <1>1, <1>2, <1>8, <3>1, KeptIsWritten
  <2>2. Written(notebook, print_count, pos + 1) = <<Here, NewLine>>
    <3>1. IsWritten(notebook, print_count, s, pos + 1)
      BY <1>6, <1>8 DEF IsWritten
    <3>2. AsWritten(notebook, s, pos + 1) = <<Here, NewLine>>
      BY <1>1, <1>3 DEF AsWritten
    <3> QED
      BY <1>1, <1>2, <3>1, <3>2, WrittenInside
  <2>3. Copied(notebook, print_count)[pos] = Copied(notebook, print_count)[m] \o yytext
    <3>1. pos \in 0 .. Len(notebook) /\ m \in 0 .. pos
      BY <1>1, <1>2
    <3> QED
      BY <1>1, <1>7, <2>1, <3>1, CopiedText
  <2>4. Copied(notebook, print_count)[pos + 1] =
            Copied(notebook, print_count)[pos] \o Written(notebook, print_count, pos + 1)
    BY <1>1, CopiedNext
  <2> QED
    BY <1>3, <1>7, <1>8, <2>2, <2>3, <2>4, Zenon
<1>9. CASE print_count
  <2>1. ASSUME NEW k \in (m + 1) .. (pos + 1) PROVE Written(notebook, print_count, k) = <<>>
    <3>1. k \in ArrayAt(notebook, s) /\ k \in Nat /\ k <= pos + 1
      BY <1>5
    <3>2. ASSUME IsMarkdown(notebook, s), NEW n \in Behind(notebook, s, k, NewLine) PROVE FALSE
      <4>1. n \in ArrayAt(notebook, s) /\ n >= k /\ notebook[n] = NewLine
        BY <3>2 DEF Behind
      <4>2. n # pos + 1
        BY <1>1, <4>1
      <4>3. n \in (m + 1) .. pos
        BY <1>1, <1>2, <1>4, <4>1, <4>2
      <4> QED
        BY <1>7, <3>2, <4>1, <4>3
    <3>3. ~IsWritten(notebook, print_count, s, k)
      BY <1>9, <3>2 DEF IsWritten
    <3> QED
      BY <1>1, <1>2, <3>1, <3>3, WrittenInside
  <2>2. pos + 1 \in 0 .. Len(notebook) /\ m \in 0 .. (pos + 1)
    BY <1>1, <1>2
  <2>3. Copied(notebook, print_count)[pos + 1] = Copied(notebook, print_count)[m]
    BY <1>1, <2>1, <2>2, CopiedNothing
  <2> QED
    BY <1>3, <1>7, <1>9, <2>3
<1> QED
  BY <1>8, <1>9

\* Behind it, all arrays are closed again and the kind of cell is the same.
LEMMA ClosedBehind ==
    ASSUME NEW t \in Seq(Symbol), IsNotebook(t), NEW s \in Sources(t), NEW e \in ArrayAt(t, s),
           Depth(t, s, e) = 0, AllClosed(t, s - 1)
    PROVE  AllClosed(t, e) /\ (IsMarkdown(t, e + 1) <=> IsMarkdown(t, s))
<1>1. s \in Nat /\ s >= 1 /\ e \in Nat /\ s <= e
  BY SourceIsPlace, ArrayIsInside
<1>2. \A k \in s .. e : k \in ArrayAt(t, s) /\ k \in Nat
  <2>1. \A k \in s .. e : k = e \/ k \in s .. (e - 1)
    BY <1>1
  <2> QED
    BY <1>1, <2>1, ArrayIsInside
<1>3. \A k \in s .. e : t[k] \in Key => k = s
  BY <1>2 DEF IsNotebook
<1>4. AllClosed(t, e)
  <2>1. ASSUME NEW a \in Sources(t), a <= e
        PROVE  \E x \in ArrayAt(t, a) : x <= e /\ Depth(t, a, x) = 0
    <3>1. a \in Nat /\ t[a] \in Key
      BY SourceIsPlace
    <3>2. CASE a <= s - 1
      <4>1. PICK x \in ArrayAt(t, a) : x <= s - 1 /\ Depth(t, a, x) = 0
        BY <3>2 DEF AllClosed
      <4>2. x \in Nat
        BY ArrayIsInside
      <4>3. x <= e
        BY <1>1, <4>1, <4>2
      <4> QED
        BY <4>1, <4>3
    <3>3. CASE a > s - 1
      <4>1. a \in s .. e
        BY <1>1, <2>1, <3>1, <3>3
      <4>2. a = s
        BY <1>3, <3>1, <4>1
      <4> QED
        BY <1>1, <4>2
    <3> QED
      BY <1>1, <3>1, <3>2, <3>3
  <2> QED
    BY <2>1 DEF AllClosed
<1>5. IsMarkdown(t, e + 1) <=> IsMarkdown(t, s)
  <2>1. e + 1 \in Nat /\ s \in 1 .. (e + 1) /\ (e + 1) - 1 = e
    BY <1>1
  <2>2. \A k \in s .. e : t[k] # "cell_type"
    <3>1. "cell_type" \in Key /\ t[s] = "source"
      BY SourceIsPlace DEF Key
    <3> QED
      BY <1>3, <3>1
  <2> QED
    BY <2>1, <2>2, SameKind
<1> QED
  BY <1>4, <1>5

LEMMA ClosingStep ==
    ASSUME Inv, IsNotebook(notebook), NEW s, NEW m, InArrayOf(s, m), start = "SOURCE", Extracting,
           MatchClosing, balanced' = 0
    PROVE  Extracting'
<1>1. /\ Matched("SOURCE", {"]"}) /\ balanced + 1 = 0
      /\ yyout' = IF print_count THEN yyout ELSE yyout \o yytext \o <<Here, NewLine>>
      /\ count' = count + 1 /\ start' = "INITIAL" /\ prefix_comment' = prefix_comment
  BY DEF MatchClosing
<1>2. /\ notebook \in Seq(Symbol) /\ pos \in Nat /\ pos < Len(notebook)
      /\ pos' = pos + 1 /\ notebook' = notebook /\ print_count' = print_count
      /\ notebook[pos + 1] # NewLine
  BY <1>1, StepIs DEF Inv, NewLine
<1>3. /\ Depth(notebook, s, pos + 1) = 0
      /\ yyout' = Copied(notebook, print_count)[pos + 1]
  BY <1>1, ClosingIsCopied
<1>4. s \in Sources(notebook) /\ pos + 1 \in ArrayAt(notebook, s)
  BY <1>1, InsideHere
<1>5. AllClosed(notebook, s - 1) /\ (prefix_comment <=> IsMarkdown(notebook, s))
  BY DEF InArrayOf
<1>6. /\ AllClosed(notebook, pos + 1)
      /\ IsMarkdown(notebook, (pos + 1) + 1) <=> IsMarkdown(notebook, s)
  BY <1>2, <1>3, <1>4, <1>5, ClosedBehind
<1>7. BetweenArrays'
  BY <1>1, <1>2, <1>3, <1>5, <1>6 DEF BetweenArrays
<1>8. /\ SourcesTo(notebook, pos + 1) = SourcesTo(notebook, pos)
      /\ pos + 1 \notin Conversions(notebook)
  BY <1>1, <1>2, InsideStays
<1>9. count' = Cardinality(SourcesTo(notebook, pos + 1)) /\ count' \in Nat
  BY <1>1, <1>8 DEF Extracting, Inv, TypeOK
<1>10. \A n \in Conversions(notebook) : n > pos + 1
  BY <1>2, <1>8, ConversionsBehind DEF Extracting
<1>11. start' # "SOURCE" /\ count' + 0 = count'
  BY <1>1, <1>9
<1> QED
  BY <1>2, <1>7, <1>9, <1>10, <1>11 DEF Extracting

\* The line of a markdown cell that is written holds no percent sign, and neither
\* does one before it.
LEMMA NoConversion ==
    ASSUME Inv, IsNotebook(notebook), NEW s, NEW m, InArrayOf(s, m), start = "SOURCE",
           \A n \in Conversions(notebook) : n > pos,
           Matched("SOURCE", {NewLine}), IsMarkdown(notebook, s), ~HasConversion(yytext)
    PROVE  pos + 1 \notin Conversions(notebook)
<1> SUFFICES ASSUME pos + 1 \in Conversions(notebook) PROVE FALSE
  OBVIOUS
<1>1. /\ notebook \in Seq(Symbol) /\ pos \in Nat /\ pos < Len(notebook) /\ Len(notebook) \in Nat
      /\ DOMAIN notebook = 1 .. Len(notebook)
      /\ notebook[pos + 1] = NewLine /\ NewLine # "%" /\ NewLine # "source"
  BY StepIs DEF Inv, NewLine
<1>2. /\ s \in Sources(notebook) /\ s \in Nat /\ m \in Nat /\ s <= pos /\ m <= pos /\ s - 1 <= m
      /\ pos + 1 \in ArrayAt(notebook, s)
  BY InsideHere
<1>3. s >= 1 /\ notebook[s] = "source"
  BY <1>1, <1>2, SourceIsPlace
<1>4. PICK k \in s .. (pos + 1) : notebook[k] = "%"
  <2>1. PICK a \in Sources(notebook) :
          /\ pos + 1 \in ArrayAt(notebook, a) /\ \E k \in a .. (pos + 1) : notebook[k] = "%"
    BY DEF Conversions
  <2>2. a = s
    BY <1>1, <1>2, <2>1, OneArray
  <2> QED
    BY <2>1, <2>2
<1>5. k \in Nat /\ k # pos + 1 /\ s <= k /\ k <= pos
  BY <1>1, <1>2, <1>4
<1>6. k <= m
  <2>1. ASSUME k > m PROVE FALSE
    <3>1. yytext = SubSeq(notebook, m + 1, pos)
      BY DEF InArrayOf
    <3>2. k - m \in 1 .. (pos - m) /\ m + (k - m) = k
      BY <1>1, <1>2, <1>5, <2>1
    <3>3. k - m \in DOMAIN yytext /\ yytext[k - m] = notebook[k]
      BY <1>1, <1>2, <3>1, <3>2
    <3> QED
      BY <1>4, <3>3 DEF HasConversion
  <2> QED
    BY <1>2, <1>5, <2>1
<1>7. notebook[m] \in {NewLine, "blank"} /\ s <= m
  BY <1>2, <1>5, <1>6 DEF InArrayOf
<1>8. ASSUME NEW n \in Nat, k <= n, n <= m, notebook[n] = NewLine PROVE FALSE
  <2>1. n \in s .. ((pos + 1) - 1) /\ n \in DOMAIN notebook /\ k \in s .. n /\ ~(n > pos)
    BY <1>1, <1>2, <1>3, <1>5, <1>8
  <2>2. n \in ArrayAt(notebook, s)
    BY <1>1, <1>2, <2>1, ArrayIsInside
  <2>3. n \in Conversions(notebook)
    BY <1>2, <1>4, <1>8, <2>1, <2>2 DEF Conversions
  <2> QED
    BY <2>1, <2>3
<1>9. notebook[m] = "blank"
  BY <1>2, <1>6, <1>7, <1>8
<1>10. m # s /\ k # m
  BY <1>3, <1>4, <1>9
<1>11. m \in 1 .. Len(notebook) /\ m # 1 /\ m - 1 \in Nat /\ k <= m - 1 /\ m - 1 <= m
  BY <1>1, <1>2, <1>3, <1>5, <1>6, <1>7, <1>10
<1>12. notebook[m - 1] = NewLine
  <2>1. notebook \in Notebook
    BY DEF Inv, TypeOK
  <2>2. AtLineStart(notebook, m)
    BY <1>9, <1>11, <2>1, NotebookAssumption
  <2> QED
    BY <1>11, <2>2 DEF AtLineStart
<1> QED
  BY <1>8, <1>11, <1>12

\* The end of a line of a markdown cell.
LEMMA LineIsCopied ==
    ASSUME Inv, IsNotebook(notebook), NEW s, NEW m, InArrayOf(s, m), start = "SOURCE",
           Matched("SOURCE", {NewLine}), IsMarkdown(notebook, s)
    PROVE  Copied(notebook, print_count)[pos + 1] = yyout \o yytext \o <<NewLine, "#">>
<1>1. /\ notebook \in Seq(Symbol) /\ pos \in Nat /\ pos < Len(notebook) /\ Len(notebook) \in Nat
      /\ Here = notebook[pos + 1] /\ notebook[pos + 1] = NewLine
      /\ Here # "blank" /\ Here # "]" /\ Opens(Here) = 0
  BY StepIs DEF Inv, NewLine, Opens
<1>2. /\ s \in Sources(notebook) /\ s \in Nat /\ m \in Nat /\ s <= pos /\ m <= pos /\ s - 1 <= m
      /\ pos + 1 \in ArrayAt(notebook, s) /\ balanced \in Int /\ balanced < 0
      /\ Depth(notebook, s, pos + 1) = - balanced + Opens(Here)
                                         - (IF Here = "]" THEN 1 ELSE 0)
  BY InsideHere
<1>3. Depth(notebook, s, pos + 1) # 0
  BY <1>1, <1>2
<1>4. /\ yyout = Copied(notebook, print_count)[m] /\ yytext = SubSeq(notebook, m + 1, pos)
  BY DEF InArrayOf
<1>5. \A k \in (m + 1) .. pos : Written(notebook, print_count, k) = <<notebook[k]>>
  BY <1>1, <1>2, KeptIsWritten
<1>6. Written(notebook, print_count, pos + 1) = <<NewLine, "#">>
  <2>1. \A b \in Behind(notebook, s, pos + 1, "blank") : b # pos + 1
    BY <1>1 DEF Behind
  <2>2. pos + 1 \in Behind(notebook, s, pos + 1, NewLine)
    BY <1>1, <1>2 DEF Behind
  <2>3. IsWritten(notebook, print_count, s, pos + 1)
    BY <2>1, <2>2 DEF IsWritten
  <2>4. AsWritten(notebook, s, pos + 1) = <<NewLine, "#">>
    BY <1>1, <1>3 DEF AsWritten
  <2> QED
    BY <1>1, <1>2, <2>3, <2>4, WrittenInside
<1>7. Copied(notebook, print_count)[pos] = Copied(notebook, print_count)[m] \o yytext
  <2>1. pos \in 0 .. Len(notebook) /\ m \in 0 .. pos
    BY <1>1, <1>2
  <2> QED
    BY <1>1, <1>4, <1>5, <2>1, CopiedText
<1>8. Copied(notebook, print_count)[pos + 1] =
          Copied(notebook, print_count)[pos] \o Written(notebook, print_count, pos + 1)
  BY <1>1, CopiedNext
<1> QED
  BY <1>4, <1>6, <1>7, <1>8, Zenon

LEMMA LineStep ==
    ASSUME Inv, IsNotebook(notebook), NEW s, NEW m, InArrayOf(s, m), start = "SOURCE", Extracting,
           MatchNewLine, prefix_comment
    PROVE  IF HasConversion(yytext) THEN start' = "undefined" /\ pos' \in Conversions(notebook')
                                    ELSE start' = "SOURCE" /\ Extracting'
<1>1. /\ Matched("SOURCE", {NewLine}) /\ UNCHANGED <<balanced, count, prefix_comment>>
      /\ IF HasConversion(yytext)
         THEN start' = "undefined" /\ UNCHANGED <<yytext, yyout>>
         ELSE /\ yyout' = yyout \o yytext \o <<NewLine, "#">>
              /\ yytext' = <<>> /\ start' = start
  BY DEF MatchNewLine, cell
<1>2. /\ notebook \in Seq(Symbol) /\ pos \in Nat /\ pos < Len(notebook) /\ Len(notebook) \in Nat
      /\ pos' = pos + 1 /\ notebook' = notebook /\ print_count' = print_count
      /\ DOMAIN notebook = 1 .. Len(notebook) /\ pos + 1 \in DOMAIN notebook
      /\ Here = notebook[pos + 1] /\ notebook[pos + 1] = NewLine
      /\ Here # "]" /\ Opens(Here) = 0
  BY <1>1, StepIs DEF Inv, NewLine, Opens
<1>3. /\ s \in Sources(notebook) /\ s \in Nat /\ m \in Nat /\ s <= pos /\ m <= pos /\ s - 1 <= m
      /\ pos + 1 \in ArrayAt(notebook, s) /\ balanced \in Int
      /\ Depth(notebook, s, pos + 1) = - balanced + Opens(Here)
                                         - (IF Here = "]" THEN 1 ELSE 0)
  BY <1>1, InsideHere
<1>4. IsMarkdown(notebook, s) /\ AllClosed(notebook, s - 1)
      /\ yytext = SubSeq(notebook, m + 1, pos)
  BY DEF InArrayOf
<1>5. CASE HasConversion(yytext)
  <2>1. PICK i \in DOMAIN yytext : yytext[i] = "%"
    BY <1>5 DEF HasConversion
  <2>2. i \in 1 .. (pos - m) /\ yytext[i] = notebook[m + i] /\ m + i \in s .. (pos + 1)
    BY <1>2, <1>3, <1>4
  <2>3. pos + 1 \in Conversions(notebook)
    BY <1>2, <1>3, <1>4, <2>1, <2>2 DEF Conversions
  <2> QED
    BY <1>1, <1>2, <1>5, <2>3
<1>6. CASE ~HasConversion(yytext)
  <2>1. /\ yyout' = yyout \o yytext \o <<NewLine, "#">> /\ yytext' = <<>> /\ start' = "SOURCE"
        /\ start = "SOURCE"
    BY <1>1, <1>6
  <2>2. yyout' = Copied(notebook, print_count)[pos + 1]
    BY <1>1, <1>4, <2>1, LineIsCopied
  <2>3. \A n \in Conversions(notebook) : n > pos
    BY DEF Extracting
  <2>4. pos + 1 \notin Conversions(notebook)
    BY <1>1, <1>4, <1>6, <2>3, NoConversion
  <2>5. SourcesTo(notebook, pos + 1) = SourcesTo(notebook, pos)
    BY <1>1, InsideStays
  <2>6. PICK q \in Nat : q = pos + 1
    BY <1>2
  <2>7. InArrayOf(s, q)'
    <3>1. /\ balanced' + Depth(notebook, s, pos + 1) = 0
          /\ yytext' = SubSeq(notebook, q + 1, pos + 1)
          /\ q \in (s - 1) .. (pos + 1) /\ (q + 1) .. (pos + 1) = {}
      BY <1>1, <1>2, <1>3, <2>1, <2>6
    <3>2. prefix_comment' <=> IsMarkdown(notebook, s)
      BY <1>1, <1>4
    <3> QED
      BY <1>2, <1>3, <1>4, <2>2, <2>6, <3>1, <3>2 DEF InArrayOf
  <2>8. \A n \in Conversions(notebook) : n > pos + 1
    BY <1>2, <2>3, <2>4, ConversionsBehind
  <2>9. \E a, r : InArrayOf(a, r)'
    BY <2>7
  <2>10. count' = count
    BY <1>1
  <2>11. Extracting'
    BY <1>2, <2>1, <2>5, <2>8, <2>9, <2>10 DEF Extracting
  <2> QED
    BY <1>6, <2>1, <2>11
<1> QED
  BY <1>5, <1>6

\* All the steps in an array.
LEMMA InsideStep ==
    ASSUME Inv, IsNotebook(notebook), start = "SOURCE", Extracting,
           MatchText \/ MatchClosing \/ MatchBlankLine \/ MatchNewLine
    PROVE  IF start' = "undefined" THEN pos' \in Conversions(notebook') ELSE Extracting'
<1>1. PICK s, m : InArrayOf(s, m)
  BY DEF Extracting
<1>2. prefix_comment <=> IsMarkdown(notebook, s)
  BY <1>1 DEF InArrayOf
<1>a. balanced \in Int
  BY DEF Inv, TypeOK
<1>3. CASE MatchText
  <2>1. /\ Matched("SOURCE", Symbol \ {"]", "blank", NewLine}) /\ start' = "SOURCE"
        /\ UNCHANGED <<yyout, count, prefix_comment>> /\ yytext' = Append(yytext, Here)
        /\ balanced' = balanced - Opens(Here)
    BY <1>3 DEF MatchText, More
  <2>2. Here # "]" /\ Here # "blank" /\ Here # NewLine
    BY <2>1, StepIs DEF Inv
  <2>3. balanced' = balanced - Opens(Here) + (IF Here = "]" THEN 1 ELSE 0)
    BY <1>a, <2>1, <2>2 DEF Opens
  <2>4. Extracting'
    BY <1>1, <2>1, <2>2, <2>3, KeepStep
  <2> QED
    BY <2>1, <2>4
<1>4. CASE MatchClosing /\ balanced' = 0
  <2>1. Extracting'
    BY <1>1, <1>4, ClosingStep
  <2>2. start' = "INITIAL"
    BY <1>4 DEF MatchClosing
  <2> QED
    BY <2>1, <2>2
<1>5. CASE MatchClosing /\ balanced' # 0
  <2>1. /\ Matched("SOURCE", {"]"}) /\ start' = "SOURCE"
        /\ UNCHANGED <<yyout, count, prefix_comment>> /\ yytext' = Append(yytext, Here)
        /\ balanced' = balanced + 1
    BY <1>5 DEF MatchClosing, More
  <2>2. Here = "]" /\ Here # "blank" /\ Here # NewLine
    BY <2>1, StepIs DEF Inv, NewLine
  <2>3. balanced' = balanced - Opens(Here) + (IF Here = "]" THEN 1 ELSE 0)
    BY <1>a, <2>1, <2>2 DEF Opens
  <2>4. Extracting'
    BY <1>1, <2>1, <2>2, <2>3, KeepStep
  <2> QED
    BY <2>1, <2>4
<1>6. CASE MatchBlankLine
  <2>1. Extracting' /\ start' = "SOURCE"
    BY <1>1, <1>6, BlankStep DEF MatchBlankLine
  <2> QED
    BY <2>1
<1>7. CASE MatchNewLine /\ prefix_comment
  <2>1. start' = "undefined" \/ start' = "SOURCE"
    BY <1>7 DEF MatchNewLine
  <2> QED
    BY <1>1, <1>7, <2>1, LineStep
<1>8. CASE MatchNewLine /\ ~prefix_comment
  <2>1. /\ Matched("SOURCE", {NewLine}) /\ start' = "SOURCE"
        /\ UNCHANGED <<yyout, count, prefix_comment, balanced>> /\ yytext' = Append(yytext, Here)
    BY <1>8 DEF MatchNewLine, More, cell
  <2>2. Here # "]" /\ Here # "blank" /\ Opens(Here) = 0
    BY <2>1, StepIs DEF Inv, NewLine, Opens
  <2>3. balanced' = balanced - Opens(Here) + (IF Here = "]" THEN 1 ELSE 0)
    BY <1>a, <2>1, <2>2
  <2>4. IsMarkdown(notebook, s) => Here # NewLine
    BY <1>2, <1>8
  <2>5. Extracting'
    BY <1>1, <2>1, <2>2, <2>3, <2>4, KeepStep
  <2> QED
    BY <2>1, <2>5
<1> QED
  BY <1>3, <1>4, <1>5, <1>6, <1>7, <1>8

-----------------------------------------------------------------------------
\* Nothing has been extracted in front of the first symbol.
LEMMA InitExtract == Init => ExtractInv
<1> SUFFICES ASSUME Init PROVE ExtractInv
  OBVIOUS
<1>1. notebook \in Seq(Symbol) /\ Len(notebook) \in Nat
  BY NotebookAssumption DEF Init
<1>2. /\ pos = 0 /\ start = "INITIAL" /\ yytext = <<>> /\ count = 0
      /\ prefix_comment = FALSE /\ yyout = <<>>
  BY DEF Init
<1>3. Copied(notebook, print_count)[0] = <<>>
  BY <1>1, CopiedIs DEF Joins
<1>4. ~IsMarkdown(notebook, 0 + 1)
  BY DEF IsMarkdown
<1>5. AllClosed(notebook, 0) /\ SourcesTo(notebook, 0) = {}
  <2>1. \A a \in Sources(notebook) : a \in Nat /\ a >= 1
    BY <1>1, SourceIsPlace
  <2>2. \A a \in Sources(notebook) : ~(a <= 0)
    BY <2>1
  <2> QED
    BY <2>2 DEF AllClosed, SourcesTo
<1>6. \A n \in Conversions(notebook) : n > 0
  BY <1>1, ConversionsAre
<1>7. Cardinality(SourcesTo(notebook, 0)) = 0
  BY <1>5, FS_EmptySet
<1>8. Extracting
  BY <1>2, <1>3, <1>4, <1>5, <1>6, <1>7 DEF Extracting, BetweenArrays
<1> QED
  BY <1>2, <1>8 DEF ExtractInv

\* What yymore keeps, and what undoes the program, stands in the notebook.
LEMMA KeptComesFromNotebook ==
    ASSUME Inv, ExtractInv, Next
    PROVE  /\ start' = "undefined" => \E k \in DOMAIN notebook' : notebook'[k] = "%"
           /\ \A k \in DOMAIN yytext' : \E j \in DOMAIN notebook' : yytext'[k] = notebook'[j]
           /\ start # "undefined"
<1>1. PICK condition, symbols : Matched(condition, symbols) /\ condition # "undefined"
  BY DEF Next, MatchCellType, MatchMarkdownOrCode, EchoInCellType, MatchSource, SkipOther,
         MatchText, MatchClosing, MatchBlankLine, MatchNewLine
<1>2. /\ notebook' = notebook /\ start # "undefined"
      /\ pos + 1 \in DOMAIN notebook /\ Here = notebook[pos + 1]
  BY <1>1, StepIs DEF Inv
<1>3. yytext \in Seq(Symbol)
  BY DEF Inv, TypeOK
<1>4. yytext' \in {yytext, <<>>, <<Here>>, Append(yytext, Here)}
  BY DEF Next, MatchCellType, MatchMarkdownOrCode, EchoInCellType, MatchSource, SkipOther,
         MatchText, MatchClosing, MatchBlankLine, MatchNewLine, More, NoText
<1>5. \A k \in DOMAIN yytext : \E j \in DOMAIN notebook : yytext[k] = notebook[j]
  BY DEF ExtractInv
<1>6. \A k \in DOMAIN yytext' : \/ k \in DOMAIN yytext /\ yytext'[k] = yytext[k]
                                \/ yytext'[k] = Here
  <2>1. CASE yytext' = yytext \/ yytext' = <<>>
    BY <2>1
  <2>2. CASE yytext' = <<Here>>
    BY <2>2
  <2>3. CASE yytext' = Append(yytext, Here)
    BY <1>3, <2>3
  <2> QED
    BY <1>4, <2>1, <2>2, <2>3
<1>7. \A k \in DOMAIN yytext' : \E j \in DOMAIN notebook' : yytext'[k] = notebook'[j]
  BY <1>2, <1>5, <1>6
<1>8. ASSUME start' = "undefined" PROVE \E k \in DOMAIN notebook' : notebook'[k] = "%"
  <2>1. MatchNewLine /\ HasConversion(yytext)
    BY <1>2, <1>8 DEF Next, MatchCellType, MatchMarkdownOrCode, EchoInCellType, MatchSource, SkipOther,
              MatchText, MatchClosing, MatchBlankLine, MatchNewLine
  <2>2. PICK k \in DOMAIN yytext : yytext[k] = "%"
    BY <2>1 DEF HasConversion
  <2> QED
    BY <1>2, <1>5, <2>2
<1> QED
  BY <1>2, <1>7, <1>8

\* Every step keeps what has been extracted right.
LEMMA NextExtract == Inv /\ ExtractInv /\ [Next]_vars => ExtractInv'
<1> SUFFICES ASSUME Inv, ExtractInv, [Next]_vars PROVE ExtractInv'
  OBVIOUS
<1>1. CASE Next
  <2>1. /\ start' = "undefined" => \E k \in DOMAIN notebook' : notebook'[k] = "%"
        /\ \A k \in DOMAIN yytext' : \E j \in DOMAIN notebook' : yytext'[k] = notebook'[j]
        /\ start # "undefined"
    BY <1>1, KeptComesFromNotebook
  <2>2. ASSUME IsNotebook(notebook')
        PROVE  IF start' = "undefined" THEN pos' \in Conversions(notebook') ELSE Extracting'
    <3>1. notebook' = notebook
      BY <1>1, StepIs
         DEF Inv, Next, MatchCellType, MatchMarkdownOrCode, EchoInCellType, MatchSource, SkipOther,
             MatchText, MatchClosing, MatchBlankLine, MatchNewLine
    <3>2. IsNotebook(notebook) /\ Extracting
      BY <2>1, <2>2, <3>1 DEF ExtractInv
    <3>3. CASE MatchCellType \/ SkipOther \/ MatchMarkdownOrCode \/ EchoInCellType
      BY <2>1, <3>2, <3>3, OutsideStep
    <3>4. CASE MatchSource
      BY <3>2, <3>4, SourceStep DEF MatchSource
    <3>5. CASE MatchText \/ MatchClosing \/ MatchBlankLine \/ MatchNewLine
      <4>1. start = "SOURCE"
        BY <3>5 DEF MatchText, MatchClosing, MatchBlankLine, MatchNewLine, Matched
      <4> QED
        BY <3>2, <3>5, <4>1, InsideStep
    <3> QED
      BY <1>1, <3>3, <3>4, <3>5 DEF Next
  <2> QED
    BY <2>1, <2>2 DEF ExtractInv
<1>2. CASE UNCHANGED vars
  <2>1. /\ notebook' = notebook /\ print_count' = print_count /\ pos' = pos /\ start' = start
        /\ yytext' = yytext /\ balanced' = balanced /\ count' = count
        /\ prefix_comment' = prefix_comment /\ yyout' = yyout
    BY <1>2 DEF vars
  <2>2. \A s, m : InArrayOf(s, m) => InArrayOf(s, m)'
    BY <2>1 DEF InArrayOf
  <2>3. BetweenArrays' = BetweenArrays
    BY <2>1 DEF BetweenArrays
  <2>4. Extracting => Extracting'
    BY <2>1, <2>2, <2>3 DEF Extracting
  <2> QED
    BY <2>1, <2>4 DEF ExtractInv
<1> QED
  BY <1>1, <1>2

\* At the end of a notebook, every array has been closed.
LEMMA NoArrayIsOpen ==
    ASSUME Inv, IsNotebook(notebook), Extracting, AtEnd PROVE start # "SOURCE"
<1> SUFFICES ASSUME start = "SOURCE" PROVE FALSE
  OBVIOUS
<1>1. notebook \in Seq(Symbol) /\ pos = Len(notebook) /\ Len(notebook) \in Nat
  BY NotebookAssumption DEF Inv, TypeOK, AtEnd
<1>2. PICK s, m : InArrayOf(s, m)
  BY DEF Extracting
<1>3. /\ s \in Sources(notebook) /\ pos \in ArrayAt(notebook, s)
      /\ balanced + Depth(notebook, s, pos) = 0
  BY <1>2 DEF InArrayOf
<1>4. pos \in s .. Len(notebook) /\ s \in 1 .. Len(notebook) /\ s \in Nat
  BY <1>1, <1>3, ArrayIsInside, SourceIsPlace
<1>5. Depth(notebook, s, pos) # 0
  BY <1>3 DEF Inv, TypeOK, BalancedCountsOpenBrackets
<1>6. PICK e \in ArrayAt(notebook, s) : Depth(notebook, s, e) = 0
  BY <1>3 DEF IsNotebook
<1>7. e \in s .. Len(notebook) /\ pos <= e
  BY <1>1, <1>3, <1>6, ArrayIsInside, ArrayEnds
<1>8. e = pos
  BY <1>1, <1>4, <1>7
<1> QED
  BY <1>5, <1>6, <1>8

LEMMA ExtractInvSuffices == Inv /\ ExtractInv => ExtractsEverySource
<1> SUFFICES ASSUME Inv, ExtractInv, IsNotebook(notebook), AtEnd, start # "undefined"
             PROVE  /\ Conversions(notebook) = {}
                    /\ count = Cardinality(Sources(notebook))
                    /\ yyout = FlattenSeq([k \in DOMAIN notebook |->
                                              Written(notebook, print_count, k)])
  BY DEF ExtractInv, ExtractsEverySource
<1>1. notebook \in Seq(Symbol) /\ pos = Len(notebook) /\ Len(notebook) \in Nat /\ count \in Nat
  BY NotebookAssumption DEF Inv, TypeOK, AtEnd
<1>2. Extracting
  BY DEF ExtractInv
<1>3. start # "SOURCE"
  BY <1>2, NoArrayIsOpen
<1>4. /\ \A n \in Conversions(notebook) : n > pos
      /\ count + 0 = Cardinality(SourcesTo(notebook, pos))
      /\ yyout = Copied(notebook, print_count)[pos]
  BY <1>2, <1>3 DEF Extracting, BetweenArrays
<1>5. Conversions(notebook) = {}
  BY <1>1, <1>4, ConversionsAre
<1>6. SourcesTo(notebook, pos) = Sources(notebook)
  BY <1>1, SourceIsPlace DEF SourcesTo
<1>7. yyout = FlattenSeq(Parts(notebook, print_count))
  BY <1>1, <1>4, CopiedIs
<1> QED
  BY <1>1, <1>4, <1>5, <1>6, <1>7 DEF Parts

\* Of every notebook, however long and however its cells are nested, the results
\* file holds at the end the source of every cell, once and in order, as the kind
\* of the cell and --count ask (lines 21-52), and the program is undone by the end
\* of a markdown line behind a percent sign and by nothing else (line 50).
THEOREM EverySourceIsExtracted == Spec => []ExtractsEverySource
<1>1. Inv /\ ExtractInv => ExtractsEverySource
  BY ExtractInvSuffices
<1>2. Init => Inv /\ ExtractInv
  BY InitInv, InitExtract
<1>3. (Inv /\ ExtractInv) /\ [Next]_vars => (Inv /\ ExtractInv)'
  BY NextInv, NextExtract
<1> QED
  BY <1>1, <1>2, <1>3, PTL DEF Spec
=============================================================================
