------------------------- MODULE EditDistance_proofs -------------------------
(* Proofs about EditDistance for every table extent and every set of         *)
(* requests: types, the loop bounds, the shape of the distance table, and     *)
(* that what it holds last is the distance of the words.                     *)
EXTENDS EditDistance, FiniteSetTheorems, TLAPS

\* Where the loop counters stand, and that the words fit the dimensions the
\* loops have already walked.
LoopBounds ==
    /\ pc \in {"column", "row", "cell", "done"} =>
           X \in Seq(Letter) /\ Y \in Seq(Letter)
    /\ pc = "column" => i <= N + 1 /\ i <= Dim
    /\ pc = "row"    => N \in Index /\ j <= M + 1 /\ j <= Dim
    /\ pc = "cell"   => /\ N \in Index /\ M \in Index
                        /\ i \in 1 .. (N + 1) /\ j \in 1 .. (M + 1)
    /\ pc = "done"   => N \in Index /\ M \in Index

\* The first row and column hold their own index.
BorderFilled ==
    \A c \in Filled : /\ c[1] = 0 => dist[c] = c[2]
                      /\ c[2] = 0 => dist[c] = c[1]

\* AdjacentCellsDiffer is not inductive alone: the loops have to stay inside
\* the table, and the border has to be known, for the new cell to differ by one
\* from its neighbours.
Inv == TypeOK /\ LoopBounds /\ BorderFilled /\ AdjacentCellsDiffer

-----------------------------------------------------------------------------
\* The initial state satisfies the invariant.
THEOREM InitInv == Init => Inv
<1> SUFFICES ASSUME Init PROVE Inv
  OBVIOUS
<1>1. TypeOK
  BY DimAssumption DEF Init, TypeOK, Index, Op
<1>2. LoopBounds /\ BorderFilled /\ AdjacentCellsDiffer
  BY DEF Init, LoopBounds, BorderFilled, AdjacentCellsDiffer, Filled, HasValue
<1> QED
  BY <1>1, <1>2 DEF Inv

\* The three entries of arr are naturals, and so is the least of them.
LEMMA LeastIsNat ==
    ASSUME NEW arr \in [Op -> Nat]
    PROVE  Least(arr) \in Nat
BY DEF Least, Op

LEMMA ArrIsNat ==
    ASSUME dist \in [Index \X Index -> Nat], Dim \in Nat,
           NEW a \in Index, NEW b \in Index, a > 0, b > 0
    PROVE  Arr(a, b) \in [Op -> Nat]
<1>1. /\ <<a - 1, b>> \in Index \X Index
      /\ <<a, b - 1>> \in Index \X Index
      /\ <<a - 1, b - 1>> \in Index \X Index
  BY DEF Index
<1>2. SubstCost(a, b) \in Nat
  BY DEF SubstCost
<1>3. /\ dist[<<a - 1, b>>] \in Nat
      /\ dist[<<a, b - 1>>] \in Nat
      /\ dist[<<a - 1, b - 1>>] \in Nat
  BY <1>1
<1> QED
  BY <1>2, <1>3 DEF Arr, Op

\* A cell whose three neighbours differ from each other as the invariant asks
\* differs from each of them in the same way.
LEMMA NewCell ==
    ASSUME NEW up \in Nat, NEW left \in Nat, NEW diag \in Nat,
           NEW s \in {0, 2},
           up - diag \in {-1, 1}, left - diag \in {-1, 1},
           NEW l,
           l = Least([deletion |-> up + 1, insertion |-> left + 1,
                      substitution |-> diag + s])
    PROVE  l - up \in {-1, 1} /\ l - left \in {-1, 1} /\ l - diag \in {0, 2}
BY DEF Least

-----------------------------------------------------------------------------
\* Every step keeps the type invariant and the bounds of the loops.
LEMMA NextTypes == Inv /\ [Next]_vars => TypeOK' /\ LoopBounds'
<1> SUFFICES ASSUME Inv, [Next]_vars PROVE TypeOK' /\ LoopBounds'
  OBVIOUS
<1> USE DEF Inv
<1>a. ASSUME X # NoWord PROVE X \in Seq(Letter) /\ Len(X) \in Nat
  BY <1>a DEF TypeOK
<1>b. ASSUME Y # NoWord PROVE Y \in Seq(Letter) /\ Len(Y) \in Nat
  BY <1>b DEF TypeOK
<1>1. CASE Start
  <2>1. request.argc = 3 => /\ request.words[1] \in Seq(Letter)
                            /\ request.words[2] \in Seq(Letter)
    BY RequestAssumption DEF TypeOK
  <2>2. request.words \in Seq(Seq(Letter))
    BY RequestAssumption DEF TypeOK
  <2>3. <<>> \in Seq(Seq(Letter))
    OBVIOUS
  <2>4. /\ X' \in Seq(Letter) \cup {NoWord} /\ Y' \in Seq(Letter) \cup {NoWord}
        /\ pc' \in {"lex", "measure"} /\ unread' \in Seq(Seq(Letter))
        /\ UNCHANGED <<request, i, j, dist, ptr, result>>
    BY <1>1, <2>1, <2>2, <2>3 DEF Start, TypeOK, tables
  <2> QED
    BY <2>4 DEF TypeOK, LoopBounds
<1>2. CASE LexWord
  <2>1. Head(unread) \in Seq(Letter) /\ Tail(unread) \in Seq(Seq(Letter))
    BY <1>2 DEF LexWord, TypeOK
  <2> QED
    BY <1>2, <2>1 DEF LexWord, NextY, TypeOK, LoopBounds, tables
<1>3. CASE LexEnd
  BY <1>3 DEF LexEnd, TypeOK, LoopBounds, tables
<1>4. CASE Measure
  BY <1>4, <1>a, <1>b, DimAssumption DEF Measure, TypeOK, LoopBounds, tables, N
<1>5. CASE FillColumn
  <2>1. i + 1 \in Nat /\ i + 1 <= N + 1
    BY <1>5, <1>a DEF FillColumn, TypeOK, LoopBounds, N
  <2>2. i \in Index => /\ <<i, 0>> \in Index \X Index
                       /\ i + 1 <= Dim
    BY DimAssumption DEF Index
  <2> QED
    BY <1>5, <2>1, <2>2 DEF FillColumn, TypeOK, LoopBounds, N, M
<1>6. CASE ColumnEnd
  <2>1. /\ X \in Seq(Letter) /\ Y \in Seq(Letter)
        /\ i <= N + 1 /\ i <= Dim /\ i > N
        /\ i' = i /\ j' = 0 /\ pc' = "row" /\ UNCHANGED <<X, Y>>
    BY <1>6 DEF ColumnEnd, LoopBounds
  <2>2. N \in Index /\ M \in Nat /\ UNCHANGED <<N, M>>
    BY <2>1, DimAssumption DEF TypeOK, N, M, Index
  <2>3. TypeOK'
    BY <1>6 DEF ColumnEnd, TypeOK, tables
  <2> QED
    BY <2>1, <2>2, <2>3, DimAssumption DEF LoopBounds
<1>7. CASE FillRow
  <2>1. /\ X \in Seq(Letter) /\ Y \in Seq(Letter) /\ N \in Index /\ M \in Nat
    BY <1>7 DEF FillRow, LoopBounds, M
  <2>2. j \in Index => /\ <<0, j>> \in Index \X Index
                       /\ j + 1 <= Dim
    BY DimAssumption DEF Index
  <2>3. j + 1 \in Nat /\ j + 1 <= M + 1
    BY <1>7, <2>1 DEF FillRow, TypeOK
  <2>4. UNCHANGED <<N, M>>
    BY <1>7 DEF FillRow, N, M
  <2>5. TypeOK'
    BY <1>7, <2>2, <2>3 DEF FillRow, FirstRow, TypeOK
  <2> QED
    BY <1>7, <2>1, <2>2, <2>3, <2>4, <2>5 DEF FillRow, LoopBounds
<1>8. CASE RowEnd
  <2>1. /\ X \in Seq(Letter) /\ Y \in Seq(Letter) /\ N \in Index
        /\ j <= M + 1 /\ j <= Dim /\ j > M
        /\ i' = 1 /\ j' = 1 /\ pc' = "cell" /\ UNCHANGED <<X, Y>>
    BY <1>8 DEF RowEnd, LoopBounds
  <2>2. M \in Index /\ UNCHANGED <<N, M>>
    BY <2>1, DimAssumption DEF TypeOK, N, M, Index
  <2>3. 1 \in 1 .. (N + 1) /\ 1 \in 1 .. (M + 1)
    BY <2>1, <2>2 DEF Index
  <2>4. TypeOK'
    BY <1>8 DEF RowEnd, TypeOK, tables
  <2> QED
    BY <2>1, <2>2, <2>3, <2>4 DEF LoopBounds
<1>9. CASE FillCell
  <2>1. /\ X \in Seq(Letter) /\ Y \in Seq(Letter)
        /\ N \in Index /\ M \in Index /\ UNCHANGED <<N, M>>
        /\ i \in 1 .. N /\ j \in 1 .. M
    BY <1>9 DEF FillCell, LoopBounds, N, M
  <2>2. i \in Index /\ j \in Index /\ i > 0 /\ j > 0
    BY <2>1, DimAssumption DEF Index
  <2>3. Least(Arr(i, j)) \in Nat
    BY <2>2, ArrIsNat, LeastIsNat, DimAssumption DEF TypeOK
  <2>4. /\ dist' \in [Index \X Index -> Nat]
        /\ ptr' \in [Index \X Index -> SUBSET Op]
    BY <1>9, <2>2, <2>3 DEF FillCell, TypeOK, Optimal
  <2>5. j' \in 1 .. (M + 1) /\ j' \in Nat
    BY <1>9, <2>1, <2>2 DEF FillCell, Index
  <2>6. TypeOK'
    BY <1>9, <2>2, <2>4, <2>5 DEF FillCell, TypeOK
  <2> QED
    BY <1>9, <2>1, <2>2, <2>5, <2>6 DEF FillCell, LoopBounds
<1>10. CASE NextRow
  <2>1. /\ X \in Seq(Letter) /\ Y \in Seq(Letter)
        /\ N \in Index /\ M \in Index /\ UNCHANGED <<N, M>>
        /\ i \in 1 .. N
    BY <1>10 DEF NextRow, LoopBounds, N, M
  <2>2. i + 1 \in 1 .. (N + 1) /\ 1 \in 1 .. (M + 1)
    BY <2>1 DEF Index
  <2> QED
    BY <1>10, <2>1, <2>2 DEF NextRow, TypeOK, LoopBounds, tables
<1>11. CASE Report
  <2>1. /\ X \in Seq(Letter) /\ Y \in Seq(Letter)
        /\ N \in Index /\ M \in Index /\ UNCHANGED <<N, M>>
    BY <1>11 DEF Report, LoopBounds, N, M
  <2>2. <<N - 1, M - 1>> \in Index \X Index
    BY <2>1, DimAssumption DEF N, M, Index
  <2>3. result' \in Nat
    BY <1>11, <2>2 DEF Report, FinalCell, TypeOK
  <2> QED
    BY <1>11, <2>1, <2>3 DEF Report, TypeOK, LoopBounds
<1>12. CASE UNCHANGED vars
  BY <1>12 DEF vars, TypeOK, LoopBounds, N, M
<1> QED
  BY <1>1, <1>2, <1>3, <1>4, <1>5, <1>6, <1>7, <1>8, <1>9, <1>10, <1>11, <1>12
  DEF Next

-----------------------------------------------------------------------------
\* A step that fills no cell and leaves the table alone keeps its shape.
LEMMA SameTable ==
    ASSUME Inv, Filled' \subseteq Filled, dist' = dist
    PROVE  BorderFilled' /\ AdjacentCellsDiffer'
BY DEF Inv, BorderFilled, AdjacentCellsDiffer

\* Filling the next cell of the column of deletions.
LEMMA ColumnKeepsTable == Inv /\ FillColumn => BorderFilled' /\ AdjacentCellsDiffer'
<1> SUFFICES ASSUME Inv, FillColumn PROVE BorderFilled' /\ AdjacentCellsDiffer'
  OBVIOUS
<1> USE DimAssumption
<1>1. CASE i \notin Index
  <2>1. Filled' = {}
    BY <1>1 DEF FillColumn, Filled, HasValue
  <2> QED
    BY <2>1 DEF BorderFilled, AdjacentCellsDiffer
<1>2. CASE i \in Index
  <2>1. /\ pc = "column" /\ pc' = "column" /\ i' = i + 1
        /\ dist' = [dist EXCEPT ![<<i, 0>>] = i]
        /\ dist \in [Index \X Index -> Nat]
    BY <1>2 DEF FillColumn, Inv, TypeOK
  <2>2. \A c \in Filled : /\ c \in Index \X Index /\ c[2] = 0 /\ c[1] < i
                          /\ dist[c] = c[1] /\ dist'[c] = dist[c]
    BY <2>1 DEF Filled, HasValue, Inv, BorderFilled
  <2>3. \A c \in Filled' : c \in Filled \/ c = <<i, 0>>
    BY <1>2, <2>1 DEF Filled, HasValue, Index
  <2>4. dist'[<<i, 0>>] = i
    BY <1>2, <2>1 DEF Index
  <2>5. \A c \in Filled' : c[2] = 0 /\ dist'[c] = c[1] /\ c[1] \in Index
    BY <1>2, <2>2, <2>3, <2>4
  <2> QED
    BY <2>5 DEF BorderFilled, AdjacentCellsDiffer, Index
<1> QED
  BY <1>1, <1>2

\* Filling the next cell of the row of insertions.
LEMMA RowKeepsTable == Inv /\ FillRow => BorderFilled' /\ AdjacentCellsDiffer'
<1> SUFFICES ASSUME Inv, FillRow PROVE BorderFilled' /\ AdjacentCellsDiffer'
  OBVIOUS
<1> USE DimAssumption
<1>1. CASE j \notin Index
  <2>1. Filled' = {}
    BY <1>1 DEF FillRow, Filled, HasValue
  <2> QED
    BY <2>1 DEF BorderFilled, AdjacentCellsDiffer
<1>2. CASE j \in Index
  <2>1. /\ pc = "row" /\ pc' = "row" /\ j' = j + 1 /\ N' = N
        /\ dist' = [dist EXCEPT ![<<0, j>>] = j]
        /\ dist \in [Index \X Index -> Nat]
    BY <1>2 DEF FillRow, FirstRow, Inv, TypeOK, N
  <2>2. \A c \in Filled : /\ c \in Index \X Index /\ (c[1] = 0 \/ c[2] = 0)
                          /\ dist[c] = c[1] + c[2]
    BY <2>1 DEF Filled, HasValue, Inv, BorderFilled, Index
  <2>3. \A c \in Filled' : c \in Filled \/ c = <<0, j>>
    BY <1>2, <2>1 DEF Filled, HasValue, Index
  <2>4. dist'[<<0, j>>] = j /\ \A c \in Index \X Index : c # <<0, j>> => dist'[c] = dist[c]
    BY <1>2, <2>1 DEF Index
  <2>5. \A c \in Filled' : /\ c \in Index \X Index
                           /\ c[1] = 0 \/ c[2] = 0
                           /\ dist'[c] = c[1] + c[2]
    BY <1>2, <2>2, <2>3, <2>4 DEF Filled, Index
  <2> QED
    BY <2>5 DEF BorderFilled, AdjacentCellsDiffer, Index
<1> QED
  BY <1>1, <1>2

\* distance(): the new cell differs from its neighbours as the invariant asks.
LEMMA CellKeepsTable == Inv /\ FillCell => BorderFilled' /\ AdjacentCellsDiffer'
<1> SUFFICES ASSUME Inv, FillCell PROVE BorderFilled' /\ AdjacentCellsDiffer'
  OBVIOUS
<1> USE DimAssumption
<1>1. /\ pc = "cell" /\ N \in Index /\ M \in Index /\ N' = N /\ M' = M
      /\ i \in 1 .. N /\ j \in 1 .. M
      /\ dist \in [Index \X Index -> Nat]
  BY DEF FillCell, Inv, TypeOK, LoopBounds, N, M
<1>2. i \in Index /\ j \in Index /\ i - 1 \in Index /\ j - 1 \in Index
  BY <1>1 DEF Index
<1>3. /\ pc' = "cell" /\ j' = j + 1 /\ i' = i
      /\ dist' = [dist EXCEPT ![<<i, j>>] = Least(Arr(i, j))]
  BY <1>2 DEF FillCell
<1> DEFINE up == dist[<<i - 1, j>>]
           left == dist[<<i, j - 1>>]
           diag == dist[<<i - 1, j - 1>>]
           new == <<i, j>>
<1>4. /\ <<i - 1, j>> \in Filled /\ <<i, j - 1>> \in Filled
      /\ <<i - 1, j - 1>> \in Filled
  BY <1>1, <1>2 DEF Filled, HasValue, Index
<1>5. up \in Nat /\ left \in Nat /\ diag \in Nat
  BY <1>1, <1>2
<1>6. left - diag \in {-1, 1}
  <2>1. <<i, j - 1>>[1] - 1 = i - 1 /\ <<i, j - 1>>[1] > 0
    BY <1>1 DEF Index
  <2> QED
    BY <1>4, <2>1 DEF Inv, AdjacentCellsDiffer
<1>7. up - diag \in {-1, 1}
  <2>1. <<i - 1, j>>[2] - 1 = j - 1 /\ <<i - 1, j>>[2] > 0
    BY <1>1 DEF Index
  <2> QED
    BY <1>4, <2>1 DEF Inv, AdjacentCellsDiffer
<1>8. SubstCost(i, j) \in {0, 2}
  BY DEF SubstCost
<1>9. Arr(i, j) = [deletion |-> up + 1, insertion |-> left + 1,
                   substitution |-> diag + SubstCost(i, j)]
  BY DEF Arr
<1>10. /\ dist'[new] - up \in {-1, 1}
       /\ dist'[new] - left \in {-1, 1}
       /\ dist'[new] - diag \in {0, 2}
  <2>1. dist'[new] = Least(Arr(i, j))
    BY <1>1, <1>2, <1>3
  <2> DEFINE l == dist'[new]
             s == SubstCost(i, j)
  <2>2. l = Least([deletion |-> up + 1, insertion |-> left + 1,
                   substitution |-> diag + s])
    BY <1>9, <2>1
  <2>3. s \in {0, 2}
    BY <1>8
  <2> HIDE DEF up, left, diag, new, l, s
  <2>4. l - up \in {-1, 1} /\ l - left \in {-1, 1} /\ l - diag \in {0, 2}
    BY <1>5, <1>6, <1>7, <2>2, <2>3, NewCell
  <2> QED
    BY <2>4 DEF l
<1>11. /\ \A c \in Filled : c # new /\ dist'[c] = dist[c]
       /\ \A c \in Filled' : c \in Filled \/ c = new
  BY <1>1, <1>2, <1>3 DEF Filled, HasValue, Index
<1>12. BorderFilled'
  BY <1>1, <1>11 DEF Inv, BorderFilled, Index
<1>13. ASSUME NEW c \in Filled'
       PROVE  /\ c[1] > 0 /\ <<c[1] - 1, c[2]>> \in Filled' =>
                    dist'[c] - dist'[<<c[1] - 1, c[2]>>] \in {-1, 1}
              /\ c[2] > 0 /\ <<c[1], c[2] - 1>> \in Filled' =>
                    dist'[c] - dist'[<<c[1], c[2] - 1>>] \in {-1, 1}
              /\ c[1] > 0 /\ c[2] > 0 =>
                    dist'[c] - dist'[<<c[1] - 1, c[2] - 1>>] \in {0, 2}
  <2>1. CASE c = new
    <3>1. c[1] = i /\ c[2] = j
      BY <2>1
    <3>2. /\ dist'[<<i - 1, j>>] = up /\ dist'[<<i, j - 1>>] = left
          /\ dist'[<<i - 1, j - 1>>] = diag
      BY <1>4, <1>11
    <3> QED
      BY <2>1, <3>1, <3>2, <1>10
  <2>2. CASE c \in Filled
    <3>1. /\ c \in Index \X Index /\ c[1] <= N /\ c[2] <= M
          /\ c[1] = 0 \/ c[2] = 0 \/ c[1] < i \/ (c[1] = i /\ c[2] < j)
      BY <1>1, <2>2 DEF Filled, HasValue
    <3>2. /\ c[1] > 0 => <<c[1] - 1, c[2]>> \in Filled
          /\ c[2] > 0 => <<c[1], c[2] - 1>> \in Filled
          /\ c[1] > 0 /\ c[2] > 0 => <<c[1] - 1, c[2] - 1>> \in Filled
      BY <1>1, <3>1 DEF Filled, HasValue, Index
    <3> QED
      BY <2>2, <3>2, <1>11 DEF Inv, AdjacentCellsDiffer
  <2> QED
    BY <1>11, <2>1, <2>2
<1> QED
  BY <1>12, <1>13 DEF AdjacentCellsDiffer

\* Every step keeps the shape of the table.
LEMMA NextTable == Inv /\ [Next]_vars => BorderFilled' /\ AdjacentCellsDiffer'
<1> SUFFICES ASSUME Inv, [Next]_vars PROVE BorderFilled' /\ AdjacentCellsDiffer'
  OBVIOUS
<1> USE DimAssumption
<1>1. CASE Start \/ LexWord \/ LexEnd
  <2>1. Filled' = {}
    BY <1>1 DEF Start, LexWord, LexEnd, Filled, HasValue
  <2> QED
    BY <2>1 DEF BorderFilled, AdjacentCellsDiffer
<1>2. CASE Measure
  <2>1. Filled' = {}
    BY <1>2 DEF Measure, Filled, HasValue, Index
  <2> QED
    BY <2>1 DEF BorderFilled, AdjacentCellsDiffer
<1>3. CASE FillColumn
  BY <1>3, ColumnKeepsTable
<1>4. CASE ColumnEnd
  <2>1. N' = N /\ N \in Nat /\ i = N + 1
    BY <1>4 DEF ColumnEnd, Inv, LoopBounds, TypeOK, N
  <2>2. Filled' \subseteq Filled /\ dist' = dist
    BY <1>4, <2>1 DEF ColumnEnd, tables, Filled, HasValue, Index
  <2> QED
    BY <2>2, SameTable
<1>5. CASE FillRow
  BY <1>5, RowKeepsTable
<1>6. CASE RowEnd
  <2>1. N' = N /\ M' = M /\ M \in Nat /\ j = M + 1
    BY <1>6 DEF RowEnd, Inv, LoopBounds, TypeOK, N, M
  <2>2. Filled' \subseteq Filled /\ dist' = dist
    BY <1>6, <2>1 DEF RowEnd, tables, Filled, HasValue, Index
  <2> QED
    BY <2>2, SameTable
<1>7. CASE FillCell
  BY <1>7, CellKeepsTable
<1>8. CASE NextRow \/ Report
  <2>1. /\ N' = N /\ M' = M /\ N \in Index /\ M \in Index
        /\ i \in 1 .. (N + 1) /\ j \in 1 .. (M + 1)
    BY <1>8 DEF NextRow, Report, Inv, LoopBounds, N, M
  <2>2. Filled' \subseteq Filled /\ dist' = dist
    BY <1>8, <2>1
    DEF NextRow, Report, tables, Filled, HasValue, Index
  <2> QED
    BY <2>2, SameTable
<1>9. CASE UNCHANGED vars
  <2>1. Filled' \subseteq Filled /\ dist' = dist
    BY <1>9 DEF vars, Filled, HasValue, N, M
  <2> QED
    BY <2>1, SameTable
<1> QED
  BY <1>1, <1>2, <1>3, <1>4, <1>5, <1>6, <1>7, <1>8, <1>9 DEF Next

-----------------------------------------------------------------------------
\* Every variable keeps its type, for every extent and every request.
THEOREM TypeCorrect == Spec => []TypeOK
<1>1. Inv /\ [Next]_vars => Inv'
  BY NextTypes, NextTable DEF Inv
<1>2. Inv => TypeOK
  BY DEF Inv
<1> QED
  BY InitInv, <1>1, <1>2, PTL DEF Spec

\* Neighbouring cells of the table differ by exactly one and diagonal ones by
\* 0 or 2, for words of every length and tables of every extent.
THEOREM TableShape == Spec => []AdjacentCellsDiffer
<1>1. Inv /\ [Next]_vars => Inv'
  BY NextTypes, NextTable DEF Inv
<1>2. Inv => AdjacentCellsDiffer
  BY DEF Inv
<1> QED
  BY InitInv, <1>1, <1>2, PTL DEF Spec

-----------------------------------------------------------------------------
(* Which words main compares, and when their NULs have a row and a column.   *)

\* How many words of the file yylex has matched.
Matched == Len(request.words) - Len(unread)

HasTwoWords(r) == r.argc \in {2, 3} /\ Len(r.words) >= 2

\* X is the first word of the file and Y the last one matched so far.
WordsSelected ==
    /\ pc = "start" => X = NoWord /\ Y = NoWord
    /\ pc = "lex" =>
           /\ request.argc = 2 /\ Matched \in Nat
           /\ \A n \in 1 .. Len(unread) : unread[n] = request.words[Matched + n]
           /\ X = IF Matched = 0 THEN NoWord ELSE request.words[1]
           /\ Y = IF Matched < 2 THEN NoWord ELSE request.words[Matched]
    /\ pc = "measure" =>
           \/ ~HasTwoWords(request) /\ (X = NoWord \/ Y = NoWord)
           \/ HasTwoWords(request) /\ X = FirstWord(request) /\ Y = SecondWord(request)
    /\ pc \in {"column", "row", "cell", "done"} =>
           HasTwoWords(request) /\ X = FirstWord(request) /\ Y = SecondWord(request)
    /\ pc = "undefined" => ~Fits(request)

LEMMA RequestWords ==
    ASSUME TypeOK
    PROVE  /\ request.words \in Seq(Seq(Letter)) /\ Len(request.words) \in Nat
           /\ \A n \in 1 .. Len(request.words) :
                  request.words[n] \in Seq(Letter) /\ request.words[n] # NoWord
           /\ request.argc = 3 => Len(request.words) >= 2
<1>1. /\ request.words \in Seq(Seq(Letter))
      /\ request.argc = 3 => Len(request.words) >= 2
  BY RequestAssumption DEF TypeOK
<1> QED
  BY <1>1, NoWordAssumption

LEMMA NextSelects == Inv /\ WordsSelected /\ [Next]_vars => WordsSelected'
<1> SUFFICES ASSUME Inv, WordsSelected, [Next]_vars PROVE WordsSelected'
  OBVIOUS
<1> DEFINE words == request.words
<1>1. /\ words \in Seq(Seq(Letter)) /\ Len(words) \in Nat
      /\ \A n \in 1 .. Len(words) : words[n] \in Seq(Letter) /\ words[n] # NoWord
      /\ request.argc = 3 => Len(words) >= 2
      /\ unread \in Seq(Seq(Letter)) /\ Len(unread) \in Nat
  BY RequestWords DEF Inv, TypeOK
<1>2. CASE Start
  BY <1>1, <1>2 DEF Start, WordsSelected, Matched, HasTwoWords, FirstWord, SecondWord
<1>3. CASE LexWord
  <2> DEFINE k == Matched
             w == Head(unread)
  <2>1. /\ pc = "lex" /\ pc' = "lex" /\ request' = request /\ unread # <<>>
        /\ request.argc = 2 /\ k \in Nat
        /\ \A n \in 1 .. Len(unread) : unread[n] = words[k + n]
        /\ X = IF k = 0 THEN NoWord ELSE words[1]
        /\ Y = IF k < 2 THEN NoWord ELSE words[k]
        /\ unread' = Tail(unread)
    BY <1>3 DEF LexWord, WordsSelected
  <2>2. /\ Len(unread) \in Nat \ {0} /\ Len(unread') = Len(unread) - 1
        /\ w = unread[1] /\ \A n \in 1 .. Len(unread') : unread'[n] = unread[n + 1]
    BY <1>1, <2>1
  <2>3. Matched' = k + 1 /\ k + 1 <= Len(words) /\ w = words[k + 1] /\ k + 1 \in 1 .. Len(words)
    <3>1. k = Len(words) - Len(unread) /\ Matched' = Len(words) - Len(unread')
      BY <2>1 DEF Matched
    <3>2. 1 \in 1 .. Len(unread)
      BY <2>2
    <3>3. w = words[k + 1]
      BY <2>1, <2>2, <3>2
    <3>4. Len(words) \in Nat /\ Len(unread) \in Nat \ {0} /\ Len(unread') = Len(unread) - 1
      BY <1>1, <2>2
    <3> HIDE DEF k, w, words
    <3>5. Len(words) - (Len(unread) - 1) = (Len(words) - Len(unread)) + 1
      BY <3>4
    <3>6. Matched' = k + 1 /\ k + 1 <= Len(words)
      BY <3>1, <3>4, <3>5
    <3> QED
      BY <2>1, <3>3, <3>4, <3>6
  <2>4. \A n \in 1 .. Len(unread') : unread'[n] = words[(k + 1) + n]
    <3> TAKE n \in 1 .. Len(unread')
    <3>1. n + 1 \in 1 .. Len(unread) /\ k + (n + 1) = (k + 1) + n
      BY <2>1, <2>2
    <3> QED
      BY <2>1, <2>2, <3>1
  <2> HIDE DEF k, w, words
  <2>5. CASE k = 0
    <3>1. X' = w /\ Y' = NoWord
      BY <1>3, <2>1, <2>5 DEF LexWord, w
    <3> QED
      BY <2>1, <2>3, <2>4, <2>5, <3>1 DEF WordsSelected, words
  <2>6. CASE k > 0
    <3>1. X = words[1] /\ X # NoWord
      BY <1>1, <2>1, <2>3, <2>6
    <3>2. X' = X /\ Y' = w
      BY <1>3, <3>1 DEF LexWord, NextY, w
    <3> QED
      BY <2>1, <2>3, <2>4, <2>6, <3>1, <3>2 DEF WordsSelected, words
  <2> QED
    BY <2>1, <2>5, <2>6
<1>4. CASE LexEnd
  <2>1. pc = "lex" /\ pc' = "measure" /\ UNCHANGED <<request, X, Y>> /\ Len(unread) = 0
    BY <1>1, <1>4 DEF LexEnd
  <2> QED
    BY <1>1, <2>1 DEF WordsSelected, Matched, HasTwoWords, FirstWord, SecondWord
<1>5. CASE Measure
  <2>1. /\ pc = "measure" /\ UNCHANGED <<request, X, Y>>
        /\ pc' = IF X = NoWord \/ Y = NoWord THEN "undefined" ELSE "column"
    BY <1>5 DEF Measure
  <2>2. HasTwoWords(request) => FirstWord(request) # NoWord /\ SecondWord(request) # NoWord
    BY <1>1 DEF HasTwoWords, FirstWord, SecondWord
  <2> QED
    BY <2>1, <2>2 DEF WordsSelected, HasTwoWords, Fits
<1>6. CASE FillColumn
  <2>1. pc = "column" /\ i <= N /\ UNCHANGED <<request, X, Y>> /\ pc' \in {"column", "undefined"}
    BY <1>6 DEF FillColumn
  <2>2. X = FirstWord(request) /\ X \in Seq(Letter) /\ i \in Nat
    BY <2>1 DEF Inv, TypeOK, LoopBounds, WordsSelected
  <2>3. pc' = "undefined" => Len(FirstWord(request)) + 1 \notin Index
    BY <1>6, <2>1, <2>2, DimAssumption DEF FillColumn, N, Index
  <2> QED
    BY <2>1, <2>3 DEF WordsSelected, Fits
<1>7. CASE FillRow
  <2>1. pc = "row" /\ j <= M /\ UNCHANGED <<request, X, Y>> /\ pc' \in {"row", "undefined"}
    BY <1>7 DEF FillRow
  <2>2. Y = SecondWord(request) /\ Y \in Seq(Letter) /\ j \in Nat
    BY <2>1 DEF Inv, TypeOK, LoopBounds, WordsSelected
  <2>3. pc' = "undefined" => Len(SecondWord(request)) + 1 \notin Index
    BY <1>7, <2>1, <2>2, DimAssumption DEF FillRow, M, Index
  <2> QED
    BY <2>1, <2>3 DEF WordsSelected, Fits
<1>8. CASE FillCell
  <2>1. /\ pc = "cell" /\ UNCHANGED <<request, X, Y>>
        /\ i \in Index /\ j \in Index
    BY <1>8, DimAssumption DEF FillCell, Inv, LoopBounds, Index, N, M
  <2>2. pc' = pc
    BY <1>8, <2>1 DEF FillCell
  <2> QED
    BY <2>1, <2>2 DEF WordsSelected
<1>9. CASE ColumnEnd \/ RowEnd \/ NextRow \/ Report
  BY <1>9 DEF ColumnEnd, RowEnd, NextRow, Report, WordsSelected
<1>10. CASE UNCHANGED vars
  BY <1>10 DEF vars, WordsSelected, Matched
<1> QED
  BY <1>2, <1>3, <1>4, <1>5, <1>6, <1>7, <1>8, <1>9, <1>10 DEF Next

\* For tables of every extent and words of every length: main fills the tables
\* exactly for two words that fit, and is undefined otherwise.
THEOREM DefinedWhenItFits == Spec => []DefinedExactlyWhenItFits
<1>1. Init => WordsSelected
  BY DEF Init, WordsSelected
<1>2. Inv /\ [Next]_vars => Inv'
  BY NextTypes, NextTable DEF Inv
<1>3. Inv /\ WordsSelected => DefinedExactlyWhenItFits
  BY DEF Inv, LoopBounds, WordsSelected, HasTwoWords, Fits, N, M, DefinedExactlyWhenItFits
<1> QED
  BY InitInv, <1>1, <1>2, <1>3, NextSelects, PTL DEF Spec

-----------------------------------------------------------------------------
(* The back-pointers.                                                        *)

\* ptr holds nothing yet for a cell that is not filled: FillCell adds to it.
PointersFresh ==
    pc # "done" => \A c \in Index \X Index : c \notin Filled => ptr[c] = {}

PointersInv == PointersFresh /\ PointersExplainDistance

\* The least entry of arr is one of its entries.
LEMMA LeastIsAnEntry ==
    ASSUME NEW arr \in [Op -> Nat]
    PROVE  \E op \in Op : arr[op] = Least(arr)
BY DEF Least, Op

\* Steps that fill no inner cell and leave the table alone.
LEMMA SamePointers ==
    ASSUME PointersInv, UNCHANGED <<dist, ptr, X, Y>>,
           \A c \in Filled' : c \in Filled,
           pc' # "done" => pc # "done" /\ Filled' = Filled
    PROVE  PointersInv'
BY DEF PointersInv, PointersFresh, PointersExplainDistance, Arr, SubstCost, CharAt

\* The new cell points where its distance comes from, and the others keep theirs.
LEMMA CellKeepsPointers == Inv /\ PointersInv /\ FillCell => PointersInv'
<1> SUFFICES ASSUME Inv, PointersInv, FillCell PROVE PointersInv'
  OBVIOUS
<1> USE DimAssumption
<1> DEFINE new == <<i, j>>
<1>1. /\ pc = "cell" /\ N \in Index /\ M \in Index /\ N' = N /\ M' = M
      /\ i \in 1 .. N /\ j \in 1 .. M
      /\ dist \in [Index \X Index -> Nat] /\ ptr \in [Index \X Index -> SUBSET Op]
  BY DEF FillCell, Inv, TypeOK, LoopBounds, N, M
<1>2. i \in Index /\ j \in Index /\ i > 0 /\ j > 0
  BY <1>1 DEF Index
<1>3. /\ pc' = "cell" /\ j' = j + 1 /\ i' = i /\ UNCHANGED <<X, Y>>
      /\ dist' = [dist EXCEPT ![new] = Least(Arr(i, j))]
      /\ ptr' = [ptr EXCEPT ![new] = @ \cup Optimal(Arr(i, j))]
  BY <1>2 DEF FillCell
<1>4. /\ \A c \in Index \X Index : c # new => dist'[c] = dist[c] /\ ptr'[c] = ptr[c]
      /\ dist'[new] = Least(Arr(i, j)) /\ ptr'[new] = ptr[new] \cup Optimal(Arr(i, j))
  BY <1>1, <1>2, <1>3
<1>5. /\ \A c \in Index \X Index : c \in Filled' <=> c \in Filled \/ c = new
      /\ new \notin Filled
  BY <1>1, <1>2, <1>3 DEF Filled, HasValue, Index
<1>6. ptr[new] = {}
  BY <1>1, <1>2, <1>5 DEF PointersInv, PointersFresh
<1>7. ASSUME NEW c \in Filled', c[1] > 0, c[2] > 0
      PROVE  Arr(c[1], c[2])' = Arr(c[1], c[2])
  <2>1. /\ c \in Index \X Index /\ c[1] <= N /\ c[2] <= M
        /\ c[1] < i \/ (c[1] = i /\ c[2] <= j)
    BY <1>1, <1>3, <1>7 DEF Filled, HasValue, Index
  <2>2. /\ <<c[1] - 1, c[2]>> \in Index \X Index /\ <<c[1] - 1, c[2]>> # new
        /\ <<c[1], c[2] - 1>> \in Index \X Index /\ <<c[1], c[2] - 1>> # new
        /\ <<c[1] - 1, c[2] - 1>> \in Index \X Index /\ <<c[1] - 1, c[2] - 1>> # new
    BY <1>1, <1>7, <2>1 DEF Index
  <2> QED
    BY <1>3, <1>4, <2>2 DEF Arr, SubstCost, CharAt
<1>8. PointersFresh'
  BY <1>3, <1>4, <1>5, <1>1 DEF PointersInv, PointersFresh
<1>9. ASSUME NEW c \in Filled', c[1] > 0, c[2] > 0
      PROVE  ptr'[c] # {} /\ ptr'[c] = {op \in Op : Arr(c[1], c[2])'[op] = dist'[c]}
  <2>1. CASE c = new
    <3>1. c[1] = i /\ c[2] = j
      BY <2>1
    <3>2. ptr'[c] = Optimal(Arr(i, j)) /\ dist'[c] = Least(Arr(i, j))
      BY <1>4, <1>6, <2>1
    <3>3. Arr(i, j) \in [Op -> Nat]
      BY <1>1, <1>2, ArrIsNat
    <3>4. Optimal(Arr(i, j)) # {}
      BY <3>3, LeastIsAnEntry DEF Optimal
    <3>5. Optimal(Arr(i, j)) = {op \in Op : Arr(i, j)[op] = Least(Arr(i, j))}
      BY DEF Optimal
    <3> QED
      BY <3>1, <3>2, <3>4, <3>5, <1>7, <1>9
  <2>2. CASE c # new
    <3>1. c \in Filled /\ c \in Index \X Index
      BY <1>5, <2>2 DEF Filled
    <3>2. ptr'[c] = ptr[c] /\ dist'[c] = dist[c]
      BY <1>4, <2>2, <3>1
    <3> QED
      BY <3>1, <3>2, <1>7, <1>9 DEF PointersInv, PointersExplainDistance
  <2> QED
    BY <2>1, <2>2
<1>10. PointersExplainDistance'
  BY <1>9 DEF PointersExplainDistance
<1> QED
  BY <1>8, <1>10 DEF PointersInv

\* Until the first inner cell is filled there are no pointers at all.
NoPointers ==
    pc \in {"start", "lex", "measure", "column", "row"} =>
        \A c \in Index \X Index : ptr[c] = {}

LEMMA NextPointers == Inv /\ NoPointers /\ PointersInv /\ [Next]_vars => NoPointers' /\ PointersInv'
<1> SUFFICES ASSUME Inv, NoPointers, PointersInv, [Next]_vars
             PROVE  NoPointers' /\ PointersInv'
  OBVIOUS
<1> USE DimAssumption
<1>1. CASE Start \/ LexWord \/ LexEnd \/ Measure \/ FillColumn \/ ColumnEnd \/ FillRow
  <2>1. /\ \A c \in Index \X Index : ptr'[c] = {}
        /\ pc' \in {"lex", "measure", "column", "row", "undefined"}
    BY <1>1 DEF Start, LexWord, LexEnd, Measure, FillColumn, ColumnEnd, FillRow,
                tables, NoPointers
  <2>2. \A c \in Filled' : ~(c[1] > 0 /\ c[2] > 0)
    BY <2>1 DEF Filled, HasValue, Index
  <2> QED
    BY <2>1, <2>2 DEF NoPointers, PointersInv, PointersFresh, PointersExplainDistance
<1>2. CASE RowEnd
  <2>1. /\ \A c \in Index \X Index : ptr'[c] = {}
        /\ pc' = "cell" /\ i' = 1 /\ j' = 1
    BY <1>2 DEF RowEnd, tables, NoPointers
  <2>2. \A c \in Filled' : ~(c[1] > 0 /\ c[2] > 0)
    BY <2>1 DEF Filled, HasValue, Index
  <2> QED
    BY <2>1, <2>2 DEF NoPointers, PointersInv, PointersFresh, PointersExplainDistance
<1>3. CASE FillCell
  <2>1. pc' = "cell"
    BY <1>3 DEF FillCell, Inv, LoopBounds, Index, N, M
  <2> QED
    BY <1>3, <2>1, CellKeepsPointers DEF NoPointers
<1>4. CASE NextRow \/ Report
  <2>1. /\ N' = N /\ M' = M /\ N \in Index /\ M \in Index
        /\ i \in 1 .. (N + 1) /\ j \in 1 .. (M + 1) /\ pc = "cell"
        /\ UNCHANGED <<dist, ptr, X, Y>> /\ pc' \in {"cell", "done"}
    BY <1>4 DEF NextRow, Report, Inv, LoopBounds, N, M, tables
  <2>2. Filled' = Filled
    BY <1>4, <2>1 DEF NextRow, Report, Filled, HasValue, Index
  <2> QED
    BY <2>1, <2>2, SamePointers DEF NoPointers
<1>5. CASE UNCHANGED vars
  <2>1. Filled' = Filled /\ UNCHANGED <<pc, dist, ptr, X, Y>>
    BY <1>5 DEF vars, Filled, HasValue, N, M
  <2> QED
    BY <2>1, SamePointers DEF NoPointers
<1> QED
  BY <1>1, <1>2, <1>3, <1>4, <1>5 DEF Next

\* For words of every length: the back-pointers of a filled inner cell are exactly
\* the operations that lead to its distance, and there is one (distance(), lines
\* 28-36).
THEOREM PointersExplain == Spec => []PointersExplainDistance
<1>1. Init => NoPointers /\ PointersInv
  BY DEF Init, NoPointers, PointersInv, PointersFresh, PointersExplainDistance,
         Filled, HasValue
<1>2. Inv /\ [Next]_vars => Inv'
  BY NextTypes, NextTable DEF Inv
<1>3. PointersInv => PointersExplainDistance
  BY DEF PointersInv
<1> QED
  BY InitInv, <1>1, <1>2, <1>3, NextPointers, PTL DEF Spec

-----------------------------------------------------------------------------
(* The table holds the costs of cheapest alignments.                         *)

LEMMA AlignmentsAreFinite ==
    ASSUME NEW a \in Nat, NEW b \in Nat, NEW A \in Alignments(a, b), NEW x, NEW y
    PROVE  /\ IsFiniteSet(A) /\ Cardinality(A) \in Nat
           /\ IsFiniteSet(Replaced(x, y, A)) /\ Cardinality(Replaced(x, y, A)) \in Nat
           /\ Cost(x, y, a, b, A) \in Int
<1>1. IsFiniteSet(1 .. a) /\ IsFiniteSet(1 .. b)
  BY FS_Interval
<1>2. IsFiniteSet((1 .. a) \X (1 .. b))
  BY <1>1, FS_Product
<1>3. A \in SUBSET ((1 .. a) \X (1 .. b)) /\ Replaced(x, y, A) \in SUBSET A
  BY DEF Alignments, Replaced
<1>4. IsFiniteSet(A) /\ IsFiniteSet(Replaced(x, y, A))
  BY <1>2, <1>3, FS_Subset
<1>5. Cardinality(A) \in Nat /\ Cardinality(Replaced(x, y, A)) \in Nat
  BY <1>4, FS_CardinalityType
<1> QED
  BY <1>4, <1>5 DEF Cost

\* Nothing can stand above nothing.
LEMMA BorderAlignment ==
    ASSUME NEW x, NEW y, NEW a \in Nat, NEW b \in Nat, a = 0 \/ b = 0
    PROVE  IsDistance(x, y, a, b, a + b)
<1>1. \A A \in Alignments(a, b) : A = {}
  BY DEF Alignments
<1>2. {} \in Alignments(a, b)
  BY DEF Alignments
<1>3. Replaced(x, y, {}) = {} /\ Cardinality({}) = 0
  BY FS_EmptySet DEF Replaced
<1>4. Cost(x, y, a, b, {}) = a + b
  <2>1. Cardinality(Replaced(x, y, {})) = 0
    BY <1>3
  <2>2. Cost(x, y, a, b, {}) = (a - 0) + (b - 0) + 2 * 0
    BY <1>3, <2>1, Zenon DEF Cost
  <2> QED
    BY <2>2
<1> QED
  BY <1>1, <1>2, <1>4 DEF IsDistance

\* One more character at the end of a word is deleted, or inserted.
LEMMA LongerWord ==
    ASSUME NEW x, NEW y, NEW a \in Nat, NEW b \in Nat, NEW A \in Alignments(a, b)
    PROVE  /\ A \in Alignments(a + 1, b) /\ Cost(x, y, a + 1, b, A) = Cost(x, y, a, b, A) + 1
           /\ A \in Alignments(a, b + 1) /\ Cost(x, y, a, b + 1, A) = Cost(x, y, a, b, A) + 1
<1>1. Cardinality(A) \in Nat /\ Cardinality(Replaced(x, y, A)) \in Nat
  BY AlignmentsAreFinite
<1>2. A \in Alignments(a + 1, b) /\ A \in Alignments(a, b + 1)
  BY DEF Alignments
<1> QED
  BY <1>1, <1>2 DEF Cost

SubstitutionCost(x, y, a, b) == IF x[a] # y[b] THEN 2 ELSE 0

\* The last characters of both words stand above each other.
LEMMA LongerWords ==
    ASSUME NEW x, NEW y, NEW a \in Nat, NEW b \in Nat, NEW A \in Alignments(a, b)
    PROVE  LET B == A \cup {<<a + 1, b + 1>>}
           IN  /\ B \in Alignments(a + 1, b + 1)
               /\ Cost(x, y, a + 1, b + 1, B) =
                      Cost(x, y, a, b, A) + SubstitutionCost(x, y, a + 1, b + 1)
<1> DEFINE e == <<a + 1, b + 1>>
           B == A \cup {e}
           R == Replaced(x, y, A)
           S == Replaced(x, y, B)
<1>1. A \in SUBSET ((1 .. a) \X (1 .. b)) /\ e[1] = a + 1 /\ e[2] = b + 1
  BY DEF Alignments
<1>2. \A p \in A : p[1] < e[1] /\ p[2] < e[2] /\ p # e
  BY <1>1
<1>3. B \in Alignments(a + 1, b + 1)
  <2>1. B \in SUBSET ((1 .. (a + 1)) \X (1 .. (b + 1)))
    BY <1>1
  <2>2. ASSUME NEW p \in B, NEW q \in B
        PROVE  \/ p = q
               \/ p[1] < q[1] /\ p[2] < q[2]
               \/ q[1] < p[1] /\ q[2] < p[2]
    <3>1. CASE p \in A /\ q \in A
      BY <3>1 DEF Alignments
    <3>2. CASE p = e \/ q = e
      <4> HIDE DEF e
      <4> QED
        BY <1>2, <3>2
    <3> QED
      BY <3>1, <3>2
  <2> QED
    BY <2>1, <2>2 DEF Alignments
<1>4. IsFiniteSet(A) /\ Cardinality(A) \in Nat /\ IsFiniteSet(R) /\ Cardinality(R) \in Nat
  BY AlignmentsAreFinite
<1>5. e \notin A /\ e \notin R
  BY <1>2 DEF Replaced
<1>6. S = IF x[a + 1] # y[b + 1] THEN R \cup {e} ELSE R
  BY <1>1 DEF Replaced
<1> HIDE DEF B, R, S, e
<1>7. Cardinality(B) = Cardinality(A) + 1
  BY <1>4, <1>5, FS_AddElement DEF B
<1>8. Cardinality(S) = IF x[a + 1] # y[b + 1] THEN Cardinality(R) + 1 ELSE Cardinality(R)
  BY <1>4, <1>5, <1>6, FS_AddElement
<1>9. Cost(x, y, a + 1, b + 1, B) = Cost(x, y, a, b, A) + SubstitutionCost(x, y, a + 1, b + 1)
  BY <1>4, <1>7, <1>8 DEF Cost, R, S, SubstitutionCost
<1> QED
  BY <1>3, <1>9 DEF B, e

\* An alignment leaves the last character of a word out, or has the last ones of
\* both above each other.
LEMMA LastCharacters ==
    ASSUME NEW a \in Nat, NEW b \in Nat, NEW A \in Alignments(a + 1, b + 1)
    PROVE  \/ A \in Alignments(a, b + 1)
           \/ A \in Alignments(a + 1, b)
           \/ \E C \in Alignments(a, b) : A = C \cup {<<a + 1, b + 1>>}
<1> DEFINE e == <<a + 1, b + 1>>
           C == A \ {e}
<1>1. /\ A \in SUBSET ((1 .. (a + 1)) \X (1 .. (b + 1)))
      /\ \A p, q \in A : \/ p = q
                         \/ p[1] < q[1] /\ p[2] < q[2]
                         \/ q[1] < p[1] /\ q[2] < p[2]
  BY DEF Alignments
<1>2. \A p \in A : /\ p = <<p[1], p[2]>> /\ p[1] \in 1 .. (a + 1) /\ p[2] \in 1 .. (b + 1)
  BY <1>1
<1>3. CASE \A p \in A : p[1] # a + 1
  <2>1. A \in SUBSET ((1 .. a) \X (1 .. (b + 1)))
    <3>1. \A p \in A : p[1] \in 1 .. a
      BY <1>2, <1>3
    <3> QED
      BY <1>2, <3>1
  <2> QED
    BY <1>1, <2>1 DEF Alignments
<1>4. CASE \A p \in A : p[2] # b + 1
  <2>1. A \in SUBSET ((1 .. (a + 1)) \X (1 .. b))
    <3>1. \A p \in A : p[2] \in 1 .. b
      BY <1>2, <1>4
    <3> QED
      BY <1>2, <3>1
  <2> QED
    BY <1>1, <2>1 DEF Alignments
<1>5. ASSUME NEW p \in A, p[1] = a + 1, NEW q \in A, q[2] = b + 1
      PROVE  \E D \in Alignments(a, b) : A = D \cup {e}
  <2>1. p = q
    <3>1. p[2] \in 1 .. (b + 1) /\ q[1] \in 1 .. (a + 1)
      BY <1>2
    <3>2. ~(p[1] < q[1]) /\ ~(q[2] < p[2])
      BY <1>5, <3>1
    <3> QED
      BY <1>1, <3>2
  <2>2. e \in A
    BY <1>2, <1>5, <2>1
  <2>3. \A r \in C : r \in A /\ r[1] < a + 1 /\ r[2] < b + 1
    <3> TAKE r \in C
    <3>1. r \in A /\ r # e /\ e[1] = a + 1 /\ e[2] = b + 1
      OBVIOUS
    <3>2. r[1] \in 1 .. (a + 1) /\ r[2] \in 1 .. (b + 1)
      BY <1>2, <3>1
    <3> HIDE DEF e, C
    <3>3. (r[1] < e[1] /\ r[2] < e[2]) \/ (e[1] < r[1] /\ e[2] < r[2])
      BY <1>1, <2>2, <3>1
    <3> QED
      BY <3>1, <3>2, <3>3
  <2>4. \A r \in C : r = <<r[1], r[2]>> /\ r[1] \in 1 .. a /\ r[2] \in 1 .. b
    BY <1>2, <2>3
  <2>5. C \in Alignments(a, b)
    BY <1>1, <2>3, <2>4 DEF Alignments
  <2>6. A = C \cup {e}
    BY <2>2
  <2> QED
    BY <2>5, <2>6
<1> QED
  BY <1>3, <1>4, <1>5

\* What distance() computes for a cell is the cheapest alignment, when its three
\* neighbours hold theirs.
LEMMA CheapestAlignment ==
    ASSUME NEW x, NEW y, NEW a \in Nat, NEW b \in Nat,
           NEW up \in Nat, NEW left \in Nat, NEW diag \in Nat,
           IsDistance(x, y, a, b + 1, up), IsDistance(x, y, a + 1, b, left),
           IsDistance(x, y, a, b, diag),
           NEW l,
           l = Least([deletion |-> up + 1, insertion |-> left + 1,
                      substitution |-> diag + SubstitutionCost(x, y, a + 1, b + 1)])
    PROVE  IsDistance(x, y, a + 1, b + 1, l)
<1> DEFINE s == SubstitutionCost(x, y, a + 1, b + 1)
           K(A) == Cost(x, y, a + 1, b + 1, A)
           All == Alignments(a + 1, b + 1)
<1>1. s \in Nat
  BY DEF SubstitutionCost
<1>2. a + 1 \in Nat /\ b + 1 \in Nat
  OBVIOUS
<1>3. PICK U \in Alignments(a, b + 1) : Cost(x, y, a, b + 1, U) = up
  BY DEF IsDistance
<1>4. PICK L \in Alignments(a + 1, b) : Cost(x, y, a + 1, b, L) = left
  BY DEF IsDistance
<1>5. PICK D \in Alignments(a, b) : Cost(x, y, a, b, D) = diag
  BY DEF IsDistance
<1>6. \E A \in All : K(A) = up + 1
  BY <1>2, <1>3, LongerWord
<1>7. \E A \in All : K(A) = left + 1
  BY <1>2, <1>4, LongerWord
<1>8. \E A \in All : K(A) = diag + s
  <2> DEFINE B == D \cup {<<a + 1, b + 1>>}
  <2>1. B \in Alignments(a + 1, b + 1) /\ Cost(x, y, a + 1, b + 1, B) = diag + s
    BY <1>5, LongerWords
  <2> QED
    BY <2>1
<1>9. l \in {up + 1, left + 1, diag + s} /\ l <= up + 1 /\ l <= left + 1 /\ l <= diag + s
  <2> HIDE DEF s
  <2>1. l = Least([deletion |-> up + 1, insertion |-> left + 1, substitution |-> diag + s])
    BY DEF s
  <2> QED
    BY <1>1, <2>1 DEF Least
<1>10. \E A \in All : K(A) = l
  BY <1>6, <1>7, <1>8, <1>9
<1>11. ASSUME NEW A \in All PROVE K(A) >= l
  <2>0. K(A) \in Int
    BY <1>2, AlignmentsAreFinite
  <2>1. CASE A \in Alignments(a, b + 1)
    <3> DEFINE c == Cost(x, y, a, b + 1, A)
    <3>1. K(A) = c + 1 /\ c >= up /\ c \in Int
      BY <1>2, <2>1, LongerWord, AlignmentsAreFinite DEF IsDistance
    <3> HIDE DEF c, K, s
    <3> QED
      BY <1>1, <1>9, <3>1
  <2>2. CASE A \in Alignments(a + 1, b)
    <3> DEFINE c == Cost(x, y, a + 1, b, A)
    <3>1. K(A) = c + 1 /\ c >= left /\ c \in Int
      BY <1>2, <2>2, LongerWord, AlignmentsAreFinite DEF IsDistance
    <3> HIDE DEF c, K, s
    <3> QED
      BY <1>1, <1>9, <3>1
  <2>3. CASE \E C \in Alignments(a, b) : A = C \cup {<<a + 1, b + 1>>}
    <3>1. PICK C \in Alignments(a, b) : A = C \cup {<<a + 1, b + 1>>}
      BY <2>3
    <3> DEFINE c == Cost(x, y, a, b, C)
    <3>2. K(A) = c + s /\ c >= diag /\ c \in Int
      BY <3>1, LongerWords, AlignmentsAreFinite DEF IsDistance
    <3> HIDE DEF c, K, s
    <3> QED
      BY <1>1, <1>9, <3>2
  <2> QED
    BY <2>1, <2>2, <2>3, LastCharacters
<1> QED
  BY <1>10, <1>11 DEF IsDistance

\* Every filled cell of two prefixes holds their distance; those of the NULs
\* hold what no other cell needs.
CellsAreDistances ==
    \A c \in Filled :
        c[1] <= Len(X) /\ c[2] <= Len(Y) => IsDistance(X, Y, c[1], c[2], dist[c])

ReportsLastCell == pc = "done" => result = dist[<<N - 1, M - 1>>]

LEMMA SameDistances ==
    ASSUME CellsAreDistances, \A c \in Filled' : c \in Filled, UNCHANGED <<dist, X, Y>>
    PROVE  CellsAreDistances'
BY DEF CellsAreDistances

\* As long as only the border is filled.
LEMMA BorderDistances ==
    ASSUME Inv', \A c \in Filled' : c[1] = 0 \/ c[2] = 0
    PROVE  CellsAreDistances'
<1>1. ASSUME NEW c \in Filled' PROVE IsDistance(X', Y', c[1], c[2], dist'[c])
  <2>1. c[1] \in Nat /\ c[2] \in Nat
    BY DimAssumption DEF Filled, Index
  <2>2. dist'[c] = c[1] + c[2]
    BY <1>1, <2>1 DEF Inv, BorderFilled
  <2> QED
    BY <1>1, <2>1, <2>2, BorderAlignment
<1> QED
  BY <1>1 DEF CellsAreDistances

LEMMA CellDistances == Inv /\ CellsAreDistances /\ FillCell => CellsAreDistances'
<1> SUFFICES ASSUME Inv, CellsAreDistances, FillCell PROVE CellsAreDistances'
  OBVIOUS
<1> USE DimAssumption
<1>1. /\ pc = "cell" /\ N \in Index /\ M \in Index /\ N' = N /\ M' = M
      /\ i \in 1 .. N /\ j \in 1 .. M /\ UNCHANGED <<X, Y>>
      /\ X \in Seq(Letter) /\ Y \in Seq(Letter)
      /\ dist \in [Index \X Index -> Nat]
  BY DEF FillCell, Inv, TypeOK, LoopBounds, N, M
<1>2. i \in Index /\ j \in Index /\ i - 1 \in Index /\ j - 1 \in Index
  BY <1>1 DEF Index
<1>3. /\ pc' = "cell" /\ j' = j + 1 /\ i' = i
      /\ dist' = [dist EXCEPT ![<<i, j>>] = Least(Arr(i, j))]
  BY <1>2 DEF FillCell
<1> DEFINE up == dist[<<i - 1, j>>]
           left == dist[<<i, j - 1>>]
           diag == dist[<<i - 1, j - 1>>]
           new == <<i, j>>
<1>4. /\ <<i - 1, j>> \in Filled /\ <<i, j - 1>> \in Filled
      /\ <<i - 1, j - 1>> \in Filled
  BY <1>1, <1>2 DEF Filled, HasValue, Index
<1>5. up \in Nat /\ left \in Nat /\ diag \in Nat
  BY <1>1, <1>2
<1>6. /\ \A c \in Filled : c # new /\ dist'[c] = dist[c]
      /\ \A c \in Filled' : c \in Filled \/ c = new
      /\ dist'[new] = Least(Arr(i, j))
  BY <1>1, <1>2, <1>3 DEF Filled, HasValue, Index
<1>7. ASSUME i <= Len(X), j <= Len(Y)
      PROVE  IsDistance(X, Y, i, j, dist'[new])
  <2> DEFINE a == i - 1
             b == j - 1
  <2>1. a \in Nat /\ b \in Nat /\ a + 1 = i /\ b + 1 = j /\ i \in 1 .. Len(X) /\ j \in 1 .. Len(Y)
    BY <1>1, <1>7 DEF N, M
  <2>2. SubstCost(i, j) = SubstitutionCost(X, Y, i, j)
    BY <2>1 DEF SubstCost, SubstitutionCost, CharAt
  <2>3. dist'[new] = Least([deletion |-> up + 1, insertion |-> left + 1,
                            substitution |-> diag + SubstitutionCost(X, Y, i, j)])
    BY <1>6, <2>2 DEF Arr
  <2>4. IsDistance(X, Y, i - 1, j, up)
    <3>1. i - 1 <= Len(X)
      BY <2>1
    <3> QED
      BY <1>4, <1>7, <3>1 DEF CellsAreDistances
  <2>5. IsDistance(X, Y, i, j - 1, left)
    <3>1. j - 1 <= Len(Y)
      BY <2>1
    <3> QED
      BY <1>4, <1>7, <3>1 DEF CellsAreDistances
  <2>6. IsDistance(X, Y, i - 1, j - 1, diag)
    <3>1. i - 1 <= Len(X) /\ j - 1 <= Len(Y)
      BY <2>1
    <3> QED
      BY <1>4, <3>1 DEF CellsAreDistances
  <2> DEFINE l == dist'[new]
  <2> HIDE DEF up, left, diag, l, new
  <2>7. l = Least([deletion |-> up + 1, insertion |-> left + 1,
                   substitution |-> diag + SubstitutionCost(X, Y, a + 1, b + 1)])
    BY <2>1, <2>3 DEF l
  <2>8. /\ IsDistance(X, Y, a, b + 1, up) /\ IsDistance(X, Y, a + 1, b, left)
        /\ IsDistance(X, Y, a, b, diag)
    BY <2>1, <2>4, <2>5, <2>6
  <2>9. a \in Nat /\ b \in Nat
    BY <2>1
  <2> HIDE DEF a, b
  <2>10. IsDistance(X, Y, a + 1, b + 1, l)
    BY <1>5, <2>7, <2>8, <2>9, CheapestAlignment
  <2> QED
    BY <2>1, <2>10 DEF l
<1>8. ASSUME NEW c \in Filled', c[1] <= Len(X), c[2] <= Len(Y)
      PROVE  IsDistance(X, Y, c[1], c[2], dist'[c])
  <2>1. CASE c = new
    <3>1. c[1] = i /\ c[2] = j
      BY <2>1
    <3> QED
      BY <1>7, <1>8, <2>1, <3>1
  <2>2. CASE c \in Filled
    BY <1>6, <1>8, <2>2 DEF CellsAreDistances
  <2> QED
    BY <1>6, <2>1, <2>2
<1> QED
  BY <1>1, <1>8 DEF CellsAreDistances

LEMMA NextDistances ==
    Inv /\ CellsAreDistances /\ ReportsLastCell /\ [Next]_vars
        => CellsAreDistances' /\ ReportsLastCell'
<1> SUFFICES ASSUME Inv, CellsAreDistances, ReportsLastCell, [Next]_vars
             PROVE  CellsAreDistances' /\ ReportsLastCell'
  OBVIOUS
<1>0. Inv'
  BY NextTypes, NextTable DEF Inv
<1>1. CASE Start \/ LexWord \/ LexEnd \/ Measure \/ FillColumn \/ FillRow \/ ColumnEnd
  <2>1. pc' \in {"lex", "measure", "column", "row", "undefined"}
    BY <1>1 DEF Start, LexWord, LexEnd, Measure, FillColumn, ColumnEnd, FillRow
  <2>2. \A c \in Filled' : c[1] = 0 \/ c[2] = 0
    BY <2>1 DEF Filled, HasValue
  <2> QED
    BY <1>0, <2>1, <2>2, BorderDistances DEF ReportsLastCell
<1>2. CASE RowEnd
  <2>1. pc' = "cell" /\ i' = 1 /\ j' = 1
    BY <1>2 DEF RowEnd
  <2>2. \A c \in Filled' : c[1] = 0 \/ c[2] = 0
    BY <2>1, DimAssumption DEF Filled, HasValue, Index
  <2> QED
    BY <1>0, <2>1, <2>2, BorderDistances DEF ReportsLastCell
<1>3. CASE FillCell
  <2>1. pc' # "done"
    BY <1>3 DEF FillCell
  <2> QED
    BY <1>3, <2>1, CellDistances DEF ReportsLastCell
<1>4. CASE NextRow \/ Report
  <2>1. /\ N' = N /\ M' = M /\ N \in Index /\ M \in Index
        /\ i \in 1 .. (N + 1) /\ j \in 1 .. (M + 1)
        /\ UNCHANGED <<dist, X, Y>>
    BY <1>4 DEF NextRow, Report, Inv, LoopBounds, N, M, tables
  <2>2. \A c \in Filled' : c \in Filled
    BY <1>4, <2>1, DimAssumption DEF NextRow, Report, Filled, HasValue, Index
  <2>3. ReportsLastCell'
    BY <1>4, <2>1 DEF NextRow, Report, ReportsLastCell, FinalCell
  <2> QED
    BY <2>1, <2>2, <2>3, SameDistances
<1>5. CASE UNCHANGED vars
  BY <1>5, SameDistances DEF vars, Filled, HasValue, ReportsLastCell, N, M
<1> QED
  BY <1>1, <1>2, <1>3, <1>4, <1>5 DEF Next

\* For words of every length that fit, tables of every extent, files of any
\* number of words and any alphabet: the number printed last is the cost of the
\* cheapest alignment of the first word and the last one (line 105).
THEOREM ResultIsLeast == Spec => []ResultIsEditDistance
<1>1. Init => WordsSelected /\ CellsAreDistances /\ ReportsLastCell
  BY DEF Init, WordsSelected, CellsAreDistances, ReportsLastCell, Filled, HasValue
<1>2. Inv /\ [Next]_vars => Inv'
  BY NextTypes, NextTable DEF Inv
<1>3. Inv /\ WordsSelected /\ CellsAreDistances /\ ReportsLastCell => ResultIsEditDistance
  <2> SUFFICES ASSUME Inv, WordsSelected, CellsAreDistances, ReportsLastCell, pc = "done"
               PROVE  IsDistance(FirstWord(request), SecondWord(request),
                                 Len(FirstWord(request)), Len(SecondWord(request)), result)
    BY DEF ResultIsEditDistance
  <2>1. /\ X = FirstWord(request) /\ Y = SecondWord(request)
        /\ X \in Seq(Letter) /\ Y \in Seq(Letter) /\ N \in Index /\ M \in Index
        /\ result = dist[<<N - 1, M - 1>>]
    BY DEF Inv, LoopBounds, WordsSelected, ReportsLastCell
  <2>2. N - 1 = Len(X) /\ M - 1 = Len(Y) /\ <<Len(X), Len(Y)>> \in Filled
    BY <2>1, DimAssumption DEF N, M, Filled, HasValue, Index
  <2>3. IsDistance(X, Y, Len(X), Len(Y), dist[<<Len(X), Len(Y)>>])
    BY <2>1, <2>2 DEF CellsAreDistances
  <2> QED
    BY <2>1, <2>2, <2>3
<1> QED
  BY InitInv, <1>1, <1>2, <1>3, NextSelects, NextDistances, PTL DEF Spec

=============================================================================
