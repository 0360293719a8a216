----------------------------- MODULE EditDistance -----------------------------
(***************************************************************************)
(* edit_distance/edit_distance.l: two words, taken from the command line   *)
(* or lexed from a file, are compared by filling the global tables         *)
(* dist[10][10] and ptr[10][10][3] with the minimum edit distance of every *)
(* pair of prefixes (insertion and deletion cost 1, substitution 2).       *)
(*                                                                         *)
(* A word W stands for the sds string "#" W: the C index 0 is the '#', the *)
(* C index Len(W) + 1 is the terminating NUL, and sdslen is Len(W) + 1.    *)
(* The loops of main run to sdslen inclusive, so they also fill the row    *)
(* and the column of the NUL.                                              *)
(***************************************************************************)
EXTENDS Integers, Sequences, FiniteSets

CONSTANTS
    Dim,       \* the extent of both dimensions of dist and ptr; 10 in the code
    Letter,    \* the characters words are made of
    Request,   \* the command lines: [argc |-> Nat, words |-> Seq(Seq(Letter))]
    Hash, Nul, \* the leading '#' and the terminating NUL
    NoWord     \* the NULL pointer X and Y start as

ASSUME DimAssumption == Dim \in Nat \ {0}
ASSUME RequestAssumption ==
    \A r \in Request : /\ r.argc \in Nat
                       /\ r.words \in Seq(Seq(Letter))
                       /\ r.argc = 3 => Len(r.words) >= 2
ASSUME NoWordAssumption == NoWord \notin Seq(Letter)

VARIABLES
    request, \* the command line, argv and the contents of the file it names
    pc,      \* where main is
    unread,  \* words of the file yylex has not matched yet
    X, Y,    \* the globals of the same name
    i, j,    \* the loop counters
    dist,    \* int dist[10][10]
    ptr,     \* int ptr[10][10][3], as the set of its non-zero entries
    result   \* the number printed last, -1 before

vars == <<request, pc, unread, X, Y, i, j, dist, ptr, result>>

Index == 0 .. (Dim - 1)
Op == {"deletion", "insertion", "substitution"}

N == Len(X) + 1
M == Len(Y) + 1

CharAt(w, k) == IF k = 0 THEN Hash ELSE IF k <= Len(w) THEN w[k] ELSE Nul

-----------------------------------------------------------------------------
(* Static storage: everything is zero or NULL when main starts.            *)

Init == /\ request \in Request
        /\ pc = "start"
        /\ unread = <<>>
        /\ X = NoWord /\ Y = NoWord
        /\ i = 0 /\ j = 0
        /\ dist = [c \in Index \X Index |-> 0]
        /\ ptr = [c \in Index \X Index |-> {}]
        /\ result = -1

tables == <<dist, ptr, result>>

(* argc 1 only prints a message; main then goes on, as it does for any     *)
(* argc it has no case for.                                                *)
Start ==
    /\ pc = "start"
    /\ IF request.argc = 2
       THEN /\ pc' = "lex"
            /\ unread' = request.words
            /\ UNCHANGED <<X, Y>>
       ELSE /\ pc' = "measure"
            /\ unread' = <<>>
            /\ IF request.argc = 3
               THEN X' = request.words[1] /\ Y' = request.words[2]
               ELSE UNCHANGED <<X, Y>>
    /\ UNCHANGED <<request, i, j, tables>>

KeepFirstY(w) == IF Y = NoWord THEN w ELSE Y

\* What the rule does to Y when X is set already: every later word replaces it.
NextY(w) == w

LexWord ==
    /\ pc = "lex"
    /\ unread # <<>>
    /\ IF X = NoWord
       THEN X' = Head(unread) /\ UNCHANGED Y
       ELSE Y' = NextY(Head(unread)) /\ UNCHANGED X
    /\ unread' = Tail(unread)
    /\ UNCHANGED <<request, pc, i, j, tables>>

LexEnd ==
    /\ pc = "lex"
    /\ unread = <<>>
    /\ pc' = "measure"
    /\ UNCHANGED <<request, unread, X, Y, i, j, tables>>

(* sdslen(NULL) reads before address 0: the behaviour is undefined.        *)
Measure ==
    /\ pc = "measure"
    /\ i' = 0
    /\ pc' = IF X = NoWord \/ Y = NoWord THEN "undefined" ELSE "column"
    /\ UNCHANGED <<request, unread, X, Y, j, tables>>

(* for (i = 0; i <= N; i++) dist[i][0] = i;                                *)
FillColumn ==
    /\ pc = "column"
    /\ i <= N
    /\ IF i \in Index
       THEN /\ dist' = [dist EXCEPT ![<<i, 0>>] = i]
            /\ i' = i + 1
            /\ UNCHANGED pc
       ELSE pc' = "undefined" /\ UNCHANGED <<i, dist>>
    /\ UNCHANGED <<request, unread, X, Y, j, ptr, result>>

ColumnEnd ==
    /\ pc = "column"
    /\ i > N
    /\ pc' = "row"
    /\ j' = 0
    /\ UNCHANGED <<request, unread, X, Y, i, tables>>

FirstRow(b) == b

(* for (j = 0; j <= M; j++) dist[0][j] = j;                                *)
FillRow ==
    /\ pc = "row"
    /\ j <= M
    /\ IF j \in Index
       THEN /\ dist' = [dist EXCEPT ![<<0, j>>] = FirstRow(j)]
            /\ j' = j + 1
            /\ UNCHANGED pc
       ELSE pc' = "undefined" /\ UNCHANGED <<j, dist>>
    /\ UNCHANGED <<request, unread, X, Y, i, ptr, result>>

RowEnd ==
    /\ pc = "row"
    /\ j > M
    /\ pc' = "cell"
    /\ i' = 1
    /\ j' = 1
    /\ UNCHANGED <<request, unread, X, Y, tables>>

-----------------------------------------------------------------------------
(* distance(X, Y, i, j)                                                    *)

UniformSubstCost(a, b) == IF CharAt(X, a) # CharAt(Y, b) THEN 1 ELSE 0

SubstCost(a, b) == IF CharAt(X, a) # CharAt(Y, b) THEN 2 ELSE 0

\* arr: the cost of reaching <<a, b>> by each operation.
Arr(a, b) == [deletion     |-> dist[<<a - 1, b>>] + 1,
              insertion    |-> dist[<<a, b - 1>>] + 1,
              substitution |-> dist[<<a - 1, b - 1>>] + SubstCost(a, b)]

\* min starts at 10000 in the code, above every cost a table this size holds.
Least(arr) ==
    IF arr.deletion <= arr.insertion /\ arr.deletion <= arr.substitution
    THEN arr.deletion
    ELSE IF arr.insertion <= arr.substitution
         THEN arr.insertion
         ELSE arr.substitution

\* Were the ifs of distance() an else-if chain, a tie would name one operation.
FirstOptimal(arr) ==
    IF arr.insertion = Least(arr) THEN {"insertion"}
    ELSE IF arr.deletion = Least(arr) THEN {"deletion"} ELSE {"substitution"}

Optimal(arr) == {op \in Op : arr[op] = Least(arr)}

FillCell ==
    /\ pc = "cell"
    /\ i <= N
    /\ j <= M
    /\ IF i \in Index /\ j \in Index
       THEN LET arr == Arr(i, j) IN
            /\ dist' = [dist EXCEPT ![<<i, j>>] = Least(arr)]
            /\ ptr' = [ptr EXCEPT ![<<i, j>>] = @ \cup Optimal(arr)]
            /\ j' = j + 1
            /\ UNCHANGED pc
       ELSE pc' = "undefined" /\ UNCHANGED <<j, dist, ptr>>
    /\ UNCHANGED <<request, unread, X, Y, i, result>>

NextRow ==
    /\ pc = "cell"
    /\ i <= N
    /\ j > M
    /\ i' = i + 1
    /\ j' = 1
    /\ UNCHANGED <<request, pc, unread, X, Y, tables>>

FinalCell == dist[<<N - 1, M - 1>>]

(* The printing loops only read rows 0 .. N-1 and columns 0 .. M-1; what   *)
(* they print last is dist[N - 1][M - 1].                                  *)
Report ==
    /\ pc = "cell"
    /\ i > N
    /\ result' = FinalCell
    /\ pc' = "done"
    /\ UNCHANGED <<request, unread, X, Y, i, j, dist, ptr>>

Next == \/ Start \/ LexWord \/ LexEnd \/ Measure
        \/ FillColumn \/ ColumnEnd \/ FillRow \/ RowEnd
        \/ FillCell \/ NextRow \/ Report

Spec == Init /\ [][Next]_vars

-----------------------------------------------------------------------------
(* Properties                                                              *)

\* The two words a command line makes main compare, as the code selects them:
\* the first and the last of the file, or the two arguments.
FirstWord(r) == IF r.argc = 3 THEN r.words[1] ELSE Head(r.words)
SecondWord(r) == IF r.argc = 3 THEN r.words[2] ELSE r.words[Len(r.words)]

\* What main takes for granted: two words whose NUL still has a row and a column.
Fits(r) == /\ r.argc \in {2, 3}
           /\ Len(r.words) >= 2
           /\ Len(FirstWord(r)) + 1 \in Index
           /\ Len(SecondWord(r)) + 1 \in Index

\* The cells the loops have given their value.
HasValue(a, b) ==
    \/ pc = "column" /\ b = 0 /\ a < i
    \/ pc = "row"    /\ \/ b = 0 /\ a <= N
                        \/ a = 0 /\ b < j
    \/ pc = "cell"   /\ a <= N /\ b <= M
                     /\ \/ a = 0 \/ b = 0
                        \/ a < i
                        \/ a = i /\ b < j
    \/ pc = "done"   /\ a <= N /\ b <= M

Filled == {c \in Index \X Index : HasValue(c[1], c[2])}

\* Every variable has a value of its type.
TypeOK ==
    /\ request \in Request
    /\ pc \in {"start", "lex", "measure", "column", "row", "cell",
               "done", "undefined"}
    /\ unread \in Seq(Seq(Letter))
    /\ X \in Seq(Letter) \cup {NoWord}
    /\ Y \in Seq(Letter) \cup {NoWord}
    /\ i \in Nat
    /\ j \in Nat
    /\ dist \in [Index \X Index -> Nat]
    /\ ptr \in [Index \X Index -> SUBSET Op]
    /\ result \in Nat \cup {-1}

\* The row and column loops of main (lines 76-83) leave the tables exactly when
\* a word is missing or longer than Dim - 2: a request that fits is never
\* undefined, and main never reports for one that does not.
DefinedExactlyWhenItFits ==
    /\ pc = "undefined" => ~Fits(request)
    /\ pc = "done" => Fits(request)

\* Two cells next to each other in a filled row or column differ by exactly
\* one, and two on a diagonal by 0 or 2 (distance(), lines 15-27): what makes
\* the table an edit distance with costs 1, 1 and 2. A cell read before it was
\* filled, or a border not initialised, breaks it cells away.
AdjacentCellsDiffer ==
    \A c \in Filled :
        /\ c[1] > 0 /\ <<c[1] - 1, c[2]>> \in Filled =>
              dist[c] - dist[<<c[1] - 1, c[2]>>] \in {-1, 1}
        /\ c[2] > 0 /\ <<c[1], c[2] - 1>> \in Filled =>
              dist[c] - dist[<<c[1], c[2] - 1>>] \in {-1, 1}
        /\ c[1] > 0 /\ c[2] > 0 =>
              dist[c] - dist[<<c[1] - 1, c[2] - 1>>] \in {0, 2}

\* The back-pointers of a filled inner cell (lines 28-36) name exactly the
\* operations that lead to its distance from the cells beside it, as these are
\* now: no cheapest way is missed, ties included, none is named that costs more,
\* and one is always there, so that tracebacks from any cell end at the border
\* and between them visit every cheapest alignment.
PointersExplainDistance ==
    \A c \in Filled :
        c[1] > 0 /\ c[2] > 0 =>
            /\ ptr[c] # {}
            /\ ptr[c] = {op \in Op : Arr(c[1], c[2])[op] = dist[c]}

\* An alignment of the first a characters of a word with the first b of another:
\* which of them stand above each other, in the same order in both.
Alignments(a, b) ==
    {A \in SUBSET ((1 .. a) \X (1 .. b)) :
        \A p, q \in A : \/ p = q
                        \/ p[1] < q[1] /\ p[2] < q[2]
                        \/ q[1] < p[1] /\ q[2] < p[2]}

\* Its cost: what it leaves out is deleted or inserted for 1, and characters that
\* differ are substituted for 2.
Replaced(x, y, A) == {p \in A : x[p[1]] # y[p[2]]}
Cost(x, y, a, b, A) ==
    (a - Cardinality(A)) + (b - Cardinality(A)) + 2 * Cardinality(Replaced(x, y, A))

IsDistance(x, y, a, b, d) ==
    /\ \E A \in Alignments(a, b) : Cost(x, y, a, b, A) = d
    /\ \A A \in Alignments(a, b) : Cost(x, y, a, b, A) >= d

\* The number printed by line 105 is the cost of the cheapest alignment of the
\* first word and the last one, however many the file has (lines 42-50). The
\* reference knows nothing of tables, or of the order they are filled in.
ResultIsEditDistance ==
    pc = "done" =>
        LET x == FirstWord(request)
            y == SecondWord(request)
        IN  IsDistance(x, y, Len(x), Len(y), result)

=============================================================================
