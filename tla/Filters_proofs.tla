--------------------------- MODULE Filters_proofs ---------------------------
(* Proofs about the programs that read one text, for texts of any length:    *)
(* what network_addressing.l, latex_repl.l, strip_c_comments.l, get_max.l,   *)
(* average.l and rewrite_source_code/scanner.l print, and where the file is  *)
(* that the programs of PdfMoves move.                                       *)
EXTENDS TextFilters, AddressList, LatexRepl, SourceRewriter, PdfMoves,
        FiniteSetTheorems, SequenceTheorems, WellFoundedInduction, TLAPS

\* A set of naturals that is not empty has a least element.
LEMMA LeastNatural ==
    ASSUME NEW T \in SUBSET Nat, T # {}
    PROVE  \E x \in T : \A y \in T : x <= y
<1>1. PICK x \in T : \A y \in T : ~ (<<y, x>> \in OpToRel(<, Nat))
  BY NatLessThanWellFounded, WFMin, Zenon
<1>2. \A y \in T : ~ (y < x)
  BY <1>1 DEF OpToRel
<1> QED
  BY <1>2

\* Induction over the naturals up to n, for what holds on a set.
LEMMA CountUp ==
    ASSUME NEW n \in Nat, NEW T, 0 \in T, \A d \in 0 .. n - 1 : d \in T => d + 1 \in T
    PROVE  \A d \in 0 .. n : d \in T
<1> SUFFICES ASSUME NEW e \in 0 .. n, e \notin T PROVE FALSE
  OBVIOUS
<1> DEFINE Out == {d \in 0 .. n : d \notin T}
<1>1. Out \in SUBSET Nat /\ Out # {}
  OBVIOUS
<1> HIDE DEF Out
<1>2. PICK d \in Out : \A y \in Out : d <= y
  BY <1>1, LeastNatural
<1>3. d \in 0 .. n /\ d \notin T /\ d # 0
  BY <1>2 DEF Out
<1>4. d - 1 \in 0 .. n - 1 /\ d - 1 \notin Out /\ (d - 1) + 1 = d
  BY <1>2, <1>3
<1>5. d - 1 \in T
  BY <1>4 DEF Out
<1> QED
  BY <1>3, <1>4, <1>5

\* A function on 0..n that is given by its values further up: it exists, and its
\* values are sequences of what its parts are sequences of.
FromAbove(n, Base, base, prefix, next, f) ==
  f = [k \in 0..n |-> IF k \in Base THEN base[k] ELSE prefix[k] \o f[next[k]]]

LEMMA RecursionFromAbove ==
    ASSUME NEW n \in Nat, NEW Base, NEW base, NEW prefix, NEW next,
           \A k \in 0..n : k \notin Base => next[k] \in (k + 1)..n
    PROVE  \E f : FromAbove(n, Base, base, prefix, next, f)
<1> DEFINE IsFrom(j, f) == f = [k \in j .. n |->
                          IF k \in Base THEN base[k]
                          ELSE prefix[k] \o f[next[k]]]
           T == {d \in 0 .. n + 1 : \E f : IsFrom(n + 1 - d, f)}
<1>1. 0 \in T
  <2>1. IsFrom(n + 1, [k \in n + 1 .. n |-> {}])
    OBVIOUS
  <2>2. 0 \in 0 .. n + 1 /\ n + 1 - 0 = n + 1
    OBVIOUS
  <2> HIDE DEF IsFrom
  <2> QED
    BY <2>1, <2>2
<1>2. ASSUME NEW d \in 0 .. (n + 1) - 1, d \in T PROVE d + 1 \in T
  <2> DEFINE j == n - d
  <2>1. j \in 0 .. n /\ n + 1 - d = j + 1 /\ n + 1 - (d + 1) = j /\ d + 1 \in 0 .. n + 1
    OBVIOUS
  <2>2. PICK g : IsFrom(j + 1, g)
    BY <1>2, <2>1
  <2> HIDE DEF j
  <2> DEFINE h == [k \in j .. n |-> IF k = j
                      THEN IF j \in Base THEN base[j]
                           ELSE prefix[j] \o g[next[j]]
                      ELSE g[k]]
  <2>3. \A k \in j + 1 .. n : h[k] = g[k]
    BY <2>1
  <2>4. \A k \in j .. n : k \notin Base => h[next[k]] = g[next[k]]
    <3> SUFFICES ASSUME NEW k \in j .. n, k \notin Base PROVE h[next[k]] = g[next[k]]
      OBVIOUS
    <3>1. k \in 0 .. n /\ next[k] \in k + 1 .. n
      BY <2>1
    <3>2. next[k] \in j + 1 .. n
      BY <3>1, <2>1
    <3> QED
      BY <3>2, <2>3
  <2>5. \A k \in j .. n : h[k] = IF k \in Base THEN base[k]
                                 ELSE prefix[k] \o h[next[k]]
    <3> SUFFICES ASSUME NEW k \in j .. n
                 PROVE  h[k] = IF k \in Base THEN base[k] ELSE prefix[k] \o h[next[k]]
      OBVIOUS
    <3>1. CASE k = j
      <4>1. j \in j .. n
        BY <2>1
      <4>2. h[j] = IF j \in Base THEN base[j] ELSE prefix[j] \o g[next[j]]
        BY <4>1
      <4> HIDE DEF h
      <4> QED
        BY <3>1, <4>1, <4>2, <2>4
    <3>2. CASE k # j
      <4>1. k \in j + 1 .. n
        BY <3>2, <2>1
      <4>2. g[k] = IF k \in Base THEN base[k] ELSE prefix[k] \o g[next[k]]
        BY <2>2, <4>1
      <4> HIDE DEF h
      <4>3. h[k] = g[k]
        BY <2>3, <4>1
      <4> QED
        BY <4>2, <4>3, <2>4
    <3> QED
      BY <3>1, <3>2
  <2>6. IsFrom(j, h)
    <3> DEFINE w == [k \in j .. n |-> IF k \in Base THEN base[k]
                                      ELSE prefix[k] \o h[next[k]]]
    <3>1. \A k \in j .. n : h[k] = w[k]
      <4> HIDE DEF h
      <4> QED BY <2>5
    <3>2. DOMAIN h = j .. n /\ h = [k \in DOMAIN h |-> h[k]]
      OBVIOUS
    <3>3. DOMAIN w = j .. n /\ w = [k \in DOMAIN w |-> w[k]]
      <4> HIDE DEF h
      <4> QED OBVIOUS
    <3>4. h = w
      <4> HIDE DEF h, w
      <4> QED BY <3>1, <3>2, <3>3
    <3> HIDE DEF h
    <3> QED
      BY <3>4
  <2> HIDE DEF h, IsFrom
  <2> QED
    BY <2>1, <2>6
<1> HIDE DEF T
<1>3. n + 1 \in T
  BY <1>1, <1>2, CountUp
<1>4. \E f : IsFrom(0, f)
  <2>1. (n + 1) - (n + 1) = 0
    OBVIOUS
  <2> HIDE DEF IsFrom
  <2> QED
    BY <1>3, <2>1 DEF T
<1> QED
  BY <1>4 DEF FromAbove

LEMMA FromAboveIsTyped ==
    ASSUME NEW n \in Nat, NEW Base, NEW base, NEW prefix, NEW next, NEW f, NEW S,
           FromAbove(n, Base, base, prefix, next, f),
           \A k \in 0..n : k \notin Base => next[k] \in (k + 1)..n /\ prefix[k] \in Seq(S),
           \A k \in 0..n : k \in Base => base[k] \in Seq(S)
    PROVE  \A k \in 0..n : f[k] \in Seq(S)
<1> DEFINE T == {d \in 0..n : \A k \in (n - d)..n : f[k] \in Seq(S)}
<1>1. \A k \in 0..n : f[k] = IF k \in Base THEN base[k] ELSE prefix[k] \o f[next[k]]
  BY DEF FromAbove
<1>2. n \in Base
  OBVIOUS
<1>3. 0 \in T
  BY <1>1, <1>2
<1>4. ASSUME NEW d \in 0..(n - 1), d \in T PROVE d + 1 \in T
  <2>1. \A k \in (n - d)..n : f[k] \in Seq(S)
    BY <1>4
  <2>2. ASSUME NEW k \in (n - (d + 1))..n PROVE f[k] \in Seq(S)
    <3>1. CASE k \in (n - d)..n
      BY <2>1, <3>1
    <3>2. CASE k \notin (n - d)..n /\ k \in Base
      BY <1>1, <3>2
    <3>3. CASE k \notin (n - d)..n /\ k \notin Base
      <4>1. k \in 0..n /\ next[k] \in (n - d)..n /\ prefix[k] \in Seq(S)
        BY <3>3
      <4>2. f[next[k]] \in Seq(S) /\ f[k] = prefix[k] \o f[next[k]]
        BY <1>1, <2>1, <3>3, <4>1
      <4> QED
        BY <4>1, <4>2
    <3> QED
      BY <3>1, <3>2, <3>3
  <2> QED
    BY <2>2
<1> HIDE DEF T
<1>5. \A d \in 0 .. n : d \in T
  BY <1>3, <1>4, CountUp, Zenon
<1>7. n \in 0..n
  OBVIOUS
<1>8. n \in T
  BY <1>5, <1>7, Zenon
<1>6. \A k \in (n - n)..n : f[k] \in Seq(S)
  BY <1>8 DEF T
<1> QED
  BY <1>6

-----------------------------------------------------------------------------
(* AddressList: the items printed for an address.                            *)

NumbersIn(o, b, e) == {n \in b..e : o[n].kind = "number"}

\* The items from b on are an address so far, with c numbers.
OpenAt(o, b, e, c) ==
  /\ b \in 1..e
  /\ o[b].kind = "address"
  /\ \A i \in (b + 1)..e : o[i].kind \in {"number", "dot"}
  /\ \A i \in (b + 1)..e : o[i].kind = "number" => o[i].what \in 0..255
  /\ Cardinality(NumbersIn(o, b, e)) = c

Closed(o, k) == o[k].kind = "line" /\ \E b \in 1..(k - 1) : OpenAt(o, b, k - 1, 4)

AllClosed(o) == \A k \in 1..Len(o) : o[k].kind = "line" => Closed(o, k)

AddressInv ==
  program = "addresses" =>
    /\ \E S : out \in Seq(S)
    /\ AllClosed(out)
    /\ start = "inet" => counter \in 1..3 /\ \E b \in 1..Len(out) : OpenAt(out, b, Len(out), counter)

\* One more item.
LEMMA OneMore ==
  ASSUME NEW S, NEW o \in Seq(S), NEW x
  PROVE  /\ Append(o, x) \in Seq(S \cup {x})
         /\ o \o <<x>> = Append(o, x)
         /\ Len(Append(o, x)) = Len(o) + 1
         /\ \A i \in 1..Len(o) : Append(o, x)[i] = o[i]
         /\ Append(o, x)[Len(o) + 1] = x
OBVIOUS

\* What is said of the items up to e stays when items are added behind them.
LEMMA OpenStays ==
  ASSUME NEW o, NEW t, NEW b, NEW e \in Nat, NEW c, \A i \in 1..e : t[i] = o[i],
         OpenAt(o, b, e, c)
  PROVE  OpenAt(t, b, e, c)
<1>1. NumbersIn(t, b, e) = NumbersIn(o, b, e)
  BY DEF OpenAt, NumbersIn
<1> QED
  BY <1>1 DEF OpenAt

LEMMA NumbersGrow ==
  ASSUME NEW o, NEW b, NEW e \in Nat, b \in 1..e
  PROVE  /\ IsFiniteSet(NumbersIn(o, b, e))
         /\ Cardinality(NumbersIn(o, b, e)) \in Nat
         /\ o[e + 1].kind # "number" => NumbersIn(o, b, e + 1) = NumbersIn(o, b, e)
         /\ o[e + 1].kind = "number" =>
              Cardinality(NumbersIn(o, b, e + 1)) = Cardinality(NumbersIn(o, b, e)) + 1
<1>1. IsFiniteSet(b..e) /\ NumbersIn(o, b, e) \subseteq b..e
  BY FS_Interval DEF NumbersIn
<1>2. IsFiniteSet(NumbersIn(o, b, e)) /\ Cardinality(NumbersIn(o, b, e)) \in Nat
  BY <1>1, FS_Subset, FS_CardinalityType
<1>3. b..(e + 1) = (b..e) \cup {e + 1} /\ e + 1 \notin b..e
  OBVIOUS
<1>4. ASSUME o[e + 1].kind = "number"
      PROVE  Cardinality(NumbersIn(o, b, e + 1)) = Cardinality(NumbersIn(o, b, e)) + 1
  <2>1. NumbersIn(o, b, e + 1) = NumbersIn(o, b, e) \cup {e + 1} /\ e + 1 \notin NumbersIn(o, b, e)
    BY <1>3, <1>4 DEF NumbersIn
  <2> QED
    BY <1>2, <2>1, FS_AddElement
<1>5. ASSUME o[e + 1].kind # "number" PROVE NumbersIn(o, b, e + 1) = NumbersIn(o, b, e)
  BY <1>3, <1>5 DEF NumbersIn
<1> QED
  BY <1>2, <1>4, <1>5

\* Printing an item that ends no address.
LEMMA PrintsInside ==
  ASSUME NEW S, NEW o \in Seq(S), AllClosed(o), NEW x, x.kind # "line"
  PROVE  AllClosed(Append(o, x))
<1> DEFINE t == Append(o, x)
<1>1. Len(t) = Len(o) + 1 /\ Len(o) \in Nat /\ (\A i \in 1..Len(o) : t[i] = o[i]) /\ t[Len(o) + 1] = x
  BY OneMore
<1> HIDE DEF t
<1>2. ASSUME NEW k \in 1..Len(t), t[k].kind = "line" PROVE Closed(t, k)
  <2>1. k \in 1..Len(o) /\ t[k] = o[k]
    BY <1>1, <1>2
  <2>2. PICK b \in 1..(k - 1) : OpenAt(o, b, k - 1, 4)
    BY <1>2, <2>1 DEF AllClosed, Closed
  <2>3. \A i \in 1..(k - 1) : t[i] = o[i]
    BY <1>1, <2>1
  <2>4. k - 1 \in Nat
    BY <1>1, <2>1
  <2>5. OpenAt(t, b, k - 1, 4)
    BY <2>2, <2>3, <2>4, OpenStays
  <2> QED
    BY <1>2, <2>5 DEF Closed
<1> QED
  BY <1>2 DEF AllClosed, t

\* Printing a number or a dot goes on with an address.
LEMMA GoesOn ==
  ASSUME NEW S, NEW o \in Seq(S), NEW b, NEW c \in Nat, OpenAt(o, b, Len(o), c), NEW x
  PROVE  /\ x.kind = "dot" => OpenAt(Append(o, x), b, Len(o) + 1, c)
         /\ x.kind = "number" /\ x.what \in 0..255 => OpenAt(Append(o, x), b, Len(o) + 1, c + 1)
<1> DEFINE t == Append(o, x)
<1>1. Len(t) = Len(o) + 1 /\ Len(o) \in Nat /\ (\A i \in 1..Len(o) : t[i] = o[i]) /\ t[Len(o) + 1] = x
  BY OneMore
<1> HIDE DEF t
<1>2. OpenAt(t, b, Len(o), c)
  BY <1>1, OpenStays
<1>3. b \in 1..Len(o)
  BY DEF OpenAt
<1>4. (b + 1)..(Len(o) + 1) = ((b + 1)..Len(o)) \cup {Len(o) + 1} /\ b \in 1..(Len(o) + 1)
  BY <1>1, <1>3
<1>5. ASSUME x.kind = "dot" PROVE OpenAt(t, b, Len(o) + 1, c)
  <2>1. NumbersIn(t, b, Len(o) + 1) = NumbersIn(t, b, Len(o))
    BY <1>1, <1>3, <1>5, NumbersGrow
  <2> QED
    BY <1>1, <1>2, <1>4, <1>5, <2>1 DEF OpenAt
<1>6. ASSUME x.kind = "number", x.what \in 0..255 PROVE OpenAt(t, b, Len(o) + 1, c + 1)
  <2>1. Cardinality(NumbersIn(t, b, Len(o) + 1)) = c + 1
    BY <1>1, <1>2, <1>3, <1>6, NumbersGrow DEF OpenAt
  <2> QED
    BY <1>1, <1>2, <1>4, <1>6, <2>1 DEF OpenAt
<1> QED
  BY <1>5, <1>6 DEF t

\* The first number begins an address, and the newline behind the fourth ends it.
LEMMA Begins ==
  ASSUME NEW S, NEW o \in Seq(S), NEW x, x.kind = "address"
  PROVE  OpenAt(Append(o, x), Len(o) + 1, Len(o) + 1, 0)
<1> DEFINE t == Append(o, x)
<1>1. Len(o) \in Nat /\ t[Len(o) + 1] = x
  BY OneMore
<1> HIDE DEF t
<1>2. NumbersIn(t, Len(o) + 1, Len(o) + 1) = {}
  BY <1>1 DEF NumbersIn
<1>3. Cardinality(NumbersIn(t, Len(o) + 1, Len(o) + 1)) = 0
  BY <1>2, FS_EmptySet, Zenon
<1>4. t[Len(o) + 1].kind = "address"
  BY <1>1, Zenon
<1>5. OpenAt(t, Len(o) + 1, Len(o) + 1, 0)
  BY <1>1, <1>3, <1>4 DEF OpenAt
<1> QED
  BY <1>5 DEF t

LEMMA Closes ==
  ASSUME NEW S, NEW o \in Seq(S), AllClosed(o), NEW b, OpenAt(o, b, Len(o), 4),
         NEW x, x.kind = "line"
  PROVE  AllClosed(Append(o, x))
<1> DEFINE t == Append(o, x)
<1>1. Len(t) = Len(o) + 1 /\ Len(o) \in Nat /\ (\A i \in 1..Len(o) : t[i] = o[i]) /\ t[Len(o) + 1] = x
  BY OneMore
<1> HIDE DEF t
<1>2. ASSUME NEW k \in 1..Len(t), t[k].kind = "line" PROVE Closed(t, k)
  <2>1. CASE k \in 1..Len(o)
    <3>1. PICK d \in 1..(k - 1) : OpenAt(o, d, k - 1, 4)
      BY <1>1, <1>2, <2>1 DEF AllClosed, Closed
    <3>2. k - 1 \in Nat /\ \A i \in 1..(k - 1) : t[i] = o[i]
      BY <1>1, <2>1
    <3>3. OpenAt(t, d, k - 1, 4)
      BY <3>1, <3>2, OpenStays
    <3> QED
      BY <1>2, <3>3 DEF Closed
  <2>2. CASE k = Len(o) + 1
    <3>1. OpenAt(t, b, Len(o), 4)
      BY <1>1, OpenStays
    <3>2. b \in 1..Len(o) /\ k - 1 = Len(o)
      BY <1>1, <2>2, <3>1 DEF OpenAt
    <3> QED
      BY <1>2, <3>1, <3>2 DEF Closed
  <2> QED
    BY <1>1, <2>1, <2>2
<1> QED
  BY <1>2 DEF AllClosed, t

-----------------------------------------------------------------------------
\* Rules that print their text, or print nothing: the start condition says
\* whether an address is open.
LEMMA PrintStep ==
  ASSUME AddressInv, NEW rule \in {"adapter", "name", "upper", "mac"},
         NEW next \in {"enter_adapter", "exit_adapter", "exit_state", "exit_mac"},
         PrintText(rule, next)
  PROVE  AddressInv'
<1>1. /\ program = "addresses" /\ program' = program /\ start' # "inet"
      /\ out' = Append(out, Printed(rule, yytext(rule)))
  BY DEF PrintText, Match, Runs, Take
<1>2. PICK S : out \in Seq(S)
  BY <1>1 DEF AddressInv
<1>3. Printed(rule, yytext(rule)).kind # "line"
  BY DEF Printed
<1>4. AllClosed(out')
  BY <1>1, <1>2, <1>3, PrintsInside DEF AddressInv
<1>5. \E T : out' \in Seq(T)
  BY <1>1, <1>2, OneMore
<1> QED
  BY <1>1, <1>4, <1>5 DEF AddressInv

LEMMA BeginStep ==
  ASSUME AddressInv, NEW rule, NEW next, next # "inet", Begin(rule, next)
  PROVE  AddressInv'
BY DEF AddressInv, Begin, Match, Runs, Take

LEMMA DotStep == AddressInv /\ Dot => AddressInv'
<1> SUFFICES ASSUME AddressInv, Dot PROVE AddressInv'
  OBVIOUS
<1> DEFINE x == Printed("dot", yytext("dot"))
<1>1. /\ program = "addresses" /\ program' = program /\ counter' = counter /\ start' = "inet"
      /\ out' = Append(out, x) /\ Matches["dot"] > 0
  BY DEF Dot, PrintText, Match, Runs, Take
<1>2. start = "inet"
  BY <1>1 DEF Matches, In
<1>3. PICK S : out \in Seq(S)
  BY <1>1 DEF AddressInv
<1>4. x.kind = "dot"
  BY DEF Printed
<1>5. PICK b \in 1..Len(out) : OpenAt(out, b, Len(out), counter)
  BY <1>1, <1>2 DEF AddressInv
<1>6. counter \in 1..3
  BY <1>1, <1>2 DEF AddressInv
<1> HIDE DEF x
<1>7. AllClosed(out')
  BY <1>1, <1>3, <1>4, PrintsInside DEF AddressInv
<1>8. /\ Len(out) \in Nat /\ Len(out') = Len(out) + 1 /\ out' \in Seq(S \cup {x})
  BY <1>1, <1>3, OneMore
<1>9. OpenAt(out', b, Len(out'), counter')
  BY <1>1, <1>3, <1>4, <1>5, <1>6, <1>8, GoesOn
<1>10. b \in 1..Len(out')
  BY <1>8
<1> QED
  BY <1>1, <1>6, <1>7, <1>8, <1>9, <1>10 DEF AddressInv

LEMMA FirstStep == AddressInv /\ FirstNumber => AddressInv'
<1> SUFFICES ASSUME AddressInv, FirstNumber PROVE AddressInv'
  OBVIOUS
<1> DEFINE value == atol(yytext("first"))
           a == Printed("address", <<>>)
           x == Printed("number", value)
<1>1. /\ program = "addresses" /\ program' = program /\ counter' = 1
      /\ out' = out \o <<a>> \o (IF Valid(value) THEN <<x>> ELSE <<>>)
      /\ start' = IF Valid(value) THEN "inet" ELSE "INITIAL"
  BY DEF FirstNumber, Match, Runs, Take
<1>2. PICK S : out \in Seq(S)
  BY <1>1 DEF AddressInv
<1>3. a.kind = "address" /\ x.kind = "number" /\ x.what = value
  BY DEF Printed
<1> HIDE DEF value, a, x
<1> DEFINE o == Append(out, a)
<1>4. out \o <<a>> = o /\ o \in Seq(S \cup {a}) /\ Len(o) = Len(out) + 1 /\ Len(out) \in Nat
  BY <1>2, OneMore
<1>5. AllClosed(o)
  BY <1>1, <1>2, <1>3, PrintsInside DEF AddressInv
<1>6. OpenAt(o, Len(o), Len(o), 0)
  BY <1>2, <1>3, <1>4, Begins
<1> HIDE DEF o
<1>7. CASE ~Valid(value)
  <2>1. out' = o
    BY <1>1, <1>4, <1>7
  <2> QED
    BY <1>1, <1>4, <1>5, <1>7, <2>1 DEF AddressInv
<1>8. CASE Valid(value)
  <2>1. out' = Append(o, x) /\ out' \in Seq(S \cup {a} \cup {x}) /\ Len(out') = Len(o) + 1
    <3>1. out' = o \o <<x>>
      BY <1>1, <1>4, <1>8
    <3> QED
      BY <1>4, <3>1, OneMore
  <2>2. AllClosed(out')
    BY <1>3, <1>4, <1>5, <2>1, PrintsInside
  <2>3. OpenAt(out', Len(o), Len(out'), 0 + 1)
    BY <1>3, <1>4, <1>6, <1>8, <2>1, GoesOn DEF Valid
  <2>4. Len(o) \in 1..Len(out') /\ 0 + 1 = 1 /\ 1 \in 1..3
    BY <1>4, <2>1
  <2>5. OpenAt(out', Len(o), Len(out'), counter')
    BY <1>1, <2>3, <2>4
  <2> QED
    BY <1>1, <2>1, <2>2, <2>4, <2>5 DEF AddressInv
<1> QED
  BY <1>7, <1>8

LEMMA NextStep == AddressInv /\ NextNumber => AddressInv'
<1> SUFFICES ASSUME AddressInv, NextNumber PROVE AddressInv'
  OBVIOUS
<1> DEFINE value == atol(yytext("octet"))
           x == Printed("number", value)
           l == Printed("line", <<>>)
<1>1. /\ program = "addresses" /\ program' = program /\ Matches["octet"] > 0
      /\ \/ /\ Valid(value) /\ counter = 3
            /\ out' = out \o <<x, l>>
            /\ start' = "INITIAL"
         \/ /\ Valid(value) /\ counter # 3
            /\ counter' = counter + 1
            /\ out' = Append(out, x)
            /\ start' = "inet"
         \/ /\ start' = "INITIAL"
            /\ out' = out
  BY DEF NextNumber, Match, Runs, Take
<1>2. start = "inet"
  BY <1>1 DEF Matches, In
<1>3. PICK S : out \in Seq(S)
  BY <1>1 DEF AddressInv
<1>4. x.kind = "number" /\ x.what = value /\ l.kind = "line"
  BY DEF Printed
<1>5. PICK b \in 1..Len(out) : OpenAt(out, b, Len(out), counter)
  BY <1>1, <1>2 DEF AddressInv
<1>6. counter \in 1..3
  BY <1>1, <1>2 DEF AddressInv
<1> HIDE DEF value, x, l
<1> DEFINE o == Append(out, x)
<1>7. o \in Seq(S \cup {x}) /\ Len(o) = Len(out) + 1 /\ Len(out) \in Nat /\ out \o <<x, l>> = Append(o, l)
  BY <1>3, OneMore
<1>8. AllClosed(o)
  BY <1>1, <1>3, <1>4, PrintsInside DEF AddressInv
<1>9. Valid(value) => OpenAt(o, b, Len(o), counter + 1)
  <2>1. counter \in Nat /\ (Valid(value) => x.what \in 0..255)
    BY <1>4, <1>6 DEF Valid
  <2>2. Valid(value) => OpenAt(o, b, Len(out) + 1, counter + 1)
    BY <1>3, <1>4, <1>5, <2>1, GoesOn
  <2> QED
    BY <1>7, <2>2
<1>10. CASE Valid(value) /\ counter = 3 /\ out' = out \o <<x, l>> /\ start' = "INITIAL"
  <2> HIDE DEF o
  <2>1. OpenAt(o, b, Len(o), 4)
    BY <1>9, <1>10
  <2>2. out' = Append(o, l)
    BY <1>7, <1>10
  <2>4. out' \in Seq(S \cup {x} \cup {l})
    BY <1>7, <2>2, OneMore
  <2>3. AllClosed(out')
    BY <1>4, <1>7, <1>8, <2>1, <2>2, Closes
  <2> QED
    BY <1>1, <1>10, <2>3, <2>4 DEF AddressInv
<1>11. CASE Valid(value) /\ counter # 3 /\ counter' = counter + 1 /\ out' = o /\ start' = "inet"
  <2> HIDE DEF o
  <2>1. counter' \in 1..3 /\ b \in 1..Len(out')
    BY <1>6, <1>7, <1>11
  <2>2. OpenAt(out', b, Len(out'), counter')
    BY <1>9, <1>11
  <2> QED
    BY <1>1, <1>7, <1>8, <1>11, <2>1, <2>2 DEF AddressInv
<1>12. CASE start' = "INITIAL" /\ out' = out
  BY <1>1, <1>12 DEF AddressInv
<1> QED
  BY <1>1, <1>10, <1>11, <1>12

LEMMA AddressStep == AddressInv /\ [AddressNext]_<<scanned, counter>> => AddressInv'
<1> SUFFICES ASSUME AddressInv, [AddressNext]_<<scanned, counter>> PROVE AddressInv'
  OBVIOUS
<1>1. CASE AdapterNumber
  BY <1>1, PrintStep DEF AdapterNumber
<1>2. CASE AdapterName
  BY <1>2, PrintStep DEF AdapterName
<1>3. CASE StateName
  BY <1>3, PrintStep DEF StateName
<1>4. CASE Mac
  BY <1>4, PrintStep DEF Mac
<1>5. CASE AdapterColon
  BY <1>5, BeginStep DEF AdapterColon
<1>6. CASE StateWord
  BY <1>6, BeginStep DEF StateWord
<1>7. CASE LinkWord
  BY <1>7, BeginStep DEF LinkWord
<1>8. CASE Blanks
  BY <1>8, BeginStep DEF Blanks
<1>9. CASE InetWord
  BY <1>9, BeginStep DEF InetWord
<1>10. CASE DropOther
  BY <1>10 DEF DropOther, Take, AddressInv
<1>11. CASE AddressReturn
  <2>1. UNCHANGED <<program, start, counter>> /\ program = "addresses" /\ out' = out \o <<>>
    BY <1>11 DEF AddressReturn, Ends, Runs
  <2>2. PICK S : out \in Seq(S)
    BY <2>1 DEF AddressInv
  <2>3. out' = out
    BY <2>1, <2>2
  <2> QED
    BY <2>1, <2>3 DEF AddressInv
<1>12. CASE UNCHANGED <<scanned, counter>>
  BY <1>12 DEF scanned, AddressInv
<1> QED
  BY <1>1, <1>2, <1>3, <1>4, <1>5, <1>6, <1>7, <1>8, <1>9, <1>10, <1>11, <1>12,
     DotStep, FirstStep, NextStep DEF AddressNext

\* For texts of any length, with any words between and inside of the addresses:
\* what network_addressing.l ends with a newline has four numbers of one address.
THEOREM LinesAreAddresses == AddressSpec => []AddressesHaveFourNumbers
<1>1. AddressInit => AddressInv
  <2>1. ASSUME AddressInit PROVE out \in Seq({}) /\ Len(out) = 0 /\ start # "inet"
    BY <2>1 DEF AddressInit, ScannerInit
  <2> QED
    BY <2>1 DEF AddressInv, AllClosed
<1>2. AddressInv => AddressesHaveFourNumbers
  <2> SUFFICES ASSUME AddressInv, NEW k \in 1..Len(out), program = "addresses", out[k].kind = "line"
               PROVE  /\ \E i \in 1..k : out[i].kind = "address"
                      /\ Cardinality(Numbers(BeginOf(k), k)) = 4
                      /\ \A i \in Numbers(BeginOf(k), k) : out[i].what <= 255
                      /\ \A i \in (BeginOf(k) + 1)..(k - 1) : out[i].kind \in {"number", "dot"}
    BY DEF AddressesHaveFourNumbers
  <2>1. PICK b \in 1..(k - 1) : OpenAt(out, b, k - 1, 4)
    BY DEF AddressInv, AllClosed, Closed
  <2>2. PICK S : out \in Seq(S)
    BY DEF AddressInv
  <2>3. k \in Nat /\ k - 1 \in Nat /\ k - 1 + 1 = k /\ b \in 1..k
    BY <2>1, <2>2
  <2>4. BeginOf(k) = b
    <3> DEFINE A == {i \in 1..k : out[i].kind = "address"}
    <3>1. b \in A /\ \A i \in A : b >= i
      BY <2>1, <2>3 DEF OpenAt
    <3>2. A \subseteq Int
      BY <2>3
    <3> HIDE DEF A
    <3>3. \A y \in A : (\A z \in A : y >= z) => y = b
      BY <3>1, <3>2
    <3>4. Max(A) = b
      BY <3>1, <3>3 DEF Max
    <3> QED
      BY <3>4 DEF BeginOf, A
  <2>5. Numbers(b, k) = NumbersIn(out, b, k - 1)
    BY <2>3, NumbersGrow DEF Numbers, NumbersIn
  <2>6. Cardinality(Numbers(b, k)) = 4
    BY <2>1, <2>5 DEF OpenAt
  <2>7. \A i \in Numbers(b, k) : out[i].what <= 255
    <3> SUFFICES ASSUME NEW i \in b..(k - 1), out[i].kind = "number" PROVE out[i].what \in 0..255
      <4>1. \A i \in Numbers(b, k) : i \in b..(k - 1) /\ out[i].kind = "number"
        BY <2>5, Zenon DEF NumbersIn
      <4>2. \A n \in 0..255 : n <= 255
        OBVIOUS
      <4> QED
        BY <4>1, <4>2, Zenon
    <3>1. i \in (b + 1)..(k - 1)
      BY <2>1, <2>3 DEF OpenAt
    <3> QED
      BY <2>1, <3>1 DEF OpenAt
  <2> QED
    BY <2>1, <2>3, <2>4, <2>6, <2>7 DEF OpenAt
<1> QED
  BY <1>1, <1>2, AddressStep, PTL DEF AddressSpec

-----------------------------------------------------------------------------
(* LatexRepl: what the orientation of stdout leaves of the pieces.           *)

LEMMA NameLengths == \A n \in Names : Len(n) \in 2..3
BY DEF Names

LEMMA LongestIsOne ==
  ASSUME NEW T \in SUBSET Names, T # {}
  PROVE  Longest(T) \in T
<1>1. \E n \in T : \A other \in T : Len(other) <= Len(n)
  <2>1. CASE \E n \in T : Len(n) = 3
    BY <2>1, NameLengths
  <2>2. CASE ~\E n \in T : Len(n) = 3
    <3>1. \A n \in T : Len(n) = 2
      BY <2>2, NameLengths
    <3> QED
      BY <3>1
  <2> QED
    BY <2>1, <2>2
<1> QED
  BY <1>1, Zenon DEF Longest

\* A piece is at least one symbol, and inside of the text.
LEMMA Pieces ==
  ASSUME NEW t \in Seq(Symbol), NEW k \in 0..Len(t), k # Len(t)
  PROVE  /\ k + Len(PieceAt(t, k)) \in (k + 1)..Len(t)
         /\ NamesAt(t, k) # {} => PieceAt(t, k) = Longest(NamesAt(t, k)) /\ PieceAt(t, k) \in Names
         /\ NamesAt(t, k) = {} => PieceAt(t, k) \notin Names /\ PieceAt(t, k)[1] = t[k + 1]
                                    /\ Len(PieceAt(t, k)) = 1
<1>1. CASE NamesAt(t, k) = {}
  <2>1. PieceAt(t, k) = SubSeq(t, k + 1, k + 1)
    BY <1>1 DEF PieceAt
  <2> DEFINE m == k + 1
  <2>2. m \in 1..Len(t)
    OBVIOUS
  <2> HIDE DEF m
  <2>3. Len(SubSeq(t, m, m)) = 1 /\ SubSeq(t, m, m)[1] = t[m]
    BY <2>2
  <2>4. Len(PieceAt(t, k)) = 1 /\ PieceAt(t, k)[1] = t[k + 1]
    BY <2>1, <2>3 DEF m
  <2>5. PieceAt(t, k) \notin Names
    <3>1. ~(1 \in 2..3)
      OBVIOUS
    <3> QED
      BY <2>4, <3>1, NameLengths, Zenon
  <2> QED
    BY <1>1, <2>4, <2>5
<1>2. CASE NamesAt(t, k) # {}
  <2>1. PieceAt(t, k) = Longest(NamesAt(t, k)) /\ NamesAt(t, k) \subseteq Names
    BY <1>2 DEF PieceAt, NamesAt
  <2>2. PieceAt(t, k) \in NamesAt(t, k)
    BY <1>2, <2>1, LongestIsOne
  <2>3. PieceAt(t, k) \in Names /\ k + Len(PieceAt(t, k)) <= Len(t)
    BY <2>2 DEF NamesAt
  <2> DEFINE l == Len(PieceAt(t, k))
  <2>4. l \in 2..3
    BY <2>3, NameLengths, Zenon
  <2>5. k \in Nat /\ Len(t) \in Nat /\ k + l <= Len(t)
    BY <2>3
  <2> HIDE DEF l
  <2>6. k + l \in (k + 1)..Len(t)
    BY <2>4, <2>5
  <2> QED
    BY <1>2, <2>1, <2>3, <2>6, Zenon DEF l
<1> QED
  BY <1>1, <1>2

\* What is kept of one piece.
KeptAt(t, commands, k) ==
  IF (PieceAt(t, k) \in Names) = commands THEN <<Shown(PieceAt(t, k))>> ELSE <<>>

AllShown(t) == {Shown(PieceAt(t, k)) : k \in 0..Len(t)}

IsKeptFrom(t, commands, f) ==
  f = [k \in 0..Len(t) |-> IF k = Len(t) THEN <<>>
                           ELSE KeptAt(t, commands, k) \o f[k + Len(PieceAt(t, k))]]

LEMMA KeptIsChosen ==
  ASSUME NEW t, NEW commands
  PROVE  KeptFrom(t, commands) = CHOOSE f : IsKeptFrom(t, commands, f)
BY Zenon DEF KeptFrom, IsKeptFrom, KeptAt

LEMMA KeptEquation ==
  ASSUME NEW t \in Seq(Symbol), NEW commands \in BOOLEAN
  PROVE  /\ KeptFrom(t, commands)[Len(t)] = <<>>
         /\ \A k \in 0..(Len(t) - 1) :
              KeptFrom(t, commands)[k] =
                KeptAt(t, commands, k) \o KeptFrom(t, commands)[k + Len(PieceAt(t, k))]
         /\ \A k \in 0..Len(t) : KeptFrom(t, commands)[k] \in Seq(AllShown(t))
<1> DEFINE n == Len(t)
           next == [k \in 0..n |-> k + Len(PieceAt(t, k))]
           prefix == [k \in 0..n |-> KeptAt(t, commands, k)]
           base == [k \in 0..n |-> <<>>]
           K == KeptFrom(t, commands)
<1>1. n \in Nat
  OBVIOUS
<1>2. \A k \in 0..n : k \notin {n} => next[k] \in (k + 1)..n
  BY Pieces
<1>3. \A f : IsKeptFrom(t, commands, f) <=> FromAbove(n, {n}, base, prefix, next, f)
  <2> TAKE f
  <2>1. \A k \in 0..n : (IF k = n THEN <<>> ELSE KeptAt(t, commands, k) \o f[k + Len(PieceAt(t, k))])
                        = (IF k \in {n} THEN base[k] ELSE prefix[k] \o f[next[k]])
    OBVIOUS
  <2> HIDE DEF base, prefix, next
  <2>2. [k \in 0..n |-> IF k = n THEN <<>> ELSE KeptAt(t, commands, k) \o f[k + Len(PieceAt(t, k))]]
        = [k \in 0..n |-> IF k \in {n} THEN base[k] ELSE prefix[k] \o f[next[k]]]
    BY <2>1
  <2> QED
    BY <2>2, Zenon DEF IsKeptFrom, FromAbove
<1> HIDE DEF next, prefix, base
<1>4. \E f : FromAbove(n, {n}, base, prefix, next, f)
  <2> HIDE DEF n
  <2> QED
    BY <1>1, <1>2, RecursionFromAbove
<1>5. IsKeptFrom(t, commands, K)
  BY <1>3, <1>4, KeptIsChosen, Zenon
<1>6. \A k \in 0..n : K[k] = IF k = n THEN <<>>
                             ELSE KeptAt(t, commands, k) \o K[k + Len(PieceAt(t, k))]
  <2> HIDE DEF K
  <2> QED
    BY <1>5 DEF IsKeptFrom
<1>7. \A k \in 0..n : prefix[k] \in Seq(AllShown(t))
  <2> TAKE k \in 0..n
  <2>1. prefix[k] = KeptAt(t, commands, k)
    BY DEF prefix
  <2>2. Shown(PieceAt(t, k)) \in AllShown(t)
    BY DEF AllShown
  <2>3. KeptAt(t, commands, k) \in Seq(AllShown(t))
    BY <2>2 DEF KeptAt
  <2> QED
    BY <2>1, <2>3
<1>8. \A k \in 0..n : k \in {n} => base[k] \in Seq(AllShown(t))
  BY DEF base
<1>9. \A k \in 0..n : K[k] \in Seq(AllShown(t))
  <2>1. FromAbove(n, {n}, base, prefix, next, K)
    BY <1>3, <1>5, Zenon
  <2> DEFINE S == AllShown(t)
             last == {n}
  <2>2. \A k \in 0..n : k \notin last => next[k] \in (k + 1)..n /\ prefix[k] \in Seq(S)
    BY <1>2, <1>7
  <2>3. FromAbove(n, last, base, prefix, next, K) /\ \A k \in 0..n : k \in last => base[k] \in Seq(S)
    BY <1>8, <2>1
  <2> HIDE DEF n, K, S, last
  <2>4. \A k \in 0..n : K[k] \in Seq(S)
    BY <1>1, <2>2, <2>3, FromAboveIsTyped
  <2> QED
    BY <2>4 DEF S
<1> HIDE DEF K
<1>10. /\ n \in 0..n
       /\ \A k \in 0..(n - 1) : k \in 0..n /\ k # n
  OBVIOUS
<1> HIDE DEF n
<1> QED
  BY <1>6, <1>9, <1>10 DEF K, n

-----------------------------------------------------------------------------
Wide == orientation = "wide"

\* What arrived, and what of the text behind it will, is what is kept of it all.
LatexInv ==
  program = "latex" =>
    /\ text \in Seq(Symbol)
    /\ at \in 0..Len(text)
    /\ scanner = "ended" => at = Len(text)
    /\ orientation \in {"none", "wide", "narrow"}
    /\ orientation = "none" => at = 0 /\ out = <<>>
    /\ orientation # "none" =>
         /\ Wide = (NamesAt(text, 0) # {})
         /\ out \in Seq(AllShown(text))
         /\ KeptFrom(text, Wide)[0] = out \o KeptFrom(text, Wide)[at]

\* One piece, of whichever kind.
LEMMA PieceStep ==
  ASSUME LatexInv, program = "latex", at # Len(text), NEW way,
         way = IF NamesAt(text, at) # {} THEN "wide" ELSE "narrow",
         Write(way, <<Shown(PieceAt(text, at))>>), Take(Len(PieceAt(text, at))), scanner = "runs"
  PROVE  LatexInv'
<1> DEFINE piece == PieceAt(text, at)
           first == IF orientation = "none" THEN way ELSE orientation
           wide == first = "wide"
           K == KeptFrom(text, wide)
           S == AllShown(text)
           old == IF orientation = "none" THEN <<>> ELSE out
           kept == KeptAt(text, wide, at)
<1>1. /\ text \in Seq(Symbol) /\ at \in 0..Len(text) /\ at \in 0..(Len(text) - 1)
      /\ orientation \in {"none", "wide", "narrow"}
      /\ orientation = "none" => at = 0 /\ out = <<>>
  BY DEF LatexInv
<1>2. /\ at' = at + Len(piece) /\ at' \in (at + 1)..Len(text) /\ at' \in 0..Len(text)
      /\ UNCHANGED <<program, text, scanner>>
  BY <1>1, Pieces DEF Take
<1>3. /\ orientation' = first /\ first \in {"wide", "narrow"} /\ Wide' = wide
      /\ wide = (NamesAt(text, 0) # {})
  BY <1>1 DEF LatexInv, Write, Wide
<1>4. (piece \in Names) = (NamesAt(text, at) # {})
  BY <1>1, Pieces
<1>5. kept = IF way = first THEN <<Shown(piece)>> ELSE <<>>
  <2>1. (way = "wide") = (piece \in Names)
    BY <1>4
  <2>2. way \in {"wide", "narrow"}
    OBVIOUS
  <2>3. ((piece \in Names) = wide) = (way = first)
    BY <1>3, <2>1, <2>2
  <2> QED
    BY <2>3 DEF KeptAt
<1>6. out \in Seq(S) /\ Shown(piece) \in S
  <2>1. Shown(piece) \in S
    BY <1>1 DEF AllShown
  <2> HIDE DEF S
  <2>2. CASE orientation = "none"
    BY <1>1, <2>1, <2>2
  <2>3. CASE orientation # "none"
    BY <2>1, <2>3 DEF LatexInv, S
  <2> QED
    BY <2>1, <2>2, <2>3
<1>7. out' = out \o kept
  <2>1. Accepts(way) = (way = first)
    BY <1>1 DEF Accepts
  <2>2. out \o <<>> = out
    BY <1>6
  <2> QED
    BY <1>5, <2>1, <2>2 DEF Write
<1>8. K[at] = kept \o K[at'] /\ K[at'] \in Seq(S) /\ K[at] \in Seq(S)
  BY <1>1, <1>2, KeptEquation
<1>9. K[0] = out \o K[at]
  <2>1. CASE orientation = "none"
    <3>1. K[0] \in Seq(S)
      BY <1>1, <1>8, <2>1
    <3> HIDE DEF K
    <3> QED
      BY <1>1, <2>1, <3>1
  <2>2. CASE orientation # "none"
    BY <1>1, <2>2 DEF LatexInv, Wide
  <2> QED
    BY <2>1, <2>2
<1> HIDE DEF K, S, kept, piece
<1>10. kept \in Seq(S)
  BY <1>5, <1>6
<1>11. out \o (kept \o K[at']) = (out \o kept) \o K[at'] /\ out \o kept \in Seq(S)
  <2> DEFINE r == K[at']
  <2>1. r \in Seq(S)
    BY <1>8
  <2> HIDE DEF r
  <2>2. out \o (kept \o r) = (out \o kept) \o r /\ out \o kept \in Seq(S)
    BY <1>6, <1>10, <2>1, ConcatAssociative
  <2> QED
    BY <2>2 DEF r
<1>12. K[0] = out' \o K[at'] /\ out' \in Seq(S)
  BY <1>7, <1>8, <1>9, <1>11
<1>13. KeptFrom(text', Wide')[0] = out' \o KeptFrom(text', Wide')[at'] /\ out' \in Seq(AllShown(text'))
  <2>1. KeptFrom(text', Wide') = K /\ AllShown(text') = S
    BY <1>2, <1>3 DEF K, S
  <2> QED
    BY <1>12, <2>1
<1>14. Wide' = (NamesAt(text', 0) # {}) /\ orientation' \in {"wide", "narrow"}
  BY <1>2, <1>3
<1> HIDE DEF first
<1> QED
  BY <1>1, <1>2, <1>13, <1>14 DEF LatexInv

LEMMA AheadIsAt ==
  ASSUME text \in Seq(Symbol), at \in 0..Len(text)
  PROVE  NamesAhead = NamesAt(text, at)
BY DEF NamesAhead, NamesAt, Ahead, Following

LEMMA LatexStep == LatexInv /\ [LatexNext]_<<scanned, orientation>> => LatexInv'
<1> SUFFICES ASSUME LatexInv, [LatexNext]_<<scanned, orientation>> PROVE LatexInv'
  OBVIOUS
<1>1. CASE print_unicode
  <2>1. program = "latex" /\ scanner = "runs" /\ text \in Seq(Symbol) /\ at \in 0..Len(text)
    BY <1>1 DEF print_unicode, Runs, LatexInv
  <2>2. NamesAt(text, at) # {} /\ NamesAhead = NamesAt(text, at)
    BY <1>1, <2>1, AheadIsAt DEF print_unicode
  <2>3. at # Len(text)
    <3>1. PICK n \in Names : at + Len(n) <= Len(text)
      BY <2>2 DEF NamesAt
    <3> QED
      BY <2>1, <3>1, NameLengths
  <2>4. PieceAt(text, at) = Longest(NamesAhead) /\ PieceAt(text, at) \in Names
    BY <2>1, <2>2, <2>3, Pieces
  <2>5. Shown(PieceAt(text, at)) = [char |-> Character(CodeOf(Longest(NamesAhead)))]
    BY <2>4 DEF Shown
  <2>6. Write("wide", <<Shown(PieceAt(text, at))>>) /\ Take(Len(PieceAt(text, at)))
    BY <1>1, <2>4, <2>5 DEF print_unicode
  <2> QED
    BY <2>1, <2>2, <2>3, <2>6, PieceStep
<1>2. CASE EchoOne
  <2>1. program = "latex" /\ scanner = "runs" /\ text \in Seq(Symbol) /\ at \in 0..Len(text)
    BY <1>2 DEF EchoOne, Runs, LatexInv
  <2>2. NamesAt(text, at) = {} /\ at # Len(text) /\ Write("narrow", EchoNext(1)) /\ Take(1)
    BY <1>2, <2>1, AheadIsAt DEF EchoOne, More
  <2>3. PieceAt(text, at) \notin Names /\ PieceAt(text, at)[1] = text[at + 1] /\ Len(PieceAt(text, at)) = 1
    BY <2>1, <2>2, Pieces
  <2>4. Shown(PieceAt(text, at)) = Echoed(text[at + 1])
    BY <2>3 DEF Shown
  <2>5. Peek(1 - 1) = text[at + 1]
    <3>1. at \in Nat /\ Len(text) \in Nat /\ at < Len(text)
      BY <2>1, <2>2
    <3>2. at + (1 - 1) = at /\ at + (1 - 1) + 1 = at + 1
      BY <3>1
    <3> QED
      BY <3>1, <3>2, Zenon DEF Peek
  <2>6. EchoNext(1) = <<Echoed(text[at + 1])>>
    <3>1. EchoNext(1) = [i \in 1..1 |-> Echoed(Peek(i - 1))]
      BY DEF EchoNext
    <3>2. \A i \in 1..1 : Echoed(Peek(i - 1)) = Echoed(text[at + 1])
      BY <2>5
    <3> QED
      BY <3>1, <3>2
  <2> QED
    BY <2>1, <2>2, <2>3, <2>4, <2>6, PieceStep
<1>3. CASE LatexReturn
  <2>1. /\ program = "latex" /\ UNCHANGED <<program, text, at, orientation>> /\ out' = out \o <<>>
        /\ at = Len(text)
    BY <1>3 DEF LatexReturn, Ends, Runs, More, LatexInv
  <2>2. out' = out
    BY <2>1 DEF LatexInv
  <2> QED
    BY <2>1, <2>2 DEF LatexInv, Wide
<1>4. CASE UNCHANGED <<scanned, orientation>>
  BY <1>4 DEF scanned, LatexInv, Wide
<1> QED
  BY <1>1, <1>2, <1>3, <1>4 DEF LatexNext

\* For texts of any length: latex_repl prints the characters of the commands, or
\* the symbols between them, as the first of either decides, and all of these.
THEOREM OneKindArrives == LatexSpec => []FirstPieceDecides
<1>1. LatexInit => LatexInv
  BY InputAssumption DEF LatexInit, ScannerInit, LatexInv
<1>2. LatexInv => FirstPieceDecides
  <2> SUFFICES ASSUME LatexInv, program = "latex", scanner = "ended", text # <<>>
               PROVE  out = KeptFrom(text, NamesAt(text, 0) # {})[0]
    BY DEF FirstPieceDecides
  <2>1. text \in Seq(Symbol) /\ at = Len(text) /\ Len(text) # 0
    BY DEF LatexInv
  <2>2. /\ Wide = (NamesAt(text, 0) # {}) /\ out \in Seq(AllShown(text))
        /\ KeptFrom(text, Wide)[0] = out \o KeptFrom(text, Wide)[at]
    BY <2>1 DEF LatexInv
  <2>3. KeptFrom(text, Wide)[at] = <<>>
    BY <2>1, KeptEquation DEF Wide
  <2> QED
    BY <2>2, <2>3
<1> QED
  BY <1>1, <1>2, LatexStep, PTL DEF LatexSpec

-----------------------------------------------------------------------------
(* strip_c_comments: the text without its comments.                          *)

LEMMA MinIs ==
  ASSUME NEW T \in SUBSET Nat, T # {}
  PROVE  Min(T) \in T /\ \A y \in T : Min(T) <= y
<1>1. \E x \in T : \A y \in T : x <= y
  BY LeastNatural
<1> QED
  BY <1>1 DEF Min

LEMMA MinIsOnly ==
  ASSUME NEW T \in SUBSET Nat, NEW x \in T, \A y \in T : x <= y
  PROVE  Min(T) = x
<1> DEFINE y == Min(T)
<1>1. y \in T /\ y <= x
  BY MinIs
<1>2. x <= y /\ x \in Nat /\ y \in Nat
  BY <1>1
<1> HIDE DEF y
<1>3. y = x
  BY <1>1, <1>2
<1> QED
  BY <1>3 DEF y

\* The first symbol of a part of a text.
LEMMA FirstSymbol ==
  ASSUME NEW S, NEW t \in Seq(S), NEW m \in 1..Len(t), NEW e \in m..Len(t)
  PROVE  /\ SubSeq(t, m, e) = <<t[m]>> \o SubSeq(t, m + 1, e)
         /\ SubSeq(t, m, e) \in Seq(S) /\ SubSeq(t, m + 1, e) \in Seq(S)
<1> DEFINE r == SubSeq(t, m + 1, e)
           s == SubSeq(t, m, e)
<1>1. r \in Seq(S) /\ Len(r) = e - m /\ \A i \in 1..(e - m) : r[i] = t[m + i]
  <2> DEFINE j == m + 1
  <2>1. j \in Nat /\ j >= 1 /\ j <= e + 1 /\ e <= Len(t)
    OBVIOUS
  <2>2. \A i \in 1..(e - m) : m + i = j + i - 1
    OBVIOUS
  <2>3. e - j + 1 = e - m
    OBVIOUS
  <2> HIDE DEF j
  <2>4. SubSeq(t, j, e) \in Seq(S) /\ Len(SubSeq(t, j, e)) = e - j + 1
        /\ \A i \in 1..(e - j + 1) : SubSeq(t, j, e)[i] = t[j + i - 1]
    BY <2>1
  <2> QED
    BY <2>2, <2>3, <2>4 DEF j
<1>2. s \in Seq(S) /\ Len(s) = e - m + 1 /\ \A i \in 1..(e - m + 1) : s[i] = t[m + i - 1]
  OBVIOUS
<1> HIDE DEF r, s
<1>3. <<t[m]>> \o r \in Seq(S) /\ Len(<<t[m]>> \o r) = e - m + 1
  <2>1. <<t[m]>> \in Seq(S) /\ Len(<<t[m]>>) = 1
    OBVIOUS
  <2>2. e - m \in Nat /\ 1 + (e - m) = e - m + 1
    OBVIOUS
  <2>3. Len(<<t[m]>> \o r) = Len(<<t[m]>>) + Len(r) /\ <<t[m]>> \o r \in Seq(S)
    BY <1>1, <2>1, ConcatProperties
  <2> QED
    BY <1>1, <2>1, <2>2, <2>3
<1>4. \A i \in 1..(e - m + 1) : (<<t[m]>> \o r)[i] = s[i]
  <2> TAKE i \in 1..(e - m + 1)
  <2>1. CASE i = 1
    BY <1>1, <1>2, <2>1
  <2>2. CASE i # 1
    <3>1. i - 1 \in 1..(e - m)
      BY <2>2
    <3>2. (<<t[m]>> \o r)[i] = r[i - 1]
      BY <1>1, <3>1
    <3>3. r[i - 1] = t[m + (i - 1)] /\ s[i] = t[m + i - 1] /\ m + (i - 1) = m + i - 1
      BY <1>1, <1>2, <3>1
    <3> QED
      BY <3>2, <3>3
  <2> QED
    BY <2>1, <2>2
<1>5. <<t[m]>> \o r = s
  BY <1>2, <1>3, <1>4, SeqEqual
<1> QED
  BY <1>1, <1>2, <1>5 DEF r, s

LEMMA NoSymbols ==
  ASSUME NEW S, NEW t \in Seq(S), NEW k \in 0..Len(t)
  PROVE  SubSeq(t, k + 1, k) = <<>>
OBVIOUS

-----------------------------------------------------------------------------
\* Places, behind some that are none.
LEMMA PlacesBehind ==
  ASSUME NEW t \in Seq(Symbol), NEW a, NEW b, NEW k \in Nat, NEW m \in Nat, k <= m,
         \A i \in k..(m - 1) : i \notin Places(t, i, a, b)
  PROVE  Places(t, k, a, b) = Places(t, m, a, b)
BY DEF Places

LEMMA PlacesAreInside ==
  ASSUME NEW t \in Seq(Symbol), NEW a, NEW b, NEW k \in Nat
  PROVE  /\ Places(t, k, a, b) \in SUBSET Nat
         /\ \A i \in Places(t, k, a, b) : i >= k /\ i + 2 <= Len(t) /\ t[i + 1] = a /\ t[i + 2] = b
         /\ \A i \in k..Len(t) : i \in Places(t, k, a, b) <=> i \in Places(t, i, a, b)
BY DEF Places

LEMMA OpensAre ==
  ASSUME NEW t \in Seq(Symbol), NEW k \in 0..Len(t)
  PROVE  /\ Opens(t, k) \in SUBSET Nat
         /\ \A i \in Opens(t, k) : i >= k /\ i + 2 <= Len(t) /\ t[i + 1] = "/" /\ t[i + 2] \in {"*", "/"}
                                   /\ (t[i + 2] = "/" => LineEnds(t, i) # {})
         /\ \A i \in k..Len(t) : i \in Opens(t, k) <=> i \in Opens(t, i)
         /\ k < Len(t) /\ k \notin Opens(t, k) => Opens(t, k) = Opens(t, k + 1)
<1>1. "/" # "*"
  OBVIOUS
<1>2. Opens(t, k) \in SUBSET Nat
  BY DEF Opens, Places
<1>3. \A i \in Opens(t, k) : i >= k /\ i + 2 <= Len(t) /\ t[i + 1] = "/" /\ t[i + 2] \in {"*", "/"}
  BY DEF Opens, Places
<1>4. \A i \in Opens(t, k) : t[i + 2] = "/" => LineEnds(t, i) # {}
  BY <1>1 DEF Opens, Places
<1>5. \A i \in k..Len(t) : i \in Opens(t, k) <=> i \in Opens(t, i)
  BY DEF Opens, Places
<1>6. k < Len(t) /\ k \notin Opens(t, k) => Opens(t, k) = Opens(t, k + 1)
  BY DEF Opens, Places
<1> QED
  BY <1>2, <1>3, <1>4, <1>5, <1>6

-----------------------------------------------------------------------------
\* The parts of CodeFrom: the first opener, and where the code goes on.
First(t, k) == Min(Opens(t, k))
Closers(t, k) == Places(t, First(t, k) + 2, "*", "/")
Unclosed(t, k) == t[First(t, k) + 2] # "/" /\ Closers(t, k) = {}
GoesOnAt(t, k) ==
  IF t[First(t, k) + 2] = "/" THEN Min(LineEnds(t, First(t, k))) ELSE Min(Closers(t, k)) + 2

CodeBase(t, k) == IF Opens(t, k) = {} THEN SubSeq(t, k + 1, Len(t)) ELSE SubSeq(t, k + 1, First(t, k))

IsCodeFrom(t, f) ==
  f = [k \in 0..Len(t) |-> IF Opens(t, k) = {} \/ Unclosed(t, k) THEN CodeBase(t, k)
                           ELSE SubSeq(t, k + 1, First(t, k)) \o f[GoesOnAt(t, k)]]

LEMMA CodeIsChosen ==
  ASSUME NEW t
  PROVE  CodeFrom(t) = CHOOSE f : IsCodeFrom(t, f)
<1> DEFINE Body(f) ==
      [k \in 0..Len(t) |->
        IF Opens(t, k) = {} THEN SubSeq(t, k + 1, Len(t))
        ELSE IF t[Min(Opens(t, k)) + 2] = "/"
             THEN SubSeq(t, k + 1, Min(Opens(t, k))) \o f[Min(LineEnds(t, Min(Opens(t, k))))]
        ELSE IF Places(t, Min(Opens(t, k)) + 2, "*", "/") = {} THEN SubSeq(t, k + 1, Min(Opens(t, k)))
        ELSE SubSeq(t, k + 1, Min(Opens(t, k))) \o f[Min(Places(t, Min(Opens(t, k)) + 2, "*", "/")) + 2]]
<1>1. CodeFrom(t) = CHOOSE f : f = Body(f)
  BY Zenon DEF CodeFrom
<1>2. \A f : IsCodeFrom(t, f) <=> f = Body(f)
  <2> TAKE f
  <2> DEFINE G == [k \in 0..Len(t) |-> IF Opens(t, k) = {} \/ Unclosed(t, k) THEN CodeBase(t, k)
                           ELSE SubSeq(t, k + 1, First(t, k)) \o f[GoesOnAt(t, k)]]
  <2>1. G = Body(f)
    BY DEF First, Closers, Unclosed, GoesOnAt, CodeBase
  <2> QED
    BY <2>1, Zenon DEF IsCodeFrom
<1> HIDE DEF Body
<1> QED
  BY <1>1, <1>2, Zenon

LEMMA OpenersGoOn ==
  ASSUME NEW t \in Seq(Symbol), NEW k \in 0..Len(t)
  PROVE  /\ Opens(t, k) # {} => First(t, k) \in Opens(t, k) /\ First(t, k) \in k..(Len(t) - 2)
                                /\ \A i \in Opens(t, k) : First(t, k) <= i
         /\ Opens(t, k) # {} /\ ~Unclosed(t, k) => GoesOnAt(t, k) \in (k + 1)..Len(t)
         /\ CodeBase(t, k) \in Seq(Symbol)
         /\ Opens(t, k) # {} => SubSeq(t, k + 1, First(t, k)) \in Seq(Symbol)
<1>1. ASSUME Opens(t, k) # {}
      PROVE  First(t, k) \in Opens(t, k) /\ First(t, k) \in k..(Len(t) - 2)
             /\ \A i \in Opens(t, k) : First(t, k) <= i
  <2> DEFINE O == Opens(t, k)
  <2>1. O \in SUBSET Nat /\ O # {} /\ \A i \in O : i \in k..(Len(t) - 2)
    BY <1>1, OpensAre
  <2> HIDE DEF O
  <2>2. Min(O) \in O /\ \A i \in O : Min(O) <= i
    BY <2>1, MinIs
  <2> QED
    BY <2>1, <2>2 DEF First, O
<1>2. ASSUME Opens(t, k) # {}, t[First(t, k) + 2] = "/" PROVE GoesOnAt(t, k) \in (k + 1)..Len(t)
  <2> DEFINE f == First(t, k)
             E == LineEnds(t, f)
  <2>1. f \in k..(Len(t) - 2) /\ E # {}
    BY <1>1, <1>2, OpensAre
  <2>2. E \in SUBSET Nat /\ \A e \in E : e \in (f + 1)..Len(t)
    BY <2>1 DEF LineEnds
  <2> HIDE DEF E
  <2>3. Min(E) \in E
    BY <2>1, <2>2, MinIs
  <2>4. GoesOnAt(t, k) = Min(E)
    BY <1>2 DEF GoesOnAt, E
  <2> DEFINE e == Min(E)
  <2>5. e \in (f + 1)..Len(t)
    BY <2>2, <2>3
  <2> HIDE DEF f, e
  <2>6. e \in (k + 1)..Len(t)
    BY <2>1, <2>5
  <2> QED
    BY <2>4, <2>6 DEF e
<1>3. ASSUME Opens(t, k) # {}, t[First(t, k) + 2] # "/", Closers(t, k) # {}
      PROVE  GoesOnAt(t, k) \in (k + 1)..Len(t)
  <2> DEFINE f == First(t, k)
             E == Closers(t, k)
  <2>1. f \in k..(Len(t) - 2)
    BY <1>1, <1>3
  <2>2. E \in SUBSET Nat /\ \A e \in E : e \in (f + 2)..(Len(t) - 2)
    BY <2>1 DEF Places, Closers
  <2>3. GoesOnAt(t, k) = Min(E) + 2
    BY <1>3 DEF GoesOnAt
  <2> HIDE DEF E, f
  <2>4. Min(E) \in E
    BY <1>3, <2>2, MinIs DEF E
  <2> DEFINE e == Min(E)
  <2>5. e \in (f + 2)..(Len(t) - 2)
    BY <2>2, <2>4
  <2> HIDE DEF e
  <2>6. e + 2 \in (k + 1)..Len(t)
    BY <2>1, <2>5
  <2> QED
    BY <2>3, <2>6 DEF e
<1>4. \A e \in k..Len(t) : SubSeq(t, k + 1, e) \in Seq(Symbol)
  <2> TAKE e \in k..Len(t)
  <2> DEFINE j == k + 1
  <2>1. j \in Nat /\ j >= 1 /\ e \in 0..Len(t)
    OBVIOUS
  <2> HIDE DEF j
  <2>2. SubSeq(t, j, e) \in Seq(Symbol)
    BY <2>1
  <2> QED
    BY <2>2 DEF j
<1>5. Opens(t, k) # {} => SubSeq(t, k + 1, First(t, k)) \in Seq(Symbol)
  BY <1>1, <1>4
<1>6. CodeBase(t, k) \in Seq(Symbol)
  BY <1>4, <1>5 DEF CodeBase
<1> QED
  BY <1>1, <1>2, <1>3, <1>5, <1>6 DEF Unclosed

LEMMA CodeEquation ==
  ASSUME NEW t \in Seq(Symbol)
  PROVE  /\ \A k \in 0..Len(t) :
              CodeFrom(t)[k] = IF Opens(t, k) = {} \/ Unclosed(t, k) THEN CodeBase(t, k)
                               ELSE SubSeq(t, k + 1, First(t, k)) \o CodeFrom(t)[GoesOnAt(t, k)]
         /\ \A k \in 0..Len(t) : CodeFrom(t)[k] \in Seq(Symbol)
<1> DEFINE n == Len(t)
           last == {k \in 0..n : Opens(t, k) = {} \/ Unclosed(t, k)}
           next == [k \in 0..n |-> GoesOnAt(t, k)]
           prefix == [k \in 0..n |-> SubSeq(t, k + 1, First(t, k))]
           base == [k \in 0..n |-> CodeBase(t, k)]
           K == CodeFrom(t)
<1>1. n \in Nat
  OBVIOUS
<1>2. \A k \in 0..n : k \notin last => next[k] \in (k + 1)..n /\ prefix[k] \in Seq(Symbol)
  <2> TAKE k \in 0..n
  <2>1. next[k] = GoesOnAt(t, k) /\ prefix[k] = SubSeq(t, k + 1, First(t, k))
    OBVIOUS
  <2> HIDE DEF next, prefix
  <2> QED
    BY <2>1, OpenersGoOn
<1>3. \A k \in 0..n : k \in last => base[k] \in Seq(Symbol)
  BY OpenersGoOn
<1>4. \A f : IsCodeFrom(t, f) <=> FromAbove(n, last, base, prefix, next, f)
  <2> TAKE f
  <2>1. \A k \in 0..n :
          (IF Opens(t, k) = {} \/ Unclosed(t, k) THEN CodeBase(t, k)
           ELSE SubSeq(t, k + 1, First(t, k)) \o f[GoesOnAt(t, k)])
          = (IF k \in last THEN base[k] ELSE prefix[k] \o f[next[k]])
    OBVIOUS
  <2> HIDE DEF base, prefix, next, last
  <2>2. [k \in 0..n |-> IF Opens(t, k) = {} \/ Unclosed(t, k) THEN CodeBase(t, k)
                        ELSE SubSeq(t, k + 1, First(t, k)) \o f[GoesOnAt(t, k)]]
        = [k \in 0..n |-> IF k \in last THEN base[k] ELSE prefix[k] \o f[next[k]]]
    BY <2>1
  <2> QED
    BY <2>2, Zenon DEF IsCodeFrom, FromAbove
<1> HIDE DEF next, prefix, base, last
<1>5. \E f : FromAbove(n, last, base, prefix, next, f)
  <2>1. \A k \in 0..n : k \notin last => next[k] \in (k + 1)..n
    BY <1>2
  <2> HIDE DEF n
  <2> QED
    BY <1>1, <2>1, RecursionFromAbove
<1>6. IsCodeFrom(t, K)
  BY <1>4, <1>5, CodeIsChosen, Zenon
<1>7. \A k \in 0..n : K[k] = IF Opens(t, k) = {} \/ Unclosed(t, k) THEN CodeBase(t, k)
                             ELSE SubSeq(t, k + 1, First(t, k)) \o K[GoesOnAt(t, k)]
  <2> HIDE DEF K
  <2> QED
    BY <1>6 DEF IsCodeFrom
<1>8. \A k \in 0..n : K[k] \in Seq(Symbol)
  <2>1. FromAbove(n, last, base, prefix, next, K)
    BY <1>4, <1>6, Zenon
  <2> HIDE DEF n, K
  <2> QED
    BY <1>1, <1>2, <1>3, <2>1, FromAboveIsTyped
<1> QED
  BY <1>7, <1>8

-----------------------------------------------------------------------------
\* What is left behind k of a text, when it does begin in a comment.
AfterClose(t, k) ==
  IF Places(t, k, "*", "/") = {} THEN <<>> ELSE CodeFrom(t)[Min(Places(t, k, "*", "/")) + 2]

LEMMA NothingBehind ==
  ASSUME NEW t \in Seq(Symbol)
  PROVE  CodeFrom(t)[Len(t)] = <<>> /\ AfterClose(t, Len(t)) = <<>>
<1>1. Len(t) \in 0..Len(t)
  OBVIOUS
<1>2. Opens(t, Len(t)) = {}
  BY OpensAre, <1>1
<1>3. CodeBase(t, Len(t)) = <<>>
  BY <1>1, <1>2, NoSymbols DEF CodeBase
<1>4. Places(t, Len(t), "*", "/") = {}
  BY DEF Places
<1> QED
  BY <1>1, <1>2, <1>3, <1>4, CodeEquation DEF AfterClose

\* A symbol that no comment opens at.
LEMMA CodeGoesOn ==
  ASSUME NEW t \in Seq(Symbol), NEW k \in 0..(Len(t) - 1), k \notin Opens(t, k)
  PROVE  CodeFrom(t)[k] = <<t[k + 1]>> \o CodeFrom(t)[k + 1]
<1> DEFINE j == k + 1
           f == First(t, k)
<1>1. k \in 0..Len(t) /\ j \in 0..Len(t) /\ j \in 1..Len(t) /\ k < Len(t)
  OBVIOUS
<1>2. Opens(t, k) = Opens(t, j)
  BY <1>1, OpensAre
<1>3. First(t, j) = f /\ Unclosed(t, j) = Unclosed(t, k) /\ GoesOnAt(t, j) = GoesOnAt(t, k)
  BY <1>2 DEF First, Unclosed, Closers, GoesOnAt
<1>4. \A e \in j..Len(t) : /\ SubSeq(t, j, e) = <<t[j]>> \o SubSeq(t, j + 1, e)
                           /\ SubSeq(t, j, e) \in Seq(Symbol) /\ SubSeq(t, j + 1, e) \in Seq(Symbol)
  BY <1>1, FirstSymbol
<1>5. Opens(t, k) # {} => f \in j..Len(t)
  <2>1. Opens(t, k) # {} => f \in Opens(t, j) /\ f \in j..(Len(t) - 2)
    BY <1>1, <1>2, <1>3, OpenersGoOn
  <2> QED
    BY <2>1
<1>6. Len(t) \in j..Len(t) /\ t[j] \in Symbol
  BY <1>1
<1>7. CodeBase(t, k) = <<t[j]>> \o CodeBase(t, j)
  <2>1. CASE Opens(t, k) = {}
    BY <1>2, <1>4, <1>6, <2>1 DEF CodeBase
  <2>2. CASE Opens(t, k) # {}
    BY <1>2, <1>3, <1>4, <1>5, <2>2 DEF CodeBase
  <2> QED
    BY <2>1, <2>2
<1>8. /\ CodeFrom(t)[k] = IF Opens(t, k) = {} \/ Unclosed(t, k) THEN CodeBase(t, k)
                          ELSE SubSeq(t, j, f) \o CodeFrom(t)[GoesOnAt(t, k)]
      /\ CodeFrom(t)[j] = IF Opens(t, j) = {} \/ Unclosed(t, j) THEN CodeBase(t, j)
                          ELSE SubSeq(t, j + 1, First(t, j)) \o CodeFrom(t)[GoesOnAt(t, j)]
  BY <1>1, CodeEquation
<1>9. CASE Opens(t, k) = {} \/ Unclosed(t, k)
  BY <1>2, <1>3, <1>7, <1>8, <1>9
<1>10. CASE ~(Opens(t, k) = {} \/ Unclosed(t, k))
  <2> DEFINE g == CodeFrom(t)[GoesOnAt(t, k)]
             r == SubSeq(t, j + 1, f)
  <2>1. GoesOnAt(t, k) \in (k + 1)..Len(t)
    BY <1>1, <1>10, OpenersGoOn
  <2>2. g \in Seq(Symbol)
    BY <1>1, <2>1, CodeEquation
  <2>3. f \in j..Len(t) /\ SubSeq(t, j, f) = <<t[j]>> \o r /\ r \in Seq(Symbol)
    BY <1>4, <1>5, <1>10
  <2>4. CodeFrom(t)[k] = (<<t[j]>> \o r) \o g /\ CodeFrom(t)[j] = r \o g
    BY <1>2, <1>3, <1>8, <1>10, <2>3
  <2> HIDE DEF g, r
  <2>5. <<t[j]>> \in Seq(Symbol)
    BY <1>6
  <2>6. (<<t[j]>> \o r) \o g = <<t[j]>> \o (r \o g)
    BY <2>2, <2>3, <2>5, ConcatAssociative
  <2> QED
    BY <2>4, <2>6
<1> QED
  BY <1>9, <1>10

\* A comment opens.
LEMMA OpensFirst ==
  ASSUME NEW t \in Seq(Symbol), NEW k \in 0..Len(t), k \in Opens(t, k)
  PROVE  First(t, k) = k /\ Opens(t, k) # {} /\ SubSeq(t, k + 1, First(t, k)) = <<>>
<1>1. Opens(t, k) \in SUBSET Nat /\ \A i \in Opens(t, k) : k <= i
  BY OpensAre
<1>2. First(t, k) = k
  BY <1>1, MinIsOnly DEF First
<1> QED
  BY <1>2, NoSymbols

LEMMA BlockOpens ==
  ASSUME NEW t \in Seq(Symbol), NEW k \in 0..Len(t), k \in Places(t, k, "/", "*")
  PROVE  CodeFrom(t)[k] = AfterClose(t, k + 2)
<1>1. k \in Opens(t, k) /\ t[k + 2] # "/"
  BY DEF Opens, Places
<1>2. First(t, k) = k /\ Opens(t, k) # {} /\ SubSeq(t, k + 1, First(t, k)) = <<>>
  BY <1>1, OpensFirst
<1>3. Closers(t, k) = Places(t, k + 2, "*", "/")
  BY <1>2 DEF Closers
<1>4. CASE Closers(t, k) = {}
  <2>1. Unclosed(t, k) /\ CodeBase(t, k) = <<>>
    BY <1>1, <1>2, <1>4 DEF Unclosed, CodeBase
  <2> QED
    BY <1>3, <1>4, <2>1, CodeEquation DEF AfterClose
<1>5. CASE Closers(t, k) # {}
  <2> DEFINE g == GoesOnAt(t, k)
  <2>1. ~Unclosed(t, k) /\ g = Min(Places(t, k + 2, "*", "/")) + 2
    BY <1>1, <1>2, <1>3, <1>5 DEF Unclosed, GoesOnAt
  <2>2. CodeFrom(t)[k] = <<>> \o CodeFrom(t)[g]
    BY <1>2, <2>1, CodeEquation
  <2>3. g \in (k + 1)..Len(t)
    BY <1>2, <2>1, OpenersGoOn
  <2>4. CodeFrom(t)[g] \in Seq(Symbol)
    BY <2>3, CodeEquation
  <2>5. <<>> \o CodeFrom(t)[g] = CodeFrom(t)[g]
    BY <2>4
  <2> QED
    BY <1>3, <1>5, <2>1, <2>2, <2>5 DEF AfterClose
<1> QED
  BY <1>4, <1>5

LEMMA LineOpens ==
  ASSUME NEW t \in Seq(Symbol), NEW k \in 0..Len(t), k \in Places(t, k, "/", "/"),
         LineEnds(t, k) # {}
  PROVE  CodeFrom(t)[k] = CodeFrom(t)[Min(LineEnds(t, k))]
<1>1. k \in Opens(t, k) /\ t[k + 2] = "/"
  BY DEF Opens, Places
<1>2. First(t, k) = k /\ Opens(t, k) # {} /\ SubSeq(t, k + 1, First(t, k)) = <<>>
  BY <1>1, OpensFirst
<1> DEFINE g == GoesOnAt(t, k)
<1>3. ~Unclosed(t, k) /\ g = Min(LineEnds(t, k))
  BY <1>1, <1>2 DEF Unclosed, GoesOnAt
<1>4. CodeFrom(t)[k] = <<>> \o CodeFrom(t)[g]
  BY <1>2, <1>3, CodeEquation
<1>5. g \in (k + 1)..Len(t)
  BY <1>2, <1>3, OpenersGoOn
<1>6. CodeFrom(t)[g] \in Seq(Symbol)
  BY <1>5, CodeEquation
<1>7. <<>> \o CodeFrom(t)[g] = CodeFrom(t)[g]
  BY <1>6
<1> QED
  BY <1>3, <1>4, <1>7

\* A comment closes, or goes on.
LEMMA CommentCloses ==
  ASSUME NEW t \in Seq(Symbol), NEW k \in 0..Len(t), k \in Places(t, k, "*", "/")
  PROVE  AfterClose(t, k) = CodeFrom(t)[k + 2]
<1>1. Min(Places(t, k, "*", "/")) = k
  BY PlacesAreInside, MinIsOnly
<1> QED
  BY <1>1 DEF AfterClose

LEMMA CommentGoesOn ==
  ASSUME NEW t \in Seq(Symbol), NEW k \in 0..Len(t), NEW m \in k..Len(t),
         \A i \in k..(m - 1) : i \notin Places(t, i, "*", "/")
  PROVE  AfterClose(t, k) = AfterClose(t, m)
BY PlacesBehind DEF AfterClose

-----------------------------------------------------------------------------
\* How far Until reaches, and what two symbols are ahead.
LEMMA UntilIs ==
  ASSUME text \in Seq(Symbol), at \in 0..Len(text), NEW c
  PROVE  /\ Until(c) \in Nat /\ at + Until(c) <= Len(text)
         /\ \A i \in at..(at + Until(c) - 1) : text[i + 1] # c
         /\ at + Until(c) < Len(text) => text[at + Until(c) + 1] = c
<1> DEFINE class == {text[i] : i \in 1..Len(text)} \ {c}
           Takes(n) == Peek(0 + n) \in class \ {""}
           StopsAt(n) == (\A i \in 0..(n - 1) : Takes(i)) /\ ~Takes(n)
           u == Until(c)
<1>1. Len(text) \in Nat /\ at \in Nat /\ at <= Len(text)
  OBVIOUS
<1>2. ~Takes(Len(text))
  <2>1. ~(at + (0 + Len(text)) < Len(text))
    BY <1>1
  <2>2. Peek(0 + Len(text)) = ""
    BY <2>1, Zenon DEF Peek
  <2> QED
    BY <2>2, Zenon
<1>3. u = CHOOSE n \in 0..Len(text) : StopsAt(n)
  BY Zenon DEF Until, Span, SpanAt
<1> HIDE DEF Takes, u
<1>4. \E n \in 0..Len(text) : StopsAt(n)
  <2> DEFINE Ns == {n \in 0..Len(text) : ~Takes(n)}
  <2>1. Ns \in SUBSET Nat /\ Len(text) \in Ns
    BY <1>1, <1>2
  <2> HIDE DEF Ns
  <2>2. PICK n \in Ns : \A m \in Ns : n <= m
    BY <2>1, LeastNatural
  <2>3. n \in 0..Len(text) /\ ~Takes(n)
    BY <2>2 DEF Ns
  <2>4. ASSUME NEW i \in 0..(n - 1) PROVE Takes(i)
    <3>1. i \in 0..Len(text) /\ ~(n <= i)
      BY <1>1, <2>3
    <3> QED
      BY <2>2, <3>1 DEF Ns
  <2> QED
    BY <2>3, <2>4
<1>9. u \in 0..Len(text) /\ StopsAt(u)
  <2> HIDE DEF StopsAt
  <2> QED
    BY <1>3, <1>4, Zenon
<1>10. u \in 0..Len(text) /\ u \in Nat
  BY <1>9
<1>5. \A i \in 0..(u - 1) : at + i < Len(text) /\ text[at + i + 1] # c
  <2> TAKE i \in 0..(u - 1)
  <2>1. Peek(0 + i) # "" /\ Peek(0 + i) # c
    BY <1>9 DEF Takes
  <2>2. 0 + i = i /\ i \in Nat
    BY <1>10
  <2> QED
    BY <2>1, <2>2 DEF Peek
<1>6. at + u <= Len(text)
  <2>1. u # 0 => u - 1 \in 0..(u - 1) /\ at + (u - 1) < Len(text)
    <3> SUFFICES ASSUME u # 0 PROVE u - 1 \in 0..(u - 1) /\ at + (u - 1) < Len(text)
      OBVIOUS
    <3>1. u - 1 \in 0..(u - 1)
      BY <1>10
    <3> QED
      BY <1>5, <3>1
  <2> QED
    BY <1>1, <1>10, <2>1
<1>7. ASSUME at + u < Len(text) PROVE text[at + u + 1] = c
  <2>1. Peek(0 + u) = text[at + u + 1]
    <3>1. 0 + u = u
      BY <1>10
    <3> QED
      BY <1>7, <3>1 DEF Peek
  <2>2. at + u + 1 \in 1..Len(text) /\ text[at + u + 1] \in Symbol
    BY <1>1, <1>7, <1>10
  <2> QED
    BY <1>9, <2>1, <2>2 DEF Symbol, Takes
<1>8. \A i \in at..(at + u - 1) : text[i + 1] # c
  <2> TAKE i \in at..(at + u - 1)
  <2>1. i - at \in 0..(u - 1) /\ at + (i - at) = i
    BY <1>1, <1>10
  <2> QED
    BY <1>5, <2>1
<1> QED
  BY <1>6, <1>7, <1>8, <1>10 DEF u

LEMMA AheadIsPlace ==
  ASSUME text \in Seq(Symbol), at \in 0..Len(text), NEW a, NEW b
  PROVE  Ahead(<<a, b>>) <=> at \in Places(text, at, a, b)
<1>1. Ahead(<<a, b>>) <=> at + 2 <= Len(text) /\ SubSeq(text, at + 1, at + 2) = <<a, b>>
  BY DEF Ahead, Following
<1>2. ASSUME at + 2 <= Len(text)
      PROVE  SubSeq(text, at + 1, at + 2) = <<a, b>> <=> text[at + 1] = a /\ text[at + 2] = b
  <2> DEFINE s == SubSeq(text, at + 1, at + 2)
             j == at + 1
  <2>1. j \in 1..Len(text) /\ j + 1 \in 1..Len(text) /\ at + 2 = j + 1
    BY <1>2
  <2> HIDE DEF j
  <2>2. /\ SubSeq(text, j, j + 1) \in Seq(Symbol) /\ Len(SubSeq(text, j, j + 1)) = 2
        /\ SubSeq(text, j, j + 1)[1] = text[j] /\ SubSeq(text, j, j + 1)[2] = text[j + 1]
    BY <2>1
  <2>3. s \in Seq(Symbol) /\ Len(s) = 2 /\ s[1] = text[at + 1] /\ s[2] = text[at + 2]
    BY <2>1, <2>2 DEF j
  <2> HIDE DEF s
  <2>4. s = <<a, b>> => s[1] = a /\ s[2] = b
    OBVIOUS
  <2>5. s = <<s[1], s[2]>>
    BY <2>3
  <2>6. s = <<a, b>> <=> text[at + 1] = a /\ text[at + 2] = b
    BY <2>3, <2>4, <2>5, Zenon
  <2> QED
    BY <2>6 DEF s
<1>3. at \in Places(text, at, a, b) <=> at + 2 <= Len(text) /\ text[at + 1] = a /\ text[at + 2] = b
  BY DEF Places
<1> QED
  BY <1>1, <1>2, <1>3

-----------------------------------------------------------------------------
Plain(code) == [k \in 1..Len(code) |-> Echoed(code[k])]

\* What was echoed, and what the text behind it will add, is the text's code.
StripInv ==
  program = "strip" =>
    /\ text \in Seq(Symbol)
    /\ at \in 0..Len(text)
    /\ start \in {"INITIAL", "COMMENT"}
    /\ scanner = "ended" => at = Len(text)
    /\ \E code \in Seq(Symbol) :
         /\ out = Plain(code)
         /\ CodeFrom(text)[0] =
              code \o (IF start = "INITIAL" THEN CodeFrom(text)[at] ELSE AfterClose(text, at))

\* A rule that prints nothing, and leaves as much behind.
LEMMA DropStep ==
  ASSUME StripInv, program = "strip", NEW n \in Nat, Take(n), at + n <= Len(text), out' = out,
         scanner = "runs", start' \in {"INITIAL", "COMMENT"},
         (IF start = "INITIAL" THEN CodeFrom(text)[at] ELSE AfterClose(text, at))
         = (IF start' = "INITIAL" THEN CodeFrom(text)[at + n] ELSE AfterClose(text, at + n))
  PROVE  StripInv'
<1>1. /\ at' = at + n /\ UNCHANGED <<program, text, scanner, out>> /\ at \in 0..Len(text)
      /\ text \in Seq(Symbol)
  BY DEF Take, StripInv
<1>2. at' \in 0..Len(text)
  BY <1>1
<1>3. PICK code \in Seq(Symbol) :
        /\ out = Plain(code)
        /\ CodeFrom(text)[0] =
              code \o (IF start = "INITIAL" THEN CodeFrom(text)[at] ELSE AfterClose(text, at))
  BY DEF StripInv
<1>4. AfterClose(text, at)' = AfterClose(text, at + n) /\ CodeFrom(text)' = CodeFrom(text)
  BY <1>1
<1>5. CodeFrom(text')[0] =
         code \o (IF start' = "INITIAL" THEN CodeFrom(text')[at'] ELSE AfterClose(text', at'))
  BY <1>1, <1>3, <1>4
<1> QED
  BY <1>1, <1>2, <1>3, <1>5 DEF StripInv

LEMMA StripStep == StripInv /\ [TextNext]_<<scanned, results>> => StripInv'
<1> SUFFICES ASSUME StripInv, [TextNext]_<<scanned, results>>, program = "strip" PROVE StripInv'
  BY DEF StripInv, TextNext, scanned, OpenComment, DropLine, EchoCode, CloseComment, DropComment,
     NewKey, Number, EndLine, EchoOther, Leading, Skip, Return, Ends, Take, Echo, Runs
<1>1. text \in Seq(Symbol) /\ at \in 0..Len(text) /\ Len(text) \in Nat /\ at \in Nat
  BY DEF StripInv
<1>2. CASE OpenComment
  <2>1. scanner = "runs" /\ start = "INITIAL" /\ Take(2) /\ start' = "COMMENT" /\ out' = out
    BY <1>2 DEF OpenComment, Runs
  <2>2. at \in Places(text, at, "/", "*")
    BY <1>1, <1>2, AheadIsPlace DEF OpenComment
  <2>3. CodeFrom(text)[at] = AfterClose(text, at + 2) /\ at + 2 <= Len(text)
    BY <1>1, <2>2, BlockOpens, PlacesAreInside
  <2> QED
    BY <2>1, <2>3, DropStep
<1>3. CASE DropLine
  <2> DEFINE u == Until(Newline)
  <2>1. scanner = "runs" /\ start = "INITIAL" /\ Take(u + 1) /\ start' = start /\ out' = out
    BY <1>3 DEF DropLine, Runs
  <2>2. at \in Places(text, at, "/", "/") /\ at + u < Len(text)
    BY <1>1, <1>3, AheadIsPlace DEF DropLine, LineComment
  <2>3. /\ u \in Nat /\ at + u + 1 <= Len(text) /\ text[at + u + 1] = Newline
        /\ \A i \in at..(at + u - 1) : text[i + 1] # Newline
    BY <1>1, <2>2, UntilIs
  <2> HIDE DEF u
  <2> DEFINE e == at + u + 1
             E == LineEnds(text, at)
  <2>4. e \in E /\ E \in SUBSET Nat
    BY <1>1, <2>3 DEF LineEnds
  <2>5. \A y \in E : e <= y
    <3> TAKE y \in E
    <3>1. y \in (at + 1)..Len(text) /\ text[y] = Newline
      BY DEF LineEnds
    <3>2. y - 1 \notin at..(at + u - 1)
      BY <1>1, <2>3, <3>1
    <3> QED
      BY <1>1, <2>3, <3>1, <3>2
  <2>6. Min(E) = e /\ E # {}
    <3> HIDE DEF E, e
    <3> QED
      BY <2>4, <2>5, MinIsOnly
  <2>7. CodeFrom(text)[at] = CodeFrom(text)[e]
    BY <1>1, <2>2, <2>6, LineOpens
  <2>8. at + (u + 1) = e /\ u + 1 \in Nat /\ at + (u + 1) <= Len(text)
    BY <1>1, <2>3
  <2> HIDE DEF e
  <2> QED
    BY <2>1, <2>7, <2>8, DropStep
<1>4. CASE EchoCode
  <2> DEFINE c == text[at + 1]
  <2>1. /\ scanner = "runs" /\ start = "INITIAL" /\ at' = at + 1 /\ start' = start /\ at < Len(text)
        /\ UNCHANGED <<program, text, scanner>> /\ out' = Append(out, Echoed(Head1))
    BY <1>4 DEF EchoCode, Runs, More, Echo, Take
  <2>2. Head1 = c
    <3>1. at + 0 = at
      BY <1>1
    <3> QED
      BY <2>1, <3>1 DEF Head1, Peek
  <2>3. at \notin Places(text, at, "/", "*")
    BY <1>1, <1>4, AheadIsPlace DEF EchoCode
  <2>4. at \notin Opens(text, at)
    <3>1. ASSUME at \in Places(text, at, "/", "/") PROVE LineEnds(text, at) = {}
      <4>1. ~(at + Until(Newline) < Len(text))
        BY <1>1, <1>4, <3>1, AheadIsPlace DEF EchoCode, LineComment
      <4>2. /\ Until(Newline) \in Nat /\ at + Until(Newline) <= Len(text)
            /\ \A i \in at..(at + Until(Newline) - 1) : text[i + 1] # Newline
        BY <1>1, UntilIs
      <4> DEFINE u == Until(Newline)
      <4>3. u \in Nat /\ at + u = Len(text) /\ \A i \in at..(at + u - 1) : text[i + 1] # Newline
        BY <1>1, <4>1, <4>2
      <4> HIDE DEF u
      <4>4. \A y \in (at + 1)..Len(text) : y - 1 \in at..(at + u - 1) /\ y - 1 + 1 = y
        BY <1>1, <4>3
      <4> QED
        BY <4>3, <4>4 DEF LineEnds
    <3> QED
      BY <2>3, <3>1 DEF Opens
  <2>5. at \in 0..(Len(text) - 1) /\ at' \in 0..Len(text) /\ c \in Symbol
    BY <1>1, <2>1
  <2>6. CodeFrom(text)[at] = <<c>> \o CodeFrom(text)[at']
    BY <1>1, <2>1, <2>4, <2>5, CodeGoesOn
  <2>7. PICK code \in Seq(Symbol) : out = Plain(code) /\ CodeFrom(text)[0] = code \o CodeFrom(text)[at]
    BY <2>1 DEF StripInv
  <2> DEFINE new == Append(code, c)
             r == CodeFrom(text)[at']
  <2>8. r \in Seq(Symbol)
    BY <1>1, <2>5, CodeEquation
  <2> HIDE DEF c, r
  <2>9. /\ new \in Seq(Symbol) /\ Len(new) = Len(code) + 1 /\ Len(code) \in Nat
        /\ (\A i \in 1..Len(code) : new[i] = code[i]) /\ new[Len(code) + 1] = c /\ code \o <<c>> = new
    BY <2>5, <2>7, OneMore
  <2>10. CodeFrom(text)[0] = new \o r
    <3>1. <<c>> \in Seq(Symbol)
      BY <2>5
    <3>2. code \o (<<c>> \o r) = (code \o <<c>>) \o r
      BY <2>8, <3>1, ConcatAssociative
    <3> QED
      BY <2>6, <2>7, <2>9, <3>2 DEF r
  <2>11. out' = Plain(new)
    <3> DEFINE p == Plain(code)
               S == {Echoed(x) : x \in Symbol}
    <3> HIDE DEF new
    <3>1. p \in Seq(S) /\ Len(p) = Len(code) /\ \A i \in 1..Len(code) : p[i] = Echoed(code[i])
      BY <2>9 DEF Plain
    <3>2. Plain(new) \in Seq(S) /\ Len(Plain(new)) = Len(code) + 1
          /\ \A i \in 1..(Len(code) + 1) : Plain(new)[i] = Echoed(new[i])
      BY <2>9 DEF Plain
    <3>3. out' = Append(p, Echoed(c)) /\ Echoed(c) \in S
      BY <2>1, <2>2, <2>5, <2>7
    <3> HIDE DEF p, S
    <3>4. /\ Append(p, Echoed(c)) \in Seq(S) /\ Len(Append(p, Echoed(c))) = Len(code) + 1
          /\ \A i \in 1..Len(code) : Append(p, Echoed(c))[i] = p[i]
          /\ Append(p, Echoed(c))[Len(code) + 1] = Echoed(c)
      BY <2>9, <3>1, <3>3
    <3>5. \A i \in 1..(Len(code) + 1) : Append(p, Echoed(c))[i] = Plain(new)[i]
      <4> TAKE i \in 1..(Len(code) + 1)
      <4>1. CASE i = Len(code) + 1
        BY <2>9, <3>2, <3>4, <4>1
      <4>2. CASE i \in 1..Len(code)
        BY <2>9, <3>1, <3>2, <3>4, <4>2
      <4>3. Len(code) \in Nat
        BY <2>9
      <4>4. i = Len(code) + 1 \/ i \in 1..Len(code)
        BY <4>3
      <4> QED
        BY <4>1, <4>2, <4>4
    <3> QED
      BY <2>9, <3>2, <3>3, <3>4, <3>5, SeqEqual
  <2> HIDE DEF new
  <2> QED
    BY <1>1, <2>1, <2>5, <2>9, <2>10, <2>11 DEF StripInv, r
<1>5. CASE CloseComment
  <2>1. scanner = "runs" /\ start = "COMMENT" /\ Take(2) /\ start' = "INITIAL" /\ out' = out
    BY <1>5 DEF CloseComment, Runs
  <2>2. at \in Places(text, at, "*", "/")
    BY <1>1, <1>5, AheadIsPlace DEF CloseComment
  <2>3. AfterClose(text, at) = CodeFrom(text)[at + 2] /\ at + 2 <= Len(text)
    BY <1>1, <2>2, CommentCloses, PlacesAreInside
  <2> QED
    BY <2>1, <2>3, DropStep
<1>6. CASE DropComment
  <2> DEFINE n == IF Head1 = "*" THEN 1 ELSE Until("*")
  <2>1. scanner = "runs" /\ start = "COMMENT" /\ Take(n) /\ start' = start /\ out' = out /\ at < Len(text)
    BY <1>6 DEF DropComment, Runs, More
  <2>2. at \notin Places(text, at, "*", "/")
    BY <1>1, <1>6, AheadIsPlace DEF DropComment
  <2>3. /\ n \in Nat /\ at + n <= Len(text)
        /\ \A i \in at..(at + n - 1) : i = at \/ text[i + 1] # "*"
    <3>1. CASE Head1 = "*"
      BY <1>1, <2>1, <3>1
    <3>2. CASE Head1 # "*"
      <4>1. n = Until("*")
        BY <3>2
      <4>2. /\ Until("*") \in Nat /\ at + Until("*") <= Len(text)
            /\ \A i \in at..(at + Until("*") - 1) : text[i + 1] # "*"
        BY <1>1, UntilIs
      <4> QED
        BY <4>1, <4>2
    <3> QED
      BY <3>1, <3>2
  <2> HIDE DEF n
  <2>4. \A i \in at..(at + n - 1) : i \notin Places(text, i, "*", "/")
    BY <1>1, <2>2, <2>3 DEF Places
  <2>5. at + n \in at..Len(text)
    BY <1>1, <2>3
  <2>6. AfterClose(text, at) = AfterClose(text, at + n)
    <3>1. PICK m \in at..Len(text) : m = at + n
      BY <2>5, Zenon
    <3>2. \A i \in at..(m - 1) : i \notin Places(text, i, "*", "/")
      BY <1>1, <2>3, <2>4, <3>1
    <3>3. AfterClose(text, at) = AfterClose(text, m)
      BY <1>1, <3>1, <3>2, CommentGoesOn
    <3> QED
      BY <3>1, <3>3
  <2> QED
    BY <2>1, <2>3, <2>6, DropStep
<1>7. CASE Return
  <2>1. UNCHANGED <<program, text, at, start>> /\ out' = out \o <<>> /\ at = Len(text)
    BY <1>1, <1>7 DEF Return, Ends, Runs, More, Result
  <2>2. out \in Seq({Echoed(x) : x \in Symbol})
    BY DEF StripInv, Plain
  <2>3. out' = out
    BY <2>1, <2>2
  <2> QED
    BY <1>1, <2>1, <2>3 DEF StripInv
<1>8. CASE UNCHANGED <<scanned, results>>
  BY <1>8 DEF scanned, StripInv
<1>9. ~(NewKey \/ Number \/ EndLine \/ EchoOther \/ Leading \/ Skip)
  BY DEF NewKey, Number, EndLine, EchoOther, Leading, Skip, Runs
<1> QED
  BY <1>2, <1>3, <1>4, <1>5, <1>6, <1>7, <1>8, <1>9 DEF TextNext

\* For texts of any length: strip_c_comments prints the text without its comments.
THEOREM CommentsGo == TextSpec => []CommentsAreStripped
<1>1. TextInit => StripInv
  <2> SUFFICES ASSUME TextInit, program = "strip" PROVE StripInv
    BY DEF StripInv
  <2>1. /\ text \in Seq(Symbol) /\ at = 0 /\ start = "INITIAL" /\ out = <<>> /\ scanner = "runs"
    BY InputAssumption DEF TextInit, ScannerInit
  <2>2. CodeFrom(text)[0] \in Seq(Symbol) /\ 0 \in 0..Len(text)
    BY <2>1, CodeEquation
  <2>3. <<>> \in Seq(Symbol) /\ Plain(<<>>) = <<>>
    BY DEF Plain
  <2>4. <<>> \o CodeFrom(text)[0] = CodeFrom(text)[0]
    BY <2>2
  <2> QED
    BY <2>1, <2>2, <2>3, <2>4 DEF StripInv
<1>2. StripInv => CommentsAreStripped
  <2> SUFFICES ASSUME StripInv, program = "strip", scanner = "ended"
               PROVE  out = Plain(CodeFrom(text)[0])
    BY DEF CommentsAreStripped, Plain
  <2>1. PICK code \in Seq(Symbol) :
         /\ out = Plain(code)
         /\ CodeFrom(text)[0] =
              code \o (IF start = "INITIAL" THEN CodeFrom(text)[at] ELSE AfterClose(text, at))
    BY DEF StripInv
  <2>2. text \in Seq(Symbol) /\ at = Len(text)
    BY DEF StripInv
  <2>3. CodeFrom(text)[0] = code \o <<>>
    BY <2>1, <2>2, NothingBehind
  <2>4. CodeFrom(text)[0] = code
    BY <2>3
  <2> QED
    BY <2>1, <2>4
<1> QED
  BY <1>1, <1>2, StripStep, PTL DEF TextSpec

-----------------------------------------------------------------------------
(* PdfMoves: where the file is, for names of any length and any number of    *)
(* reports, and which names let a command overflow.                          *)

PdfTypeOK ==
  /\ job \in Started
  /\ read \in 0..Len(job.input)
  /\ cuts \in Nat
  /\ rsync \in {"none", "started", "copied", "ended"}
  /\ IsFiniteSet(places)

\* Where the file is while rsync runs, which is while its caller waits for it.
MovesOnce ==
  /\ places # {}
  /\ places \subseteq Asked \cup {Home}
  /\ rsync \in {"started", "copied"} => pc = "pclose" /\ moving \in Asked
  /\ rsync = "copied" => Home \in places /\ moving \in places
  /\ Cardinality(places) <= (IF rsync = "copied" THEN 2 ELSE 1) + cuts

\* What the length of the name says about the commands built so far: the filter
\* is the only one that builds a second one.
NameFits ==
  /\ job.program = "filter" /\ Asked # {} /\ pc # "overflow" => job.name <= 58
  /\ pc = "main" => read = 0
  /\ pc \in {"main", "scan"} /\ job.program = "sorter" => places = {Home}
  /\ pc = "overflow" /\ places # {Home} => job.name = 58

PdfInv == PdfTypeOK /\ MovesOnce /\ NameFits

-----------------------------------------------------------------------------
\* Matching one more word asks for its directory, if it has one.
LEMMA AskedGrows ==
  ASSUME PdfTypeOK, Unread, read' = read + 1, job' = job
  PROVE  /\ Asked' = Asked \cup ({Directory(Word)} \ {Home})
         /\ read' \in 0..Len(job.input)
         /\ job.program = "filter" => Word \in Reported
         /\ job.program = "sorter" => Word \in Typed
<1>1. /\ read \in Nat /\ Len(job.input) \in Nat /\ read + 1 \in 1..Len(job.input)
      /\ job \in Started
  BY StartedAssumption DEF PdfTypeOK, Unread
<1>2. 1..(read + 1) = (1..read) \cup {read + 1}
  BY <1>1
<1>3. /\ job.program = "filter" => Word \in Reported
      /\ job.program = "sorter" => Word \in Typed
  <2>1. \/ job.program = "filter" /\ job.input \in Seq(Reported)
        \/ job.program = "sorter" /\ job.input \in Seq(Typed)
    BY <1>1, StartedAssumption
  <2> QED
    BY <1>1, <2>1 DEF Word
<1>4. Asked' = {Directory(job.input[k]) : k \in 1..(read + 1)} \ {Home}
  BY DEF Asked, Directory
<1> QED
  BY <1>1, <1>2, <1>3, <1>4 DEF Asked, Word

\* Whether the command for a report or a key fits its array.
LEMMA CommandLengths ==
  ASSUME job \in Started, NEW word
  PROVE  /\ job.name \in Nat
         /\ word = "JavaScript" => (Fits(RsyncTo(word)) <=> job.name <= 57)
         /\ word = "Encrypted" => (Fits(RsyncTo(word)) <=> job.name <= 58)
BY StartedAssumption DEF Fits, RsyncTo, Command

LEMMA Directories ==
  /\ Directory("title") = Home
  /\ \A word \in Reported : Directory(word) # Home => word \in {"JavaScript", "Encrypted"}
BY DEF Directory, Home, Reported

LEMMA PdfInitInv == PdfInit => PdfInv
<1> SUFFICES ASSUME PdfInit PROVE PdfInv
  OBVIOUS
<1>1. Asked = {} /\ Len(job.input) \in Nat
  BY StartedAssumption DEF PdfInit, Asked
<1>2. IsFiniteSet(places) /\ Cardinality(places) = 1
  BY FS_Singleton DEF PdfInit
<1> QED
  BY <1>1, <1>2 DEF PdfInit, PdfInv, PdfTypeOK, MovesOnce, NameFits

LEMMA PdfStepInv == PdfInv /\ [PdfNext]_pdf => PdfInv'
<1> SUFFICES ASSUME PdfInv, [PdfNext]_pdf PROVE PdfInv'
  OBVIOUS
<1>1. /\ job \in Started /\ job.name \in Nat /\ read \in 0..Len(job.input) /\ cuts \in Nat
      /\ IsFiniteSet(places) /\ Cardinality(places) \in Nat
  BY StartedAssumption, FS_CardinalityType DEF PdfInv, PdfTypeOK
<1>2. CASE Main
  <2>1. UNCHANGED <<job, read, moving, rsync, places, cuts>> /\ Asked' = Asked
    BY <1>2 DEF Main, Asked, Directory
  <2>2. pc = "main" /\ pc' \in {"killed", "exit", "scan", "overflow"}
    BY <1>2 DEF Main
  <2>3. Asked = {} /\ places = {Home}
    BY <2>2 DEF PdfInv, NameFits, MovesOnce, Asked
  <2> QED
    BY <2>1, <2>2, <2>3 DEF PdfInv, PdfTypeOK, MovesOnce, NameFits
<1>3. CASE Popen
  <2>1. /\ pc = "scan" /\ Unread /\ Directory(Word) # Home /\ read' = read + 1
        /\ UNCHANGED <<job, places, cuts>>
    BY <1>3 DEF Popen
  <2>2. /\ Asked' = Asked \cup {Directory(Word)} /\ read' \in 0..Len(job.input)
        /\ job.program = "filter" => Word \in {"JavaScript", "Encrypted"}
    BY <2>1, AskedGrows, Directories DEF PdfInv
  <2>3. rsync \notin {"started", "copied"}
    BY <2>1 DEF PdfInv, MovesOnce
  <2>4. job.program = "sorter" \/ job.program = "filter"
    BY <1>1, StartedAssumption
  <2>5. CASE ~Fits(RsyncTo(Word))
    <3>1. pc' = "overflow" /\ UNCHANGED <<rsync, moving>>
      BY <1>3, <2>5 DEF Popen
    <3>2. places # {Home} => job.name = 58
      <4>1. CASE job.program = "sorter"
        BY <4>1, <2>1 DEF PdfInv, NameFits
      <4>2. ASSUME job.program = "filter", places # {Home} PROVE job.name = 58
        <5>1. Asked # {}
          BY <4>2 DEF PdfInv, MovesOnce
        <5>2. job.name <= 58
          BY <5>1, <4>2, <2>1 DEF PdfInv, NameFits
        <5>3. ~(job.name <= 57)
          BY <1>1, <2>2, <2>5, <4>2, CommandLengths
        <5> QED
          BY <5>2, <5>3, <1>1
      <4> QED
        BY <2>4, <4>1, <4>2
    <3> QED
      BY <1>1, <2>1, <2>2, <2>3, <3>1, <3>2 DEF PdfInv, PdfTypeOK, MovesOnce, NameFits
  <2>6. CASE Fits(RsyncTo(Word))
    <3>1. /\ pc' \in {"pclose", "killed"}
          /\ \/ pc' = "pclose" /\ rsync' = "started" /\ moving' = Directory(Word)
             \/ UNCHANGED <<rsync, moving>>
      BY <1>3, <2>6 DEF Popen
    <3>2. job.program = "filter" => job.name <= 58
      BY <1>1, <2>2, <2>6, CommandLengths
    <3>3. moving' \in Asked' \/ UNCHANGED rsync
      BY <2>2, <3>1
    <3> QED
      BY <1>1, <2>1, <2>2, <2>3, <3>1, <3>2, <3>3 DEF PdfInv, PdfTypeOK, MovesOnce, NameFits
  <2> QED
    BY <2>5, <2>6
<1>4. CASE Quit
  <2>1. /\ pc = "scan" /\ Unread /\ Word = "q" /\ read' = read + 1 /\ pc' = "exit"
        /\ UNCHANGED <<job, moving, rsync, places, cuts>>
    BY <1>4 DEF Quit
  <2>2. Directory("q") = Home
    BY DEF Directory, Home
  <2>3. Asked' = Asked /\ read' \in 0..Len(job.input)
    BY <2>1, <2>2, AskedGrows DEF PdfInv
  <2> QED
    BY <1>1, <2>1, <2>3 DEF PdfInv, PdfTypeOK, MovesOnce, NameFits
<1>5. CASE Other
  <2>1. /\ pc = "scan" /\ Unread /\ Directory(Word) = Home /\ read' = read + 1
        /\ UNCHANGED <<job, pc, moving, rsync, places, cuts>>
    BY <1>5 DEF Other
  <2>2. Asked' = Asked /\ read' \in 0..Len(job.input)
    BY <2>1, AskedGrows DEF PdfInv
  <2> QED
    BY <1>1, <2>1, <2>2 DEF PdfInv, PdfTypeOK, MovesOnce, NameFits
<1>6. ASSUME UNCHANGED <<job, read>> PROVE Asked' = Asked
  BY <1>6 DEF Asked, Directory
<1>7. CASE EndOfInput
  BY <1>6, <1>7 DEF EndOfInput, PdfInv, PdfTypeOK, MovesOnce, NameFits
<1>8. CASE Copy
  <2>1. /\ rsync = "started" /\ Home \in places /\ places' = places \cup {moving}
        /\ rsync' = "copied" /\ UNCHANGED <<job, pc, read, moving, cuts>>
    BY <1>8 DEF Copy
  <2>2. IsFiniteSet(places') /\ Cardinality(places') <= Cardinality(places) + 1
    <3>1. /\ IsFiniteSet(places \cup {moving})
          /\ \/ Cardinality(places \cup {moving}) = Cardinality(places)
             \/ Cardinality(places \cup {moving}) = Cardinality(places) + 1
      BY <1>1, FS_AddElement, Zenon
    <3> QED
      BY <1>1, <2>1, <3>1
  <2>3. Cardinality(places') \in Nat
    BY <2>2, FS_CardinalityType
  <2>4. pc = "pclose" /\ moving \in Asked
    BY <2>1 DEF PdfInv, MovesOnce
  <2> QED
    BY <1>1, <1>6, <2>1, <2>2, <2>3, <2>4 DEF PdfInv, PdfTypeOK, MovesOnce, NameFits
<1>9. CASE RemoveSource
  <2>1. /\ rsync = "copied" /\ places' = places \ {Home}
        /\ rsync' = "ended" /\ UNCHANGED <<job, pc, read, moving, cuts>>
    BY <1>9 DEF RemoveSource, Sources
  <2>2. /\ Home \in places /\ moving \in places /\ moving # Home /\ pc = "pclose"
        /\ Cardinality(places) <= 2 + cuts
    BY <2>1 DEF PdfInv, MovesOnce, Asked
  <2>3. IsFiniteSet(places') /\ Cardinality(places') = Cardinality(places) - 1
    BY <1>1, <2>1, <2>2, FS_RemoveElement
  <2> QED
    BY <1>1, <1>6, <2>1, <2>2, <2>3 DEF PdfInv, PdfTypeOK, MovesOnce, NameFits
<1>10. CASE Stop
  <2>1. /\ rsync \in {"started", "copied"} /\ rsync' = "ended"
        /\ cuts' = IF rsync = "copied" THEN cuts + 1 ELSE cuts
        /\ UNCHANGED <<job, pc, read, moving, places>>
    BY <1>10 DEF Stop
  <2> QED
    BY <1>1, <1>6, <2>1 DEF PdfInv, PdfTypeOK, MovesOnce, NameFits
<1>11. CASE Pclose
  <2>1. /\ pc = "pclose" /\ rsync = "ended"
        /\ pc' = IF job.program = "filter" THEN "scan" ELSE "exit"
        /\ UNCHANGED <<job, read, moving, rsync, places, cuts>>
    BY <1>11 DEF Pclose
  <2> QED
    BY <1>1, <1>6, <2>1 DEF PdfInv, PdfTypeOK, MovesOnce, NameFits
<1>12. CASE UNCHANGED pdf
  BY <1>6, <1>12 DEF pdf, PdfInv, PdfTypeOK, MovesOnce, NameFits
<1> QED
  BY <1>2, <1>3, <1>4, <1>5, <1>7, <1>8, <1>9, <1>10, <1>11, <1>12 DEF PdfNext

-----------------------------------------------------------------------------
\* For names of any length and any number of reports: the file is not lost, lies
\* where the first rsync that acts on it takes it, and which commands overflow.
THEOREM FileIsMovedOnce == PdfSpec => []FirstMoveDecides
<1>1. PdfInv => FirstMoveDecides
  <2> SUFFICES ASSUME PdfInv PROVE FirstMoveDecides
    OBVIOUS
  <2>1. job.name \in Nat
    BY StartedAssumption DEF PdfInv, PdfTypeOK
  <2> QED
    BY <2>1 DEF PdfInv, MovesOnce, NameFits, FirstMoveDecides
<1> QED
  BY <1>1, PdfInitInv, PdfStepInv, PTL DEF PdfSpec

-----------------------------------------------------------------------------
(* SourceRewriter: what is printed and kept, for texts of any length and     *)
(* buffers of any size.                                                      *)

LEMMA GreatestNatural ==
  ASSUME NEW n \in Nat, NEW T \in SUBSET (1..n), T # {}
  PROVE  Max(T) \in T /\ Max(T) \in Nat /\ \A y \in T : y <= Max(T)
<1> DEFINE Rest == {n - x : x \in T}
<1>1. Rest \in SUBSET Nat /\ Rest # {}
  OBVIOUS
<1> HIDE DEF Rest
<1>2. PICK r \in Rest : \A y \in Rest : r <= y
  BY <1>1, LeastNatural
<1>3. PICK x \in T : r = n - x
  BY <1>2 DEF Rest
<1>4. \A y \in T : x >= y
  <2> TAKE y \in T
  <2>1. n - x <= n - y
    BY <1>2, <1>3 DEF Rest
  <2> QED
    BY <2>1
<1>5. Max(T) \in T /\ \A y \in T : Max(T) >= y
  BY <1>3, <1>4 DEF Max
<1> HIDE DEF Rest
<1>6. \A y \in T : y \in Nat
  OBVIOUS
<1> QED
  BY <1>5, <1>6

\* A class of symbols, which does not hold what Peek gives behind the end.
OfSymbols(class) == "" \notin class

\* The symbol behind the next k, by its place.
LEMMA PeekIs ==
  ASSUME text \in Seq(Symbol), at \in 0..Len(text), NEW k \in Nat, NEW p, p = (at + 1) + k
  PROVE  /\ p \in Nat /\ p >= 1
         /\ p <= Len(text) => Peek(k) = text[p] /\ text[p] \in Symbol /\ p \in 1..Len(text)
         /\ p > Len(text) => Peek(k) = ""
         /\ \A c : c # "" => (Peek(k) = c <=> p <= Len(text) /\ text[p] = c)
<1>1. at \in Nat /\ Len(text) \in Nat /\ p \in Nat /\ p >= 1 /\ at + k + 1 = p
      /\ (at + k < Len(text) <=> p <= Len(text))
  OBVIOUS
<1>2. Peek(k) = IF p <= Len(text) THEN text[p] ELSE ""
  BY <1>1, Zenon DEF Peek
<1>3. p <= Len(text) => p \in 1..Len(text) /\ text[p] \in Symbol
  BY <1>1
<1>4. p > Len(text) <=> ~(p <= Len(text))
  BY <1>1
<1> QED
  BY <1>1, <1>2, <1>3, <1>4, Zenon

\* Where a class ends, by places.
Spans(p, q, class) ==
  /\ q \in Nat /\ p <= q
  /\ \A x \in p..(q - 1) : x <= Len(text) /\ text[x] \in class
  /\ q <= Len(text) => text[q] \notin class

LEMMA SpanReaches ==
  ASSUME text \in Seq(Symbol), at \in 0..Len(text), NEW class, OfSymbols(class),
         NEW k \in Nat, NEW p, p = (at + 1) + k, NEW q, q = p + SpanAt(k, class)
  PROVE  SpanAt(k, class) \in Nat /\ Spans(p, q, class)
<1> DEFINE Takes(n) == Peek(k + n) \in class \ {""}
           StopsAt(n) == (\A i \in 0..(n - 1) : Takes(i)) /\ ~Takes(n)
           u == SpanAt(k, class)
<1>1. Len(text) \in Nat /\ at \in Nat /\ at <= Len(text) /\ p \in Nat
  OBVIOUS
<1>2. ~Takes(Len(text))
  <2>1. ~(at + (k + Len(text)) < Len(text))
    BY <1>1
  <2>2. Peek(k + Len(text)) = ""
    BY <2>1, Zenon DEF Peek
  <2> QED
    BY <2>2, Zenon
<1>3. u = CHOOSE n \in 0..Len(text) : StopsAt(n)
  BY Zenon DEF SpanAt
<1> HIDE DEF Takes, u
<1>4. \E n \in 0..Len(text) : StopsAt(n)
  <2> DEFINE Ns == {n \in 0..Len(text) : ~Takes(n)}
  <2>1. Ns \in SUBSET Nat /\ Len(text) \in Ns
    BY <1>1, <1>2
  <2> HIDE DEF Ns
  <2>2. PICK n \in Ns : \A m \in Ns : n <= m
    BY <2>1, LeastNatural
  <2>3. n \in 0..Len(text) /\ ~Takes(n)
    BY <2>2 DEF Ns
  <2>4. ASSUME NEW i \in 0..(n - 1) PROVE Takes(i)
    <3>1. i \in 0..Len(text) /\ ~(n <= i)
      BY <1>1, <2>3
    <3> QED
      BY <2>2, <3>1 DEF Ns
  <2> QED
    BY <2>3, <2>4
<1>5. u \in 0..Len(text) /\ StopsAt(u)
  <2> HIDE DEF StopsAt
  <2> QED
    BY <1>3, <1>4, Zenon
<1>6. u \in Nat /\ q = p + u /\ q \in Nat /\ p <= q
  <2>1. q = p + u
    BY DEF u
  <2> QED
    BY <1>1, <1>5, <2>1
<1>7. ASSUME NEW x \in p..(q - 1) PROVE x <= Len(text) /\ text[x] \in class
  <2>1. x - p \in 0..(u - 1) /\ k + (x - p) \in Nat /\ x = (at + 1) + (k + (x - p)) /\ x \in Nat
    BY <1>1, <1>6
  <2>2. Peek(k + (x - p)) \in class /\ Peek(k + (x - p)) # ""
    BY <1>5, <2>1 DEF Takes
  <2>3. x > Len(text) => Peek(k + (x - p)) = ""
    BY <2>1, PeekIs
  <2>a. ~(x > Len(text))
    BY <2>2, <2>3, Zenon
  <2>4. x <= Len(text)
    BY <1>1, <2>1, <2>a
  <2>5. Peek(k + (x - p)) = text[x]
    BY <2>1, <2>4, PeekIs
  <2> QED
    BY <2>2, <2>4, <2>5
<1>8. ASSUME q <= Len(text) PROVE text[q] \notin class
  <2>1. k + u \in Nat /\ q = (at + 1) + (k + u)
    BY <1>1, <1>6
  <2>2. Peek(k + u) = text[q] /\ text[q] \in Symbol
    BY <1>8, <2>1, PeekIs
  <2>3. ~Takes(u) /\ text[q] # ""
    BY <1>5, <2>2 DEF Symbol
  <2> QED
    BY <2>2, <2>3 DEF Takes
<1> QED
  BY <1>6, <1>7, <1>8 DEF u, Spans

\* A symbol reached over a class that does not hold it stands at the end of the
\* span.
LEMMA ReachedAtTheEnd ==
  ASSUME text \in Seq(Symbol), at \in 0..Len(text), NEW class, OfSymbols(class),
         NEW k \in Nat, NEW p, p = (at + 1) + k, NEW q, q = p + SpanAt(k, class),
         NEW symbol, symbol \notin class, NEW to \in 1..Len(text),
         Reaches(text, p, to, class, symbol)
  PROVE  to = q
<1>1. /\ q \in Nat /\ p <= q /\ p \in Nat
      /\ \A x \in p..(q - 1) : x <= Len(text) /\ text[x] \in class
      /\ q <= Len(text) => text[q] \notin class
  <2>1. Spans(p, q, class) /\ p \in Nat
    BY SpanReaches
  <2> QED
    BY <2>1 DEF Spans
<1>2. p <= to /\ text[to] = symbol /\ \A x \in p..(to - 1) : text[x] \in class
  BY DEF Reaches
<1>3. ~(to < q)
  <2>1. to < q => to \in p..(q - 1)
    BY <1>1, <1>2
  <2> QED
    BY <1>1, <1>2, <2>1
<1>4. ~(q < to)
  <2>1. q < to => q \in p..(to - 1) /\ q <= Len(text)
    BY <1>1, <1>2
  <2> QED
    BY <1>1, <1>2, <2>1
<1> QED
  BY <1>1, <1>3, <1>4

LEMMA SpanIsReached ==
  ASSUME text \in Seq(Symbol), at \in 0..Len(text), NEW class, OfSymbols(class),
         NEW k \in Nat, NEW p, p = (at + 1) + k, NEW q, q = p + SpanAt(k, class),
         q <= Len(text), NEW symbol, text[q] = symbol
  PROVE  Reaches(text, p, q, class, symbol)
<1>1. p <= q /\ \A x \in p..(q - 1) : text[x] \in class
  <2>1. Spans(p, q, class)
    BY SpanReaches
  <2> QED
    BY <2>1 DEF Spans
<1> QED
  BY <1>1 DEF Reaches


LEMMA ClassesAre ==
  /\ OfSymbols(WS) /\ OfSymbols(ALPHA)
  /\ SQUOTE \notin WS /\ SQUOTE \notin ALPHA /\ COMMA \notin WS /\ Newline \notin WS
  /\ PATTERN \notin WS /\ PATTERN \notin {COLON, SQUOTE, COMMA, Newline}
  /\ COLON \notin ALPHA /\ COLON # SQUOTE
  /\ SQUOTE # "" /\ COMMA # "" /\ Newline # ""
BY DEF OfSymbols, WS, ALPHA, PATTERN, COLON, SQUOTE, COMMA, Newline

\* The parts of a field that begins at i: its quotes, its comma, and the place
\* where the blanks behind it end.
Parted(i, open, close, comma, end) ==
  /\ Spans(i + 2, open, WS) /\ Spans(open + 1, close, ALPHA)
  /\ Spans(close + 1, comma, WS) /\ Spans(comma + 1, end, WS)

Complete(i, open, close, comma) ==
  /\ i + 1 <= Len(text) /\ text[i] = PATTERN /\ text[i + 1] = COLON
  /\ open <= Len(text) /\ text[open] = SQUOTE /\ open + 1 < close
  /\ close <= Len(text) /\ text[close] = SQUOTE
  /\ comma <= Len(text) /\ text[comma] = COMMA

FieldStopsAt(end) == IF end <= Len(text) /\ text[end] = Newline THEN end ELSE end - 1

LEMMA SpanEnds ==
  ASSUME text \in Seq(Symbol), at \in 0..Len(text), NEW class, OfSymbols(class),
         NEW k \in Nat, NEW p \in Nat, p = (at + 1) + k
  PROVE  \E n \in Nat : n = SpanAt(k, class) /\ Spans(p, p + n, class)
<1>1. \E q : q = p + SpanAt(k, class)
  OBVIOUS
<1>2. PICK q : q = p + SpanAt(k, class)
  BY <1>1
<1>3. SpanAt(k, class) \in Nat /\ Spans(p, q, class)
  BY <1>2, SpanReaches
<1> QED
  BY <1>2, <1>3

LEMMA FieldLengthIs ==
  ASSUME text \in Seq(Symbol), at \in 0..Len(text), NEW i \in Nat, i = at + 1
  PROVE  \E open, close, comma, end \in Nat :
           /\ Parted(i, open, close, comma, end)
           /\ FieldLength = IF Complete(i, open, close, comma) THEN (FieldStopsAt(end) + 1) - i ELSE 0
<1>0. at \in Nat /\ Len(text) \in Nat
  OBVIOUS
<1>1. PICK n1 \in Nat : n1 = SpanAt(2, WS) /\ Spans(i + 2, (i + 2) + n1, WS)
  <2>1. PICK p \in Nat : p = i + 2
    OBVIOUS
  <2>2. p = (at + 1) + 2 /\ 2 \in Nat
    BY <2>1
  <2> QED
    BY <2>1, <2>2, SpanEnds, ClassesAre
<1>2. PICK quote \in Nat : quote = 2 + n1
  OBVIOUS
<1>3. PICK open \in Nat : open = i + quote
  OBVIOUS
<1>4. PICK n2 \in Nat : n2 = SpanAt(quote + 1, ALPHA) /\ Spans(open + 1, (open + 1) + n2, ALPHA)
  <2>1. PICK p, k \in Nat : p = open + 1 /\ k = quote + 1
    OBVIOUS
  <2>2. p = (at + 1) + k
    BY <1>3, <2>1
  <2> QED
    BY <2>1, <2>2, SpanEnds, ClassesAre
<1>5. PICK close \in Nat : close = quote + 1 + n2
  OBVIOUS
<1>6. PICK closeAt \in Nat : closeAt = i + close
  OBVIOUS
<1>7. PICK n3 \in Nat : n3 = SpanAt(close + 1, WS) /\ Spans(closeAt + 1, (closeAt + 1) + n3, WS)
  <2>1. PICK p, k \in Nat : p = closeAt + 1 /\ k = close + 1
    OBVIOUS
  <2>2. p = (at + 1) + k
    BY <1>6, <2>1
  <2> QED
    BY <2>1, <2>2, SpanEnds, ClassesAre
<1>8. PICK comma \in Nat : comma = close + 1 + n3
  OBVIOUS
<1>9. PICK commaAt \in Nat : commaAt = i + comma
  OBVIOUS
<1>10. PICK n4 \in Nat : n4 = SpanAt(comma + 1, WS) /\ Spans(commaAt + 1, (commaAt + 1) + n4, WS)
  <2>1. PICK p, k \in Nat : p = commaAt + 1 /\ k = comma + 1
    OBVIOUS
  <2>2. p = (at + 1) + k
    BY <1>9, <2>1
  <2> QED
    BY <2>1, <2>2, SpanEnds, ClassesAre
<1>11. PICK end \in Nat : end = comma + 1 + n4
  OBVIOUS
<1>12. PICK endAt \in Nat : endAt = i + end
  OBVIOUS
<1>13. Parted(i, open, closeAt, commaAt, endAt)
  <2>1. /\ (i + 2) + n1 = open /\ (open + 1) + n2 = closeAt /\ (closeAt + 1) + n3 = commaAt
        /\ (commaAt + 1) + n4 = endAt
    BY <1>2, <1>3, <1>5, <1>6, <1>8, <1>9, <1>11, <1>12
  <2> QED
    BY <1>1, <1>4, <1>7, <1>10, <2>1 DEF Parted
<1>14. FieldLength = IF /\ Ahead(<<PATTERN, COLON>>)
                        /\ Peek(quote) = SQUOTE /\ close > quote + 1
                        /\ Peek(close) = SQUOTE /\ Peek(comma) = COMMA
                     THEN IF Peek(end) = Newline THEN end + 1 ELSE end
                     ELSE 0
  BY <1>1, <1>2, <1>4, <1>5, <1>7, <1>8, <1>10, <1>11, Zenon DEF FieldLength
<1>15. /\ Peek(quote) = SQUOTE <=> open <= Len(text) /\ text[open] = SQUOTE
       /\ Peek(close) = SQUOTE <=> closeAt <= Len(text) /\ text[closeAt] = SQUOTE
       /\ Peek(comma) = COMMA <=> commaAt <= Len(text) /\ text[commaAt] = COMMA
       /\ Peek(end) = Newline <=> endAt <= Len(text) /\ text[endAt] = Newline
  <2>1. /\ open = (at + 1) + quote /\ closeAt = (at + 1) + close /\ commaAt = (at + 1) + comma
        /\ endAt = (at + 1) + end
    BY <1>3, <1>6, <1>9, <1>12
  <2> QED
    BY <2>1, PeekIs, ClassesAre
<1>16. close > quote + 1 <=> open + 1 < closeAt
  BY <1>3, <1>6
<1>17. Ahead(<<PATTERN, COLON>>) <=> i + 1 <= Len(text) /\ text[i] = PATTERN /\ text[i + 1] = COLON
  <2>1. Ahead(<<PATTERN, COLON>>) <=> at \in Places(text, at, PATTERN, COLON)
    BY AheadIsPlace
  <2>2. at \in Places(text, at, PATTERN, COLON) <=>
          at \in at..(Len(text) - 2) /\ text[at + 1] = PATTERN /\ text[at + 2] = COLON
    BY DEF Places
  <2>3. at + 1 = i /\ at + 2 = i + 1 /\ (at \in at..(Len(text) - 2) <=> i + 1 <= Len(text))
    BY <1>0
  <2> QED
    BY <2>1, <2>2, <2>3
<1>18. /\ end + 1 = (endAt + 1) - i /\ end = ((endAt - 1) + 1) - i
  BY <1>12
<1>19. FieldLength = IF Complete(i, open, closeAt, commaAt) THEN (FieldStopsAt(endAt) + 1) - i ELSE 0
  BY <1>14, <1>15, <1>16, <1>17, <1>18 DEF Complete, FieldStopsAt
<1> QED
  BY <1>13, <1>19


FieldParts(t, i, j, o, c, m) ==
  /\ o \in (i + 2)..j /\ c \in (o + 2)..j /\ m \in c..j
  /\ t[i] = PATTERN /\ t[i + 1] = COLON
  /\ Reaches(t, i + 2, o, WS, SQUOTE)
  /\ Reaches(t, o + 1, c, ALPHA, SQUOTE)
  /\ Reaches(t, c + 1, m, WS, COMMA)
  /\ \A k \in (m + 1)..j : t[k] \in WS \/ (k = j /\ t[k] = Newline)

LEMMA PartsOfField ==
  ASSUME NEW t, NEW i \in Nat, NEW j \in Nat, IsField(t, i, j)
  PROVE  \E o \in Nat, c \in Nat, m \in Nat : FieldParts(t, i, j, o, c, m)
<1>1. PICK o \in (i + 2)..j :
        /\ t[i] = PATTERN /\ t[i + 1] = COLON /\ Reaches(t, i + 2, o, WS, SQUOTE)
        /\ \E c \in (o + 2)..j :
             /\ Reaches(t, o + 1, c, ALPHA, SQUOTE)
             /\ \E m \in c..j :
                  /\ Reaches(t, c + 1, m, WS, COMMA)
                  /\ \A k \in (m + 1)..j : t[k] \in WS \/ (k = j /\ t[k] = Newline)
  BY Zenon DEF IsField
<1>2. PICK c \in (o + 2)..j :
        /\ Reaches(t, o + 1, c, ALPHA, SQUOTE)
        /\ \E m \in c..j :
             /\ Reaches(t, c + 1, m, WS, COMMA)
             /\ \A k \in (m + 1)..j : t[k] \in WS \/ (k = j /\ t[k] = Newline)
  BY <1>1
<1>3. PICK m \in c..j :
        /\ Reaches(t, c + 1, m, WS, COMMA)
        /\ \A k \in (m + 1)..j : t[k] \in WS \/ (k = j /\ t[k] = Newline)
  BY <1>2
<1>4. o \in Nat /\ c \in Nat /\ m \in Nat
  OBVIOUS
<1>5. FieldParts(t, i, j, o, c, m)
  BY <1>1, <1>2, <1>3 DEF FieldParts
<1> QED
  BY <1>4, <1>5

\* A complete field is a match up to its longest end.
LEMMA CompleteIsField ==
  ASSUME text \in Seq(Symbol), NEW i \in Nat \ {0}, NEW open \in Nat, NEW close \in Nat,
         NEW comma \in Nat, NEW end \in Nat,
         Parted(i, open, close, comma, end), Complete(i, open, close, comma)
  PROVE  FieldStopsAt(end) \in FieldEnds(text, i) /\ FieldStopsAt(end) > i
<1>0. Len(text) \in Nat
  OBVIOUS
<1> DEFINE j == FieldStopsAt(end)
<1>1. /\ i + 2 <= open /\ \A x \in (i + 2)..(open - 1) : text[x] \in WS
      /\ open + 1 <= close /\ \A x \in (open + 1)..(close - 1) : text[x] \in ALPHA
      /\ close + 1 <= comma /\ \A x \in (close + 1)..(comma - 1) : text[x] \in WS
      /\ comma + 1 <= end /\ \A x \in (comma + 1)..(end - 1) : x <= Len(text) /\ text[x] \in WS
  BY DEF Parted, Spans
<1>2. /\ text[i] = PATTERN /\ text[i + 1] = COLON
      /\ open <= Len(text) /\ text[open] = SQUOTE /\ open + 1 < close
      /\ close <= Len(text) /\ text[close] = SQUOTE
      /\ comma <= Len(text) /\ text[comma] = COMMA
  BY DEF Complete
<1>3. j \in Nat /\ comma <= j /\ j <= Len(text)
      /\ (j = end - 1 \/ (j = end /\ text[end] = Newline))
  <2>1. CASE end <= Len(text) /\ text[end] = Newline
    BY <1>1, <2>1 DEF FieldStopsAt
  <2>2. CASE ~(end <= Len(text) /\ text[end] = Newline)
    <3>1. j = end - 1
      BY <2>2 DEF FieldStopsAt
    <3>2. end - 1 = comma \/ end - 1 \in (comma + 1)..(end - 1)
      BY <1>1
    <3>3. end - 1 <= Len(text)
      BY <1>1, <1>2, <3>2
    <3>4. end - 1 \in Nat /\ comma <= end - 1
      BY <1>1
    <3> QED
      BY <3>1, <3>3, <3>4
  <2> QED
    BY <2>1, <2>2
<1> HIDE DEF j
<1>4. \A k \in (comma + 1)..j : text[k] \in WS \/ (k = j /\ text[k] = Newline)
  <2> TAKE k \in (comma + 1)..j
  <2>1. k \in (comma + 1)..(end - 1) \/ (k = j /\ j = end)
    BY <1>3
  <2> QED
    BY <1>1, <1>3, <2>1
<1>5. /\ Reaches(text, i + 2, open, WS, SQUOTE) /\ Reaches(text, open + 1, close, ALPHA, SQUOTE)
      /\ Reaches(text, close + 1, comma, WS, COMMA)
  BY <1>1, <1>2 DEF Reaches
<1>6. open \in (i + 2)..j /\ close \in (open + 2)..j /\ comma \in close..j /\ j \in i..Len(text)
      /\ j > i
  BY <1>1, <1>2, <1>3
<1>7. IsField(text, i, j)
  BY <1>2, <1>4, <1>5, <1>6 DEF IsField
<1> QED
  BY <1>6, <1>7 DEF FieldEnds, j

\* A match is complete, and no longer than that.
LEMMA FieldIsComplete ==
  ASSUME text \in Seq(Symbol), NEW i \in Nat \ {0}, NEW open \in Nat, NEW close \in Nat,
         NEW comma \in Nat, NEW end \in Nat,
         Parted(i, open, close, comma, end), NEW j \in FieldEnds(text, i)
  PROVE  Complete(i, open, close, comma) /\ j <= FieldStopsAt(end)
<1>0. Len(text) \in Nat
  OBVIOUS
<1>1. /\ i + 2 <= open /\ open + 1 <= close /\ close + 1 <= comma /\ comma + 1 <= end
      /\ \A x \in (i + 2)..(open - 1) : text[x] \in WS
      /\ \A x \in (open + 1)..(close - 1) : text[x] \in ALPHA
      /\ \A x \in (close + 1)..(comma - 1) : text[x] \in WS
      /\ open <= Len(text) => text[open] \notin WS
      /\ close <= Len(text) => text[close] \notin ALPHA
      /\ comma <= Len(text) => text[comma] \notin WS
      /\ end <= Len(text) => text[end] \notin WS
  BY DEF Parted, Spans
<1>2. j \in i..Len(text) /\ j \in Nat /\ IsField(text, i, j)
  BY DEF FieldEnds
<1>3. PICK o \in Nat, c \in Nat, m \in Nat : FieldParts(text, i, j, o, c, m)
  BY <1>2, PartsOfField
<1>4. o \in Nat /\ c \in Nat /\ m \in Nat /\ o <= Len(text) /\ c <= Len(text) /\ m <= Len(text)
      /\ i + 2 <= o /\ o + 2 <= c
  <2>1. o \in (i + 2)..j /\ c \in (o + 2)..j /\ m \in c..j
    BY <1>3 DEF FieldParts
  <2> QED
    BY <1>0, <1>2, <2>1
<1>5. /\ text[o] = SQUOTE /\ \A k \in (i + 2)..(o - 1) : text[k] \in WS
      /\ text[c] = SQUOTE /\ \A k \in (o + 1)..(c - 1) : text[k] \in ALPHA
      /\ c + 1 <= m /\ text[m] = COMMA /\ \A k \in (c + 1)..(m - 1) : text[k] \in WS
  BY <1>3 DEF FieldParts, Reaches
<1>6. o = open
  <2>1. o < open => o \in (i + 2)..(open - 1)
    BY <1>1, <1>4
  <2>2. open < o => open \in (i + 2)..(o - 1) /\ open <= Len(text)
    BY <1>1, <1>4
  <2>3. o < open => text[o] \in WS
    BY <1>1, <2>1
  <2>4. open < o => text[open] \in WS /\ text[open] \notin WS
    BY <1>1, <1>5, <2>2
  <2>5. ~(o < open) /\ ~(open < o)
    BY <1>5, <2>3, <2>4, ClassesAre, Zenon
  <2> QED
    BY <1>4, <2>5
<1>7. c = close
  <2>1. c < close => c \in (open + 1)..(close - 1)
    BY <1>1, <1>4, <1>6
  <2>2. close < c => close \in (o + 1)..(c - 1) /\ close <= Len(text)
    BY <1>1, <1>4, <1>6
  <2>3. c < close => text[c] \in ALPHA
    BY <1>1, <2>1
  <2>4. close < c => text[close] \in ALPHA /\ text[close] \notin ALPHA
    BY <1>1, <1>5, <2>2
  <2>5. ~(c < close) /\ ~(close < c)
    BY <1>5, <2>3, <2>4, ClassesAre, Zenon
  <2> QED
    BY <1>4, <2>5
<1>8. m = comma
  <2>1. m < comma => m \in (close + 1)..(comma - 1)
    BY <1>1, <1>4, <1>5, <1>7
  <2>2. comma < m => comma \in (c + 1)..(m - 1) /\ comma <= Len(text)
    BY <1>1, <1>4, <1>7
  <2>3. m < comma => text[m] \in WS
    BY <1>1, <2>1
  <2>4. comma < m => text[comma] \in WS /\ text[comma] \notin WS
    BY <1>1, <1>5, <2>2
  <2>5. ~(m < comma) /\ ~(comma < m)
    BY <1>5, <2>3, <2>4, ClassesAre, Zenon
  <2> QED
    BY <1>4, <2>5
<1>9. Complete(i, open, close, comma)
  <2>1. i + 1 <= Len(text) /\ open + 1 < close
    BY <1>4, <1>6, <1>7
  <2> QED
    BY <1>3, <1>4, <1>5, <1>6, <1>7, <1>8, <2>1 DEF Complete, FieldParts
<1>10. j <= FieldStopsAt(end)
  <2>1. CASE j < end
    BY <2>1, <1>2 DEF FieldStopsAt
  <2>2. CASE end <= j
    <3>1. end \in (m + 1)..j /\ end <= Len(text)
      BY <1>1, <1>2, <1>8, <2>2
    <3>2. end = j /\ text[end] = Newline
      BY <1>1, <1>3, <3>1 DEF FieldParts
    <3> QED
      BY <3>1, <3>2 DEF FieldStopsAt
  <2> QED
    BY <1>2, <2>1, <2>2
<1> QED
  BY <1>9, <1>10

\* No field begins in another.
LEMMA FieldsAreApart ==
  ASSUME NEW t, NEW i \in Nat, NEW j \in Nat, IsField(t, i, j),
         NEW a \in Nat, NEW b, IsField(t, a, b), i < a
  PROVE  j < a
<1> SUFFICES ASSUME a <= j PROVE FALSE
  OBVIOUS
<1>1. PICK o \in Nat, c \in Nat, m \in Nat : FieldParts(t, i, j, o, c, m)
  BY PartsOfField
<1>2. t[a] = PATTERN /\ t[a + 1] = COLON
  BY DEF IsField
<1>3. /\ o \in (i + 2)..j /\ c \in (o + 2)..j /\ m \in c..j /\ t[i + 1] = COLON
      /\ \A k \in (m + 1)..j : t[k] \in WS \/ (k = j /\ t[k] = Newline)
      /\ t[o] = SQUOTE /\ \A k \in (i + 2)..(o - 1) : t[k] \in WS
      /\ t[c] = SQUOTE /\ \A k \in (o + 1)..(c - 1) : t[k] \in ALPHA
      /\ c + 1 <= m /\ t[m] = COMMA /\ \A k \in (c + 1)..(m - 1) : t[k] \in WS
  BY <1>1 DEF FieldParts, Reaches
<1>4. \/ a = i + 1 \/ a \in (i + 2)..(o - 1) \/ a = o \/ a \in (o + 1)..(c - 1) \/ a = c
      \/ a \in (c + 1)..(m - 1) \/ a = m \/ a \in (m + 1)..j
  BY <1>3
<1>5. a \in (o + 1)..(c - 1) => a + 1 = c \/ a + 1 \in (o + 1)..(c - 1)
  OBVIOUS
<1> QED
  BY <1>1, <1>2, <1>3, <1>4, <1>5, ClassesAre

\* What the scanner matches is the field that begins in front of it, or none does.
LEMMA FieldIsMatched ==
  ASSUME text \in Seq(Symbol), at \in 0..Len(text)
  PROVE  /\ FieldLength \in Nat
         /\ FieldLength = 0 => FieldEnds(text, at + 1) = {}
         /\ FieldLength > 0 => /\ at + FieldLength \in FieldEnds(text, at + 1)
                               /\ \A j \in FieldEnds(text, at + 1) : j <= at + FieldLength
<1>1. PICK i \in Nat \ {0} : i = at + 1
  OBVIOUS
<1>2. PICK open, close, comma, end \in Nat :
        /\ Parted(i, open, close, comma, end)
        /\ FieldLength = IF Complete(i, open, close, comma) THEN (FieldStopsAt(end) + 1) - i ELSE 0
  BY <1>1, FieldLengthIs
<1>3. CASE Complete(i, open, close, comma)
  <2>1. FieldStopsAt(end) \in FieldEnds(text, i) /\ FieldStopsAt(end) > i
    BY <1>2, <1>3, CompleteIsField
  <2>2. FieldStopsAt(end) \in Nat
    <3>1. FieldStopsAt(end) \in i..Len(text)
      BY <2>1 DEF FieldEnds
    <3> QED
      BY <3>1
  <2>3. FieldLength \in Nat /\ FieldLength > 0 /\ at + FieldLength = FieldStopsAt(end)
    BY <1>1, <1>2, <1>3, <2>1, <2>2
  <2>4. \A j \in FieldEnds(text, i) : j <= FieldStopsAt(end)
    BY <1>2, FieldIsComplete
  <2> QED
    BY <1>1, <2>1, <2>3, <2>4
<1>4. CASE ~Complete(i, open, close, comma)
  <2>1. FieldEnds(text, i) = {}
    BY <1>2, <1>4, FieldIsComplete
  <2>2. FieldLength = 0
    BY <1>2, <1>4
  <2> QED
    BY <1>1, <2>1, <2>2
<1> QED
  BY <1>3, <1>4


\* Where the longest match of each field ends.
LEMMA FieldEndIs ==
  ASSUME NEW t \in Seq(Symbol)
  PROVE  /\ \A i : i \in DOMAIN FieldEnd(t) <=> i \in 1..Len(t) /\ FieldEnds(t, i) # {}
         /\ \A i \in DOMAIN FieldEnd(t) :
              /\ i \in Nat /\ FieldEnd(t)[i] \in FieldEnds(t, i)
              /\ FieldEnd(t)[i] \in i..Len(t) /\ FieldEnd(t)[i] \in Nat
              /\ IsField(t, i, FieldEnd(t)[i])
              /\ \A j \in FieldEnds(t, i) : j <= FieldEnd(t)[i]
<1>0. Len(t) \in Nat /\ DOMAIN t = 1..Len(t)
  OBVIOUS
<1>1. \A i : i \in DOMAIN FieldEnd(t) <=> i \in 1..Len(t) /\ FieldEnds(t, i) # {}
  BY <1>0 DEF FieldEnd
<1>2. ASSUME NEW i \in DOMAIN FieldEnd(t)
      PROVE  /\ i \in Nat /\ FieldEnd(t)[i] \in FieldEnds(t, i)
             /\ FieldEnd(t)[i] \in i..Len(t) /\ FieldEnd(t)[i] \in Nat
             /\ IsField(t, i, FieldEnd(t)[i])
             /\ \A j \in FieldEnds(t, i) : j <= FieldEnd(t)[i]
  <2>1. i \in 1..Len(t) /\ i \in Nat /\ FieldEnds(t, i) # {}
    BY <1>0, <1>1
  <2>2. FieldEnds(t, i) \in SUBSET (1..Len(t))
    BY <1>0, <2>1 DEF FieldEnds
  <2>3. FieldEnd(t)[i] = Max(FieldEnds(t, i))
    BY <1>2 DEF FieldEnd
  <2>4. /\ Max(FieldEnds(t, i)) \in FieldEnds(t, i)
        /\ \A j \in FieldEnds(t, i) : j <= Max(FieldEnds(t, i))
    BY <1>0, <2>1, <2>2, GreatestNatural
  <2>5. FieldEnd(t)[i] \in i..Len(t) /\ IsField(t, i, FieldEnd(t)[i])
    BY <2>3, <2>4 DEF FieldEnds
  <2>6. FieldEnd(t)[i] \in Nat
    BY <2>1, <2>5
  <2> QED
    BY <2>1, <2>3, <2>4, <2>5, <2>6
<1> QED
  BY <1>1, <1>2

LEMMA EndsApart ==
  ASSUME NEW t \in Seq(Symbol), NEW i \in DOMAIN FieldEnd(t), NEW a \in DOMAIN FieldEnd(t), i < a
  PROVE  FieldEnd(t)[i] < a
<1>1. /\ i \in Nat /\ a \in Nat /\ FieldEnd(t)[i] \in Nat
      /\ IsField(t, i, FieldEnd(t)[i]) /\ IsField(t, a, FieldEnd(t)[a])
  BY FieldEndIs
<1> QED
  BY <1>1, FieldsAreApart

\* A place that is in no field.
Clear(t, n) == \A i \in DOMAIN FieldEnd(t) : i <= n => FieldEnd(t)[i] <= n

LEMMA EndedAre ==
  ASSUME NEW t \in Seq(Symbol), NEW k \in Nat
  PROVE  /\ EndedBefore(FieldEnd(t), k) \in SUBSET (1..Len(t))
         /\ IsFiniteSet(EndedBefore(FieldEnd(t), k))
         /\ Cardinality(EndedBefore(FieldEnd(t), k)) \in Nat
<1>1. EndedBefore(FieldEnd(t), k) \in SUBSET (1..Len(t))
  BY FieldEndIs DEF EndedBefore
<1>2. IsFiniteSet(1..Len(t))
  <2>1. 1 \in Int /\ Len(t) \in Int
    OBVIOUS
  <2> QED
    BY <2>1, FS_Interval
<1> QED
  BY <1>1, <1>2, FS_Subset, FS_CardinalityType

\* No field ends behind a clear place before the next one does.
LEMMA EndedStays ==
  ASSUME NEW t \in Seq(Symbol), NEW n \in Nat, Clear(t, n), NEW k \in Nat, n + 1 <= k,
         \A i \in DOMAIN FieldEnd(t) : i > n => FieldEnd(t)[i] >= k
  PROVE  EndedBefore(FieldEnd(t), k) = EndedBefore(FieldEnd(t), n + 1)
<1>1. \A i \in DOMAIN FieldEnd(t) : i \in Nat /\ FieldEnd(t)[i] \in Nat
  BY FieldEndIs
<1>2. \A i \in DOMAIN FieldEnd(t) : FieldEnd(t)[i] < k <=> FieldEnd(t)[i] < n + 1
  <2> TAKE i \in DOMAIN FieldEnd(t)
  <2>1. i <= n => FieldEnd(t)[i] <= n
    BY DEF Clear
  <2>2. i > n => FieldEnd(t)[i] >= k
    OBVIOUS
  <2>3. i \in Nat /\ FieldEnd(t)[i] \in Nat
    BY <1>1
  <2> QED
    BY <2>1, <2>2, <2>3
<1> QED
  BY <1>2 DEF EndedBefore

LEMMA EndedGrows ==
  ASSUME NEW t \in Seq(Symbol), NEW n \in Nat, Clear(t, n), NEW s \in DOMAIN FieldEnd(t),
         s = n + 1, NEW e, e = FieldEnd(t)[s]
  PROVE  /\ EndedBefore(FieldEnd(t), e + 1) = EndedBefore(FieldEnd(t), n + 1) \cup {s}
         /\ s \notin EndedBefore(FieldEnd(t), n + 1)
         /\ \A i \in DOMAIN FieldEnd(t) : i > n => FieldEnd(t)[i] >= e
         /\ Clear(t, e)
<1>1. \A i \in DOMAIN FieldEnd(t) : i \in Nat /\ FieldEnd(t)[i] \in Nat /\ i <= FieldEnd(t)[i]
  BY FieldEndIs
<1>2. e \in Nat /\ s <= e
  BY <1>1
<1>3. \A i \in DOMAIN FieldEnd(t) : i > n => i = s \/ (i > e /\ FieldEnd(t)[i] > e)
  <2> TAKE i \in DOMAIN FieldEnd(t)
  <2>1. i > n /\ i # s => s < i
    BY <1>1
  <2>2. s < i => e < i
    BY EndsApart
  <2>3. i \in Nat /\ FieldEnd(t)[i] \in Nat /\ i <= FieldEnd(t)[i]
    BY <1>1
  <2> QED
    BY <1>2, <2>1, <2>2, <2>3
<1>4. \A i \in DOMAIN FieldEnd(t) : i <= n => FieldEnd(t)[i] <= n
  BY DEF Clear
<1>5. \A i \in DOMAIN FieldEnd(t) : FieldEnd(t)[i] < e + 1 <=> FieldEnd(t)[i] < n + 1 \/ i = s
  <2> TAKE i \in DOMAIN FieldEnd(t)
  <2>1. i \in Nat /\ FieldEnd(t)[i] \in Nat
    BY <1>1
  <2>2. i <= n \/ i = s \/ (i > e /\ FieldEnd(t)[i] > e)
    BY <1>3, <2>1
  <2>3. i <= n => FieldEnd(t)[i] <= n
    BY <1>4
  <2>4. i = s => FieldEnd(t)[i] = e
    OBVIOUS
  <2> QED
    BY <1>2, <2>1, <2>2, <2>3, <2>4
<1>6. EndedBefore(FieldEnd(t), e + 1) = EndedBefore(FieldEnd(t), n + 1) \cup {s}
  BY <1>5 DEF EndedBefore
<1>7. s \notin EndedBefore(FieldEnd(t), n + 1)
  BY <1>2 DEF EndedBefore
<1>8. \A i \in DOMAIN FieldEnd(t) : i > n => FieldEnd(t)[i] >= e
  <2> TAKE i \in DOMAIN FieldEnd(t)
  <2>1. i \in Nat /\ FieldEnd(t)[i] \in Nat
    BY <1>1
  <2>2. i > n => i = s \/ FieldEnd(t)[i] > e
    BY <1>3
  <2> QED
    BY <1>2, <2>1, <2>2
<1>9. Clear(t, e)
  <2>1. ASSUME NEW i \in DOMAIN FieldEnd(t), i <= e PROVE FieldEnd(t)[i] <= e
    <3>1. i \in Nat /\ FieldEnd(t)[i] \in Nat
      BY <1>1
    <3>2. i > n => i = s
      BY <1>2, <1>3, <2>1, <3>1
    <3>3. i <= n => FieldEnd(t)[i] <= n
      BY <1>4
    <3> QED
      BY <1>2, <3>1, <3>2, <3>3
  <2> QED
    BY <2>1 DEF Clear
<1> QED
  BY <1>6, <1>7, <1>8, <1>9

\* The bytes of what line_buffer has and of the next field.
LEMMA FiniteBytes ==
  ASSUME NEW n \in Nat, NEW A \in SUBSET (1..n), NEW t
  PROVE  /\ IsFiniteSet(A) /\ Cardinality(A) \in Nat
         /\ IsFiniteSet({k \in A : t[k] = PATTERN})
         /\ Cardinality({k \in A : t[k] = PATTERN}) \in Nat
<1>1. IsFiniteSet(1..n)
  BY FS_Interval
<1>2. IsFiniteSet(A)
  BY <1>1, FS_Subset
<1>3. IsFiniteSet({k \in A : t[k] = PATTERN})
  BY <1>2, FS_Subset
<1> QED
  BY <1>2, <1>3, FS_CardinalityType

LEMMA CardinalityAdds ==
  ASSUME NEW A, NEW B, IsFiniteSet(A), IsFiniteSet(B), A \cap B = {}
  PROVE  Cardinality(A \cup B) = Cardinality(A) + Cardinality(B)
<1>1. Cardinality(A \cup B) = Cardinality(A) + Cardinality(B) - Cardinality(A \cap B)
  BY FS_Union
<1>2. Cardinality(A \cap B) = 0
  BY FS_EmptySet
<1>3. Cardinality(A) \in Nat /\ Cardinality(B) \in Nat
  BY FS_CardinalityType
<1> QED
  BY <1>1, <1>2, <1>3

LEMMA BytesAdd ==
  ASSUME NEW t, NEW n \in Nat, NEW A \in SUBSET (1..n), NEW m \in Nat, n <= m
  PROVE  /\ Bytes(t, A) \in Nat /\ Bytes(t, (n + 1)..m) \in Nat
         /\ Bytes(t, A \cup (n + 1)..m) = Bytes(t, A) + Bytes(t, (n + 1)..m)
<1> DEFINE B == (n + 1)..m
           P(S) == {k \in S : t[k] = PATTERN}
<1>1. A \in SUBSET (1..m) /\ B \in SUBSET (1..m) /\ A \cap B = {}
  OBVIOUS
<1> HIDE DEF B
<1>2. /\ IsFiniteSet(A) /\ Cardinality(A) \in Nat /\ IsFiniteSet(P(A)) /\ Cardinality(P(A)) \in Nat
      /\ IsFiniteSet(B) /\ Cardinality(B) \in Nat /\ IsFiniteSet(P(B)) /\ Cardinality(P(B)) \in Nat
  BY <1>1, FiniteBytes
<1>3. P(A) \cap P(B) = {} /\ P(A \cup B) = P(A) \cup P(B)
  BY <1>1
<1> HIDE DEF P
<1>4. Cardinality(A \cup B) = Cardinality(A) + Cardinality(B)
  BY <1>1, <1>2, CardinalityAdds
<1>5. Cardinality(P(A \cup B)) = Cardinality(P(A)) + Cardinality(P(B))
  BY <1>2, <1>3, CardinalityAdds
<1>6. \A S : Bytes(t, S) = Cardinality(S) + 4 * Cardinality(P(S))
  BY DEF Bytes, P
<1>7. /\ Bytes(t, A) = Cardinality(A) + 4 * Cardinality(P(A))
      /\ Bytes(t, B) = Cardinality(B) + 4 * Cardinality(P(B))
      /\ Bytes(t, A \cup B) = Cardinality(A \cup B) + 4 * Cardinality(P(A \cup B))
  BY <1>6
<1>8. /\ Bytes(t, A) \in Nat /\ Bytes(t, B) \in Nat
      /\ Bytes(t, A \cup B) = Bytes(t, A) + Bytes(t, B)
  BY <1>2, <1>4, <1>5, <1>7
<1> QED
  BY <1>8 DEF B


\* What has been printed of the first n symbols.
PrintedSo(t, o, n) ==
  /\ Len(o) = PrintedAt(FieldEnd(t), n + 1) - 1
  /\ \A k \in 1..n : o[PrintedAt(FieldEnd(t), k)] = Echoed(t[k])
  /\ \A i \in DOMAIN FieldEnd(t) :
       i <= n => o[PrintedAt(FieldEnd(t), FieldEnd(t)[i]) + 1] = Replacement

\* Symbols and replacements in front of a clear place stand in what is printed.
LEMMA PlacesPrinted ==
  ASSUME NEW t \in Seq(Symbol), NEW n \in Nat, Clear(t, n)
  PROVE  /\ PrintedAt(FieldEnd(t), n + 1) - 1 \in Nat
         /\ \A k \in 1..n : PrintedAt(FieldEnd(t), k) \in 1..(PrintedAt(FieldEnd(t), n + 1) - 1)
         /\ \A i \in DOMAIN FieldEnd(t) :
              i <= n => PrintedAt(FieldEnd(t), FieldEnd(t)[i]) + 1
                          \in 1..(PrintedAt(FieldEnd(t), n + 1) - 1)
<1> DEFINE E(k) == EndedBefore(FieldEnd(t), k)
           C(k) == Cardinality(E(k))
<1>1. \A k \in Nat : IsFiniteSet(E(k)) /\ C(k) \in Nat
  BY EndedAre
<1>2. \A i \in DOMAIN FieldEnd(t) : i \in Nat /\ FieldEnd(t)[i] \in Nat /\ FieldEnd(t)[i] >= 1
  BY FieldEndIs
<1>3. \A k \in 1..n : E(k) \subseteq E(n + 1)
  BY <1>2 DEF EndedBefore
<1>4. ASSUME NEW i \in DOMAIN FieldEnd(t), i <= n
      PROVE  /\ E(FieldEnd(t)[i]) \cup {i} \subseteq E(n + 1) /\ i \notin E(FieldEnd(t)[i])
             /\ FieldEnd(t)[i] <= n
  <2>1. FieldEnd(t)[i] <= n /\ FieldEnd(t)[i] \in Nat
    BY <1>2, <1>4 DEF Clear
  <2>2. \A a \in DOMAIN FieldEnd(t) : FieldEnd(t)[a] < FieldEnd(t)[i] \/ a = i
                                        => FieldEnd(t)[a] < n + 1
    BY <1>2, <2>1
  <2>3. i \notin E(FieldEnd(t)[i])
    BY <2>1 DEF EndedBefore
  <2> QED
    BY <2>1, <2>2, <2>3 DEF EndedBefore
<1>5. \A k \in Nat : PrintedAt(FieldEnd(t), k) = k + C(k)
  BY DEF PrintedAt
<1> HIDE DEF E
<1>6. n + 1 \in Nat /\ C(n + 1) \in Nat /\ PrintedAt(FieldEnd(t), n + 1) - 1 = n + C(n + 1)
  <2>1. n + 1 \in Nat
    OBVIOUS
  <2>2. C(n + 1) \in Nat
    BY <1>1, <2>1
  <2>3. PrintedAt(FieldEnd(t), n + 1) = (n + 1) + C(n + 1)
    BY <1>5, <2>1
  <2> HIDE DEF C
  <2> QED
    BY <2>1, <2>2, <2>3
<1>7. \A k \in 1..n : C(k) <= C(n + 1) /\ C(k) \in Nat /\ k \in Nat
  <2> TAKE k \in 1..n
  <2>1. k \in Nat /\ n + 1 \in Nat
    OBVIOUS
  <2>2. C(k) \in Nat
    BY <1>1, <2>1
  <2> QED
    BY <1>1, <1>3, <2>1, <2>2, FS_Subset
<1>8. ASSUME NEW i \in DOMAIN FieldEnd(t), i <= n
      PROVE  C(FieldEnd(t)[i]) + 1 <= C(n + 1) /\ C(FieldEnd(t)[i]) \in Nat
  <2> DEFINE e == FieldEnd(t)[i]
  <2>1. e \in Nat
    BY <1>2
  <2>2. /\ E(e) \cup {i} \subseteq E(n + 1) /\ i \notin E(e)
    BY <1>4, <1>8
  <2> HIDE DEF e
  <2>3. Cardinality(E(e) \cup {i}) = C(e) + 1 /\ C(e) \in Nat
    BY <1>1, <2>1, <2>2, FS_AddElement
  <2>4. Cardinality(E(e) \cup {i}) <= C(n + 1)
    BY <1>1, <1>6, <2>2, FS_Subset
  <2> QED
    BY <2>3, <2>4 DEF e
<1> HIDE DEF C
<1>9. \A k \in 1..n : PrintedAt(FieldEnd(t), k) \in 1..(n + C(n + 1))
  BY <1>5, <1>6, <1>7
<1>10. ASSUME NEW i \in DOMAIN FieldEnd(t), i <= n
       PROVE  PrintedAt(FieldEnd(t), FieldEnd(t)[i]) + 1 \in 1..(n + C(n + 1))
  <2>1. /\ FieldEnd(t)[i] \in Nat /\ FieldEnd(t)[i] <= n
        /\ C(FieldEnd(t)[i]) + 1 <= C(n + 1) /\ C(FieldEnd(t)[i]) \in Nat
    BY <1>2, <1>4, <1>8, <1>10
  <2>2. PrintedAt(FieldEnd(t), FieldEnd(t)[i]) = FieldEnd(t)[i] + C(FieldEnd(t)[i])
    BY <1>5, <2>1
  <2> QED
    BY <1>6, <2>1, <2>2
<1> QED
  BY <1>6, <1>9, <1>10

\* What is printed behind leaves that as it is.
LEMMA PrintedStays ==
  ASSUME NEW t \in Seq(Symbol), NEW n \in Nat, Clear(t, n), NEW o, NEW q,
         PrintedSo(t, o, n), \A x \in 1..Len(o) : q[x] = o[x]
  PROVE  /\ \A k \in 1..n : q[PrintedAt(FieldEnd(t), k)] = Echoed(t[k])
         /\ \A i \in DOMAIN FieldEnd(t) :
              i <= n => q[PrintedAt(FieldEnd(t), FieldEnd(t)[i]) + 1] = Replacement
<1>1. /\ \A k \in 1..n : PrintedAt(FieldEnd(t), k) \in 1..Len(o)
      /\ \A i \in DOMAIN FieldEnd(t) :
           i <= n => PrintedAt(FieldEnd(t), FieldEnd(t)[i]) + 1 \in 1..Len(o)
  BY PlacesPrinted DEF PrintedSo
<1> QED
  BY <1>1 DEF PrintedSo

LEMMA EchoOneMore ==
  ASSUME NEW t \in Seq(Symbol), NEW n \in Nat, n < Len(t), Clear(t, n), NEW o, NEW q,
         PrintedSo(t, o, n), \A x \in 1..Len(o) : q[x] = o[x],
         n + 1 \notin DOMAIN FieldEnd(t),
         Len(q) = Len(o) + 1, q[Len(o) + 1] = Echoed(t[n + 1])
  PROVE  /\ PrintedSo(t, q, n + 1) /\ Clear(t, n + 1)
         /\ EndedBefore(FieldEnd(t), (n + 1) + 1) = EndedBefore(FieldEnd(t), n + 1)
<1>1. \A i \in DOMAIN FieldEnd(t) : /\ i \in Nat /\ FieldEnd(t)[i] \in Nat /\ i <= FieldEnd(t)[i]
                                    /\ i # n + 1
  BY FieldEndIs
<1>2. EndedBefore(FieldEnd(t), (n + 1) + 1) = EndedBefore(FieldEnd(t), n + 1)
  <2>1. \A i \in DOMAIN FieldEnd(t) : i > n => FieldEnd(t)[i] >= (n + 1) + 1
    BY <1>1
  <2>2. (n + 1) + 1 \in Nat /\ n + 1 <= (n + 1) + 1
    OBVIOUS
  <2> QED
    BY <2>1, <2>2, EndedStays
<1>3. \A i \in DOMAIN FieldEnd(t) : i <= n + 1 => i <= n
  BY <1>1
<1>4. Clear(t, n + 1)
  <2>1. ASSUME NEW i \in DOMAIN FieldEnd(t), i <= n + 1 PROVE FieldEnd(t)[i] <= n + 1
    <3>1. FieldEnd(t)[i] <= n /\ FieldEnd(t)[i] \in Nat
      BY <1>1, <1>3, <2>1 DEF Clear
    <3> QED
      BY <3>1
  <2> QED
    BY <2>1 DEF Clear
<1>5. Len(o) + 1 = PrintedAt(FieldEnd(t), n + 1)
      /\ PrintedAt(FieldEnd(t), (n + 1) + 1) = PrintedAt(FieldEnd(t), n + 1) + 1
  <2>1. Cardinality(EndedBefore(FieldEnd(t), n + 1)) \in Nat
    BY EndedAre
  <2>2. PrintedAt(FieldEnd(t), n + 1) \in Nat
    BY <2>1 DEF PrintedAt
  <2>3. Len(o) = PrintedAt(FieldEnd(t), n + 1) - 1
    BY DEF PrintedSo
  <2>4. PrintedAt(FieldEnd(t), (n + 1) + 1) = PrintedAt(FieldEnd(t), n + 1) + 1
    BY <1>2, <2>1 DEF PrintedAt
  <2> QED
    BY <2>2, <2>3, <2>4
<1>6. Len(q) = PrintedAt(FieldEnd(t), (n + 1) + 1) - 1
  <2>1. PrintedAt(FieldEnd(t), n + 1) \in Int
    <3>1. Cardinality(EndedBefore(FieldEnd(t), n + 1)) \in Nat
      BY EndedAre
    <3> QED
      BY <3>1 DEF PrintedAt
  <2> QED
    BY <1>5, <2>1
<1>7. \A k \in 1..(n + 1) : q[PrintedAt(FieldEnd(t), k)] = Echoed(t[k])
  <2>1. \A k \in 1..(n + 1) : k \in 1..n \/ k = n + 1
    OBVIOUS
  <2>2. \A k \in 1..n : q[PrintedAt(FieldEnd(t), k)] = Echoed(t[k])
    BY PrintedStays
  <2> QED
    BY <1>5, <2>1, <2>2
<1>8. \A i \in DOMAIN FieldEnd(t) :
        i <= n + 1 => q[PrintedAt(FieldEnd(t), FieldEnd(t)[i]) + 1] = Replacement
  BY <1>3, PrintedStays
<1> QED
  BY <1>2, <1>4, <1>6, <1>7, <1>8 DEF PrintedSo

\* The field from s to e is next, and q has it and the replacement behind o.
NextField(t, n, s, e) == s \in DOMAIN FieldEnd(t) /\ s = n + 1 /\ e = FieldEnd(t)[s]
FieldBehind(t, n, s, e, o, q) ==
  /\ \A x \in 1..Len(o) : q[x] = o[x]
  /\ Len(q) = Len(o) + (e - n) + 1
  /\ \A k \in s..e : q[Len(o) + (k - n)] = Echoed(t[k])
  /\ q[Len(o) + (e - n) + 1] = Replacement

LEMMA FieldMore ==
  ASSUME NEW t \in Seq(Symbol), NEW n \in Nat, Clear(t, n), NEW o, NEW q,
         PrintedSo(t, o, n), NEW s, NEW e, NextField(t, n, s, e), FieldBehind(t, n, s, e, o, q)
  PROVE  PrintedSo(t, q, e) /\ Clear(t, e)
<1>a. s \in DOMAIN FieldEnd(t) /\ s = n + 1 /\ e = FieldEnd(t)[s]
  BY DEF NextField
<1>b. /\ \A x \in 1..Len(o) : q[x] = o[x]
      /\ Len(q) = Len(o) + (e - n) + 1
      /\ \A k \in s..e : q[Len(o) + (k - n)] = Echoed(t[k])
      /\ q[Len(o) + (e - n) + 1] = Replacement
  BY DEF FieldBehind
<1>1. \A i \in DOMAIN FieldEnd(t) : i \in Nat /\ FieldEnd(t)[i] \in Nat /\ i <= FieldEnd(t)[i]
  BY FieldEndIs
<1>2. e \in Nat /\ s <= e /\ s \in Nat
  BY <1>1, <1>a
<1>3. /\ EndedBefore(FieldEnd(t), e + 1) = EndedBefore(FieldEnd(t), n + 1) \cup {s}
      /\ s \notin EndedBefore(FieldEnd(t), n + 1)
      /\ \A i \in DOMAIN FieldEnd(t) : i > n => FieldEnd(t)[i] >= e
      /\ Clear(t, e)
  BY <1>a, EndedGrows
<1>4. PICK c \in Nat : /\ c = Cardinality(EndedBefore(FieldEnd(t), n + 1))
                       /\ IsFiniteSet(EndedBefore(FieldEnd(t), n + 1))
  BY EndedAre
<1>5. Cardinality(EndedBefore(FieldEnd(t), e + 1)) = c + 1
  BY <1>3, <1>4, FS_AddElement
<1>6. \A k \in s..e : Cardinality(EndedBefore(FieldEnd(t), k)) = c
  <2> TAKE k \in s..e
  <2>1. k \in Nat /\ n + 1 <= k /\ k <= e
    BY <1>2, <1>a
  <2>2. \A i \in DOMAIN FieldEnd(t) : i > n => FieldEnd(t)[i] >= k
    BY <1>1, <1>2, <1>3, <2>1
  <2>3. EndedBefore(FieldEnd(t), k) = EndedBefore(FieldEnd(t), n + 1)
    BY <2>1, <2>2, EndedStays
  <2> QED
    BY <1>4, <2>3
<1>7. Len(o) = n + c
  <2>1. Len(o) = PrintedAt(FieldEnd(t), n + 1) - 1
    BY DEF PrintedSo
  <2> QED
    BY <1>4, <2>1 DEF PrintedAt
<1>8. Len(q) = PrintedAt(FieldEnd(t), e + 1) - 1
  <2>1. PrintedAt(FieldEnd(t), e + 1) = (e + 1) + (c + 1)
    BY <1>5 DEF PrintedAt
  <2> QED
    BY <1>2, <1>7, <1>a, <1>b, <2>1
<1>9. \A k \in s..e : PrintedAt(FieldEnd(t), k) = Len(o) + (k - n)
  <2> TAKE k \in s..e
  <2>1. PrintedAt(FieldEnd(t), k) = k + c
    BY <1>6 DEF PrintedAt
  <2> QED
    BY <1>2, <1>7, <1>a, <2>1
<1>10. \A k \in 1..e : q[PrintedAt(FieldEnd(t), k)] = Echoed(t[k])
  <2>1. \A k \in 1..e : k \in 1..n \/ k \in s..e
    BY <1>2, <1>a
  <2>2. \A k \in 1..n : q[PrintedAt(FieldEnd(t), k)] = Echoed(t[k])
    BY <1>b, PrintedStays
  <2> QED
    BY <1>9, <1>b, <2>1, <2>2
<1>11. ASSUME NEW i \in DOMAIN FieldEnd(t), i <= e
       PROVE  q[PrintedAt(FieldEnd(t), FieldEnd(t)[i]) + 1] = Replacement
  <2>1. CASE i <= n
    BY <1>b, <2>1, PrintedStays
  <2>2. CASE i = s
    <3>1. e \in s..e
      BY <1>2
    <3>2. PrintedAt(FieldEnd(t), e) = Len(o) + (e - n)
      BY <1>9, <3>1
    <3> QED
      BY <1>a, <1>b, <2>2, <3>2
  <2>3. i <= n \/ i = s
    <3>1. i \in Nat
      BY <1>1
    <3>2. s < i => e < i
      BY <1>a, EndsApart
    <3> QED
      BY <1>2, <1>11, <1>a, <3>1, <3>2
  <2> QED
    BY <2>1, <2>2, <2>3
<1> QED
  BY <1>3, <1>8, <1>10, <1>11 DEF PrintedSo


\* The fields up to the end of the next one.
LEMMA FieldsGrow ==
  ASSUME NEW t \in Seq(Symbol), NEW n \in Nat, Clear(t, n), NEW s \in DOMAIN FieldEnd(t),
         s = n + 1, NEW e, e = FieldEnd(t)[s]
  PROVE  /\ InFields(FieldEnd(t), n + 1) \in SUBSET (1..n)
         /\ InFields(FieldEnd(t), e + 1) = InFields(FieldEnd(t), n + 1) \cup (n + 1)..e
<1>1. \A i \in DOMAIN FieldEnd(t) : /\ i \in Nat /\ i >= 1 /\ FieldEnd(t)[i] \in Nat
  BY FieldEndIs
<1>2. InFields(FieldEnd(t), n + 1) \in SUBSET (1..n)
  <2>1. ASSUME NEW i \in EndedBefore(FieldEnd(t), n + 1), NEW x \in i..FieldEnd(t)[i]
        PROVE  x \in 1..n
    <3>1. i \in Nat /\ i >= 1 /\ FieldEnd(t)[i] \in Nat /\ FieldEnd(t)[i] < n + 1
      BY <1>1 DEF EndedBefore
    <3> QED
      BY <3>1
  <2> QED
    BY <2>1 DEF InFields
<1>3. EndedBefore(FieldEnd(t), e + 1) = EndedBefore(FieldEnd(t), n + 1) \cup {s}
  BY EndedGrows
<1>4. InFields(FieldEnd(t), e + 1) = InFields(FieldEnd(t), n + 1) \cup s..FieldEnd(t)[s]
  BY <1>3, Zenon DEF InFields
<1> QED
  BY <1>2, <1>4

\* What the scanner writes.
Printable == {Echoed(c) : c \in Symbol} \cup {Replacement}

LEMMA WrittenBehind ==
  ASSUME NEW S, NEW o \in Seq(S), NEW w \in Seq(S)
  PROVE  /\ o \o w \in Seq(S) /\ Len(o \o w) = Len(o) + Len(w)
         /\ \A x \in 1..Len(o) : (o \o w)[x] = o[x]
         /\ \A x \in 1..Len(w) : (o \o w)[Len(o) + x] = w[x]
OBVIOUS

LEMMA EchoedAhead ==
  ASSUME text \in Seq(Symbol), at \in 0..Len(text), NEW m \in Nat, at + m <= Len(text)
  PROVE  /\ EchoNext(m) \in Seq(Printable) /\ Len(EchoNext(m)) = m
         /\ \A x \in 1..m : EchoNext(m)[x] = Echoed(text[at + x])
<1>1. ASSUME NEW x \in 1..m
      PROVE  Echoed(Peek(x - 1)) = Echoed(text[at + x]) /\ Echoed(text[at + x]) \in Printable
  <2>1. PICK k, p \in Nat : k = x - 1 /\ p = at + x
    OBVIOUS
  <2>2. p = (at + 1) + k /\ p <= Len(text)
    BY <2>1
  <2>3. Peek(k) = text[p] /\ text[p] \in Symbol
    BY <2>2, PeekIs
  <2> QED
    BY <2>1, <2>3 DEF Printable
<1>2. EchoNext(m) = [x \in 1..m |-> Echoed(Peek(x - 1))]
  BY DEF EchoNext
<1> QED
  BY <1>1, <1>2

\* The invariant: besides the property, that the scanner is in front of no part
\* of a field, and that line_buffer has the bytes of the fields behind it.
RewriteInv ==
  program = "rewrite" =>
    /\ text \in Seq(Symbol) /\ at \in 0..Len(text) /\ out \in Seq(Printable)
    /\ PrintedSo(text, out, at) /\ Clear(text, at)
    /\ line_buffer = Bytes(text, InFields(FieldEnd(text), at + 1))
    /\ line_buffer < LINE_BUFFER
    /\ scanner = "ended" => at = Len(text)
    /\ scanner = "overflow" =>
         /\ at + 1 \in DOMAIN FieldEnd(text)
         /\ Bytes(text, InFields(FieldEnd(text), FieldEnd(text)[at + 1] + 1)) >= LINE_BUFFER

LEMMA RewriteBegins == ASSUME RewriteInit PROVE RewriteInv
<1>1. text \in Seq(Symbol) /\ at = 0 /\ out = <<>> /\ scanner = "runs" /\ line_buffer = 0
  BY InputAssumption DEF RewriteInit, ScannerInit
<1>2. PICK t \in Seq(Symbol) : t = text
  BY <1>1
<1>3. \A i \in DOMAIN FieldEnd(t) : i \in Nat /\ i >= 1 /\ FieldEnd(t)[i] \in Nat /\ FieldEnd(t)[i] >= 1
  BY FieldEndIs
<1>4. EndedBefore(FieldEnd(t), 0 + 1) = {}
  BY <1>3 DEF EndedBefore
<1>5. InFields(FieldEnd(t), 0 + 1) = {}
  BY <1>4 DEF InFields
<1>6. Cardinality({}) = 0
  BY FS_EmptySet
<1>7. Bytes(t, {}) = 0
  <2>1. {k \in {} : t[k] = PATTERN} = {}
    OBVIOUS
  <2>2. Bytes(t, {}) = 0 + 4 * 0
    BY <1>6, <2>1 DEF Bytes
  <2> QED
    BY <2>2
<1>8. PrintedAt(FieldEnd(t), 0 + 1) = 1
  BY <1>4, <1>6 DEF PrintedAt
<1>9. PrintedSo(t, <<>>, 0)
  <2>1. \A i \in DOMAIN FieldEnd(t) : ~(i <= 0)
    BY <1>3
  <2>2. \A k \in 1..0 : FALSE
    OBVIOUS
  <2>3. Len(<<>>) = PrintedAt(FieldEnd(t), 0 + 1) - 1
    BY <1>8
  <2> QED
    BY <2>1, <2>2, <2>3 DEF PrintedSo
<1>10. Clear(t, 0)
  BY <1>3 DEF Clear
<1>11. 0 < LINE_BUFFER /\ 0 \in 0..Len(text) /\ <<>> \in Seq(Printable)
  BY <1>1, BufferAssumption
<1>12. scanner # "ended" /\ scanner # "overflow"
  BY <1>1
<1> QED
  BY <1>1, <1>2, <1>5, <1>7, <1>9, <1>10, <1>11, <1>12 DEF RewriteInv

LEMMA OthersStep ==
  ASSUME RewriteInv, PrintOther
  PROVE  RewriteInv'
<1>1. /\ program = "rewrite" /\ scanner = "runs" /\ program' = program /\ text' = text
      /\ scanner' = scanner /\ at' = at + 1 /\ out' = Append(out, Echoed(Head1))
      /\ line_buffer' = line_buffer /\ at < Len(text) /\ FieldLength = 0
  BY DEF PrintOther, Runs, More, Echo, Take
<1>2. /\ text \in Seq(Symbol) /\ at \in 0..Len(text) /\ out \in Seq(Printable)
      /\ PrintedSo(text, out, at) /\ Clear(text, at)
      /\ line_buffer = Bytes(text, InFields(FieldEnd(text), at + 1))
      /\ line_buffer < LINE_BUFFER
  BY <1>1 DEF RewriteInv
<1>3. PICK t \in Seq(Symbol) : t = text
  BY <1>2
<1>4. PICK n \in Nat : n = at
  BY <1>2
<1>5. PICK o \in Seq(Printable) : o = out
  BY <1>2
<1>6. Head1 = t[n + 1] /\ t[n + 1] \in Symbol
  <2>1. PICK p \in Nat : p = n + 1
    OBVIOUS
  <2>2. p = (at + 1) + 0 /\ p <= Len(text) /\ 0 \in Nat
    BY <1>1, <1>4, <2>1
  <2>3. Peek(0) = text[p] /\ text[p] \in Symbol
    BY <1>2, <2>2, PeekIs
  <2> QED
    BY <1>3, <2>1, <2>3 DEF Head1
<1>7. PICK q : q = Append(o, Echoed(t[n + 1]))
  OBVIOUS
<1>8. /\ q \in Seq(Printable) /\ Len(q) = Len(o) + 1 /\ q[Len(o) + 1] = Echoed(t[n + 1])
      /\ \A x \in 1..Len(o) : q[x] = o[x]
  <2>1. Echoed(t[n + 1]) \in Printable
    BY <1>6 DEF Printable
  <2> QED
    BY <1>7, <2>1
<1>9. n + 1 \notin DOMAIN FieldEnd(t)
  <2>1. FieldEnds(t, n + 1) = {}
    BY <1>1, <1>2, <1>3, <1>4, FieldIsMatched
  <2> QED
    BY <2>1, FieldEndIs
<1>10. n < Len(t) /\ Clear(t, n) /\ PrintedSo(t, o, n)
  BY <1>1, <1>2, <1>3, <1>4, <1>5
<1>11. /\ PrintedSo(t, q, n + 1) /\ Clear(t, n + 1)
       /\ EndedBefore(FieldEnd(t), (n + 1) + 1) = EndedBefore(FieldEnd(t), n + 1)
  BY <1>8, <1>9, <1>10, EchoOneMore
<1>12. line_buffer = Bytes(t, InFields(FieldEnd(t), (n + 1) + 1))
  BY <1>2, <1>3, <1>4, <1>11 DEF InFields
<1>13. /\ text' = t /\ at' = n + 1 /\ out' = q /\ n + 1 \in 0..Len(t)
  BY <1>1, <1>3, <1>4, <1>5, <1>6, <1>7, <1>10
<1>14. scanner' # "ended" /\ scanner' # "overflow"
  BY <1>1
<1> QED
  BY <1>1, <1>2, <1>8, <1>11, <1>12, <1>13, <1>14 DEF RewriteInv

LEMMA FieldStep ==
  ASSUME RewriteInv, RewriteField
  PROVE  RewriteInv'
<1>1. /\ program = "rewrite" /\ scanner = "runs" /\ program' = program /\ text' = text
      /\ FieldLength > 0
  BY DEF RewriteField, Runs, Take
<1>2. /\ text \in Seq(Symbol) /\ at \in 0..Len(text) /\ out \in Seq(Printable)
      /\ PrintedSo(text, out, at) /\ Clear(text, at)
      /\ line_buffer = Bytes(text, InFields(FieldEnd(text), at + 1))
      /\ line_buffer < LINE_BUFFER
  BY <1>1 DEF RewriteInv
<1>3. PICK t \in Seq(Symbol) : t = text
  BY <1>2
<1>4. PICK n \in Nat : n = at
  BY <1>2
<1>5. PICK o \in Seq(Printable) : o = out
  BY <1>2
<1>6. PICK m \in Nat : m = FieldLength
  BY <1>2, FieldIsMatched
<1>7. PICK s \in Nat : s = n + 1
  OBVIOUS
<1>8. n + m \in FieldEnds(t, s) /\ \A j \in FieldEnds(t, s) : j <= n + m
  <2>1. m > 0
    BY <1>1, <1>6
  <2>2. at + m \in FieldEnds(text, at + 1) /\ \A j \in FieldEnds(text, at + 1) : j <= at + m
    BY <1>2, <1>6, <2>1, FieldIsMatched
  <2> QED
    BY <1>3, <1>4, <1>7, <2>2
<1>9. n + m \in s..Len(t) /\ n + m <= Len(t) /\ s \in 1..Len(t)
  <2>1. n + m \in s..Len(t)
    BY <1>8 DEF FieldEnds
  <2> QED
    BY <1>7, <2>1
<1>10. s \in DOMAIN FieldEnd(t)
  BY <1>8, <1>9, FieldEndIs
<1>11. FieldEnd(t)[s] = n + m
  <2>1. /\ FieldEnd(t)[s] \in FieldEnds(t, s) /\ FieldEnd(t)[s] \in Nat
        /\ \A j \in FieldEnds(t, s) : j <= FieldEnd(t)[s]
    BY <1>10, FieldEndIs
  <2>2. FieldEnd(t)[s] <= n + m /\ n + m <= FieldEnd(t)[s]
    BY <1>8, <2>1
  <2> QED
    BY <2>1, <2>2
<1>12. PICK e \in Nat : e = n + m
  OBVIOUS
<1>13. Clear(t, n) /\ PrintedSo(t, o, n) /\ e = FieldEnd(t)[s] /\ e \in 0..Len(t)
  BY <1>2, <1>3, <1>4, <1>5, <1>9, <1>11, <1>12
<1>14. Bytes(t, InFields(FieldEnd(t), e + 1)) = Appended(m)
  <2>1. /\ InFields(FieldEnd(t), n + 1) \in SUBSET (1..n)
        /\ InFields(FieldEnd(t), e + 1) = InFields(FieldEnd(t), n + 1) \cup (n + 1)..e
    BY <1>7, <1>10, <1>13, FieldsGrow
  <2>2. n <= e
    BY <1>12
  <2>3. Bytes(t, InFields(FieldEnd(t), e + 1))
          = Bytes(t, InFields(FieldEnd(t), n + 1)) + Bytes(t, (n + 1)..e)
    BY <2>1, <2>2, BytesAdd
  <2>4. Appended(m) = line_buffer + Bytes(t, (n + 1)..e)
    BY <1>3, <1>4, <1>12 DEF Appended
  <2> QED
    BY <1>2, <1>3, <1>4, <2>3, <2>4
<1>15. CASE ~(Appended(m) >= LINE_BUFFER)
  <2>1. /\ out' = out \o Rewritten(m) /\ line_buffer' = Appended(m) /\ at' = at + m
        /\ scanner' = scanner
    BY <1>6, <1>15 DEF RewriteField, Take
  <2>2. /\ EchoNext(m) \in Seq(Printable) /\ Len(EchoNext(m)) = m
        /\ \A x \in 1..m : EchoNext(m)[x] = Echoed(t[n + x])
    BY <1>2, <1>3, <1>4, <1>9, EchoedAhead
  <2>3. PICK w \in Seq(Printable) : w = EchoNext(m)
    BY <2>2
  <2>4. <<Replacement>> \in Seq(Printable) /\ Len(<<Replacement>>) = 1 /\ <<Replacement>>[1] = Replacement
    BY DEF Printable
  <2>5. PICK r \in Seq(Printable) : r = w \o <<Replacement>>
    BY <2>4, WrittenBehind
  <2>6. /\ Len(r) = m + 1 /\ r[m + 1] = Replacement
        /\ \A x \in 1..m : r[x] = Echoed(t[n + x])
    BY <2>2, <2>3, <2>4, <2>5, WrittenBehind
  <2>7. PICK q \in Seq(Printable) : q = o \o r
    BY WrittenBehind
  <2>8. /\ Len(q) = Len(o) + (m + 1)
        /\ \A x \in 1..Len(o) : q[x] = o[x]
        /\ \A x \in 1..(m + 1) : q[Len(o) + x] = r[x]
    BY <2>6, <2>7, WrittenBehind
  <2>9. out' = q
    BY <1>5, <2>1, <2>3, <2>5, <2>7 DEF Rewritten
  <2>10. Len(o) \in Nat
    OBVIOUS
  <2>11. Len(q) = Len(o) + (e - n) + 1 /\ q[Len(o) + (e - n) + 1] = Replacement
    <3>1. Len(o) + (e - n) + 1 = Len(o) + (m + 1) /\ m + 1 \in 1..(m + 1)
      BY <1>12, <2>10
    <3> QED
      BY <2>6, <2>8, <3>1
  <2>12. ASSUME NEW k \in s..e PROVE q[Len(o) + (k - n)] = Echoed(t[k])
    <3>1. k - n \in 1..m /\ k - n \in 1..(m + 1) /\ n + (k - n) = k
      BY <1>7, <1>12
    <3>2. q[Len(o) + (k - n)] = r[k - n]
      BY <2>8, <3>1
    <3>3. r[k - n] = Echoed(t[n + (k - n)])
      BY <2>6, <3>1
    <3> QED
      BY <3>1, <3>2, <3>3
  <2>13. PrintedSo(t, q, e) /\ Clear(t, e)
    <3>1. NextField(t, n, s, e)
      BY <1>7, <1>10, <1>13 DEF NextField
    <3>2. FieldBehind(t, n, s, e, o, q)
      BY <2>8, <2>11, <2>12 DEF FieldBehind
    <3> QED
      BY <1>13, <3>1, <3>2, FieldMore
  <2>14. line_buffer' < LINE_BUFFER
    <3>1. Appended(m) \in Nat
      <4>1. /\ InFields(FieldEnd(t), n + 1) \in SUBSET (1..n) /\ n <= e
        BY <1>7, <1>10, <1>12, <1>13, FieldsGrow
      <4>2. Bytes(t, InFields(FieldEnd(t), n + 1)) \in Nat /\ Bytes(t, (n + 1)..e) \in Nat
        BY <4>1, BytesAdd
      <4>3. Appended(m) = line_buffer + Bytes(t, (n + 1)..e)
        BY <1>3, <1>4, <1>12 DEF Appended
      <4> QED
        BY <1>2, <1>3, <1>4, <4>2, <4>3
    <3> QED
      BY <1>15, <2>1, <3>1, BufferAssumption
  <2>15. text' = t /\ at' = e /\ line_buffer' = Bytes(t, InFields(FieldEnd(t), e + 1))
    BY <1>1, <1>3, <1>4, <1>12, <1>14, <2>1
  <2>16. scanner' # "ended" /\ scanner' # "overflow"
    BY <1>1, <2>1
  <2> QED
    BY <1>1, <1>13, <2>9, <2>13, <2>14, <2>15, <2>16 DEF RewriteInv
<1>16. CASE Appended(m) >= LINE_BUFFER
  <2>1. /\ scanner' = "overflow" /\ at' = at /\ out' = out /\ line_buffer' = line_buffer
    BY <1>6, <1>16 DEF RewriteField
  <2>2. Bytes(t, InFields(FieldEnd(t), FieldEnd(t)[s] + 1)) >= LINE_BUFFER
    BY <1>13, <1>14, <1>16
  <2>3. scanner' # "ended"
    BY <2>1
  <2> QED
    BY <1>1, <1>2, <1>3, <1>4, <1>7, <1>10, <2>1, <2>2, <2>3 DEF RewriteInv
<1> QED
  BY <1>15, <1>16

\* What is rewritten, for texts of any length and buffers of any size: all of the
\* text is printed, with the replacement behind each field that the rule takes,
\* line_buffer has the bytes of these fields, and the program leaves its buffer
\* at the first field that no longer fits (rewrite_source_code/scanner.l:96-106).
THEOREM EveryFieldGetsItsText == RewriteSpec => []EveryFieldIsRewritten
<1>1. RewriteInit => RewriteInv
  BY RewriteBegins
<1>2. RewriteInv /\ [RewriteNext]_<<scanned, line_buffer>> => RewriteInv'
  <2> SUFFICES ASSUME RewriteInv, [RewriteNext]_<<scanned, line_buffer>>
               PROVE  RewriteInv'
    OBVIOUS
  <2>1. CASE RewriteField
    BY <2>1, FieldStep
  <2>2. CASE PrintOther
    BY <2>2, OthersStep
  <2>3. CASE RewriteReturn
    <3>1. /\ program = "rewrite" /\ program' = program /\ text' = text /\ at' = at
          /\ out' = out \o <<>> /\ scanner' = "ended" /\ line_buffer' = line_buffer /\ ~(at < Len(text))
      BY <2>3 DEF RewriteReturn, Ends, Runs, More
    <3>2. text \in Seq(Symbol) /\ at \in 0..Len(text) /\ out \in Seq(Printable)
      BY <3>1 DEF RewriteInv
    <3>3. out' = out
      BY <3>1, <3>2
    <3>4. at = Len(text) /\ scanner' # "overflow"
      BY <3>1, <3>2
    <3> QED
      BY <3>1, <3>2, <3>3, <3>4 DEF RewriteInv
  <2>4. CASE UNCHANGED <<scanned, line_buffer>>
    BY <2>4 DEF RewriteInv, scanned
  <2> QED
    BY <2>1, <2>2, <2>3, <2>4 DEF RewriteNext
<1>3. RewriteInv => EveryFieldIsRewritten
  BY DEF RewriteInv, PrintedSo, EveryFieldIsRewritten
<1> QED
  BY <1>1, <1>2, <1>3, PTL DEF RewriteSpec

-----------------------------------------------------------------------------
(* get_max and average: what they add up, for texts of any length.           *)

\* Sums, and numbers of digits: functions on 0..n that are given by their values
\* further down exist.
Upwards(n, c, add, f) == f = [k \in 0..n |-> IF k = 0 THEN 0 ELSE c * f[k - 1] + add[k]]

LEMMA SumsExist ==
  ASSUME NEW n \in Nat, NEW c \in {1, 10}, NEW add, \A k \in 1..n : add[k] \in Nat
  PROVE  /\ \E f : Upwards(n, c, add, f)
         /\ \A f : Upwards(n, c, add, f) => \A k \in 0..n : f[k] \in Nat
<1> DEFINE Holds(d, f) == f = [k \in 0..d |-> IF k = 0 THEN 0 ELSE c * f[k - 1] + add[k]]
           T == {d \in 0..n : \E f : Holds(d, f)}
<1>1. 0 \in T
  <2>1. Holds(0, [k \in 0..0 |-> 0])
    OBVIOUS
  <2> HIDE DEF Holds
  <2> QED
    BY <2>1
<1>2. ASSUME NEW d \in 0..(n - 1), d \in T PROVE d + 1 \in T
  <2>1. PICK g : Holds(d, g)
    BY <1>2
  <2> DEFINE h == [k \in 0..(d + 1) |-> IF k = d + 1 THEN c * g[d] + add[d + 1] ELSE g[k]]
             w == [k \in 0..(d + 1) |-> IF k = 0 THEN 0 ELSE c * h[k - 1] + add[k]]
  <2>2. \A k \in 0..d : h[k] = g[k]
    OBVIOUS
  <2>3. h[d + 1] = c * g[d] + add[d + 1] /\ d \in 0..d /\ d + 1 # 0 /\ (d + 1) - 1 = d
    OBVIOUS
  <2>4. \A k \in 0..(d + 1) : k = d + 1 \/ k \in 0..d
    OBVIOUS
  <2>5. \A k \in 0..d : g[k] = IF k = 0 THEN 0 ELSE c * g[k - 1] + add[k]
    BY <2>1
  <2>6. \A k \in 0..d : k # 0 => k - 1 \in 0..d
    OBVIOUS
  <2>d. DOMAIN h = 0..(d + 1) /\ h = [k \in DOMAIN h |-> h[k]]
    OBVIOUS
  <2> HIDE DEF h
  <2>7. \A k \in 0..(d + 1) : h[k] = IF k = 0 THEN 0 ELSE c * h[k - 1] + add[k]
    <3> TAKE k \in 0..(d + 1)
    <3>1. CASE k = d + 1
      BY <2>2, <2>3, <3>1
    <3>2. CASE k \in 0..d
      BY <2>2, <2>5, <2>6, <3>2
    <3> QED
      BY <2>4, <3>1, <3>2
  <2>8. Holds(d + 1, h)
    BY <2>7, <2>d
  <2> HIDE DEF Holds
  <2> QED
    BY <2>8
<1> HIDE DEF T
<1>3. n \in T
  BY <1>1, <1>2, CountUp
<1>4. \E f : Holds(n, f)
  BY <1>3 DEF T
<1> HIDE DEF Holds
<1>5. ASSUME NEW f, Upwards(n, c, add, f) PROVE \A k \in 0..n : f[k] \in Nat
  <2> DEFINE V == {k \in 0..n : f[k] \in Nat}
  <2>1. f = [k \in 0..n |-> IF k = 0 THEN 0 ELSE c * f[k - 1] + add[k]]
    BY <1>5 DEF Upwards
  <2>2. 0 \in V
    BY <2>1
  <2>3. ASSUME NEW d \in 0..(n - 1), d \in V PROVE d + 1 \in V
    <3>1. d + 1 \in 0..n /\ d + 1 \in 1..n /\ d + 1 # 0 /\ (d + 1) - 1 = d
      OBVIOUS
    <3>2. f[d + 1] = c * f[d] + add[d + 1]
      BY <2>1, <3>1
    <3>3. f[d] \in Nat /\ add[d + 1] \in Nat
      BY <2>3, <3>1
    <3> QED
      BY <3>1, <3>2, <3>3
  <2> HIDE DEF V
  <2>4. \A k \in 0..n : k \in V
    BY <2>2, <2>3, CountUp
  <2> QED
    BY <2>4 DEF V
<1> QED
  BY <1>4, <1>5 DEF Upwards, Holds

\* The value of a sequence of digits.
DigitsOf(ds) == [k \in 1..Len(ds) |-> DigitValue[ds[k]]]

LEMMA DigitValues == \A d \in Digit : DigitValue[d] \in Nat
<1> SUFFICES ASSUME NEW d \in Digit PROVE DigitValue[d] \in Nat
  OBVIOUS
<1>1. \E v \in 0..9 : Numeral[v + 1] = d
  <2>1. /\ Numeral[0 + 1] = "0" /\ Numeral[1 + 1] = "1" /\ Numeral[2 + 1] = "2" /\ Numeral[3 + 1] = "3"
        /\ Numeral[4 + 1] = "4" /\ Numeral[5 + 1] = "5" /\ Numeral[6 + 1] = "6" /\ Numeral[7 + 1] = "7"
        /\ Numeral[8 + 1] = "8" /\ Numeral[9 + 1] = "9"
    BY DEF Numeral
  <2> QED
    BY <2>1 DEF Digit
<1>2. DigitValue[d] = CHOOSE v \in 0..9 : Numeral[v + 1] = d
  BY DEF DigitValue
<1>3. DigitValue[d] \in 0..9
  BY <1>1, <1>2
<1> QED
  BY <1>3

LEMMA ValueIsNatural ==
  ASSUME NEW ds \in Seq(Digit)
  PROVE  atol(ds) \in Nat
<1> DEFINE n == Len(ds)
           Value(f) == f = [k \in 0..n |-> IF k = 0 THEN 0 ELSE 10 * f[k - 1] + DigitValue[ds[k]]]
           v == CHOOSE f : Value(f)
<1>1. atol(ds) = v[n]
  BY Zenon DEF atol
<1>2. n \in Nat /\ n \in 0..n /\ \A k \in 1..n : DigitsOf(ds)[k] \in Nat
  BY DigitValues DEF DigitsOf
<1>3. \A f : Value(f) <=> Upwards(n, 10, DigitsOf(ds), f)
  <2> TAKE f
  <2>1. \A k \in 0..n : k # 0 => DigitsOf(ds)[k] = DigitValue[ds[k]]
    BY <1>2 DEF DigitsOf
  <2>2. [k \in 0..n |-> IF k = 0 THEN 0 ELSE 10 * f[k - 1] + DigitValue[ds[k]]]
        = [k \in 0..n |-> IF k = 0 THEN 0 ELSE 10 * f[k - 1] + DigitsOf(ds)[k]]
    BY <2>1
  <2> QED
    BY <2>2, Zenon DEF Upwards
<1> HIDE DEF Value, n
<1>4. /\ \E f : Upwards(n, 10, DigitsOf(ds), f)
      /\ \A f : Upwards(n, 10, DigitsOf(ds), f) => \A k \in 0..n : f[k] \in Nat
  BY <1>2, SumsExist
<1>5. Value(v)
  BY <1>3, <1>4, Zenon
<1>6. \A k \in 0..n : v[k] \in Nat
  BY <1>3, <1>4, <1>5, Zenon
<1> QED
  BY <1>1, <1>2, <1>6

\* A number is as long as digits follow.
NumberEnds(k) == {e \in k..Len(text) : e + 1 \notin Digits}

LEMMA NumbersAre ==
  ASSUME text \in Seq(Symbol), NEW k \in Digits
  PROVE  /\ NumberAt(k) \in Nat
         /\ \A e \in k..Len(text) :
              /\ e + 1 \notin Digits
              /\ \A i \in k..e : i \in Digits
              => NumberAt(k) = atol(SubSeq(text, k, e))
<1>1. Len(text) \in Nat /\ k \in 1..Len(text) /\ k \in Nat
  BY DEF Digits
<1>2. NumberEnds(k) \in SUBSET Nat /\ Len(text) \in NumberEnds(k)
  BY <1>1 DEF NumberEnds, Digits
<1>3. NumberAt(k) = atol(SubSeq(text, k, Min(NumberEnds(k))))
  BY DEF NumberAt, NumberEnds
<1>4. ASSUME NEW e \in k..Len(text), e + 1 \notin Digits, \A i \in k..e : i \in Digits
      PROVE  Min(NumberEnds(k)) = e
  <2>1. e \in NumberEnds(k)
    BY <1>4 DEF NumberEnds
  <2>2. \A y \in NumberEnds(k) : e <= y
    <3> TAKE y \in NumberEnds(k)
    <3>1. y \in k..Len(text) /\ y + 1 \notin Digits
      BY DEF NumberEnds
    <3>2. y < e => y + 1 \in k..e
      BY <1>1, <3>1
    <3> QED
      BY <1>1, <1>4, <3>1, <3>2
  <2> QED
    BY <1>2, <2>1, <2>2, MinIsOnly
<1>5. PICK m \in NumberEnds(k) : m = Min(NumberEnds(k)) /\ \A y \in NumberEnds(k) : m <= y
  BY <1>2, MinIs
<1>6. m \in k..Len(text) /\ m \in Nat
  BY <1>1, <1>5 DEF NumberEnds
<1>7. \A i \in k..m : i \in Digits
  <2> SUFFICES ASSUME NEW i \in k..m, i # k PROVE i \in Digits
    OBVIOUS
  <2>1. i - 1 \in k..Len(text) /\ ~(m <= i - 1) /\ (i - 1) + 1 = i
    BY <1>1, <1>6
  <2> QED
    BY <1>5, <2>1 DEF NumberEnds
<1>8. SubSeq(text, k, m) \in Seq(Digit)
  <2>1. \A i \in k..m : text[i] \in Digit
    BY <1>7 DEF Digits
  <2>2. /\ SubSeq(text, k, m) = [i \in 1..(m - k + 1) |-> text[k + i - 1]]
        /\ \A i \in 1..(m - k + 1) : k + i - 1 \in k..m
    BY <1>1, <1>6
  <2>3. m - k + 1 \in Nat
    BY <1>1, <1>6
  <2> QED
    BY <2>1, <2>2, <2>3
<1>9. NumberAt(k) \in Nat
  BY <1>3, <1>5, <1>8, ValueIsNatural
<1> QED
  BY <1>3, <1>4, <1>9

\* The symbols that Span(Digit) takes.
LEMMA DigitsAhead ==
  ASSUME text \in Seq(Symbol), at \in 0..Len(text), Head1 \in Digit
  PROVE  /\ at + 1 \in Digits
         /\ Head1 = text[at + 1] /\ at < Len(text)
         /\ \E n \in Nat : /\ n = Span(Digit) /\ n >= 1 /\ at + n \in (at + 1)..Len(text)
                           /\ \A i \in (at + 1)..(at + n) : i \in Digits
                           /\ at + n + 1 \notin Digits
<1>1. OfSymbols(Digit) /\ at \in Nat /\ Len(text) \in Nat /\ at + 1 \in Nat /\ at + 1 = (at + 1) + 0
  BY DEF OfSymbols, Digit
<1>2. /\ at + 1 <= Len(text) => Head1 = text[at + 1] /\ at + 1 \in 1..Len(text)
      /\ at + 1 > Len(text) => Head1 = ""
  BY <1>1, PeekIs DEF Head1
<1>3. at + 1 <= Len(text) /\ Head1 = text[at + 1] /\ at + 1 \in 1..Len(text)
  <2>1. Head1 # ""
    BY <1>1, Zenon DEF OfSymbols
  <2>2. ~(at + 1 > Len(text))
    BY <1>2, <2>1, Zenon
  <2>3. at + 1 <= Len(text)
    BY <1>1, <2>2
  <2> QED
    BY <1>2, <2>3, Zenon
<1>4. at + 1 \in Digits
  BY <1>3 DEF Digits
<1>5. PICK n \in Nat : n = SpanAt(0, Digit) /\ Spans(at + 1, at + 1 + n, Digit)
  BY <1>1, SpanEnds
<1>6. /\ \A x \in (at + 1)..(at + 1 + n - 1) : x <= Len(text) /\ text[x] \in Digit
      /\ at + 1 + n <= Len(text) => text[at + 1 + n] \notin Digit
  BY <1>5 DEF Spans
<1>7. n >= 1
  <2>1. n = 0 => at + 1 + n = at + 1
    BY <1>1
  <2> QED
    BY <1>3, <1>5, <1>6, <2>1
<1>8. \A x \in (at + 1)..(at + n) : x <= Len(text) /\ text[x] \in Digit /\ x \in 1..Len(text)
  <2>1. at + 1 + n - 1 = at + n
    BY <1>1, <1>5
  <2> QED
    BY <1>1, <1>6, <2>1
<1>9. at + n \in (at + 1)..(at + n) /\ at + n + 1 = at + 1 + n
  BY <1>1, <1>5, <1>7
<1>10. at + n + 1 \notin Digits
  BY <1>1, <1>6, <1>9 DEF Digits
<1>11. at + n \in (at + 1)..Len(text)
  BY <1>1, <1>7, <1>8, <1>9
<1>12. at < Len(text)
  BY <1>1, <1>3
<1> QED
  BY <1>3, <1>4, <1>5, <1>7, <1>8, <1>10, <1>11, <1>12 DEF Span, Digits

\* The sum up to a place, by the numbers that begin there.
LEMMA TotalsAre ==
  ASSUME text \in Seq(Symbol)
  PROVE  /\ Totals[0] = 0
         /\ \A k \in 1..Len(text) :
              Totals[k] = Totals[k - 1] + (IF k \in LeadingNumbers THEN NumberAt(k) ELSE 0)
         /\ \A k \in 0..Len(text) : Totals[k] \in Nat
<1> DEFINE n == Len(text)
           add == [k \in 1..n |-> IF k \in LeadingNumbers THEN NumberAt(k) ELSE 0]
           Sums(f) == f = [k \in 0..n |->
                        IF k = 0 THEN 0
                        ELSE f[k - 1] + (IF k \in LeadingNumbers THEN NumberAt(k) ELSE 0)]
<1>1. Totals = CHOOSE f : Sums(f)
  BY Zenon DEF Totals
<1>2. n \in Nat /\ 1 \in {1, 10}
  OBVIOUS
<1>3. \A k \in 1..n : add[k] \in Nat
  <2> TAKE k \in 1..n
  <2>1. k \in LeadingNumbers => k \in Digits
    BY DEF LeadingNumbers
  <2>2. k \in LeadingNumbers => NumberAt(k) \in Nat
    BY <2>1, NumbersAre
  <2> QED
    BY <2>2
<1>4. /\ \E f : Upwards(n, 1, add, f)
      /\ \A f : Upwards(n, 1, add, f) => \A k \in 0..n : f[k] \in Nat
  <2> HIDE DEF add, n
  <2> QED
    BY <1>2, <1>3, SumsExist
<1>5. \A k \in 0..n : k # 0 => add[k] = IF k \in LeadingNumbers THEN NumberAt(k) ELSE 0
  BY <1>2
<1>6. PICK f : Upwards(n, 1, add, f)
  BY <1>4
<1>7. \A k \in 0..n : f[k] \in Nat
  BY <1>4, <1>6
<1> HIDE DEF add, n
<1>8. f = [k \in 0..n |-> IF k = 0 THEN 0 ELSE 1 * f[k - 1] + add[k]]
  BY <1>6 DEF Upwards
<1>9. \A k \in 0..n : k # 0 => k - 1 \in 0..n /\ 1 * f[k - 1] = f[k - 1]
  BY <1>2, <1>7
<1>10. [k \in 0..n |-> IF k = 0 THEN 0 ELSE 1 * f[k - 1] + add[k]]
       = [k \in 0..n |-> IF k = 0 THEN 0
                         ELSE f[k - 1] + (IF k \in LeadingNumbers THEN NumberAt(k) ELSE 0)]
  BY <1>5, <1>9
<1>11. Sums(f)
  BY <1>8, <1>10
<1>12. Sums(Totals)
  <2> HIDE DEF Sums
  <2> QED
    BY <1>1, <1>11
<1>13. \A k \in 0..n : Totals[k] =
          IF k = 0 THEN 0 ELSE Totals[k - 1] + (IF k \in LeadingNumbers THEN NumberAt(k) ELSE 0)
  BY <1>12
<1>14. \A k \in 0..n : Totals[k] \in Nat
  <2> DEFINE V == {k \in 0..n : Totals[k] \in Nat}
  <2>1. 0 \in V
    BY <1>2, <1>13
  <2>2. ASSUME NEW d \in 0..(n - 1), d \in V PROVE d + 1 \in V
    <3>1. d + 1 \in 0..n /\ d + 1 \in 1..n /\ d + 1 # 0 /\ (d + 1) - 1 = d
      BY <1>2
    <3>2. Totals[d + 1] = Totals[d] + add[d + 1]
      BY <1>5, <1>13, <3>1
    <3> QED
      BY <1>3, <2>2, <3>1, <3>2
  <2> HIDE DEF V
  <2>3. \A k \in 0..n : k \in V
    BY <1>2, <2>1, <2>2, CountUp
  <2> QED
    BY <2>3 DEF V
<1>15. 0 \in 0..n /\ \A k \in 1..n : k \in 0..n /\ k # 0
  BY <1>2
<1> QED
  BY <1>13, <1>14, <1>15 DEF n

LEMMA TotalsStay ==
  ASSUME text \in Seq(Symbol), NEW i \in 0..Len(text), NEW j \in i..Len(text),
         \A k \in (i + 1)..j : k \notin LeadingNumbers
  PROVE  Totals[j] = Totals[i]
<1> DEFINE V == {d \in 0..(j - i) : Totals[i + d] = Totals[i]}
<1>1. Len(text) \in Nat /\ i \in Nat /\ j \in Nat /\ j - i \in Nat /\ i <= j /\ j <= Len(text)
  OBVIOUS
<1>2. 0 \in V
  <2>1. i + 0 = i
    BY <1>1
  <2> QED
    BY <1>1, <2>1
<1>3. ASSUME NEW d \in 0..((j - i) - 1), d \in V PROVE d + 1 \in V
  <2>1. /\ i + (d + 1) \in 1..Len(text) /\ i + (d + 1) \in (i + 1)..j /\ i + (d + 1) - 1 = i + d
        /\ i + d \in 0..Len(text) /\ d + 1 \in 0..(j - i)
    BY <1>1
  <2>2. Totals[i + (d + 1)] = Totals[i + d] + 0 /\ Totals[i + d] \in Nat
    BY <2>1, TotalsAre
  <2> QED
    BY <1>3, <2>1, <2>2
<1> HIDE DEF V
<1>4. \A d \in 0..(j - i) : d \in V
  BY <1>1, <1>2, <1>3, CountUp
<1>5. j - i \in 0..(j - i) /\ i + (j - i) = j
  BY <1>1
<1>6. Totals[i + (j - i)] = Totals[i]
  BY <1>4, <1>5 DEF V
<1> QED
  BY <1>5, <1>6

-----------------------------------------------------------------------------
\* average has counted and added up the numbers that begin in what is matched.
LeadsTo(n) == {k \in LeadingNumbers : k <= n}

Mean == IF LeadingNumbers = {} THEN <<Undefined>>
        ELSE <<[average |-> Totals[Len(text)] \div Cardinality(LeadingNumbers)]>>

AverageInv ==
  program = "average" =>
    /\ text \in Seq(Symbol)
    /\ at \in 0..Len(text)
    /\ count = Cardinality(LeadsTo(at))
    /\ sum = Totals[at]
    /\ scanner = "runs" => out = <<>>
    /\ scanner = "ended" => out = Mean

LEMMA LeadsAre ==
  ASSUME text \in Seq(Symbol), NEW n \in Nat
  PROVE  /\ IsFiniteSet(LeadsTo(n)) /\ Cardinality(LeadsTo(n)) \in Nat
         /\ Cardinality(LeadsTo(n)) = 0 <=> LeadsTo(n) = {}
         /\ n = 0 => LeadsTo(n) = {}
         /\ n = Len(text) => LeadsTo(n) = LeadingNumbers
<1>1. LeadsTo(n) \in SUBSET (1..Len(text)) /\ Len(text) \in Nat
  BY DEF LeadsTo, LeadingNumbers, Digits
<1>2. IsFiniteSet(LeadsTo(n)) /\ Cardinality(LeadsTo(n)) \in Nat
  <2>1. IsFiniteSet(1..Len(text))
    BY <1>1, FS_Interval
  <2>2. IsFiniteSet(LeadsTo(n))
    BY <1>1, <2>1, FS_Subset
  <2> QED
    BY <2>2, FS_CardinalityType
<1>3. Cardinality(LeadsTo(n)) = 0 <=> LeadsTo(n) = {}
  BY <1>2, FS_EmptySet
<1>4. n = 0 => LeadsTo(n) = {}
  BY <1>1 DEF LeadsTo
<1>5. n = Len(text) => LeadsTo(n) = LeadingNumbers
  BY <1>1 DEF LeadsTo, LeadingNumbers, Digits
<1> QED
  BY <1>2, <1>3, <1>4, <1>5

LEMMA AverageStep == AverageInv /\ [TextNext]_<<scanned, results>> => AverageInv'
<1> SUFFICES ASSUME AverageInv, [TextNext]_<<scanned, results>>, program = "average" PROVE AverageInv'
  BY DEF AverageInv, TextNext, scanned, OpenComment, DropLine, EchoCode, CloseComment, DropComment,
     NewKey, Number, EndLine, EchoOther, Leading, Skip, Return, Ends, Take, Echo, Runs
<1>1. /\ text \in Seq(Symbol) /\ at \in 0..Len(text) /\ Len(text) \in Nat /\ at \in Nat
      /\ count = Cardinality(LeadsTo(at)) /\ sum = Totals[at]
      /\ (scanner = "runs" => out = <<>>)
  BY DEF AverageInv
<1>2. CASE Leading
  <2>1. /\ AtLineStart /\ Head1 \in Digit /\ scanner = "runs" /\ at' = at + Span(Digit)
        /\ UNCHANGED <<program, text, scanner, out>> /\ count' = count + 1
        /\ sum' = sum + atol(SubSeq(text, at + 1, at + Span(Digit)))
    BY <1>2 DEF Leading, Runs, Take, Following
  <2>2. PICK n \in Nat : /\ n = Span(Digit) /\ n >= 1 /\ at + n \in (at + 1)..Len(text)
                         /\ \A i \in (at + 1)..(at + n) : i \in Digits
                         /\ at + n + 1 \notin Digits
    BY <1>1, <2>1, DigitsAhead
  <2>3. at + 1 \in Digits /\ at < Len(text)
    BY <1>1, <2>1, DigitsAhead
  <2>4. at + 1 \in LeadingNumbers
    <3>1. at + 1 = 1 \/ text[(at + 1) - 1] = Newline
      <4>1. (at + 1) - 1 = at /\ (at > 0 \/ at + 1 = 1)
        BY <1>1
      <4> QED
        BY <2>1, <4>1 DEF AtLineStart
    <3> QED
      BY <2>3, <3>1 DEF LeadingNumbers
  <2>5. \A k \in (at + 2)..(at + n) : k \notin LeadingNumbers
    <3> TAKE k \in (at + 2)..(at + n)
    <3>1. k - 1 \in (at + 1)..(at + n) /\ k # 1
      BY <1>1
    <3>2. text[k - 1] \in Digit
      BY <2>2, <3>1 DEF Digits
    <3>3. Newline \notin Digit
      BY DEF Newline, Digit
    <3> QED
      BY <3>1, <3>2, <3>3 DEF LeadingNumbers
  <2>6. NumberAt(at + 1) = atol(SubSeq(text, at + 1, at + n)) /\ NumberAt(at + 1) \in Nat
    BY <1>1, <2>2, <2>3, NumbersAre
  <2>7. Totals[at + n] = sum'
    <3>1. at + 1 \in 1..Len(text) /\ (at + 1) - 1 = at /\ at + 1 \in 0..Len(text)
      BY <1>1, <2>3
    <3>2. Totals[at + 1] = Totals[at] + NumberAt(at + 1)
      BY <1>1, <2>4, <3>1, TotalsAre
    <3>3. at + n \in (at + 1)..Len(text) /\ (at + 1) + 1 = at + 2
      BY <1>1, <2>2
    <3>4. \A k \in ((at + 1) + 1)..(at + n) : k \notin LeadingNumbers
      BY <2>5, <3>3
    <3>5. Totals[at + n] = Totals[at + 1]
      BY <1>1, <3>1, <3>3, <3>4, TotalsStay
    <3> QED
      BY <1>1, <2>1, <2>2, <2>6, <3>2, <3>5
  <2>8. Cardinality(LeadsTo(at + n)) = Cardinality(LeadsTo(at)) + 1
    <3>1. LeadsTo(at + n) = LeadsTo(at) \cup {at + 1}
      <4>1. \A k \in LeadingNumbers : k \in Nat
        BY DEF LeadingNumbers, Digits
      <4>2. \A k \in LeadingNumbers : k <= at + n <=> k <= at \/ k = at + 1
        <5> TAKE k \in LeadingNumbers
        <5>1. k \in Nat /\ k \notin (at + 2)..(at + n)
          BY <2>5, <4>1
        <5> QED
          BY <1>1, <2>2, <5>1
      <4> QED
        BY <2>4, <4>2 DEF LeadsTo
    <3>2. at + 1 \notin LeadsTo(at)
      BY <1>1 DEF LeadsTo
    <3> QED
      BY <1>1, <3>1, <3>2, LeadsAre, FS_AddElement
  <2>9. at' = at + n /\ at' \in 0..Len(text)
    BY <1>1, <2>1, <2>2
  <2>10. /\ LeadsTo(at)' = LeadsTo(at') /\ Totals' = Totals
    BY <2>1 DEF LeadsTo, LeadingNumbers, Digits, Totals, NumberAt
  <2> QED
    BY <1>1, <2>1, <2>7, <2>8, <2>9, <2>10 DEF AverageInv
<1>3. CASE Skip
  <2>1. /\ ~(AtLineStart /\ Head1 \in Digit) /\ scanner = "runs" /\ at' = at + 1 /\ at < Len(text)
        /\ UNCHANGED <<program, text, scanner, out, count, sum>>
    BY <1>3 DEF Skip, Runs, Take, More, results
  <2>2. at + 1 \notin LeadingNumbers
    <3> SUFFICES ASSUME at + 1 \in LeadingNumbers PROVE FALSE
      OBVIOUS
    <3>1. text[at + 1] \in Digit /\ (at + 1 = 1 \/ text[(at + 1) - 1] = Newline)
      BY DEF LeadingNumbers, Digits
    <3>2. AtLineStart
      <4>1. (at + 1) - 1 = at /\ (at > 0 => at + 1 # 1)
        BY <1>1
      <4> QED
        BY <3>1, <4>1 DEF AtLineStart
    <3>3. Head1 = text[at + 1]
      <4>1. at + 0 = at
        BY <1>1
      <4> QED
        BY <2>1, <4>1 DEF Head1, Peek
    <3> QED
      BY <2>1, <3>1, <3>2, <3>3
  <2>3. /\ at + 1 \in 0..Len(text) /\ at + 1 \in at..Len(text)
        /\ \A k \in (at + 1)..(at + 1) : k = at + 1
    BY <1>1, <2>1
  <2>4. Totals[at + 1] = Totals[at]
    BY <1>1, <2>2, <2>3, TotalsStay
  <2>5. LeadsTo(at + 1) = LeadsTo(at)
    <3>1. \A k \in LeadingNumbers : k <= at + 1 <=> k <= at
      <4> TAKE k \in LeadingNumbers
      <4>1. k \in Nat /\ k # at + 1
        BY <2>2 DEF LeadingNumbers, Digits
      <4> QED
        BY <1>1, <4>1
    <3> QED
      BY <3>1 DEF LeadsTo
  <2>6. /\ LeadsTo(at)' = LeadsTo(at') /\ Totals' = Totals
    BY <2>1 DEF LeadsTo, LeadingNumbers, Digits, Totals, NumberAt
  <2> QED
    BY <1>1, <2>1, <2>3, <2>4, <2>5, <2>6 DEF AverageInv
<1>4. CASE Return
  <2>1. /\ UNCHANGED <<program, text, at, start, count, sum>> /\ out' = out \o Result
        /\ scanner = "runs" /\ scanner' = "ended" /\ at = Len(text)
    BY <1>1, <1>4 DEF Return, Ends, Runs, More, results
  <2>2. /\ Cardinality(LeadsTo(at)) \in Nat /\ (Cardinality(LeadsTo(at)) = 0 <=> LeadsTo(at) = {})
        /\ LeadsTo(at) = LeadingNumbers
    BY <1>1, <2>1, LeadsAre
  <2>3. Result = Mean
    <3>1. CASE count = 0
      BY <1>1, <2>2, <3>1 DEF Result, Mean
    <3>2. CASE count > 0
      BY <1>1, <2>1, <2>2, <3>2 DEF Result, Mean
    <3> QED
      BY <1>1, <2>2, <3>1, <3>2
  <2>4. out' = Result
    <3>1. Result = <<Undefined>> \/ \E x : Result = <<x>>
      BY <2>3 DEF Mean
    <3>2. PICK x : Result = <<x>>
      BY <3>1
    <3> QED
      BY <1>1, <2>1, <3>2
  <2>5. Mean' = Mean /\ LeadsTo(at)' = LeadsTo(at) /\ Totals' = Totals
    BY <2>1 DEF Mean, LeadsTo, LeadingNumbers, Digits, Totals, NumberAt
  <2> QED
    BY <1>1, <2>1, <2>3, <2>4, <2>5 DEF AverageInv
<1>5. CASE UNCHANGED <<scanned, results>>
  <2>1. UNCHANGED <<program, text, at, out, scanner, count, sum>>
    BY <1>5 DEF scanned, results
  <2>2. Mean' = Mean /\ LeadsTo(at)' = LeadsTo(at) /\ Totals' = Totals
    BY <2>1 DEF Mean, LeadsTo, LeadingNumbers, Digits, Totals, NumberAt
  <2> QED
    BY <2>1, <2>2 DEF AverageInv
<1>6. ~(OpenComment \/ DropLine \/ EchoCode \/ CloseComment \/ DropComment
        \/ NewKey \/ Number \/ EndLine \/ EchoOther)
  BY DEF OpenComment, DropLine, EchoCode, CloseComment, DropComment, NewKey, Number, EndLine,
     EchoOther, Runs
<1> QED
  BY <1>2, <1>3, <1>4, <1>5, <1>6 DEF TextNext

-----------------------------------------------------------------------------
\* get_max: the places of keys and numbers.
LEMMA PlacesAre ==
  ASSUME text \in Seq(Symbol)
  PROVE  /\ Len(text) \in Nat
         /\ \A k \in Keys : /\ k \in 1..Len(text) /\ k \in Nat /\ k >= 1 /\ k \notin Digits
                            /\ text[k] \in Key /\ text[k] # "" /\ text[k] # Newline
         /\ \A k \in Digits : /\ k \in 1..Len(text) /\ k \in Nat /\ k >= 1 /\ k \notin Keys
                              /\ text[k] \in Digit /\ text[k] # Newline
<1>1. Len(text) \in Nat
  OBVIOUS
<1>2. \A k \in Keys : k \in 1..Len(text) /\ k \in Nat /\ k >= 1 /\ text[k] \in Key
  BY <1>1 DEF Keys
<1>3. \A k \in Digits : k \in 1..Len(text) /\ k \in Nat /\ k >= 1 /\ text[k] \in Digit
  BY <1>1 DEF Digits
<1>4. \A key \in Key : key \notin Digit /\ key # Newline /\ key # ""
  BY KeyAssumption DEF Symbol
<1>5. Newline \notin Digit
  BY DEF Newline, Digit
<1>6. \A k \in Keys : k \notin Digits
  BY <1>2, <1>3, <1>4, Zenon
<1> QED
  BY <1>1, <1>2, <1>3, <1>4, <1>5, <1>6, Zenon

LEMMA KindsAre ==
  /\ \A k \in Stored : k \in Keys /\ ~LooksForNumber(k)
  /\ \A k \in RunStarts : k \in Stored
  /\ \A k \in ReadNumbers : k \in Digits /\ LooksForNumber(k)
BY DEF Stored, RunStarts, ReadNumbers

\* What one more symbol does to the search for a number.
LEMMA LooksBehind ==
  ASSUME text \in Seq(Symbol), NEW k \in 1..Len(text)
  PROVE  /\ k \in Keys => LooksForNumber(k + 1)
         /\ k \in Digits => ~LooksForNumber(k + 1)
         /\ k \notin Keys \cup Digits => (LooksForNumber(k + 1) <=> LooksForNumber(k))
<1>0. k \in Nat
  <2>1. Len(text) \in Nat
    OBVIOUS
  <2> QED
    BY <2>1
<1>1. k \in Nat /\ (\A j \in Keys : j \in Nat /\ j \notin Digits) /\ \A i \in Digits : i \in Nat
  BY <1>0, PlacesAre, Zenon
<1>2. ASSUME k \in Keys PROVE LooksForNumber(k + 1)
  <2>1. k < k + 1
    BY <1>1
  <2>2. \A i \in Digits : i < k + 1 => i < k
    BY <1>1, <1>2
  <2> QED
    BY <1>2, <2>1, <2>2 DEF LooksForNumber
<1>3. ASSUME k \in Digits, NEW j \in Keys, j < k + 1, \A i \in Digits : i < k + 1 => i < j PROVE FALSE
  <2>1. k < j
    BY <1>1, <1>3
  <2> QED
    BY <1>1, <1>3, <2>1
<1>4. ASSUME k \notin Keys \cup Digits, NEW j \in Keys \cup Digits PROVE j < k + 1 <=> j < k
  <2>1. j \in Nat /\ j # k
    BY <1>1, <1>4
  <2> QED
    BY <1>1, <2>1
<1>5. ASSUME k \notin Keys \cup Digits PROVE LooksForNumber(k + 1) <=> LooksForNumber(k)
  <2>1. \A j \in Keys \cup Digits : j < k + 1 <=> j < k
    BY <1>4, <1>5
  <2> QED
    BY <2>1 DEF LooksForNumber
<1> QED
  BY <1>2, <1>3, <1>5 DEF LooksForNumber

\* A number that is read: its digits, and that none begins within it.
LEMMA NumeralsAre ==
  ASSUME text \in Seq(Symbol), NEW k \in Digits
  PROVE  /\ LastDigit(k) \in k..Len(text) /\ \A i \in k..LastDigit(k) : i \in Digits
         /\ ValueAt(k) \in Nat
<1>1. Len(text) \in Nat /\ k \in 1..Len(text) /\ k \in Nat
  BY DEF Digits
<1>2. NumberEnds(k) \in SUBSET Nat /\ Len(text) \in NumberEnds(k)
  BY <1>1 DEF NumberEnds, Digits
<1>3. PICK m \in NumberEnds(k) : m = Min(NumberEnds(k)) /\ \A y \in NumberEnds(k) : m <= y
  BY <1>2, MinIs
<1>4. m \in k..Len(text) /\ m \in Nat
  BY <1>1, <1>3 DEF NumberEnds
<1>5. \A i \in k..m : i \in Digits
  <2> SUFFICES ASSUME NEW i \in k..m, i # k PROVE i \in Digits
    OBVIOUS
  <2>1. i - 1 \in k..Len(text) /\ ~(m <= i - 1) /\ (i - 1) + 1 = i
    BY <1>1, <1>4
  <2> QED
    BY <1>3, <2>1 DEF NumberEnds
<1>6. LastDigit(k) = IF text[k] = "0" THEN k ELSE m
  BY <1>3 DEF LastDigit, NumberEnds
<1>7. LastDigit(k) \in k..Len(text) /\ \A i \in k..LastDigit(k) : i \in Digits
  <2>1. k \in k..Len(text) /\ \A i \in k..k : i \in Digits
    BY <1>1
  <2> QED
    BY <1>4, <1>5, <1>6, <2>1
<1>8. SubSeq(text, k, LastDigit(k)) \in Seq(Digit)
  <2>0. PICK e : e = LastDigit(k)
    OBVIOUS
  <2>1. e \in k..Len(text) /\ \A i \in k..e : text[i] \in Digit
    BY <1>7, <2>0 DEF Digits
  <2>2. /\ SubSeq(text, k, e) = [i \in 1..(e - k + 1) |-> text[k + i - 1]]
        /\ \A i \in 1..(e - k + 1) : k + i - 1 \in k..e
    BY <1>1, <2>1
  <2>3. e - k + 1 \in Nat
    BY <1>1, <2>1
  <2>4. SubSeq(text, k, e) \in Seq(Digit)
    BY <2>1, <2>2, <2>3
  <2> QED
    BY <2>0, <2>4
<1> QED
  BY <1>7, <1>8, ValueIsNatural DEF ValueAt

LEMMA LastDigitIs ==
  ASSUME text \in Seq(Symbol), NEW k \in Digits, NEW e \in k..Len(text),
         \/ text[k] = "0" /\ e = k
         \/ text[k] # "0" /\ e + 1 \notin Digits /\ \A i \in k..e : i \in Digits
  PROVE  LastDigit(k) = e /\ ValueAt(k) = atol(SubSeq(text, k, e))
<1>1. CASE text[k] = "0" /\ e = k
  BY <1>1 DEF LastDigit, ValueAt
<1>2. CASE text[k] # "0" /\ e + 1 \notin Digits /\ \A i \in k..e : i \in Digits
  <2>1. Len(text) \in Nat /\ k \in 1..Len(text) /\ k \in Nat /\ e \in Nat
    BY DEF Digits
  <2>2. NumberEnds(k) \in SUBSET Nat /\ e \in NumberEnds(k)
    BY <1>2, <2>1 DEF NumberEnds
  <2>3. \A y \in NumberEnds(k) : e <= y
    <3> TAKE y \in NumberEnds(k)
    <3>1. y \in k..Len(text) /\ y + 1 \notin Digits
      BY DEF NumberEnds
    <3>2. y < e => y + 1 \in k..e
      BY <2>1, <3>1
    <3> QED
      BY <1>2, <2>1, <3>1, <3>2
  <2>4. Min(NumberEnds(k)) = e
    BY <2>2, <2>3, MinIsOnly
  <2> QED
    BY <1>2, <2>4 DEF LastDigit, ValueAt, NumberEnds
<1> QED
  BY <1>1, <1>2

\* Behind a digit no number begins.
LEMMA WithinNumbers ==
  ASSUME text \in Seq(Symbol), NEW d \in ReadNumbers, NEW k \in d..LastDigit(d)
  PROVE  k \in Digits /\ (k # d => k \notin ReadNumbers) /\ ~LooksForNumber(k + 1)
<1>1. d \in Digits /\ d \in Nat /\ d >= 1 /\ Len(text) \in Nat
  BY KindsAre, PlacesAre, Zenon
<1>0. LastDigit(d) \in d..Len(text) /\ \A i \in d..LastDigit(d) : i \in Digits
  BY <1>1, NumeralsAre, Zenon
<1>2. k \in Digits /\ k \in Nat /\ k >= d /\ k \in 1..Len(text)
  <2>1. k \in Digits
    BY <1>0
  <2>2. k \in Nat /\ k \in 1..Len(text)
    BY <2>1, PlacesAre, Zenon
  <2>3. k >= d
    BY <1>0, <1>1
  <2> QED
    BY <2>1, <2>2, <2>3
<1>3. ASSUME k # d PROVE ~LooksForNumber(k)
  <2>1. k - 1 \in d..LastDigit(d)
    <3>1. LastDigit(d) \in d..Len(text)
      BY <1>1, NumeralsAre
    <3> QED
      BY <1>1, <1>2, <1>3, <3>1
  <2>2. k - 1 \in Digits /\ k - 1 \in 1..Len(text) /\ (k - 1) + 1 = k
    <3>1. k - 1 \in Digits
      BY <1>0, <2>1
    <3>2. k - 1 \in 1..Len(text)
      BY <3>1, PlacesAre, Zenon
    <3>3. (k - 1) + 1 = k
      BY <1>2
    <3> QED
      BY <3>1, <3>2, <3>3
  <2> QED
    BY <2>2, LooksBehind
<1> QED
  BY <1>2, <1>3, LooksBehind, KindsAre

\* Where the next symbol is in a number, it begins the number, or the last symbol
\* was in it.
LEMMA NumbersGoOn ==
  ASSUME text \in Seq(Symbol), NEW k \in 1..Len(text), k \notin InReadNumbers, k + 1 \in InReadNumbers
  PROVE  LooksForNumber(k + 1)
<1>1. PICK d \in ReadNumbers : k + 1 \in d..LastDigit(d)
  BY DEF InReadNumbers
<1>2. d \in Nat /\ LastDigit(d) \in Nat /\ k \in Nat
  <2>1. d \in Digits /\ d \in Nat /\ Len(text) \in Nat
    BY KindsAre, PlacesAre, Zenon
  <2>2. LastDigit(d) \in d..Len(text)
    BY <2>1, NumeralsAre, Zenon
  <2> QED
    BY <2>1, <2>2
<1>3. d = k + 1
  <2>1. k \notin d..LastDigit(d)
    BY DEF InReadNumbers
  <2> QED
    BY <1>1, <1>2, <2>1
<1> QED
  BY <1>1, <1>3, KindsAre

\* Behind a number that was read.
LEMMA NumberIsOver ==
  ASSUME text \in Seq(Symbol), NEW d \in ReadNumbers, NEW e, e = LastDigit(d)
  PROVE  /\ e \in d..Len(text) /\ e + 1 \notin InReadNumbers /\ ~LooksForNumber(e + 1)
         /\ \A k \in d..e : k \in InReadNumbers /\ k \in Digits /\ (k # d => k \notin ReadNumbers)
<1>1. d \in Digits /\ d \in Nat /\ d >= 1 /\ Len(text) \in Nat
  BY KindsAre, PlacesAre, Zenon
<1>2. e \in d..Len(text) /\ e \in Nat
  BY <1>1, NumeralsAre
<1>3. \A k \in d..e : k \in InReadNumbers /\ k \in Digits /\ (k # d => k \notin ReadNumbers)
                      /\ ~LooksForNumber(k + 1)
  BY WithinNumbers DEF InReadNumbers
<1>4. e \in d..e /\ ~LooksForNumber(e + 1)
  BY <1>1, <1>2, <1>3
<1>5. ASSUME NEW c \in ReadNumbers, e + 1 \in c..LastDigit(c) PROVE FALSE
  <2>0. c \in Digits /\ LooksForNumber(c) /\ c \in Nat
    BY KindsAre, PlacesAre, Zenon
  <2>a. LastDigit(c) \in c..Len(text)
    BY <2>0, NumeralsAre, Zenon
  <2>1. c \in Nat /\ LastDigit(c) \in Nat /\ LooksForNumber(c) /\ c <= e + 1
    BY <1>1, <1>2, <1>5, <2>0, <2>a
  <2>2. CASE c = e + 1
    BY <1>4, <2>1, <2>2
  <2>3. CASE c <= e /\ c > d
    <3>1. c \in d..e /\ c # d
      BY <1>1, <1>2, <2>1, <2>3
    <3> QED
      BY <1>3, <3>1
  <2>4. CASE c = d
    BY <1>2, <1>5, <2>4
  <2>5. CASE c < d
    <3>1. d \in c..LastDigit(c) /\ d # c
      BY <1>1, <1>2, <1>5, <2>1, <2>5
    <3> QED
      BY <3>1, WithinNumbers
  <2> QED
    BY <1>1, <1>2, <2>1, <2>2, <2>3, <2>4, <2>5
<1> QED
  BY <1>2, <1>3, <1>4, <1>5 DEF InReadNumbers

\* The first key is stored.
LEMMA AKeyIsStored ==
  ASSUME text \in Seq(Symbol), NEW k, LooksForNumber(k), k \in Nat
  PROVE  \E j \in Stored : j < k
<1>1. PICK j \in Keys : j < k
  BY DEF LooksForNumber
<1>2. Keys \in SUBSET Nat /\ Keys # {}
  BY <1>1, PlacesAre
<1>3. PICK m \in Keys : \A y \in Keys : m <= y
  BY <1>2, LeastNatural
<1>4. m \in Nat /\ j \in Nat /\ m <= j /\ \A y \in Keys : y \in Nat /\ m <= y
  BY <1>1, <1>3, PlacesAre
<1>5. ~LooksForNumber(m)
  BY <1>4 DEF LooksForNumber
<1> QED
  BY <1>1, <1>3, <1>4, <1>5 DEF Stored

-----------------------------------------------------------------------------
\* What current_repo and max_watchers_count are behind the first n symbols: the
\* last stored key, with the largest number of the last run.
LastOf(S, j, n) == j \in S /\ j <= n /\ \A q \in S : q <= n => q <= j

IsLargest(m, r, n) ==
  /\ m \in Nat
  /\ \A k \in ReadNumbers : r < k /\ k <= n => ValueAt(k) <= m
  /\ m = 0 \/ \E k \in ReadNumbers : r < k /\ k <= n /\ m = ValueAt(k)

HasKey(n, repo, most) ==
  \E j, r : /\ LastOf(Stored, j, n) /\ LastOf(RunStarts, r, n)
            /\ repo = text[j] /\ repo = text[r] /\ IsLargest(most, r, n)

LineSoFar(n, repo, most) ==
  \/ (\A j \in Stored : ~(j <= n)) /\ repo = "" /\ most = 0
  \/ HasKey(n, repo, most)

LEMMA StoredAre ==
  ASSUME text \in Seq(Symbol)
  PROVE  /\ \A j \in Stored : j \in 1..Len(text) /\ j \in Nat /\ text[j] # "" /\ text[j] \in Key
         /\ \A r \in RunStarts : r \in Stored /\ r \in 1..Len(text) /\ r \in Nat
         /\ \A k \in ReadNumbers : k \in 1..Len(text) /\ k \in Nat /\ ValueAt(k) \in Nat
<1>1. \A j \in Stored : j \in Keys
  BY KindsAre
<1>2. \A k \in ReadNumbers : k \in Digits
  BY KindsAre
<1> QED
  BY <1>1, <1>2, KindsAre, PlacesAre, NumeralsAre

LEMMA LinesGoOn ==
  ASSUME text \in Seq(Symbol), NEW n \in Nat, NEW e \in Nat, n <= e, NEW repo, NEW most,
         LineSoFar(n, repo, most),
         \A k : k \in Nat /\ n < k /\ k <= e => k \notin Stored /\ k \notin ReadNumbers
  PROVE  LineSoFar(e, repo, most)
<1>1. \A q \in Stored \cup RunStarts \cup ReadNumbers : q <= e <=> q <= n
  <2> TAKE q \in Stored \cup RunStarts \cup ReadNumbers
  <2>1. q \in Nat /\ (q \in Stored \/ q \in ReadNumbers)
    BY StoredAre
  <2> QED
    BY <2>1
<1>2. CASE \A j \in Stored : ~(j <= n)
  BY <1>1, <1>2 DEF LineSoFar, HasKey, LastOf
<1>3. CASE HasKey(n, repo, most)
  <2>1. PICK j, r : /\ LastOf(Stored, j, n) /\ LastOf(RunStarts, r, n)
                    /\ repo = text[j] /\ repo = text[r] /\ IsLargest(most, r, n)
    BY <1>3 DEF HasKey
  <2>2. LastOf(Stored, j, e) /\ LastOf(RunStarts, r, e)
    BY <1>1, <2>1 DEF LastOf
  <2>3. IsLargest(most, r, e)
    BY <1>1, <2>1 DEF IsLargest
  <2> QED
    BY <2>1, <2>2, <2>3 DEF LineSoFar, HasKey
<1> QED
  BY <1>2, <1>3 DEF LineSoFar

LEMMA NumberCounts ==
  ASSUME text \in Seq(Symbol), NEW n \in Nat, NEW e \in Nat, n < e, NEW repo, NEW most, NEW m,
         LineSoFar(n, repo, most), n + 1 \in ReadNumbers,
         \A k : k \in Nat /\ n + 1 < k /\ k <= e => k \notin ReadNumbers,
         \A k : k \in Nat /\ n < k /\ k <= e => k \notin Stored,
         m = IF ValueAt(n + 1) > most THEN ValueAt(n + 1) ELSE most
  PROVE  LineSoFar(e, repo, m)
<1>1. \A q \in Stored \cup RunStarts : q <= e <=> q <= n
  <2> TAKE q \in Stored \cup RunStarts
  <2>1. q \in Nat /\ q \in Stored
    BY StoredAre
  <2> QED
    BY <2>1
<1>2. \A k \in ReadNumbers : k <= e <=> k <= n \/ k = n + 1
  <2> TAKE k \in ReadNumbers
  <2>1. k \in Nat
    BY StoredAre
  <2> QED
    BY <2>1
<1>3. \E j \in Stored : j <= n
  <2>1. LooksForNumber(n + 1)
    BY KindsAre
  <2>2. PICK j \in Stored : j < n + 1
    BY <2>1, AKeyIsStored
  <2>3. j \in Nat
    BY StoredAre
  <2> QED
    BY <2>2, <2>3
<1>4. PICK j, r : /\ LastOf(Stored, j, n) /\ LastOf(RunStarts, r, n)
                  /\ repo = text[j] /\ repo = text[r] /\ IsLargest(most, r, n)
  BY <1>3 DEF LineSoFar, HasKey
<1>5. LastOf(Stored, j, e) /\ LastOf(RunStarts, r, e)
  BY <1>1, <1>4 DEF LastOf
<1>6. r < n + 1 /\ r \in Nat /\ ValueAt(n + 1) \in Nat /\ most \in Nat
  <2>1. r \in RunStarts /\ r <= n /\ most \in Nat
    BY <1>4 DEF LastOf, IsLargest
  <2>2. r \in Nat /\ ValueAt(n + 1) \in Nat
    BY <2>1, StoredAre, Zenon
  <2> QED
    BY <2>1, <2>2
<1>7. m \in Nat /\ most <= m /\ ValueAt(n + 1) <= m /\ (m = most \/ m = ValueAt(n + 1))
  BY <1>6
<1>8. \A k \in ReadNumbers : r < k /\ k <= e => ValueAt(k) <= m
  <2> SUFFICES ASSUME NEW k \in ReadNumbers, r < k, k <= e PROVE ValueAt(k) <= m
    OBVIOUS
  <2>1. CASE k = n + 1
    BY <1>7, <2>1
  <2>2. CASE k <= n
    <3>1. ValueAt(k) <= most /\ ValueAt(k) \in Nat
      BY <1>4, <2>2, StoredAre DEF IsLargest
    <3> QED
      BY <1>6, <1>7, <3>1
  <2> QED
    BY <1>2, <2>1, <2>2
<1>9. m = 0 \/ \E k \in ReadNumbers : r < k /\ k <= e /\ m = ValueAt(k)
  <2>1. CASE m = ValueAt(n + 1)
    <3>1. n + 1 <= e
      OBVIOUS
    <3> QED
      BY <1>6, <2>1, <3>1
  <2>2. CASE m = most
    BY <1>2, <1>4, <2>2 DEF IsLargest
  <2> QED
    BY <1>7, <2>1, <2>2
<1> QED
  BY <1>4, <1>5, <1>7, <1>8, <1>9 DEF LineSoFar, HasKey, IsLargest

\* A stored key begins a run when it differs from current_repo.
LEMMA RunBegins ==
  ASSUME text \in Seq(Symbol), NEW n \in Nat, NEW repo, NEW most, LineSoFar(n, repo, most),
         n + 1 \in Stored
  PROVE  n + 1 \in RunStarts <=> repo # text[n + 1]
<1>1. \A q \in Stored : q \in Nat /\ text[q] # "" /\ (q < n + 1 <=> q <= n)
  <2> TAKE q \in Stored
  <2>1. q \in Nat /\ text[q] # ""
    BY StoredAre, Zenon
  <2>2. \A x \in Nat : x < n + 1 <=> x <= n
    OBVIOUS
  <2> QED
    BY <2>1, <2>2, Zenon
<1>2. CASE (\A j \in Stored : ~(j <= n)) /\ repo = ""
  BY <1>1, <1>2 DEF RunStarts
<1>3. CASE HasKey(n, repo, most)
  <2>1. PICK j : LastOf(Stored, j, n) /\ repo = text[j]
    BY <1>3 DEF HasKey
  <2>a. j \in Stored /\ j \in Nat /\ j <= n /\ j < n + 1 /\ \A q \in Stored : q <= n => q <= j
    BY <1>1, <2>1, Zenon DEF LastOf
  <2>2. ASSUME NEW q \in Stored PROVE ~(j < q /\ q < n + 1)
    <3>1. q \in Nat /\ (q <= n => q <= j)
      BY <1>1, <2>a, Zenon
    <3> QED
      BY <2>a, <3>1
  <2>3. ASSUME NEW q \in Stored, q < n + 1, \A i \in Stored : ~(q < i /\ i < n + 1) PROVE q = j
    <3>1. q \in Nat /\ (q <= n => q <= j) /\ ~(q < j /\ j < n + 1)
      BY <1>1, <2>a, <2>3, Zenon
    <3> QED
      BY <2>3, <2>a, <3>1
  <2> QED
    BY <2>1, <2>a, <2>2, <2>3 DEF RunStarts
<1> QED
  BY <1>2, <1>3 DEF LineSoFar

LEMMA KeyAgain ==
  ASSUME text \in Seq(Symbol), NEW n \in Nat, NEW repo, NEW most, LineSoFar(n, repo, most),
         n + 1 \in Stored, repo = text[n + 1]
  PROVE  LineSoFar(n + 1, repo, most)
<1>1. n + 1 \notin RunStarts /\ n + 1 \notin ReadNumbers /\ repo # ""
  BY RunBegins, KindsAre, PlacesAre, StoredAre
<1>2. PICK j, r : /\ LastOf(RunStarts, r, n) /\ repo = text[r] /\ IsLargest(most, r, n)
  BY <1>1 DEF LineSoFar, HasKey
<1>3. \A q \in RunStarts \cup ReadNumbers : q <= n + 1 <=> q <= n
  <2> TAKE q \in RunStarts \cup ReadNumbers
  <2>1. q \in Nat /\ q # n + 1
    BY <1>1, StoredAre
  <2> QED
    BY <2>1
<1>4. LastOf(RunStarts, r, n + 1) /\ IsLargest(most, r, n + 1)
  BY <1>2, <1>3 DEF LastOf, IsLargest
<1>5. LastOf(Stored, n + 1, n + 1)
  BY DEF LastOf
<1> QED
  BY <1>2, <1>4, <1>5 DEF LineSoFar, HasKey

LEMMA RunIsNew ==
  ASSUME text \in Seq(Symbol), NEW n \in Nat, n + 1 \in RunStarts
  PROVE  LineSoFar(n + 1, text[n + 1], 0)
<1>1. n + 1 \in Stored
  BY KindsAre
<1>2. LastOf(Stored, n + 1, n + 1) /\ LastOf(RunStarts, n + 1, n + 1)
  BY <1>1 DEF LastOf
<1>3. \A k \in ReadNumbers : ~(n + 1 < k /\ k <= n + 1)
  <2> TAKE k \in ReadNumbers
  <2>1. k \in Nat
    BY StoredAre
  <2> QED
    BY <2>1
<1>4. IsLargest(0, n + 1, n + 1)
  BY <1>3 DEF IsLargest
<1> QED
  BY <1>2, <1>4 DEF LineSoFar, HasKey

\* The line that is printed where a run is over.
LEMMA LineIs ==
  ASSUME text \in Seq(Symbol), NEW n \in 0..Len(text), NEW repo, NEW most, LineSoFar(n, repo, most)
  PROVE  /\ (\E r \in RunStarts : r < n + 1) <=> repo # ""
         /\ repo # "" => Line(n + 1) = [repo |-> repo, most |-> most]
<1>1. /\ n \in Nat /\ Len(text) \in Nat
      /\ \A q \in RunStarts : q \in Stored /\ q \in 1..Len(text) /\ q \in Nat /\ (q < n + 1 <=> q <= n)
  <2>1. n \in Nat /\ Len(text) \in Nat
    OBVIOUS
  <2>2. \A q \in RunStarts : q \in Stored /\ q \in 1..Len(text) /\ q \in Nat
    BY StoredAre
  <2> QED
    BY <2>1, <2>2
<1>2. CASE (\A j \in Stored : ~(j <= n)) /\ repo = ""
  BY <1>1, <1>2
<1>3. CASE HasKey(n, repo, most)
  <2>1. PICK j, r : /\ LastOf(Stored, j, n) /\ LastOf(RunStarts, r, n)
                    /\ repo = text[j] /\ repo = text[r] /\ IsLargest(most, r, n)
    BY <1>3 DEF HasKey
  <2>2. repo # "" /\ r \in RunStarts /\ r <= n /\ r \in Nat /\ (\A q \in RunStarts : q <= n => q <= r)
    BY <1>1, <2>1, StoredAre DEF LastOf
  <2> DEFINE T == {q \in RunStarts : q < n + 1}
  <2>3. T \in SUBSET (1..Len(text)) /\ r \in T /\ \A q \in T : q <= r /\ q \in Nat
    BY <1>1, <2>2
  <2>4. Max(T) \in T /\ \A q \in T : q <= Max(T)
    <3> HIDE DEF T
    <3> QED
      BY <1>1, <2>3, GreatestNatural
  <2>5. Max(T) = r
    <3> HIDE DEF T
    <3>1. Max(T) <= r /\ r <= Max(T) /\ Max(T) \in Nat /\ r \in Nat
      BY <2>3, <2>4
    <3> QED
      BY <3>1
  <2>6. RunBefore(n + 1) = r
    BY <2>5 DEF RunBefore
  <2> HIDE DEF T
  <2>7. Line(n + 1) = [repo |-> text[r],
                       most |-> Max({0} \cup {ValueAt(k) : k \in {q \in ReadNumbers : r < q /\ q < n + 1}})]
    BY <2>6 DEF Line
  <2> DEFINE N == {0} \cup {ValueAt(k) : k \in {q \in ReadNumbers : r < q /\ q < n + 1}}
  <2>8. \A q \in ReadNumbers : ValueAt(q) \in Nat /\ (q < n + 1 <=> q <= n)
    <3> TAKE q \in ReadNumbers
    <3>1. q \in Nat /\ ValueAt(q) \in Nat
      BY StoredAre
    <3> QED
      BY <1>1, <3>1
  <2>9. most \in N /\ \A x \in N : most >= x /\ x \in Nat
    <3>1. /\ most \in Nat /\ \A q \in ReadNumbers : r < q /\ q <= n => ValueAt(q) <= most
          /\ most = 0 \/ \E q \in ReadNumbers : r < q /\ q <= n /\ most = ValueAt(q)
      BY <2>1 DEF IsLargest
    <3> QED
      BY <2>8, <3>1
  <2>10. Max(N) = most
    <3> HIDE DEF N
    <3>1. Max(N) \in N /\ Max(N) >= most /\ most >= Max(N)
      BY <2>9 DEF Max
    <3> QED
      BY <2>9, <3>1
  <2> HIDE DEF N
  <2>11. Line(n + 1) = [repo |-> text[r], most |-> Max(N)]
    BY <2>7 DEF N
  <2> QED
    BY <1>1, <2>1, <2>2, <2>10, <2>11
<1> QED
  BY <1>2, <1>3 DEF LineSoFar

-----------------------------------------------------------------------------
\* What has been printed for the first n places.
Shows(o, n) ==
  /\ Len(o) = Rank(n)
  /\ \A p \in Printing : p <= n => o[Rank(p)] = PrintedFor(p)

PrintingTo(n) == {q \in Printing : q <= n}

LEMMA PrintingIs ==
  ASSUME text \in Seq(Symbol)
  PROVE  /\ \A p \in Printing : p \in 1..(Len(text) + 1) /\ p \in Nat
         /\ \A n \in Nat : /\ IsFiniteSet(PrintingTo(n)) /\ Rank(n) = Cardinality(PrintingTo(n))
                           /\ Rank(n) \in Nat
<1>1. Len(text) \in Nat
  OBVIOUS
<1>2. \A p \in Printing : p \in 1..(Len(text) + 1) /\ p \in Nat
  <2> TAKE p \in Printing
  <2>1. p \in Unmatched \/ p \in RunStarts \/ p = Len(text) + 1
    BY DEF Printing
  <2>2. p \in Unmatched => p \in 1..Len(text)
    BY DEF Unmatched
  <2>3. p \in RunStarts => p \in 1..Len(text)
    BY StoredAre
  <2> QED
    BY <1>1, <2>1, <2>2, <2>3
<1>3. IsFiniteSet(1..(Len(text) + 1))
  BY <1>1, FS_Interval
<1>4. ASSUME NEW n \in Nat
      PROVE  IsFiniteSet(PrintingTo(n)) /\ Rank(n) = Cardinality(PrintingTo(n)) /\ Rank(n) \in Nat
  <2>1. PrintingTo(n) \in SUBSET (1..(Len(text) + 1))
    BY <1>2 DEF PrintingTo
  <2>2. IsFiniteSet(PrintingTo(n))
    BY <1>3, <2>1, FS_Subset
  <2>3. Rank(n) = Cardinality(PrintingTo(n))
    BY DEF Rank, PrintingTo
  <2> QED
    BY <2>2, <2>3, FS_CardinalityType
<1> QED
  BY <1>2, <1>4

LEMMA RanksGrow ==
  ASSUME text \in Seq(Symbol), NEW n \in Nat, NEW p \in Printing, p <= n
  PROVE  Rank(p) \in 1..Rank(n)
<1>1. p \in Nat /\ \A q \in Printing : q \in Nat
  BY PrintingIs
<1>2. PrintingTo(p) \in SUBSET PrintingTo(n) /\ p \in PrintingTo(p)
  <2>1. ASSUME NEW q \in Printing, q <= p PROVE q <= n
    <3>1. q \in Nat /\ p \in Nat
      BY <1>1
    <3> QED
      BY <2>1, <3>1
  <2>2. p <= p
    BY <1>1
  <2> QED
    BY <2>1, <2>2 DEF PrintingTo
<1>3. Cardinality(PrintingTo(p)) <= Cardinality(PrintingTo(n))
  BY <1>2, PrintingIs, FS_Subset
<1>4. Cardinality(PrintingTo(p)) # 0
  BY <1>1, <1>2, PrintingIs, FS_EmptySet
<1> QED
  BY <1>1, <1>3, <1>4, PrintingIs

LEMMA NothingPrinted ==
  ASSUME text \in Seq(Symbol), NEW o, NEW n \in Nat, NEW e \in Nat, n <= e, Shows(o, n),
         \A p : p \in Nat /\ n < p /\ p <= e => p \notin Printing
  PROVE  Shows(o, e)
<1>1. \A p \in Printing : p <= e <=> p <= n
  <2> TAKE p \in Printing
  <2>1. p \in Nat
    BY PrintingIs
  <2> QED
    BY <2>1
<1>2. Rank(e) = Rank(n)
  BY <1>1 DEF Rank
<1> QED
  BY <1>1, <1>2 DEF Shows

LEMMA OnePrinted ==
  ASSUME text \in Seq(Symbol), NEW S, NEW o \in Seq(S), NEW n \in Nat, Shows(o, n), n + 1 \in Printing
  PROVE  Shows(Append(o, PrintedFor(n + 1)), n + 1)
<1>1. PICK t : t = Append(o, PrintedFor(n + 1))
  OBVIOUS
<1>2. Len(t) = Len(o) + 1 /\ (\A i \in 1..Len(o) : t[i] = o[i]) /\ t[Len(o) + 1] = PrintedFor(n + 1)
  BY <1>1, OneMore
<1>3. PrintingTo(n + 1) = PrintingTo(n) \cup {n + 1} /\ n + 1 \notin PrintingTo(n)
  <2>1. \A p \in Printing : p <= n + 1 <=> p <= n \/ p = n + 1
    <3> TAKE p \in Printing
    <3>1. p \in Nat
      BY PrintingIs
    <3> QED
      BY <3>1
  <2> QED
    BY <2>1 DEF PrintingTo
<1>4. Rank(n + 1) = Rank(n) + 1
  BY <1>3, PrintingIs, FS_AddElement
<1>5. Len(o) = Rank(n) /\ \A p \in Printing : p <= n => o[Rank(p)] = PrintedFor(p)
  BY DEF Shows
<1>6. \A p \in Printing : p <= n + 1 => t[Rank(p)] = PrintedFor(p)
  <2> SUFFICES ASSUME NEW p \in Printing, p <= n + 1 PROVE t[Rank(p)] = PrintedFor(p)
    OBVIOUS
  <2>1. CASE p = n + 1
    BY <1>2, <1>4, <1>5, <2>1
  <2>2. CASE p <= n
    <3>1. Rank(p) \in 1..Len(o)
      BY <1>5, <2>2, RanksGrow
    <3> QED
      BY <1>2, <1>5, <2>2, <3>1
  <2>3. p \in PrintingTo(n + 1) => p = n + 1 \/ p <= n
    BY <1>3 DEF PrintingTo
  <2> QED
    BY <2>1, <2>2, <2>3 DEF PrintingTo
<1> QED
  BY <1>1, <1>2, <1>4, <1>5, <1>6 DEF Shows

\* Where something is printed, and what.
LEMMA PrintedWhere ==
  ASSUME text \in Seq(Symbol), NEW p \in 1..Len(text)
  PROVE  /\ p \in InReadNumbers => p \notin Printing
         /\ p \in Stored => /\ p \in Printing <=> p \in RunStarts /\ \E r \in RunStarts : r < p
                            /\ PrintedFor(p) = Line(p)
         /\ p \notin Stored \cup InReadNumbers =>
              /\ p \in Printing <=> (text[p] = Newline => LooksForNumber(p))
              /\ PrintedFor(p) = Echoed(text[p])
              \/ p \notin Printing
<1>1. p # Len(text) + 1 /\ (p \in RunStarts => p \in Stored)
  BY KindsAre
<1>2. p \in InReadNumbers => p \notin Stored /\ p \notin Unmatched
  <2>1. ASSUME p \in InReadNumbers PROVE p \in Digits
    BY <2>1, WithinNumbers DEF InReadNumbers
  <2> QED
    BY <2>1, KindsAre, PlacesAre DEF Unmatched
<1>3. p \in Stored => p \notin Unmatched
  BY DEF Unmatched
<1>4. p \notin Stored \cup InReadNumbers => (p \in Unmatched <=> (text[p] = Newline => LooksForNumber(p)))
  BY DEF Unmatched
<1> QED
  BY <1>1, <1>2, <1>3, <1>4 DEF Printing, PrintedFor

-----------------------------------------------------------------------------
\* The state of get_max, wherever it is in the text.
Settled(n, st) ==
  /\ st = "integer" <=> LooksForNumber(n + 1)
  /\ n + 1 \in InReadNumbers => LooksForNumber(n + 1)

MaxOf(sc, n, st, repo, most, o) ==
  /\ text \in Seq(Symbol) /\ n \in 0..Len(text)
  /\ st \in {"INITIAL", "integer"} /\ sc \in {"runs", "ended", "overflow"}
  /\ \E S : o \in Seq(S)
  /\ \A k \in RunStarts : k <= n => HasRoom(text[k])
  /\ sc = "runs" => Settled(n, st) /\ LineSoFar(n, repo, most) /\ Shows(o, n)
  /\ sc # "runs" => /\ sc = "overflow" <=> n + 1 \in RunStarts /\ ~HasRoom(text[n + 1])
                    /\ Shows(o, n + 1)

MaxInv == program = "max" =>
            MaxOf(scanner, at, start, current_repo, max_watchers_count, out)

LEMMA TextStays ==
  ASSUME text' = text
  PROVE  MaxOf(scanner, at, start, current_repo, max_watchers_count, out)' <=>
         MaxOf(scanner', at', start', current_repo', max_watchers_count', out')
<1>1. Keys' = Keys /\ Digits' = Digits
  BY DEF Keys, Digits
<1>2. ASSUME NEW k PROVE LooksForNumber(k)' <=> LooksForNumber(k)
  BY <1>1 DEF LooksForNumber
<1>3. Stored' = Stored /\ ReadNumbers' = ReadNumbers
  BY <1>1, <1>2 DEF Stored, ReadNumbers
<1>4. ASSUME NEW k PROVE LastDigit(k)' = LastDigit(k) /\ ValueAt(k)' = ValueAt(k)
  BY <1>1 DEF LastDigit, ValueAt
<1>5. InReadNumbers' = InReadNumbers
  BY <1>3, <1>4 DEF InReadNumbers
<1>6. Unmatched' = Unmatched
  BY <1>2, <1>3, <1>5 DEF Unmatched
<1>7. RunStarts' = RunStarts
  BY <1>3 DEF RunStarts
<1>8. Printing' = Printing
  BY <1>6, <1>7 DEF Printing
<1>9. ASSUME NEW k PROVE Line(k)' = Line(k)
  BY <1>3, <1>4, <1>7 DEF Line, RunBefore
<1>10. ASSUME NEW k PROVE PrintedFor(k)' = PrintedFor(k) /\ Rank(k)' = Rank(k)
  BY <1>6, <1>8, <1>9 DEF PrintedFor, Rank
<1>11. /\ Shows(out, at)' <=> Shows(out', at')
       /\ Shows(out, at + 1)' <=> Shows(out', at' + 1)
  <2>1. Rank(at)' = Rank(at') /\ Rank(at + 1)' = Rank(at' + 1)
    BY <1>8 DEF Rank
  <2> QED
    BY <1>8, <1>10, <2>1 DEF Shows
<1>12. LineSoFar(at, current_repo, max_watchers_count)' <=>
       LineSoFar(at', current_repo', max_watchers_count')
  <2>1. ASSUME NEW r
        PROVE  IsLargest(max_watchers_count, r, at)' <=> IsLargest(max_watchers_count', r, at')
    BY <1>3, <1>4 DEF IsLargest
  <2>2. ASSUME NEW j PROVE /\ LastOf(Stored, j, at)' <=> LastOf(Stored, j, at')
                           /\ LastOf(RunStarts, j, at)' <=> LastOf(RunStarts, j, at')
    BY <1>3, <1>7 DEF LastOf
  <2>3. HasKey(at, current_repo, max_watchers_count)' <=>
        HasKey(at', current_repo', max_watchers_count')
    BY <2>1, <2>2 DEF HasKey
  <2> QED
    BY <1>3, <2>3 DEF LineSoFar
<1>13. Settled(at, start)' <=> Settled(at', start')
  BY <1>1, <1>5 DEF Settled, LooksForNumber
<1>14. ASSUME NEW k PROVE HasRoom(text[k])' <=> HasRoom(text[k])
  BY DEF HasRoom
<1>15. HasRoom(text[at + 1])' <=> HasRoom(text[at' + 1])
  BY DEF HasRoom
<1> QED
  BY <1>7, <1>11, <1>12, <1>13, <1>14, <1>15 DEF MaxOf

LEMMA MaxText ==
  ASSUME MaxInv, program = "max"
  PROVE  /\ text \in Seq(Symbol) /\ Len(text) \in Nat /\ at \in 0..Len(text) /\ at \in Nat
         /\ \E S : out \in Seq(S)
         /\ \A k \in RunStarts : k <= at => HasRoom(text[k])
         /\ start \in {"INITIAL", "integer"}
         /\ scanner = "runs" =>
              /\ start = "integer" <=> LooksForNumber(at + 1)
              /\ at + 1 \in InReadNumbers => LooksForNumber(at + 1)
              /\ LineSoFar(at, current_repo, max_watchers_count)
              /\ Shows(out, at)
<1>1. text \in Seq(Symbol) /\ at \in 0..Len(text)
  BY DEF MaxInv, MaxOf
<1>2. Len(text) \in Nat /\ at \in Nat
  BY <1>1
<1> QED
  BY <1>1, <1>2 DEF MaxInv, MaxOf, Settled

\* A step to a place in the same text, after which the scanner goes on.
LEMMA MaxGoesOn ==
  ASSUME MaxInv, program = "max", scanner' = "runs", UNCHANGED <<program, text>>,
         at' \in 0..Len(text), start' \in {"INITIAL", "integer"}, \E S : out' \in Seq(S),
         \A k \in RunStarts : k <= at' => HasRoom(text[k]),
         start' = "integer" <=> LooksForNumber(at' + 1),
         at' + 1 \in InReadNumbers => LooksForNumber(at' + 1),
         LineSoFar(at', current_repo', max_watchers_count'), Shows(out', at')
  PROVE  MaxInv'
<1>1. text \in Seq(Symbol)
  BY DEF MaxInv, MaxOf
<1>2. Settled(at', start')
  BY DEF Settled
<1>3. MaxOf(scanner', at', start', current_repo', max_watchers_count', out')
  BY <1>1, <1>2 DEF MaxOf
<1> QED
  BY <1>3, TextStays DEF MaxInv

\* The symbol in front of the scanner.
LEMMA NextSymbol ==
  ASSUME text \in Seq(Symbol), at \in 0..Len(text), More
  PROVE  /\ at + 1 \in 1..Len(text) /\ Head1 = text[at + 1]
         /\ at + 1 \in Keys <=> Head1 \in Key
         /\ at + 1 \in Digits <=> Head1 \in Digit
<1>1. Len(text) \in Nat /\ at \in Nat /\ at < Len(text) /\ at + 0 = at
  BY DEF More
<1>2. at + 1 \in 1..Len(text) /\ Head1 = text[at + 1]
  BY <1>1 DEF Head1, Peek
<1> QED
  BY <1>2 DEF Keys, Digits

LEMMA KeyStep ==
  ASSUME MaxInv, program = "max", NewKey
  PROVE  MaxInv'
<1>1. /\ text \in Seq(Symbol) /\ Len(text) \in Nat /\ at \in 0..Len(text) /\ at \in Nat
      /\ \A k \in RunStarts : k <= at => HasRoom(text[k])
  BY MaxText, Zenon
<1>2. scanner = "runs" /\ start = "INITIAL" /\ More /\ Head1 \in Key
  BY DEF NewKey, Runs
<1>3. /\ ~LooksForNumber(at + 1) /\ LineSoFar(at, current_repo, max_watchers_count)
      /\ Shows(out, at)
  BY <1>2, MaxText
<1>4. PICK n : n = at + 1
  OBVIOUS
<1>5. n \in Nat /\ at < n /\ at <= n /\ n \in 1..Len(text) /\ n \in 0..Len(text) /\ Head1 = text[n] /\ n \in Keys
  <2>1. n \in 1..Len(text) /\ Head1 = text[n] /\ n \in Keys
    BY <1>1, <1>2, <1>4, NextSymbol
  <2>2. n \in Nat /\ at < n /\ at <= n
    BY <1>1, <1>4
  <2>3. n \in 0..Len(text)
    BY <1>1, <2>1
  <2> QED
    BY <2>1, <2>2, <2>3
<1>6. n \in Stored /\ LooksForNumber(n + 1) /\ (TooLong(text[n]) <=> ~HasRoom(text[n]))
  <2>1. n \in Stored
    BY <1>3, <1>4, <1>5 DEF Stored
  <2>2. LooksForNumber(n + 1)
    BY <1>1, <1>5, LooksBehind
  <2>3. KeyLength[text[n]] \in Nat /\ CURRENT_REPO \in Nat
    BY <1>2, <1>5, KeyAssumption
  <2> QED
    BY <2>1, <2>2, <2>3 DEF TooLong, HasRoom
<1>7. n \in RunStarts <=> current_repo # Head1
  BY <1>1, <1>3, <1>4, <1>5, <1>6, RunBegins
<1>8. \A p : p \in Nat /\ at < p /\ p <= n => p = n
  BY <1>1, <1>4
<1>9. PICK S : out \in Seq(S)
  BY MaxText, Zenon
<1>10. \A k \in RunStarts : k <= n /\ k # n => HasRoom(text[k])
  <2> SUFFICES ASSUME NEW k \in RunStarts, k <= n, k # n PROVE HasRoom(text[k])
    OBVIOUS
  <2>1. k \in Nat
    BY <1>1, StoredAre, Zenon
  <2>2. k <= at
    BY <1>1, <1>4, <2>1
  <2> QED
    BY <1>1, <2>2
<1>11. CASE current_repo = Head1
  <2>1. UNCHANGED <<program, text, scanner, out, current_repo, max_watchers_count>> /\ at' = n /\ start' = "integer"
    BY <1>4, <1>11 DEF NewKey, Take
  <2>2. LineSoFar(n, current_repo, max_watchers_count)
    BY <1>1, <1>3, <1>4, <1>5, <1>6, <1>11, KeyAgain
  <2>3. n \notin Printing
    BY <1>1, <1>5, <1>6, <1>7, <1>11, PrintedWhere
  <2>4. Shows(out, n)
    BY <1>1, <1>3, <1>5, <1>8, <2>3, NothingPrinted
  <2>5. \A k \in RunStarts : k <= n => HasRoom(text[k])
    BY <1>7, <1>10, <1>11
  <2> QED
    BY <1>2, <1>5, <1>6, <1>9, <2>1, <2>2, <2>4, <2>5, MaxGoesOn
<1>12. CASE current_repo # Head1
  <2>1. n \in RunStarts /\ out' = IF current_repo # "" THEN Append(out, PrintMax) ELSE out
    BY <1>7, <1>12 DEF NewKey
  <2>2. PICK R : out' \in Seq(R)
    <3>1. Append(out, PrintMax) \in Seq(S \cup {PrintMax})
      BY <1>9, OneMore
    <3> QED
      BY <1>9, <2>1, <3>1
  <2>3. Shows(out', n)
    <3>1. /\ (\E r \in RunStarts : r < n) <=> current_repo # ""
          /\ current_repo # "" => Line(n) = PrintMax
      BY <1>1, <1>3, <1>4, LineIs DEF PrintMax
    <3>2. (n \in Printing <=> current_repo # "") /\ PrintedFor(n) = Line(n)
      BY <1>1, <1>5, <1>6, <2>1, <3>1, PrintedWhere
    <3>3. CASE current_repo # ""
      <4>1. Shows(Append(out, PrintedFor(n)), n)
        BY <1>1, <1>3, <1>4, <1>9, <3>2, <3>3, OnePrinted
      <4> QED
        BY <2>1, <3>1, <3>2, <3>3, <4>1
    <3>4. CASE current_repo = ""
      <4>1. Shows(out, n)
        BY <1>1, <1>3, <1>5, <1>8, <3>2, <3>4, NothingPrinted
      <4> QED
        BY <2>1, <3>4, <4>1
    <3> QED
      BY <3>3, <3>4
  <2>4. CASE ~TooLong(Head1)
    <3>1. /\ UNCHANGED <<program, text, scanner>> /\ at' = n /\ start' = "integer"
          /\ current_repo' = text[n] /\ max_watchers_count' = 0
      BY <1>4, <1>5, <1>12, <2>4 DEF NewKey, Take
    <3>2. LineSoFar(n, text[n], 0)
      BY <1>1, <1>4, <2>1, RunIsNew
    <3>3. \A k \in RunStarts : k <= n => HasRoom(text[k])
      BY <1>5, <1>6, <1>10, <2>4
    <3> QED
      BY <1>2, <1>5, <1>6, <2>2, <2>3, <3>1, <3>2, <3>3, MaxGoesOn
  <2>5. CASE TooLong(Head1)
    <3>1. UNCHANGED <<program, text, at, start>> /\ scanner' = "overflow"
      BY <1>12, <2>5 DEF NewKey
    <3>2. ~HasRoom(text[n])
      BY <1>5, <1>6, <2>5
    <3>3. MaxOf("overflow", at, "INITIAL", current_repo', max_watchers_count', out')
      BY <1>1, <1>4, <2>1, <2>2, <2>3, <3>2 DEF MaxOf
    <3> QED
      BY <1>2, <3>1, <3>3, TextStays DEF MaxInv
  <2> QED
    BY <2>4, <2>5
<1> QED
  BY <1>11, <1>12

LEMMA NumberStep ==
  ASSUME MaxInv, program = "max", Number
  PROVE  MaxInv'
<1>1. /\ text \in Seq(Symbol) /\ Len(text) \in Nat /\ at \in 0..Len(text) /\ at \in Nat
      /\ \A k \in RunStarts : k <= at => HasRoom(text[k])
  BY MaxText, Zenon
<1> DEFINE n == IF Head1 = "0" THEN 1 ELSE Span(Digit)
           cmp == atol(Following(n))
<1>2. /\ scanner = "runs" /\ start = "integer" /\ Head1 \in Digit
      /\ max_watchers_count' = (IF cmp > max_watchers_count THEN cmp ELSE max_watchers_count)
      /\ at' = at + n /\ start' = "INITIAL"
      /\ UNCHANGED <<program, text, scanner, out, current_repo>>
  BY DEF Number, Runs, Take
<1>3. LooksForNumber(at + 1) /\ LineSoFar(at, current_repo, max_watchers_count) /\ Shows(out, at)
  BY <1>2, MaxText
<1>4. /\ at + 1 \in Digits /\ Head1 = text[at + 1] /\ at < Len(text)
      /\ \E m \in Nat : /\ m = Span(Digit) /\ m >= 1 /\ at + m \in (at + 1)..Len(text)
                        /\ \A i \in (at + 1)..(at + m) : i \in Digits
                        /\ at + m + 1 \notin Digits
  BY <1>1, <1>2, DigitsAhead
<1>5. PICK m \in Nat : /\ m = Span(Digit) /\ m >= 1 /\ at + m \in (at + 1)..Len(text)
                       /\ \A i \in (at + 1)..(at + m) : i \in Digits
                       /\ at + m + 1 \notin Digits
  BY <1>4
<1>6. PICK d, e : d = at + 1 /\ e = at + n
  OBVIOUS
<1>7. d \in ReadNumbers /\ d \in Digits
  BY <1>3, <1>4, <1>6 DEF ReadNumbers
<1>8. /\ n \in Nat /\ n >= 1 /\ e \in d..Len(text)
      /\ \/ text[d] = "0" /\ e = d
         \/ text[d] # "0" /\ e + 1 \notin Digits /\ \A i \in d..e : i \in Digits
  <2>1. CASE Head1 = "0"
    <3>1. n = 1
      BY <2>1
    <3> HIDE DEF n, cmp
    <3> QED
      BY <1>1, <1>4, <1>6, <2>1, <3>1
  <2>2. CASE Head1 # "0"
    <3>1. n = m
      BY <1>5, <2>2
    <3> HIDE DEF n, cmp
    <3> QED
      BY <1>1, <1>4, <1>5, <1>6, <2>2, <3>1
  <2> QED
    BY <2>1, <2>2
<1>9. LastDigit(d) = e /\ ValueAt(d) = atol(SubSeq(text, d, e))
  BY <1>1, <1>7, <1>8, LastDigitIs
<1>10. ValueAt(d) = cmp
  BY <1>6, <1>9 DEF Following
<1> HIDE DEF n, cmp
<1>11. /\ e + 1 \notin InReadNumbers /\ ~LooksForNumber(e + 1)
       /\ \A k \in d..e : k \in InReadNumbers /\ k \in Digits /\ (k # d => k \notin ReadNumbers)
  BY <1>1, <1>7, <1>9, NumberIsOver
<1>12. e \in Nat /\ at < e /\ at <= e /\ e \in 0..Len(text) /\ at' = e
       /\ \A k : k \in Nat /\ at < k /\ k <= e => k \in d..e /\ k \in 1..Len(text)
  BY <1>1, <1>2, <1>6, <1>8
<1>13. \A k : k \in Nat /\ at < k /\ k <= e => k \notin Stored /\ k \notin Printing /\ k \notin RunStarts
  <2> SUFFICES ASSUME NEW k \in Nat, at < k, k <= e
               PROVE  k \notin Stored /\ k \notin Printing /\ k \notin RunStarts
    OBVIOUS
  <2>1. k \in InReadNumbers /\ k \in Digits /\ k \in 1..Len(text)
    BY <1>11, <1>12
  <2>2. k \notin Stored /\ k \notin RunStarts
    BY <1>1, <2>1, KindsAre, PlacesAre, Zenon
  <2> QED
    BY <1>1, <2>1, <2>2, PrintedWhere
<1>14. \A k : k \in Nat /\ at + 1 < k /\ k <= e => k \notin ReadNumbers
  <2> SUFFICES ASSUME NEW k \in Nat, at + 1 < k, k <= e PROVE k \notin ReadNumbers
    OBVIOUS
  <2>1. k \in d..e /\ k # d
    BY <1>1, <1>6, <1>8
  <2> QED
    BY <1>11, <2>1
<1>15. LineSoFar(e, current_repo, max_watchers_count')
  <2>1. PICK x : x = max_watchers_count'
    OBVIOUS
  <2>2. x = IF ValueAt(at + 1) > max_watchers_count THEN ValueAt(at + 1) ELSE max_watchers_count
    BY <1>2, <1>6, <1>10, <2>1
  <2>3. at + 1 \in ReadNumbers
    BY <1>6, <1>7
  <2>4. \A k : k \in Nat /\ at < k /\ k <= e => k \notin Stored
    BY <1>13
  <2>5. LineSoFar(e, current_repo, x)
    BY <1>1, <1>3, <1>12, <1>14, <2>2, <2>3, <2>4, NumberCounts
  <2> QED
    BY <2>1, <2>5
<1>16. Shows(out, e)
  <2>1. \A k : k \in Nat /\ at < k /\ k <= e => k \notin Printing
    BY <1>13
  <2> QED
    BY <1>1, <1>3, <1>12, <2>1, NothingPrinted
<1>17. \A k \in RunStarts : k <= e => HasRoom(text[k])
  <2> SUFFICES ASSUME NEW k \in RunStarts, k <= e PROVE HasRoom(text[k])
    OBVIOUS
  <2>1. k \in Nat
    BY <1>1, StoredAre, Zenon
  <2>2. k <= at
    BY <1>1, <1>13, <2>1
  <2> QED
    BY <1>1, <2>2
<1>18. \E S : out' \in Seq(S)
  <2>1. PICK S : out \in Seq(S)
    BY MaxText, Zenon
  <2> QED
    BY <1>2, <2>1
<1> QED
  BY <1>2, <1>11, <1>12, <1>15, <1>16, <1>17, <1>18, MaxGoesOn

\* A symbol that is neither stored nor in a number, echoed or passed over.
LEMMA SymbolPassed ==
  ASSUME MaxInv, program = "max", scanner = "runs", at + 1 \in 1..Len(text),
         at + 1 \notin Stored, at + 1 \notin InReadNumbers,
         UNCHANGED <<program, text, scanner, current_repo, max_watchers_count, start>>, at' = at + 1,
         LooksForNumber(at + 2) <=> LooksForNumber(at + 1),
         \/ out' = out /\ text[at + 1] = Newline /\ ~LooksForNumber(at + 1)
         \/ /\ out' = Append(out, Echoed(text[at + 1]))
            /\ text[at + 1] = Newline => LooksForNumber(at + 1)
  PROVE  MaxInv'
<1>1. /\ text \in Seq(Symbol) /\ Len(text) \in Nat /\ at \in 0..Len(text) /\ at \in Nat
      /\ (\A k \in RunStarts : k <= at => HasRoom(text[k])) /\ start \in {"INITIAL", "integer"}
  BY MaxText, Zenon
<1>2. /\ start = "integer" <=> LooksForNumber(at + 1)
      /\ LineSoFar(at, current_repo, max_watchers_count) /\ Shows(out, at)
  BY MaxText
<1>3. PICK n : n = at + 1
  OBVIOUS
<1>4. n \in Nat /\ at <= n /\ n \in 1..Len(text) /\ n \in 0..Len(text) /\ n + 1 = at + 2
  BY <1>1, <1>3
<1>5. n \notin ReadNumbers /\ n \notin RunStarts
  <2>1. n \notin ReadNumbers
    <3> SUFFICES ASSUME n \in ReadNumbers PROVE FALSE
      OBVIOUS
    <3>1. LastDigit(n) \in n..Len(text)
      BY <1>1, NumeralsAre, KindsAre, Zenon
    <3>2. n \in n..LastDigit(n)
      BY <1>1, <1>4, <3>1
    <3> QED
      BY <1>3, <3>2 DEF InReadNumbers
  <2> QED
    BY <1>3, <2>1, KindsAre
<1>6. \A p : p \in Nat /\ at < p /\ p <= n => p = n
  BY <1>1, <1>3
<1>7. LineSoFar(n, current_repo, max_watchers_count)
  <2>1. \A k : k \in Nat /\ at < k /\ k <= n => k \notin Stored /\ k \notin ReadNumbers
    BY <1>3, <1>5, <1>6
  <2> QED
    BY <1>1, <1>2, <1>4, <2>1, LinesGoOn
<1>8. PICK S : out \in Seq(S)
  BY MaxText, Zenon
<1>9. Shows(out', n) /\ \E R : out' \in Seq(R)
  <2>1. \/ n \notin Printing
        \/ PrintedFor(n) = Echoed(text[n])
    BY <1>1, <1>3, <1>4, PrintedWhere
  <2>2. n \in Printing <=> (text[n] = Newline => LooksForNumber(n))
    BY <1>1, <1>3, <1>4, <1>5, PrintedWhere DEF Printing, Unmatched
  <2>3. CASE out' = out /\ text[at + 1] = Newline /\ ~LooksForNumber(at + 1)
    <3>1. n \notin Printing
      BY <1>3, <2>2, <2>3
    <3>2. Shows(out, n)
      BY <1>1, <1>2, <1>4, <1>6, <3>1, NothingPrinted
    <3> QED
      BY <1>8, <2>3, <3>2
  <2>4. CASE /\ out' = Append(out, Echoed(text[at + 1]))
             /\ text[at + 1] = Newline => LooksForNumber(at + 1)
    <3>1. n \in Printing /\ PrintedFor(n) = Echoed(text[n])
      BY <1>3, <2>1, <2>2, <2>4
    <3>2. Shows(Append(out, PrintedFor(n)), n)
      BY <1>1, <1>2, <1>3, <1>8, <3>1, OnePrinted
    <3>3. Append(out, Echoed(text[n])) \in Seq(S \cup {Echoed(text[n])})
      BY <1>8, OneMore
    <3> QED
      BY <1>3, <2>4, <3>1, <3>2, <3>3
  <2> QED
    BY <2>3, <2>4
<1>10. n + 1 \in InReadNumbers => LooksForNumber(n + 1)
  BY <1>1, <1>3, <1>4, NumbersGoOn
<1>11. \A k \in RunStarts : k <= n => HasRoom(text[k])
  <2> SUFFICES ASSUME NEW k \in RunStarts, k <= n PROVE HasRoom(text[k])
    OBVIOUS
  <2>1. k \in Nat /\ k # n
    BY <1>1, <1>5, StoredAre, Zenon
  <2>2. k <= at
    BY <1>1, <1>3, <2>1
  <2> QED
    BY <1>1, <2>2
<1>12. start' = "integer" <=> LooksForNumber(n + 1)
  BY <1>2, <1>3, <1>4
<1> QED
  BY <1>1, <1>3, <1>4, <1>7, <1>9, <1>10, <1>11, <1>12, MaxGoesOn

LEMMA EndLineStep ==
  ASSUME MaxInv, program = "max", EndLine
  PROVE  MaxInv'
<1>1. text \in Seq(Symbol) /\ at \in 0..Len(text) /\ at \in Nat
  BY MaxText, Zenon
<1>2. /\ scanner = "runs" /\ start = "INITIAL" /\ More /\ Head1 = Newline /\ at' = at + 1
      /\ UNCHANGED <<program, text, scanner, out, start, current_repo, max_watchers_count>>
  BY DEF EndLine, Runs, Take, results
<1>3. at + 1 \in 1..Len(text) /\ text[at + 1] = Newline
  BY <1>1, <1>2, NextSymbol
<1>4. at + 1 \notin Keys /\ at + 1 \notin Digits
  BY <1>1, <1>3, PlacesAre, Zenon
<1>5. ~LooksForNumber(at + 1)
  BY <1>2, MaxText
<1>6. at + 1 \notin Stored /\ at + 1 \notin InReadNumbers
  BY <1>2, <1>4, <1>5, MaxText, KindsAre
<1>7. LooksForNumber(at + 2) <=> LooksForNumber(at + 1)
  <2>1. (at + 1) + 1 = at + 2
    BY <1>1
  <2>2. LooksForNumber((at + 1) + 1) <=> LooksForNumber(at + 1)
    BY <1>1, <1>3, <1>4, LooksBehind
  <2> QED
    BY <2>1, <2>2
<1> QED
  BY <1>2, <1>3, <1>5, <1>6, <1>7, SymbolPassed

\* What is echoed: a key only where a number should stand, a digit only where not.
LEMMA EchoStep ==
  ASSUME MaxInv, program = "max", EchoOther
  PROVE  MaxInv'
<1>1. text \in Seq(Symbol) /\ at \in 0..Len(text) /\ at \in Nat /\ start \in {"INITIAL", "integer"}
  BY MaxText, Zenon
<1>2. /\ scanner = "runs" /\ More /\ at' = at + 1 /\ out' = Append(out, Echoed(Head1))
      /\ UNCHANGED <<program, text, scanner, start, current_repo, max_watchers_count>>
      /\ IF start = "integer" THEN Head1 \notin Digit ELSE Head1 \notin Key \cup {Newline}
  BY DEF EchoOther, Runs, Take, Echo, results
<1>3. /\ at + 1 \in 1..Len(text) /\ Head1 = text[at + 1]
      /\ at + 1 \in Keys <=> Head1 \in Key
      /\ at + 1 \in Digits <=> Head1 \in Digit
  BY <1>1, <1>2, NextSymbol
<1>4. /\ start = "integer" <=> LooksForNumber(at + 1)
      /\ at + 1 \in InReadNumbers => LooksForNumber(at + 1)
  BY <1>2, MaxText
<1>5. (at + 1) + 1 = at + 2
  BY <1>1
<1>6. /\ at + 1 \in Keys => LooksForNumber(at + 2)
      /\ at + 1 \in Digits => ~LooksForNumber(at + 2)
      /\ at + 1 \notin Keys \cup Digits => (LooksForNumber(at + 2) <=> LooksForNumber(at + 1))
  <2>1. /\ at + 1 \in Keys => LooksForNumber((at + 1) + 1)
        /\ at + 1 \in Digits => ~LooksForNumber((at + 1) + 1)
        /\ at + 1 \notin Keys \cup Digits => (LooksForNumber((at + 1) + 1) <=> LooksForNumber(at + 1))
    BY <1>1, <1>3, LooksBehind
  <2> QED
    BY <1>5, <2>1
<1>7. at + 1 \notin Stored /\ at + 1 \notin InReadNumbers
  <2>1. \A k \in InReadNumbers : k \in Digits
    BY <1>1, WithinNumbers DEF InReadNumbers
  <2>2. CASE start = "integer"
    BY <1>2, <1>3, <1>4, <2>1, <2>2, KindsAre
  <2>3. CASE start = "INITIAL"
    BY <1>2, <1>3, <1>4, <2>3, KindsAre
  <2> QED
    BY <1>1, <2>2, <2>3
<1>8. LooksForNumber(at + 2) <=> LooksForNumber(at + 1)
  <2>1. CASE start = "integer"
    BY <1>2, <1>3, <1>4, <1>6, <2>1
  <2>2. CASE start = "INITIAL"
    BY <1>2, <1>3, <1>4, <1>6, <2>2
  <2> QED
    BY <1>1, <2>1, <2>2
<1>9. text[at + 1] = Newline => LooksForNumber(at + 1)
  BY <1>1, <1>2, <1>3, <1>4
<1> QED
  BY <1>2, <1>3, <1>7, <1>8, <1>9, SymbolPassed

LEMMA MaxReturns ==
  ASSUME MaxInv, program = "max", Return
  PROVE  MaxInv'
<1>1. /\ text \in Seq(Symbol) /\ Len(text) \in Nat /\ at \in 0..Len(text) /\ at \in Nat
      /\ (\A k \in RunStarts : k <= at => HasRoom(text[k])) /\ start \in {"INITIAL", "integer"}
  BY MaxText, Zenon
<1>2. /\ UNCHANGED <<program, text, at, start, current_repo, max_watchers_count>> /\ out' = out \o Result
      /\ scanner = "runs" /\ scanner' = "ended" /\ at = Len(text)
  BY <1>1 DEF Return, Ends, Runs, More, results
<1>3. LineSoFar(at, current_repo, max_watchers_count) /\ Shows(out, at)
  BY <1>2, MaxText
<1>4. PICK S : out \in Seq(S)
  BY MaxText, Zenon
<1>5. /\ current_repo = "" => out' = out
      /\ current_repo # "" => out' = Append(out, PrintMax)
  <2>1. current_repo = "" => Result = <<>>
    BY DEF Result
  <2>2. current_repo # "" => Result = <<PrintMax>>
    BY DEF Result
  <2>3. out \o <<>> = out
    BY <1>4
  <2>4. out \o <<PrintMax>> = Append(out, PrintMax)
    BY <1>4, OneMore
  <2> QED
    BY <1>2, <2>1, <2>2, <2>3, <2>4, Zenon
<1>6. PICK n : n = at + 1
  OBVIOUS
<1>7. n \in Nat /\ at <= n /\ n = Len(text) + 1 /\ n \notin 1..Len(text)
      /\ \A p : p \in Nat /\ at < p /\ p <= n => p = n
  BY <1>1, <1>2, <1>6
<1>8. n \notin Unmatched /\ n \notin RunStarts
  <2>1. \A k \in RunStarts : k \in 1..Len(text)
    BY <1>1, StoredAre, Zenon
  <2> QED
    BY <1>7, <2>1 DEF Unmatched
<1>9. /\ (\E r \in RunStarts : r < n) <=> current_repo # ""
      /\ current_repo # "" => Line(n) = PrintMax
  BY <1>1, <1>3, <1>6, LineIs DEF PrintMax
<1>10. (n \in Printing <=> current_repo # "") /\ PrintedFor(n) = Line(n)
  BY <1>7, <1>8, <1>9 DEF Printing, PrintedFor
<1>11. Shows(out', n) /\ \E R : out' \in Seq(R)
  <2>1. CASE current_repo # ""
    <3>1. Shows(Append(out, PrintedFor(n)), n)
      BY <1>1, <1>3, <1>4, <1>6, <1>10, <2>1, OnePrinted
    <3>2. Append(out, PrintMax) \in Seq(S \cup {PrintMax})
      BY <1>4, OneMore
    <3> QED
      BY <1>5, <1>9, <1>10, <2>1, <3>1, <3>2
  <2>2. CASE current_repo = ""
    <3>1. Shows(out, n)
      BY <1>1, <1>3, <1>7, <1>10, <2>2, NothingPrinted
    <3> QED
      BY <1>4, <1>5, <2>2, <3>1
  <2> QED
    BY <2>1, <2>2
<1>12. MaxOf("ended", at, start, current_repo', max_watchers_count', out')
  BY <1>1, <1>6, <1>8, <1>11 DEF MaxOf
<1> QED
  BY <1>2, <1>12, TextStays DEF MaxInv

LEMMA MaxStep == MaxInv /\ [TextNext]_<<scanned, results>> => MaxInv'
<1> SUFFICES ASSUME MaxInv, [TextNext]_<<scanned, results>>, program = "max" PROVE MaxInv'
  BY DEF MaxInv, TextNext, scanned, OpenComment, DropLine, EchoCode, CloseComment, DropComment,
     NewKey, Number, EndLine, EchoOther, Leading, Skip, Return, Ends, Take, Echo, Runs
<1>1. CASE UNCHANGED <<scanned, results>>
  <2>1. UNCHANGED <<program, text, at, start, out, scanner, current_repo, max_watchers_count>>
    BY <1>1 DEF scanned, results
  <2> QED
    BY <2>1, TextStays DEF MaxInv
<1>2. ~(OpenComment \/ DropLine \/ EchoCode \/ CloseComment \/ DropComment \/ Leading \/ Skip)
  BY DEF OpenComment, DropLine, EchoCode, CloseComment, DropComment, Leading, Skip, Runs
<1> QED
  BY <1>1, <1>2, KeyStep, NumberStep, EndLineStep, EchoStep, MaxReturns DEF TextNext

LEMMA MaxStarts ==
  ASSUME TextInit
  PROVE  MaxInv
<1>1. /\ text \in Seq(Symbol) /\ at = 0 /\ start = "INITIAL" /\ out = <<>> /\ scanner = "runs"
      /\ current_repo = "" /\ max_watchers_count = 0
  BY InputAssumption DEF TextInit, ScannerInit, ResultsInit
<1>2. Len(text) \in Nat /\ 0 \in 0..Len(text)
  <2>1. text \in Seq(Symbol)
    BY <1>1, Zenon
  <2>2. Len(text) \in Nat
    BY <2>1
  <2> QED
    BY <2>2
<1>3. /\ \A k \in Keys \cup Digits : k \in Nat /\ k >= 1
      /\ \A k \in Stored \cup RunStarts : k \in Nat /\ k >= 1
  <2>1. \A k \in Keys \cup Digits : k \in Nat /\ k >= 1
    BY <1>1, PlacesAre, Zenon
  <2> QED
    BY <2>1, KindsAre
<1>4. ~LooksForNumber(0 + 1)
  BY <1>3 DEF LooksForNumber
<1>5. 0 + 1 \notin InReadNumbers
  <2> SUFFICES ASSUME NEW d \in ReadNumbers, 0 + 1 \in d..LastDigit(d) PROVE FALSE
    BY DEF InReadNumbers
  <2>1. d \in Nat /\ d >= 1 /\ LooksForNumber(d)
    BY <1>3, KindsAre
  <2>2. LastDigit(d) \in Int
    <3>1. LastDigit(d) \in d..Len(text)
      BY <1>1, NumeralsAre, KindsAre, Zenon
    <3> QED
      BY <1>2, <2>1, <3>1
  <2>3. d = 0 + 1
    BY <2>1, <2>2
  <2> QED
    BY <1>4, <2>1, <2>3
<1>6. LineSoFar(0, "", 0)
  <2>1. \A j \in Stored : ~(j <= 0)
    BY <1>3
  <2> QED
    BY <2>1 DEF LineSoFar
<1>7. Shows(<<>>, 0)
  <2>1. \A p \in Printing : ~(p <= 0)
    <3> TAKE p \in Printing
    <3>1. p \in 1..(Len(text) + 1)
      BY <1>1, PrintingIs, Zenon
    <3> QED
      BY <1>2, <3>1
  <2>2. PrintingTo(0) = {}
    BY <2>1 DEF PrintingTo
  <2>3. Rank(0) = 0
    BY <2>2, FS_EmptySet DEF Rank, PrintingTo
  <2> QED
    BY <2>1, <2>3 DEF Shows
<1>8. <<>> \in Seq({})
  OBVIOUS
<1>9. \A k \in RunStarts : ~(k <= 0)
  BY <1>3
<1> QED
  BY <1>1, <1>2, <1>4, <1>5, <1>6, <1>7, <1>8, <1>9 DEF MaxInv, MaxOf, Settled

\* For texts of any length: what get_max prints of every run of keys and of what
\* no rule matches, when it leaves current_repo, and what average makes of the
\* numbers that lines begin with.
THEOREM StatisticsAreRight == TextSpec => []StatisticsAreOfTheLines
<1>1. TextInit => AverageInv /\ MaxInv
  <2> SUFFICES ASSUME TextInit PROVE AverageInv /\ MaxInv
    OBVIOUS
  <2>1. /\ text \in Seq(Symbol) /\ at = 0 /\ start = "INITIAL" /\ out = <<>> /\ scanner = "runs"
        /\ count = 0 /\ sum = 0
    BY InputAssumption DEF TextInit, ScannerInit, ResultsInit
  <2>2. Len(text) \in Nat /\ at \in 0..Len(text) /\ at \in Nat /\ out \in Seq({})
    <3>1. Len(text) \in Nat
      BY <2>1
    <3>2. 0 \in 0..Len(text) /\ <<>> \in Seq({})
      BY <3>1
    <3> QED
      BY <2>1, <3>1, <3>2
  <2>3. AverageInv
    <3>1. Cardinality(LeadsTo(0)) = 0 /\ Totals[0] = 0
      BY <2>1, LeadsAre, TotalsAre
    <3> QED
      BY <2>1, <2>2, <3>1 DEF AverageInv
  <2> QED
    BY <2>3, MaxStarts
<1>2. AverageInv /\ MaxInv => StatisticsAreOfTheLines
  <2> SUFFICES ASSUME AverageInv, MaxInv PROVE StatisticsAreOfTheLines
    OBVIOUS
  <2>1. ASSUME program = "max", scanner # "runs"
        PROVE  /\ \A k \in RunStarts : k <= at => HasRoom(text[k])
               /\ scanner = "overflow" <=> at + 1 \in RunStarts /\ ~HasRoom(text[at + 1])
               /\ Shows(out, at + 1)
    BY <2>1 DEF MaxInv, MaxOf
  <2>2. ASSUME program = "average", scanner = "ended" PROVE out = Mean
    BY <2>2 DEF AverageInv
  <2> QED
    BY <2>1, <2>2 DEF StatisticsAreOfTheLines, Shows, Mean
<1> QED
  BY <1>1, <1>2, AverageStep, MaxStep, PTL DEF TextSpec
=============================================================================
