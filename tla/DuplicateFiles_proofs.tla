------------------------ MODULE DuplicateFiles_proofs ------------------------
(* Proofs about DuplicateFiles for files of any length and arrays of any     *)
(* size: the strings main frees are those the scanners made, the arrays hold *)
(* the lines of the files, and the report is the join of the files.          *)
EXTENDS ChecksumReport, FiniteSetTheorems, SequenceTheorems, WellFoundedInduction, TLAPS

TypeOK ==
    /\ pc \in {"main", "open", "scan", "join", "free", "exit", "undefined"}
    /\ reading \in Which
    /\ rest \in Seq(Symbol)
    /\ state \in {"INITIAL", "fpath"}
    /\ checksum \in [Which -> [Slot -> Sum \cup {Null}]]
    /\ idx \in [Which -> 0 .. MaxLen]
    /\ live \subseteq Which \X {"checksum", "filepath"} \X Slot
    /\ i \in Nat
    /\ status \in {-1, 0, 1, Null}
    /\ status = 0 => pc = "exit"

\* The slot of a path is open exactly between a checksum and its path, and the
\* slots behind it are as they were at first.
Pending(s) == pc = "scan" /\ reading = s /\ state = "fpath"

OpenSlots ==
    \A s \in Which :
        /\ \A k \in Slot : k > idx[s] => checksum[s][k] = Null
        /\ Pending(s) => idx[s] \in Slot /\ checksum[s][idx[s]] # Null
        /\ pc \in {"main", "open", "scan"} /\ s >= reading /\ ~Pending(s) =>
               (idx[s] \in Slot => checksum[s][idx[s]] = Null)

\* What the loops of main have not freed yet.
Unfreed == {h \in Completed : h[1] > reading \/ (h[1] = reading /\ h[3] >= i)}

LiveStrings ==
    /\ pc \in {"main", "open", "scan", "join"} => live = Completed \cup Dangling
    /\ pc = "free" => live = Unfreed \cup Dangling /\ i <= idx[reading]
    /\ status = 0 => live = Dangling

Inv == TypeOK /\ OpenSlots /\ LiveStrings

-----------------------------------------------------------------------------
String == Which \X {"checksum", "filepath"} \X Slot

\* The strings of entries and the pathless ones, string by string.
LEMMA Strings ==
    /\ \A h \in String : h \in Completed <=> h[3] < idx[h[1]]
    /\ \A h \in String : h \in Dangling <=>
           h[2] = "checksum" /\ h[3] = idx[h[1]] /\ checksum[h[1]][h[3]] # Null
    /\ \A h \in String : h \in Unfreed <=>
           h \in Completed /\ (h[1] > reading \/ (h[1] = reading /\ h[3] >= i))
    /\ Completed \subseteq String /\ Dangling \subseteq String /\ Unfreed \subseteq String
BY DEF Completed, Dangling, Unfreed, String

LEMMA InitInv == Init => Inv
<1> SUFFICES ASSUME Init PROVE Inv
  OBVIOUS
<1> USE MaxLenAssumption
<1>1. TypeOK /\ OpenSlots
  BY SymbolAssumption DEF Init, TypeOK, OpenSlots, Pending, Which, Slot
<1>2. Completed = {} /\ Dangling = {}
  BY <1>1 DEF Init, Completed, Dangling, Which, Slot
<1> QED
  BY <1>1, <1>2, SymbolAssumption DEF Inv, LiveStrings, Init

\* A scanner goes on in what is left of a text.
LEMMA TailsOfTexts ==
    ASSUME NEW text \in Seq(Symbol), text # <<>>
    PROVE  Tail(text) \in Seq(Symbol)
OBVIOUS

LEMMA LineEnds ==
    ASSUME NEW text \in Seq(Symbol)
    PROVE  LineLength(text) \in 0 .. Len(text)
<1> DEFINE Ends == {n \in 1 .. Len(text) : text[n] = NL}
           IsLine(n) == /\ \A k \in 1 .. n : text[k] # NL
                        /\ n = Len(text) \/ text[n + 1] = NL
<1>1. CASE Ends = {}
  <2>1. IsLine(Len(text)) /\ Len(text) \in 0 .. Len(text)
    BY <1>1
  <2> QED
    BY <2>1 DEF LineLength
<1>2. CASE Ends # {}
  <2>1. PICK e \in Ends : \A f \in Ends : e <= f
    <3>1. Ends \subseteq Nat
      OBVIOUS
    <3>2. PICK x \in Ends : \A y \in Ends : ~ (<<y, x>> \in OpToRel(<, Nat))
      <4> HIDE DEF Ends
      <4> QED
        BY <1>2, <3>1, NatLessThanWellFounded, WFMin, Zenon
    <3>3. \A y \in Ends : ~ (y < x)
      BY <3>1, <3>2 DEF OpToRel
    <3> QED
      BY <3>1, <3>3
  <2>2. IsLine(e - 1) /\ e - 1 \in 0 .. Len(text)
    BY <2>1
  <2> QED
    BY <2>2 DEF LineLength
<1> QED
  BY <1>1, <1>2

-----------------------------------------------------------------------------
LEMMA ChecksumStep == Inv /\ MatchChecksum => Inv'
<1> SUFFICES ASSUME Inv, MatchChecksum PROVE Inv'
  OBVIOUS
<1> USE MaxLenAssumption DEF Arrays, OpenSlot
<1>1. /\ reading \in Which /\ pc = "scan" /\ state = "INITIAL" /\ rest # <<>>
      /\ Head(rest) \in Sum /\ status # 0
      /\ idx \in [Which -> 0 .. MaxLen]
      /\ checksum \in [Which -> [Slot -> Sum \cup {Null}]]
      /\ idx' = idx /\ reading' = reading /\ status' = status /\ i' = i
  BY DEF MatchChecksum, Inv, TypeOK
<1>2. CASE idx[reading] \in Slot
  <2> DEFINE n == idx[reading]
             c == Head(rest)
  <2>1. /\ checksum' = [checksum EXCEPT ![reading][n] = c]
        /\ live' = live \cup {<<reading, "checksum", n>>}
        /\ state' = "fpath" /\ rest' = Tail(rest) /\ pc' = pc
    BY <1>2 DEF MatchChecksum
  <2>2. c \in Sum /\ c # Null
    BY <1>1, SymbolAssumption
  <2>3. <<reading, "checksum", n>> \in Which \X {"checksum", "filepath"} \X Slot
    BY <1>1, <1>2
  <2>4. rest' \in Seq(Symbol)
    BY <2>1, <1>1, TailsOfTexts DEF Inv, TypeOK
  <2> HIDE DEF c
  <2>5. checksum' \in [Which -> [Slot -> Sum \cup {Null}]]
    BY <1>1, <1>2, <2>1, <2>2
  <2>6. TypeOK'
    BY <1>1, <2>1, <2>3, <2>4, <2>5 DEF Inv, TypeOK
  <2>7. \A s \in Which, k \in Slot :
            checksum'[s][k] = IF s = reading /\ k = n THEN c ELSE checksum[s][k]
    BY <1>1, <1>2, <2>1
  <2>8. OpenSlots'
    BY <1>1, <1>2, <2>1, <2>2, <2>7 DEF Inv, OpenSlots, Pending, Which, Slot
  <2>9. checksum[reading][n] = Null
    BY <1>1, <1>2 DEF Inv, OpenSlots, Pending, Which
  <2>10. live' = Completed' \cup Dangling'
    <3>1. live = Completed \cup Dangling /\ live \subseteq String
      BY <1>1, Strings DEF Inv, LiveStrings
    <3>2. \A h \in String : h \in live' <=> h \in Completed' \/ h \in Dangling'
      <4> TAKE h \in String
      <4>1. h[1] \in Which /\ h[3] \in Slot /\ h = <<h[1], h[2], h[3]>>
        BY DEF String
      <4>2. h \in live <=> h \in Completed \/ h \in Dangling
        BY <3>1
      <4>3. h \in Completed' <=> h \in Completed
        BY <1>1 DEF Completed
      <4>4. h \in Dangling' <=> h \in Dangling \/ h = <<reading, "checksum", n>>
        <5>1. h \in Dangling' <=> /\ h[2] = "checksum" /\ h[3] = idx[h[1]]
                                  /\ checksum'[h[1]][h[3]] # Null
          BY <1>1, <4>1 DEF Dangling, String
        <5>2. h \in Dangling <=> /\ h[2] = "checksum" /\ h[3] = idx[h[1]]
                                 /\ checksum[h[1]][h[3]] # Null
          BY Strings
        <5> QED
          BY <5>1, <5>2, <4>1, <2>2, <2>7, <2>9
      <4> QED
        BY <4>2, <4>3, <4>4, <2>1
    <3>3. live' \subseteq String /\ Completed' \subseteq String /\ Dangling' \subseteq String
      BY <3>1, <2>1, <2>3, <2>5, <1>1 DEF String, Completed, Dangling
    <3> QED
      BY <3>2, <3>3
  <2> QED
    BY <1>1, <2>1, <2>6, <2>8, <2>10 DEF Inv, LiveStrings
<1>3. CASE idx[reading] \notin Slot
  <2>1. pc' = "undefined" /\ UNCHANGED <<checksum, live, state, rest>>
    BY <1>3 DEF MatchChecksum
  <2> QED
    BY <1>1, <2>1 DEF Inv, TypeOK, OpenSlots, Pending, LiveStrings
<1> QED
  BY <1>2, <1>3

LEMMA PathStep == Inv /\ MatchPath => Inv'
<1> SUFFICES ASSUME Inv, MatchPath PROVE Inv'
  OBVIOUS
<1> USE MaxLenAssumption DEF Arrays, NextSlot
<1> DEFINE n == idx[reading]
<1>1. /\ reading \in Which /\ pc = "scan" /\ state = "fpath" /\ status # 0
      /\ idx \in [Which -> 0 .. MaxLen]
      /\ checksum \in [Which -> [Slot -> Sum \cup {Null}]]
      /\ reading' = reading /\ status' = status /\ i' = i /\ pc' = pc
      /\ checksum' = checksum /\ state' = "INITIAL"
      /\ live' = live \cup {<<reading, "filepath", n>>}
      /\ idx' = [idx EXCEPT ![reading] = n + 1]
  BY DEF MatchPath, Inv, TypeOK
<1>2. n \in Slot /\ checksum[reading][n] # Null
  BY <1>1 DEF Inv, OpenSlots, Pending
<1>3. rest' \in Seq(Symbol)
  <2> DEFINE k == LineLength(rest)
  <2>1. rest \in Seq(Symbol) /\ k \in 0 .. Len(rest)
    BY LineEnds DEF Inv, TypeOK
  <2>2. rest' = SubSeq(rest, k + 1, Len(rest))
    BY DEF MatchPath
  <2> HIDE DEF k
  <2> QED
    BY <2>1, <2>2
<1>4. idx' \in [Which -> 0 .. MaxLen]
  BY <1>1, <1>2 DEF Slot
<1>5. TypeOK'
  BY <1>1, <1>2, <1>3, <1>4 DEF Inv, TypeOK
<1>6. \A s \in Which : idx'[s] = IF s = reading THEN n + 1 ELSE idx[s]
  BY <1>1
<1> HIDE DEF n
<1>7. OpenSlots'
  <2> SUFFICES ASSUME NEW s \in Which
               PROVE  /\ \A k \in Slot : k > idx'[s] => checksum[s][k] = Null
                      /\ s >= reading =>
                             (idx'[s] \in Slot => checksum[s][idx'[s]] = Null)
    BY <1>1 DEF OpenSlots, Pending
  <2>1. \A k \in Slot : k > idx[s] => checksum[s][k] = Null
    BY DEF Inv, OpenSlots
  <2>2. CASE s = reading
    BY <2>1, <2>2, <1>2, <1>6 DEF Slot, n
  <2>3. CASE s # reading
    BY <2>1, <2>3, <1>1, <1>6 DEF Inv, OpenSlots, Pending
  <2> QED
    BY <2>2, <2>3
<1>8. live' = Completed' \cup Dangling'
  <2>1. live = Completed \cup Dangling /\ live \subseteq String
    BY <1>1, Strings DEF Inv, LiveStrings
  <2>2. \A h \in String : h \in live' <=> h \in Completed' \/ h \in Dangling'
    <3> TAKE h \in String
    <3>1. /\ h[1] \in Which /\ h[2] \in {"checksum", "filepath"} /\ h[3] \in Slot
          /\ h = <<h[1], h[2], h[3]>>
      BY DEF String
    <3>2. h \in Completed' <=> h[3] < idx'[h[1]]
      BY <3>1 DEF Completed, String
    <3>3. h \in Dangling' <=> /\ h[2] = "checksum" /\ h[3] = idx'[h[1]]
                              /\ checksum[h[1]][h[3]] # Null
      BY <1>1, <3>1 DEF Dangling
    <3>4. /\ h \in Completed <=> h[3] < idx[h[1]]
          /\ h \in Dangling <=> /\ h[2] = "checksum" /\ h[3] = idx[h[1]]
                                /\ checksum[h[1]][h[3]] # Null
      BY Strings
    <3>5. h \in live' <=> h \in Completed \/ h \in Dangling \/ h = <<reading, "filepath", n>>
      BY <1>1, <2>1 DEF n
    <3>6. CASE h[1] # reading
      BY <3>1, <3>2, <3>3, <3>4, <3>5, <3>6, <1>6
    <3>7. CASE h[1] = reading
      <4>1. idx[h[1]] = n /\ idx'[h[1]] = n + 1 /\ n \in Nat /\ h[3] \in Nat
        BY <3>1, <3>7, <1>2, <1>6 DEF n, Slot
      <4>2. h[3] = n + 1 => checksum[h[1]][h[3]] = Null
        BY <4>1, <3>1 DEF Inv, OpenSlots
      <4>3. CASE h[3] < n
        BY <4>1, <4>3, <3>2, <3>4, <3>5
      <4>4. CASE h[3] = n
        BY <4>1, <4>4, <3>1, <3>2, <3>4, <3>5, <3>7, <1>2
      <4>5. CASE h[3] > n
        BY <4>1, <4>2, <4>5, <3>1, <3>2, <3>3, <3>4, <3>5
      <4> QED
        BY <4>1, <4>3, <4>4, <4>5
    <3> QED
      BY <3>6, <3>7
  <2>3. live' \subseteq String /\ Completed' \subseteq String /\ Dangling' \subseteq String
    BY <2>1, <1>1, <1>2, <1>4 DEF String, Completed, Dangling, n
  <2> QED
    BY <2>2, <2>3
<1> QED
  BY <1>1, <1>5, <1>7, <1>8 DEF Inv, LiveStrings

-----------------------------------------------------------------------------
\* The two strings of an entry are there when a loop of main frees them.
LEMMA FreesLiveStrings ==
    ASSUME Inv, pc = "free", i < Count(reading)
    PROVE  /\ {<<reading, "checksum", i>>, <<reading, "filepath", i>>} \subseteq live
           /\ i \in Slot
<1>1. /\ reading \in Which /\ i \in Nat /\ i < idx[reading]
      /\ idx \in [Which -> 0 .. MaxLen] /\ live = Unfreed \cup Dangling
  BY DEF Inv, TypeOK, LiveStrings, Count
<1>2. i \in Slot
  BY <1>1, MaxLenAssumption DEF Slot
<1>3. \A kind \in {"checksum", "filepath"} : <<reading, kind, i>> \in Unfreed
  BY <1>1, <1>2 DEF Unfreed, Completed
<1> QED
  BY <1>1, <1>2, <1>3

LEMMA FreeStep == Inv /\ FreeEntry => Inv'
<1> SUFFICES ASSUME Inv, FreeEntry PROVE Inv'
  OBVIOUS
<1>1. /\ pc = "free" /\ reading \in Which /\ i \in Nat /\ i < idx[reading]
      /\ idx \in [Which -> 0 .. MaxLen]
      /\ live = Unfreed \cup Dangling /\ live \subseteq String
      /\ live' = live \ {<<reading, "checksum", i>>, <<reading, "filepath", i>>}
      /\ i' = i + 1
      /\ UNCHANGED <<pc, reading, rest, state, checksum, idx, status>>
      /\ i \in Slot
  BY FreesLiveStrings DEF FreeEntry, Count, Inv, TypeOK, LiveStrings, String
<1>2. TypeOK' /\ OpenSlots'
  BY <1>1 DEF Inv, TypeOK, OpenSlots, Pending
<1>3. Completed' = Completed /\ Dangling' = Dangling
  BY <1>1 DEF Completed, Dangling
<1>4. live' = Unfreed' \cup Dangling'
  <2>1. \A h \in String : h \in live' <=> h \in Unfreed' \/ h \in Dangling'
    <3> TAKE h \in String
    <3>1. /\ h[1] \in Which /\ h[2] \in {"checksum", "filepath"} /\ h[3] \in Slot
          /\ h = <<h[1], h[2], h[3]>>
      BY DEF String
    <3>2. h \in Unfreed' <=>
              h \in Completed /\ (h[1] > reading \/ (h[1] = reading /\ h[3] >= i + 1))
      BY <1>1, <1>3, <3>1 DEF Unfreed
    <3>3. /\ h \in Unfreed <=>
                 h \in Completed /\ (h[1] > reading \/ (h[1] = reading /\ h[3] >= i))
          /\ h \in Completed <=> h[3] < idx[h[1]]
          /\ h \in Dangling <=> /\ h[2] = "checksum" /\ h[3] = idx[h[1]]
                                /\ checksum[h[1]][h[3]] # Null
      BY Strings
    <3>4. h \in live' <=> /\ h \in Unfreed \/ h \in Dangling
                          /\ ~(h[1] = reading /\ h[3] = i)
      BY <1>1, <3>1
    <3>5. h \in Dangling => ~(h[1] = reading /\ h[3] = i)
      BY <1>1, <3>3
    <3>6. h[1] \in Nat /\ h[3] \in Nat /\ reading \in Nat
      BY <1>1, <3>1 DEF Which, Slot
    <3>7. ~(h[1] = reading /\ h[3] = i) =>
              (h[1] = reading /\ h[3] >= i <=> h[1] = reading /\ h[3] >= i + 1)
      BY <1>1, <3>6
    <3>8. h[1] = reading /\ h[3] = i => ~(h[1] > reading) /\ ~(h[3] >= i + 1)
      BY <1>1, <3>6
    <3> QED
      BY <1>3, <3>2, <3>3, <3>4, <3>5, <3>7, <3>8, Zenon
  <2>2. live' \subseteq String /\ Unfreed' \subseteq String /\ Dangling' \subseteq String
    BY <1>1, <1>3, Strings DEF Unfreed
  <2> QED
    BY <2>1, <2>2
<1>5. i' <= idx'[reading'] /\ status' # 0
  BY <1>1 DEF Inv, TypeOK
<1> QED
  BY <1>1, <1>2, <1>4, <1>5 DEF Inv, LiveStrings

LEMMA FreeEndStep == Inv /\ FreeEnd => Inv'
<1> SUFFICES ASSUME Inv, FreeEnd PROVE Inv'
  OBVIOUS
<1>1. /\ pc = "free" /\ reading \in Which /\ i \in Nat /\ i = idx[reading]
      /\ idx \in [Which -> 0 .. MaxLen] /\ live = Unfreed \cup Dangling
      /\ UNCHANGED <<rest, state, checksum, idx, live>>
  BY DEF FreeEnd, Count, Inv, TypeOK, LiveStrings, arrays
<1>2. Completed' = Completed /\ Dangling' = Dangling
  BY <1>1 DEF Completed, Dangling
<1>3. \A h \in Completed : h[3] \in Nat /\ h[1] \in Which /\ h[3] < idx[h[1]]
  BY MaxLenAssumption DEF Completed, Slot
<1>4. CASE reading = 1
  <2>1. reading' = 2 /\ i' = 0 /\ UNCHANGED <<pc, status>>
    BY <1>4 DEF FreeEnd
  <2>2. Unfreed' = Unfreed
    BY <1>1, <1>2, <1>3, <1>4, <2>1 DEF Unfreed, Which
  <2> QED
    BY <1>1, <1>2, <2>1, <2>2 DEF Inv, TypeOK, OpenSlots, Pending, LiveStrings, Which
<1>5. CASE reading = 2
  <2>1. pc' = "exit" /\ status' = 0 /\ UNCHANGED <<reading, i>>
    BY <1>5 DEF FreeEnd, Return
  <2>2. Unfreed = {}
    BY <1>1, <1>3, <1>5 DEF Unfreed, Which
  <2> QED
    BY <1>1, <1>2, <2>1, <2>2 DEF Inv, TypeOK, OpenSlots, Pending, LiveStrings
<1> QED
  BY <1>1, <1>4, <1>5 DEF Which

LEMMA FilesStay == [Next]_vars => files' = files
BY DEF Next, vars, inputs, CheckArguments, OpenFile, MatchChecksum, MatchPath, MatchOther,
       EndOfFile, ComparePair, NextEntry, JoinEnd, FreeEntry, FreeEnd

LEMMA StepInv == Inv /\ files \in File /\ [Next]_vars => Inv'
<1> SUFFICES ASSUME Inv, files \in File, [Next]_vars PROVE Inv'
  OBVIOUS
<1> USE DEF Inv, TypeOK, OpenSlots, Pending, LiveStrings, Completed, Dangling, arrays, Which
<1>1. CASE CheckArguments
  BY <1>1, SymbolAssumption DEF CheckArguments, Return
<1>2. CASE OpenFile
  <2>1. files[reading] = Missing \/ files[reading] \in Seq(Symbol)
    BY FileAssumption
  <2> QED
    BY <1>2, <2>1 DEF OpenFile, Return
<1>3. CASE MatchOther
  BY <1>3, TailsOfTexts DEF MatchOther
<1>4. CASE EndOfFile
  BY <1>4 DEF EndOfFile
<1>5. CASE ComparePair
  BY <1>5 DEF ComparePair
<1>6. CASE NextEntry
  BY <1>6 DEF NextEntry
<1>7. CASE JoinEnd
  <2>1. \A h \in Completed : h[3] >= 0 /\ h[1] \in {1, 2}
    BY MaxLenAssumption DEF Slot
  <2>2. Unfreed' = Completed'
    BY <1>7, <2>1 DEF JoinEnd, Unfreed
  <2> QED
    BY <1>7, <2>2 DEF JoinEnd
<1>8. CASE UNCHANGED vars
  BY <1>8 DEF vars, Unfreed
<1> HIDE DEF Inv, TypeOK, OpenSlots, Pending, LiveStrings, Completed, Dangling, arrays, Which
<1> QED
  BY <1>1, <1>2, <1>3, <1>4, <1>5, <1>6, <1>7, <1>8,
     ChecksumStep, PathStep, FreeStep, FreeEndStep DEF Next

-----------------------------------------------------------------------------
\* For files of any length: the arrays of main hold live strings of exactly the
\* entries read, each is freed once, and the only strings left over are those of
\* a last checksum without a path (main.c lines 69-77).
THEOREM StringsFreedOnce == Spec => []StringsAreFreedOnce
<1>1. Init => files \in File
  BY DEF Init
<1>2. Inv => StringsAreFreedOnce
  <2> SUFFICES ASSUME Inv PROVE StringsAreFreedOnce
    OBVIOUS
  <2>1. pc = "free" /\ i < Count(reading) =>
            {<<reading, "checksum", i>>, <<reading, "filepath", i>>} \subseteq live
    BY FreesLiveStrings
  <2> QED
    BY <2>1 DEF Inv, LiveStrings, StringsAreFreedOnce
<1>3. files \in File /\ [Next]_vars => (files \in File)'
  BY FilesStay
<1> QED
  BY <1>1, <1>2, <1>3, InitInv, StepInv, PTL DEF Spec

-----------------------------------------------------------------------------
(* Ranks: how many members of a set of naturals are less than a number.      *)

Below(T, p) == {q \in T : q < p}

LEMMA BelowGrows ==
    ASSUME NEW T \in SUBSET Nat, IsFiniteSet(T)
    PROVE  /\ \A p \in Nat : IsFiniteSet(Below(T, p)) /\ Cardinality(Below(T, p)) \in Nat
           /\ \A p, r \in Nat : p <= r => Cardinality(Below(T, p)) <= Cardinality(Below(T, r))
           /\ \A p \in T : \A r \in Nat :
                 p < r => Cardinality(Below(T, p)) < Cardinality(Below(T, r))
           /\ \A p \in T : Cardinality(Below(T, p)) < Cardinality(T)
<1>1. Cardinality(T) \in Nat
  BY FS_CardinalityType
<1>2. ASSUME NEW p \in Nat PROVE IsFiniteSet(Below(T, p)) /\ Cardinality(Below(T, p)) \in Nat
  <2>1. Below(T, p) \in SUBSET T
    BY DEF Below
  <2>2. IsFiniteSet(Below(T, p))
    BY <2>1, FS_Subset
  <2> QED
    BY <2>2, FS_CardinalityType
<1>3. ASSUME NEW p \in Nat, NEW r \in Nat, p <= r
      PROVE  Cardinality(Below(T, p)) <= Cardinality(Below(T, r))
  <2>1. Below(T, p) \in SUBSET Below(T, r)
    <3>1. \A q \in T : q < p => q < r
      BY <1>3
    <3> QED
      BY <3>1, Zenon DEF Below
  <2> QED
    BY <1>2, <2>1, FS_Subset
<1>4. ASSUME NEW p \in T, NEW R \in SUBSET T, p \in R, Below(T, p) \subseteq R, IsFiniteSet(R)
      PROVE  Cardinality(Below(T, p)) < Cardinality(R)
  <2>1. Cardinality(Below(T, p)) \in Nat /\ Cardinality(R) \in Nat
    BY <1>2, <1>4, FS_CardinalityType
  <2>2. p \notin Below(T, p)
    BY DEF Below
  <2>3. Below(T, p) \in SUBSET R
    BY <1>4
  <2>4. Cardinality(Below(T, p)) <= Cardinality(R) /\ (Cardinality(R) = Cardinality(Below(T, p)) => R = Below(T, p))
    BY <1>4, <2>3, FS_Subset
  <2>5. R # Below(T, p)
    BY <1>4, <2>2
  <2> QED
    BY <2>1, <2>4, <2>5
<1>5. ASSUME NEW p \in T, NEW r \in Nat, p < r
      PROVE  Cardinality(Below(T, p)) < Cardinality(Below(T, r))
  <2>1. p \in Below(T, r) /\ Below(T, p) \subseteq Below(T, r) /\ Below(T, r) \in SUBSET T
    <3>1. \A q \in T : q < p => q < r
      BY <1>5
    <3>2. p < r
      BY <1>5
    <3> QED
      BY <3>1, <3>2, Zenon DEF Below
  <2> QED
    BY <1>2, <1>4, <2>1
<1>6. ASSUME NEW p \in T PROVE Cardinality(Below(T, p)) < Cardinality(T)
  <2>1. Below(T, p) \subseteq T
    BY DEF Below
  <2> QED
    BY <1>4, <2>1
<1> QED
  BY <1>2, <1>3, <1>5, <1>6

LEMMA BelowOnto ==
    ASSUME NEW T \in SUBSET Nat, IsFiniteSet(T), NEW n \in Nat, n < Cardinality(T)
    PROVE  \E p \in T : Cardinality(Below(T, p)) = n
<1> DEFINE c == Cardinality(T)
           R == 0 .. (c - 1)
           f == [p \in T |-> Cardinality(Below(T, p))]
<1>1. c \in Nat /\ IsFiniteSet(R) /\ Cardinality(R) = c
  <2>1. c \in Nat
    BY FS_CardinalityType
  <2> HIDE DEF c
  <2>2. 0 \in Int /\ c - 1 \in Int
    BY <2>1
  <2>3. IsFiniteSet(R) /\ Cardinality(R) = IF 0 > c - 1 THEN 0 ELSE (c - 1) - 0 + 1
    BY <2>2, FS_Interval
  <2> QED
    BY <2>1, <2>3
<1>2. \A p \in T : f[p] \in R
  <2> TAKE p \in T
  <2>1. Cardinality(Below(T, p)) \in Nat /\ Cardinality(Below(T, p)) < c
    BY BelowGrows
  <2> HIDE DEF c
  <2> QED
    BY <1>1, <2>1
<1>3. \A p, q \in T : f[p] = f[q] => p = q
  <2> SUFFICES ASSUME NEW p \in T, NEW q \in T, p < q PROVE f[p] # f[q]
    OBVIOUS
  <2>1. Cardinality(Below(T, p)) < Cardinality(Below(T, q))
    BY BelowGrows
  <2>2. Cardinality(Below(T, p)) \in Nat /\ Cardinality(Below(T, q)) \in Nat
    BY BelowGrows
  <2> QED
    BY <2>1, <2>2
<1>4. f \in Injection(T, R)
  <2>1. f \in [T -> R]
    BY <1>2
  <2> HIDE DEF f, R
  <2> QED
    BY <1>3, <2>1 DEF Injection, IsInjective
<1>5. f \in Surjection(T, R)
  <2> HIDE DEF f, R
  <2> QED
    BY <1>1, <1>4, FS_Injection
<1>6. n \in R
  <2> HIDE DEF c
  <2> QED
    BY <1>1 DEF c
<1> QED
  BY <1>5, <1>6 DEF Surjection

-----------------------------------------------------------------------------
(* Lines: where they start and end, and what is in them.                     *)

LEMMA StartsAre ==
    ASSUME NEW text \in Seq(Symbol)
    PROVE  /\ Starts(text) \in SUBSET Nat /\ Starts(text) \in SUBSET (1 .. Len(text))
           /\ IsFiniteSet(Starts(text))
           /\ \A p : Rank(text, p) = Cardinality(Below(Starts(text), p))
           /\ Lines(text) \in Nat
<1>1. Starts(text) \in SUBSET (1 .. Len(text)) /\ 1 .. Len(text) \in SUBSET Nat /\ Len(text) \in Int
  BY DEF Starts
<1>2. IsFiniteSet(Starts(text))
  BY <1>1, FS_Interval, FS_Subset
<1> QED
  BY <1>1, <1>2, FS_CardinalityType DEF Rank, Below, Lines

LEMMA Ranks ==
    ASSUME NEW text \in Seq(Symbol)
    PROVE  /\ \A p \in Nat : Rank(text, p) \in Nat
           /\ \A p, r \in Nat : p <= r => Rank(text, p) <= Rank(text, r)
           /\ \A p \in Starts(text) : \A r \in Nat : p < r => Rank(text, p) < Rank(text, r)
           /\ \A p \in Starts(text) : Rank(text, p) < Lines(text)
           /\ \A n \in Nat : n < Lines(text) => \E p \in Starts(text) : Rank(text, p) = n
           /\ Rank(text, 1) = 0
           /\ Rank(text, Len(text) + 1) = Lines(text)
<1> DEFINE T == Starts(text)
<1>1. T \in SUBSET Nat /\ IsFiniteSet(T) /\ T \in SUBSET (1 .. Len(text))
      /\ Lines(text) = Cardinality(T)
  BY StartsAre DEF Lines
<1>2. \A p : Rank(text, p) = Cardinality(Below(T, p))
  BY StartsAre
<1> HIDE DEF T
<1>3. Below(T, 1) = {} /\ Below(T, Len(text) + 1) = T
  <2>1. (\A q \in T : ~(q < 1)) /\ (\A q \in T : q < Len(text) + 1)
    BY <1>1
  <2> QED
    BY <2>1, Zenon DEF Below
<1>4. Cardinality({}) = 0
  BY FS_EmptySet
<1>5. \A n \in Nat : n < Cardinality(T) => \E p \in T : Cardinality(Below(T, p)) = n
  BY <1>1, BelowOnto
<1>6. /\ \A p \in Nat : Cardinality(Below(T, p)) \in Nat
      /\ \A p, r \in Nat : p <= r => Cardinality(Below(T, p)) <= Cardinality(Below(T, r))
      /\ \A p \in T : \A r \in Nat :
            p < r => Cardinality(Below(T, p)) < Cardinality(Below(T, r))
      /\ \A p \in T : Cardinality(Below(T, p)) < Cardinality(T)
  BY <1>1, BelowGrows
<1> QED
  BY <1>1, <1>2, <1>3, <1>4, <1>5, <1>6 DEF T

\* Of two lines, the number says which is first.
LEMMA RanksOrder ==
    ASSUME NEW text \in Seq(Symbol), NEW p \in Starts(text), NEW q \in Starts(text)
    PROVE  /\ p < q <=> Rank(text, p) < Rank(text, q)
           /\ p = q <=> Rank(text, p) = Rank(text, q)
<1>1. p \in Nat /\ q \in Nat
  BY StartsAre
<1>2. Rank(text, p) \in Nat /\ Rank(text, q) \in Nat
  BY <1>1, Ranks
<1>3. (p < q => Rank(text, p) < Rank(text, q)) /\ (q < p => Rank(text, q) < Rank(text, p))
  BY <1>1, Ranks
<1> QED
  BY <1>1, <1>2, <1>3

LEMMA LinesEnd ==
    ASSUME NEW text \in Seq(Symbol), NEW p \in Starts(text)
    PROVE  LET e == EndOf(text, p)
           IN  /\ e \in (p - 1) .. Len(text)
               /\ \A k \in p .. e : text[k] # NL
               /\ e < Len(text) => text[e + 1] = NL
<1> DEFINE E == {k \in p .. Len(text) : text[k] = NL}
<1>1. p \in 1 .. Len(text)
  BY StartsAre
<1>2. CASE E = {}
  <2>1. EndOf(text, p) = Len(text)
    BY <1>2 DEF EndOf
  <2> QED
    BY <1>1, <1>2, <2>1
<1>3. CASE E # {}
  <2>1. E \in SUBSET Nat
    BY <1>1
  <2>2. \A k \in E : k \in p .. Len(text) /\ text[k] = NL
    OBVIOUS
  <2>3. \A k \in p .. Len(text) : k \notin E => text[k] # NL
    OBVIOUS
  <2>4. EndOf(text, p) = Min(E) - 1
    BY <1>3 DEF EndOf
  <2> HIDE DEF E
  <2>5. PICK m \in E : \A y \in E : m <= y
    <3>1. PICK x \in E : \A y \in E : ~ (<<y, x>> \in OpToRel(<, Nat))
      BY <1>3, <2>1, NatLessThanWellFounded, WFMin, Zenon
    <3>2. \A y \in E : ~ (y < x)
      BY <2>1, <3>1 DEF OpToRel
    <3> QED
      BY <2>1, <3>2
  <2>6. Min(E) = m
    <3>1. Min(E) \in E /\ \A y \in E : Min(E) <= y
      BY <2>5 DEF Min
    <3>2. Min(E) <= m /\ m <= Min(E)
      BY <2>5, <3>1
    <3> DEFINE w == Min(E)
    <3>3. w \in Nat /\ m \in Nat /\ w <= m /\ m <= w
      BY <2>1, <3>1, <3>2
    <3> HIDE DEF w
    <3>4. w = m
      BY <3>3
    <3> QED
      BY <3>4 DEF w
  <2>7. m \in p .. Len(text) /\ text[m] = NL /\ EndOf(text, p) = m - 1
    BY <2>2, <2>4, <2>6
  <2>8. \A k \in p .. (m - 1) : text[k] # NL
    <3> TAKE k \in p .. (m - 1)
    <3>1. k \in p .. Len(text) /\ ~(m <= k)
      BY <1>1, <2>7
    <3> QED
      BY <2>3, <2>5, <3>1
  <2>9. m - 1 \in (p - 1) .. Len(text) /\ m - 1 + 1 = m
    BY <1>1, <2>7
  <2> QED
    BY <2>7, <2>8, <2>9
<1> QED
  BY <1>2, <1>3

\* The parts of a line that sha256sum wrote.
LEMMA EntryParts ==
    ASSUME NEW text \in Seq(Symbol), WellFormed(text), NEW p \in Starts(text)
    PROVE  LET s == SumAt(text, p)
               e == EndOf(text, p)
           IN  /\ p \in 1 .. Len(text) /\ s \in {p, p + 1} /\ s + 3 <= e /\ e <= Len(text)
               /\ e \in Nat /\ s \in Nat
               /\ text[s] \in Sum /\ text[s + 1] = Blank /\ text[s + 2] = Blank
               /\ s = p + 1 <=> text[p] = Backslash
               /\ \A k \in p .. e : text[k] # NL
               /\ e < Len(text) => text[e + 1] = NL
               /\ \A k \in (p + 1) .. (e + 1) : Rank(text, k) = Rank(text, p) + 1
<1> DEFINE s == SumAt(text, p)
           e == EndOf(text, p)
<1>1. p \in 1 .. Len(text)
  BY StartsAre
<1>2. s \in {p, p + 1} /\ (s = p + 1 <=> text[p] = Backslash)
  BY <1>1 DEF SumAt
<1>3. s + 3 <= e /\ text[s] \in Sum /\ text[s + 1] = Blank /\ text[s + 2] = Blank
  BY DEF WellFormed, IsEntry
<1>4. /\ e \in (p - 1) .. Len(text) /\ (\A k \in p .. e : text[k] # NL)
      /\ e < Len(text) => text[e + 1] = NL
  BY LinesEnd
<1> HIDE DEF s, e
<1>5. s \in Nat /\ e \in Nat /\ e <= Len(text) /\ p < e
  BY <1>1, <1>2, <1>3, <1>4
<1>6. ASSUME NEW k \in (p + 1) .. (e + 1) PROVE Rank(text, k) = Rank(text, p) + 1
  <2> DEFINE T == Starts(text)
  <2>1. \A q \in T : q < k <=> q < p \/ q = p
    <3> SUFFICES ASSUME NEW q \in T, q > p PROVE q > e + 1
      BY <1>1, <1>5, StartsAre
    <3>1. q \in 1 .. Len(text) /\ text[q - 1] = NL /\ q - 1 >= p
      <4>1. q \in 1 .. Len(text) /\ (q = 1 \/ text[q - 1] = NL)
        BY DEF Starts
      <4> QED
        BY <1>1, <4>1
    <3>2. q - 1 \notin p .. e
      BY <1>4, <3>1
    <3> QED
      BY <1>1, <1>5, <3>1, <3>2
  <2>2. Below(T, k) = Below(T, p) \cup {p} /\ p \notin Below(T, p)
    <3>1. ~(p < p)
      BY <1>1
    <3> HIDE DEF T
    <3>2. p \in T
      BY DEF T
    <3> QED
      BY <2>1, <3>1, <3>2, Zenon DEF Below
  <2>3. IsFiniteSet(Below(T, p))
    BY <1>1, StartsAre, BelowGrows
  <2> HIDE DEF T
  <2>4. Cardinality(Below(T, k)) = Cardinality(Below(T, p)) + 1
    BY <2>2, <2>3, FS_AddElement
  <2> QED
    BY <2>4, StartsAre DEF T
<1> QED
  BY <1>1, <1>2, <1>3, <1>4, <1>5, <1>6 DEF s, e

\* A newline is in no line, and the next line starts behind it.
LEMMA BehindNewline ==
    ASSUME NEW text \in Seq(Symbol), WellFormed(text), NEW k \in 1 .. Len(text), text[k] = NL
    PROVE  /\ k + 1 \in Starts(text) \/ k + 1 = Len(text) + 1
           /\ Rank(text, k + 1) = Rank(text, k)
           /\ k \notin Starts(text)
<1>1. k \notin Starts(text)
  <2> SUFFICES ASSUME k \in Starts(text) PROVE FALSE
    OBVIOUS
  <2> DEFINE e == EndOf(text, k)
  <2>1. \A n \in k .. e : text[n] # NL
    BY EntryParts
  <2>2. k \in k .. e
    <3> DEFINE s == SumAt(text, k)
    <3>1. s \in {k, k + 1} /\ s + 3 <= e /\ e \in Nat
      BY EntryParts
    <3> HIDE DEF s, e
    <3> QED
      BY <3>1
  <2> QED
    BY <2>1, <2>2
<1>2. k + 1 \in Starts(text) \/ k + 1 = Len(text) + 1
  BY DEF Starts
<1>3. Below(Starts(text), k + 1) = Below(Starts(text), k)
  <2>1. \A q \in Starts(text) : q < k + 1 <=> q < k
    BY <1>1, StartsAre
  <2> QED
    BY <2>1, Zenon DEF Below
<1> QED
  BY <1>1, <1>2, <1>3, StartsAre

-----------------------------------------------------------------------------
(* The entries of a file that sha256sum wrote.                               *)

\* How many entries of file s its scanner has completed: none before it runs,
\* all of them afterwards.
NotYet(s) == \/ pc = "main"
             \/ pc = "open" /\ s >= reading
             \/ pc = "scan" /\ s > reading
Done(s) == \/ pc \in {"open", "scan"} /\ s < reading
           \/ pc \in {"join", "free"}
           \/ status = 0

\* Where the scanner is in the text it reads, when it has completed n entries:
\* at a line, behind the backslash of one, between its checksum and its path,
\* or at the end of one.
AtLine(text, pos, n) == state = "INITIAL" /\ pos \in Starts(text) /\ n = Rank(text, pos)
Escaped(text, pos, n) ==
    /\ state = "INITIAL" /\ pos - 1 \in Starts(text) /\ text[pos - 1] = Backslash
    /\ n = Rank(text, pos - 1)
InLine(text, pos, n) ==
    /\ state = "fpath"
    /\ \E p \in Starts(text) :
          /\ pos = SumAt(text, p) + 1 /\ n = Rank(text, p)
          /\ checksum[reading][n] = SumOf(text, p)
Between(text, pos, n) ==
    /\ state = "INITIAL" /\ n = Rank(text, pos)
    /\ pos = Len(text) + 1 \/ text[pos] = NL

Somewhere(text, pos, n) ==
    AtLine(text, pos, n) \/ Escaped(text, pos, n) \/ InLine(text, pos, n) \/ Between(text, pos, n)

Stored(s) ==
    \A p \in Starts(files[s]) :
        Rank(files[s], p) < idx[s] =>
            /\ checksum[s][Rank(files[s], p)] = SumOf(files[s], p)
            /\ filepath[s][Rank(files[s], p)] = PathIn(files[s], p)

FileInv(s) ==
    /\ idx[s] <= Lines(files[s])
    /\ Stored(s)
    /\ NotYet(s) => idx[s] = 0
    /\ Done(s) => idx[s] = Lines(files[s])
    /\ pc = "scan" /\ s = reading =>
           \E pos \in 1 .. (Len(files[s]) + 1) :
               /\ rest = SubSeq(files[s], pos, Len(files[s]))
               /\ Somewhere(files[s], pos, idx[s])
    /\ pc = "undefined" /\ s = reading => Lines(files[s]) > MaxLen

\* main reads the first file first, and stores paths in slots.
Shape == /\ DOMAIN filepath = Which
         /\ pc = "main" => reading = 1
         /\ \A s \in Which : DOMAIN filepath[s] = Slot

EntriesInv == Shape /\ \A s \in Which : WellFormed(files[s]) => FileInv(s)

\* What is left of a text at a position.
LEMMA Rests ==
    ASSUME NEW text \in Seq(Symbol), NEW pos \in 1 .. (Len(text) + 1)
    PROVE  LET r == SubSeq(text, pos, Len(text))
           IN  /\ r \in Seq(Symbol) /\ Len(r) = Len(text) + 1 - pos
               /\ \A k \in 1 .. Len(r) : r[k] = text[pos + k - 1]
               /\ r = <<>> <=> pos = Len(text) + 1
               /\ r # <<>> => /\ pos \in 1 .. Len(text) /\ Head(r) = text[pos]
                              /\ Tail(r) = SubSeq(text, pos + 1, Len(text))
<1> DEFINE r == SubSeq(text, pos, Len(text))
<1>1. /\ r \in Seq(Symbol) /\ Len(r) = Len(text) + 1 - pos
      /\ \A k \in 1 .. Len(r) : r[k] = text[pos + k - 1]
  OBVIOUS
<1>2. r = <<>> <=> Len(r) = 0
  <2> HIDE DEF r
  <2> QED
    BY <1>1
<1>3. ASSUME r # <<>>
      PROVE  /\ pos \in 1 .. Len(text) /\ Head(r) = text[pos]
             /\ Tail(r) = SubSeq(text, pos + 1, Len(text))
  <2>1. pos \in 1 .. Len(text) /\ Len(r) \in Nat \ {0}
    BY <1>1, <1>2, <1>3
  <2>2. Head(r) = text[pos]
    BY <1>1, <2>1
  <2>3. Tail(r) = SubSeq(text, pos + 1, Len(text))
    <3> DEFINE t == SubSeq(text, pos + 1, Len(text))
    <3>1. t \in Seq(Symbol) /\ Len(t) = Len(text) - pos
          /\ \A k \in 1 .. Len(t) : t[k] = text[pos + k]
      BY <2>1
    <3>2. Tail(r) \in Seq(Symbol) /\ Len(Tail(r)) = Len(r) - 1
          /\ \A k \in 1 .. (Len(r) - 1) : Tail(r)[k] = r[k + 1]
      <4> HIDE DEF r
      <4> QED
        BY <1>1, <1>3
    <3> HIDE DEF r, t
    <3>3. Len(Tail(r)) = Len(t)
      BY <1>1, <2>1, <3>1, <3>2
    <3>4. ASSUME NEW k \in 1 .. Len(t) PROVE Tail(r)[k] = t[k]
      <4>1. k \in 1 .. (Len(r) - 1) /\ k + 1 \in 1 .. Len(r) /\ pos + (k + 1) - 1 = pos + k
        BY <1>1, <2>1, <3>1
      <4>2. Tail(r)[k] = r[k + 1] /\ r[k + 1] = text[pos + (k + 1) - 1] /\ t[k] = text[pos + k]
        BY <1>1, <3>1, <3>2, <4>1
      <4> QED
        BY <4>1, <4>2
    <3>5. \A k \in 1 .. Len(Tail(r)) : Tail(r)[k] = t[k]
      BY <3>3, <3>4
    <3>6. Tail(r) \in Seq(Symbol) /\ t \in Seq(Symbol)
      BY <3>1, <3>2
    <3> DEFINE u == Tail(r)
    <3>7. u \in Seq(Symbol) /\ t \in Seq(Symbol) /\ Len(u) = Len(t)
          /\ \A k \in 1 .. Len(u) : u[k] = t[k]
      BY <3>3, <3>5, <3>6
    <3> HIDE DEF u
    <3>8. u = t
      BY <3>7, SeqEqual
    <3> QED
      BY <3>8 DEF u, t
  <2> QED
    BY <2>1, <2>2, <2>3
<1> HIDE DEF r
<1>4. r = <<>> <=> pos = Len(text) + 1
  BY <1>1, <1>2
<1> QED
  BY <1>1, <1>3, <1>4 DEF r

LEMMA TextOf ==
    ASSUME files \in File, NEW s \in Which, WellFormed(files[s])
    PROVE  files[s] \in Seq(Symbol)
BY FileAssumption DEF WellFormed, Which

LEMMA EntriesInit == Init => EntriesInv
<1> SUFFICES ASSUME Init PROVE EntriesInv
  OBVIOUS
<1>1. files \in File /\ pc = "main" /\ idx = [s \in Which |-> 0] /\ status # 0 /\ Shape
  BY SymbolAssumption DEF Init, Shape
<1>2. ASSUME NEW s \in Which, WellFormed(files[s]) PROVE FileInv(s)
  <2>1. files[s] \in Seq(Symbol)
    BY <1>1, <1>2, TextOf
  <2>2. Lines(files[s]) \in Nat /\ Starts(files[s]) \subseteq Nat
        /\ \A p \in Nat : Rank(files[s], p) \in Nat
    BY <2>1, StartsAre, Ranks
  <2> QED
    BY <1>1, <2>2 DEF FileInv, Stored, Done
<1> QED
  BY <1>1, <1>2 DEF EntriesInv

\* A step that touches neither the arrays nor the scanner.
LEMMA EntriesAsBefore ==
    ASSUME EntriesInv, UNCHANGED <<files, checksum, filepath, idx>>, pc' # "main",
           \A s \in Which : WellFormed(files[s]) =>
               /\ NotYet(s)' => idx[s] = 0
               /\ Done(s)' => idx[s] = Lines(files[s])
               /\ pc' = "scan" /\ s = reading' =>
                      \E pos \in 1 .. (Len(files[s]) + 1) :
                          /\ rest' = SubSeq(files[s], pos, Len(files[s]))
                          /\ Somewhere(files[s], pos, idx[s])'
               /\ pc' = "undefined" /\ s = reading' => Lines(files[s]) > MaxLen
    PROVE  EntriesInv'
<1>1. ASSUME NEW s \in Which, WellFormed(files[s]) PROVE FileInv(s)'
  <2>1. idx[s] <= Lines(files[s]) /\ Stored(s)
    BY <1>1 DEF EntriesInv, FileInv
  <2>2. Stored(s)'
    BY <2>1 DEF Stored
  <2> QED
    BY <1>1, <2>1, <2>2 DEF FileInv
<1> QED
  BY <1>1 DEF EntriesInv, Shape

LEMMA EntriesOpen == Inv /\ files \in File /\ EntriesInv /\ OpenFile => EntriesInv'
<1> SUFFICES ASSUME Inv, files \in File, EntriesInv, OpenFile PROVE EntriesInv'
  OBVIOUS
<1>1. /\ UNCHANGED <<files, reading, checksum, filepath, idx>>
      /\ pc = "open" /\ pc' \in {"exit", "scan"} /\ reading \in Which
      /\ status # 0 /\ status' # 0
  BY SymbolAssumption DEF OpenFile, Return, inputs, arrays, Inv, TypeOK
<1>2. ASSUME NEW s \in Which, WellFormed(files[s])
      PROVE  /\ NotYet(s)' => idx[s] = 0
             /\ Done(s)' => idx[s] = Lines(files[s])
             /\ pc' = "scan" /\ s = reading' =>
                    \E pos \in 1 .. (Len(files[s]) + 1) :
                        /\ rest' = SubSeq(files[s], pos, Len(files[s]))
                        /\ Somewhere(files[s], pos, idx[s])'
  <2>1. FileInv(s)
    BY <1>2 DEF EntriesInv
  <2>2. (NotYet(s)' => NotYet(s)) /\ (Done(s)' => Done(s))
    BY <1>1 DEF NotYet, Done, Which
  <2>3. ASSUME pc' = "scan", s = reading'
        PROVE  \E pos \in 1 .. (Len(files[s]) + 1) :
                   /\ rest' = SubSeq(files[s], pos, Len(files[s]))
                   /\ Somewhere(files[s], pos, idx[s])'
    <3>1. PICK text : text = files[s]
      OBVIOUS
    <3>2. text \in Seq(Symbol)
      BY <1>2, <3>1, TextOf
    <3>3. rest' = text /\ state' = "INITIAL" /\ text = SubSeq(text, 1, Len(text))
      BY <1>1, <2>3, <3>1, <3>2 DEF OpenFile, Return
    <3>4. NotYet(s) /\ idx[s] = 0 /\ Rank(text, 1) = 0
      BY <1>1, <2>1, <2>3, <3>2, Ranks DEF FileInv, NotYet, Which
    <3>5. 1 \in Starts(text) \/ 1 = Len(text) + 1
      BY <3>2 DEF Starts
    <3>6. Somewhere(text, 1, idx[s])'
      BY <3>3, <3>4, <3>5, <1>1 DEF Somewhere, AtLine, Between
    <3>7. 1 \in 1 .. (Len(text) + 1)
      BY <3>2
    <3>8. Somewhere(files[s], 1, idx[s])'
      BY <1>1, <3>1, <3>6
    <3> QED
      BY <3>1, <3>3, <3>7, <3>8
  <2> QED
    BY <2>1, <2>2, <2>3 DEF FileInv
<1> QED
  BY <1>1, <1>2, EntriesAsBefore

LEMMA EntriesEndOfFile == Inv /\ files \in File /\ EntriesInv /\ EndOfFile => EntriesInv'
<1> SUFFICES ASSUME Inv, files \in File, EntriesInv, EndOfFile PROVE EntriesInv'
  OBVIOUS
<1>1. /\ UNCHANGED <<files, checksum, filepath, idx, status>>
      /\ pc = "scan" /\ pc' \in {"open", "join"} /\ reading \in Which
      /\ rest = <<>> /\ status # 0
      /\ pc' = "open" => reading = 1 /\ reading' = 2
      /\ pc' = "join" => reading = 2
  BY DEF EndOfFile, inputs, arrays, Inv, TypeOK, Which
<1>2. ASSUME NEW s \in Which, WellFormed(files[s])
      PROVE  /\ NotYet(s)' => idx[s] = 0
             /\ Done(s)' => idx[s] = Lines(files[s])
  <2>1. FileInv(s)
    BY <1>2 DEF EntriesInv
  <2>2. (NotYet(s)' => NotYet(s)) /\ (Done(s)' => Done(s) \/ s = reading)
    BY <1>1 DEF NotYet, Done, Which
  <2>3. ASSUME s = reading PROVE idx[s] = Lines(files[s])
    <3>1. PICK text : text = files[s]
      OBVIOUS
    <3>2. text \in Seq(Symbol) /\ WellFormed(text)
      BY <1>2, <3>1, TextOf
    <3>3. PICK pos \in 1 .. (Len(text) + 1) :
              rest = SubSeq(text, pos, Len(text)) /\ Somewhere(text, pos, idx[s])
      BY <1>1, <2>1, <2>3, <3>1 DEF FileInv
    <3>4. pos = Len(text) + 1
      BY <1>1, <3>2, <3>3, Rests
    <3>5. pos \notin Starts(text)
      BY <3>2, <3>4, StartsAre
    <3>6. \A p \in Starts(text) : SumAt(text, p) + 1 # pos
      <4> TAKE p \in Starts(text)
      <4> DEFINE a == SumAt(text, p)
                 e == EndOf(text, p)
      <4>1. a + 3 <= e /\ e <= Len(text) /\ e \in Nat /\ a \in Nat
        BY <3>2, EntryParts
      <4>2. Len(text) \in Nat
        BY <3>2
      <4> HIDE DEF a, e
      <4>3. a + 1 # pos
        BY <3>4, <4>1, <4>2
      <4> QED
        BY <4>3 DEF a
    <3>7. ~(pos - 1 \in Starts(text) /\ text[pos - 1] = Backslash)
      <4> SUFFICES ASSUME pos - 1 \in Starts(text) PROVE FALSE
        OBVIOUS
      <4> DEFINE a == SumAt(text, pos - 1)
                 e == EndOf(text, pos - 1)
      <4>1. a + 3 <= e /\ e <= Len(text) /\ e \in Nat /\ a \in {pos - 1, pos - 1 + 1}
        BY <3>2, EntryParts
      <4>2. Len(text) \in Nat
        BY <3>2
      <4> HIDE DEF a, e
      <4> QED
        BY <3>4, <4>1, <4>2
    <3>8. idx[s] = Rank(text, Len(text) + 1)
      BY <3>3, <3>4, <3>5, <3>6, <3>7 DEF Somewhere, AtLine, Escaped, InLine, Between
    <3> QED
      BY <3>1, <3>2, <3>8, Ranks
  <2> QED
    BY <2>1, <2>2, <2>3 DEF FileInv
<1> QED
  BY <1>1, <1>2, EntriesAsBefore

\* A step of the scanner, which leaves the arrays of the other file alone.
LEMMA ScannerMoves ==
    ASSUME Inv, EntriesInv, pc = "scan", pc' \in {"scan", "undefined"},
           UNCHANGED <<files, reading, status>>, Shape',
           \A s \in Which : s # reading =>
               checksum'[s] = checksum[s] /\ filepath'[s] = filepath[s] /\ idx'[s] = idx[s],
           WellFormed(files[reading]) =>
               /\ idx'[reading] <= Lines(files[reading])
               /\ Stored(reading)'
               /\ pc' = "scan" =>
                      \E pos \in 1 .. (Len(files[reading]) + 1) :
                          /\ rest' = SubSeq(files[reading], pos, Len(files[reading]))
                          /\ Somewhere(files[reading], pos, idx[reading])'
               /\ pc' = "undefined" => Lines(files[reading]) > MaxLen
    PROVE  EntriesInv'
<1>1. reading \in Which /\ status # 0
  BY DEF Inv, TypeOK
<1>2. ASSUME NEW s \in Which, s # reading, WellFormed(files[s]) PROVE FileInv(s)'
  <2>1. FileInv(s)
    BY <1>2 DEF EntriesInv
  <2>2. Stored(s)'
    BY <1>2, <2>1 DEF FileInv, Stored
  <2>3. (NotYet(s)' => NotYet(s)) /\ (Done(s)' => Done(s))
    BY <1>1 DEF NotYet, Done
  <2> QED
    BY <1>2, <2>1, <2>2, <2>3 DEF FileInv
<1>3. ASSUME WellFormed(files[reading]) PROVE FileInv(reading)'
  <2>1. ~NotYet(reading)' /\ ~Done(reading)'
    BY <1>1 DEF NotYet, Done, Which
  <2> QED
    BY <1>3, <2>1 DEF FileInv
<1> QED
  BY <1>1, <1>2, <1>3 DEF EntriesInv

\* A checksum is the checksum of a line.
LEMMA AtChecksum ==
    ASSUME NEW text \in Seq(Symbol), WellFormed(text), NEW pos \in 1 .. Len(text), NEW n,
           text[pos] \in Sum, state = "INITIAL", Somewhere(text, pos, n)
    PROVE  \E p \in Starts(text) : pos = SumAt(text, p) /\ n = Rank(text, p)
<1>1. text[pos] # NL /\ text[pos] # Backslash
  BY SymbolAssumption, BlankAssumption
<1>2. ~InLine(text, pos, n) /\ ~Between(text, pos, n)
  BY <1>1 DEF InLine, Between
<1>3. CASE AtLine(text, pos, n)
  BY <1>1, <1>3 DEF AtLine, SumAt
<1>4. CASE Escaped(text, pos, n)
  BY <1>4 DEF Escaped, SumAt
<1> QED
  BY <1>2, <1>3, <1>4 DEF Somewhere

LEMMA EntriesChecksum == Inv /\ files \in File /\ EntriesInv /\ MatchChecksum => EntriesInv'
<1> SUFFICES ASSUME Inv, files \in File, EntriesInv, MatchChecksum PROVE EntriesInv'
  OBVIOUS
<1> DEFINE n == idx[reading]
<1>1. /\ reading \in Which /\ pc = "scan" /\ state = "INITIAL" /\ rest # <<>>
      /\ Head(rest) \in Sum /\ idx \in [Which -> 0 .. MaxLen]
      /\ checksum \in [Which -> [Slot -> Sum \cup {Null}]]
      /\ UNCHANGED <<files, reading, status, filepath, idx>>
  BY DEF MatchChecksum, Inv, TypeOK, inputs, Arrays
<1>2. \/ /\ n \in Slot /\ checksum' = [checksum EXCEPT ![reading][n] = Head(rest)]
         /\ state' = "fpath" /\ rest' = Tail(rest) /\ pc' = "scan"
      \/ n \notin Slot /\ pc' = "undefined" /\ checksum' = checksum
  BY <1>1 DEF MatchChecksum, Arrays, OpenSlot
<1>3. Shape'
  BY <1>1, <1>2 DEF EntriesInv, Shape
<1>4. /\ \A s \in Which : s # reading => checksum'[s] = checksum[s]
      /\ \A k \in Slot : k # n => checksum'[reading][k] = checksum[reading][k]
      /\ n \in Slot => checksum'[reading][n] = Head(rest)
  BY <1>1, <1>2
<1>5. ASSUME WellFormed(files[reading])
      PROVE  /\ idx'[reading] <= Lines(files[reading])
             /\ Stored(reading)'
             /\ pc' = "scan" =>
                    \E pos \in 1 .. (Len(files[reading]) + 1) :
                        /\ rest' = SubSeq(files[reading], pos, Len(files[reading]))
                        /\ Somewhere(files[reading], pos, idx[reading])'
             /\ pc' = "undefined" => Lines(files[reading]) > MaxLen
  <2>1. PICK text : text = files[reading]
    OBVIOUS
  <2>2. text \in Seq(Symbol) /\ WellFormed(text)
    BY <1>1, <1>5, <2>1, TextOf
  <2>3. FileInv(reading)
    BY <1>1, <1>5 DEF EntriesInv
  <2>4. PICK pos \in 1 .. (Len(text) + 1) :
            rest = SubSeq(text, pos, Len(text)) /\ Somewhere(text, pos, n)
    BY <1>1, <2>1, <2>3 DEF FileInv
  <2>5. /\ pos \in 1 .. Len(text) /\ Head(rest) = text[pos]
        /\ Tail(rest) = SubSeq(text, pos + 1, Len(text))
    BY <1>1, <2>2, <2>4, Rests
  <2>6. PICK p \in Starts(text) : pos = SumAt(text, p) /\ n = Rank(text, p)
    BY <1>1, <2>2, <2>4, <2>5, AtChecksum
  <2>7. Starts(text) \subseteq Nat /\ Lines(text) \in Nat /\ n < Lines(text) /\ n \in Nat
        /\ \A q \in Nat : Rank(text, q) \in Nat
    BY <2>2, <2>6, StartsAre, Ranks
  <2>8. Stored(reading)'
    <3> SUFFICES ASSUME NEW q \in Starts(text), Rank(text, q) < n
                 PROVE  /\ checksum'[reading][Rank(text, q)] = SumOf(text, q)
                        /\ filepath[reading][Rank(text, q)] = PathIn(text, q)
      BY <1>1, <2>1 DEF Stored
    <3>1. /\ checksum[reading][Rank(text, q)] = SumOf(text, q)
          /\ filepath[reading][Rank(text, q)] = PathIn(text, q)
      BY <2>1, <2>3 DEF FileInv, Stored
    <3>2. Rank(text, q) \in Slot /\ Rank(text, q) # n
      <4> DEFINE r == Rank(text, q)
      <4>1. r \in Nat /\ n \in 0 .. MaxLen /\ r < n
        BY <1>1, <2>7
      <4> HIDE DEF n, r
      <4>2. r \in Slot /\ r # n
        BY <4>1, MaxLenAssumption DEF Slot
      <4> QED
        BY <4>2 DEF r
    <3> QED
      BY <1>4, <3>1, <3>2
  <2>9. ASSUME pc' = "scan"
        PROVE  /\ rest' = SubSeq(text, pos + 1, Len(text))
               /\ Somewhere(text, pos + 1, n)'
    <3>1. n \in Slot /\ state' = "fpath" /\ rest' = Tail(rest)
      BY <1>2, <2>9
    <3>2. checksum'[reading][n] = SumOf(text, p)
      BY <1>4, <2>5, <2>6, <3>1 DEF SumOf
    <3>3. n' = n /\ reading' = reading
      BY <1>1
    <3> HIDE DEF n
    <3> QED
      BY <2>5, <2>6, <3>1, <3>2, <3>3 DEF Somewhere, InLine
  <2>10. ASSUME pc' = "undefined" PROVE Lines(text) > MaxLen
    <3>1. n \notin Slot /\ n \in 0 .. MaxLen
      BY <1>1, <1>2, <2>10
    <3> HIDE DEF n
    <3> QED
      BY <2>7, <3>1, MaxLenAssumption DEF Slot
  <2>11. pos + 1 \in 1 .. (Len(text) + 1) /\ n <= Lines(text)
    <3>1. Len(text) \in Nat
      BY <2>2
    <3> HIDE DEF n
    <3> QED
      BY <2>5, <2>7, <3>1
  <2> QED
    BY <1>1, <2>1, <2>8, <2>9, <2>10, <2>11
<1> QED
  BY <1>1, <1>2, <1>3, <1>4, <1>5, ScannerMoves

\* A part of a part of a text.
LEMMA PartOfPart ==
    ASSUME NEW text \in Seq(Symbol), NEW a \in 1 .. (Len(text) + 1), NEW z \in (a - 1) .. Len(text),
           NEW b \in 1 .. (z - a + 2), NEW c \in (b - 1) .. (z - a + 1)
    PROVE  /\ SubSeq(SubSeq(text, a, z), b, c) = SubSeq(text, a + b - 1, a + c - 1)
           /\ Len(SubSeq(text, a, z)) = z - a + 1
           /\ \A k \in 1 .. (z - a + 1) : SubSeq(text, a, z)[k] = text[a + k - 1]
           /\ SubSeq(text, a, z) \in Seq(Symbol)
<1> DEFINE r == SubSeq(text, a, z)
           u == SubSeq(r, b, c)
           t == SubSeq(text, a + b - 1, a + c - 1)
<1>1. r \in Seq(Symbol) /\ Len(r) = z - a + 1 /\ \A k \in 1 .. (z - a + 1) : r[k] = text[a + k - 1]
  OBVIOUS
<1>2. Len(text) \in Nat /\ a \in Nat /\ z \in Int /\ b \in Nat /\ c \in Int
  OBVIOUS
<1>3. /\ t \in Seq(Symbol) /\ Len(t) = c - b + 1
      /\ \A k \in 1 .. (c - b + 1) : t[k] = text[(a + b - 1) + k - 1]
  <2> DEFINE x == a + b - 1
             y == a + c - 1
  <2>1. x \in 1 .. (Len(text) + 1) /\ y \in (x - 1) .. Len(text) /\ y - x + 1 = c - b + 1
    OBVIOUS
  <2> HIDE DEF x, y
  <2>2. SubSeq(text, x, y) \in Seq(Symbol) /\ Len(SubSeq(text, x, y)) = y - x + 1
        /\ \A k \in 1 .. (y - x + 1) : SubSeq(text, x, y)[k] = text[x + k - 1]
    BY <2>1
  <2> QED
    BY <2>1, <2>2 DEF x, y
<1>4. /\ u \in Seq(Symbol) /\ Len(u) = c - b + 1
      /\ \A k \in 1 .. (c - b + 1) : u[k] = r[b + k - 1]
  <2> HIDE DEF r
  <2> QED
    BY <1>1, <1>2
<1> HIDE DEF t, u
<1>5. ASSUME NEW k \in 1 .. (c - b + 1) PROVE u[k] = t[k]
  <2>1. b + k - 1 \in 1 .. (z - a + 1) /\ a + (b + k - 1) - 1 = (a + b - 1) + k - 1
    BY <1>2
  <2> HIDE DEF r
  <2>2. r[b + k - 1] = text[a + (b + k - 1) - 1]
    BY <1>1, <2>1
  <2> QED
    BY <1>3, <1>4, <2>1, <2>2
<1>6. u = t
  BY <1>3, <1>4, <1>5, SeqEqual
<1> QED
  BY <1>1, <1>6 DEF u, t

\* .* ends where a line does.
LEMMA LineIs ==
    ASSUME NEW text \in Seq(Symbol), NEW n \in 0 .. Len(text),
           \A k \in 1 .. n : text[k] # NL, n = Len(text) \/ text[n + 1] = NL
    PROVE  LineLength(text) = n
<1> DEFINE IsLine(m) == /\ \A k \in 1 .. m : text[k] # NL
                        /\ m = Len(text) \/ text[m + 1] = NL
<1>1. IsLine(n)
  OBVIOUS
<1>2. LineLength(text) \in 0 .. Len(text) /\ IsLine(LineLength(text))
  BY <1>1 DEF LineLength
<1>3. ASSUME NEW m \in 0 .. Len(text), IsLine(m) PROVE m = n
  <2>1. m < n => m + 1 \in 1 .. n /\ text[m + 1] = NL
    BY <1>3
  <2>2. n < m => n + 1 \in 1 .. m /\ text[n + 1] = NL
    OBVIOUS
  <2> QED
    BY <1>1, <1>3, <2>1, <2>2
<1> QED
  BY <1>2, <1>3

LEMMA EntriesPath == Inv /\ files \in File /\ EntriesInv /\ MatchPath => EntriesInv'
<1> SUFFICES ASSUME Inv, files \in File, EntriesInv, MatchPath PROVE EntriesInv'
  OBVIOUS
<1> DEFINE n == idx[reading]
           l == LineLength(rest)
           after == SubSeq(rest, l + 1, Len(rest))
           path == PathOf(SubSeq(rest, 1, l), after)
<1>1. /\ reading \in Which /\ pc = "scan" /\ pc' = "scan" /\ state = "fpath" /\ rest # <<>>
      /\ idx \in [Which -> 0 .. MaxLen]
      /\ UNCHANGED <<files, reading, status, checksum>>
      /\ filepath' = [filepath EXCEPT ![reading][n] = path]
      /\ idx' = [idx EXCEPT ![reading] = n + 1]
      /\ state' = "INITIAL" /\ rest' = after
  BY DEF MatchPath, Inv, TypeOK, inputs, Arrays, NextSlot
<1>2. n \in Slot
  BY <1>1 DEF Inv, OpenSlots, Pending
<1>3. /\ DOMAIN filepath = Which /\ \A s \in Which : DOMAIN filepath[s] = Slot
      /\ Shape'
  <2>1. DOMAIN filepath = Which /\ \A s \in Which : DOMAIN filepath[s] = Slot
    BY DEF EntriesInv, Shape
  <2> HIDE DEF path
  <2> QED
    BY <1>1, <2>1 DEF Shape
<1>4. /\ \A s \in Which : s # reading => idx'[s] = idx[s] /\ filepath'[s] = filepath[s]
      /\ \A k \in Slot : k # n => filepath'[reading][k] = filepath[reading][k]
      /\ filepath'[reading][n] = path
      /\ idx'[reading] = n + 1
  <2> HIDE DEF path
  <2> QED
    BY <1>1, <1>2, <1>3
<1>5. ASSUME WellFormed(files[reading])
      PROVE  /\ idx'[reading] <= Lines(files[reading])
             /\ Stored(reading)'
             /\ \E pos \in 1 .. (Len(files[reading]) + 1) :
                    /\ rest' = SubSeq(files[reading], pos, Len(files[reading]))
                    /\ Somewhere(files[reading], pos, idx[reading])'
  <2>1. PICK text : text = files[reading]
    OBVIOUS
  <2>2. text \in Seq(Symbol) /\ WellFormed(text)
    BY <1>1, <1>5, <2>1, TextOf
  <2>3. FileInv(reading)
    BY <1>1, <1>5 DEF EntriesInv
  <2>4. PICK pos \in 1 .. (Len(text) + 1) :
            rest = SubSeq(text, pos, Len(text)) /\ Somewhere(text, pos, n)
    BY <1>1, <2>1, <2>3 DEF FileInv
  <2>5. PICK p \in Starts(text) :
            /\ pos = SumAt(text, p) + 1 /\ n = Rank(text, p)
            /\ checksum[reading][n] = SumOf(text, p)
    BY <1>1, <2>4 DEF Somewhere, AtLine, Escaped, InLine, Between
  <2> DEFINE s == SumAt(text, p)
             e == EndOf(text, p)
  <2>6. /\ p \in 1 .. Len(text) /\ s \in {p, p + 1} /\ s + 3 <= e /\ e <= Len(text)
        /\ e \in Nat /\ s \in Nat
        /\ text[s + 1] = Blank /\ text[s + 2] = Blank
        /\ \A k \in p .. e : text[k] # NL
        /\ e < Len(text) => text[e + 1] = NL
        /\ \A k \in (p + 1) .. (e + 1) : Rank(text, k) = Rank(text, p) + 1
    BY <2>2, EntryParts
  <2>7. pos = s + 1 /\ Len(text) \in Nat
    BY <2>2, <2>5
  <2>8. /\ Starts(text) \subseteq Nat /\ Lines(text) \in Nat /\ n < Lines(text) /\ n \in Nat
        /\ \A q \in Starts(text) : Rank(text, q) = n => q = p
        /\ \A q \in Starts(text) : Rank(text, q) \in Nat
    BY <2>2, <2>5, StartsAre, Ranks, RanksOrder
  <2> HIDE DEF s, e
  <2>9. l = e - s
    <3> DEFINE m == e - s
    <3>1. /\ rest \in Seq(Symbol) /\ Len(rest) = Len(text) - s
          /\ \A k \in 1 .. Len(rest) : rest[k] = text[s + k]
      <4>1. /\ rest \in Seq(Symbol) /\ Len(rest) = Len(text) + 1 - pos
            /\ \A k \in 1 .. Len(rest) : rest[k] = text[pos + k - 1]
        BY <2>2, <2>4, Rests
      <4>2. \A k \in 1 .. Len(rest) : pos + k - 1 = s + k
        BY <2>6, <2>7
      <4> QED
        BY <2>6, <2>7, <4>1, <4>2
    <3>2. m \in 0 .. Len(rest) /\ \A k \in 1 .. m : k \in 1 .. Len(rest) /\ s + k \in p .. e
      BY <2>6, <2>7, <3>1
    <3>3. \A k \in 1 .. m : rest[k] # NL
      BY <2>6, <3>1, <3>2
    <3>4. m = Len(rest) \/ rest[m + 1] = NL
      <4>1. CASE e = Len(text)
        BY <3>1, <4>1
      <4>2. CASE e < Len(text)
        <5>1. m + 1 \in 1 .. Len(rest) /\ s + (m + 1) = e + 1
          BY <2>6, <2>7, <3>1, <4>2
        <5> QED
          BY <2>6, <3>1, <4>2, <5>1
      <4> QED
        BY <2>6, <2>7, <4>1, <4>2
    <3> HIDE DEF m
    <3>5. LineLength(rest) = m
      BY <3>1, <3>2, <3>3, <3>4, LineIs
    <3> QED
      BY <3>5 DEF m
  <2>10. after = SubSeq(text, e + 1, Len(text))
    <3>1. /\ pos \in 1 .. (Len(text) + 1) /\ Len(text) \in (pos - 1) .. Len(text)
          /\ l + 1 \in 1 .. (Len(text) - pos + 2)
          /\ Len(text) - pos + 1 \in (l + 1 - 1) .. (Len(text) - pos + 1)
          /\ pos + (l + 1) - 1 = e + 1 /\ pos + (Len(text) - pos + 1) - 1 = Len(text)
      BY <2>6, <2>7, <2>9
    <3> HIDE DEF l
    <3>2. Len(rest) = Len(text) - pos + 1
      BY <2>2, <2>4, <3>1, PartOfPart
    <3>3. SubSeq(rest, l + 1, Len(rest)) = SubSeq(text, e + 1, Len(text))
      <4> DEFINE b == l + 1
                 c == Len(text) - pos + 1
                 z == Len(text)
      <4>1. /\ pos \in 1 .. (Len(text) + 1) /\ z \in (pos - 1) .. Len(text)
            /\ b \in 1 .. (z - pos + 2) /\ c \in (b - 1) .. (z - pos + 1)
            /\ pos + b - 1 = e + 1 /\ pos + c - 1 = z
        BY <3>1
      <4> HIDE DEF b, c, z
      <4>2. SubSeq(SubSeq(text, pos, z), b, c) = SubSeq(text, e + 1, z)
        BY <2>2, <4>1, PartOfPart
      <4> QED
        BY <2>4, <3>2, <4>2 DEF b, c, z
    <3> QED
      BY <3>3
  <2>11. path = PathIn(text, p)
    <3> DEFINE line == SubSeq(rest, 1, l)
    <3>1. line = SubSeq(text, s + 1, e)
      <4>1. /\ pos \in 1 .. (Len(text) + 1) /\ Len(text) \in (pos - 1) .. Len(text)
            /\ 1 \in 1 .. (Len(text) - pos + 2)
            /\ l \in (1 - 1) .. (Len(text) - pos + 1)
            /\ pos + 1 - 1 = s + 1 /\ pos + l - 1 = e
        BY <2>6, <2>7, <2>9
      <4> HIDE DEF l
      <4> QED
        BY <2>2, <2>4, <4>1, PartOfPart
    <3>2. /\ s + 1 \in 1 .. (Len(text) + 1) /\ e \in (s + 1 - 1) .. Len(text)
          /\ 3 \in 1 .. (e - (s + 1) + 2) /\ e - s \in (3 - 1) .. (e - (s + 1) + 1)
          /\ e - (s + 1) + 1 = e - s /\ s + 1 + 3 - 1 = s + 3 /\ s + 1 + (e - s) - 1 = e
          /\ 1 \in 1 .. (e - s) /\ 2 \in 1 .. (e - s) /\ e - s > 1
          /\ s + 1 + 1 - 1 = s + 1 /\ s + 1 + 2 - 1 = s + 2
      BY <2>6, <2>7
    <3> HIDE DEF l, line, after
    <3>3. /\ line \in Seq(Symbol) /\ Len(line) = e - s
          /\ SubSeq(line, 3, e - s) = SubSeq(text, s + 3, e)
          /\ line[1] = Blank /\ line[2] = Blank
      <4>1. /\ SubSeq(SubSeq(text, s + 1, e), 3, e - s) = SubSeq(text, s + 1 + 3 - 1, s + 1 + (e - s) - 1)
            /\ Len(SubSeq(text, s + 1, e)) = e - (s + 1) + 1
            /\ \A k \in 1 .. (e - (s + 1) + 1) : SubSeq(text, s + 1, e)[k] = text[s + 1 + k - 1]
            /\ SubSeq(text, s + 1, e) \in Seq(Symbol)
        <5> DEFINE a == s + 1
                   c == e - s
        <5>1. /\ a \in 1 .. (Len(text) + 1) /\ e \in (a - 1) .. Len(text)
              /\ 3 \in 1 .. (e - a + 2) /\ c \in (3 - 1) .. (e - a + 1)
          BY <3>2
        <5> HIDE DEF a, c
        <5>2. /\ SubSeq(SubSeq(text, a, e), 3, c) = SubSeq(text, a + 3 - 1, a + c - 1)
              /\ Len(SubSeq(text, a, e)) = e - a + 1
              /\ \A k \in 1 .. (e - a + 1) : SubSeq(text, a, e)[k] = text[a + k - 1]
              /\ SubSeq(text, a, e) \in Seq(Symbol)
          BY <2>2, <5>1, PartOfPart
        <5> QED
          BY <5>2 DEF a, c
      <4>2. line[1] = text[s + 1] /\ line[2] = text[s + 2]
        BY <3>1, <3>2, <4>1
      <4> QED
        BY <2>6, <3>1, <3>2, <4>1, <4>2
    <3>4. Head(line) = Blank /\ Blank \notin Sum
      BY <3>2, <3>3, SymbolAssumption, BlankAssumption
    <3>5. PathOf(line, after) = SubSeq(line, 3, e - s)
      BY <3>2, <3>3, <3>4 DEF PathOf
    <3> QED
      BY <3>3, <3>5 DEF PathIn, s, e, line
  <2> HIDE DEF path, after
  <2>12. Stored(reading)'
    <3> SUFFICES ASSUME NEW q \in Starts(text), Rank(text, q) < n + 1
                 PROVE  /\ checksum[reading][Rank(text, q)] = SumOf(text, q)
                        /\ filepath'[reading][Rank(text, q)] = PathIn(text, q)
      BY <1>1, <1>4, <2>1 DEF Stored
    <3> DEFINE r == Rank(text, q)
    <3>1. r \in Nat /\ n \in 0 .. MaxLen /\ r < n + 1
      BY <1>1, <2>8
    <3>2. CASE r = n
      BY <1>4, <2>5, <2>8, <2>11, <3>2
    <3>3. CASE r < n
      <4>1. checksum[reading][r] = SumOf(text, q) /\ filepath[reading][r] = PathIn(text, q)
        BY <2>1, <2>3, <3>3 DEF FileInv, Stored
      <4>2. r \in Slot /\ r # n
        <5> HIDE DEF r, n
        <5> QED
          BY <3>1, <3>3, MaxLenAssumption DEF Slot
      <4> QED
        BY <1>4, <4>1, <4>2
    <3>4. r = n \/ r < n
      <4> HIDE DEF r, n
      <4> QED
        BY <3>1
    <3> QED
      BY <3>2, <3>3, <3>4
  <2>13. e + 1 \in 1 .. (Len(text) + 1) /\ e + 1 \in (p + 1) .. (e + 1)
         /\ (e + 1 = Len(text) + 1 \/ text[e + 1] = NL)
    BY <2>6, <2>7
  <2>14. Somewhere(text, e + 1, n)'
    <3>1. n + 1 = Rank(text, e + 1)
      BY <2>5, <2>6, <2>13
    <3>2. n' = n + 1 /\ state' = "INITIAL"
      BY <1>1, <1>4
    <3> QED
      BY <2>13, <3>1, <3>2 DEF Somewhere, Between
  <2>15. idx'[reading] <= Lines(files[reading])
    BY <1>4, <2>1, <2>8
  <2>16. rest' = SubSeq(text, e + 1, Len(text))
    BY <1>1, <2>10
  <2>17. files'[reading'] = text /\ Somewhere(files[reading], e + 1, idx[reading])'
    BY <1>1, <2>1, <2>14
  <2> HIDE DEF n
  <2> QED
    BY <2>1, <2>12, <2>13, <2>15, <2>16, <2>17
<1> QED
  BY <1>1, <1>3, <1>4, <1>5, ScannerMoves

LEMMA EntriesOther == Inv /\ files \in File /\ EntriesInv /\ MatchOther => EntriesInv'
<1> SUFFICES ASSUME Inv, files \in File, EntriesInv, MatchOther PROVE EntriesInv'
  OBVIOUS
<1> DEFINE n == idx[reading]
<1>1. /\ reading \in Which /\ pc = "scan" /\ pc' = "scan" /\ rest # <<>> /\ rest' = Tail(rest)
      /\ UNCHANGED <<files, reading, status, state, checksum, filepath, idx>>
      /\ \/ state = "INITIAL" /\ Head(rest) \notin Sum
         \/ state = "fpath" /\ Head(rest) = NL
  BY DEF MatchOther, Inv, TypeOK, inputs, arrays
<1>2. ASSUME WellFormed(files[reading])
      PROVE  \E pos \in 1 .. (Len(files[reading]) + 1) :
                 /\ rest' = SubSeq(files[reading], pos, Len(files[reading]))
                 /\ Somewhere(files[reading], pos, idx[reading])'
  <2>1. PICK text : text = files[reading]
    OBVIOUS
  <2>2. text \in Seq(Symbol) /\ WellFormed(text)
    BY <1>1, <1>2, <2>1, TextOf
  <2>3. FileInv(reading)
    BY <1>1, <1>2 DEF EntriesInv
  <2>4. PICK pos \in 1 .. (Len(text) + 1) :
            rest = SubSeq(text, pos, Len(text)) /\ Somewhere(text, pos, n)
    BY <1>1, <2>1, <2>3 DEF FileInv
  <2>5. /\ pos \in 1 .. Len(text) /\ Head(rest) = text[pos]
        /\ rest' = SubSeq(text, pos + 1, Len(text))
    BY <1>1, <2>2, <2>4, Rests
  <2>6. Somewhere(text, pos + 1, n)'
    <3>1. CASE AtLine(text, pos, n)
      <4>1. text[pos] \notin Sum /\ pos \in Starts(text)
        BY <1>1, <2>5, <3>1 DEF AtLine
      <4>2. text[SumAt(text, pos)] \in Sum
        BY <2>2, <4>1, EntryParts
      <4>3. text[pos] = Backslash /\ (pos + 1) - 1 = pos
        BY <4>1, <4>2 DEF SumAt
      <4>4. Escaped(text, pos + 1, n)'
        BY <1>1, <3>1, <4>1, <4>3 DEF Escaped, AtLine
      <4> QED
        BY <4>4 DEF Somewhere
    <3>2. CASE Escaped(text, pos, n)
      <4>1. /\ pos - 1 \in Starts(text) /\ text[pos - 1] = Backslash
            /\ pos - 1 + 1 = pos
        BY <3>2 DEF Escaped
      <4>2. SumAt(text, pos - 1) = pos
        BY <4>1 DEF SumAt
      <4>3. text[SumAt(text, pos - 1)] \in Sum
        BY <2>2, <4>1, EntryParts
      <4> QED
        BY <1>1, <2>5, <3>2, <4>2, <4>3 DEF Escaped
    <3>3. CASE InLine(text, pos, n)
      <4>1. PICK p \in Starts(text) : pos = SumAt(text, p) + 1
        BY <3>3 DEF InLine
      <4>2. text[SumAt(text, p) + 1] = Blank
        BY <2>2, EntryParts
      <4>3. Blank # NL
        BY SymbolAssumption, BlankAssumption
      <4> QED
        BY <1>1, <2>5, <3>3, <4>1, <4>2, <4>3 DEF InLine
    <3>4. CASE Between(text, pos, n)
      <4>1. text[pos] = NL /\ state = "INITIAL" /\ n = Rank(text, pos)
        BY <2>5, <3>4 DEF Between
      <4>2. /\ pos + 1 \in Starts(text) \/ pos + 1 = Len(text) + 1
            /\ Rank(text, pos + 1) = n
        BY <2>2, <2>5, <4>1, BehindNewline
      <4>3. n' = n /\ state' = state
        BY <1>1
      <4> HIDE DEF n
      <4> QED
        BY <4>1, <4>2, <4>3 DEF Somewhere, AtLine, Between
    <3> QED
      BY <2>4, <3>1, <3>2, <3>3, <3>4 DEF Somewhere
  <2>7. pos + 1 \in 1 .. (Len(text) + 1)
    BY <2>2, <2>5
  <2>8. files'[reading'] = text /\ Somewhere(files[reading], pos + 1, idx[reading])'
    BY <1>1, <2>1, <2>6
  <2> HIDE DEF n
  <2> QED
    BY <2>1, <2>5, <2>7, <2>8
<1>3. EntriesInv'
  <2>1. /\ Shape'
        /\ WellFormed(files[reading]) => idx'[reading] <= Lines(files[reading]) /\ Stored(reading)'
    BY <1>1 DEF EntriesInv, Shape, FileInv, Stored
  <2> QED
    BY <1>1, <1>2, <2>1, ScannerMoves
<1> QED
  BY <1>3

\* The steps before and after the scanners.
LEMMA EntriesElsewhere ==
    ASSUME Inv, EntriesInv,
           CheckArguments \/ ComparePair \/ NextEntry \/ JoinEnd \/ FreeEntry \/ FreeEnd
                          \/ UNCHANGED vars
    PROVE  EntriesInv'
<1>1. CASE UNCHANGED vars
  BY <1>1 DEF vars, EntriesInv, Shape, FileInv, Stored, NotYet, Done, Somewhere,
              AtLine, Escaped, InLine, Between
<1>2. CASE ~UNCHANGED vars
  <2>1. pc = "main" => reading = 1
    BY DEF EntriesInv, Shape
  <2>2. /\ UNCHANGED <<files, checksum, filepath, idx>>
        /\ pc' \notin {"scan", "undefined"}
        /\ \/ /\ pc = "main" /\ pc' \in {"exit", "open"} /\ reading' = 1
              /\ status' # 0 /\ status # 0
           \/ pc \in {"join", "free"} /\ pc' \in {"join", "free", "exit"}
    <3>1. CASE CheckArguments
      BY <2>1, <3>1, SymbolAssumption DEF CheckArguments, Return, inputs, arrays, Inv, TypeOK
    <3>2. CASE ComparePair
      BY <3>2 DEF ComparePair, inputs, arrays
    <3>3. CASE NextEntry \/ JoinEnd
      BY <3>3 DEF NextEntry, JoinEnd, inputs, arrays
    <3>4. CASE FreeEntry \/ FreeEnd
      BY <3>4 DEF FreeEntry, FreeEnd, Return, inputs, arrays
    <3> QED
      BY <1>2, <3>1, <3>2, <3>3, <3>4
  <2>3. ASSUME NEW s \in Which, WellFormed(files[s])
        PROVE  /\ NotYet(s)' => idx[s] = 0
               /\ Done(s)' => idx[s] = Lines(files[s])
    <3>1. FileInv(s)
      BY <2>3 DEF EntriesInv
    <3>2. (NotYet(s)' => NotYet(s)) /\ (Done(s)' => Done(s))
      BY <2>1, <2>2 DEF NotYet, Done, Which
    <3> QED
      BY <3>1, <3>2 DEF FileInv
  <2> QED
    BY <2>2, <2>3, EntriesAsBefore
<1> QED
  BY <1>1, <1>2

LEMMA EntriesStep == Inv /\ files \in File /\ EntriesInv /\ [Next]_vars => EntriesInv'
BY EntriesOpen, EntriesChecksum, EntriesPath, EntriesOther, EntriesEndOfFile, EntriesElsewhere
   DEF Next

-----------------------------------------------------------------------------
(* The report.                                                               *)

PathsOf(o) == <<PathIn(files[1], o[1]), PathIn(files[2], o[2])>>

\* A pair of lines is in the row of the first and the column of the second, and
\* the loops of main have these pairs behind them in row m and column n.
Row(o) == Rank(files[1], o[1])
Col(o) == Rank(files[2], o[2])
Passed(m, n) == {o \in Pairs : Row(o) < m \/ (Row(o) = m /\ Col(o) < n)}

Reported(done) ==
    /\ Len(printed) = Cardinality(done)
    /\ \A o \in done : printed[Cardinality(Earlier(o)) + 1] = PathsOf(o)

JoinInv ==
    BothWellFormed =>
        /\ j \in Nat
        /\ printed \in Seq(Seq(Symbol) \X Seq(Symbol))
        /\ pc = "join" => Reported(Passed(i, j))
        /\ pc = "free" \/ status = 0 => Reported(Pairs)
        /\ pc # "join" /\ pc # "free" /\ status # 0 => printed = <<>>

LEMMA PairsAre ==
    ASSUME files \in File, BothWellFormed
    PROVE  /\ IsFiniteSet(Pairs) /\ Cardinality(Pairs) \in Nat
           /\ \A o \in Pairs : /\ o[1] \in Starts(files[1]) /\ o[2] \in Starts(files[2])
                               /\ o[1] \in Nat /\ o[2] \in Nat
                               /\ o = <<o[1], o[2]>>
                               /\ Row(o) \in Nat /\ Row(o) < Lines(files[1])
                               /\ Col(o) \in Nat /\ Col(o) < Lines(files[2])
                               /\ PathsOf(o) \in Seq(Symbol) \X Seq(Symbol)
           /\ Lines(files[1]) \in Nat /\ Lines(files[2]) \in Nat
<1>1. /\ files[1] \in Seq(Symbol) /\ WellFormed(files[1])
      /\ files[2] \in Seq(Symbol) /\ WellFormed(files[2])
  BY TextOf DEF BothWellFormed, Which
<1>2. /\ IsFiniteSet(Starts(files[1])) /\ Starts(files[1]) \subseteq Nat
      /\ IsFiniteSet(Starts(files[2])) /\ Starts(files[2]) \subseteq Nat
      /\ Lines(files[1]) \in Nat /\ Lines(files[2]) \in Nat
  BY <1>1, StartsAre
<1>3. IsFiniteSet(Pairs) /\ Cardinality(Pairs) \in Nat
  <2>1. IsFiniteSet(Starts(files[1]) \X Starts(files[2]))
    BY <1>2, FS_Product
  <2>2. Pairs \in SUBSET (Starts(files[1]) \X Starts(files[2]))
    BY DEF Pairs
  <2>3. IsFiniteSet(Pairs)
    BY <2>1, <2>2, FS_Subset
  <2> QED
    BY <2>3, FS_CardinalityType
<1>4. ASSUME NEW o \in Pairs
      PROVE  /\ o[1] \in Starts(files[1]) /\ o[2] \in Starts(files[2]) /\ o = <<o[1], o[2]>>
             /\ Row(o) \in Nat /\ Row(o) < Lines(files[1])
             /\ Col(o) \in Nat /\ Col(o) < Lines(files[2])
             /\ PathsOf(o) \in Seq(Symbol) \X Seq(Symbol)
  <2>1. o[1] \in Starts(files[1]) /\ o[2] \in Starts(files[2]) /\ o = <<o[1], o[2]>>
    BY DEF Pairs
  <2>2. ASSUME NEW text \in Seq(Symbol), WellFormed(text), NEW p \in Starts(text)
        PROVE  PathIn(text, p) \in Seq(Symbol)
    <3> DEFINE s == SumAt(text, p)
               e == EndOf(text, p)
    <3>1. s \in Nat /\ e \in Nat /\ s >= 1 /\ s + 3 <= e /\ e <= Len(text)
      <4>1. s \in {p, p + 1} /\ p \in 1 .. Len(text) /\ s + 3 <= e /\ e <= Len(text)
            /\ s \in Nat /\ e \in Nat
        BY <2>2, EntryParts
      <4> HIDE DEF s, e
      <4> QED
        BY <4>1
    <3> HIDE DEF s, e
    <3>2. SubSeq(text, s + 3, e) \in Seq(Symbol)
      BY <3>1
    <3> QED
      BY <3>2 DEF PathIn, s, e
  <2>3. PathIn(files[1], o[1]) \in Seq(Symbol) /\ PathIn(files[2], o[2]) \in Seq(Symbol)
    BY <1>1, <2>1, <2>2
  <2>4. o[1] \in Nat /\ o[2] \in Nat
    BY <1>2, <2>1
  <2>5. Row(o) \in Nat /\ Row(o) < Lines(files[1])
    BY <1>1, <2>1, <2>4, Ranks DEF Row
  <2>6. Col(o) \in Nat /\ Col(o) < Lines(files[2])
    BY <1>1, <2>1, <2>4, Ranks DEF Col
  <2> QED
    BY <2>1, <2>3, <2>5, <2>6 DEF PathsOf
<1> QED
  BY <1>2, <1>3, <1>4

\* Rows and columns order the pairs as the report does.
LEMMA RowsAndColumns ==
    ASSUME files \in File, BothWellFormed, NEW o \in Pairs, NEW e \in Pairs
    PROVE  /\ o[1] < e[1] <=> Row(o) < Row(e)
           /\ o[1] = e[1] <=> Row(o) = Row(e)
           /\ o[2] < e[2] <=> Col(o) < Col(e)
           /\ o[2] = e[2] <=> Col(o) = Col(e)
<1>1. /\ files[1] \in Seq(Symbol) /\ files[2] \in Seq(Symbol)
  BY TextOf DEF BothWellFormed, Which
<1>2. /\ o[1] \in Starts(files[1]) /\ o[2] \in Starts(files[2])
      /\ e[1] \in Starts(files[1]) /\ e[2] \in Starts(files[2])
  BY PairsAre
<1> QED
  BY <1>1, <1>2, RanksOrder DEF Row, Col

LEMMA PassedSteps ==
    ASSUME files \in File, BothWellFormed, NEW m \in Nat, NEW n \in Nat
    PROVE  /\ Passed(0, 0) = {}
           /\ n >= Lines(files[2]) => Passed(m + 1, 0) = Passed(m, n)
           /\ m >= Lines(files[1]) => Passed(m, n) = Pairs
           /\ \A o \in Pairs : Earlier(o) = Passed(Row(o), Col(o))
<1>1. \A o \in Pairs : /\ Row(o) \in Nat /\ Row(o) < Lines(files[1])
                       /\ Col(o) \in Nat /\ Col(o) < Lines(files[2])
  BY PairsAre
<1>2. Lines(files[1]) \in Nat /\ Lines(files[2]) \in Nat
  BY PairsAre
<1>3. Passed(0, 0) = {}
  <2>1. \A o \in Pairs : ~(Row(o) < 0 \/ (Row(o) = 0 /\ Col(o) < 0))
    BY <1>1
  <2> QED
    BY <2>1, Zenon DEF Passed
<1>4. ASSUME n >= Lines(files[2]) PROVE Passed(m + 1, 0) = Passed(m, n)
  <2>1. \A o \in Pairs : (Row(o) < m + 1 \/ (Row(o) = m + 1 /\ Col(o) < 0))
                             <=> (Row(o) < m \/ (Row(o) = m /\ Col(o) < n))
    BY <1>1, <1>2, <1>4
  <2> QED
    BY <2>1, Zenon DEF Passed
<1>5. ASSUME m >= Lines(files[1]) PROVE Passed(m, n) = Pairs
  <2>1. \A o \in Pairs : Row(o) < m
    BY <1>1, <1>2, <1>5
  <2> QED
    BY <2>1, Zenon DEF Passed
<1>6. ASSUME NEW o \in Pairs PROVE Earlier(o) = Passed(Row(o), Col(o))
  <2>1. \A e \in Pairs : (e[1] < o[1] \/ (e[1] = o[1] /\ e[2] < o[2]))
                             <=> (Row(e) < Row(o) \/ (Row(e) = Row(o) /\ Col(e) < Col(o)))
    BY RowsAndColumns
  <2> QED
    BY <2>1, Zenon DEF Passed, Earlier
<1> QED
  BY <1>3, <1>4, <1>5, <1>6

LEMMA PassedOne ==
    ASSUME files \in File, BothWellFormed,
           NEW p \in Starts(files[1]), NEW q \in Starts(files[2])
    PROVE  LET m == Rank(files[1], p)
               n == Rank(files[2], q)
           IN  IF SumOf(files[1], p) = SumOf(files[2], q)
               THEN /\ <<p, q>> \in Pairs /\ <<p, q>> \notin Passed(m, n)
                    /\ Row(<<p, q>>) = m /\ Col(<<p, q>>) = n
                    /\ Passed(m, n + 1) = Passed(m, n) \cup {<<p, q>>}
               ELSE Passed(m, n + 1) = Passed(m, n)
<1> DEFINE m == Rank(files[1], p)
           n == Rank(files[2], q)
           x == <<p, q>>
<1>1. /\ files[1] \in Seq(Symbol) /\ files[2] \in Seq(Symbol)
  BY TextOf DEF BothWellFormed, Which
<1>2. m \in Nat /\ n \in Nat
  <2>1. p \in Nat /\ q \in Nat
    BY <1>1, StartsAre
  <2> QED
    BY <1>1, <2>1, Ranks
<1>3. \A o \in Pairs : /\ o[1] \in Starts(files[1]) /\ o[2] \in Starts(files[2])
                       /\ Row(o) \in Nat /\ Col(o) \in Nat /\ o = <<o[1], o[2]>>
  BY PairsAre
<1>4. \A o \in Pairs : Row(o) = m /\ Col(o) = n <=> o = x
  <2> TAKE o \in Pairs
  <2>1. Row(o) = m <=> o[1] = p
    BY <1>1, <1>3, RanksOrder DEF Row
  <2>2. Col(o) = n <=> o[2] = q
    BY <1>1, <1>3, RanksOrder DEF Col
  <2> HIDE DEF m, n
  <2> QED
    BY <1>3, <2>1, <2>2
<1>5. Row(x) = m /\ Col(x) = n
  BY DEF Row, Col
<1>6. x \in Pairs <=> SumOf(files[1], p) = SumOf(files[2], q)
  BY DEF Pairs
<1> HIDE DEF m, n, x
<1>7. \A o \in Pairs : (Row(o) < m \/ (Row(o) = m /\ Col(o) < n + 1))
                           <=> (Row(o) < m \/ (Row(o) = m /\ Col(o) < n)) \/ o = x
  BY <1>2, <1>3, <1>4
<1>8. ASSUME x \in Pairs
      PROVE  x \notin Passed(m, n) /\ Passed(m, n + 1) = Passed(m, n) \cup {x}
  <2>1. ~(Row(x) < m \/ (Row(x) = m /\ Col(x) < n))
    BY <1>2, <1>5
  <2> QED
    BY <1>7, <1>8, <2>1, Zenon DEF Passed
<1>9. ASSUME x \notin Pairs PROVE Passed(m, n + 1) = Passed(m, n)
  <2>1. \A o \in Pairs : o # x
    BY <1>9
  <2> QED
    BY <1>7, <2>1, Zenon DEF Passed
<1> QED
  BY <1>5, <1>6, <1>8, <1>9 DEF m, n, x

LEMMA JoinInit == Init => JoinInv
<1> SUFFICES ASSUME Init PROVE JoinInv
  OBVIOUS
<1>1. pc = "main" /\ status # 0 /\ printed = <<>> /\ j = 0
  BY SymbolAssumption DEF Init
<1>2. printed \in Seq(Seq(Symbol) \X Seq(Symbol))
  BY <1>1
<1> QED
  BY <1>1, <1>2 DEF JoinInv

LEMMA JoinCompare ==
    ASSUME Inv, files \in File, EntriesInv, JoinInv, ComparePair
    PROVE  JoinInv'
<1>1. /\ pc = "join" /\ pc' = "join" /\ i < idx[1] /\ j < idx[2] /\ i \in Nat
      /\ idx[1] \in 0 .. MaxLen /\ idx[2] \in 0 .. MaxLen
      /\ UNCHANGED <<files, i, status>> /\ j' = j + 1
      /\ printed' = IF SameChecksum(i, j)
                    THEN Append(printed, <<filepath[1][i], filepath[2][j]>>)
                    ELSE printed
  BY DEF ComparePair, inputs, arrays, Inv, TypeOK, Which
<1> SUFFICES ASSUME BothWellFormed
             PROVE  /\ j' \in Nat
                    /\ printed' \in Seq(Seq(Symbol) \X Seq(Symbol))
                    /\ Reported(Passed(i, j))'
  BY <1>1 DEF JoinInv, BothWellFormed, Inv, TypeOK
<1> DEFINE D == Passed(i, j)
<1>2. j \in Nat /\ printed \in Seq(Seq(Symbol) \X Seq(Symbol)) /\ Reported(D)
  BY <1>1 DEF JoinInv
<1>3. /\ WellFormed(files[1]) /\ WellFormed(files[2])
      /\ files[1] \in Seq(Symbol) /\ files[2] \in Seq(Symbol)
      /\ FileInv(1) /\ FileInv(2)
      /\ idx[1] = Lines(files[1]) /\ idx[2] = Lines(files[2])
  BY <1>1, TextOf DEF BothWellFormed, EntriesInv, FileInv, Done, Which
<1>4. PICK p \in Starts(files[1]) : Rank(files[1], p) = i
  BY <1>1, <1>3, Ranks
<1>5. PICK q \in Starts(files[2]) : Rank(files[2], q) = j
  BY <1>1, <1>2, <1>3, Ranks
<1>6. /\ checksum[1][i] = SumOf(files[1], p) /\ filepath[1][i] = PathIn(files[1], p)
      /\ checksum[2][j] = SumOf(files[2], q) /\ filepath[2][j] = PathIn(files[2], q)
  BY <1>1, <1>3, <1>4, <1>5 DEF FileInv, Stored
<1>7. /\ Pairs' = Pairs /\ \A o : Earlier(o)' = Earlier(o) /\ PathsOf(o)' = PathsOf(o)
      /\ Passed(i, j)' = Passed(i, j + 1)
  BY <1>1 DEF Pairs, Earlier, PathsOf, Passed, Row, Col
<1>8. SameChecksum(i, j) <=> SumOf(files[1], p) = SumOf(files[2], q)
  BY <1>6 DEF SameChecksum
<1>9. CASE SumOf(files[1], p) = SumOf(files[2], q)
  <2> DEFINE x == <<p, q>>
             E == Passed(i, j + 1)
  <2>1. x \in Pairs /\ x \notin D /\ Row(x) = i /\ Col(x) = j /\ E = D \cup {x}
    BY <1>3, <1>4, <1>5, <1>9, PassedOne
  <2>2. PathsOf(x) = <<filepath[1][i], filepath[2][j]>> /\ PathsOf(x) \in Seq(Symbol) \X Seq(Symbol)
    BY <1>6, <2>1, PairsAre DEF PathsOf
  <2>3. printed' = Append(printed, PathsOf(x))
    BY <1>1, <1>8, <1>9, <2>2
  <2>4. Earlier(x) = D
    BY <1>1, <1>2, <2>1, PassedSteps
  <2>5. IsFiniteSet(D)
    <3>1. D \in SUBSET Pairs /\ IsFiniteSet(Pairs)
      BY PairsAre DEF Passed
    <3> QED
      BY <3>1, FS_Subset
  <2> HIDE DEF D, E, x
  <2>6. Cardinality(D) \in Nat /\ Cardinality(E) = Cardinality(D) + 1
    BY <2>1, <2>5, FS_CardinalityType, FS_AddElement
  <2>7. Len(printed) = Cardinality(D) /\ \A o \in D : printed[Cardinality(Earlier(o)) + 1] = PathsOf(o)
    BY <1>2 DEF Reported
  <2>8. /\ printed' \in Seq(Seq(Symbol) \X Seq(Symbol)) /\ Len(printed') = Cardinality(E)
        /\ printed'[Cardinality(D) + 1] = PathsOf(x)
        /\ \A k \in 1 .. Cardinality(D) : printed'[k] = printed[k]
    BY <1>2, <2>2, <2>3, <2>6, <2>7
  <2>9. ASSUME NEW o \in D PROVE Cardinality(Earlier(o)) + 1 \in 1 .. Cardinality(D)
    <3>1. o \in Pairs /\ (Row(o) < i \/ (Row(o) = i /\ Col(o) < j))
      BY DEF D, Passed
    <3>2. /\ Row(o) \in Nat /\ Col(o) \in Nat
      BY <3>1, PairsAre
    <3>3. Earlier(o) = Passed(Row(o), Col(o)) /\ o \notin Earlier(o)
      <4>1. ~(Row(o) < Row(o)) /\ ~(Col(o) < Col(o))
        BY <3>2
      <4> QED
        BY <3>1, <3>2, <4>1, PassedSteps DEF Passed
    <3>4. Earlier(o) \subseteq D
      <4>1. \A e \in Pairs : Row(e) \in Nat /\ Col(e) \in Nat
        BY PairsAre
      <4>2. \A e \in Pairs : (Row(e) < Row(o) \/ (Row(e) = Row(o) /\ Col(e) < Col(o)))
                                => (Row(e) < i \/ (Row(e) = i /\ Col(e) < j))
        BY <1>1, <1>2, <3>1, <3>2, <4>1
      <4> QED
        BY <3>3, <4>2 DEF Passed, D
    <3>5. /\ Cardinality(Earlier(o)) \in Nat /\ Cardinality(Earlier(o)) <= Cardinality(D)
          /\ Cardinality(Earlier(o)) = Cardinality(D) => Earlier(o) = D
      BY <2>5, <3>4, FS_Subset, FS_CardinalityType
    <3>6. Cardinality(Earlier(o)) # Cardinality(D)
      BY <3>3, <3>5
    <3> QED
      BY <2>6, <3>5, <3>6
  <2>10. \A o \in E : printed'[Cardinality(Earlier(o)) + 1] = PathsOf(o)
    <3> TAKE o \in E
    <3>1. CASE o = x
      BY <2>4, <2>8, <3>1
    <3>2. CASE o \in D
      BY <2>7, <2>8, <2>9, <3>2
    <3> QED
      BY <2>1, <3>1, <3>2
  <2>11. Reported(Passed(i, j))'
    BY <1>7, <2>8, <2>10 DEF Reported, E
  <2> QED
    BY <1>1, <1>2, <2>8, <2>11
<1>10. CASE SumOf(files[1], p) # SumOf(files[2], q)
  <2>1. printed' = printed /\ Passed(i, j + 1) = D
    BY <1>1, <1>3, <1>4, <1>5, <1>8, <1>10, PassedOne
  <2>2. Reported(Passed(i, j))'
    BY <1>2, <1>7, <2>1 DEF Reported
  <2> QED
    BY <1>1, <1>2, <2>1, <2>2
<1> QED
  BY <1>9, <1>10

\* The other steps print nothing.
LEMMA JoinOther ==
    ASSUME Inv, files \in File, EntriesInv, JoinInv, [Next]_vars, ~ComparePair
    PROVE  JoinInv'
<1>1. UNCHANGED <<files, printed>>
  BY DEF Next, vars, inputs, CheckArguments, OpenFile, MatchChecksum, MatchPath, MatchOther,
     EndOfFile, NextEntry, JoinEnd, FreeEntry, FreeEnd
<1> SUFFICES ASSUME BothWellFormed PROVE JoinInv'
  BY <1>1 DEF JoinInv, BothWellFormed
<1>2. /\ j \in Nat /\ printed \in Seq(Seq(Symbol) \X Seq(Symbol))
      /\ pc = "join" => Reported(Passed(i, j))
      /\ pc = "free" \/ status = 0 => Reported(Pairs)
      /\ pc # "join" /\ pc # "free" /\ status # 0 => printed = <<>>
  BY DEF JoinInv
<1>3. /\ WellFormed(files[1]) /\ WellFormed(files[2])
      /\ FileInv(1) /\ FileInv(2) /\ i \in Nat
      /\ Lines(files[1]) \in Nat /\ Lines(files[2]) \in Nat
  BY PairsAre DEF BothWellFormed, EntriesInv, Inv, TypeOK, Which
<1>4. /\ Pairs' = Pairs /\ \A o : Earlier(o)' = Earlier(o) /\ PathsOf(o)' = PathsOf(o)
      /\ \A m, n : Passed(m, n)' = Passed(m, n)
  BY <1>1 DEF Pairs, Earlier, PathsOf, Passed, Row, Col
<1>5. \A D : Reported(D) => Reported(D)'
  BY <1>1, <1>4 DEF Reported
<1>6. pc = "join" => idx[1] = Lines(files[1]) /\ idx[2] = Lines(files[2])
  BY <1>3 DEF FileInv, Done
<1>7. CASE CheckArguments \/ OpenFile \/ MatchChecksum \/ MatchPath \/ MatchOther
  <2>1. /\ pc # "join" /\ pc # "free" /\ status # 0
        /\ pc' # "join" /\ pc' # "free" /\ status' # 0 /\ j' = j
    BY <1>7, SymbolAssumption DEF CheckArguments, OpenFile, MatchChecksum, MatchPath, MatchOther,
       Return, Inv, TypeOK
  <2> QED
    BY <1>1, <1>2, <2>1 DEF JoinInv
<1>8. CASE EndOfFile
  <2>1. /\ pc = "scan" /\ status # 0 /\ UNCHANGED status
        /\ (pc' = "open" /\ j' = j) \/ (pc' = "join" /\ i' = 0 /\ j' = 0)
    BY <1>8 DEF EndOfFile, Inv, TypeOK, inputs, arrays
  <2>2. printed = <<>> /\ Passed(0, 0) = {}
    BY <1>2, <2>1, PassedSteps
  <2>3. pc' = "join" => Passed(i, j)' = {}
    BY <1>1, <2>1, <2>2 DEF Passed, Row, Col, Pairs
  <2>4. Len(printed) = Cardinality({})
    BY <2>2, FS_EmptySet
  <2>5. pc' = "join" => Reported(Passed(i, j))'
    BY <1>1, <2>3, <2>4 DEF Reported
  <2> QED
    BY <1>1, <1>2, <2>1, <2>2, <2>5 DEF JoinInv
<1>9. CASE NextEntry
  <2>1. /\ pc = "join" /\ UNCHANGED <<pc, status>> /\ i' = i + 1 /\ j' = 0 /\ j >= idx[2] /\ status # 0
    BY <1>9 DEF NextEntry, Inv, TypeOK
  <2>2. Passed(i + 1, 0) = Passed(i, j)
    BY <1>2, <1>3, <1>6, <2>1, PassedSteps
  <2>3. Passed(i, j)' = Passed(i + 1, 0)
    BY <1>1, <2>1 DEF Passed, Row, Col, Pairs
  <2>4. Reported(Passed(i, j))'
    BY <1>1, <1>2, <1>4, <2>1, <2>2, <2>3 DEF Reported
  <2> QED
    BY <1>1, <1>2, <2>1, <2>4 DEF JoinInv
<1>10. CASE JoinEnd
  <2>1. /\ pc = "join" /\ pc' = "free" /\ UNCHANGED <<j, status>> /\ i >= idx[1] /\ status # 0
    BY <1>10 DEF JoinEnd, Inv, TypeOK
  <2>2. Passed(i, j) = Pairs
    BY <1>2, <1>3, <1>6, <2>1, PassedSteps
  <2>3. Reported(Pairs)'
    BY <1>1, <1>2, <1>4, <2>1, <2>2 DEF Reported
  <2> QED
    BY <1>1, <1>2, <2>1, <2>3 DEF JoinInv
<1>11. CASE FreeEntry \/ FreeEnd
  <2>1. pc = "free" /\ j' = j /\ (pc' = "free" \/ (pc' = "exit" /\ status' = 0))
    BY <1>11 DEF FreeEntry, FreeEnd, Return, inputs, arrays
  <2>2. Reported(Pairs)'
    BY <1>1, <1>2, <1>4, <2>1 DEF Reported
  <2> QED
    BY <1>1, <1>2, <2>1, <2>2 DEF JoinInv
<1>12. CASE UNCHANGED vars
  <2>1. UNCHANGED <<pc, status, i, j>>
    BY <1>12 DEF vars
  <2>2. Passed(i, j)' = Passed(i, j)
    BY <1>1, <2>1 DEF Passed, Row, Col, Pairs
  <2>3. (Reported(Passed(i, j)) => Reported(Passed(i, j))') /\ (Reported(Pairs) => Reported(Pairs)')
    BY <1>1, <1>4, <2>2 DEF Reported
  <2> QED
    BY <1>1, <1>2, <2>1, <2>3 DEF JoinInv
<1> QED
  BY <1>7, <1>8, <1>9, <1>10, <1>11, <1>12 DEF Next

LEMMA ReportInvariant == Spec => [](files \in File /\ Inv /\ EntriesInv /\ JoinInv)
<1>1. Init => files \in File
  BY DEF Init
<1>2. files \in File /\ [Next]_vars => (files \in File)'
  BY FilesStay
<1>3. Inv /\ files \in File /\ EntriesInv /\ JoinInv /\ [Next]_vars => JoinInv'
  BY JoinCompare, JoinOther
<1> QED
  BY <1>1, <1>2, <1>3, InitInv, StepInv, EntriesInit, EntriesStep, JoinInit, PTL DEF Spec

\* For files of any length: whatever point the scanners have reached, the arrays
\* hold the first lines of a file that sha256sum wrote, each checksum with the
\* path of its own line (s1.l lines 15-26).
THEOREM EntriesFollowTheLines == Spec => []ArraysFollowTheLines
<1>1. EntriesInv => ArraysFollowTheLines
  BY DEF EntriesInv, FileInv, Stored, ArraysFollowTheLines
<1> QED
  BY <1>1, ReportInvariant, PTL

\* For files of any length: what main prints is a prefix of the join of the two
\* files on the checksum, in the order of their lines, and all of it when main
\* returns 0 (lines 62-68).
THEOREM ReportIsComplete == Spec => []ReportIsTheJoin
<1>1. files \in File /\ Inv /\ EntriesInv /\ JoinInv => ReportIsTheJoin
  <2> SUFFICES ASSUME files \in File, Inv, JoinInv, BothWellFormed
               PROVE  /\ Len(printed) <= Cardinality(Pairs)
                      /\ \A o \in Pairs :
                            Cardinality(Earlier(o)) + 1 <= Len(printed) =>
                                printed[Cardinality(Earlier(o)) + 1] = PathsOf(o)
                      /\ status = 0 => Len(printed) = Cardinality(Pairs)
    BY DEF ReportIsTheJoin, PathsOf
  <2>1. /\ IsFiniteSet(Pairs) /\ Cardinality(Pairs) \in Nat
    BY PairsAre
  <2>2. ASSUME NEW D \in SUBSET Pairs
        PROVE  IsFiniteSet(D) /\ Cardinality(D) \in Nat /\ Cardinality(D) <= Cardinality(Pairs)
    BY <2>1, <2>2, FS_Subset, FS_CardinalityType
  <2>3. \A o \in Pairs : Earlier(o) \in SUBSET Pairs
    BY DEF Earlier
  <2>4. CASE pc = "join"
    <3> DEFINE D == Passed(i, j)
    <3>1. D \in SUBSET Pairs /\ Reported(D) /\ status # 0
      BY <2>4 DEF JoinInv, Passed, Inv, TypeOK
    <3>2. ASSUME NEW o \in Pairs, o \notin D PROVE D \subseteq Earlier(o)
      <4>1. i \in Nat /\ j \in Nat /\ Row(o) \in Nat /\ Col(o) \in Nat
        BY PairsAre DEF JoinInv, Inv, TypeOK
      <4>2. ~(Row(o) < i \/ (Row(o) = i /\ Col(o) < j))
        BY <3>2 DEF Passed
      <4>3. \A e \in Pairs : Row(e) \in Nat /\ Col(e) \in Nat
        BY PairsAre
      <4>4. \A e \in Pairs : (Row(e) < i \/ (Row(e) = i /\ Col(e) < j))
                                 => (Row(e) < Row(o) \/ (Row(e) = Row(o) /\ Col(e) < Col(o)))
        BY <4>1, <4>2, <4>3
      <4>5. Earlier(o) = Passed(Row(o), Col(o))
        BY <4>1, PassedSteps
      <4> QED
        BY <4>4, <4>5 DEF Passed
    <3> HIDE DEF D
    <3>3. ASSUME NEW o \in Pairs, o \notin D PROVE Len(printed) <= Cardinality(Earlier(o))
      BY <2>2, <2>3, <3>1, <3>2, <3>3, FS_Subset DEF Reported
    <3>4. Len(printed) <= Cardinality(Pairs) /\ Len(printed) \in Nat
      BY <2>2, <3>1 DEF Reported
    <3>5. ASSUME NEW o \in Pairs, Cardinality(Earlier(o)) + 1 <= Len(printed)
          PROVE  printed[Cardinality(Earlier(o)) + 1] = PathsOf(o)
      <4>1. Cardinality(Earlier(o)) \in Nat
        BY <2>2, <2>3
      <4>2. o \in D
        BY <3>3, <3>4, <3>5, <4>1
      <4> QED
        BY <3>1, <4>2 DEF Reported
    <3> QED
      BY <3>1, <3>4, <3>5
  <2>5. CASE pc = "free" \/ status = 0
    BY <2>1, <2>5 DEF JoinInv, Reported
  <2>6. CASE pc # "join" /\ pc # "free" /\ status # 0
    <3>1. Len(printed) = 0
      BY <2>6 DEF JoinInv
    <3>2. \A o \in Pairs : Cardinality(Earlier(o)) \in Nat
      BY <2>2, <2>3
    <3> QED
      BY <2>1, <2>6, <3>1, <3>2
  <2> QED
    BY <2>4, <2>5, <2>6
<1> QED
  BY <1>1, ReportInvariant, PTL

\* For files and arrays of any length: of two files that sha256sum wrote, the
\* arrays overflow exactly when one has more lines than they have slots (main.c
\* lines 11-19).
THEOREM OverflowIsATooLongFile == Spec => []UndefinedExactlyWhenTooLong
<1>1. files \in File /\ Inv /\ EntriesInv => UndefinedExactlyWhenTooLong
  <2> SUFFICES ASSUME files \in File, Inv, EntriesInv, BothWellFormed
               PROVE  /\ pc = "undefined" => \E s \in Which : ~(Lines(files[s]) <= MaxLen)
                      /\ status = 0 => \A s \in Which : Lines(files[s]) <= MaxLen
    BY DEF UndefinedExactlyWhenTooLong
  <2>1. /\ \A s \in Which : FileInv(s) /\ Lines(files[s]) \in Nat /\ idx[s] \in 0 .. MaxLen
        /\ reading \in Which
    BY PairsAre DEF BothWellFormed, EntriesInv, Inv, TypeOK, Which
  <2>2. ASSUME pc = "undefined" PROVE \E s \in Which : ~(Lines(files[s]) <= MaxLen)
    BY <2>1, <2>2, MaxLenAssumption DEF FileInv
  <2>3. ASSUME status = 0, NEW s \in Which PROVE Lines(files[s]) <= MaxLen
    BY <2>1, <2>3, MaxLenAssumption DEF FileInv, Done
  <2> QED
    BY <2>2, <2>3
<1> QED
  BY <1>1, ReportInvariant, PTL

=============================================================================
