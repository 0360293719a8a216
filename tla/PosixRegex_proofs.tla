-------------------------- MODULE PosixRegex_proofs --------------------------
(* Proofs about Resub and Resplit for every buffer, pattern and size: that   *)
(* an offset of resub stays inside of its buffer, what a waiting call of     *)
(* resplit holds, and why its recursion ends.                                *)
EXTENDS Resub, Resplit, SequenceTheorems, WellFoundedInduction, TLAPS

\* Unless the pattern matches the empty string, the text at work is shorter than
\* that of main by at least one character for each call that waits.
TextShrinks ==
    splitPc \in {"call", "match"} =>
        \/ <<>> \in request.pattern
        \/ Len(frames) + Len(Buffer) <= Len(request.buffer) + 1

\* The first call has the whole text, and later ones none that is longer.
TextFits ==
    splitPc \in {"call", "match"} => Len(Buffer) <= Len(request.buffer)

\* A call that matches holds one expression, every other one none.
OneExpression == compiled = IF splitPc = "match" THEN 1 ELSE 0

\* What the frames hold bounds their number; the number alone is no invariant.
SplitInv ==
    /\ SplitTypeOK /\ TextShrinks /\ TextFits
    /\ splitPc # "undefined" => OneExpression
    /\ WaitingCallsHoldAFrame

-----------------------------------------------------------------------------
\* A set of naturals that is not empty has a least element.
LEMMA LeastNatural ==
    ASSUME NEW T \in SUBSET Nat, T # {}
    PROVE  \E x \in T : \A y \in T : x <= y
<1>1. PICK x \in T : \A y \in T : ~ (<<y, x>> \in OpToRel(<, Nat))
  BY NatLessThanWellFounded, WFMin, Zenon
<1>2. \A y \in T : ~ (y < x)
  BY <1>1 DEF OpToRel
<1> QED
  BY <1>2

\* Induction over the naturals up to n, for what holds on a set.
LEMMA CountUp ==
    ASSUME NEW n \in Nat, NEW T, 0 \in T, \A d \in 0 .. n - 1 : d \in T => d + 1 \in T
    PROVE  \A d \in 0 .. n : d \in T
<1> SUFFICES ASSUME NEW e \in 0 .. n, e \notin T PROVE FALSE
  OBVIOUS
<1> DEFINE Out == {d \in 0 .. n : d \notin T}
<1>1. Out \in SUBSET Nat /\ Out # {}
  OBVIOUS
<1> HIDE DEF Out
<1>2. PICK d \in Out : \A y \in Out : d <= y
  BY <1>1, LeastNatural
<1>3. d \in 0 .. n /\ d \notin T /\ d # 0
  BY <1>2 DEF Out
<1>4. d - 1 \in 0 .. n - 1 /\ d - 1 \notin Out /\ (d - 1) + 1 = d
  BY <1>2, <1>3
<1>5. d - 1 \in T
  BY <1>4 DEF Out
<1> QED
  BY <1>3, <1>4, <1>5

\* A function on 0 .. n that is given by its values further up, and exists.
FromAbove(n, Last, base, prefix, next, f) ==
    f = [k \in 0 .. n |-> IF k \in Last THEN base[k] ELSE {prefix[k] \o t : t \in f[next[k]]}]

LEMMA RecursionFromAbove ==
    ASSUME NEW n \in Nat, NEW Last, NEW base, NEW prefix, NEW next,
           \A k \in 0 .. n : k \notin Last => next[k] \in k + 1 .. n
    PROVE  \E f : FromAbove(n, Last, base, prefix, next, f)
<1> DEFINE IsFrom(j, f) == f = [k \in j .. n |->
                          IF k \in Last THEN base[k]
                          ELSE {prefix[k] \o t : t \in f[next[k]]}]
           T == {d \in 0 .. n + 1 : \E f : IsFrom(n + 1 - d, f)}
<1>1. 0 \in T
  <2>1. IsFrom(n + 1, [k \in n + 1 .. n |-> {}])
    OBVIOUS
  <2> QED
    BY <2>1
<1>2. ASSUME NEW d \in 0 .. (n + 1) - 1, d \in T PROVE d + 1 \in T
  <2> DEFINE j == n - d
  <2>1. j \in 0 .. n /\ n + 1 - d = j + 1 /\ n + 1 - (d + 1) = j /\ d + 1 \in 0 .. n + 1
    OBVIOUS
  <2>2. PICK g : IsFrom(j + 1, g)
    BY <1>2, <2>1
  <2> HIDE DEF j
  <2> DEFINE h == [k \in j .. n |-> IF k = j
                      THEN IF j \in Last THEN base[j]
                           ELSE {prefix[j] \o t : t \in g[next[j]]}
                      ELSE g[k]]
  <2>3. \A k \in j + 1 .. n : h[k] = g[k]
    BY <2>1
  <2>4. \A k \in j .. n : k \notin Last => h[next[k]] = g[next[k]]
    <3> SUFFICES ASSUME NEW k \in j .. n, k \notin Last PROVE h[next[k]] = g[next[k]]
      OBVIOUS
    <3>1. k \in 0 .. n /\ next[k] \in k + 1 .. n
      BY <2>1
    <3>2. next[k] \in j + 1 .. n
      BY <3>1, <2>1
    <3> QED
      BY <3>2, <2>3
  <2>5. \A k \in j .. n : h[k] = IF k \in Last THEN base[k]
                                 ELSE {prefix[k] \o t : t \in h[next[k]]}
    <3> SUFFICES ASSUME NEW k \in j .. n
                 PROVE  h[k] = IF k \in Last THEN base[k] ELSE {prefix[k] \o t : t \in h[next[k]]}
      OBVIOUS
    <3>1. CASE k = j
      <4>1. j \in j .. n
        BY <2>1
      <4>2. h[j] = IF j \in Last THEN base[j] ELSE {prefix[j] \o t : t \in g[next[j]]}
        BY <4>1
      <4> HIDE DEF h
      <4> QED
        BY <3>1, <4>1, <4>2, <2>4
    <3>2. CASE k # j
      <4>1. k \in j + 1 .. n
        BY <3>2, <2>1
      <4>2. g[k] = IF k \in Last THEN base[k] ELSE {prefix[k] \o t : t \in g[next[k]]}
        BY <2>2, <4>1
      <4> HIDE DEF h
      <4>3. h[k] = g[k]
        BY <2>3, <4>1
      <4> QED
        BY <4>2, <4>3, <2>4
    <3> QED
      BY <3>1, <3>2
  <2>6. IsFrom(j, h)
    <3> DEFINE w == [k \in j .. n |-> IF k \in Last THEN base[k]
                                      ELSE {prefix[k] \o t : t \in h[next[k]]}]
    <3>1. \A k \in j .. n : h[k] = w[k]
      <4> HIDE DEF h
      <4> QED BY <2>5
    <3>2. DOMAIN h = j .. n /\ h = [k \in DOMAIN h |-> h[k]]
      OBVIOUS
    <3>3. DOMAIN w = j .. n /\ w = [k \in DOMAIN w |-> w[k]]
      <4> HIDE DEF h
      <4> QED OBVIOUS
    <3>4. h = w
      <4> HIDE DEF h, w
      <4> QED BY <3>1, <3>2, <3>3
    <3> HIDE DEF h
    <3> QED
      BY <3>4
  <2> HIDE DEF h, IsFrom
  <2> QED
    BY <2>1, <2>6
<1> HIDE DEF T
<1>3. n + 1 \in T
  BY <1>1, <1>2, CountUp
<1>4. \E f : IsFrom(0, f)
  <2>1. (n + 1) - (n + 1) = 0
    OBVIOUS
  <2> HIDE DEF IsFrom
  <2> QED
    BY <1>3, <2>1 DEF T
<1> QED
  BY <1>4 DEF FromAbove

\* Of the matches that begin first one is longest, when there is any.
LEMMA RegexecIsFirst ==
    ASSUME NEW pattern, NEW s, Len(s) \in Nat, Found(pattern, s)
    PROVE  \E m \in AllMatches(pattern, s) :
              \A o \in AllMatches(pattern, s) :
                  m.so < o.so \/ (m.so = o.so /\ m.eo >= o.eo)
<1> DEFINE M == AllMatches(pattern, s)
           Offsets == {m.so : m \in M}
<1>1. \A m \in M : m.so \in Nat /\ m.eo \in 0 .. Len(s)
  BY DEF AllMatches
<1>2. M # {}
  BY DEF Found
<1>3. PICK so \in Offsets : \A o \in Offsets : so <= o
  <2>1. Offsets \in SUBSET Nat /\ Offsets # {}
    BY <1>1, <1>2
  <2> HIDE DEF Offsets
  <2> QED
    BY <2>1, LeastNatural
<1> DEFINE Lefts == {Len(s) - m.eo : m \in {o \in M : o.so = so}}
<1>4. PICK left \in Lefts : \A l \in Lefts : left <= l
  <2>1. Lefts \in SUBSET Nat
    BY <1>1
  <2>2. Lefts # {}
    BY <1>3
  <2> HIDE DEF Lefts
  <2> QED
    BY <2>1, <2>2, LeastNatural
<1>5. PICK m \in M : m.so = so /\ left = Len(s) - m.eo
  BY <1>4
<1>6. \A o \in M : m.so < o.so \/ (m.so = o.so /\ m.eo >= o.eo)
  <2> TAKE o \in M
  <2>1. so <= o.so
    BY <1>3
  <2>2. o.so = so => left <= Len(s) - o.eo
    BY <1>4
  <2> QED
    BY <2>1, <2>2, <1>5, <1>1
<1> QED
  BY <1>5, <1>6

LEMMA RegexecFindsAMatch ==
    ASSUME NEW pattern, NEW s, Len(s) \in Nat, Found(pattern, s)
    PROVE  Regexec(pattern, s) \in AllMatches(pattern, s)
BY RegexecIsFirst DEF Regexec

\* The text behind a match is shorter by at least one character, unless the
\* pattern matches the empty string.
LEMMA BehindIsShorter ==
    ASSUME NEW s \in Seq(Char), NEW pattern, Found(pattern, s)
    PROVE  LET m == Regexec(pattern, s)
               rest == SubSeq(s, m.eo + 1, Len(s))
           IN  /\ rest \in Seq(Char)
               /\ Len(rest) <= Len(s)
               /\ <<>> \notin pattern => Len(rest) < Len(s)
<1> DEFINE m == Regexec(pattern, s)
<1>1. m \in AllMatches(pattern, s)
  BY RegexecFindsAMatch
<1>2. /\ m.so \in 0 .. Len(s) /\ m.eo \in 0 .. Len(s) /\ m.so <= m.eo
      /\ SubSeq(s, m.so + 1, m.eo) \in pattern
  BY <1>1 DEF AllMatches
<1>3. <<>> \notin pattern => m.eo > 0
  <2> DEFINE so == m.so
             eo == m.eo
  <2>1. so \in Nat /\ eo \in Nat /\ so <= eo /\ SubSeq(s, so + 1, eo) \in pattern
    BY <1>2
  <2> HIDE DEF so, eo
  <2>2. eo = 0 => SubSeq(s, so + 1, eo) = <<>>
    BY <2>1
  <2>3. <<>> \notin pattern => eo # 0
    BY <2>1, <2>2, Zenon
  <2> QED
    BY <2>1, <2>3 DEF eo
<1>4. /\ SubSeq(s, m.eo + 1, Len(s)) \in Seq(Char)
      /\ Len(SubSeq(s, m.eo + 1, Len(s))) = Len(s) - m.eo
  <2> DEFINE k == m.eo
  <2>1. k \in 0 .. Len(s)
    BY <1>2
  <2> HIDE DEF k
  <2>2. /\ SubSeq(s, k + 1, Len(s)) \in Seq(Char)
        /\ Len(SubSeq(s, k + 1, Len(s))) = Len(s) - k
    BY <2>1
  <2> QED
    BY <2>2 DEF k
<1> QED
  BY <1>2, <1>3, <1>4

-----------------------------------------------------------------------------
LEMMA SplitInitInv == SplitInit => SplitInv
<1> SUFFICES ASSUME SplitInit PROVE SplitInv
  OBVIOUS
<1>1. request.buffer \in Seq(Char)
  BY SplitRequestAssumption DEF SplitInit
<1>2. frames \in Seq(Seq(Char)) /\ Len(frames) = 1 /\ Buffer = request.buffer
  BY <1>1 DEF SplitInit, Buffer
<1> QED
  BY <1>1, <1>2 DEF SplitInit, SplitInv, SplitTypeOK, TextShrinks, TextFits,
     OneExpression, WaitingCallsHoldAFrame

LEMMA SplitStepInv == SplitInv /\ [SplitNext]_splitVars => SplitInv'
<1> SUFFICES ASSUME SplitInv, [SplitNext]_splitVars PROVE SplitInv'
  OBVIOUS
<1> USE FrameAssumption
<1>1. /\ request.buffer \in Seq(Char)
      /\ splitPc # "done" => /\ Buffer \in Seq(Char)
                             /\ Len(frames) \in Nat \ {0}
  BY SplitRequestAssumption DEF SplitInv, SplitTypeOK, Buffer
<1>2. CASE Enter
  BY <1>1, <1>2 DEF Enter, SplitInv, SplitTypeOK, TextShrinks, TextFits, Buffer,
     OneExpression, WaitingCallsHoldAFrame
<1>3. CASE SplitAtMatch
  <2> DEFINE rest == Behind(Regexec(request.pattern, Buffer))
  <2>1. /\ rest \in Seq(Char) /\ Len(rest) <= Len(Buffer)
        /\ <<>> \notin request.pattern => Len(rest) < Len(Buffer)
    BY <1>1, <1>3, BehindIsShorter DEF SplitAtMatch, Behind
  <2>2. /\ frames' = Append(frames, rest)
        /\ splitPc = "match" /\ splitPc' = "call"
        /\ compiled' = compiled - 1 /\ request' = request
    BY <1>3 DEF SplitAtMatch, Regfree
  <2> HIDE DEF rest
  <2>3. /\ frames' \in Seq(Seq(Char)) /\ frames' # <<>>
        /\ Len(frames') = Len(frames) + 1 /\ Buffer' = rest
    <3>1. frames \in Seq(Seq(Char))
      BY DEF SplitInv, SplitTypeOK
    <3>2. \A f \in Seq(Seq(Char)), b \in Seq(Char) :
            /\ Append(f, b) \in Seq(Seq(Char))
            /\ Len(Append(f, b)) = Len(f) + 1
            /\ Append(f, b)[Len(f) + 1] = b
      OBVIOUS
    <3> QED
      BY <1>1, <2>1, <2>2, <3>1, <3>2 DEF Buffer
  <2>4. SplitTypeOK' /\ OneExpression'
    BY <2>2, <2>3 DEF SplitInv, SplitTypeOK, OneExpression
  <2>5. TextShrinks' /\ TextFits'
    BY <1>1, <2>1, <2>2, <2>3 DEF SplitInv, TextShrinks, TextFits
  <2>6. WaitingCallsHoldAFrame'
    BY <2>2, <2>4 DEF WaitingCallsHoldAFrame, OneExpression
  <2> QED
    BY <2>4, <2>5, <2>6 DEF SplitInv
<1>4. CASE PrintRest
  BY <1>1, <1>4 DEF PrintRest, Regfree, SplitInv, SplitTypeOK, TextShrinks,
     TextFits, OneExpression, WaitingCallsHoldAFrame
<1>5. CASE SplitReturn
  <2>1. /\ frames' \in Seq(Seq(Char))
        /\ Len(frames) # 1 => frames' # <<>>
    <3> DEFINE n == Len(frames) - 1
    <3>1. frames \in Seq(Seq(Char)) /\ frames' = SubSeq(frames, 1, n)
      BY <1>5 DEF SplitReturn, SplitInv, SplitTypeOK
    <3>2. n \in Nat /\ n <= Len(frames)
      BY <1>1, <1>5 DEF SplitReturn
    <3> HIDE DEF n
    <3>3. /\ SubSeq(frames, 1, n) \in Seq(Seq(Char))
          /\ Len(SubSeq(frames, 1, n)) = n
      BY <3>1, <3>2
    <3>4. Len(frames) # 1 => n # 0
      BY <1>1, <1>5 DEF SplitReturn, n
    <3> QED
      BY <3>1, <3>3, <3>4
  <2> QED
    BY <2>1, <1>5 DEF SplitReturn, SplitInv, SplitTypeOK, TextShrinks, TextFits,
       OneExpression, WaitingCallsHoldAFrame
<1>6. CASE UNCHANGED splitVars
  BY <1>6 DEF splitVars, SplitInv, SplitTypeOK, TextShrinks, TextFits, Buffer,
     OneExpression, WaitingCallsHoldAFrame
<1> QED
  BY <1>2, <1>3, <1>4, <1>5, <1>6 DEF SplitNext

-----------------------------------------------------------------------------
\* Every state of resplit has the types of its variables.
THEOREM SplitTypeCorrect == SplitSpec => []SplitTypeOK
<1>1. SplitInv => SplitTypeOK
  BY DEF SplitInv
<1> QED
  BY <1>1, SplitInitInv, SplitStepInv, PTL DEF SplitSpec

\* A waiting call holds no expression, and the recursion of resplit (lines 31-43)
\* runs out of stack only on long texts or on patterns with an empty match.
THEOREM RecursionIsBounded == SplitSpec => []WaitingCallsHoldAFrame
<1>1. SplitInv => WaitingCallsHoldAFrame
  BY DEF SplitInv
<1> QED
  BY <1>1, SplitInitInv, SplitStepInv, PTL DEF SplitSpec

-----------------------------------------------------------------------------
(* resub                                                                     *)

\* What lies behind an offset of a text, and that going on inside of it is the
\* same as going on in the text.
LEMMA Offsets ==
    ASSUME NEW s \in Seq(Char), NEW offset \in 0 .. Len(s)
    PROVE  /\ SubSeq(s, offset + 1, Len(s)) \in Seq(Char)
           /\ Len(SubSeq(s, offset + 1, Len(s))) = Len(s) - offset
           /\ offset = 0 => SubSeq(s, offset + 1, Len(s)) = s
<1>1. SubSeq(s, 1, Len(s)) = s
  OBVIOUS
<1>2. offset = 0 => SubSeq(s, offset + 1, Len(s)) = s
  <2>1. 0 + 1 = 1
    OBVIOUS
  <2> QED
    BY <1>1, <2>1
<1> DEFINE m == offset + 1
<1>3. m \in Nat /\ m >= 1 /\ m <= Len(s) + 1 /\ Len(s) \in Nat /\ Len(s) - m + 1 = Len(s) - offset
  OBVIOUS
<1> HIDE DEF m
<1>4. SubSeq(s, m, Len(s)) \in Seq(Char)
  BY <1>3
<1>5. Len(SubSeq(s, m, Len(s))) = Len(s) - m + 1
  BY <1>3
<1> QED
  BY <1>2, <1>3, <1>4, <1>5 DEF m

\* What a step appends to results fits, or the step is undefined.
LEMMA AppendsText ==
    ASSUME results \in Seq(Char), Len(results) < ResultsSize, NEW text \in Seq(Char),
           NEW next, AppendToResults(text, next)
    PROVE  /\ results' \in Seq(Char) /\ Len(results') < ResultsSize
           /\ pc' \in {next, "undefined"}
<1>1. (results \o text) \in Seq(Char) /\ Len(results \o text) = Len(results) + Len(text)
  OBVIOUS
<1> QED
  BY <1>1 DEF AppendToResults

LEMMA ResubStep == TypeOK /\ [Next]_vars => TypeOK'
<1> SUFFICES ASSUME TypeOK, [Next]_vars PROVE TypeOK'
  OBVIOUS
<1> USE SizeAssumption
<1>1. call.buffer \in Seq(Char) /\ call.replacement \in Seq(Char)
  BY RequestAssumption DEF TypeOK
<1>2. CASE Clear
  BY <1>2 DEF Clear, TypeOK, From
<1>3. ASSUME NEW req \in Request, Call(req) PROVE TypeOK'
  <2>1. req.buffer \in Seq(Char) /\ 0 \in 0 .. Len(req.buffer)
    BY RequestAssumption
  <2>2. SubSeq(req.buffer, 0 + 1, Len(req.buffer)) = req.buffer
    BY <2>1, Offsets
  <2> QED
    BY <1>3, <2>1, <2>2 DEF Call, TypeOK, From
<1>4. CASE ReplaceMatch
  <2> DEFINE m == Regexec(call.pattern, current_buffer)
             offset == current_offset + m.eo
  <2>1. /\ pc = "loop" /\ current_buffer = From(current_offset)
        /\ current_offset \in 0 .. Len(call.buffer)
        /\ Found(call.pattern, current_buffer)
        /\ results \in Seq(Char) /\ Len(results) < ResultsSize
    BY <1>4 DEF ReplaceMatch, TypeOK
  <2>2. /\ current_buffer \in Seq(Char)
        /\ Len(current_buffer) = Len(call.buffer) - current_offset
    BY <1>1, <2>1, Offsets DEF From
  <2>3. m \in AllMatches(call.pattern, current_buffer)
    BY <2>1, <2>2, RegexecFindsAMatch
  <2>4. m.so \in 0 .. Len(current_buffer) /\ m.eo \in 0 .. Len(current_buffer)
    BY <2>3 DEF AllMatches
  <2>5. AppendToResults(UpToMatch(m), "loop")
    BY <1>4 DEF ReplaceMatch
  <2>6. /\ current_offset' = offset /\ current_buffer' = From(offset)
        /\ UNCHANGED <<call, calls>>
    BY <1>4 DEF ReplaceMatch, BehindMatch, Copied
  <2> HIDE DEF m
  <2>7. offset \in 0 .. Len(call.buffer)
    BY <1>1, <2>1, <2>2, <2>4
  <2>8. UpToMatch(m) \in Seq(Char)
    <3> DEFINE so == m.so
    <3>1. so \in 0 .. Len(current_buffer)
      BY <2>4
    <3> HIDE DEF so
    <3>2. SubSeq(current_buffer, 1, so) \in Seq(Char)
      BY <2>2, <3>1
    <3> QED
      BY <1>1, <3>2 DEF UpToMatch, so
  <2> HIDE DEF offset
  <2>9. /\ results' \in Seq(Char) /\ Len(results') < ResultsSize
        /\ pc' \in {"loop", "undefined"}
    BY <2>1, <2>5, <2>8, AppendsText
  <2> QED
    BY <2>6, <2>7, <2>9 DEF TypeOK, From
<1>5. CASE AppendRest
  <2>1. /\ pc = "loop" /\ current_buffer = From(current_offset)
        /\ results \in Seq(Char) /\ Len(results) < ResultsSize
        /\ AppendToResults(current_buffer, "idle")
        /\ UNCHANGED <<call, current_offset, current_buffer, calls>>
    BY <1>5 DEF AppendRest, TypeOK
  <2>2. current_buffer \in Seq(Char)
    BY <1>1, <2>1, Offsets DEF From, TypeOK
  <2>3. /\ results' \in Seq(Char) /\ Len(results') < ResultsSize
        /\ pc' \in {"idle", "undefined"}
    BY <2>1, <2>2, AppendsText
  <2> QED
    BY <2>1, <2>3 DEF TypeOK, From
<1>6. CASE Return
  BY <1>6 DEF Return, TypeOK, From
<1>7. CASE UNCHANGED vars
  BY <1>7 DEF vars, TypeOK, From
<1> QED
  BY <1>2, <1>3, <1>4, <1>5, <1>6, <1>7 DEF Next

\* resub never reads behind its buffer: its offset stays inside, its copy is the
\* buffer from there, and what results holds fits (lines 26-39).
THEOREM OffsetStaysInside == Spec => []TypeOK
<1>1. Init => TypeOK
  BY SizeAssumption, RequestAssumption DEF Init, TypeOK
<1> QED
  BY <1>1, ResubStep, PTL DEF Spec

-----------------------------------------------------------------------------
(* resub implements GlobalReplace                                            *)

LEMMA SameRegexec ==
    /\ \A pattern, text : Abstract!Found(pattern, text) <=> Found(pattern, text)
    /\ \A pattern, text : Abstract!Regexec(pattern, text) = Regexec(pattern, text)
BY DEF Abstract!Found, Found, Abstract!Regexec, Regexec, Abstract!AllMatches, AllMatches

After(req, k) == SubSeq(req.buffer, k + 1, Len(req.buffer))
MatchAfter(req, k) == Regexec(req.pattern, After(req, k))
NoMatch(req, k) == k = Len(req.buffer) \/ ~Found(req.pattern, After(req, k))

LEMMA ReplacedAfter ==
    ASSUME NEW req, req.buffer \in Seq(Char),
           \A k \in 0 .. Len(req.buffer) : ~NoMatch(req, k) =>
               MatchAfter(req, k).eo \in 0 .. Len(req.buffer) - k
    PROVE  \A k \in 0 .. Len(req.buffer) :
             Abstract!ReplacedFrom(req)[k] =
               IF NoMatch(req, k) THEN {After(req, k)}
               ELSE IF MatchAfter(req, k).eo = 0 THEN {}
               ELSE {SubSeq(After(req, k), 1, MatchAfter(req, k).so) \o req.replacement \o t :
                        t \in Abstract!ReplacedFrom(req)[k + MatchAfter(req, k).eo]}
<1> DEFINE n == Len(req.buffer)
           Last == {k \in 0 .. n : NoMatch(req, k) \/ MatchAfter(req, k).eo = 0}
           base == [k \in 0 .. n |-> IF NoMatch(req, k) THEN {After(req, k)} ELSE {}]
           prefix == [k \in 0 .. n |-> SubSeq(After(req, k), 1, MatchAfter(req, k).so) \o req.replacement]
           next == [k \in 0 .. n |-> k + MatchAfter(req, k).eo]
           Body(k, f) == IF NoMatch(req, k) THEN {After(req, k)}
               ELSE IF MatchAfter(req, k).eo = 0 THEN {}
               ELSE {SubSeq(After(req, k), 1, MatchAfter(req, k).so) \o req.replacement \o t :
                        t \in f[k + MatchAfter(req, k).eo]}
<1>1. n \in Nat
  OBVIOUS
<1>2. ASSUME NEW k \in 0 .. n, k \notin Last PROVE next[k] \in k + 1 .. n
  <2>1. ~NoMatch(req, k) /\ MatchAfter(req, k).eo \in 1 .. n - k
    BY <1>2
  <2> HIDE DEF n
  <2> QED
    BY <2>1, <1>1
<1>3. PICK f : FromAbove(n, Last, base, prefix, next, f)
  <2> HIDE DEF n, Last, base, prefix, next
  <2> QED
    BY <1>1, <1>2, RecursionFromAbove
<1>4. f = [k \in 0 .. n |-> Body(k, f)]
  <2>1. ASSUME NEW k \in 0 .. n
        PROVE  (IF k \in Last THEN base[k] ELSE {prefix[k] \o t : t \in f[next[k]]}) = Body(k, f)
    <3> HIDE DEF n
    <3> QED OBVIOUS
  <2> HIDE DEF Body, Last, base, prefix, next
  <2> QED
    BY <1>3, <2>1 DEF FromAbove
<1>5. Abstract!ReplacedFrom(req) = CHOOSE g : g = [k \in 0 .. n |-> Body(k, g)]
  BY Zenon DEF Abstract!ReplacedFrom, After, MatchAfter, NoMatch, Abstract!Found, Found, Abstract!Regexec, Regexec, Abstract!AllMatches, AllMatches
<1> DEFINE r == Abstract!ReplacedFrom(req)
<1>6. r = [k \in 0 .. n |-> Body(k, r)]
  <2> HIDE DEF Body, r
  <2>1. r = CHOOSE g : g = [k \in 0 .. n |-> Body(k, g)]
    BY <1>5 DEF r
  <2> QED
    BY <1>4, <2>1
<1> HIDE DEF r
<1>7. \A k \in 0 .. n : r[k] = Body(k, r)
  <2> HIDE DEF Body
  <2> QED BY <1>6
<1> QED
  BY <1>7 DEF r

\* A match behind k characters lies behind them.
LEMMA MatchesAfter ==
    ASSUME NEW req \in Request, NEW k \in 0 .. Len(req.buffer)
    PROVE  /\ After(req, k) \in Seq(Char) /\ Len(After(req, k)) = Len(req.buffer) - k
           /\ ~NoMatch(req, k) =>
                 /\ MatchAfter(req, k).so \in 0 .. Len(req.buffer) - k
                 /\ MatchAfter(req, k).eo \in 0 .. Len(req.buffer) - k
                 /\ SubSeq(After(req, k), 1, MatchAfter(req, k).so) \o req.replacement \in Seq(Char)
<1>1. req.buffer \in Seq(Char) /\ req.replacement \in Seq(Char)
  BY RequestAssumption
<1>2. After(req, k) \in Seq(Char) /\ Len(After(req, k)) = Len(req.buffer) - k
  BY <1>1, Offsets DEF After
<1>3. ASSUME ~NoMatch(req, k)
      PROVE  /\ MatchAfter(req, k).so \in 0 .. Len(req.buffer) - k
             /\ MatchAfter(req, k).eo \in 0 .. Len(req.buffer) - k
  <2>1. Found(req.pattern, After(req, k)) /\ Len(After(req, k)) \in Nat
    BY <1>2, <1>3 DEF NoMatch
  <2>2. MatchAfter(req, k) \in AllMatches(req.pattern, After(req, k))
    BY <2>1, RegexecFindsAMatch DEF MatchAfter
  <2> QED
    BY <1>2, <2>2 DEF AllMatches
<1>4. ASSUME ~NoMatch(req, k)
      PROVE  SubSeq(After(req, k), 1, MatchAfter(req, k).so) \o req.replacement \in Seq(Char)
  <2> DEFINE so == MatchAfter(req, k).so
             rest == After(req, k)
  <2>1. so \in 0 .. Len(rest) /\ rest \in Seq(Char)
    BY <1>2, <1>3, <1>4
  <2> HIDE DEF so, rest
  <2>2. SubSeq(rest, 1, so) \in Seq(Char)
    BY <2>1
  <2>3. SubSeq(rest, 1, so) \o req.replacement \in Seq(Char)
    BY <1>1, <2>2
  <2> QED
    BY <2>3 DEF so, rest
<1> QED
  BY <1>2, <1>3, <1>4

\* What is replaced behind k characters is text.
LEMMA ReplacedIsText ==
    ASSUME NEW req \in Request
    PROVE  \A k \in 0 .. Len(req.buffer) : Abstract!ReplacedFrom(req)[k] \subseteq Seq(Char)
<1> DEFINE n == Len(req.buffer)
           R == Abstract!ReplacedFrom(req)
           T == {d \in 0 .. n : \A k \in n - d .. n : R[k] \subseteq Seq(Char)}
<1>1. req.buffer \in Seq(Char) /\ n \in Nat
  BY RequestAssumption
<1>2. \A k \in 0 .. n : R[k] =
               IF NoMatch(req, k) THEN {After(req, k)}
               ELSE IF MatchAfter(req, k).eo = 0 THEN {}
               ELSE {SubSeq(After(req, k), 1, MatchAfter(req, k).so) \o req.replacement \o t :
                        t \in R[k + MatchAfter(req, k).eo]}
  <2>1. \A k \in 0 .. n : ~NoMatch(req, k) => MatchAfter(req, k).eo \in 0 .. n - k
    BY MatchesAfter
  <2> QED
    BY <1>1, <2>1, ReplacedAfter
<1> HIDE DEF R
<1>3. ASSUME NEW k \in 0 .. n, \A l \in k + 1 .. n : R[l] \subseteq Seq(Char)
      PROVE  R[k] \subseteq Seq(Char)
  <2> DEFINE m == MatchAfter(req, k)
             p == SubSeq(After(req, k), 1, m.so) \o req.replacement
  <2>1. CASE NoMatch(req, k)
    <3>1. After(req, k) \in Seq(Char)
      BY MatchesAfter
    <3>2. R[k] = {After(req, k)}
      BY <1>2, <2>1
    <3> QED
      BY <3>1, <3>2
  <2>2. CASE ~NoMatch(req, k) /\ m.eo = 0
    BY <1>2, <2>2
  <2>3. CASE ~NoMatch(req, k) /\ m.eo # 0
    <3>1. m.eo \in 0 .. n - k /\ p \in Seq(Char)
      BY <2>3, MatchesAfter
    <3>2. k + m.eo \in k + 1 .. n
      BY <1>1, <2>3, <3>1
    <3>3. R[k] = {p \o t : t \in R[k + m.eo]}
      BY <1>2, <2>3
    <3>4. R[k + m.eo] \subseteq Seq(Char)
      BY <1>3, <3>2
    <3> HIDE DEF m, p
    <3>5. \A t \in R[k + m.eo] : p \o t \in Seq(Char)
      BY <3>1, <3>4
    <3> QED
      BY <3>3, <3>5
  <2> QED
    BY <2>1, <2>2, <2>3
<1>4. 0 \in T
  <2>1. \A l \in n + 1 .. n : R[l] \subseteq Seq(Char)
    BY <1>1
  <2>2. \A k \in n - 0 .. n : k = n
    BY <1>1
  <2>3. R[n] \subseteq Seq(Char)
    BY <1>1, <1>3, <2>1
  <2> QED
    BY <1>1, <2>2, <2>3
<1>5. ASSUME NEW d \in 0 .. n - 1, d \in T PROVE d + 1 \in T
  <2> DEFINE j == n - (d + 1)
  <2>1. j \in 0 .. n /\ \A l \in j + 1 .. n : l \in n - d .. n
    BY <1>1
  <2>2. \A l \in j + 1 .. n : R[l] \subseteq Seq(Char)
    BY <1>5, <2>1
  <2>3. R[j] \subseteq Seq(Char)
    BY <1>3, <2>1, <2>2
  <2>4. \A l \in j .. n : l = j \/ l \in j + 1 .. n
    BY <1>1
  <2> QED
    BY <1>1, <2>2, <2>3, <2>4
<1> HIDE DEF T
<1>6. n \in T
  <2> HIDE DEF n
  <2>1. \A d \in 0 .. n - 1 : d \in T => d + 1 \in T
    BY <1>5
  <2>2. \A d \in 0 .. n : d \in T
    BY <1>1, <1>4, <2>1, CountUp, Zenon
  <2> QED
    BY <1>1, <2>2
<1>7. \A k \in n - n .. n : R[k] \subseteq Seq(Char)
  BY <1>6 DEF T
<1> QED
  BY <1>1, <1>7 DEF R

\* What a call has appended so far, and what is left to replace, make up what it
\* was called for.
Progress ==
    /\ before \in Seq(Char)
    /\ pc = "loop" =>
         \E u \in Seq(Char) :
            /\ results = before \o u
            /\ Abstract!Replaced(call) =
                  {u \o t : t \in Abstract!ReplacedFrom(call)[current_offset]}

RefinementInv == TypeOK /\ Progress /\ UndefinedOnlyWhenFull

\* The equations of ReplacedFrom, where the loop stands.
LEMMA LoopMatches ==
    ASSUME TypeOK, pc = "loop", current_offset < Len(call.buffer)
    PROVE  /\ call \in Request /\ call.buffer \in Seq(Char)
           /\ current_offset \in 0 .. Len(call.buffer)
           /\ current_buffer = After(call, current_offset)
           /\ Found(call.pattern, current_buffer) <=> ~NoMatch(call, current_offset)
<1>1. call \in Request /\ call.buffer \in Seq(Char) /\ current_offset \in 0 .. Len(call.buffer)
  BY RequestAssumption DEF TypeOK
<1>2. current_buffer = After(call, current_offset)
  BY DEF TypeOK, From, After
<1> QED
  BY <1>1, <1>2 DEF NoMatch

LEMMA ReplacedEquation ==
    ASSUME NEW req \in Request, NEW k \in 0 .. Len(req.buffer)
    PROVE  Abstract!ReplacedFrom(req)[k] =
               IF NoMatch(req, k) THEN {After(req, k)}
               ELSE IF MatchAfter(req, k).eo = 0 THEN {}
               ELSE {SubSeq(After(req, k), 1, MatchAfter(req, k).so) \o req.replacement \o t :
                        t \in Abstract!ReplacedFrom(req)[k + MatchAfter(req, k).eo]}
<1>1. req.buffer \in Seq(Char)
  BY RequestAssumption
<1>2. \A j \in 0 .. Len(req.buffer) : ~NoMatch(req, j) => MatchAfter(req, j).eo \in 0 .. Len(req.buffer) - j
  BY MatchesAfter
<1> QED
  BY <1>1, <1>2, ReplacedAfter

\* A longer first part.
LEMMA PrefixGrows ==
    ASSUME NEW u \in Seq(Char), NEW p \in Seq(Char), NEW T \in SUBSET Seq(Char)
    PROVE  {u \o t : t \in {p \o r : r \in T}} = {(u \o p) \o r : r \in T}
<1>1. \A r \in T : u \o (p \o r) = (u \o p) \o r
  BY ConcatAssociative
<1> DEFINE A == {u \o t : t \in {p \o r : r \in T}}
           B == {(u \o p) \o r : r \in T}
<1>2. ASSUME NEW x \in A PROVE x \in B
  <2>1. PICK r \in T : x = u \o (p \o r)
    OBVIOUS
  <2> QED
    BY <1>1, <2>1
<1>3. ASSUME NEW x \in B PROVE x \in A
  <2>1. PICK r \in T : x = (u \o p) \o r
    OBVIOUS
  <2>2. x = u \o (p \o r) /\ p \o r \in {p \o q : q \in T}
    BY <1>1, <2>1
  <2> QED
    BY <2>2
<1> HIDE DEF A, B
<1>4. A = B
  BY <1>2, <1>3
<1> QED
  BY <1>4 DEF A, B

LEMMA ReplaceMatchStep == RefinementInv /\ ReplaceMatch => Progress' /\ UndefinedOnlyWhenFull'
<1> SUFFICES ASSUME RefinementInv, ReplaceMatch PROVE Progress' /\ UndefinedOnlyWhenFull'
  OBVIOUS
<1> DEFINE k == current_offset
           m == MatchAfter(call, k)
           p == SubSeq(After(call, k), 1, m.so) \o call.replacement
           R == Abstract!ReplacedFrom(call)
<1>1. /\ pc = "loop" /\ k < Len(call.buffer) /\ Found(call.pattern, current_buffer)
      /\ UNCHANGED <<call, calls, before>> /\ before \in Seq(Char)
      /\ results \in Seq(Char)
  BY DEF RefinementInv, ReplaceMatch, Progress, TypeOK
<1>2. /\ call \in Request /\ k \in 0 .. Len(call.buffer) /\ ~NoMatch(call, k)
      /\ current_buffer = After(call, k)
  BY <1>1, LoopMatches DEF RefinementInv
<1>3. AppendToResults(p, "loop") /\ k' = k + m.eo
  BY <1>2 DEF ReplaceMatch, UpToMatch, BehindMatch, MatchAfter
<1>4. p \in Seq(Char) /\ m.eo \in 0 .. Len(call.buffer) - k
  BY <1>2, MatchesAfter
<1>5. PICK u \in Seq(Char) : results = before \o u /\ Abstract!Replaced(call) = {u \o t : t \in R[k]}
  BY <1>1 DEF RefinementInv, Progress
<1>6. R[k] = IF m.eo = 0 THEN {} ELSE {p \o t : t \in R[k + m.eo]}
  BY <1>2, ReplacedEquation
<1>7. k + m.eo \in 0 .. Len(call.buffer)
  <2>1. call.buffer \in Seq(Char)
    BY <1>2, RequestAssumption
  <2> QED
    BY <1>2, <1>4, <2>1
<1>8. R[k + m.eo] \subseteq Seq(Char)
  BY <1>2, <1>7, ReplacedIsText
<1> HIDE DEF R, p, m
<1>9. results \o p = before \o (u \o p) /\ u \o p \in Seq(Char)
  <2>1. p \in Seq(Char)
    BY <1>4
  <2>2. (before \o u) \o p = before \o (u \o p)
    BY <1>1, <2>1, ConcatAssociative
  <2>3. u \o p \in Seq(Char)
    BY <2>1
  <2> QED
    BY <1>5, <2>2, <2>3
<1>10. Abstract!Replaced(call) = {(u \o p) \o t : t \in R[k + m.eo]} \/ (m.eo = 0 /\ Abstract!Replaced(call) = {})
  <2>1. CASE m.eo = 0
    BY <1>5, <1>6, <2>1
  <2>2. CASE m.eo # 0
    <3>1. R[k] = {p \o t : t \in R[k + m.eo]}
      BY <1>6, <2>2
    <3>2. {u \o t : t \in R[k]} = {(u \o p) \o t : t \in R[k + m.eo]}
      BY <1>4, <1>5, <1>8, <3>1, PrefixGrows
    <3> QED
      BY <1>5, <3>2
  <2> QED
    BY <2>1, <2>2
<1>11. CASE Len(results \o p) < ResultsSize
  <2>1. pc' = "loop" /\ results' = before \o (u \o p)
    BY <1>3, <1>9, <1>11 DEF AppendToResults
  <2>2. m.eo = 0 => R[k + m.eo] = {}
    <3>1. k + 0 = k
      BY <1>2
    <3> QED
      BY <1>6, <3>1
  <2>3. Abstract!Replaced(call) = {(u \o p) \o t : t \in R[k + m.eo]}
    BY <1>10, <2>2
  <2>4. Abstract!Replaced(call)' = {(u \o p) \o t : t \in Abstract!ReplacedFrom(call')[k']}
    BY <1>1, <1>3, <2>3 DEF R
  <2> QED
    BY <1>1, <1>9, <2>1, <2>4 DEF Progress, UndefinedOnlyWhenFull, SomethingIsFull
<1>12. CASE ~(Len(results \o p) < ResultsSize)
  <2>1. pc' = "undefined"
    BY <1>3, <1>12 DEF AppendToResults
  <2>2. ASSUME NEW t \in R[k + m.eo] PROVE Len(before \o ((u \o p) \o t)) >= ResultsSize
    <3>1. t \in Seq(Char)
      BY <1>8
    <3>2. Len(before \o ((u \o p) \o t)) = Len(before \o (u \o p)) + Len(t)
      BY <1>1, <1>9, <3>1
    <3>3. Len(before \o (u \o p)) \in Nat /\ Len(t) \in Nat /\ ResultsSize \in Nat
      BY <1>1, <1>9, <3>1, SizeAssumption
    <3> QED
      BY <1>9, <1>12, <3>2, <3>3
  <2>3. \/ Abstract!Replaced(call) = {}
        \/ \E t \in Abstract!Replaced(call) : Len(before \o t) >= ResultsSize
    BY <1>10, <2>2
  <2> QED
    BY <1>1, <2>1, <2>3 DEF Progress, UndefinedOnlyWhenFull, SomethingIsFull
<1> QED
  BY <1>11, <1>12

\* The last text of a call, behind which no match is left: what has been appended
\* with it is the one text that may take the place of the buffer.
LEMMA LastText ==
    ASSUME RefinementInv, pc = "loop", NoMatch(call, current_offset)
    PROVE  \E u \in Seq(Char) :
              /\ results = before \o u
              /\ After(call, current_offset) \in Seq(Char)
              /\ Abstract!Replaced(call) = {u \o After(call, current_offset)}
<1> DEFINE R == Abstract!ReplacedFrom(call)
<1>1. call \in Request /\ current_offset \in 0 .. Len(call.buffer)
  BY DEF RefinementInv, TypeOK
<1>2. PICK u \in Seq(Char) : /\ results = before \o u
                             /\ Abstract!Replaced(call) = {u \o t : t \in R[current_offset]}
  BY DEF RefinementInv, Progress
<1>3. R[current_offset] = {After(call, current_offset)}
  BY <1>1, ReplacedEquation
<1>4. After(call, current_offset) \in Seq(Char)
  BY <1>1, MatchesAfter
<1> QED
  BY <1>2, <1>3, <1>4

LEMMA CallStep ==
    ASSUME RefinementInv, NEW req \in Request, Call(req)
    PROVE  Progress' /\ UndefinedOnlyWhenFull' /\ UNCHANGED Seen
<1> DEFINE R == Abstract!ReplacedFrom(req)[0]
<1>1. /\ pc = "idle" /\ call' = req /\ before' = results /\ results' = results
      /\ current_offset' = 0 /\ pc' \in {"loop", "undefined"}
      /\ pc' = "undefined" => Len(req.buffer) >= BufferSize
      /\ results \in Seq(Char)
  <2>1. req.buffer \in Seq(Char)
    BY RequestAssumption
  <2> QED
    BY <2>1, SizeAssumption DEF Call, RefinementInv, TypeOK
<1>2. R \subseteq Seq(Char)
  <2>1. 0 \in 0 .. Len(req.buffer)
    BY RequestAssumption
  <2> QED
    BY <2>1, ReplacedIsText
<1>3. {<<>> \o t : t \in R} = R
  <2> HIDE DEF R
  <2>1. \A t \in R : <<>> \o t = t
    BY <1>2
  <2> QED
    BY <2>1
<1>4. <<>> \in Seq(Char) /\ results = results \o <<>>
  BY <1>1
<1>5. Abstract!Replaced(req) = {<<>> \o t : t \in R}
  BY <1>3 DEF Abstract!Replaced
<1>6. Progress'
  BY <1>1, <1>4, <1>5 DEF Progress
<1> QED
  BY <1>1, <1>6 DEF UndefinedOnlyWhenFull, SomethingIsFull, Seen

LEMMA AppendRestStep ==
    ASSUME RefinementInv, AppendRest
    PROVE  Progress' /\ UndefinedOnlyWhenFull' /\ [Abstract!Next]_Seen
<1> DEFINE text == After(call, current_offset)
<1>1. /\ pc = "loop" /\ UNCHANGED <<call, calls, before>>
      /\ before \in Seq(Char) /\ results \in Seq(Char) /\ call \in Request
  BY DEF AppendRest, RefinementInv, Progress, TypeOK
<1>2. NoMatch(call, current_offset) /\ AppendToResults(text, "idle")
  BY LoopMatches DEF AppendRest, RefinementInv
<1>3. PICK u \in Seq(Char) : /\ results = before \o u /\ text \in Seq(Char)
                             /\ Abstract!Replaced(call) = {u \o text}
  BY <1>1, <1>2, LastText
<1> HIDE DEF text
<1>4. results \o text = before \o (u \o text)
  BY <1>1, <1>3, ConcatAssociative
<1>5. CASE Len(results \o text) < ResultsSize
  <2>1. pc' = "idle" /\ results' = before \o (u \o text)
    BY <1>2, <1>4, <1>5 DEF AppendToResults
  <2>2. Abstract!Resub(call)
    BY <1>1, <1>3, <2>1 DEF Abstract!Resub, Seen
  <2> QED
    BY <1>1, <2>1, <2>2 DEF Progress, UndefinedOnlyWhenFull, SomethingIsFull, Abstract!Next
<1>6. CASE ~(Len(results \o text) < ResultsSize)
  <2>1. pc' = "undefined" /\ results' = results
    BY <1>2, <1>6 DEF AppendToResults
  <2>2. Len(before \o (u \o text)) >= ResultsSize
    <3>1. Len(results \o text) \in Nat
      BY <1>1, <1>3
    <3> QED
      BY <3>1, <1>4, <1>6, SizeAssumption
  <2>3. Abstract!Replaced(call)' = {u \o text}
    BY <1>1, <1>3
  <2> QED
    BY <1>1, <2>1, <2>2, <2>3 DEF Progress, UndefinedOnlyWhenFull, SomethingIsFull, Seen
<1> QED
  BY <1>5, <1>6

LEMMA ReturnStep ==
    ASSUME RefinementInv, Return
    PROVE  Progress' /\ UndefinedOnlyWhenFull' /\ Abstract!Next
<1> DEFINE n == Len(call.buffer)
<1>1. /\ pc = "loop" /\ pc' = "idle" /\ UNCHANGED <<call, before, results>>
      /\ before \in Seq(Char) /\ call \in Request
  BY DEF Return, RefinementInv, Progress, TypeOK
<1>2. current_offset = n /\ n \in Nat
  BY RequestAssumption DEF Return, RefinementInv, TypeOK
<1>3. NoMatch(call, current_offset) /\ After(call, current_offset) = <<>>
  <2>1. Len(After(call, n)) = 0 /\ After(call, n) \in Seq(Char)
    BY <1>1, <1>2, MatchesAfter
  <2>2. After(call, n) = <<>>
    BY <2>1
  <2> QED
    BY <1>2, <2>2 DEF NoMatch
<1>4. PICK u \in Seq(Char) : results = before \o u /\ Abstract!Replaced(call) = {u \o <<>>}
  BY <1>1, <1>3, LastText
<1>5. u \o <<>> = u
  OBVIOUS
<1>6. Abstract!Resub(call)
  BY <1>1, <1>4, <1>5 DEF Abstract!Resub, Seen
<1> QED
  BY <1>1, <1>6 DEF Progress, UndefinedOnlyWhenFull, SomethingIsFull, Abstract!Next

LEMMA RefinementInit == Init => RefinementInv /\ Abstract!Init
<1> SUFFICES ASSUME Init PROVE RefinementInv /\ Abstract!Init
  OBVIOUS
<1>1. TypeOK
  BY SizeAssumption, RequestAssumption DEF Init, TypeOK
<1>2. Progress /\ UndefinedOnlyWhenFull
  BY DEF Init, Progress, UndefinedOnlyWhenFull, SomethingIsFull
<1> QED
  BY <1>1, <1>2 DEF RefinementInv, Init, Abstract!Init, Seen

LEMMA RefinementStep == RefinementInv /\ [Next]_vars => RefinementInv' /\ [Abstract!Next]_Seen
<1> SUFFICES ASSUME RefinementInv, [Next]_vars
             PROVE  Progress' /\ UndefinedOnlyWhenFull' /\ [Abstract!Next]_Seen
  BY ResubStep DEF RefinementInv
<1>1. CASE Clear
  <2>1. Progress' /\ UndefinedOnlyWhenFull'
    BY <1>1 DEF Clear, Progress, UndefinedOnlyWhenFull, SomethingIsFull
  <2> QED
    BY <1>1, <2>1 DEF Clear, Seen, Abstract!Next, Abstract!Clear
<1>2. ASSUME NEW req \in Request, Call(req)
      PROVE  Progress' /\ UndefinedOnlyWhenFull' /\ UNCHANGED Seen
  BY <1>2, CallStep
<1>3. CASE ReplaceMatch
  <2>1. pc = "loop" /\ pc' \in {"loop", "undefined"} /\ before' = before
    BY <1>3 DEF ReplaceMatch, AppendToResults
  <2> QED
    BY <1>3, <2>1, ReplaceMatchStep DEF Seen
<1>4. CASE AppendRest
  BY <1>4, AppendRestStep
<1>5. CASE Return
  BY <1>5, ReturnStep
<1>6. CASE UNCHANGED vars
  <2>1. Abstract!Replaced(call)' = Abstract!Replaced(call)
    BY <1>6 DEF vars
  <2>2. Progress'
    BY <1>6, <2>1 DEF vars, Progress, RefinementInv
  <2>3. UndefinedOnlyWhenFull'
    BY <1>6, <2>1 DEF vars, UndefinedOnlyWhenFull, SomethingIsFull, RefinementInv
  <2> QED
    BY <1>6, <2>2, <2>3 DEF vars, Seen
<1> QED
  BY <1>1, <1>2, <1>3, <1>4, <1>5, <1>6 DEF Next

\* resub (lines 17-41) implements, for every buffer, pattern and replacement, the
\* replacement of every match in one step of its caller.
THEOREM ReplacesAll == Spec => ReplacesEveryMatch
BY RefinementInit, RefinementStep, PTL DEF Spec, ReplacesEveryMatch, Abstract!Spec

\* A call runs past results or its copy of the buffer (lines 10, 19) only when the
\* buffer or the replaced text does not fit, or an empty match keeps it going: the
\* safety part of ReturnsUnlessFullOrStuck.
THEOREM FullBeforeUndefined == Spec => []UndefinedOnlyWhenFull
<1>1. RefinementInv => UndefinedOnlyWhenFull
  BY DEF RefinementInv
<1> QED
  BY <1>1, RefinementInit, RefinementStep, PTL DEF Spec

-----------------------------------------------------------------------------
(* The pieces of resplit                                                     *)

\* The equation Ends is defined by.
IsEnds(req, items, n, f) ==
    f = [k \in 0 .. n |-> IF k = 0 THEN {0}
                          ELSE UNION {EndsOf(req, items[k], offset) : offset \in f[k - 1]}]

LEMMA EndsExist ==
    ASSUME NEW req, NEW items, NEW n \in Nat
    PROVE  \E f : IsEnds(req, items, n, f)
<1> DEFINE T == {d \in 0 .. n : \E f : IsEnds(req, items, d, f)}
           Value(k, f) == IF k = 0 THEN {0}
                          ELSE UNION {EndsOf(req, items[k], offset) : offset \in f[k - 1]}
<1>1. 0 \in T
  <2>1. IsEnds(req, items, 0, [k \in 0 .. 0 |-> {0}])
    BY DEF IsEnds
  <2> QED
    BY <2>1
<1>2. ASSUME NEW d \in 0 .. n - 1, d \in T PROVE d + 1 \in T
  <2>1. PICK f : IsEnds(req, items, d, f)
    BY <1>2
  <2> DEFINE g == [k \in 0 .. d + 1 |-> IF k = d + 1 THEN Value(k, f) ELSE f[k]]
  <2>2. \A k \in 0 .. d + 1 : Value(k, g) = Value(k, f)
    <3> SUFFICES ASSUME NEW k \in 0 .. d + 1, k # 0 PROVE g[k - 1] = f[k - 1]
      OBVIOUS
    <3>1. k - 1 \in 0 .. d + 1 /\ k - 1 # d + 1
      OBVIOUS
    <3> HIDE DEF Value
    <3> QED
      BY <3>1
  <2>3. \A k \in 0 .. d : f[k] = Value(k, f)
    BY <2>1 DEF IsEnds
  <2>4. \A k \in 0 .. d + 1 : g[k] = Value(k, f)
    <3> HIDE DEF Value
    <3> QED
      BY <2>3
  <2>5. g = [k \in 0 .. d + 1 |-> Value(k, g)]
    <3> HIDE DEF Value
    <3> QED
      BY <2>2, <2>4
  <2>6. IsEnds(req, items, d + 1, g)
    <3> HIDE DEF g
    <3> QED
      BY <2>5 DEF IsEnds
  <2> HIDE DEF g
  <2> QED
    BY <2>6
<1> HIDE DEF T
<1>3. n \in T
  <2>1. \A d \in 0 .. n : d \in T
    BY <1>1, <1>2, CountUp
  <2> QED
    BY <2>1
<1> QED
  BY <1>3 DEF T

LEMMA EndsEquation ==
    ASSUME NEW req, NEW items, Len(items) \in Nat
    PROVE  /\ Ends(req, items)[0] = {0}
           /\ \A k \in 1 .. Len(items) :
                 Ends(req, items)[k] = UNION {EndsOf(req, items[k], offset) : offset \in Ends(req, items)[k - 1]}
<1> DEFINE n == Len(items)
           E == Ends(req, items)
<1>1. E = CHOOSE f : IsEnds(req, items, n, f)
  BY Zenon DEF Ends, IsEnds
<1>2. IsEnds(req, items, n, E)
  BY <1>1, EndsExist
<1> HIDE DEF E
<1>3. \A k \in 0 .. n : E[k] = IF k = 0 THEN {0}
                               ELSE UNION {EndsOf(req, items[k], offset) : offset \in E[k - 1]}
  BY <1>2 DEF IsEnds
<1>4. 0 \in 0 .. n /\ \A k \in 1 .. n : k \in 0 .. n /\ k # 0
  OBVIOUS
<1> QED
  BY <1>3, <1>4 DEF E

\* What the first items of a longer sequence may spell does not change.
LEMMA EndsOfFirst ==
    ASSUME NEW S, NEW req, NEW items \in Seq(S), NEW item \in S
    PROVE  LET all == Append(items, item)
           IN  /\ Len(all) = Len(items) + 1
               /\ Ends(req, all)[Len(all)] =
                     UNION {EndsOf(req, item, offset) : offset \in Ends(req, items)[Len(items)]}
<1> DEFINE n == Len(items)
           all == Append(items, item)
           T == {d \in 0 .. n : Ends(req, all)[d] = Ends(req, items)[d]}
<1>1. /\ n \in Nat /\ Len(all) = n + 1 /\ all[n + 1] = item
      /\ \A k \in 1 .. n : all[k] = items[k]
  OBVIOUS
<1> HIDE DEF all
<1>2. 0 \in T
  <2>1. Ends(req, all)[0] = Ends(req, items)[0]
    <3>1. Len(all) \in Nat /\ Len(items) \in Nat
      BY <1>1
    <3>2. Ends(req, all)[0] = {0}
      BY <3>1, EndsEquation
    <3>3. Ends(req, items)[0] = {0}
      BY <3>1, EndsEquation
    <3> QED
      BY <3>2, <3>3
  <2>2. 0 \in 0 .. n
    BY <1>1
  <2> HIDE DEF n
  <2> QED
    BY <2>1, <2>2
<1>3. ASSUME NEW d \in 0 .. n - 1, d \in T PROVE d + 1 \in T
  <2>1. /\ d + 1 \in 1 .. Len(items) /\ d + 1 \in 1 .. Len(all) /\ (d + 1) - 1 = d
        /\ all[d + 1] = items[d + 1]
    BY <1>1
  <2>2. Ends(req, all)[d + 1] = UNION {EndsOf(req, all[d + 1], offset) : offset \in Ends(req, all)[d]}
    BY <1>1, <2>1, EndsEquation
  <2>3. Ends(req, items)[d + 1] = UNION {EndsOf(req, items[d + 1], offset) : offset \in Ends(req, items)[d]}
    BY <1>1, <2>1, EndsEquation
  <2>4. Ends(req, all)[d] = Ends(req, items)[d]
    BY <1>3
  <2>5. Ends(req, all)[d + 1] = Ends(req, items)[d + 1]
    BY <2>1, <2>2, <2>3, <2>4
  <2>6. d + 1 \in 0 .. n
    BY <1>1
  <2> QED
    BY <2>5, <2>6
<1> HIDE DEF T
<1>4. n \in T
  <2>1. \A d \in 0 .. n : d \in T
    BY <1>1, <1>2, <1>3, CountUp
  <2> QED
    BY <1>1, <2>1
<1>5. n + 1 \in 1 .. Len(all) /\ (n + 1) - 1 = n
  BY <1>1
<1>6. Ends(req, all)[n + 1] = UNION {EndsOf(req, item, offset) : offset \in Ends(req, all)[n]}
  <2>1. Ends(req, all)[n + 1] =
           UNION {EndsOf(req, all[n + 1], offset) : offset \in Ends(req, all)[(n + 1) - 1]}
    BY <1>1, <1>5, EndsEquation
  <2> QED
    BY <1>1, <1>5, <2>1
<1> QED
  BY <1>1, <1>4, <1>6 DEF T, all

\* A part of what lies behind an offset is a part of the text.
LEMMA PartOfRest ==
    ASSUME NEW S, NEW s \in Seq(S), NEW offset \in 0 .. Len(s),
           NEW so \in 0 .. Len(s) - offset, NEW eo \in so .. Len(s) - offset
    PROVE  /\ SubSeq(SubSeq(s, offset + 1, Len(s)), so + 1, eo) = SubSeq(s, offset + so + 1, offset + eo)
           /\ Len(SubSeq(s, offset + so + 1, offset + eo)) = eo - so
<1> DEFINE rest == SubSeq(s, offset + 1, Len(s))
           part == SubSeq(rest, so + 1, eo)
           other == SubSeq(s, offset + so + 1, offset + eo)
<1>1. /\ Len(s) \in Nat /\ offset \in Nat /\ so \in Nat /\ eo \in Nat
      /\ so <= eo /\ eo <= Len(s) - offset
  OBVIOUS
<1>2. /\ rest \in Seq(S) /\ Len(rest) = Len(s) - offset
      /\ \A i \in 1 .. Len(s) - offset : rest[i] = s[offset + i]
  <2>1. /\ rest \in Seq(S) /\ Len(rest) = IF offset + 1 <= Len(s) THEN Len(s) - (offset + 1) + 1 ELSE 0
        /\ \A i \in 1 .. Len(s) - (offset + 1) + 1 : rest[i] = s[(offset + 1) + i - 1]
    BY <1>1, SubSeqProperties
  <2> QED
    BY <1>1, <2>1
<1> HIDE DEF rest, part, other
<1>3. /\ part \in Seq(S) /\ Len(part) = eo - so
      /\ \A i \in 1 .. eo - so : part[i] = rest[so + i]
  <2>1. /\ part \in Seq(S) /\ Len(part) = IF so + 1 <= eo THEN eo - (so + 1) + 1 ELSE 0
        /\ \A i \in 1 .. eo - (so + 1) + 1 : part[i] = rest[(so + 1) + i - 1]
    <3>1. \A i \in so + 1 .. eo : rest[i] \in S
      BY <1>1, <1>2
    <3> QED
      BY <1>1, <3>1, SubSeqProperties DEF part
  <2>2. \A i \in 1 .. eo - so : (so + 1) + i - 1 = so + i /\ i \in 1 .. eo - (so + 1) + 1
    BY <1>1
  <2>3. (IF so + 1 <= eo THEN eo - (so + 1) + 1 ELSE 0) = eo - so
    BY <1>1
  <2> QED
    BY <2>1, <2>2, <2>3
<1>4. /\ other \in Seq(S) /\ Len(other) = eo - so
      /\ \A i \in 1 .. eo - so : other[i] = s[offset + so + i]
  <2>1. /\ other \in Seq(S)
        /\ Len(other) = IF offset + so + 1 <= offset + eo THEN (offset + eo) - (offset + so + 1) + 1 ELSE 0
        /\ \A i \in 1 .. (offset + eo) - (offset + so + 1) + 1 : other[i] = s[(offset + so + 1) + i - 1]
    <3>1. \A i \in offset + so + 1 .. offset + eo : s[i] \in S
      BY <1>1
    <3> QED
      BY <1>1, <3>1, SubSeqProperties DEF other
  <2>2. \A i \in 1 .. eo - so : /\ (offset + so + 1) + i - 1 = offset + so + i
                               /\ i \in 1 .. (offset + eo) - (offset + so + 1) + 1
    BY <1>1
  <2>3. (IF offset + so + 1 <= offset + eo THEN (offset + eo) - (offset + so + 1) + 1 ELSE 0) = eo - so
    BY <1>1
  <2> QED
    BY <2>1, <2>2, <2>3
<1>5. ASSUME NEW i \in 1 .. eo - so PROVE part[i] = other[i]
  <2>1. so + i \in 1 .. Len(s) - offset /\ offset + (so + i) = offset + so + i
    BY <1>1
  <2> QED
    BY <1>2, <1>3, <1>4, <2>1
<1>6. part = other
  BY <1>3, <1>4, <1>5, SeqEqual
<1> QED
  BY <1>4, <1>6 DEF part, other, rest

LEMMA PartOfFirst ==
    ASSUME NEW S, NEW s \in Seq(S), NEW n \in 0 .. Len(s), NEW a \in 0 .. n, NEW b \in a .. n
    PROVE  SubSeq(SubSeq(s, 1, n), a + 1, b) = SubSeq(s, a + 1, b)
<1> DEFINE first == SubSeq(s, 1, n)
           part == SubSeq(first, a + 1, b)
           other == SubSeq(s, a + 1, b)
<1>1. n \in Nat /\ a \in Nat /\ b \in Nat /\ a <= b /\ b <= n /\ n <= Len(s) /\ Len(s) \in Nat
  OBVIOUS
<1>2. first \in Seq(S) /\ Len(first) = n /\ \A i \in 1 .. n : first[i] = s[i]
  BY <1>1
<1> HIDE DEF first
<1>3. /\ part \in Seq(S) /\ Len(part) = b - a
      /\ \A i \in 1 .. b - a : part[i] = first[a + i]
  BY <1>1, <1>2
<1>4. /\ other \in Seq(S) /\ Len(other) = b - a
      /\ \A i \in 1 .. b - a : other[i] = s[a + i]
  BY <1>1
<1>5. \A i \in 1 .. b - a : part[i] = other[i]
  <2> SUFFICES ASSUME NEW i \in 1 .. b - a PROVE part[i] = other[i]
    OBVIOUS
  <2>1. a + i \in 1 .. n
    BY <1>1
  <2> HIDE DEF part, other
  <2> QED
    BY <1>2, <1>3, <1>4, <2>1
<1> HIDE DEF part, other
<1>6. part = other
  BY <1>3, <1>4, <1>5, SeqEqual
<1> QED
  BY <1>6 DEF part, other, first

\* No piece in front of the first match contains one, and the rest none at all.
LEMMA PieceHasNoMatch ==
    ASSUME NEW pattern, NEW s \in Seq(Char)
    PROVE  /\ Found(pattern, s) =>
                ~Found(pattern \ {<<>>}, SubSeq(s, 1, Regexec(pattern, s).so))
           /\ ~Found(pattern, s) => ~Found(pattern \ {<<>>}, s)
<1>1. ~Found(pattern, s) => ~Found(pattern \ {<<>>}, s)
  BY DEF Found, AllMatches
<1>2. ASSUME Found(pattern, s), NEW o,
             o \in AllMatches(pattern \ {<<>>}, SubSeq(s, 1, Regexec(pattern, s).so))
      PROVE  FALSE
  <2> DEFINE m == Regexec(pattern, s)
             so == m.so
             piece == SubSeq(s, 1, so)
             found == SubSeq(piece, o.so + 1, o.eo)
  <2>1. m \in AllMatches(pattern, s) /\ Len(s) \in Nat
    BY <1>2, RegexecFindsAMatch
  <2>2. so \in 0 .. Len(s)
    BY <2>1 DEF AllMatches
  <2>3. \A a \in AllMatches(pattern, s) : so < a.so \/ (so = a.so /\ m.eo >= a.eo)
    <3> DEFINE First(x) == \A a \in AllMatches(pattern, s) : x.so < a.so \/ (x.so = a.so /\ x.eo >= a.eo)
    <3>1. \E x \in AllMatches(pattern, s) : First(x)
      BY <1>2, RegexecIsFirst
    <3>2. m = CHOOSE x \in AllMatches(pattern, s) : First(x)
      BY Zenon DEF Regexec
    <3> HIDE DEF First, m
    <3>3. First(m)
      BY <3>1, <3>2
    <3> QED
      BY <3>3 DEF First
  <2> HIDE DEF m, so
  <2>4. piece \in Seq(Char) /\ Len(piece) = so
    BY <2>1, <2>2
  <2>5. /\ o.so \in 0 .. so /\ o.eo \in 0 .. so /\ o.so <= o.eo /\ o = [so |-> o.so, eo |-> o.eo]
        /\ found \in pattern /\ found # <<>>
    BY <1>2, <2>2, <2>4 DEF AllMatches, m, so
  <2>6. o.so < so
    BY <2>2, <2>5
  <2>7. found = SubSeq(s, o.so + 1, o.eo)
    <3> DEFINE a == o.so
               b == o.eo
    <3>1. a \in 0 .. so /\ b \in a .. so
      BY <2>2, <2>5
    <3> HIDE DEF a, b
    <3>2. SubSeq(SubSeq(s, 1, so), a + 1, b) = SubSeq(s, a + 1, b)
      BY <2>2, <3>1, PartOfFirst
    <3> QED
      BY <3>2 DEF a, b
  <2>8. o \in AllMatches(pattern, s)
    <3>1. o \in [so : 0 .. Len(s), eo : 0 .. Len(s)]
      BY <2>1, <2>2, <2>5
    <3>2. o.so <= o.eo /\ SubSeq(s, o.so + 1, o.eo) \in pattern
      BY <2>5, <2>7
    <3> QED
      BY <3>1, <3>2 DEF AllMatches
  <2>9. so < o.so \/ so = o.so
    BY <2>3, <2>8
  <2> QED
    BY <2>2, <2>5, <2>6, <2>9
<1> QED
  BY <1>1, <1>2 DEF Found

Item == [colons : BOOLEAN, piece : Seq(Char)]

AllPrinted == splitPc \in {"return", "done"}

\* Where the pieces may end, the text at work begins.
Spelled ==
    \E offset \in 0 .. Len(request.buffer) :
        /\ offset \in Ends(request, printed)[Len(printed)]
        /\ SubSeq(request.buffer, offset + 1, Len(request.buffer)) =
              IF AllPrinted THEN <<>> ELSE Buffer

PiecesAreApart ==
    \A k \in DOMAIN printed :
        /\ printed[k].colons = ~(AllPrinted /\ k = Len(printed))
        /\ ~Found(request.pattern \ {<<>>}, printed[k].piece)

PiecesInv == SplitInv /\ printed \in Seq(Item) /\ Spelled /\ PiecesAreApart

\* One more piece, in front of a match or of nothing, spells the text on.
LEMMA PieceSpellsOn ==
    ASSUME SplitTypeOK, printed \in Seq(Item), NEW offset \in 0 .. Len(request.buffer),
           offset \in Ends(request, printed)[Len(printed)], NEW item \in Item,
           NEW so \in 0 .. Len(request.buffer) - offset,
           NEW eo \in so .. Len(request.buffer) - offset,
           item.piece = SubSeq(SubSeq(request.buffer, offset + 1, Len(request.buffer)), 1, so),
           IF item.colons
           THEN SubSeq(SubSeq(request.buffer, offset + 1, Len(request.buffer)), so + 1, eo) \in request.pattern
           ELSE so = eo
    PROVE  /\ offset + eo \in 0 .. Len(request.buffer)
           /\ offset + eo \in Ends(request, Append(printed, item))[Len(Append(printed, item))]
           /\ SubSeq(request.buffer, offset + eo + 1, Len(request.buffer)) =
                 SubSeq(SubSeq(request.buffer, offset + 1, Len(request.buffer)), eo + 1,
                        Len(SubSeq(request.buffer, offset + 1, Len(request.buffer))))
<1> DEFINE s == request.buffer
           n == Len(s)
<1>1. s \in Seq(Char) /\ n \in Nat
  BY SplitRequestAssumption DEF SplitTypeOK
<1>2. Len(SubSeq(s, offset + 1, n)) = n - offset
  BY <1>1, Offsets
<1> HIDE DEF s
<1>3. /\ offset \in Nat /\ so \in Nat /\ eo \in Nat /\ n - offset \in Nat
      /\ so <= eo /\ eo <= n - offset
  BY <1>1 DEF s
<1>4. SubSeq(SubSeq(s, offset + 1, n), 0 + 1, so) = SubSeq(s, offset + 0 + 1, offset + so)
  <2>1. 0 \in 0 .. n - offset /\ so \in 0 .. n - offset
    BY <1>3
  <2> QED
    BY <1>1, <1>3, <2>1, PartOfRest DEF s
<1>5. SubSeq(SubSeq(s, offset + 1, n), so + 1, eo) = SubSeq(s, offset + so + 1, offset + eo)
  <2>1. so \in 0 .. n - offset /\ eo \in so .. n - offset /\ offset \in 0 .. n
    BY DEF s
  <2> QED
    BY <1>1, <2>1, PartOfRest
<1>6. SubSeq(SubSeq(s, offset + 1, n), eo + 1, n - offset) = SubSeq(s, offset + eo + 1, offset + (n - offset))
  <2>1. eo \in 0 .. n - offset /\ n - offset \in eo .. n - offset
    BY <1>3
  <2> QED
    BY <1>1, <1>3, <2>1, PartOfRest DEF s
<1>7. 0 + 1 = 1 /\ offset + 0 + 1 = offset + 1 /\ offset + (n - offset) = n
  BY <1>1, <1>3
<1>8. offset + eo \in offset .. n /\ offset + so \in offset .. offset + eo /\ offset + eo \in 0 .. n
  BY <1>1, <1>3
<1>9. item.piece = SubSeq(s, offset + 1, offset + so)
  BY <1>4, <1>7 DEF s
<1>10. offset + eo \in EndsOf(request, item, offset)
  <2>1. IF item.colons THEN SubSeq(s, offset + so + 1, offset + eo) \in request.pattern
                       ELSE offset + so = offset + eo
    BY <1>5 DEF s
  <2> QED
    BY <1>8, <1>9, <2>1 DEF EndsOf, s
<1>11. offset + eo \in Ends(request, Append(printed, item))[Len(Append(printed, item))]
  <2>1. Ends(request, Append(printed, item))[Len(Append(printed, item))] =
           UNION {EndsOf(request, item, o) : o \in Ends(request, printed)[Len(printed)]}
    BY EndsOfFirst
  <2> QED
    BY <1>10, <2>1
<1>12. SubSeq(s, offset + eo + 1, n) = SubSeq(SubSeq(s, offset + 1, n), eo + 1, Len(SubSeq(s, offset + 1, n)))
  BY <1>2, <1>6, <1>7
<1> QED
  BY <1>8, <1>11, <1>12 DEF s

LEMMA PiecesInit == SplitInit => PiecesInv
<1> SUFFICES ASSUME SplitInit PROVE PiecesInv
  OBVIOUS
<1>1. request.buffer \in Seq(Char) /\ Len(printed) = 0 /\ printed \in Seq(Item)
  BY SplitRequestAssumption DEF SplitInit
<1>2. 0 \in Ends(request, printed)[Len(printed)]
  BY <1>1, EndsEquation
<1>3. SubSeq(request.buffer, 0 + 1, Len(request.buffer)) = request.buffer /\ 0 \in 0 .. Len(request.buffer)
  BY <1>1, Offsets
<1>4. Buffer = request.buffer /\ ~AllPrinted
  BY DEF SplitInit, Buffer, AllPrinted
<1>5. Spelled
  BY <1>2, <1>3, <1>4 DEF Spelled
<1>6. PiecesAreApart
  BY DEF PiecesAreApart, SplitInit
<1> QED
  BY <1>1, <1>5, <1>6, SplitInitInv DEF PiecesInv

LEMMA PiecesStep == PiecesInv /\ [SplitNext]_splitVars => PiecesInv'
<1> SUFFICES ASSUME PiecesInv, [SplitNext]_splitVars
             PROVE  printed' \in Seq(Item) /\ Spelled' /\ PiecesAreApart'
  BY SplitStepInv DEF PiecesInv
<1>1. SplitInv /\ SplitTypeOK /\ printed \in Seq(Item) /\ Spelled /\ PiecesAreApart
  BY DEF PiecesInv, SplitInv
<1>2. CASE Enter
  BY <1>1, <1>2 DEF Enter, Spelled, PiecesAreApart, AllPrinted, Buffer
<1>3. CASE SplitReturn
  BY <1>1, <1>3 DEF SplitReturn, Spelled, PiecesAreApart, AllPrinted, Buffer
<1>4. CASE UNCHANGED splitVars
  BY <1>1, <1>4 DEF splitVars, Spelled, PiecesAreApart, AllPrinted, Buffer
<1>5. PICK offset \in 0 .. Len(request.buffer) :
         /\ offset \in Ends(request, printed)[Len(printed)]
         /\ SubSeq(request.buffer, offset + 1, Len(request.buffer)) = IF AllPrinted THEN <<>> ELSE Buffer
  BY <1>1 DEF Spelled
<1>6. CASE SplitAtMatch \/ PrintRest
  <2> DEFINE m == Regexec(request.pattern, Buffer)
             item == IF Found(request.pattern, Buffer)
                     THEN [colons |-> TRUE, piece |-> SubSeq(Buffer, 1, m.so)]
                     ELSE [colons |-> FALSE, piece |-> Buffer]
             so == IF Found(request.pattern, Buffer) THEN m.so ELSE Len(Buffer)
             eo == IF Found(request.pattern, Buffer) THEN m.eo ELSE Len(Buffer)
             rest == SubSeq(request.buffer, offset + 1, Len(request.buffer))
  <2>1. /\ request.buffer \in Seq(Char) /\ rest = Buffer /\ ~AllPrinted
        /\ Buffer \in Seq(Char) /\ Len(Buffer) = Len(request.buffer) - offset
    <3>1. request.buffer \in Seq(Char)
      BY <1>1, SplitRequestAssumption DEF SplitTypeOK
    <3> QED
      BY <1>5, <1>6, <3>1, Offsets DEF AllPrinted, SplitAtMatch, PrintRest
  <2>2. so \in 0 .. Len(Buffer) /\ eo \in so .. Len(Buffer) /\ SubSeq(Buffer, 1, so) \in Seq(Char)
    <3>1. Found(request.pattern, Buffer) => m \in AllMatches(request.pattern, Buffer)
      BY <2>1, RegexecFindsAMatch
    <3>2. so \in 0 .. Len(Buffer) /\ eo \in so .. Len(Buffer)
      BY <2>1, <3>1 DEF AllMatches
    <3> HIDE DEF so
    <3> QED
      BY <2>1, <3>2
  <2>3. item \in Item /\ item.piece = SubSeq(Buffer, 1, so)
    <3>1. SubSeq(Buffer, 1, Len(Buffer)) = Buffer
      BY <2>1
    <3>2. item.piece = SubSeq(Buffer, 1, so)
      BY <3>1
    <3>3. item = [colons |-> item.colons, piece |-> item.piece] /\ item.colons \in BOOLEAN
      OBVIOUS
    <3> HIDE DEF item
    <3> QED
      BY <2>2, <3>2, <3>3 DEF Item
  <2>4. IF item.colons THEN SubSeq(Buffer, so + 1, eo) \in request.pattern ELSE so = eo
    <3>1. Found(request.pattern, Buffer) => m \in AllMatches(request.pattern, Buffer)
      BY <2>1, RegexecFindsAMatch
    <3> QED
      BY <3>1 DEF AllMatches
  <2>5. ~Found(request.pattern \ {<<>>}, item.piece)
    BY <2>1, PieceHasNoMatch
  <2>6. /\ request' = request /\ printed' = Append(printed, item)
        /\ splitPc' = IF item.colons THEN "call" ELSE "return"
        /\ IF item.colons THEN frames' = Append(frames, SubSeq(Buffer, eo + 1, Len(Buffer)))
                          ELSE eo = Len(Buffer)
    BY <1>6 DEF SplitAtMatch, PrintRest, Behind
  <2> HIDE DEF item, so, eo
  <2>7. /\ offset + eo \in 0 .. Len(request.buffer)
        /\ offset + eo \in Ends(request, Append(printed, item))[Len(Append(printed, item))]
        /\ SubSeq(request.buffer, offset + eo + 1, Len(request.buffer)) =
              SubSeq(Buffer, eo + 1, Len(Buffer))
    BY <1>1, <1>5, <2>1, <2>2, <2>3, <2>4, PieceSpellsOn
  <2>8. IF AllPrinted' THEN SubSeq(Buffer, eo + 1, Len(Buffer)) = <<>>
                       ELSE SubSeq(Buffer, eo + 1, Len(Buffer)) = Buffer'
    <3>1. CASE item.colons
      <4>1. Append(frames, SubSeq(Buffer, eo + 1, Len(Buffer)))[Len(frames) + 1]
               = SubSeq(Buffer, eo + 1, Len(Buffer))
        <5> DEFINE x == SubSeq(Buffer, eo + 1, Len(Buffer))
        <5>1. Append(frames, x)[Len(frames) + 1] = x
          <6> HIDE DEF x
          <6> QED
            BY <1>1 DEF SplitTypeOK
        <5> QED
          BY <5>1
      <4>2. Len(frames') = Len(frames) + 1
        BY <1>1, <2>6, <3>1 DEF SplitTypeOK
      <4> QED
        BY <2>6, <3>1, <4>1, <4>2 DEF AllPrinted, Buffer
    <3>2. CASE ~item.colons
      <4>1. SubSeq(Buffer, Len(Buffer) + 1, Len(Buffer)) = <<>>
        BY <2>1
      <4> QED
        BY <2>6, <3>2, <4>1 DEF AllPrinted
    <3> QED
      BY <3>1, <3>2
  <2>9. Spelled'
    BY <2>6, <2>7, <2>8 DEF Spelled
  <2>10. printed' \in Seq(Item)
    BY <1>1, <2>3, <2>6
  <2>11. PiecesAreApart'
    <3>1. /\ Len(printed') = Len(printed) + 1 /\ DOMAIN printed' = 1 .. Len(printed) + 1
          /\ printed'[Len(printed) + 1] = item /\ Len(printed) \in Nat
          /\ \A k \in 1 .. Len(printed) : printed'[k] = printed[k]
      BY <1>1, <2>3, <2>6
    <3>2. \A k \in 1 .. Len(printed) :
             /\ printed[k].colons = TRUE
             /\ ~Found(request.pattern \ {<<>>}, printed[k].piece)
      <4>1. DOMAIN printed = 1 .. Len(printed)
        BY <1>1
      <4> QED
        BY <1>1, <2>1, <4>1, Zenon DEF PiecesAreApart
    <3>3. AllPrinted' = ~item.colons
      BY <2>6 DEF AllPrinted
    <3>4. item.colons \in BOOLEAN
      BY <2>3 DEF Item
    <3>5. ASSUME NEW k \in 1 .. Len(printed) + 1
          PROVE  /\ printed'[k].colons = ~(AllPrinted' /\ k = Len(printed'))
                 /\ ~Found(request.pattern \ {<<>>}, printed'[k].piece)
      <4>1. CASE k \in 1 .. Len(printed)
        <5>1. k # Len(printed')
          BY <3>1, <4>1
        <5> QED
          BY <3>1, <3>2, <4>1, <5>1
      <4>2. CASE k = Len(printed) + 1
        BY <2>5, <3>1, <3>3, <3>4, <4>2
      <4> QED
        BY <3>1, <4>1, <4>2
    <3> QED
      BY <2>6, <3>1, <3>5 DEF PiecesAreApart
  <2> QED
    BY <2>9, <2>10, <2>11
<1> QED
  BY <1>2, <1>3, <1>4, <1>6 DEF SplitNext

\* The pieces resplit has printed (lines 31-44) spell the buffer, with a match
\* between each and the next: nothing is lost, and nothing printed twice.
THEOREM SplitLosesNothing == SplitSpec => []PiecesSpellTheBuffer
<1>1. PiecesInv => PiecesSpellTheBuffer
  BY DEF PiecesInv, Spelled, PiecesAreApart, AllPrinted, PiecesSpellTheBuffer
<1> QED
  BY <1>1, PiecesInit, PiecesStep, PTL DEF SplitSpec

=============================================================================
