--------------------------- MODULE Buffers_proofs ---------------------------
(* Proofs about the two programs that manage a buffer: Sds, for strings,     *)
(* header types and texts of every size, the layout of a block after every   *)
(* sequence of calls; SetsScanner, for every text and every read, the buffer *)
(* that yylex scans.  Then, with what the scanner taught about loops, the    *)
(* functions of SdsText and the calls of SdsFormat, for texts of any length. *)
EXTENDS SdsFormat, SetsScanner, SequenceTheorems, FiniteSetTheorems, WellFoundedInduction, TLAPS

\* What every call may assume of a block, and gives back.
Good(b) == WellFormedString(b) /\ b.len <= MaxLen

\* A block with the same bytes, and one with the bytes of t.
SameBytes(c, b) == c.len = b.len /\ \A i \in 1..b.len : c.buf[i] = b.buf[i]
HasBytes(c, t) == c.len = Len(t) /\ \A i \in 1..Len(t) : c.buf[i] = t[i]

-----------------------------------------------------------------------------
(* Numbers and headers.                                                      *)

LEMMA CapacityTypes ==
  ASSUME NEW t \in Types
  PROVE  Capacity[t] \in Nat /\ Capacity[t] <= Capacity[4]
  BY SdsAssumption DEF Types

\* A length that fits its header is recorded as it is.
LEMMA SmallMod ==
  ASSUME NEW n \in Nat, NEW c \in Nat, n <= c
  PROVE  n % (c + 1) = n
  OBVIOUS

LEMMA ReqType ==
  ASSUME NEW n \in Nat, n <= Capacity[4]
  PROVE  sdsReqType(n) \in Types /\ n <= Capacity[sdsReqType(n)]
<1> DEFINE P(t) == (t < 4 => n <= Capacity[t]) /\ (\A u \in 0..(t - 1) : n > Capacity[u])
<1>1. \A t \in Types : Capacity[t] \in Nat
  BY SdsAssumption
<1>2. \E t \in Types : P(t)
  <2>1. CASE n <= Capacity[0]
    <3>1. P(0) BY <2>1
    <3> QED BY <3>1 DEF Types
  <2>2. CASE n > Capacity[0] /\ n <= Capacity[1]
    <3>1. P(1) BY <2>2
    <3> QED BY <3>1 DEF Types
  <2>3. CASE n > Capacity[1] /\ n <= Capacity[2] /\ n > Capacity[0]
    <3>1. P(2) BY <2>3
    <3> QED BY <3>1 DEF Types
  <2>4. CASE n > Capacity[2] /\ n <= Capacity[3] /\ n > Capacity[1] /\ n > Capacity[0]
    <3>1. P(3) BY <2>4
    <3> QED BY <3>1 DEF Types
  <2>5. CASE n > Capacity[3] /\ n > Capacity[2] /\ n > Capacity[1] /\ n > Capacity[0]
    <3>1. P(4) BY <2>5
    <3> QED BY <3>1 DEF Types
  <2> QED BY <1>1, <2>1, <2>2, <2>3, <2>4, <2>5 DEF Types
<1>3. sdsReqType(n) \in Types /\ P(sdsReqType(n))
  BY <1>2 DEF sdsReqType
<1> QED BY <1>3 DEF Types

\* The types of the parts of a block.
LEMMA BlockParts ==
  ASSUME NEW b, b \in Blocks
  PROVE  /\ b.type \in Types /\ b.len \in Nat /\ b.alloc \in Nat /\ b.room \in Nat
         /\ b.buf \in Seq(Byte) /\ Len(b.buf) \in Nat
         /\ Capacity[b.type] \in Nat /\ Capacity[b.type] <= Capacity[4]
  BY CapacityTypes DEF Blocks

\* What a call may use of a good block.
LEMMA GoodTypes ==
  ASSUME NEW b, Good(b)
  PROVE  /\ b \in Blocks
         /\ b.len \in Nat /\ b.alloc \in Nat /\ b.room \in Nat /\ b.buf \in Seq(Byte)
         /\ b.type \in Types /\ Len(b.buf) \in Nat /\ sdsalloc(b) \in Nat
         /\ b.len <= sdsalloc(b) /\ sdsalloc(b) < b.room /\ b.len < Len(b.buf)
         /\ sdsavail(b) \in Nat /\ b.len + sdsavail(b) = sdsalloc(b)
         /\ b.len <= MaxLen /\ MaxLen \in Nat /\ b.len <= Capacity[4]
         /\ b.len <= Capacity[b.type]
<1>1. b \in Blocks
  BY DEF Good, WellFormedString
<1>2. b.len \in Nat /\ b.alloc \in Nat /\ Capacity[b.type] \in Nat /\ Capacity[b.type] <= Capacity[4]
  BY <1>1, BlockParts
<1>3. Capacity[4] \in Nat /\ MaxLen \in Nat
  BY SdsAssumption DEF Types
<1>4. /\ b.len <= MaxLen /\ b.len <= sdsalloc(b) /\ sdsalloc(b) <= Capacity[b.type]
      /\ sdsalloc(b) < b.room /\ b.len < Len(b.buf)
  BY DEF Good, WellFormedString
<1>5. sdsalloc(b) \in Nat
  BY <1>2 DEF sdsalloc
<1>6. sdsavail(b) = sdsalloc(b) - b.len
  BY <1>2 DEF sdsalloc, sdsavail
<1> QED
  BY <1>1, <1>2, <1>3, <1>4, <1>5, <1>6, BlockParts

\* A set of numbers has a smallest and, below a bound, a largest.
LEMMA Smallest ==
  ASSUME NEW T \in SUBSET Nat, T # {}
  PROVE  \E i \in T : \A k \in T : i <= k
<1>1. PICK i \in T : \A k \in T : ~ (<<k, i>> \in OpToRel(<, Nat))
  BY WFMin, NatLessThanWellFounded, Zenon
<1>2. \A k \in T : <<k, i>> \in Nat \X Nat /\ <<k, i>>[1] = k /\ <<k, i>>[2] = i
  OBVIOUS
<1>3. \A k \in T : ~ (k < i)
  BY <1>1, <1>2, Zenon DEF OpToRel
<1> QED
  BY <1>3

LEMMA Largest ==
  ASSUME NEW n \in Nat, NEW T \in SUBSET (0..n), T # {}
  PROVE  \E i \in T : \A k \in T : k <= i
<1> DEFINE U == {x \in 0..n : n - x \in T}
<1>1. U # {}
  <2>1. PICK i \in T : TRUE
    OBVIOUS
  <2>2. n - i \in 0..n /\ n - (n - i) = i
    OBVIOUS
  <2> QED BY <2>1, <2>2
<1>2. U \in SUBSET Nat
  OBVIOUS
<1>3. PICK x \in U : \A y \in U : x <= y
  BY <1>1, <1>2, Smallest, Zenon
<1>4. x \in 0..n /\ n - x \in T
  BY <1>3
<1>5. ASSUME NEW k \in T PROVE k <= n - x
  <2>1. k \in 0..n /\ n - k \in 0..n /\ n - (n - k) = k
    OBVIOUS
  <2>2. n - k \in U
    BY <2>1
  <2>3. x <= n - k
    BY <1>3, <2>2
  <2> QED BY <1>4, <2>1, <2>3
<1> QED
  BY <1>4, <1>5

-----------------------------------------------------------------------------
(* Bytes.                                                                    *)

\* The first bytes of a sequence.
LEMMA Prefix ==
  ASSUME NEW t \in Seq(Byte), NEW m \in Nat, m <= Len(t)
  PROVE  /\ SubSeq(t, 1, m) \in Seq(Byte)
         /\ Len(SubSeq(t, 1, m)) = m
         /\ \A i \in 1..m : SubSeq(t, 1, m)[i] = t[i]
<1>1. \A i \in 1..m : t[i] \in Byte
  BY ElementOfSeq
<1> QED
  BY <1>1, SubSeqProperties

\* memcpy writes t behind the bytes in front of it and leaves the header.
LEMMA PutBytes ==
  ASSUME NEW b, b \in Blocks,
         NEW at \in Nat, at <= Len(b.buf), NEW t \in Seq(Byte)
  PROVE  /\ Put(b, at, t) \in Blocks
         /\ Put(b, at, t).type = b.type /\ Put(b, at, t).len = b.len
         /\ Put(b, at, t).alloc = b.alloc /\ Put(b, at, t).room = b.room
         /\ Len(Put(b, at, t).buf) = at + Len(t)
         /\ \A i \in 1..at : Put(b, at, t).buf[i] = b.buf[i]
         /\ \A i \in 1..Len(t) : Put(b, at, t).buf[at + i] = t[i]
<1> DEFINE h == SubSeq(b.buf, 1, at)
<1>1. h \in Seq(Byte) /\ Len(h) = at /\ \A i \in 1..at : h[i] = b.buf[i]
  BY BlockParts, Prefix
<1>2. /\ h \o t \in Seq(Byte)
      /\ Len(h \o t) = at + Len(t)
      /\ \A i \in 1..(at + Len(t)) : (h \o t)[i] = IF i <= at THEN h[i] ELSE t[i - at]
  BY <1>1, ConcatProperties
<1>3. Len(t) \in Nat
  BY LenProperties
<1>4. Put(b, at, t) = [b EXCEPT !.buf = h \o t]
  BY DEF Put
<1>5. Put(b, at, t).buf = h \o t
  BY <1>4
<1>6. \A i \in 1..Len(t) : at + i \in 1..(at + Len(t)) /\ ~(at + i <= at) /\ (at + i) - at = i
  BY <1>3
<1>7. \A i \in 1..Len(t) : (h \o t)[at + i] = t[i]
  BY <1>2, <1>6
<1>8. \A i \in 1..at : (h \o t)[i] = b.buf[i]
  BY <1>1, <1>2, <1>3
<1> DEFINE x == h \o t
<1>9. x \in Seq(Byte)
  BY <1>2
<1> HIDE DEF x
<1>10. /\ [b EXCEPT !.buf = x] \in Blocks
       /\ [b EXCEPT !.buf = x].type = b.type /\ [b EXCEPT !.buf = x].len = b.len
       /\ [b EXCEPT !.buf = x].alloc = b.alloc /\ [b EXCEPT !.buf = x].room = b.room
  BY <1>9 DEF Blocks
<1> QED
  BY <1>2, <1>4, <1>5, <1>7, <1>8, <1>10 DEF x

LEMMA PutLast ==
  ASSUME NEW b, b \in Blocks,
         NEW at \in Nat, at <= Len(b.buf), NEW t \in Seq(Byte), 1 <= Len(t)
  PROVE  Put(b, at, t).buf[at + Len(t)] = t[Len(t)]
<1>1. \A i \in 1..Len(t) : Put(b, at, t).buf[at + i] = t[i]
  BY PutBytes
<1>2. Len(t) \in 1..Len(t)
  BY LenProperties
<1> QED
  BY <1>1, <1>2

LEMMA PutNulBytes ==
  ASSUME NEW b, b \in Blocks,
         NEW at \in Nat, at <= Len(b.buf)
  PROVE  /\ PutNul(b, at) \in Blocks
         /\ PutNul(b, at).type = b.type /\ PutNul(b, at).len = b.len
         /\ PutNul(b, at).alloc = b.alloc /\ PutNul(b, at).room = b.room
         /\ Len(PutNul(b, at).buf) = at + 1
         /\ \A i \in 1..at : PutNul(b, at).buf[i] = b.buf[i]
         /\ PutNul(b, at).buf[at + 1] = NUL
<1> DEFINE t == <<NUL>>
<1>1. t \in Seq(Byte) /\ Len(t) = 1 /\ t[1] = NUL
  BY SdsAssumption
<1>2. PutNul(b, at) = Put(b, at, t)
  BY DEF PutNul
<1> HIDE DEF t
<1>3. /\ Put(b, at, t) \in Blocks
      /\ Put(b, at, t).type = b.type /\ Put(b, at, t).len = b.len
      /\ Put(b, at, t).alloc = b.alloc /\ Put(b, at, t).room = b.room
      /\ Len(Put(b, at, t).buf) = at + Len(t)
      /\ \A i \in 1..at : Put(b, at, t).buf[i] = b.buf[i]
      /\ \A i \in 1..Len(t) : Put(b, at, t).buf[at + i] = t[i]
  BY <1>1, PutBytes
<1>4. 1 \in 1..Len(t)
  BY <1>1
<1>5. Put(b, at, t).buf[at + 1] = NUL
  BY <1>1, <1>3, <1>4
<1> QED
  BY <1>1, <1>2, <1>3, <1>5

\* A header records a length that it has room for.
LEMMA SetLen ==
  ASSUME NEW b, b \in Blocks,
         NEW n \in Nat, n <= Capacity[b.type]
  PROVE  sdssetlen(b, n) = [b EXCEPT !.len = n]
  BY BlockParts, SmallMod DEF sdssetlen

LEMMA SetAlloc ==
  ASSUME NEW b, b \in Blocks,
         NEW n \in Nat, n <= Capacity[b.type]
  PROVE  sdssetalloc(b, n) = IF b.type = SDS_TYPE_5 THEN b ELSE [b EXCEPT !.alloc = n]
  BY BlockParts, SmallMod DEF sdssetalloc

\* What a caller sees of a good block.
LEMMA ContentBytes ==
  ASSUME NEW b, Good(b)
  PROVE  /\ Content(b) \in Seq(Byte)
         /\ Len(Content(b)) = b.len
         /\ \A i \in 1..b.len : Content(b)[i] = b.buf[i]
  BY GoodTypes, Prefix DEF Content

-----------------------------------------------------------------------------
(* Headers and room.                                                         *)

\* Changing one part of a block leaves the others.
LEMMA Update ==
  ASSUME NEW b, b \in Blocks, NEW n \in Nat, NEW t \in Seq(Byte)
  PROVE  /\ [b EXCEPT !.len = n] \in Blocks
         /\ [b EXCEPT !.len = n].type = b.type /\ [b EXCEPT !.len = n].len = n
         /\ [b EXCEPT !.len = n].alloc = b.alloc /\ [b EXCEPT !.len = n].room = b.room
         /\ [b EXCEPT !.len = n].buf = b.buf
         /\ [b EXCEPT !.alloc = n] \in Blocks
         /\ [b EXCEPT !.alloc = n].type = b.type /\ [b EXCEPT !.alloc = n].len = b.len
         /\ [b EXCEPT !.alloc = n].alloc = n /\ [b EXCEPT !.alloc = n].room = b.room
         /\ [b EXCEPT !.alloc = n].buf = b.buf
  BY DEF Blocks

\* The two functions that write a header, on values it has room for.
LEMMA Headers ==
  ASSUME NEW b, b \in Blocks, NEW n \in Nat, n <= Capacity[b.type]
  PROVE  /\ sdssetlen(b, n) \in Blocks
         /\ sdssetlen(b, n).type = b.type /\ sdssetlen(b, n).len = n
         /\ sdssetlen(b, n).alloc = b.alloc /\ sdssetlen(b, n).room = b.room
         /\ sdssetlen(b, n).buf = b.buf
         /\ sdssetalloc(b, n) \in Blocks
         /\ sdssetalloc(b, n).type = b.type /\ sdssetalloc(b, n).len = b.len
         /\ b.type # SDS_TYPE_5 => sdssetalloc(b, n).alloc = n
         /\ sdssetalloc(b, n).room = b.room /\ sdssetalloc(b, n).buf = b.buf
<1>1. /\ sdssetlen(b, n) = [b EXCEPT !.len = n]
      /\ sdssetalloc(b, n) = IF b.type = SDS_TYPE_5 THEN b ELSE [b EXCEPT !.alloc = n]
  BY SetLen, SetAlloc
<1>2. <<>> \in Seq(Byte)
  OBVIOUS
<1>3. sdssetlen(b, n) \in Blocks /\ sdssetalloc(b, n) \in Blocks
  BY <1>1, <1>2, Update
<1> QED
  BY <1>1, <1>2, <1>3, Update

\* A block whose header records n and whose bytes end with a NUL is good.
LEMMA GoodWhen ==
  ASSUME NEW b, b \in Blocks,
         b.len <= MaxLen, b.len <= sdsalloc(b), sdsalloc(b) <= Capacity[b.type],
         sdsalloc(b) < b.room, b.len < Len(b.buf), Len(b.buf) <= b.room,
         b.buf[b.len + 1] = NUL
  PROVE  Good(b)
  BY DEF Good, WellFormedString

\* A block that is moved or resized keeps its bytes.  It may be one in the
\* middle of a call, whose terminator is not its last byte.
LEMMA ResizeGood ==
  ASSUME NEW b, Good(b), NEW type \in Types, NEW n \in Nat,
         b.len <= n, n <= Capacity[type], type = SDS_TYPE_5 => n = b.len
  PROVE  /\ Good(Resize(b, type, n))
         /\ Resize(b, type, n).len = b.len
         /\ sdsalloc(Resize(b, type, n)) = n
         /\ Resize(b, type, n).type = type
         /\ Resize(b, type, n).room = n + 1
         /\ SameBytes(Resize(b, type, n), b)
<1> DEFINE m == SubSeq(b.buf, 1, b.len + 1)
           r == Resize(b, type, n)
           k == n + 1
<1>1. /\ b \in Blocks /\ b.len \in Nat /\ b.buf \in Seq(Byte) /\ b.len + 1 <= Len(b.buf)
      /\ b.type \in Types /\ b.alloc \in Nat /\ b.len + 1 \in Nat /\ b.len + 1 \in 1..(b.len + 1)
      /\ Len(b.buf) \in Nat /\ b.len < Len(b.buf)
  BY GoodTypes
<1>2. b.buf[b.len + 1] = NUL /\ b.len <= MaxLen
  BY DEF Good, WellFormedString
<1>3. /\ m \in Seq(Byte) /\ Len(m) = b.len + 1
      /\ \A i \in 1..(b.len + 1) : m[i] = b.buf[i]
  BY <1>1, Prefix
<1>4. m[b.len + 1] = NUL
  BY <1>1, <1>2, <1>3
<1>5. Moved(b) = m
  BY <1>1 DEF Moved
<1>6. k \in Nat /\ k = n + 1
  OBVIOUS
<1> HIDE DEF m, k
<1>7. /\ r \in Blocks /\ r.type = type /\ r.len = b.len /\ r.room = k /\ r.buf = m
      /\ type # SDS_TYPE_5 => r.alloc = n
  <2>1. CASE type = b.type
    <3> DEFINE c == [b EXCEPT !.room = k, !.buf = m]
    <3>4. c = [b EXCEPT !.room = k, !.buf = m]
      OBVIOUS
    <3>2. r = sdssetalloc(c, n)
      BY <1>5, <1>6, <2>1 DEF Resize
    <3> HIDE DEF c
    <3>1. /\ c \in Blocks /\ c.type = b.type /\ c.len = b.len /\ c.room = k /\ c.buf = m
      BY <1>1, <1>3, <1>6, <3>4 DEF Blocks
    <3>3. QED
      BY <2>1, <3>1, <3>2, Headers
  <2>2. CASE type # b.type
    <3> DEFINE c == [type |-> type, len |-> 0, alloc |-> 0, room |-> k, buf |-> m]
               l == sdssetlen(c, b.len)
    <3>6. c = [type |-> type, len |-> 0, alloc |-> 0, room |-> k, buf |-> m]
      OBVIOUS
    <3>2. r = sdssetalloc(l, n)
      BY <1>5, <1>6, <2>2 DEF Resize, Block
    <3>3. b.len <= Capacity[type]
      BY <1>1, CapacityTypes
    <3> HIDE DEF c
    <3>1. /\ c \in Blocks /\ c.type = type /\ c.len = 0 /\ c.room = k /\ c.buf = m
      BY <1>3, <1>6, <3>6 DEF Blocks
    <3>4. /\ l \in Blocks /\ l.type = type /\ l.len = b.len /\ l.room = k /\ l.buf = m
      BY <1>1, <3>1, <3>3, Headers
    <3> HIDE DEF l
    <3>5. QED
      BY <3>2, <3>4, Headers
  <2>3. QED BY <2>1, <2>2
<1>8. sdsalloc(r) = n
  BY <1>7 DEF sdsalloc
<1> HIDE DEF r
<1>9. Good(r)
  <2>1. /\ r.len <= MaxLen /\ r.len <= sdsalloc(r) /\ sdsalloc(r) <= Capacity[r.type]
        /\ r.buf[r.len + 1] = NUL
    BY <1>2, <1>4, <1>7, <1>8
  <2>2. sdsalloc(r) < r.room /\ r.len < Len(r.buf) /\ Len(r.buf) <= r.room
    BY <1>1, <1>3, <1>6, <1>7, <1>8
  <2> QED
    BY <1>7, <2>1, <2>2, GoodWhen
<1>10. SameBytes(r, b)
  BY <1>1, <1>3, <1>7 DEF SameBytes
<1> QED
  BY <1>6, <1>7, <1>8, <1>9, <1>10 DEF r

\* sdsMakeRoomFor: the string is as long as it was and addlen more bytes fit.
LEMMA MakeRoomGood ==
  ASSUME NEW b, Good(b), NEW addlen \in Int, b.len + addlen \in 0..MaxLen
  PROVE  /\ Good(sdsMakeRoomFor(b, addlen))
         /\ sdsMakeRoomFor(b, addlen).len = b.len
         /\ b.len + addlen <= sdsalloc(sdsMakeRoomFor(b, addlen))
         /\ SameBytes(sdsMakeRoomFor(b, addlen), b)
<1> DEFINE newlen == Enlarged(b.len + addlen)
           req == sdsReqType(newlen)
           type == IF req = SDS_TYPE_5 THEN SDS_TYPE_8 ELSE req
<1>1. /\ b.len \in Nat /\ sdsavail(b) \in Nat /\ b.len + sdsavail(b) = sdsalloc(b)
      /\ sdsalloc(b) \in Nat /\ MaxLen \in Nat
  BY GoodTypes
<1>2. CASE sdsavail(b) >= addlen
  <2>1. sdsMakeRoomFor(b, addlen) = b
    BY <1>2 DEF sdsMakeRoomFor
  <2> QED BY <1>1, <1>2, <2>1 DEF SameBytes
<1>3. CASE ~(sdsavail(b) >= addlen)
  <2>1. /\ newlen \in Nat /\ newlen <= Capacity[4] /\ b.len + addlen <= newlen
        /\ b.len <= newlen
    <3>1. /\ SDS_MAX_PREALLOC \in Nat /\ Capacity[4] \in Nat /\ 2 * MaxLen <= Capacity[4]
          /\ MaxLen + SDS_MAX_PREALLOC <= Capacity[4]
      BY SdsAssumption DEF Types
    <3> DEFINE want == b.len + addlen
    <3>2. want \in Nat /\ want <= MaxLen /\ b.len <= want
      BY <1>1, <1>3
    <3> HIDE DEF want
    <3>3. newlen = IF want < SDS_MAX_PREALLOC THEN 2 * want ELSE want + SDS_MAX_PREALLOC
      BY DEF Enlarged, want
    <3>4. newlen \in Nat /\ newlen <= Capacity[4] /\ want <= newlen
      BY <1>1, <3>1, <3>2, <3>3
    <3> QED
      BY <1>1, <3>1, <3>2, <3>4 DEF want
  <2> HIDE DEF newlen
  <2>2. req \in Types /\ newlen <= Capacity[req]
    BY <2>1, ReqType
  <2>3. Capacity[0] < Capacity[1] /\ Capacity[0] \in Nat /\ Capacity[1] \in Nat
    BY SdsAssumption DEF Types
  <2> HIDE DEF req
  <2>4. type \in Types /\ newlen <= Capacity[type] /\ type # SDS_TYPE_5
    BY <2>1, <2>2, <2>3 DEF SDS_TYPE_5, SDS_TYPE_8, Types
  <2>5. sdsMakeRoomFor(b, addlen) = Resize(b, type, newlen)
    BY <1>3 DEF sdsMakeRoomFor, newlen, req
  <2> HIDE DEF type
  <2> QED
    BY <2>1, <2>4, <2>5, ResizeGood
<1> QED
  BY <1>2, <1>3

\* sdsRemoveFreeSpace keeps the string, behind a header that may be smaller.
LEMMA RemoveFreeSpaceGood ==
  ASSUME NEW b, Good(b)
  PROVE  Good(sdsRemoveFreeSpace(b)) /\ SameBytes(sdsRemoveFreeSpace(b), b)
<1> DEFINE req == sdsReqType(b.len)
           type == IF req > SDS_TYPE_8 THEN b.type ELSE req
<1>1. b.len \in Nat /\ b.len <= Capacity[b.type] /\ b.len <= Capacity[4] /\ b.type \in Types
  BY GoodTypes
<1>2. req \in Types /\ b.len <= Capacity[req]
  BY <1>1, ReqType
<1> HIDE DEF req
<1>3. type \in Types /\ b.len <= Capacity[type]
  BY <1>1, <1>2
<1>4. sdsRemoveFreeSpace(b) = IF sdsavail(b) = 0 THEN b ELSE Resize(b, type, b.len)
  BY DEF sdsRemoveFreeSpace, req
<1> HIDE DEF type
<1>5. SameBytes(b, b)
  BY DEF SameBytes
<1> QED
  BY <1>1, <1>3, <1>4, <1>5, ResizeGood
-----------------------------------------------------------------------------
(* Contents.                                                                 *)

\* Bytes and a terminator written into the room of a good block, and a length
\* recorded that the room has place for, make a good block again.
LEMMA WrittenGood ==
  ASSUME NEW r, Good(r), NEW c, c \in Blocks, NEW n \in Nat,
         n <= sdsalloc(r), n <= MaxLen,
         c.type = r.type, c.alloc = r.alloc, c.room = r.room, c.len = n,
         Len(c.buf) = n + 1, c.buf[n + 1] = NUL
  PROVE  Good(c)
<1>1. /\ r.len \in Nat /\ r.alloc \in Nat /\ sdsalloc(r) \in Nat /\ r.room \in Nat
      /\ sdsalloc(r) < r.room
  BY GoodTypes
<1>2. sdsalloc(r) <= Capacity[r.type] /\ Capacity[r.type] \in Nat
  BY BlockParts DEF Good, WellFormedString
<1>3. sdsalloc(c) = (IF r.type = SDS_TYPE_5 THEN n ELSE r.alloc)
  BY DEF sdsalloc
<1>4. sdsalloc(r) = (IF r.type = SDS_TYPE_5 THEN r.len ELSE r.alloc)
  BY DEF sdsalloc
<1>5. /\ c.len <= sdsalloc(c) /\ sdsalloc(c) <= sdsalloc(r) /\ sdsalloc(c) \in Nat
  BY <1>1, <1>3, <1>4
<1>6. sdsalloc(c) <= Capacity[c.type] /\ sdsalloc(c) < c.room
  BY <1>1, <1>2, <1>5
<1>7. c.len < Len(c.buf) /\ Len(c.buf) <= c.room
  BY <1>1
<1> QED
  BY <1>5, <1>6, <1>7, GoodWhen

\* The first bytes of r and t behind them, in a string of n bytes.
WrittenAt(c, r, at, t, n) ==
  /\ c.len = n
  /\ \A i \in 1..at : c.buf[i] = r.buf[i]
  /\ \A i \in 1..Len(t) : c.buf[at + i] = t[i]

\* The two orders in which calls write bytes, terminator and length.
LEMMA WriteGood ==
  ASSUME NEW r, Good(r), NEW at \in Nat, at <= Len(r.buf), NEW t \in Seq(Byte),
         NEW n \in Nat, n = at + Len(t), n <= sdsalloc(r), n <= MaxLen
  PROVE  /\ Good(PutNul(sdssetlen(Put(r, at, t), n), n))
         /\ Good(sdssetlen(PutNul(Put(r, at, t), n), n))
         /\ WrittenAt(PutNul(sdssetlen(Put(r, at, t), n), n), r, at, t, n)
         /\ WrittenAt(sdssetlen(PutNul(Put(r, at, t), n), n), r, at, t, n)
<1> DEFINE p == Put(r, at, t)
           c == PutNul(sdssetlen(p, n), n)
           d == sdssetlen(PutNul(p, n), n)
<1>1. r \in Blocks /\ sdsalloc(r) \in Nat
  BY GoodTypes
<1>2. sdsalloc(r) <= Capacity[r.type] /\ Capacity[r.type] \in Nat
  BY <1>1, BlockParts DEF Good, WellFormedString
<1>3. /\ p \in Blocks /\ p.type = r.type /\ p.alloc = r.alloc /\ p.room = r.room
      /\ Len(p.buf) = n
      /\ \A i \in 1..at : p.buf[i] = r.buf[i]
      /\ \A i \in 1..Len(t) : p.buf[at + i] = t[i]
  BY <1>1, PutBytes
<1>4. n <= Capacity[p.type]
  BY <1>1, <1>2, <1>3
<1> HIDE DEF p
<1>5. /\ sdssetlen(p, n) \in Blocks /\ sdssetlen(p, n).type = r.type
      /\ sdssetlen(p, n).alloc = r.alloc /\ sdssetlen(p, n).room = r.room
      /\ sdssetlen(p, n).len = n /\ Len(sdssetlen(p, n).buf) = n
      /\ sdssetlen(p, n).buf = p.buf
  BY <1>3, <1>4, Headers
<1>6. /\ c \in Blocks /\ c.type = r.type /\ c.alloc = r.alloc /\ c.room = r.room
      /\ c.len = n /\ Len(c.buf) = n + 1 /\ c.buf[n + 1] = NUL
      /\ \A i \in 1..n : c.buf[i] = p.buf[i]
  BY <1>5, PutNulBytes
<1>7. /\ PutNul(p, n) \in Blocks /\ PutNul(p, n).type = r.type
      /\ PutNul(p, n).alloc = r.alloc /\ PutNul(p, n).room = r.room
      /\ Len(PutNul(p, n).buf) = n + 1 /\ PutNul(p, n).buf[n + 1] = NUL
      /\ n <= Capacity[PutNul(p, n).type]
      /\ \A i \in 1..n : PutNul(p, n).buf[i] = p.buf[i]
  <2>1. n <= Len(p.buf)
    BY <1>3
  <2> HIDE DEF c, d
  <2> QED
    BY <1>3, <1>4, <2>1, PutNulBytes
<1>8. /\ d \in Blocks /\ d.type = r.type /\ d.alloc = r.alloc /\ d.room = r.room
      /\ d.len = n /\ Len(d.buf) = n + 1 /\ d.buf[n + 1] = NUL
      /\ \A i \in 1..n : d.buf[i] = p.buf[i]
  BY <1>7, Headers
<1> HIDE DEF c, d
<1>9. Good(c) /\ Good(d)
  BY <1>6, <1>8, WrittenGood
<1>10. WrittenAt(c, r, at, t, n) /\ WrittenAt(d, r, at, t, n)
  <2>1. Len(t) \in Nat
    BY LenProperties
  <2>2. /\ \A i \in 1..at : i \in 1..n
        /\ \A i \in 1..Len(t) : at + i \in 1..n
    BY <2>1
  <2> QED
    BY <1>3, <1>6, <1>8, <2>2 DEF WrittenAt
<1> QED
  BY <1>9, <1>10 DEF c, d, p

LEMMA CatGood ==
  ASSUME NEW b, Good(b), NEW t \in Seq(Byte), b.len + Len(t) <= MaxLen
  PROVE  Good(sdscatlen(b, t)) /\ WrittenAt(sdscatlen(b, t), b, b.len, t, b.len + Len(t))
<1> DEFINE r == sdsMakeRoomFor(b, Len(t))
           n == b.len + Len(t)
<1>1. b.len \in Nat /\ Len(t) \in Nat /\ MaxLen \in Nat
  BY GoodTypes, LenProperties
<1>2. Good(r) /\ r.len = b.len /\ n <= sdsalloc(r) /\ SameBytes(r, b)
  BY <1>1, MakeRoomGood
<1>3. sdscatlen(b, t) = PutNul(sdssetlen(Put(r, b.len, t), n), n)
  BY DEF sdscatlen
<1> HIDE DEF r
<1>4. b.len <= Len(r.buf) /\ n \in Nat /\ n <= MaxLen
  BY <1>1, <1>2, GoodTypes
<1>5. Good(sdscatlen(b, t)) /\ WrittenAt(sdscatlen(b, t), r, b.len, t, n)
  BY <1>1, <1>2, <1>3, <1>4, WriteGood
<1> QED
  BY <1>2, <1>5 DEF WrittenAt, SameBytes

LEMMA CpyGood ==
  ASSUME NEW b, Good(b), NEW t \in Seq(Byte), Len(t) <= MaxLen
  PROVE  Good(sdscpylen(b, t)) /\ HasBytes(sdscpylen(b, t), t)
<1> DEFINE r == IF sdsalloc(b) < Len(t) THEN sdsMakeRoomFor(b, Len(t) - b.len) ELSE b
<1>1. /\ b.len \in Nat /\ Len(t) \in Nat /\ MaxLen \in Nat /\ sdsalloc(b) \in Nat
      /\ Len(t) - b.len \in Int /\ b.len + (Len(t) - b.len) = Len(t)
      /\ 0 + Len(t) = Len(t)
  BY GoodTypes, LenProperties
<1>2. Good(r) /\ Len(t) <= sdsalloc(r)
  BY <1>1, MakeRoomGood
<1>3. sdscpylen(b, t) = sdssetlen(PutNul(Put(r, 0, t), Len(t)), Len(t))
  BY DEF sdscpylen
<1> HIDE DEF r
<1>4. 0 <= Len(r.buf)
  BY <1>2, GoodTypes
<1>5. Good(sdscpylen(b, t)) /\ WrittenAt(sdscpylen(b, t), r, 0, t, Len(t))
  BY <1>1, <1>2, <1>3, <1>4, WriteGood
<1>6. \A i \in 1..Len(t) : 0 + i = i
  BY <1>1
<1> QED
  BY <1>1, <1>5, <1>6 DEF WrittenAt, HasBytes

\* Zeros written behind n bytes, the last of them as terminator.
LEMMA ZeroGood ==
  ASSUME NEW r, Good(r), NEW at \in Nat, at <= Len(r.buf),
         NEW t \in Seq(Byte), NEW k \in Nat, 1 <= k, Len(t) = k, t[k] = NUL,
         NEW n \in Nat, at + k = n + 1, n <= sdsalloc(r), n <= MaxLen
  PROVE  /\ Good(sdssetlen(Put(r, at, t), n))
         /\ WrittenAt(sdssetlen(Put(r, at, t), n), r, at, t, n)
<1> DEFINE p == Put(r, at, t)
           c == sdssetlen(p, n)
<1>1. /\ r \in Blocks /\ sdsalloc(r) \in Nat
      /\ sdsalloc(r) <= Capacity[r.type] /\ Capacity[r.type] \in Nat
  BY GoodTypes, BlockParts DEF Good, WellFormedString
<1>2. /\ p \in Blocks /\ p.type = r.type /\ p.alloc = r.alloc /\ p.room = r.room
      /\ Len(p.buf) = n + 1
      /\ \A i \in 1..at : p.buf[i] = r.buf[i]
      /\ \A i \in 1..k : p.buf[at + i] = t[i]
  <2>1. /\ p \in Blocks /\ p.type = r.type /\ p.alloc = r.alloc /\ p.room = r.room
        /\ Len(p.buf) = at + Len(t)
        /\ \A i \in 1..at : p.buf[i] = r.buf[i]
        /\ \A i \in 1..Len(t) : p.buf[at + i] = t[i]
    <3>1. /\ p \in Blocks /\ p.type = r.type /\ p.alloc = r.alloc /\ p.room = r.room
          /\ Len(p.buf) = at + Len(t)
      BY <1>1, PutBytes
    <3>2. \A i \in 1..at : p.buf[i] = r.buf[i]
      BY <1>1, PutBytes
    <3>3. \A i \in 1..Len(t) : p.buf[at + i] = t[i]
      BY <1>1, PutBytes
    <3> QED
      BY <3>1, <3>2, <3>3
  <2> HIDE DEF p
  <2> QED
    BY <2>1
<1>6. p.buf[at + Len(t)] = t[Len(t)]
  BY <1>1, PutLast
<1> HIDE DEF p
<1>3. p.buf[n + 1] = NUL
  BY <1>6
<1>4. n <= Capacity[p.type]
  BY <1>1, <1>2
<1>5. /\ c \in Blocks /\ c.type = r.type /\ c.alloc = r.alloc /\ c.room = r.room
      /\ c.len = n /\ Len(c.buf) = n + 1 /\ c.buf[n + 1] = NUL /\ c.buf = p.buf
  BY <1>2, <1>3, <1>4, Headers
<1> HIDE DEF c
<1>7. Good(c)
  BY <1>5, WrittenGood
<1> QED
  BY <1>2, <1>5, <1>7 DEF c, p, WrittenAt

LEMMA GrowzeroGood ==
  ASSUME NEW b, Good(b), NEW n \in 0..MaxLen
  PROVE  /\ Good(sdsgrowzero(b, n))
         /\ sdsgrowzero(b, n).len = IF n <= b.len THEN b.len ELSE n
         /\ \A i \in 1..b.len : sdsgrowzero(b, n).buf[i] = b.buf[i]
         /\ \A i \in b.len + 1..n : sdsgrowzero(b, n).buf[i] = NUL
<1> DEFINE r == sdsMakeRoomFor(b, n - b.len)
           k == n - b.len + 1
           t == [i \in 1..k |-> NUL]
<1>1. b.len \in Nat /\ MaxLen \in Nat
  BY GoodTypes
<1>2. CASE n <= b.len
  BY <1>1, <1>2 DEF sdsgrowzero
<1>3. CASE ~(n <= b.len)
  <2>1. n - b.len \in Int /\ b.len + (n - b.len) = n /\ n \in Nat
    BY <1>1
  <2>2. Good(r) /\ r.len = b.len /\ n <= sdsalloc(r)
    BY <2>1, MakeRoomGood
  <2>7. \A i \in 1..b.len : r.buf[i] = b.buf[i]
    BY <2>1, MakeRoomGood DEF SameBytes
  <2>3. k \in Nat /\ 1 <= k /\ b.len + k = n + 1 /\ k \in 1..k
    BY <1>1, <1>3
  <2>4. sdsgrowzero(b, n) = sdssetlen(Put(r, b.len, t), n)
    BY <1>3 DEF sdsgrowzero
  <2> HIDE DEF k
  <2>5. t \in Seq(Byte) /\ Len(t) = k /\ t[k] = NUL /\ \A i \in 1..k : t[i] = NUL
    BY <2>3, SdsAssumption
  <2> HIDE DEF r, t
  <2>6. b.len <= Len(r.buf)
    BY <1>1, <2>2, GoodTypes
  <2>8. /\ Good(sdsgrowzero(b, n)) /\ sdsgrowzero(b, n).len = n
        /\ \A i \in 1..b.len : sdsgrowzero(b, n).buf[i] = r.buf[i]
        /\ \A i \in 1..k : sdsgrowzero(b, n).buf[b.len + i] = t[i]
    <3>1. n <= MaxLen
      OBVIOUS
    <3>2. Good(sdsgrowzero(b, n)) /\ WrittenAt(sdsgrowzero(b, n), r, b.len, t, n)
      BY <1>1, <2>1, <2>2, <2>3, <2>4, <2>5, <2>6, <3>1, ZeroGood
    <3> QED
      BY <2>5, <3>2 DEF WrittenAt
  <2>9. \A i \in b.len + 1..n : i - b.len \in 1..k /\ b.len + (i - b.len) = i
    BY <1>1, <2>1, <2>3
  <2>10. \A i \in b.len + 1..n : sdsgrowzero(b, n).buf[i] = NUL
    <3> SUFFICES ASSUME NEW i \in b.len + 1..n PROVE sdsgrowzero(b, n).buf[i] = NUL
      OBVIOUS
    <3>1. i - b.len \in 1..k /\ b.len + (i - b.len) = i
      BY <2>9
    <3>2. sdsgrowzero(b, n).buf[b.len + (i - b.len)] = t[i - b.len]
      BY <2>8, <3>1
    <3> QED
      BY <2>5, <3>1, <3>2
  <2> QED
    BY <1>3, <2>7, <2>8, <2>10
<1> QED
  BY <1>2, <1>3

\* A length that is reduced, as by sdsclear and sdsIncrLen.
LEMMA ShortenGood ==
  ASSUME NEW b, Good(b), NEW n \in Nat, n <= b.len
  PROVE  /\ Good(PutNul(sdssetlen(b, n), n)) /\ PutNul(sdssetlen(b, n), n).len = n
         /\ \A i \in 1..n : PutNul(sdssetlen(b, n), n).buf[i] = b.buf[i]
<1> DEFINE l == sdssetlen(b, n)
           c == PutNul(l, n)
<1>1. b \in Blocks /\ n <= Capacity[b.type] /\ n <= MaxLen /\ n <= sdsalloc(b)
      /\ n <= Len(b.buf)
  BY GoodTypes, BlockParts
<1>2. /\ l \in Blocks /\ l.type = b.type /\ l.alloc = b.alloc /\ l.room = b.room
      /\ l.len = n /\ n <= Len(l.buf) /\ l.buf = b.buf
  BY <1>1, Headers
<1> HIDE DEF l
<1>3. /\ c \in Blocks /\ c.type = b.type /\ c.alloc = b.alloc /\ c.room = b.room
      /\ c.len = n /\ Len(c.buf) = n + 1 /\ c.buf[n + 1] = NUL
      /\ \A i \in 1..n : c.buf[i] = b.buf[i]
  BY <1>2, PutNulBytes
<1> HIDE DEF c
<1>4. Good(c)
  BY <1>1, <1>3, WrittenGood
<1> QED
  BY <1>3, <1>4 DEF c, l

LEMMA ClearGood ==
  ASSUME NEW b, Good(b)
  PROVE  Good(sdsclear(b)) /\ sdsclear(b).len = 0
  BY GoodTypes, ShortenGood DEF sdsclear

LEMMA PartOfSeq ==
  ASSUME NEW S, NEW t \in Seq(S), NEW i \in 0..Len(t), NEW j \in i..Len(t)
  PROVE  /\ SubSeq(t, i + 1, j) \in Seq(S)
         /\ Len(SubSeq(t, i + 1, j)) = j - i
         /\ \A k \in 1..(j - i) : SubSeq(t, i + 1, j)[k] = t[i + k]
  OBVIOUS

\* The bytes that sdsrange and sdstrim keep are among those there are.
LEMMA KeepGood ==
  ASSUME NEW b, Good(b), NEW at \in Nat, NEW n \in Nat, at + n <= b.len
  PROVE  /\ Good(Keep(b, at, n)) /\ Keep(b, at, n).len = n
         /\ \A i \in 1..n : Keep(b, at, n).buf[i] = b.buf[at + i]
<1> DEFINE t == SubSeq(b.buf, at + 1, at + n)
<1>1. /\ b.len \in Nat /\ b.buf \in Seq(Byte) /\ Len(b.buf) \in Nat /\ b.len < Len(b.buf)
      /\ b.len <= sdsalloc(b) /\ sdsalloc(b) \in Nat /\ MaxLen \in Nat /\ b.len <= MaxLen
  BY GoodTypes
<1>3. t \in Seq(Byte) /\ Len(t) = n /\ \A i \in 1..n : t[i] = b.buf[at + i]
  <2>1. at \in 0..Len(b.buf) /\ at + n \in at..Len(b.buf) /\ (at + n) - at = n
    BY <1>1
  <2>2. /\ t \in Seq(Byte)
        /\ Len(t) = (at + n) - at
        /\ \A i \in 1..((at + n) - at) : t[i] = b.buf[at + i]
    BY <1>1, <2>1, PartOfSeq
  <2> QED
    BY <2>1, <2>2
<1>4. Keep(b, at, n) = sdssetlen(PutNul(Put(b, 0, t), n), n)
  BY DEF Keep
<1> HIDE DEF t
<1>5. n = 0 + Len(t) /\ n <= sdsalloc(b) /\ n <= MaxLen /\ 0 <= Len(b.buf)
  BY <1>1, <1>3
<1>6. Good(Keep(b, at, n)) /\ WrittenAt(Keep(b, at, n), b, 0, t, n)
  BY <1>3, <1>4, <1>5, WriteGood
<1>7. \A i \in 1..n : 0 + i = i
  OBVIOUS
<1> QED
  BY <1>3, <1>5, <1>6, <1>7 DEF WrittenAt

\* What b holds from i to j; nothing when j is before i.
PartOf(c, b, i, j) ==
  /\ c.len = IF i <= j THEN j - i + 1 ELSE 0
  /\ \A k \in 1..c.len : c.buf[k] = b.buf[(i - 1) + k]

LEMMA KeptPart ==
  ASSUME NEW b, Good(b), NEW at \in Nat, NEW n \in Nat, at + n <= b.len
  PROVE  Good(Keep(b, at, n)) /\ PartOf(Keep(b, at, n), b, at + 1, at + n)
<1>1. /\ Good(Keep(b, at, n)) /\ Keep(b, at, n).len = n
      /\ \A k \in 1..n : Keep(b, at, n).buf[k] = b.buf[at + k]
  BY KeepGood
<1>2. n = IF at + 1 <= at + n THEN (at + n) - (at + 1) + 1 ELSE 0
  OBVIOUS
<1>3. (at + 1) - 1 = at
  OBVIOUS
<1> QED
  BY <1>1, <1>2, <1>3 DEF PartOf

LEMMA NothingKept ==
  ASSUME NEW b, Good(b), NEW i \in Int, NEW j \in Int, j < i
  PROVE  Good(Keep(b, 0, 0)) /\ PartOf(Keep(b, 0, 0), b, i, j)
<1>1. b.len \in Nat
  BY GoodTypes
<1>2. Good(Keep(b, 0, 0)) /\ Keep(b, 0, 0).len = 0
  BY <1>1, KeepGood
<1> QED
  BY <1>2 DEF PartOf

\* The number of bytes up to the one an index means, and with it.
Upto(b, i) == IF Offset(b, i) < b.len THEN Offset(b, i) + 1 ELSE b.len

LEMMA RangeGood ==
  ASSUME NEW b, Good(b), NEW first \in Int, NEW to \in Int
  PROVE  /\ Good(sdsrange(b, first, to))
         /\ PartOf(sdsrange(b, first, to), b, Offset(b, first) + 1, Upto(b, to))
<1> DEFINE start == Offset(b, first)
           stop == Offset(b, to)
           end == IF stop >= b.len THEN b.len - 1 ELSE stop
           empty == start > stop \/ start >= b.len \/ start > end
           upto == Upto(b, to)
           c == sdsrange(b, first, to)
<1>1. b.len \in Nat
  BY GoodTypes
<1>2. start \in Nat /\ stop \in Nat
  BY <1>1 DEF Offset
<1>3. c = IF b.len = 0 THEN b ELSE IF empty THEN Keep(b, 0, 0)
          ELSE Keep(b, start, end - start + 1)
  BY DEF sdsrange
<1>4. upto = end + 1
  BY <1>1, <1>2 DEF Upto
<1> HIDE DEF start, stop, c, upto
<1>5. CASE b.len = 0
  <2>1. upto = 0 /\ c = b
    BY <1>2, <1>3, <1>4, <1>5
  <2>2. ~(start + 1 <= 0)
    BY <1>2
  <2> QED
    BY <1>5, <2>1, <2>2 DEF PartOf, c, start, upto
<1>6. CASE b.len # 0 /\ empty
  <2>1. upto < start + 1 /\ upto \in Int /\ start + 1 \in Int
    BY <1>1, <1>2, <1>4, <1>6
  <2>2. c = Keep(b, 0, 0)
    BY <1>3, <1>6
  <2> QED
    BY <2>1, <2>2, NothingKept DEF c, start, upto
<1>7. CASE b.len # 0 /\ ~empty
  <2>1. end - start + 1 \in Nat /\ start + (end - start + 1) <= b.len
    BY <1>1, <1>2, <1>7
  <2>2. c = Keep(b, start, end - start + 1)
    BY <1>3, <1>7
  <2>3. start + (end - start + 1) = upto
    BY <1>1, <1>2, <1>4
  <2> DEFINE n == end - start + 1
  <2>4. n \in Nat /\ start + n <= b.len /\ c = Keep(b, start, n) /\ start + n = upto
    BY <2>1, <2>2, <2>3
  <2> HIDE DEF n
  <2>5. Good(Keep(b, start, n)) /\ PartOf(Keep(b, start, n), b, start + 1, start + n)
    BY <1>2, <2>4, KeptPart
  <2> QED
    BY <2>4, <2>5 DEF c, start, upto
<1> QED
  BY <1>5, <1>6, <1>7

\* What a set trims: all that is before i and behind j, and no more.
Trimmed(b, cset, i, j) ==
  /\ i \in 1..(b.len + 1) /\ j \in 0..b.len
  /\ \A k \in (1..(i - 1)) \cup ((j + 1)..b.len) : b.buf[k] \in cset \cup {NUL}
  /\ i <= j => b.buf[i] \notin cset \cup {NUL} /\ b.buf[j] \notin cset \cup {NUL}

LEMMA TrimGood ==
  ASSUME NEW b, Good(b), NEW cset
  PROVE  /\ Good(sdstrim(b, cset))
         /\ \E i, j : PartOf(sdstrim(b, cset), b, i, j) /\ Trimmed(b, cset, i, j)
<1> DEFINE inner == {i \in 1..b.len : ~InSet(cset, b.buf[i])}
           sp == CHOOSE i \in inner : \A k \in inner : i <= k
           ep == CHOOSE i \in inner : \A k \in inner : k <= i
<1>1. b.len \in Nat
  BY GoodTypes
<1>4. \A k : k \in inner <=> k \in 1..b.len /\ b.buf[k] \notin cset \cup {NUL}
  BY DEF InSet
<1>2. CASE inner = {}
  <2>1. sdstrim(b, cset) = Keep(b, 0, 0)
    BY <1>2 DEF sdstrim
  <2>2. Good(Keep(b, 0, 0)) /\ PartOf(Keep(b, 0, 0), b, 1, 0)
    BY NothingKept
  <2>3. Trimmed(b, cset, 1, 0)
    <3>1. 1 \in 1..(b.len + 1) /\ 0 \in 0..b.len /\ ~(1 <= 0)
      BY <1>1
    <3>2. \A k \in (1..(1 - 1)) \cup ((0 + 1)..b.len) : k \in 1..b.len
      OBVIOUS
    <3> HIDE DEF inner
    <3> QED
      BY <1>2, <1>4, <3>1, <3>2 DEF Trimmed
  <2> QED
    BY <2>1, <2>2, <2>3
<1>3. CASE inner # {}
  <2>1. sdstrim(b, cset) = Keep(b, sp - 1, ep - sp + 1)
    BY <1>3 DEF sdstrim
  <2>2. inner \in SUBSET Nat /\ inner \in SUBSET (0..b.len) /\ inner \in SUBSET (1..b.len)
    BY <1>1
  <2> HIDE DEF inner
  <2>3. \E i \in inner : \A k \in inner : i <= k
    BY <1>3, <2>2, Smallest, Zenon
  <2>4. \E i \in inner : \A k \in inner : k <= i
    BY <1>1, <1>3, <2>2, Largest, Zenon
  <2>5. sp \in inner /\ (\A k \in inner : sp <= k)
    BY <2>3
  <2>6. ep \in inner /\ (\A k \in inner : k <= ep)
    BY <2>4
  <2> HIDE DEF sp, ep
  <2>7. sp \in 1..b.len /\ ep \in 1..b.len /\ sp <= ep
    BY <2>2, <2>5, <2>6
  <2> DEFINE at == sp - 1
             n == ep - sp + 1
  <2>8. at \in Nat /\ n \in Nat /\ at + n <= b.len /\ at + 1 = sp /\ at + n = ep
    BY <1>1, <2>7
  <2> HIDE DEF at, n
  <2>9. Good(Keep(b, at, n)) /\ PartOf(Keep(b, at, n), b, sp, ep)
    BY <2>8, KeptPart
  <2>10. Trimmed(b, cset, sp, ep)
    <3>1. sp \in 1..(b.len + 1) /\ ep \in 0..b.len
      BY <1>1, <2>7
    <3>2. ASSUME NEW k \in (1..(sp - 1)) \cup ((ep + 1)..b.len)
          PROVE  b.buf[k] \in cset \cup {NUL}
      <4>1. k \in 1..b.len /\ (k < sp \/ k > ep)
        BY <1>1, <2>7, <3>2
      <4>2. k \notin inner
        BY <2>2, <2>5, <2>6, <2>7, <4>1
      <4> QED
        BY <1>4, <4>1, <4>2
    <3>3. b.buf[sp] \notin cset \cup {NUL} /\ b.buf[ep] \notin cset \cup {NUL}
      BY <1>4, <2>5, <2>6
    <3> QED
      BY <3>1, <3>2, <3>3 DEF Trimmed
  <2> QED
    BY <2>1, <2>9, <2>10 DEF at, n
<1> QED
  BY <1>2, <1>3

\* Where the first NUL of b is.
EndsAt(b, n) ==
  n \in 0..b.len /\ b.buf[n + 1] = NUL /\ \A i \in 1..n : b.buf[i] # NUL

\* sdsupdatelen: the first NUL is there, as the terminator is one.
LEMMA UpdatelenGood ==
  ASSUME NEW b, Good(b)
  PROVE  /\ Good(sdsupdatelen(b))
         /\ \E n : PartOf(sdsupdatelen(b), b, 1, n) /\ EndsAt(b, n)
<1> DEFINE n == Strlen(b)
           Z == {k \in 0..b.len : b.buf[k + 1] = NUL}
           m == SubSeq(b.buf, 1, n + 1)
           x == [b EXCEPT !.buf = m]
           c == sdssetlen(x, n)
<1>1. /\ b \in Blocks /\ b.len \in Nat /\ b.buf \in Seq(Byte) /\ Len(b.buf) \in Nat
      /\ b.len < Len(b.buf) /\ b.len <= sdsalloc(b) /\ sdsalloc(b) \in Nat
      /\ b.len <= MaxLen /\ MaxLen \in Nat /\ b.len <= Capacity[b.type]
      /\ Capacity[b.type] \in Nat
  BY GoodTypes, BlockParts
<1>2. EndsAt(b, n)
  <2>1. b.buf[b.len + 1] = NUL
    BY DEF Good, WellFormedString
  <2>2. Z \in SUBSET Nat /\ Z # {}
    BY <1>1, <2>1
  <2>3. PICK z \in Z : \A k \in Z : z <= k
    BY <2>2, Smallest, Zenon
  <2>4. z \in 0..b.len /\ b.buf[z + 1] = NUL
    BY <2>3
  <2>5. \A i \in 1..z : b.buf[i] # NUL
    <3>1. SUFFICES ASSUME NEW i \in 1..z, b.buf[i] = NUL PROVE FALSE
      OBVIOUS
    <3>2. i - 1 \in 0..b.len /\ (i - 1) + 1 = i /\ i \in Nat
      BY <1>1, <2>4
    <3>3. i - 1 \in Z
      BY <3>1, <3>2
    <3> QED BY <2>3, <2>4, <3>2, <3>3
  <2> QED
    BY <2>4, <2>5 DEF Strlen, EndsAt
<1>3. sdsupdatelen(b) = c
  BY DEF sdsupdatelen
<1> HIDE DEF n
<1>4. n \in Nat /\ n <= b.len /\ n + 1 \in Nat /\ n + 1 <= Len(b.buf) /\ n + 1 \in 1..(n + 1)
  BY <1>1, <1>2 DEF EndsAt
<1>5. m \in Seq(Byte) /\ Len(m) = n + 1 /\ (\A i \in 1..(n + 1) : m[i] = b.buf[i])
  BY <1>1, <1>4, Prefix
<1>6. m[n + 1] = NUL
  BY <1>2, <1>4, <1>5 DEF EndsAt
<1> HIDE DEF m
<1>7. /\ x \in Blocks /\ x.type = b.type /\ x.alloc = b.alloc /\ x.room = b.room /\ x.buf = m
  BY <1>1, <1>5 DEF Blocks
<1> HIDE DEF x
<1>8. n <= Capacity[x.type]
  BY <1>1, <1>4, <1>7
<1>9. /\ c \in Blocks /\ c.type = b.type /\ c.alloc = b.alloc /\ c.room = b.room
      /\ c.len = n /\ Len(c.buf) = n + 1 /\ c.buf[n + 1] = NUL /\ c.buf = m
  BY <1>4, <1>5, <1>6, <1>7, <1>8, Headers
<1> HIDE DEF c
<1>10. n <= sdsalloc(b) /\ n <= MaxLen
  BY <1>1, <1>4
<1>11. PartOf(c, b, 1, n)
  <2>1. \A i \in 1..n : i \in 1..(n + 1) /\ (1 - 1) + i = i
    BY <1>4
  <2>2. n = IF 1 <= n THEN n - 1 + 1 ELSE 0
    BY <1>4
  <2> QED
    BY <1>5, <1>9, <2>1, <2>2 DEF PartOf
<1>12. Good(c)
  BY <1>1, <1>4, <1>9, <1>10, WrittenGood
<1> QED
  BY <1>2, <1>3, <1>11, <1>12

LEMMA MapcharsGood ==
  ASSUME NEW b, Good(b), NEW from, NEW to \in Byte
  PROVE  /\ Good(sdsmapchars(b, from, to)) /\ sdsmapchars(b, from, to).len = b.len
         /\ \A i \in 1..b.len :
               sdsmapchars(b, from, to).buf[i] = IF b.buf[i] = from THEN to ELSE b.buf[i]
<1> DEFINE m == [i \in 1..Len(b.buf) |->
                   IF i <= b.len /\ b.buf[i] = from THEN to ELSE b.buf[i]]
           c == [b EXCEPT !.buf = m]
<1>1. /\ b \in Blocks /\ b.len \in Nat /\ b.buf \in Seq(Byte) /\ Len(b.buf) \in Nat
      /\ b.len < Len(b.buf)
  BY GoodTypes
<1>2. /\ b.len <= MaxLen /\ b.len <= sdsalloc(b) /\ sdsalloc(b) <= Capacity[b.type]
      /\ sdsalloc(b) < b.room /\ Len(b.buf) <= b.room /\ b.buf[b.len + 1] = NUL
  BY DEF Good, WellFormedString
<1>3. \A i \in 1..Len(b.buf) : b.buf[i] \in Byte
  BY <1>1, ElementOfSeq
<1>4. m \in Seq(Byte) /\ Len(m) = Len(b.buf)
  BY <1>1, <1>3
<1>5. /\ m[b.len + 1] = NUL
      /\ \A i \in 1..b.len : m[i] = IF b.buf[i] = from THEN to ELSE b.buf[i]
  BY <1>1, <1>2
<1> HIDE DEF m
<1>6. /\ c \in Blocks /\ c.type = b.type /\ c.alloc = b.alloc /\ c.room = b.room
      /\ c.len = b.len /\ c.buf = m
  BY <1>1, <1>4 DEF Blocks
<1>7. sdsmapchars(b, from, to) = c
  BY DEF sdsmapchars, m
<1>8. sdsalloc(c) = sdsalloc(b)
  BY <1>6 DEF sdsalloc
<1> HIDE DEF c
<1>9. Good(c)
  <2>1. /\ c.len <= MaxLen /\ c.len <= sdsalloc(c) /\ sdsalloc(c) <= Capacity[c.type]
        /\ sdsalloc(c) < c.room
    BY <1>2, <1>6, <1>8
  <2>2. c.len < Len(c.buf) /\ Len(c.buf) <= c.room /\ c.buf[c.len + 1] = NUL
    BY <1>1, <1>2, <1>4, <1>5, <1>6
  <2> QED BY <1>6, <2>1, <2>2, GoodWhen
<1> QED
  BY <1>5, <1>6, <1>7, <1>9

LEMMA NewGood ==
  ASSUME NEW t \in Seq(Byte), Len(t) <= MaxLen
  PROVE  Good(sdsnewlen(t)) /\ HasBytes(sdsnewlen(t), t)
<1> DEFINE n == Len(t)
           req == sdsReqType(n)
           type == IF req = SDS_TYPE_5 /\ n = 0 THEN SDS_TYPE_8 ELSE req
           k == n + 1
           e == <<>>
           c == [type |-> type, len |-> 0, alloc |-> 0, room |-> k, buf |-> e]
           l == sdssetlen(c, n)
           r == sdssetalloc(l, n)
           p == Put(r, 0, t)
           z == PutNul(p, n)
<1>1. n \in Nat /\ k \in Nat /\ k = n + 1
  BY LenProperties
<1>2. n <= Capacity[4] /\ Capacity[4] \in Nat /\ MaxLen \in Nat
  BY <1>1, SdsAssumption DEF Types
<1>3. req \in Types /\ n <= Capacity[req]
  BY <1>1, <1>2, ReqType
<1>4. sdsnewlen(t) = z
  BY DEF sdsnewlen, Block
<1>5. type \in Types /\ n <= Capacity[type]
  BY <1>1, <1>3, SdsAssumption DEF Types, SDS_TYPE_5, SDS_TYPE_8
<1>6. c = [type |-> type, len |-> 0, alloc |-> 0, room |-> k, buf |-> e]
  OBVIOUS
<1>7. e \in Seq(Byte) /\ Len(e) = 0
  OBVIOUS
<1> HIDE DEF n, k, type, e, c
<1>8. /\ c \in Blocks /\ c.type = type /\ c.room = k /\ c.buf = e
  BY <1>1, <1>5, <1>6, <1>7 DEF Blocks
<1>9. /\ l \in Blocks /\ l.type = type /\ l.room = k /\ l.buf = e /\ l.len = n
  BY <1>1, <1>5, <1>8, Headers
<1> HIDE DEF l
<1>10. /\ r \in Blocks /\ r.type = type /\ r.room = k /\ r.buf = e /\ r.len = n
       /\ type # SDS_TYPE_5 => r.alloc = n
  BY <1>1, <1>5, <1>9, Headers
<1> HIDE DEF r
<1>11. /\ p \in Blocks /\ p.type = type /\ p.room = k /\ p.len = n
       /\ p.alloc = r.alloc /\ Len(p.buf) = 0 + Len(t)
       /\ \A i \in 1..Len(t) : p.buf[0 + i] = t[i]
  BY <1>7, <1>10, PutBytes
<1>12. Len(t) = n
  BY DEF n
<1> HIDE DEF p
<1>13. /\ z \in Blocks /\ z.type = type /\ z.room = k /\ z.len = n
       /\ z.alloc = r.alloc /\ Len(z.buf) = n + 1 /\ z.buf[n + 1] = NUL
       /\ \A i \in 1..n : z.buf[i] = p.buf[i]
  BY <1>1, <1>11, <1>12, PutNulBytes
<1> HIDE DEF z
<1>14. sdsalloc(z) = n
  BY <1>10, <1>13 DEF sdsalloc
<1>15. z.len <= MaxLen /\ sdsalloc(z) <= Capacity[z.type]
  BY <1>5, <1>12, <1>13, <1>14
<1>16. z.len <= sdsalloc(z) /\ sdsalloc(z) < z.room /\ z.len < Len(z.buf) /\ Len(z.buf) <= z.room
  BY <1>1, <1>13, <1>14
<1>17. z.buf[z.len + 1] = NUL
  BY <1>13
<1>18. HasBytes(z, t)
  <2>1. \A i \in 1..n : 0 + i = i
    BY <1>1
  <2>2. \A i \in 1..n : p.buf[i] = t[i]
    BY <1>11, <1>12, <2>1
  <2> QED
    BY <1>12, <1>13, <2>2 DEF HasBytes
<1> QED
  BY <1>4, <1>13, <1>15, <1>16, <1>17, <1>18, GoodWhen

-----------------------------------------------------------------------------
(* The specification.                                                        *)

\* Every call leaves a good block, when it returns it and when it fails.
IInv == Good(s)

LEMMA EmptyGood == Good(sdsnewlen(<<>>))
<1>1. <<>> \in Seq(Byte) /\ Len(<<>>) = 0 /\ 0 <= MaxLen
  BY SdsAssumption
<1> QED
  BY <1>1, NewGood

LEMMA InitGood == Init => IInv
  BY EmptyGood DEF Init, IInv

LEMMA CallGood ==
  ASSUME IInv, NEW c, NEW b, Good(b), Call(c, b)
  PROVE  IInv'
  BY DEF IInv, Call

LEMMA NextGood == IInv /\ [Next]_vars => IInv'
<1> SUFFICES ASSUME IInv, [Next]_vars PROVE IInv'
  OBVIOUS
<1>1. /\ Good(s) /\ s.len \in Nat /\ MaxLen \in Nat /\ s.len <= MaxLen
      /\ s.len < Len(s.buf) /\ sdsavail(s) \in Nat /\ s.len + sdsavail(s) = sdsalloc(s)
      /\ sdsalloc(s) \in Nat /\ Len(s.buf) \in Nat
  BY GoodTypes DEF IInv
<1>2. \A t \in Text : t \in Seq(Byte) /\ Len(t) <= MaxLen /\ Len(t) \in Nat
  BY SdsAssumption, LenProperties
<1>3. Good(sdsnewlen(<<>>))
  BY EmptyGood
<1>4. CASE New
  <2>1. PICK t \in Text : s' = sdsnewlen(t) \/ s' = sdsnewlen(<<>>)
    BY <1>4 DEF New
  <2> QED BY <1>2, <1>3, <2>1, NewGood DEF IInv
<1>5. CASE Free
  BY <1>3, <1>5 DEF Free, IInv
<1>6. CASE Updatelen
  BY <1>1, <1>6, UpdatelenGood, CallGood DEF Updatelen
<1>7. CASE Clear
  BY <1>1, <1>7, ClearGood, CallGood DEF Clear
<1>8. CASE MakeRoomFor
  <2>1. PICK n \in 0..(MaxLen - s.len) : \E c : Call(c, sdsMakeRoomFor(s, n))
    BY <1>8 DEF MakeRoomFor
  <2>2. n \in Int /\ s.len + n \in 0..MaxLen
    BY <1>1
  <2> QED BY <1>1, <2>1, <2>2, MakeRoomGood, CallGood
<1>9. CASE RemoveFreeSpace
  BY <1>1, <1>9, RemoveFreeSpaceGood, CallGood DEF RemoveFreeSpace
<1>10. CASE Growzero
  BY <1>1, <1>10, GrowzeroGood, CallGood DEF Growzero
<1>11. CASE Cat
  BY <1>1, <1>2, <1>11, CatGood, CallGood DEF Cat
<1>12. CASE Cpy
  BY <1>1, <1>2, <1>12, CpyGood, CallGood DEF Cpy
<1>13. CASE Trim
  BY <1>1, <1>13, TrimGood, CallGood DEF Trim
<1>14. CASE Slice
  <2>1. PICK i, j \in -(MaxLen + 1)..(MaxLen + 1) : \E c : Call(c, sdsrange(s, i, j))
    BY <1>14 DEF Slice
  <2>2. i \in Int /\ j \in Int
    BY <1>1
  <2> QED BY <1>1, <2>1, <2>2, RangeGood, CallGood
<1>15. CASE Mapchars
  <2>1. PICK from, to \in UNION Charsets : \E c : Call(c, sdsmapchars(s, from, to))
    BY <1>15 DEF Mapchars
  <2>2. to \in Byte
    BY <2>1, SdsAssumption
  <2> QED BY <1>1, <2>1, <2>2, MapcharsGood, CallGood
<1>16. CASE Read
  <2>1. PICK t \in Text : /\ Len(t) <= sdsavail(s) /\ s.len + Len(t) <= MaxLen
                          /\ \E c : Call(c, sdsIncrLen(Put(s, s.len, t), Len(t)))
    BY <1>16 DEF Read
  <2> DEFINE n == s.len + Len(t)
  <2>2. t \in Seq(Byte) /\ n \in Nat /\ n <= sdsalloc(s) /\ n <= MaxLen /\ s.len <= Len(s.buf)
    BY <1>1, <1>2, <2>1
  <2>3. s \in Blocks
    BY <1>1, GoodTypes
  <2>4. Put(s, s.len, t).len = s.len
    BY <1>1, <2>2, <2>3, PutBytes
  <2>5. sdsIncrLen(Put(s, s.len, t), Len(t)) = PutNul(sdssetlen(Put(s, s.len, t), n), n)
    BY <2>4 DEF sdsIncrLen
  <2>6. Good(sdsIncrLen(Put(s, s.len, t), Len(t)))
    BY <1>1, <2>2, <2>5, WriteGood
  <2> QED BY <2>1, <2>6, CallGood
<1>17. CASE Shorten
  <2>1. PICK n \in 1..MaxLen : MayIncr(s, -n) /\ \E c : Call(c, sdsIncrLen(s, -n))
    BY <1>17 DEF Shorten
  <2>2. n \in Nat /\ n <= s.len /\ s.len + -n \in Nat /\ s.len + -n <= s.len
    BY <1>1, <2>1 DEF MayIncr
  <2>3. Good(sdsIncrLen(s, -n))
    BY <1>1, <2>2, ShortenGood DEF sdsIncrLen
  <2> QED BY <2>1, <2>3, CallGood
<1>18. CASE UNCHANGED vars
  BY <1>18 DEF vars, IInv
<1> QED
  BY <1>4, <1>5, <1>6, <1>7, <1>8, <1>9, <1>10, <1>11, <1>12, <1>13, <1>14, <1>15,
     <1>16, <1>17, <1>18 DEF Next

\* The layout of the block after every sequence of calls, for every set of
\* header types, texts and lengths: what sds.c computes fits the header, stays
\* in the room that was allocated and ends with a NUL.
THEOREM StringsAreWellFormed == Spec => []WellFormed
<1>1. IInv => WellFormed
  BY DEF IInv, Good, WellFormed
<1> QED
  BY <1>1, InitGood, NextGood, PTL DEF Spec

-----------------------------------------------------------------------------
(* What a caller sees of a block.                                            *)

LEMMA HasContent ==
  ASSUME NEW c, Good(c), NEW t \in Seq(Byte), HasBytes(c, t)
  PROVE  Content(c) = t
<1>1. /\ Content(c) \in Seq(Byte) /\ Len(Content(c)) = Len(t)
      /\ \A i \in 1..Len(t) : Content(c)[i] = t[i]
  BY ContentBytes DEF HasBytes
<1> QED
  BY <1>1, SeqEqual

LEMMA SameContent ==
  ASSUME NEW b, Good(b), NEW c, Good(c), SameBytes(c, b)
  PROVE  Content(c) = Content(b)
<1>1. /\ Content(b) \in Seq(Byte) /\ Len(Content(b)) = b.len
      /\ \A i \in 1..b.len : Content(b)[i] = b.buf[i]
  BY ContentBytes
<1> QED
  BY <1>1, HasContent DEF SameBytes, HasBytes

-----------------------------------------------------------------------------
(* SetsScanner.  Numbers and sequences.                                      *)

\* A set of naturals that is not empty has a least element.
LEMMA LeastNatural ==
  ASSUME NEW T \in SUBSET Nat, T # {}
  PROVE  \E x \in T : \A y \in T : x <= y
<1>1. PICK x \in T : \A y \in T : ~ (<<y, x>> \in OpToRel(<, Nat))
  BY NatLessThanWellFounded, WFMin, Zenon
<1>2. \A y \in T : ~ (y < x)
  BY <1>1 DEF OpToRel
<1> QED
  BY <1>2

\* Induction over the naturals, for what holds on a set.
LEMMA AllNaturals ==
  ASSUME NEW T, \A k \in Nat : (\A j \in 0..(k - 1) : j \in T) => k \in T
  PROVE  \A k \in Nat : k \in T
<1> SUFFICES ASSUME NEW e \in Nat, e \notin T PROVE FALSE
  OBVIOUS
<1> DEFINE Out == {k \in Nat : k \notin T}
<1>1. Out \in SUBSET Nat /\ Out # {}
  OBVIOUS
<1> HIDE DEF Out
<1>2. PICK k \in Out : \A y \in Out : k <= y
  BY <1>1, LeastNatural
<1>3. k \in Nat /\ k \notin T
  BY <1>2 DEF Out
<1>4. \A j \in 0..(k - 1) : j \in T
  BY <1>2, <1>3 DEF Out
<1> QED
  BY <1>3, <1>4

\* Elements of a sequence, and of what is left of it.
LEMMA SeqElements ==
  ASSUME NEW S, NEW t \in Seq(S)
  PROVE  Len(t) \in Nat /\ \A i \in 1..Len(t) : t[i] \in S
OBVIOUS

LEMMA SeqRest ==
  ASSUME NEW S, NEW t \in Seq(S), NEW k \in 0..Len(t)
  PROVE  LET r == SubSeq(t, k + 1, Len(t))
         IN  r \in Seq(S) /\ Len(r) = Len(t) - k /\ \A i \in 1..Len(r) : r[i] = t[k + i]
OBVIOUS

LEMMA SeqFront ==
  ASSUME NEW S, NEW t \in Seq(S), NEW k \in 0..Len(t)
  PROVE  LET r == SubSeq(t, 1, k)
         IN  r \in Seq(S) /\ Len(r) = k /\ \A i \in 1..Len(r) : r[i] = t[i]
OBVIOUS

LEMMA SeqInto ==
  ASSUME NEW R, NEW S, NEW t \in Seq(R)
  PROVE  (\A i \in 1..Len(t) : t[i] \in S) => t \in Seq(S)
OBVIOUS

LEMMA SeqJoin ==
  ASSUME NEW S, NEW t \in Seq(S), NEW u \in Seq(S)
  PROVE  /\ t \o u \in Seq(S) /\ Len(t \o u) = Len(t) + Len(u)
         /\ \A i \in 1..Len(t) : (t \o u)[i] = t[i]
         /\ \A i \in 1..Len(u) : (t \o u)[Len(t) + i] = u[i]
OBVIOUS

LEMMA SeqPart ==
  ASSUME NEW S, NEW t \in Seq(S), NEW a \in Nat, NEW d \in Nat, a + d <= Len(t)
  PROVE  /\ SubSeq(t, a + 1, a + d) \in Seq(S) /\ Len(SubSeq(t, a + 1, a + d)) = d
         /\ \A i \in 1..d : SubSeq(t, a + 1, a + d)[i] = t[a + i]
OBVIOUS

LEMMA SameElements ==
  ASSUME NEW S, NEW R, NEW t \in Seq(S), NEW u \in Seq(R), Len(t) = Len(u)
  PROVE  (\A i \in 1..Len(t) : t[i] = u[i]) => t = u
OBVIOUS

-----------------------------------------------------------------------------
(* Loops.  A function that follows next until it comes to a place of stop  *)
(* exists, whether the loop ends or not.                                   *)

Closed(D, stop, next, C) == C \in SUBSET D /\ \A q \in C : q \notin stop => next[q] \in C
Orbit(D, stop, next, p) == {q \in D : \A C : Closed(D, stop, next, C) /\ p \in C => q \in C}

LEMMA OrbitsMeet ==
  ASSUME NEW D, NEW stop, NEW next, NEW p \in D, p \notin stop,
         \A q \in D : q \notin stop => next[q] \in D
  PROVE  Orbit(D, stop, next, p) \cap stop = Orbit(D, stop, next, next[p]) \cap stop
<1>1. ASSUME NEW q \in Orbit(D, stop, next, next[p]) PROVE q \in Orbit(D, stop, next, p)
  BY <1>1 DEF Orbit, Closed
<1>2. ASSUME NEW q \in Orbit(D, stop, next, p), q \in stop
      PROVE  q \in Orbit(D, stop, next, next[p])
  <2>1. SUFFICES ASSUME NEW C, Closed(D, stop, next, C), next[p] \in C PROVE q \in C
    BY DEF Orbit
  <2>2. Closed(D, stop, next, C \cup {p})
    BY <2>1 DEF Closed
  <2>3. q \in C \cup {p}
    BY <2>2 DEF Orbit
  <2> QED
    BY <2>3, <1>2
<1> QED
  BY <1>1, <1>2

LEMMA OrbitOfStop ==
  ASSUME NEW D, NEW stop, NEW next, NEW p \in D, p \in stop
  PROVE  Orbit(D, stop, next, p) \cap stop = {p}
<1>1. Closed(D, stop, next, {p})
  BY DEF Closed
<1> QED
  BY <1>1 DEF Orbit

Leads(D, stop, next) == \A q \in D : q \notin stop => next[q] \in D

LEMMA LoopExists ==
  ASSUME NEW D, NEW stop, NEW next, NEW out, Leads(D, stop, next)
  PROVE  \E f : f = [p \in D |-> IF p \in stop THEN out[p] ELSE f[next[p]]]
<1> USE DEF Leads
<1> DEFINE E(p) == Orbit(D, stop, next, p) \cap stop
           Chosen(S) == CHOOSE x : \E q \in S : x = out[q]
           f == [p \in D |-> Chosen(E(p))]
<1>1. ASSUME NEW p \in D, p \in stop PROVE f[p] = out[p]
  <2>1. E(p) = {p}
    BY <1>1, OrbitOfStop
  <2>2. Chosen({p}) = out[p]
    OBVIOUS
  <2> HIDE DEF E, Chosen
  <2> QED
    BY <2>1, <2>2, <1>1
<1>2. ASSUME NEW p \in D, p \notin stop PROVE f[p] = f[next[p]]
  <2>1. E(p) = E(next[p])
    BY <1>2, OrbitsMeet
  <2>2. next[p] \in D
    BY <1>2
  <2> HIDE DEF E, Chosen
  <2> QED
    BY <2>1, <2>2, <1>2
<1>3. f = [p \in D |-> IF p \in stop THEN out[p] ELSE f[next[p]]]
  <2>1. \A p \in D : f[p] = IF p \in stop THEN out[p] ELSE f[next[p]]
    <3> HIDE DEF f
    <3> QED
      BY <1>1, <1>2
  <2>2. f = [p \in D |-> f[p]]
    <3> HIDE DEF E, Chosen
    <3> QED
      OBVIOUS
  <2> HIDE DEF f
  <2> QED
    BY <2>1, <2>2
<1> HIDE DEF f
<1> QED
  BY <1>3

-----------------------------------------------------------------------------
(* The tables.                                                             *)

At(cell) == Entry(yy_base, cell.state) + cell.class
Own(cell) == Entry(yy_chk, At(cell)) = cell.state
IsNext(f) == f = [cell \in Cell |-> IF Entry(yy_chk, Entry(yy_base, cell.state) + cell.class) = cell.state
                                    THEN Entry(yy_nxt, Entry(yy_base, cell.state) + cell.class)
                                    ELSE f[Elsewhere(cell)]]

LEMMA NextIsChosen == yy_nxt_of = CHOOSE f : IsNext(f)
BY Zenon DEF yy_nxt_of, IsNext

LEMMA ElsewhereIsACell ==
  ASSUME NEW cell \in Cell
  PROVE  Elsewhere(cell) \in Cell
<1>1. \A state \in 0..21 : Entry(yy_def, state) \in 0..21
  BY DEF Entry, yy_def
<1>2. \A c \in 0..13 : Entry(yy_meta, c) \in 0..13
  BY DEF Entry, yy_meta
<1> QED
  BY <1>1, <1>2 DEF Cell, Elsewhere, State

LEMMA NextEquation ==
  ASSUME NEW state \in 0..21, NEW c \in 0..13
  PROVE  LET at == Entry(yy_base, state) + c
             other == Entry(yy_def, state)
         IN  NextState(state, c) =
               IF Entry(yy_chk, at) = state THEN Entry(yy_nxt, at)
               ELSE NextState(other, IF other >= 20 THEN Entry(yy_meta, c) ELSE c)
<1> DEFINE stop == {cell \in Cell : Own(cell)}
           out == [cell \in Cell |-> Entry(yy_nxt, At(cell))]
           next == [cell \in Cell |-> Elsewhere(cell)]
<1>1. Leads(Cell, stop, next)
  BY ElsewhereIsACell DEF Leads
<1>2. PICK f : f = [cell \in Cell |-> IF cell \in stop THEN out[cell] ELSE f[next[cell]]]
  <2> HIDE DEF stop, out, next
  <2> QED
    BY <1>1, LoopExists
<1>3. IsNext(f)
  <2>1. \A cell \in Cell : (IF cell \in stop THEN out[cell] ELSE f[next[cell]])
          = (IF Entry(yy_chk, Entry(yy_base, cell.state) + cell.class) = cell.state
                                    THEN Entry(yy_nxt, Entry(yy_base, cell.state) + cell.class)
                                    ELSE f[Elsewhere(cell)])
    BY DEF Own, At
  <2> HIDE DEF stop, out, next
  <2>2. [cell \in Cell |-> IF cell \in stop THEN out[cell] ELSE f[next[cell]]]
        = [cell \in Cell |-> IF Entry(yy_chk, Entry(yy_base, cell.state) + cell.class) = cell.state
                                    THEN Entry(yy_nxt, Entry(yy_base, cell.state) + cell.class)
                                    ELSE f[Elsewhere(cell)]]
    BY <2>1, Zenon
  <2> QED
    BY <1>2, <2>2, Zenon DEF IsNext
<1>4. IsNext(yy_nxt_of)
  BY <1>3, NextIsChosen, Zenon
<1> DEFINE cell == [state |-> state, class |-> c]
<1>5. cell \in Cell
  BY DEF Cell, State
<1>6. yy_nxt_of[cell] =
        IF Entry(yy_chk, Entry(yy_base, cell.state) + cell.class) = cell.state
        THEN Entry(yy_nxt, Entry(yy_base, cell.state) + cell.class)
        ELSE yy_nxt_of[Elsewhere(cell)]
  <2> HIDE DEF cell
  <2> QED
    BY <1>4, <1>5, Zenon DEF IsNext
<1> QED
  BY <1>6 DEF NextState, Elsewhere, YY_JAMSTATE

Live == {1, 4} \cup 6..17

LEMMA NextOfJam ==
  /\ NextState(19, 0) = 3
  /\ \A c \in 1..13 : NextState(19, c) = 19
<1>1. \A c \in 0..13 : Entry(yy_chk, 42 + c) = 19
  BY DEF Entry, yy_chk
<1>2. Entry(yy_nxt, 42) = 3 /\ \A c \in 1..13 : Entry(yy_nxt, 42 + c) = 19
  BY DEF Entry, yy_nxt
<1>3. Entry(yy_base, 19) = 42
  BY DEF Entry, yy_base
<1> QED
  BY <1>1, <1>2, <1>3, NextEquation

(* What follows a state whose other entries are those of the jam state.    *)
LEMMA Rows ==
  /\ \A c \in 0..13 : NextState(20, c) = IF c = 1 THEN 4 ELSE IF c = 2 THEN 4 ELSE IF c = 0 THEN 3 ELSE 19
  /\ \A c \in 0..13 : NextState(21, c) = IF c = 2 THEN 13 ELSE IF c = 0 THEN 3 ELSE 19
  /\ \A c \in 0..13 : NextState(10, c) = IF c = 4 THEN 11 ELSE IF c = 7 THEN 12 ELSE IF c = 0 THEN 3 ELSE 19
  /\ \A c \in 0..13 : NextState(3, c) = IF c = 0 THEN 19 ELSE 19
  /\ \A c \in 0..13 : NextState(4, c) = IF c = 0 THEN 3 ELSE 19
  /\ \A c \in 0..13 : NextState(5, c) = IF c = 0 THEN 3 ELSE 19
  /\ \A c \in 0..13 : NextState(6, c) = IF c = 11 THEN 7 ELSE IF c = 0 THEN 3 ELSE 19
  /\ \A c \in 0..13 : NextState(7, c) = IF c = 13 THEN 8 ELSE IF c = 0 THEN 3 ELSE 19
  /\ \A c \in 0..13 : NextState(8, c) = IF c = 4 THEN 9 ELSE IF c = 0 THEN 3 ELSE 19
  /\ \A c \in 0..13 : NextState(9, c) = IF c = 4 THEN 9 ELSE IF c = 8 THEN 10 ELSE IF c = 0 THEN 3 ELSE 19
  /\ \A c \in 0..13 : NextState(14, c) = IF c = 6 THEN 15 ELSE IF c = 0 THEN 3 ELSE 19
  /\ \A c \in 0..13 : NextState(15, c) = IF c = 5 THEN 16 ELSE IF c = 6 THEN 15 ELSE IF c = 0 THEN 3 ELSE 19
  /\ \A c \in 0..13 : NextState(16, c) = IF c = 6 THEN 17 ELSE IF c = 0 THEN 3 ELSE 19
  /\ \A c \in 0..13 : NextState(17, c) = IF c = 5 THEN 16 ELSE IF c = 6 THEN 17
                                         ELSE IF c = 10 THEN 18 ELSE IF c = 0 THEN 3 ELSE 19
  /\ \A c \in 0..13 : NextState(18, c) = IF c = 0 THEN 3 ELSE 19
<1>1. \A c \in 0..13 : NextState(20, c) = IF c = 1 THEN 4 ELSE IF c = 2 THEN 4 ELSE IF c = 0 THEN 3 ELSE 19
  <2>1. Entry(yy_base, 20) = 39 /\ Entry(yy_def, 20) = 19
    BY DEF Entry, yy_base, yy_def
  <2>2. \A c \in 0..13 : Entry(yy_chk, 39 + c) = 20 <=> c \in {1, 2}
    BY DEF Entry, yy_chk
  <2>3. Entry(yy_nxt, 40) = 4 /\ Entry(yy_nxt, 41) = 4
    BY DEF Entry, yy_nxt
  <2> QED
    BY <2>1, <2>2, <2>3, NextEquation, NextOfJam
<1>2. \A c \in 0..13 : NextState(21, c) = IF c = 2 THEN 13 ELSE IF c = 0 THEN 3 ELSE 19
  <2>1. Entry(yy_base, 21) = 0 /\ Entry(yy_def, 21) = 19
    BY DEF Entry, yy_base, yy_def
  <2>2. \A c \in 0..13 : Entry(yy_chk, 0 + c) = 21 <=> c \in {2}
    BY DEF Entry, yy_chk
  <2>3. Entry(yy_nxt, 2) = 13
    BY DEF Entry, yy_nxt
  <2> QED
    BY <2>1, <2>2, <2>3, NextEquation, NextOfJam
<1>3. \A c \in 0..13 : NextState(10, c) = IF c = 4 THEN 11 ELSE IF c = 7 THEN 12 ELSE IF c = 0 THEN 3 ELSE 19
  <2>1. Entry(yy_base, 10) = 24 /\ Entry(yy_def, 10) = 19
    BY DEF Entry, yy_base, yy_def
  <2>2. \A c \in 0..13 : Entry(yy_chk, 24 + c) = 10 <=> c \in {4, 7}
    BY DEF Entry, yy_chk
  <2>3. Entry(yy_nxt, 28) = 11 /\ Entry(yy_nxt, 31) = 12
    BY DEF Entry, yy_nxt
  <2> QED
    BY <2>1, <2>2, <2>3, NextEquation, NextOfJam
<1>4. \A c \in 0..13 : NextState(3, c) = IF c = 0 THEN 19 ELSE 19
  <2>1. Entry(yy_base, 3) = 16 /\ Entry(yy_def, 3) = 19
    BY DEF Entry, yy_base, yy_def
  <2>2. \A c \in 0..13 : Entry(yy_chk, 16 + c) = 3 <=> c \in {0}
    BY DEF Entry, yy_chk
  <2>3. Entry(yy_nxt, 16) = 19
    BY DEF Entry, yy_nxt
  <2> QED
    BY <2>1, <2>2, <2>3, NextEquation, NextOfJam
<1>5. \A c \in 0..13 : NextState(4, c) = IF c = 0 THEN 3 ELSE 19
  <2>1. Entry(yy_base, 4) = 42 /\ Entry(yy_def, 4) = 19
    BY DEF Entry, yy_base, yy_def
  <2>2. \A c \in 0..13 : Entry(yy_chk, 42 + c) = 4 <=> c \in {}
    BY DEF Entry, yy_chk
  <2> QED
    BY <2>1, <2>2, NextEquation, NextOfJam
<1>6. \A c \in 0..13 : NextState(5, c) = IF c = 0 THEN 3 ELSE 19
  <2>1. Entry(yy_base, 5) = 42 /\ Entry(yy_def, 5) = 19
    BY DEF Entry, yy_base, yy_def
  <2>2. \A c \in 0..13 : Entry(yy_chk, 42 + c) = 5 <=> c \in {}
    BY DEF Entry, yy_chk
  <2> QED
    BY <2>1, <2>2, NextEquation, NextOfJam
<1>7. \A c \in 0..13 : NextState(6, c) = IF c = 11 THEN 7 ELSE IF c = 0 THEN 3 ELSE 19
  <2>1. Entry(yy_base, 6) = 4 /\ Entry(yy_def, 6) = 19
    BY DEF Entry, yy_base, yy_def
  <2>2. \A c \in 0..13 : Entry(yy_chk, 4 + c) = 6 <=> c \in {11}
    BY DEF Entry, yy_chk
  <2>3. Entry(yy_nxt, 15) = 7
    BY DEF Entry, yy_nxt
  <2> QED
    BY <2>1, <2>2, <2>3, NextEquation, NextOfJam
<1>8. \A c \in 0..13 : NextState(7, c) = IF c = 13 THEN 8 ELSE IF c = 0 THEN 3 ELSE 19
  <2>1. Entry(yy_base, 7) = 1 /\ Entry(yy_def, 7) = 19
    BY DEF Entry, yy_base, yy_def
  <2>2. \A c \in 0..13 : Entry(yy_chk, 1 + c) = 7 <=> c \in {13}
    BY DEF Entry, yy_chk
  <2>3. Entry(yy_nxt, 14) = 8
    BY DEF Entry, yy_nxt
  <2> QED
    BY <2>1, <2>2, <2>3, NextEquation, NextOfJam
<1>9. \A c \in 0..13 : NextState(8, c) = IF c = 4 THEN 9 ELSE IF c = 0 THEN 3 ELSE 19
  <2>1. Entry(yy_base, 8) = 7 /\ Entry(yy_def, 8) = 19
    BY DEF Entry, yy_base, yy_def
  <2>2. \A c \in 0..13 : Entry(yy_chk, 7 + c) = 8 <=> c \in {4}
    BY DEF Entry, yy_chk
  <2>3. Entry(yy_nxt, 11) = 9
    BY DEF Entry, yy_nxt
  <2> QED
    BY <2>1, <2>2, <2>3, NextEquation, NextOfJam
<1>10. \A c \in 0..13 : NextState(9, c) = IF c = 4 THEN 9 ELSE IF c = 8 THEN 10 ELSE IF c = 0 THEN 3 ELSE 19
  <2>1. Entry(yy_base, 9) = 19 /\ Entry(yy_def, 9) = 19
    BY DEF Entry, yy_base, yy_def
  <2>2. \A c \in 0..13 : Entry(yy_chk, 19 + c) = 9 <=> c \in {4, 8}
    BY DEF Entry, yy_chk
  <2>3. Entry(yy_nxt, 23) = 9 /\ Entry(yy_nxt, 27) = 10
    BY DEF Entry, yy_nxt
  <2> QED
    BY <2>1, <2>2, <2>3, NextEquation, NextOfJam
<1>11. \A c \in 0..13 : NextState(14, c) = IF c = 6 THEN 15 ELSE IF c = 0 THEN 3 ELSE 19
  <2>1. Entry(yy_base, 14) = 1 /\ Entry(yy_def, 14) = 19
    BY DEF Entry, yy_base, yy_def
  <2>2. \A c \in 0..13 : Entry(yy_chk, 1 + c) = 14 <=> c \in {6}
    BY DEF Entry, yy_chk
  <2>3. Entry(yy_nxt, 7) = 15
    BY DEF Entry, yy_nxt
  <2> QED
    BY <2>1, <2>2, <2>3, NextEquation, NextOfJam
<1>12. \A c \in 0..13 : NextState(15, c) = IF c = 5 THEN 16 ELSE IF c = 6 THEN 15 ELSE IF c = 0 THEN 3 ELSE 19
  <2>1. Entry(yy_base, 15) = 27 /\ Entry(yy_def, 15) = 19
    BY DEF Entry, yy_base, yy_def
  <2>2. \A c \in 0..13 : Entry(yy_chk, 27 + c) = 15 <=> c \in {5, 6}
    BY DEF Entry, yy_chk
  <2>3. Entry(yy_nxt, 32) = 16 /\ Entry(yy_nxt, 33) = 15
    BY DEF Entry, yy_nxt
  <2> QED
    BY <2>1, <2>2, <2>3, NextEquation, NextOfJam
<1>13. \A c \in 0..13 : NextState(16, c) = IF c = 6 THEN 17 ELSE IF c = 0 THEN 3 ELSE 19
  <2>1. Entry(yy_base, 16) = 0 /\ Entry(yy_def, 16) = 19
    BY DEF Entry, yy_base, yy_def
  <2>2. \A c \in 0..13 : Entry(yy_chk, 0 + c) = 16 <=> c \in {6}
    BY DEF Entry, yy_chk
  <2>3. Entry(yy_nxt, 6) = 17
    BY DEF Entry, yy_nxt
  <2> QED
    BY <2>1, <2>2, <2>3, NextEquation, NextOfJam
<1>14. \A c \in 0..13 : NextState(17, c) = IF c = 5 THEN 16 ELSE IF c = 6 THEN 17
                                          ELSE IF c = 10 THEN 18 ELSE IF c = 0 THEN 3 ELSE 19
  <2>1. Entry(yy_base, 17) = 29 /\ Entry(yy_def, 17) = 19
    BY DEF Entry, yy_base, yy_def
  <2>2. \A c \in 0..13 : Entry(yy_chk, 29 + c) = 17 <=> c \in {5, 6, 10}
    BY DEF Entry, yy_chk
  <2>3. Entry(yy_nxt, 34) = 16 /\ Entry(yy_nxt, 35) = 17 /\ Entry(yy_nxt, 39) = 18
    BY DEF Entry, yy_nxt
  <2> QED
    BY <2>1, <2>2, <2>3, NextEquation, NextOfJam
<1>15. \A c \in 0..13 : NextState(18, c) = IF c = 0 THEN 3 ELSE 19
  <2>1. Entry(yy_base, 18) = 42 /\ Entry(yy_def, 18) = 19
    BY DEF Entry, yy_base, yy_def
  <2>2. \A c \in 0..13 : Entry(yy_chk, 42 + c) = 18 <=> c \in {}
    BY DEF Entry, yy_chk
  <2> QED
    BY <2>1, <2>2, NextEquation, NextOfJam
<1> QED
  BY <1>1, <1>2, <1>3, <1>4, <1>5, <1>6, <1>7, <1>8, <1>9, <1>10, <1>11, <1>12, <1>13, <1>14, <1>15, Zenon

(* What follows a state that has the entries of such a state, or of a      *)
(* template, for those that are not its own.                               *)
LEMMA RowsOfOthers ==
  /\ \A c \in 0..13 : NextState(11, c) = NextState(10, c)
  /\ \A c \in 0..13 : NextState(12, c) = IF c = 9 THEN 14 ELSE NextState(21, Entry(yy_meta, c))
  /\ \A c \in 0..13 : NextState(13, c) = IF c = 9 THEN 14 ELSE NextState(21, Entry(yy_meta, c))
  /\ \A c \in 0..13 : NextState(1, c) =
       IF c = 3 THEN 5 ELSE IF c = 12 THEN 6 ELSE NextState(20, Entry(yy_meta, c))
<1>1. \A c \in 0..13 : NextState(11, c) = NextState(10, c)
  <2>1. Entry(yy_base, 11) = 0 /\ Entry(yy_def, 11) = 10
    BY DEF Entry, yy_base, yy_def
  <2>2. \A c \in 0..13 : Entry(yy_chk, 0 + c) # 11
    BY DEF Entry, yy_chk
  <2> QED
    BY <2>1, <2>2, NextEquation
<1>2. \A c \in 0..13 : NextState(12, c) = IF c = 9 THEN 14 ELSE NextState(21, Entry(yy_meta, c))
  <2>1. Entry(yy_base, 12) = 1 /\ Entry(yy_def, 12) = 21
    BY DEF Entry, yy_base, yy_def
  <2>2. \A c \in 0..13 : Entry(yy_chk, 1 + c) = 12 <=> c = 9
    BY DEF Entry, yy_chk
  <2>3. Entry(yy_nxt, 10) = 14
    BY DEF Entry, yy_nxt
  <2> QED
    BY <2>1, <2>2, <2>3, NextEquation
<1>3. \A c \in 0..13 : NextState(13, c) = IF c = 9 THEN 14 ELSE NextState(21, Entry(yy_meta, c))
  <2>1. Entry(yy_base, 13) = 0 /\ Entry(yy_def, 13) = 21
    BY DEF Entry, yy_base, yy_def
  <2>2. \A c \in 0..13 : Entry(yy_chk, 0 + c) = 13 <=> c = 9
    BY DEF Entry, yy_chk
  <2>3. Entry(yy_nxt, 9) = 14
    BY DEF Entry, yy_nxt
  <2> QED
    BY <2>1, <2>2, <2>3, NextEquation
<1>4. \A c \in 0..13 : NextState(1, c) =
       IF c = 3 THEN 5 ELSE IF c = 12 THEN 6 ELSE NextState(20, Entry(yy_meta, c))
  <2>1. Entry(yy_base, 1) = 0 /\ Entry(yy_def, 1) = 20
    BY DEF Entry, yy_base, yy_def
  <2>2. \A c \in 0..13 : Entry(yy_chk, 0 + c) = 1 <=> c \in {3, 12}
    BY DEF Entry, yy_chk
  <2>3. Entry(yy_nxt, 3) = 5 /\ Entry(yy_nxt, 12) = 6
    BY DEF Entry, yy_nxt
  <2> QED
    BY <2>1, <2>2, <2>3, NextEquation
<1> QED
  BY <1>1, <1>2, <1>3, <1>4, Zenon

(* What the tables say of the states a token goes through: the end of the  *)
(* buffer leads to the state that reports it, the first byte to a state    *)
(* that accepts, and a newline is no part of a longer token.               *)
LEMMA Transitions ==
  /\ \A state \in Live : NextState(state, 0) = 3
  /\ \A c \in 0..13 : NextState(3, c) = 19
  /\ \A c \in 1..13 : NextState(1, c) \in {4, 5, 6}
  /\ \A state \in Live : \A c \in 1..13 : state # 1 => NextState(state, c) \in 7..19
  /\ \A state \in Live : NextState(state, 3) \notin Live
  /\ \A state \in Live : state # 1 => NextState(state, YY_NUL_EC) = YY_JAMSTATE
  /\ NextState(1, YY_NUL_EC) = 4
<1>1. Entry(yy_meta, 0) = 0 /\ Entry(yy_meta, 1) = 1 /\ Entry(yy_meta, 3) = 1
      /\ \A c \in 1..13 : Entry(yy_meta, c) \in {1, 2}
  BY DEF Entry, yy_meta
<1>2. /\ NextState(20, 0) = 3 /\ NextState(20, 1) = 4 /\ NextState(20, 2) = 4
      /\ NextState(21, 0) = 3 /\ NextState(21, 1) = 19 /\ NextState(21, 2) = 13
  BY Rows
<1>3. NextState(1, 0) = 3 /\ NextState(1, 1) = 4 /\ NextState(1, 3) = 5
      /\ \A c \in 1..13 : NextState(1, c) \in {4, 5, 6}
  BY <1>1, <1>2, RowsOfOthers
<1>4. ASSUME NEW state \in {4} \cup 6..17
      PROVE  /\ NextState(state, 0) = 3 /\ NextState(state, 1) = 19 /\ NextState(state, 3) = 19
             /\ \A c \in 1..13 : NextState(state, c) \in 7..19
  <2>1. CASE state \in {11, 12, 13}
    <3>1. NextState(10, 0) = 3 /\ NextState(10, 1) = 19 /\ NextState(10, 3) = 19
          /\ \A c \in 1..13 : NextState(10, c) \in 7..19
      BY Rows
    <3> QED
      BY <2>1, <3>1, <1>1, <1>2, RowsOfOthers
  <2>2. CASE state \in {4, 6, 7, 8, 9, 10}
    BY <2>2, Rows
  <2>3. CASE state \in {14, 15, 16, 17}
    BY <2>3, Rows
  <2> QED
    BY <2>1, <2>2, <2>3
<1>5. \A c \in 0..13 : NextState(3, c) = 19
  BY Rows
<1> QED
  BY <1>3, <1>4, <1>5 DEF Live, YY_NUL_EC, YY_JAMSTATE

(* Where a token stops, and with which rule.                               *)
LEMMA Stops ==
  /\ \A state \in 3..19 : state \notin Going <=> state \in {4, 5, 18, 19}
  /\ \A state \in 0..19 : Accepts(state) <=> state \in {3, 4, 5, 6, 18}
  /\ \A state \in {3, 4, 5, 6, 18} : Entry(yy_accept, state) \in 1..4
  /\ \A state \in {3, 4, 5, 6, 18} : Entry(yy_accept, state) = YY_END_OF_BUFFER <=> state = 3
  /\ \A state \in {3, 4, 5, 6, 18} : Entry(yy_accept, state) = 1 <=> state = 18
  /\ \A state \in {3, 4, 5, 6, 18} : Entry(yy_accept, state) = 3 <=> state = 5
<1>1. \A state \in 3..19 : state \notin Going <=> state \in {4, 5, 18, 19}
  <2>1. \A state \in 3..19 : Entry(yy_base, state) = YY_JAMBASE <=> state \in {4, 5, 18, 19}
    BY DEF Entry, yy_base, YY_JAMBASE
  <2> QED
    BY <2>1 DEF Going, State
<1>2. \A state \in 0..19 : Accepts(state) <=> state \in {3, 4, 5, 6, 18}
  BY DEF Entry, Accepts, yy_accept
<1>3. /\ \A state \in {3, 4, 5, 6, 18} : Entry(yy_accept, state) \in 1..4
      /\ \A state \in {3, 4, 5, 6, 18} : Entry(yy_accept, state) = YY_END_OF_BUFFER <=> state = 3
      /\ \A state \in {3, 4, 5, 6, 18} : Entry(yy_accept, state) = 1 <=> state = 18
      /\ \A state \in {3, 4, 5, 6, 18} : Entry(yy_accept, state) = 3 <=> state = 5
  BY DEF Entry, yy_accept, YY_END_OF_BUFFER
<1> QED
  BY <1>1, <1>2, <1>3

LEMMA Classes ==
  /\ yy_ec(0) = 0
  /\ \A c \in 1..255 : yy_ec(c) \in 1..13 /\ (yy_ec(c) = 3 <=> c = 10)
<1>1. yy_ec(0) = 0
  BY DEF yy_ec
<1>2. ASSUME NEW c \in 1..255 PROVE yy_ec(c) \in 1..13 /\ (yy_ec(c) = 3 <=> c = 10)
  <2>1. CASE c \in {9, 10, 32, 44, 61}
    <3>1. yy_ec(9) = 2 /\ yy_ec(10) = 3 /\ yy_ec(32) = 4 /\ yy_ec(44) = 5 /\ yy_ec(61) = 7
      BY DEF yy_ec
    <3> QED
      BY <2>1, <3>1
  <2>2. CASE c \in {83, 91, 93, 101, 108, 116}
    <3>1. /\ yy_ec(83) = 8 /\ yy_ec(91) = 9 /\ yy_ec(93) = 10 /\ yy_ec(101) = 11
          /\ yy_ec(108) = 12 /\ yy_ec(116) = 13
      BY DEF yy_ec
    <3> QED
      BY <2>2, <3>1
  <2>3. CASE c \in 48..57
    <3>1. yy_ec(c) = 6
      BY <2>3 DEF yy_ec
    <3> QED
      BY <2>3, <3>1
  <2>4. CASE c \notin {9, 10, 32, 44, 61, 83, 91, 93, 101, 108, 116} \cup 48..57
    <3>1. yy_ec(c) = 1
      BY <2>4 DEF yy_ec
    <3> QED
      BY <2>4, <3>1
  <2> QED
    BY <2>1, <2>2, <2>3, <2>4
<1> QED
  BY <1>1, <1>2

-----------------------------------------------------------------------------
(* The loops over the buffer.                                              *)

LEMMA StepToAPlace ==
  ASSUME NEW p \in Place, NEW class, Step(p, class).state \in State
  PROVE  Step(p, class) \in Place
BY DEF Step, Saved, Place, State

NextPlace(ch, p) == Step(p, yy_ec(Entry(ch, p.cp)))
IsMatching(ch, f) ==
  f = [p \in Place |-> IF NextPlace(ch, p).state \in Going THEN f[NextPlace(ch, p)]
                              ELSE NextPlace(ch, p)]

LEMMA MatchIsChosen ==
  ASSUME NEW ch, NEW place
  PROVE  yy_match(ch, place) = (CHOOSE f : IsMatching(ch, f))[place]
BY Zenon DEF yy_match, IsMatching, NextPlace

LEMMA MatchEquation ==
  ASSUME NEW ch
  PROVE  \E f : /\ IsMatching(ch, f)
                /\ \A place : yy_match(ch, place) = f[place]
<1> DEFINE stop == {p \in Place : NextPlace(ch, p).state \notin Going}
           next == [p \in Place |-> NextPlace(ch, p)]
<1>1. Leads(Place, stop, next)
  BY StepToAPlace DEF Leads, NextPlace, Going
<1>2. PICK f : f = [p \in Place |-> IF p \in stop THEN next[p] ELSE f[next[p]]]
  <2> HIDE DEF stop, next
  <2> QED
    BY <1>1, LoopExists
<1>3. IsMatching(ch, f)
  <2>1. \A p \in Place : (IF p \in stop THEN next[p] ELSE f[next[p]])
          = (IF NextPlace(ch, p).state \in Going THEN f[NextPlace(ch, p)] ELSE NextPlace(ch, p))
    OBVIOUS
  <2> HIDE DEF stop, next
  <2>2. [p \in Place |-> IF p \in stop THEN next[p] ELSE f[next[p]]]
          = [p \in Place |-> IF NextPlace(ch, p).state \in Going THEN f[NextPlace(ch, p)]
                              ELSE NextPlace(ch, p)]
    BY <2>1, Zenon
  <2> QED
    BY <1>2, <2>2, Zenon DEF IsMatching
<1> QED
  BY <1>3, MatchIsChosen, Zenon

Class(c) == IF c = 0 THEN YY_NUL_EC ELSE yy_ec(c)
PlaceAfter(ch, p) == Step(p, Class(Entry(ch, p.cp)))
IsRetracing(ch, end, f) ==
  f = [p \in Place |-> IF p.cp < end /\ PlaceAfter(ch, p).state \in State
                              THEN f[PlaceAfter(ch, p)] ELSE p]
Beginning(start) == [cp |-> start, state |-> yystart, last |-> last]

LEMMA RetraceIsChosen ==
  ASSUME NEW ch, NEW start, NEW end
  PROVE  yy_get_previous_state(ch, start, end) = (CHOOSE f : IsRetracing(ch, end, f))[Beginning(start)]
BY Zenon DEF yy_get_previous_state, IsRetracing, PlaceAfter, Class, Beginning

LEMMA RetraceEquation ==
  ASSUME NEW ch, NEW end
  PROVE  \E f : /\ IsRetracing(ch, end, f)
                /\ \A start : yy_get_previous_state(ch, start, end) = f[Beginning(start)]
<1> DEFINE stop == {p \in Place : ~(p.cp < end /\ PlaceAfter(ch, p).state \in State)}
           out == [p \in Place |-> p]
           next == [p \in Place |-> PlaceAfter(ch, p)]
<1>1. Leads(Place, stop, next)
  BY StepToAPlace DEF Leads, PlaceAfter
<1>2. PICK f : f = [p \in Place |-> IF p \in stop THEN out[p] ELSE f[next[p]]]
  <2> HIDE DEF stop, next, out
  <2> QED
    BY <1>1, LoopExists
<1>3. IsRetracing(ch, end, f)
  <2>1. \A p \in Place : (IF p \in stop THEN out[p] ELSE f[next[p]])
          = (IF p.cp < end /\ PlaceAfter(ch, p).state \in State THEN f[PlaceAfter(ch, p)] ELSE p)
    OBVIOUS
  <2> HIDE DEF stop, next, out
  <2>2. [p \in Place |-> IF p \in stop THEN out[p] ELSE f[next[p]]]
          = [p \in Place |-> IF p.cp < end /\ PlaceAfter(ch, p).state \in State
                              THEN f[PlaceAfter(ch, p)] ELSE p]
    BY <2>1, Zenon
  <2> QED
    BY <1>2, <2>2, Zenon DEF IsRetracing
<1> QED
  BY <1>3, RetraceIsChosen, Zenon

-----------------------------------------------------------------------------
(* Which byte takes the automaton further into a set.                      *)

Advances(state, c, next) ==
  \/ state = 1 /\ c = 108 /\ next = 6
  \/ state = 6 /\ c = 101 /\ next = 7
  \/ state = 7 /\ c = 116 /\ next = 8
  \/ state \in {8, 9} /\ c = 32 /\ next = 9
  \/ state = 9 /\ c = 83 /\ next = 10
  \/ state \in {10, 11} /\ c = 32 /\ next = 11
  \/ state \in {10, 11} /\ c = 61 /\ next = 12
  \/ state \in {12, 13} /\ c \in {32, 9} /\ next = 13
  \/ state \in {12, 13} /\ c = 91 /\ next = 14
  \/ state \in {14, 15} /\ c \in Digit /\ next = 15
  \/ state \in {15, 17} /\ c = 44 /\ next = 16
  \/ state \in {16, 17} /\ c \in Digit /\ next = 17
  \/ state = 17 /\ c = 93 /\ next = 18

LEMMA ClassesOfBytes ==
  \A c \in 0..255 :
    /\ Class(c) \in 1..13
    /\ Class(c) = 2 <=> c = 9
    /\ Class(c) = 3 <=> c = 10
    /\ Class(c) = 4 <=> c = 32
    /\ Class(c) = 5 <=> c = 44
    /\ Class(c) = 6 <=> c \in Digit
    /\ Class(c) = 7 <=> c = 61
    /\ Class(c) = 8 <=> c = 83
    /\ Class(c) = 9 <=> c = 91
    /\ Class(c) = 10 <=> c = 93
    /\ Class(c) = 11 <=> c = 101
    /\ Class(c) = 12 <=> c = 108
    /\ Class(c) = 13 <=> c = 116
<1>1. SUFFICES ASSUME NEW c \in 0..255
      PROVE  Class(c) = IF c = 9 THEN 2 ELSE IF c = 10 THEN 3 ELSE IF c = 32 THEN 4
                        ELSE IF c = 44 THEN 5 ELSE IF c \in 48..57 THEN 6 ELSE IF c = 61 THEN 7
                        ELSE IF c = 83 THEN 8 ELSE IF c = 91 THEN 9 ELSE IF c = 93 THEN 10
                        ELSE IF c = 101 THEN 11 ELSE IF c = 108 THEN 12 ELSE IF c = 116 THEN 13
                        ELSE 1
  BY DEF Digit
<1>2. CASE c \in {9, 10, 32, 44, 61}
  <2>1. yy_ec(9) = 2 /\ yy_ec(10) = 3 /\ yy_ec(32) = 4 /\ yy_ec(44) = 5 /\ yy_ec(61) = 7
    BY DEF yy_ec
  <2> QED
    BY <1>2, <2>1 DEF Class
<1>3. CASE c \in {83, 91, 93, 101, 108, 116}
  <2>1. /\ yy_ec(83) = 8 /\ yy_ec(91) = 9 /\ yy_ec(93) = 10 /\ yy_ec(101) = 11
        /\ yy_ec(108) = 12 /\ yy_ec(116) = 13
    BY DEF yy_ec
  <2> QED
    BY <1>3, <2>1 DEF Class
<1>4. CASE c \in 48..57
  <2>1. yy_ec(c) = 6
    BY <1>4 DEF yy_ec
  <2> QED
    BY <1>4, <2>1 DEF Class
<1>5. CASE c \notin {9, 10, 32, 44, 61, 83, 91, 93, 101, 108, 116} \cup 48..57
  <2>1. c # 0 => yy_ec(c) = 1
    BY <1>5 DEF yy_ec
  <2> QED
    BY <1>5, <2>1 DEF Class, YY_NUL_EC
<1> QED
  BY <1>2, <1>3, <1>4, <1>5

LEMMA BytesAdvance ==
  ASSUME NEW state \in Live, NEW c \in 0..255, NEW next \in 6..18
  PROVE  NextState(state, Class(c)) = next <=> Advances(state, c, next)
<1>1. PICK k \in 1..13 : k = Class(c)
  BY ClassesOfBytes
<1>2. /\ k = 2 <=> c = 9
      /\ k = 4 <=> c = 32
      /\ k = 5 <=> c = 44
      /\ k = 6 <=> c \in Digit
      /\ k = 7 <=> c = 61
      /\ k = 8 <=> c = 83
      /\ k = 9 <=> c = 91
      /\ k = 10 <=> c = 93
      /\ k = 11 <=> c = 101
      /\ k = 12 <=> c = 108
      /\ k = 13 <=> c = 116
  BY <1>1, ClassesOfBytes
<1>3. /\ Entry(yy_meta, k) \in {1, 2}
      /\ k # 9 => (Entry(yy_meta, k) = 2 <=> k \in {2, 4})
  BY DEF Entry, yy_meta
<1>4. /\ NextState(20, 1) = 4 /\ NextState(20, 2) = 4
      /\ NextState(21, 1) = 19 /\ NextState(21, 2) = 13
  BY Rows
<1>5. CASE state = 1
  <2>1. NextState(1, k) = IF k = 3 THEN 5 ELSE IF k = 12 THEN 6 ELSE 4
    BY <1>3, <1>4, RowsOfOthers
  <2> QED
    BY <2>1, <1>1, <1>2, <1>5 DEF Advances
<1>6. CASE state \in {4, 6, 7, 8, 9}
  <2>1. NextState(state, k) =
          IF state = 6 /\ k = 11 THEN 7 ELSE IF state = 7 /\ k = 13 THEN 8
          ELSE IF state \in {8, 9} /\ k = 4 THEN 9 ELSE IF state = 9 /\ k = 8 THEN 10 ELSE 19
    BY <1>6, Rows
  <2> QED
    BY <2>1, <1>1, <1>2, <1>6 DEF Advances
<1>7. CASE state \in {10, 11}
  <2>1. NextState(state, k) = IF k = 4 THEN 11 ELSE IF k = 7 THEN 12 ELSE 19
    BY <1>7, Rows, RowsOfOthers
  <2> QED
    BY <2>1, <1>1, <1>2, <1>7 DEF Advances
<1>8. CASE state \in {12, 13}
  <2>1. NextState(state, k) = IF k = 9 THEN 14 ELSE IF k \in {2, 4} THEN 13 ELSE 19
    BY <1>8, <1>3, <1>4, RowsOfOthers
  <2> QED
    BY <2>1, <1>1, <1>2, <1>8 DEF Advances
<1>9. CASE state \in {14, 15, 16}
  <2>1. NextState(state, k) =
          IF state \in {14, 15} /\ k = 6 THEN 15 ELSE IF state = 15 /\ k = 5 THEN 16
          ELSE IF state = 16 /\ k = 6 THEN 17 ELSE 19
    BY <1>9, Rows
  <2> QED
    BY <2>1, <1>1, <1>2, <1>9 DEF Advances
<1>10. CASE state = 17
  <2>1. NextState(17, k) = IF k = 5 THEN 16 ELSE IF k = 6 THEN 17 ELSE IF k = 10 THEN 18 ELSE 19
    BY Rows
  <2> QED
    BY <2>1, <1>1, <1>2, <1>10 DEF Advances
<1> QED
  BY <1>5, <1>6, <1>7, <1>8, <1>9, <1>10 DEF Live

\* The newline is the one byte that has a state of its own.
LEMMA NewlineState == \A c \in 0..255 : NextState(1, Class(c)) = 5 <=> c = 10
<1>1. ASSUME NEW c \in 0..255 PROVE NextState(1, Class(c)) = 5 <=> c = 10
  <2>1. PICK k \in 1..13 : k = Class(c)
    BY ClassesOfBytes
  <2>2. k = 3 <=> c = 10
    BY <2>1, ClassesOfBytes
  <2>3. NextState(1, k) = 5 <=> k = 3
    <3>1. /\ NextState(20, 1) = 4 /\ NextState(20, 2) = 4
          /\ \A x \in 1..13 : Entry(yy_meta, x) \in {1, 2}
      BY Rows DEF Entry, yy_meta
    <3> QED
      BY <3>1, RowsOfOthers
  <2> QED
    BY <2>1, <2>2, <2>3
<1> QED
  BY <1>1

-----------------------------------------------------------------------------
(* What matching comes to.  A buffer of n bytes has the two end markers    *)
(* behind them; a run is the states from the first byte of a token on.     *)

IsBuffer(ch, n) ==
  /\ n \in Nat
  /\ \A i \in 0..(n - 1) : Entry(ch, i) \in 0..255
  /\ Entry(ch, n) = 0 /\ Entry(ch, n + 1) = 0

IsRun(ch, start, end, states) ==
  /\ states \in [start..end -> Live]
  /\ states[start] = 1
  /\ \A i \in start..(end - 1) : states[i + 1] = NextState(states[i], Class(Entry(ch, i)))

Runs(ch, start, end, state) == \E states : IsRun(ch, start, end, states) /\ states[end] = state

\* What yy_find_action may choose, and the end marker or a NUL after a run.
IsMatch(ch, start, n, match) ==
  /\ match \in [state : {3, 4, 5, 6, 18}, cpos : Nat]
  /\ start < match.cpos
  /\ match.state # 3 => match.cpos <= n
  /\ match.state \in {4, 5, 6} => /\ match.cpos = start + 1
                                 /\ match.state = NextState(1, Class(Entry(ch, start)))
  /\ match.state = 18 => Runs(ch, start, match.cpos - 1, 17) /\ Entry(ch, match.cpos - 1) = 93
  /\ match.state = 3 => /\ match.cpos <= n + 1
                        /\ Entry(ch, match.cpos - 1) = 0
                        /\ \E state \in Live : Runs(ch, start, match.cpos - 1, state)

OnTheWay(ch, start, n, p) ==
  /\ p \in Place
  /\ p.cp \in start..n /\ p.state \in Live
  /\ Runs(ch, start, p.cp, p.state)
  /\ p.state = 1 <=> p.cp = start
  /\ p.state # 1 => IsMatch(ch, start, n, Saved(p))

LEMMA RunGoesOn ==
  ASSUME NEW ch, NEW start \in Nat, NEW end \in Nat, start <= end, NEW state \in Live,
         Runs(ch, start, end, state), NextState(state, Class(Entry(ch, end))) \in Live
  PROVE  Runs(ch, start, end + 1, NextState(state, Class(Entry(ch, end))))
<1> DEFINE t == NextState(state, Class(Entry(ch, end)))
<1>1. PICK states : IsRun(ch, start, end, states) /\ states[end] = state
  BY DEF Runs
<1> DEFINE more == [i \in start..(end + 1) |-> IF i = end + 1 THEN t ELSE states[i]]
<1>2. t \in Live
  OBVIOUS
<1> HIDE DEF t
<1>3. more \in [start..(end + 1) -> Live] /\ more[end + 1] = t /\ more[start] = 1
  BY <1>1, <1>2 DEF IsRun
<1>4. ASSUME NEW i \in start..((end + 1) - 1)
      PROVE  more[i + 1] = NextState(more[i], Class(Entry(ch, i)))
  <2>1. CASE i = end
    BY <2>1, <1>1 DEF t
  <2>2. CASE i # end
    BY <2>2, <1>1 DEF IsRun
  <2> QED
    BY <2>1, <2>2
<1>5. IsRun(ch, start, end + 1, more)
  <2> HIDE DEF more
  <2> QED
    BY <1>3, <1>4 DEF IsRun
<1> QED
  BY <1>5, <1>3 DEF Runs, t

(* A byte further, the place is again on the way, or it is where a token   *)
(* ends.                                                                   *)
LEMMA SavedIsAMatch ==
  ASSUME NEW ch, NEW start \in Nat, NEW n, NEW p, OnTheWay(ch, start, n, p), p.state # 1
  PROVE  IsMatch(ch, start, n, Saved(p)) /\ Saved(p) \in [state : State, cpos : Nat]
BY DEF OnTheWay, IsMatch, State

LEMMA OneByteFurther ==
  ASSUME NEW ch, NEW start \in Nat, NEW n, IsBuffer(ch, n), NEW p, OnTheWay(ch, start, n, p),
         p.cp < n, PlaceAfter(ch, p).state \in Live
  PROVE  OnTheWay(ch, start, n, PlaceAfter(ch, p))
<1> DEFINE c == Class(Entry(ch, p.cp))
           next == PlaceAfter(ch, p)
<1>1. n \in Nat /\ p \in Place /\ p.cp \in start..(n - 1) /\ p.state \in Live
      /\ Runs(ch, start, p.cp, p.state)
  BY DEF OnTheWay, IsBuffer
<1>2. next = [cp |-> p.cp + 1, state |-> NextState(p.state, c), last |-> Saved(p)]
  BY DEF PlaceAfter, Step
<1>3. c \in 1..13
  <2>1. Entry(ch, p.cp) \in 0..255
    BY <1>1 DEF IsBuffer
  <2> QED
    BY <2>1, Classes DEF Class, YY_NUL_EC
<1>4. NextState(p.state, c) # 1
  BY <1>1, <1>3, Transitions
<1>5. Runs(ch, start, p.cp + 1, NextState(p.state, c))
  BY <1>1, <1>2, RunGoesOn DEF Place, State
<1>6. Saved(p) \in [state : State, cpos : Nat]
  BY <1>1 DEF Saved, Place, State, Live
<1>7. next \in Place /\ next.cp \in start..n /\ next.state \in Live /\ next.cp # start
      /\ next.cp \in Nat
  BY <1>1, <1>2, <1>6 DEF Place, State, Live
<1>8. IsMatch(ch, start, n, Saved(next))
  <2>1. CASE p.state = 1
    <3>1. next.state \in {4, 6}
      BY <2>1, <1>2, <1>3, <1>7, Transitions DEF Live
    <3>2. Saved(next) = [state |-> next.state, cpos |-> next.cp]
      BY <3>1, Stops DEF Saved
    <3>3. p.cp = start /\ next.cp = start + 1 /\ next.state = NextState(1, c)
      BY <2>1, <1>1, <1>2 DEF OnTheWay
    <3> QED
      BY <3>1, <3>2, <3>3, <1>7, <1>1 DEF IsMatch
  <2>2. CASE p.state # 1
    <3>1. next.state \in 7..17
      BY <2>2, <1>1, <1>2, <1>3, <1>7, Transitions DEF Live
    <3>2. Saved(next) = Saved(p)
      BY <3>1, <1>2, Stops DEF Saved
    <3> QED
      BY <3>2, <2>2, SavedIsAMatch
  <2> QED
    BY <2>1, <2>2
<1> QED
  BY <1>7, <1>8, <1>5, <1>2, <1>4 DEF OnTheWay

(* Where matching ends: what the text from start on is taken for.  A single *)
(* byte is taken only when nothing leads further into a set: in front of a  *)
(* byte before upto, or of the end.                                         *)
Stopped(ch, start, n, upto) ==
  \E m \in start..n : \E state \in Live :
    /\ m <= upto /\ Runs(ch, start, m, state)
    /\ m < n => NextState(state, Class(Entry(ch, m))) \notin 6..18

Ends(ch, start, n, upto, p) ==
  /\ IsMatch(ch, start, n, Saved(p)) /\ p.last \in [state : State, cpos : Nat]
  /\ Saved(p).state \in {4, 5, 6} => Stopped(ch, start, n, upto)

LEMMA MatchEnds ==
  ASSUME NEW ch, NEW start \in Nat, NEW n, IsBuffer(ch, n), NEW place, OnTheWay(ch, start, n, place)
  PROVE  Ends(ch, start, n, n - 1, yy_match(ch, place))
<1>1. PICK f : IsMatching(ch, f) /\ \A p : yy_match(ch, p) = f[p]
  BY MatchEquation
<1>2. \A p \in Place : f[p] = IF NextPlace(ch, p).state \in Going THEN f[NextPlace(ch, p)]
                              ELSE NextPlace(ch, p)
  BY <1>1, Zenon DEF IsMatching
<1>3. n \in Nat
  BY DEF IsBuffer
<1> DEFINE Claim(k) == \A p : OnTheWay(ch, start, n, p) /\ n - p.cp = k => Ends(ch, start, n, n - 1, f[p])
<1>4. ASSUME NEW k \in Nat, \A j \in 0..(k - 1) : Claim(j)
      PROVE  Claim(k)
  <2>1. SUFFICES ASSUME NEW p, OnTheWay(ch, start, n, p), n - p.cp = k
                 PROVE  Ends(ch, start, n, n - 1, f[p])
    OBVIOUS
  <2> DEFINE c == Entry(ch, p.cp)
             next == NextPlace(ch, p)
  <2>2. p \in Place /\ p.cp \in start..n /\ p.state \in Live /\ p.cp \in Nat
        /\ Runs(ch, start, p.cp, p.state)
    BY <2>1, <1>3 DEF OnTheWay
  <2>3. next = [cp |-> p.cp + 1, state |-> NextState(p.state, yy_ec(c)), last |-> Saved(p)]
    BY DEF NextPlace, Step
  <2>4. Saved(p) \in [state : State, cpos : Nat]
    BY <2>2 DEF Saved, Place, State, Live
  <2>5. c \in 0..255 /\ (p.cp = n => c = 0)
    BY <2>2, <1>3 DEF IsBuffer
  <2>6. CASE c = 0
    <3>1. next = [cp |-> p.cp + 1, state |-> 3, last |-> Saved(p)]
      BY <2>3, <2>6, <2>2, Classes, Transitions
    <3>2. next \in Place
      BY <3>1, <2>4, <2>2 DEF Place, State
    <3>3. next.state \in Going
      BY <3>1, Stops
    <3>4. f[p] = f[next]
      BY <3>2, <3>3, <2>2, <1>2
    <3>5. yy_ec(Entry(ch, next.cp)) \in 0..13
      <4>1. Entry(ch, next.cp) \in 0..255
        BY <3>1, <2>2, <1>3 DEF IsBuffer
      <4> QED
        BY <4>1, Classes
    <3>6. NextPlace(ch, next) = [cp |-> p.cp + 2, state |-> 19, last |-> [state |-> 3, cpos |-> p.cp + 1]]
      <4>1. Saved(next) = [state |-> 3, cpos |-> p.cp + 1]
        BY <3>1, Stops DEF Saved
      <4>2. NextState(3, yy_ec(Entry(ch, next.cp))) = 19
        BY <3>5, Transitions
      <4> QED
        BY <4>1, <4>2, <3>1, <2>2 DEF NextPlace, Step
    <3>7. f[next] = NextPlace(ch, next)
      BY <3>6, <3>2, <1>2, Stops
    <3>8. Saved(NextPlace(ch, next)) = [state |-> 3, cpos |-> p.cp + 1]
      BY <3>6, Stops DEF Saved
    <3>9. IsMatch(ch, start, n, [state |-> 3, cpos |-> p.cp + 1])
      BY <2>2, <2>6, <1>3 DEF IsMatch
    <3> QED
      BY <3>4, <3>6, <3>7, <3>8, <3>9, <2>2 DEF Ends, State
  <2>7. CASE c # 0
    <3>1. p.cp < n
      BY <2>7, <2>5, <2>2, <1>3
    <3>2. Class(c) = yy_ec(c) /\ yy_ec(c) \in 1..13
      BY <2>7, <2>5, Classes DEF Class
    <3>3. next = PlaceAfter(ch, p)
      BY <3>2 DEF NextPlace, PlaceAfter
    <3>4. next.state \in 4..19 /\ next.cp = p.cp + 1
      BY <2>3, <2>2, <3>2, Transitions
    <3>5. next \in Place
      BY <3>4, <2>3, <2>2, <2>4 DEF Place, State
    <3>6. CASE next.state \in {4, 5, 18, 19}
      <4>1. f[p] = next
        BY <3>6, <3>4, <1>2, <2>2, Stops
      <4>2. next.state \notin 6..18 => Stopped(ch, start, n, n - 1)
        <5>1. p.cp \in start..n /\ p.cp <= n - 1 /\ next.state = NextState(p.state, Class(c))
          BY <3>1, <3>2, <2>2, <2>3, <1>3
        <5> QED
          BY <5>1, <2>2 DEF Stopped
      <4>3. CASE next.state = 19
        <5>1. Saved(next) = Saved(p)
          BY <4>3, Stops, <2>3 DEF Saved
        <5>2. p.state # 1
          BY <4>3, <2>3, <3>2, Transitions
        <5> QED
          BY <5>1, <5>2, <4>1, <4>2, <4>3, <2>1, <2>3, SavedIsAMatch DEF Ends
      <4>4. CASE next.state # 19
        <5>1. Saved(next) = [state |-> next.state, cpos |-> p.cp + 1]
          BY <4>4, <3>6, Stops, <2>3 DEF Saved
        <5>2. CASE next.state \in {4, 5}
          <6>1. p.state = 1
            BY <5>2, <2>2, <2>3, <3>2, Transitions
          <6>2. p.cp = start /\ next.state = NextState(1, Class(Entry(ch, start)))
            BY <6>1, <2>1, <2>3, <3>2 DEF OnTheWay
          <6>3. IsMatch(ch, start, n, Saved(next))
            BY <5>1, <5>2, <6>2, <3>1, <2>2, <1>3 DEF IsMatch
          <6> QED
            BY <6>3, <5>2, <4>1, <4>2, <2>3, <2>4 DEF Ends
        <5>3. CASE next.state = 18
          <6>1. Advances(p.state, c, 18)
            BY <5>3, <2>2, <2>3, <2>5, <3>2, BytesAdvance
          <6>2. p.state = 17 /\ c = 93 /\ (p.cp + 1) - 1 = p.cp
            BY <6>1, <2>2 DEF Advances
          <6>3. IsMatch(ch, start, n, Saved(next))
            BY <5>1, <5>3, <6>2, <3>1, <2>2, <1>3 DEF IsMatch
          <6> QED
            BY <6>3, <5>1, <5>3, <4>1, <2>3, <2>4 DEF Ends
        <5> QED
          BY <5>2, <5>3, <4>4, <3>6
      <4> QED
        BY <4>3, <4>4
    <3>7. CASE next.state \notin {4, 5, 18, 19}
      <4>1. next.state \in Live /\ next.state \in Going
        BY <3>7, <3>4, Stops DEF Live
      <4>2. f[p] = f[next]
        BY <4>1, <3>5, <2>2, <1>2
      <4>3. OnTheWay(ch, start, n, next)
        BY <4>1, <3>1, <3>3, <2>1, OneByteFurther
      <4>4. n - next.cp \in 0..(k - 1)
        BY <3>4, <2>2, <3>1, <2>1, <1>3
      <4> QED
        BY <4>2, <4>3, <4>4, <1>4
    <3> QED
      BY <3>6, <3>7
  <2> QED
    BY <2>6, <2>7
<1> HIDE DEF Claim
<1> DEFINE All == {k \in Nat : Claim(k)}
<1>5. \A k \in Nat : (\A j \in 0..(k - 1) : j \in All) => k \in All
  BY <1>4
<1> HIDE DEF All
<1>6. \A k \in Nat : k \in All
  BY <1>5, AllNaturals
<1>7. n - place.cp \in Nat
  BY <1>3 DEF OnTheWay
<1>8. Claim(n - place.cp)
  BY <1>6, <1>7 DEF All
<1>9. Ends(ch, start, n, n - 1, f[place])
  BY <1>8 DEF Claim
<1> QED
  BY <1>1, <1>9

(* Going over what was matched again ends in the state it was matched to.  *)
Reached(ch, start, n, end, reached, p) ==
  OnTheWay(ch, start, n, p) /\ p.cp = end /\ p.state = reached

LEMMA RetraceEnds ==
  ASSUME NEW ch, NEW start \in Nat, NEW n, IsBuffer(ch, n), NEW end \in start..n, NEW reached \in Live,
         Runs(ch, start, end, reached), last \in [state : State, cpos : Nat]
  PROVE  Reached(ch, start, n, end, reached, yy_get_previous_state(ch, start, end))
<1>1. PICK f : IsRetracing(ch, end, f) /\ yy_get_previous_state(ch, start, end) = f[Beginning(start)]
  BY RetraceEquation
<1>2. \A p \in Place : f[p] = IF p.cp < end /\ PlaceAfter(ch, p).state \in State
                              THEN f[PlaceAfter(ch, p)] ELSE p
  BY <1>1, Zenon DEF IsRetracing
<1>3. PICK states : IsRun(ch, start, end, states) /\ states[end] = reached
  BY DEF Runs
<1>4. n \in Nat /\ end \in Nat
  BY DEF IsBuffer
<1> DEFINE On(p) == OnTheWay(ch, start, n, p) /\ p.cp \in start..end /\ p.state = states[p.cp]
           Claim(k) == \A p : On(p) /\ end - p.cp = k => Reached(ch, start, n, end, reached, f[p])
<1>5. ASSUME NEW k \in Nat, \A j \in 0..(k - 1) : Claim(j)
      PROVE  Claim(k)
  <2>1. SUFFICES ASSUME NEW p, On(p), end - p.cp = k
                 PROVE  Reached(ch, start, n, end, reached, f[p])
    OBVIOUS
  <2>2. p \in Place /\ p.cp \in start..end /\ p.cp \in Nat
    BY <2>1, <1>4 DEF OnTheWay
  <2>3. CASE ~(p.cp < end)
    <3>1. f[p] = p /\ p.cp = end
      BY <2>3, <2>2, <1>2, <1>4
    <3> QED
      BY <3>1, <2>1, <1>3 DEF Reached
  <2>4. CASE p.cp < end
    <3> DEFINE next == PlaceAfter(ch, p)
    <3>1. p.cp \in start..(end - 1) /\ p.cp < n
      BY <2>4, <2>2, <1>4
    <3>2. next.cp = p.cp + 1 /\ next.state = states[p.cp + 1]
      BY <3>1, <2>1, <1>3 DEF PlaceAfter, Step, IsRun
    <3>3. next.state \in Live
      BY <3>1, <3>2, <1>3, <1>4 DEF IsRun
    <3>4. OnTheWay(ch, start, n, next)
      BY <3>1, <3>3, <2>1, OneByteFurther
    <3>5. f[p] = f[next]
      BY <3>3, <3>4, <2>4, <2>2, <1>2 DEF OnTheWay, State, Live
    <3>6. On(next) /\ end - next.cp \in 0..(k - 1)
      BY <3>4, <3>2, <3>1, <2>1, <1>4
    <3> QED
      BY <3>5, <3>6, <1>5
  <2> QED
    BY <2>3, <2>4
<1> DEFINE All == {k \in Nat : Claim(k)}
<1> HIDE DEF Claim
<1>6. \A k \in Nat : (\A j \in 0..(k - 1) : j \in All) => k \in All
  BY <1>5
<1> HIDE DEF All
<1>7. \A k \in Nat : k \in All
  BY <1>6, AllNaturals
<1>8. end - start \in Nat
  BY <1>4
<1>9. Claim(end - start)
  BY <1>7, <1>8 DEF All
<1> DEFINE p == Beginning(start)
<1>10. p \in Place /\ p.cp = start /\ p.state = 1
  BY DEF Beginning, Place, State, yystart
<1>11. Runs(ch, start, start, 1)
  <2> DEFINE one == [i \in start..start |-> 1]
  <2>1. IsRun(ch, start, start, one) /\ one[start] = 1
    BY DEF IsRun, Live
  <2> HIDE DEF one
  <2> QED
    BY <2>1 DEF Runs
<1>12. OnTheWay(ch, start, n, p)
  BY <1>10, <1>11, <1>4 DEF OnTheWay, Live
<1>13. states[start] = 1
  BY <1>3 DEF IsRun
<1>14. On(p)
  BY <1>10, <1>12, <1>13, <1>4
<1>15. Reached(ch, start, n, end, reached, f[p])
  BY <1>9, <1>14, <1>10 DEF Claim
<1> QED
  BY <1>15, <1>1

\* A token begins in the state yystart.
LEMMA BeginningIsOnTheWay ==
  ASSUME NEW ch, NEW start \in Nat, NEW n \in Nat, start <= n,
         NEW l \in [state : State, cpos : Nat]
  PROVE  OnTheWay(ch, start, n, [cp |-> start, state |-> yystart, last |-> l])
<1> DEFINE one == [i \in start..start |-> 1]
           p == [cp |-> start, state |-> yystart, last |-> l]
<1>1. IsRun(ch, start, start, one) /\ one[start] = 1
  BY DEF IsRun, Live
<1> HIDE DEF one
<1>2. Runs(ch, start, start, 1)
  BY <1>1 DEF Runs
<1>3. p \in Place /\ p.cp = start /\ p.state = 1
  BY DEF Place, State, yystart
<1> QED
  BY <1>2, <1>3 DEF OnTheWay, Live

\* The same bytes give the same run, and a newline is in none.
LEMMA RunMoves ==
  ASSUME NEW ch, NEW start \in Nat, NEW k \in Nat, NEW state, Runs(ch, start, start + k, state),
         NEW to, NEW at \in Nat, \A i \in 0..(k - 1) : Entry(to, at + i) = Entry(ch, start + i)
  PROVE  Runs(to, at, at + k, state)
<1>1. PICK states : IsRun(ch, start, start + k, states) /\ states[start + k] = state
  BY DEF Runs
<1> DEFINE moved == [i \in at..(at + k) |-> states[start + (i - at)]]
<1>2. moved \in [at..(at + k) -> Live] /\ moved[at] = 1 /\ moved[at + k] = state
  BY <1>1 DEF IsRun
<1>3. ASSUME NEW i \in at..((at + k) - 1)
      PROVE  moved[i + 1] = NextState(moved[i], Class(Entry(to, i)))
  <2>1. PICK j \in 0..(k - 1) : j = i - at /\ i = at + j
    OBVIOUS
  <2>2. start + j \in start..((start + k) - 1) /\ moved[i] = states[start + j]
        /\ moved[i + 1] = states[(start + j) + 1]
    BY <2>1
  <2>3. states[(start + j) + 1] = NextState(states[start + j], Class(Entry(ch, start + j)))
    BY <2>2, <1>1 DEF IsRun
  <2>4. Entry(to, i) = Entry(ch, start + j)
    BY <2>1
  <2> QED
    BY <2>2, <2>3, <2>4
<1> HIDE DEF moved
<1>4. IsRun(to, at, at + k, moved)
  BY <1>2, <1>3 DEF IsRun
<1> QED
  BY <1>2, <1>4 DEF Runs

LEMMA NoNewlineInARun ==
  ASSUME NEW ch, NEW start \in Nat, NEW end \in Nat, NEW state, Runs(ch, start, end, state),
         NEW i \in start..(end - 1)
  PROVE  Entry(ch, i) # 10
<1>1. PICK states : IsRun(ch, start, end, states) /\ states[end] = state
  BY DEF Runs
<1>2. states[i + 1] = NextState(states[i], Class(Entry(ch, i))) /\ states[i] \in Live
      /\ states[i + 1] \in Live
  BY <1>1 DEF IsRun
<1>3. Entry(ch, i) = 10 => Class(Entry(ch, i)) = 3
  BY Classes DEF Class
<1> QED
  BY <1>2, <1>3, Transitions

-----------------------------------------------------------------------------
(* A set of sets.l: what a run that begins with one has read, and where it *)
(* ends.                                                                   *)

LEMMA AfterTheFirst ==
  ASSUME NEW state \in Live, NEW c \in 0..255
  PROVE  /\ NextState(state, Class(c)) \in 4..19
         /\ state # 1 => NextState(state, Class(c)) \in 7..19
         /\ state = 4 => NextState(state, Class(c)) = 19
<1>1. PICK k \in 1..13 : k = Class(c)
  BY ClassesOfBytes
<1>2. state = 4 => NextState(state, k) = 19
  BY Rows
<1> QED
  BY <1>1, <1>2, Transitions

\* What stands behind the first i bytes of t when a token that begins there has
\* come to a state behind the first k.
SoFar(t, i, k, state) ==
  /\ state = 1 => k = i
  /\ state = 6 => k = i + 1 /\ t[i + 1] = 108
  /\ state = 7 => k = i + 2 /\ t[i + 1] = 108 /\ t[i + 2] = 101
  /\ state = 8 => k = i + 3 /\ t[i + 1] = 108 /\ t[i + 2] = 101 /\ t[i + 3] = 116
  /\ state = 9 => /\ k >= i + 4 /\ t[i + 1] = 108 /\ t[i + 2] = 101 /\ t[i + 3] = 116
                  /\ Between(t, i + 3, k + 1, {32})
  /\ state = 10 => NameAt(t, i, k)
  /\ state = 11 => \E name \in (i + 1)..(k - 1) : NameAt(t, i, name) /\ Between(t, name, k + 1, {32})
  /\ state = 12 => EqualsAt(t, i, k)
  /\ state = 13 => \E equals \in (i + 1)..(k - 1) :
                      EqualsAt(t, i, equals) /\ Between(t, equals, k + 1, {32, 9})
  /\ state = 14 => BracketAt(t, i, k)
  /\ state \in {15, 16, 17} =>
       \E bracket \in (i + 1)..(k - 1) :
         /\ BracketAt(t, i, bracket) /\ ItemsAt(t, bracket, k)
         /\ state \in {15, 17} <=> t[k] \in Digit
         /\ state = 17 => \E j \in (bracket + 1)..k : t[j] = 44
         /\ state = 16 => t[k] = 44

LEMMA SoFarGoesOn ==
  ASSUME NEW t, NEW i \in Nat, NEW k \in Nat, k >= i, NEW state \in Live, NEW next \in 6..17,
         SoFar(t, i, k, state), Advances(state, t[k + 1], next)
  PROVE  SoFar(t, i, k + 1, next)
<1>1. CASE next \in {6, 7, 8}
  BY <1>1 DEF SoFar, Advances
<1>2. CASE next = 9
  BY <1>2 DEF SoFar, Advances, Between
<1>3. CASE next = 10
  BY <1>3 DEF SoFar, Advances, NameAt
<1>4. CASE next = 11
  <2>1. CASE state = 10
    <3>1. NameAt(t, i, k) /\ t[k + 1] = 32 /\ k \in (i + 1)..((k + 1) - 1)
      BY <1>4, <2>1 DEF SoFar, Advances, NameAt
    <3>2. Between(t, k, (k + 1) + 1, {32})
      BY <3>1 DEF Between
    <3> QED
      BY <3>1, <3>2, <1>4 DEF SoFar
  <2>2. CASE state # 10
    <3>1. state = 11 /\ t[k + 1] = 32
      BY <1>4, <2>2 DEF Advances
    <3>2. PICK name \in (i + 1)..(k - 1) : NameAt(t, i, name) /\ Between(t, name, k + 1, {32})
      BY <3>1 DEF SoFar
    <3>3. Between(t, name, (k + 1) + 1, {32}) /\ name \in (i + 1)..((k + 1) - 1)
      BY <3>1, <3>2 DEF Between
    <3> QED
      BY <3>2, <3>3, <1>4 DEF SoFar
  <2> QED
    BY <2>1, <2>2
<1>5. CASE next = 12
  <2>1. CASE state = 10
    <3>1. NameAt(t, i, k) /\ t[k + 1] = 61 /\ k \in (i + 1)..((k + 1) - 1)
      BY <1>5, <2>1 DEF SoFar, Advances, NameAt
    <3>2. Between(t, k, k + 1, {32})
      BY DEF Between
    <3> QED
      BY <3>1, <3>2, <1>5 DEF SoFar, EqualsAt
  <2>2. CASE state # 10
    <3>1. state = 11 /\ t[k + 1] = 61
      BY <1>5, <2>2 DEF Advances
    <3>2. PICK name \in (i + 1)..(k - 1) : NameAt(t, i, name) /\ Between(t, name, k + 1, {32})
      BY <3>1 DEF SoFar
    <3>3. name \in (i + 1)..((k + 1) - 1)
      OBVIOUS
    <3> QED
      BY <3>1, <3>2, <3>3, <1>5 DEF SoFar, EqualsAt
  <2> QED
    BY <2>1, <2>2
<1>6. CASE next = 13
  <2>1. CASE state = 12
    <3>1. EqualsAt(t, i, k) /\ t[k + 1] \in {32, 9}
      BY <1>6, <2>1 DEF SoFar, Advances
    <3>2. k \in (i + 1)..((k + 1) - 1)
      BY <3>1 DEF EqualsAt
    <3>3. Between(t, k, (k + 1) + 1, {32, 9})
      BY <3>1 DEF Between
    <3> QED
      BY <3>1, <3>2, <3>3, <1>6 DEF SoFar
  <2>2. CASE state # 12
    <3>1. state = 13 /\ t[k + 1] \in {32, 9}
      BY <1>6, <2>2 DEF Advances
    <3>2. PICK equals \in (i + 1)..(k - 1) :
            EqualsAt(t, i, equals) /\ Between(t, equals, k + 1, {32, 9})
      BY <3>1 DEF SoFar
    <3>3. Between(t, equals, (k + 1) + 1, {32, 9}) /\ equals \in (i + 1)..((k + 1) - 1)
      BY <3>1, <3>2 DEF Between
    <3> QED
      BY <3>2, <3>3, <1>6 DEF SoFar
  <2> QED
    BY <2>1, <2>2
<1>7. CASE next = 14
  <2>1. CASE state = 12
    <3>1. EqualsAt(t, i, k) /\ t[k + 1] = 91
      BY <1>7, <2>1 DEF SoFar, Advances
    <3>2. k \in (i + 1)..((k + 1) - 1)
      BY <3>1 DEF EqualsAt
    <3>3. Between(t, k, k + 1, {32, 9})
      BY DEF Between
    <3> QED
      BY <3>1, <3>2, <3>3, <1>7 DEF SoFar, BracketAt
  <2>2. CASE state # 12
    <3>1. state = 13 /\ t[k + 1] = 91
      BY <1>7, <2>2 DEF Advances
    <3>2. PICK equals \in (i + 1)..(k - 1) :
            EqualsAt(t, i, equals) /\ Between(t, equals, k + 1, {32, 9})
      BY <3>1 DEF SoFar
    <3>3. equals \in (i + 1)..((k + 1) - 1)
      OBVIOUS
    <3> QED
      BY <3>1, <3>2, <3>3, <1>7 DEF SoFar, BracketAt
  <2> QED
    BY <2>1, <2>2
<1>8. CASE next \in {15, 16, 17}
  <2>1. CASE state = 14
    <3>1. next = 15 /\ BracketAt(t, i, k) /\ t[k + 1] \in Digit
      BY <1>8, <2>1 DEF SoFar, Advances
    <3>2. k \in (i + 1)..((k + 1) - 1)
      BY <3>1 DEF BracketAt
    <3>3. ItemsAt(t, k, k + 1)
      BY <3>1 DEF ItemsAt, Between
    <3> QED
      BY <3>1, <3>2, <3>3 DEF SoFar
  <2>2. CASE state # 14
    <3>1. /\ state \in {15, 16, 17}
          /\ next \in {15, 17} => t[k + 1] \in Digit
          /\ next = 16 => t[k + 1] = 44 /\ state \in {15, 17}
          /\ next = 15 => state = 15
          /\ next = 17 => state \in {16, 17}
      BY <1>8, <2>2 DEF Advances
    <3>2. PICK bracket \in (i + 1)..(k - 1) :
            /\ BracketAt(t, i, bracket) /\ ItemsAt(t, bracket, k)
            /\ state \in {15, 17} <=> t[k] \in Digit
            /\ state = 17 => \E j \in (bracket + 1)..k : t[j] = 44
            /\ state = 16 => t[k] = 44
      BY <3>1 DEF SoFar
    <3>3. ItemsAt(t, bracket, k + 1) /\ bracket \in (i + 1)..((k + 1) - 1)
      BY <3>1, <3>2, <1>8 DEF ItemsAt, Between
    <3>4. next \in {15, 17} <=> t[k + 1] \in Digit
      BY <3>1, <1>8 DEF Digit
    <3>5. next = 17 => \E j \in (bracket + 1)..(k + 1) : t[j] = 44
      BY <3>1, <3>2
    <3> QED
      BY <3>1, <3>2, <3>3, <3>4, <3>5, <1>8 DEF SoFar
  <2> QED
    BY <2>1, <2>2
<1> QED
  BY <1>1, <1>2, <1>3, <1>4, <1>5, <1>6, <1>7, <1>8

LEMMA EntryIsAByte ==
  ASSUME NEW t \in Seq(0..255), NEW k \in Nat, k < Len(t)
  PROVE  \E c \in 0..255 : c = t[k + 1] /\ c = Entry(t, k)
<1>1. Len(t) \in Nat /\ \A i \in 1..Len(t) : t[i] \in 0..255
  BY SeqElements
<1>2. k + 1 \in 1..Len(t)
  BY <1>1
<1> QED
  BY <1>1, <1>2 DEF Entry

\* A run of the scanner over t reads a beginning of a set, and a set when it
\* ends in front of the closing bracket.
LEMMA RunReads ==
  ASSUME NEW t \in Seq(0..255), NEW i \in Nat, NEW m \in Nat, i <= m, m <= Len(t),
         NEW states, IsRun(t, i, m, states), states[m] # 4
  PROVE  SoFar(t, i, m, states[m])
<1> DEFINE All == {k \in Nat : i + k <= m => states[i + k] = 4 \/ SoFar(t, i, i + k, states[i + k])}
<1>1. ASSUME NEW k \in Nat, \A j \in 0..(k - 1) : j \in All
      PROVE  k \in All
  <2>1. CASE k = 0
    BY <2>1 DEF IsRun, SoFar
  <2>2. CASE k # 0
    <3>1. SUFFICES ASSUME i + k <= m, states[i + k] # 4 PROVE SoFar(t, i, i + k, states[i + k])
      OBVIOUS
    <3>2. PICK j \in Nat : j = k - 1 /\ i + k = (i + j) + 1 /\ i + j \in i..(m - 1) /\ i + j \in Nat
      BY <2>2, <3>1
    <3>3. states[i + j] = 4 \/ SoFar(t, i, i + j, states[i + j])
      <4>1. j \in 0..(k - 1) /\ i + j <= m
        BY <3>1, <3>2
      <4>2. j \in All
        BY <4>1, <1>1
      <4> QED
        BY <4>1, <4>2
    <3>4. PICK c \in 0..255 : c = t[(i + j) + 1] /\ c = Entry(t, i + j)
      <4>1. Len(t) \in Nat
        BY SeqElements
      <4>2. i + j < Len(t)
        BY <4>1, <3>1, <3>2
      <4> QED
        BY <4>2, <3>2, EntryIsAByte
    <3>5. states[i + j] \in Live /\ states[i + k] \in Live
          /\ states[i + k] = NextState(states[i + j], Class(c))
      BY <3>2, <3>4 DEF IsRun
    <3>6. states[i + k] \in 6..17
      <4>1. PICK old \in Live : old = states[i + j]
        BY <3>5
      <4>2. NextState(old, Class(c)) \in 4..19
        BY AfterTheFirst
      <4> QED
        BY <4>1, <4>2, <3>1, <3>5 DEF Live
    <3>7. Advances(states[i + j], t[(i + j) + 1], states[i + k])
      <4>1. PICK old \in Live, new \in 6..17 : old = states[i + j] /\ new = states[i + k]
        BY <3>5, <3>6
      <4>2. NextState(old, Class(c)) = new /\ new \in 6..18
        BY <4>1, <3>5
      <4>3. Advances(old, c, new)
        BY <4>2, BytesAdvance
      <4> QED
        BY <4>1, <4>3, <3>4
    <3>8. states[i + j] # 4
      BY <3>7, <3>6 DEF Advances
    <3>9. SoFar(t, i, (i + j) + 1, states[i + k])
      BY <3>2, <3>3, <3>5, <3>6, <3>7, <3>8, SoFarGoesOn
    <3> QED
      BY <3>2, <3>9
  <2> QED
    BY <2>1, <2>2
<1> HIDE DEF All
<1>2. \A k \in Nat : k \in All
  BY <1>1, AllNaturals
<1>3. m - i \in All
  BY <1>2
<1> QED
  BY <1>3 DEF All

LEMMA RunReadsASet ==
  ASSUME NEW t \in Seq(0..255), NEW i \in Nat, NEW m \in Nat, i <= m, m < Len(t),
         Runs(t, i, m, 17), t[m + 1] = 93
  PROVE  SetAt(t, i, m + 1)
<1>1. SoFar(t, i, m, 17)
  BY RunReads DEF Runs
<1>2. PICK bracket \in (i + 1)..(m - 1) :
        /\ BracketAt(t, i, bracket) /\ ItemsAt(t, bracket, m) /\ t[m] \in Digit
        /\ \E j \in (bracket + 1)..m : t[j] = 44
  BY <1>1 DEF SoFar
<1>3. /\ (m + 1) - 1 = m /\ bracket \in (i + 1)..((m + 1) - 1)
      /\ \E j \in (bracket + 1)..((m + 1) - 1) : t[j] = 44
  BY <1>2
<1> QED
  BY <1>2, <1>3 DEF SetAt

\* Over a set the scanner runs up to its closing bracket.
LEMMA SetHasRun ==
  ASSUME NEW t \in Seq(0..255), NEW i \in Nat, NEW e \in (i + 1)..Len(t), SetAt(t, i, e)
  PROVE  i <= e - 1 /\ Runs(t, i, e - 1, 17) /\ t[e] = 93
<1>0. e \in Nat /\ Len(t) \in Nat
  BY SeqElements
<1>1. PICK b \in (i + 1)..(e - 1) :
        /\ BracketAt(t, i, b) /\ ItemsAt(t, b, e - 1)
        /\ \E k \in (b + 1)..(e - 1) : t[k] = 44
  BY DEF SetAt
<1>2. PICK q \in (i + 1)..(b - 1) : EqualsAt(t, i, q) /\ Between(t, q, b, {32, 9})
  BY <1>1 DEF BracketAt
<1>3. PICK name \in (i + 1)..(q - 1) : NameAt(t, i, name) /\ Between(t, name, q, {32})
  BY <1>2 DEF EqualsAt
<1>4. t[e] = 93 /\ t[e - 1] \in Digit /\ t[b] = 91 /\ t[q] = 61 /\ t[name] = 83 /\ name >= i + 5
      /\ t[i + 1] = 108 /\ t[i + 2] = 101 /\ t[i + 3] = 116
  BY <1>1, <1>2, <1>3 DEF SetAt, BracketAt, EqualsAt, NameAt
<1>5. /\ \A k \in (i + 4)..(name - 1) : t[k] = 32
      /\ \A k \in (name + 1)..(q - 1) : t[k] = 32
      /\ \A k \in (q + 1)..(b - 1) : t[k] \in {32, 9}
      /\ \A k \in (b + 1)..(e - 1) : t[k] \in Digit \cup {44}
      /\ \A k \in b..(e - 2) : t[k] \notin Digit => t[k + 1] \in Digit
  BY <1>1, <1>2, <1>3 DEF NameAt, Between, ItemsAt
<1>6. PICK f \in (b + 1)..(e - 1) : t[f] = 44 /\ \A k \in (b + 1)..(f - 1) : t[k] # 44
  <2> DEFINE Commas == {k \in (b + 1)..(e - 1) : t[k] = 44}
  <2>1. Commas \in SUBSET Nat /\ Commas # {}
    BY <1>0, <1>1
  <2> HIDE DEF Commas
  <2>2. PICK x \in Commas : \A y \in Commas : x <= y
    BY <2>1, LeastNatural
  <2> QED
    BY <2>2 DEF Commas
<1>7. /\ b \in Nat /\ q \in Nat /\ name \in Nat /\ f \in Nat
      /\ name < q /\ q < b /\ b < f /\ f <= e - 1 /\ e <= Len(t)
  BY <1>0, <1>6
<1> DEFINE at(k) == IF k = i THEN 1 ELSE IF k <= i + 3 THEN 5 + (k - i) ELSE IF k < name THEN 9
                    ELSE IF k = name THEN 10 ELSE IF k < q THEN 11 ELSE IF k = q THEN 12
                    ELSE IF k < b THEN 13 ELSE IF k = b THEN 14
                    ELSE IF t[k] = 44 THEN 16 ELSE IF k < f THEN 15 ELSE 17
           states == [k \in i..(e - 1) |-> at(k)]
<1>8. \A k \in i..(e - 1) : at(k) \in Live
  BY DEF Live
<1>9. ASSUME NEW k \in i..(e - 2)
      PROVE  Advances(at(k), t[k + 1], at(k + 1)) /\ at(k + 1) \in 6..17
  <2>1. CASE k < i + 3
    BY <2>1, <1>4, <1>0, <1>7 DEF Advances
  <2>2. CASE k >= i + 3 /\ k < name
    BY <2>2, <1>4, <1>5, <1>0, <1>7 DEF Advances
  <2>3. CASE k >= name /\ k < q
    BY <2>3, <1>4, <1>5, <1>0, <1>7 DEF Advances
  <2>4. CASE k >= q /\ k < b
    <3>1. at(k) \in {12, 13} /\ at(k + 1) = IF k + 1 = b THEN 14 ELSE 13
      BY <2>4, <1>4, <1>7
    <3>2. t[k + 1] \in IF k + 1 = b THEN {91} ELSE {32, 9}
      <4>1. k + 1 = b \/ k + 1 \in (q + 1)..(b - 1)
        BY <2>4, <1>7
      <4> QED
        BY <4>1, <1>4, <1>5
    <3> HIDE DEF at
    <3> QED
      BY <3>1, <3>2 DEF Advances
  <2>5. CASE k >= b
    <3>1. t[k + 1] \in Digit \cup {44} /\ (t[k] \notin Digit => t[k + 1] \in Digit) /\ k + 1 > b
          /\ 44 \notin Digit /\ 91 \notin Digit
      BY <2>5, <1>5, <1>0, <1>7 DEF Digit
    <3>2. CASE k = b
      BY <3>1, <3>2, <1>4, <1>6, <1>7 DEF Advances
    <3>3. CASE k > b /\ t[k] = 44
      <4>1. k >= f
        BY <3>3, <1>6, <1>0, <1>7
      <4> QED
        BY <4>1, <3>1, <3>3, <1>7 DEF Advances
    <3>4. CASE k > b /\ t[k] # 44 /\ t[k + 1] = 44
      BY <3>1, <3>4, <1>7 DEF Advances
    <3>5. CASE k > b /\ t[k] # 44 /\ t[k + 1] # 44
      <4>1. k # f /\ k + 1 # f
        BY <3>5, <1>6
      <4> QED
        BY <4>1, <3>1, <3>5, <1>7 DEF Advances
    <3> QED
      BY <3>2, <3>3, <3>4, <3>5, <2>5
  <2> QED
    BY <2>1, <2>2, <2>3, <2>4, <2>5
<1>10. at(i) = 1 /\ at(e - 1) = 17
  <2>1. t[e - 1] # 44
    <3>1. 44 \notin Digit
      BY DEF Digit
    <3> QED
      BY <3>1, <1>4
  <2>2. f # e - 1
    BY <2>1, <1>6
  <2> QED
    BY <2>1, <2>2, <1>0, <1>4, <1>7
<1> HIDE DEF at
<1>11. ASSUME NEW k \in i..((e - 1) - 1)
       PROVE  states[k + 1] = NextState(states[k], Class(Entry(t, k)))
  <2>1. PICK c \in 0..255 : c = t[k + 1] /\ c = Entry(t, k)
    <3>1. k \in Nat /\ k < Len(t)
      BY <1>0, <1>7
    <3> QED
      BY <3>1, EntryIsAByte
  <2>2. k \in i..(e - 2) /\ k \in i..(e - 1) /\ k + 1 \in i..(e - 1)
    BY <1>0
  <2>3. at(k) \in Live /\ at(k + 1) \in 6..18 /\ Advances(at(k), c, at(k + 1))
    <3>1. Advances(at(k), t[k + 1], at(k + 1)) /\ at(k + 1) \in 6..17
      BY <2>2, <1>9
    <3>2. at(k) \in Live
      BY <2>2, <1>8
    <3> QED
      BY <3>1, <3>2, <2>1
  <2>4. NextState(at(k), Class(c)) = at(k + 1)
    BY <2>3, BytesAdvance
  <2> QED
    BY <2>1, <2>2, <2>4, <1>0
<1>12. states \in [i..(e - 1) -> Live] /\ states[i] = 1 /\ states[e - 1] = 17
  BY <1>0, <1>8, <1>10
<1> HIDE DEF states
<1>13. IsRun(t, i, e - 1, states)
  BY <1>11, <1>12 DEF IsRun
<1> QED
  BY <1>0, <1>12, <1>13, <1>4 DEF Runs

\* From one place there is one run.
LEMMA RunsAgree ==
  ASSUME NEW ch, NEW i \in Nat, NEW m \in Nat, NEW n \in Nat, NEW states, NEW others,
         IsRun(ch, i, m, states), IsRun(ch, i, n, others),
         NEW k \in Nat, i <= k, k <= m, k <= n
  PROVE  states[k] = others[k]
<1> DEFINE All == {d \in Nat : i + d <= m /\ i + d <= n => states[i + d] = others[i + d]}
<1>1. ASSUME NEW d \in Nat, \A j \in 0..(d - 1) : j \in All
      PROVE  d \in All
  <2>1. CASE d = 0
    BY <2>1 DEF IsRun
  <2>2. CASE d # 0
    <3>1. d - 1 \in All
      BY <1>1, <2>2
    <3>2. i + d <= m /\ i + d <= n =>
            /\ states[i + d] = NextState(states[i + (d - 1)], Class(Entry(ch, i + (d - 1))))
            /\ others[i + d] = NextState(others[i + (d - 1)], Class(Entry(ch, i + (d - 1))))
      <4>1. (i + (d - 1)) + 1 = i + d
            /\ (i + d <= m => i + (d - 1) \in i..(m - 1))
            /\ (i + d <= n => i + (d - 1) \in i..(n - 1))
        BY <2>2
      <4> QED
        BY <4>1 DEF IsRun
    <3> QED
      BY <3>1, <3>2
  <2> QED
    BY <2>1, <2>2
<1> HIDE DEF All
<1>2. \A d \in Nat : d \in All
  BY <1>1, AllNaturals
<1>3. k - i \in All
  BY <1>2
<1> QED
  BY <1>3 DEF All

\* No run leads over the end of a set, nor stops in front of it.
LEMMA RunsOfASet ==
  ASSUME NEW t \in Seq(0..255), NEW i \in Nat, NEW e \in (i + 1)..Len(t), SetAt(t, i, e),
         NEW m \in Nat, i <= m, m <= Len(t), NEW state, Runs(t, i, m, state)
  PROVE  /\ m < e
         /\ NextState(state, Class(Entry(t, m))) \in 6..18
         /\ NextState(state, Class(Entry(t, m))) = 18 => m + 1 = e
<1>1. PICK states : IsRun(t, i, m, states) /\ states[m] = state
  BY DEF Runs
<1>2. e \in Nat /\ Len(t) \in Nat
  BY SeqElements
<1>3. PICK d \in Nat : d = e - 1 /\ e = d + 1 /\ i <= d /\ d < Len(t)
  BY <1>2
<1>4. Runs(t, i, d, 17) /\ t[d + 1] = 93
  BY <1>3, SetHasRun
<1>5. PICK others : IsRun(t, i, d, others) /\ others[d] = 17
  BY <1>4 DEF Runs
<1>6. NextState(17, Class(Entry(t, d))) = 18
  <2>1. PICK c \in 0..255 : c = t[d + 1] /\ c = Entry(t, d)
    BY <1>3, EntryIsAByte
  <2>2. Class(c) = 10
    <3>1. c = 93
      BY <2>1, <1>4
    <3> QED
      BY <3>1, ClassesOfBytes
  <2>3. NextState(17, 10) = 18
    BY Rows
  <2> QED
    BY <2>1, <2>2, <2>3
<1>7. m <= d
  <2>1. SUFFICES ASSUME d < m PROVE FALSE
    BY <1>3
  <2>2. states[d] = others[d]
    BY <2>1, <1>1, <1>3, <1>5, RunsAgree
  <2>3. d \in i..(m - 1) /\ d + 1 \in i..m
    BY <2>1, <1>3
  <2>4. states[d + 1] = 18 /\ states[d + 1] \in Live
    BY <2>2, <2>3, <1>1, <1>5, <1>6 DEF IsRun
  <2> QED
    BY <2>4 DEF Live
<1>8. state = others[m]
  <2>1. i <= m /\ m <= m /\ m <= d
    BY <1>7
  <2>2. PICK x \in Nat : x = m /\ i <= x /\ x <= m /\ x <= d
    BY <2>1
  <2>3. IsRun(t, i, m, states) /\ IsRun(t, i, d, others)
    BY <1>1, <1>5
  <2>4. states[x] = others[x]
    BY <2>2, <2>3, <1>3, RunsAgree
  <2> QED
    BY <2>2, <2>4, <1>1
<1>9. CASE m = d
  BY <1>9, <1>3, <1>5, <1>6, <1>8
<1>10. CASE m # d
  <2>1. PICK n \in Nat : n = m + 1 /\ n <= d /\ i <= n /\ m \in i..(d - 1) /\ n \in i..d
    BY <1>3, <1>7, <1>10
  <2>2. NextState(state, Class(Entry(t, m))) = others[n] /\ others[m] \in Live /\ others[n] \in Live
    BY <2>1, <1>5, <1>8 DEF IsRun
  <2>3. PICK old \in Live, new \in Live : old = others[m] /\ new = others[n]
    BY <2>2
  <2>4. PICK c \in 0..255 : c = t[m + 1] /\ c = Entry(t, m)
    <3>1. m < Len(t)
      BY <1>2, <1>3, <2>1
    <3> QED
      BY <3>1, EntryIsAByte
  <2>5. new \in 4..19
    <3>1. NextState(old, Class(c)) \in 4..19
      BY AfterTheFirst
    <3> QED
      BY <3>1, <2>2, <2>3, <2>4, <1>8
  <2>6. new # 4
    <3>1. SUFFICES ASSUME new = 4 PROVE FALSE
      OBVIOUS
    <3>2. n \in i..(d - 1) /\ n + 1 \in i..d /\ n < Len(t)
      BY <3>1, <2>1, <2>3, <1>3, <1>5
    <3>3. PICK c2 \in 0..255 : c2 = Entry(t, n)
      BY <3>2, EntryIsAByte
    <3>4. others[n + 1] = NextState(4, Class(c2)) /\ others[n + 1] \in Live
      BY <3>1, <3>2, <3>3, <2>3, <1>5 DEF IsRun
    <3>5. NextState(4, Class(c2)) = 19
      BY AfterTheFirst DEF Live
    <3> QED
      BY <3>4, <3>5 DEF Live
  <2>7. new \in 6..17
    BY <2>5, <2>6 DEF Live
  <2> QED
    BY <2>2, <2>3, <2>7, <1>3, <1>7
<1> QED
  BY <1>9, <1>10, <1>3, <1>7

-----------------------------------------------------------------------------
(* The buffer.                                                             *)

LEMMA FilledIsABuffer ==
  ASSUME NEW bytes \in Seq(0..255), NEW size \in Nat, Len(bytes) <= size
  PROVE  /\ Filled(bytes, size) \in [1..(size + 2) -> Int]
         /\ IsBuffer(Filled(bytes, size), Len(bytes))
         /\ \A i \in 1..Len(bytes) : Filled(bytes, size)[i] = bytes[i]
<1> DEFINE ch == Filled(bytes, size)
<1>1. \A i \in 1..(size + 2) :
        ch[i] = IF i <= Len(bytes) THEN bytes[i] ELSE IF i <= Len(bytes) + 2 THEN 0 ELSE -1
  BY DEF Filled, YY_END_OF_BUFFER_CHAR, Junk
<1>2. ch = [i \in 1..(size + 2) |-> ch[i]]
  BY DEF Filled
<1> HIDE DEF ch
<1>a. Len(bytes) \in Nat /\ \A i \in 1..Len(bytes) : bytes[i] \in 0..255
  BY SeqElements
<1>b. ASSUME NEW i \in 1..(size + 2)
      PROVE  ch[i] \in Int
  <2>1. CASE i <= Len(bytes)
    <3>1. bytes[i] \in 0..255
      BY <2>1, <1>a
    <3> QED
      BY <2>1, <3>1, <1>1
  <2>2. CASE ~(i <= Len(bytes))
    BY <2>2, <1>1
  <2> QED
    BY <2>1, <2>2
<1>3. ch \in [1..(size + 2) -> Int]
  BY <1>b, <1>2
<1>4. ASSUME NEW i \in 1..Len(bytes)
      PROVE  ch[i] = bytes[i] /\ ch[i] \in 0..255
  <2>1. i \in 1..(size + 2) /\ i <= Len(bytes) /\ bytes[i] \in 0..255
    BY <1>a
  <2> QED
    BY <2>1, <1>1
<1>5. IsBuffer(ch, Len(bytes))
  BY <1>1, <1>4 DEF IsBuffer, Entry
<1> QED
  BY <1>3, <1>4, <1>5 DEF ch

IsGrowing(number, f) == f = [size \in Nat |-> IF size - number - 1 <= 0 THEN f[2 * size] ELSE size]

LEMMA GrownIsChosen ==
  ASSUME NEW size, NEW number
  PROVE  Grown(size, number) = (CHOOSE f : IsGrowing(number, f))[size]
BY Zenon DEF Grown, IsGrowing

\* Doubling a buffer of two bytes once makes room for a byte more.
LEMMA GrownHasRoom ==
  ASSUME NEW size \in Nat, size >= 2, NEW number \in 0..size
  PROVE  Grown(size, number) \in {size, 2 * size} /\ Grown(size, number) >= number + 2
<1> DEFINE stop == {k \in Nat : ~(k - number - 1 <= 0)}
           out == [k \in Nat |-> k]
           next == [k \in Nat |-> 2 * k]
<1>1. Leads(Nat, stop, next)
  BY DEF Leads
<1>2. PICK f : f = [k \in Nat |-> IF k \in stop THEN out[k] ELSE f[next[k]]]
  <2> HIDE DEF stop, next, out
  <2> QED
    BY <1>1, LoopExists
<1>3. IsGrowing(number, f)
  <2>1. \A k \in Nat : (IF k \in stop THEN out[k] ELSE f[next[k]])
          = (IF k - number - 1 <= 0 THEN f[2 * k] ELSE k)
    OBVIOUS
  <2> HIDE DEF stop, next, out
  <2>2. [k \in Nat |-> IF k \in stop THEN out[k] ELSE f[next[k]]]
          = [k \in Nat |-> IF k - number - 1 <= 0 THEN f[2 * k] ELSE k]
    BY <2>1, Zenon
  <2> QED
    BY <1>2, <2>2, Zenon DEF IsGrowing
<1>4. PICK g : IsGrowing(number, g) /\ Grown(size, number) = g[size]
  BY <1>3, GrownIsChosen, Zenon
<1>5. \A k \in Nat : g[k] = IF k - number - 1 <= 0 THEN g[2 * k] ELSE k
  BY <1>4, Zenon DEF IsGrowing
<1>6. CASE size - number - 1 <= 0
  <2>1. g[size] = g[2 * size]
    BY <1>5, <1>6
  <2>2. 2 * size \in Nat /\ 2 * size >= number + 2 /\ ~(2 * size - number - 1 <= 0)
    OBVIOUS
  <2>3. g[2 * size] = 2 * size
    BY <1>5, <2>2
  <2> QED
    BY <1>4, <2>1, <2>2, <2>3
<1>7. CASE ~(size - number - 1 <= 0)
  BY <1>4, <1>5, <1>7
<1> QED
  BY <1>6, <1>7

\* A read returns the next bytes of the text, as many as were asked for at most.
LEMMA ReceivedIsNext ==
  ASSUME text \in Seq(0..255), taken \in 0..Len(text), NEW max \in Nat
  PROVE  /\ Received(max) \in Seq(0..255)
         /\ Len(Received(max)) <= max /\ taken + Len(Received(max)) <= Len(text)
         /\ \A i \in 1..Len(Received(max)) : Received(max)[i] = text[taken + i]
         /\ max # 0 /\ Received(max) = <<>> => taken = Len(text)
<1> DEFINE rest == SubSeq(text, taken + 1, Len(text))
           I == {i \in 1..Len(rest) : rest[i] = 10}
<1>1. rest \in Seq(0..255) /\ Len(rest) = Len(text) - taken
      /\ \A i \in 1..Len(rest) : rest[i] = text[taken + i]
  BY SeqRest
<1>2. Line(rest) \in 0..Len(rest)
  <2>1. Line(rest) = IF I # {} THEN Min(I) ELSE 0
    BY DEF Line, SelectInSeq
  <2>2. I # {} => Min(I) \in I
    <3>1. HAVE I # {}
    <3>2. I \in SUBSET Nat
      BY <1>1
    <3> HIDE DEF I
    <3>3. \E x \in I : \A y \in I : x <= y
      BY <3>1, <3>2, LeastNatural
    <3> QED
      BY <3>3, Zenon DEF Min
  <2>3. Len(rest) \in Nat /\ I \subseteq 1..Len(rest)
    BY <1>1
  <2> HIDE DEF I, rest
  <2>4. CASE I = {}
    BY <2>4, <2>1, <2>3
  <2>5. CASE I # {}
    <3>1. Line(rest) \in 1..Len(rest)
      BY <2>5, <2>1, <2>2, <2>3, Zenon
    <3> QED
      BY <3>1, <2>3
  <2> QED
    BY <2>4, <2>5
<1> HIDE DEF rest
<1> DEFINE want == IF source = "terminal" /\ Line(rest) # 0 THEN Line(rest) ELSE Len(rest)
           k == IF want <= max THEN want ELSE max
<1>3. want \in 0..Len(rest) /\ (want = 0 => Len(rest) = 0)
  BY <1>1, <1>2
<1>4. Received(max) = SubSeq(rest, 1, k)
  BY Zenon DEF Received, rest
<1> HIDE DEF want
<1>5. k \in 0..Len(rest) /\ k <= max /\ (k = 0 /\ max # 0 => Len(rest) = 0)
  BY <1>3, <1>1
<1> HIDE DEF k
<1>6. /\ SubSeq(rest, 1, k) \in Seq(0..255) /\ Len(SubSeq(rest, 1, k)) = k
      /\ \A i \in 1..k : SubSeq(rest, 1, k)[i] = rest[i]
  BY <1>5, <1>1, SeqFront
<1>7. Len(rest) \in Nat /\ Len(text) \in Nat
  BY <1>1, SeqElements
<1>8. max # 0 /\ Received(max) = <<>> => taken = Len(text)
  <2>1. SUFFICES ASSUME max # 0, Received(max) = <<>> PROVE taken = Len(text)
    OBVIOUS
  <2>2. k = 0
    BY <2>1, <1>4, <1>6
  <2> QED
    BY <2>1, <2>2, <1>1, <1>5, <1>7
<1> HIDE DEF want
<1>9. taken + k <= Len(text)
  BY <1>1, <1>5, <1>7
<1>10. \A i \in 1..k : SubSeq(rest, 1, k)[i] = text[taken + i]
  BY <1>1, <1>5, <1>6, <1>7
<1> QED
  BY <1>4, <1>5, <1>6, <1>8, <1>9, <1>10, Zenon

-----------------------------------------------------------------------------
(* The inductive invariant.  It counts in what yylex left of the text: the *)
(* bytes from the first of the token on are those that were read and are   *)
(* in no token yet.                                                        *)

TokenBytes(ts) == UNION {{k} \X (1..Len(ts[k].text)) : k \in DOMAIN ts}
Tokens == [rule : 1..4, text : Seq(Int)]

LEMMA TokenIsCounted ==
  ASSUME NEW ts \in Seq(Tokens), IsFiniteSet(TokenBytes(ts)), NEW t \in Tokens
  PROVE  /\ IsFiniteSet(TokenBytes(Append(ts, t)))
         /\ Cardinality(TokenBytes(Append(ts, t))) = Cardinality(TokenBytes(ts)) + Len(t.text)
<1> DEFINE k == Len(ts) + 1
           new == {k} \X (1..Len(t.text))
           more == Append(ts, t)
<1>1. Len(t.text) \in Nat
  BY DEF Tokens
<1>2. DOMAIN more = (DOMAIN ts) \cup {k} /\ more[k] = t /\ \A i \in DOMAIN ts : more[i] = ts[i]
  OBVIOUS
<1> HIDE DEF more
<1>3. TokenBytes(more) = TokenBytes(ts) \cup new
  <2>1. {{i} \X (1..Len(more[i].text)) : i \in DOMAIN more}
          = {{i} \X (1..Len(ts[i].text)) : i \in DOMAIN ts} \cup {new}
    BY <1>2
  <2> HIDE DEF new
  <2> QED
    BY <2>1 DEF TokenBytes
<1>4. TokenBytes(ts) \cap new = {}
  <2>1. k \notin DOMAIN ts
    OBVIOUS
  <2> HIDE DEF k
  <2> QED
    BY <2>1 DEF TokenBytes
<1>5. IsFiniteSet(new) /\ Cardinality(new) = Len(t.text)
  <2>1. IsFiniteSet(1..Len(t.text)) /\ Cardinality(1..Len(t.text)) = Len(t.text)
    <3>1. PICK m \in Nat : m = Len(t.text)
      BY <1>1
    <3>2. IsFiniteSet(1..m) /\ Cardinality(1..m) = m
      BY FS_Interval
    <3> QED
      BY <3>1, <3>2, Zenon
  <2>2. IsFiniteSet({k}) /\ Cardinality({k}) = 1
    BY FS_Singleton
  <2> HIDE DEF k
  <2>3. IsFiniteSet(new) /\ Cardinality(new) = 1 * Len(t.text)
    BY <2>1, <2>2, FS_Product
  <2> QED
    BY <2>3, <1>1
<1> HIDE DEF new
<1>6. IsFiniteSet(TokenBytes(ts) \cup new)
      /\ Cardinality(TokenBytes(ts) \cup new)
           = Cardinality(TokenBytes(ts)) + Cardinality(new) - Cardinality({})
  <2>1. /\ IsFiniteSet(TokenBytes(ts) \cup new)
        /\ Cardinality(TokenBytes(ts) \cup new)
             = Cardinality(TokenBytes(ts)) + Cardinality(new) - Cardinality(TokenBytes(ts) \cap new)
    BY <1>5, FS_Union, Zenon
  <2> QED
    BY <2>1, <1>4, Zenon
<1>7. Cardinality({}) = 0 /\ Cardinality(TokenBytes(ts)) \in Nat
  BY FS_EmptySet, FS_CardinalityType
<1> QED
  BY <1>3, <1>5, <1>6, <1>7, <1>1 DEF more

LEMMA ScannedCounts == Scanned = Cardinality(TokenBytes(tokens))
BY Zenon DEF Scanned, BytesOf, TokenBytes

\* What the bytes from first on are: those of t from before on, up to upto.
Holds(ch, n, first, t, before, upto) ==
  /\ first \in 0..n
  /\ n - first = upto - before
  /\ \A i \in 1..(n - first) : ch[first + i] = t[before + i]

\* What is known of the token from start to cp of which the rule is act.
Found(ch, n, start, cp, act, upto) ==
  /\ start < cp
  /\ act # 4 => cp <= n
  /\ act = 1 => Runs(ch, start, cp - 1, 17) /\ Entry(ch, cp - 1) = 93
  /\ act \in {2, 3} => /\ cp = start + 1 /\ Stopped(ch, start, n, upto)
                       /\ act = 3 <=> Entry(ch, start) = 10
  /\ act = 4 => /\ cp <= n + 1
                /\ Entry(ch, cp - 1) = 0
                /\ \E state \in Live : Runs(ch, start, cp - 1, state)

First == IF pc = "action" THEN yytext_ptr ELSE yy_c_buf_p

Known ==
  /\ text \in Seq(0..255) /\ source \in {"file", "terminal", "memory"}
  /\ taken \in 0..Len(text)
  /\ pc \in {"create", "scan", "action", "done", "exit"}
  /\ last \in [state : State, cpos : Nat]
  /\ yytext_ptr \in Nat /\ yy_c_buf_p \in Nat /\ yy_act \in 0..4
  /\ tokens \in Seq(Tokens) /\ IsFiniteSet(TokenBytes(tokens))

Beginnings == pc = "create" => taken = 0 /\ tokens = <<>> /\ yytext_ptr = 0 /\ yy_c_buf_p = 0

BufferBlock ==
  /\ yy_buf_size \in Nat /\ yy_ch_buf \in [1..(yy_buf_size + 2) -> Int] /\ yy_hold_char \in Int
  /\ yy_n_chars \in 0..yy_buf_size
  /\ source # "memory" => yy_buf_size >= 2
  /\ IsBuffer(Restored, yy_n_chars)

Running == pc \in {"scan", "action", "done"} =>
  /\ BufferBlock
  /\ Holds(Restored, yy_n_chars, First, text, Scanned, taken)

\* The end of the buffer says something of the text when nothing comes behind it.
Decisive == IF taken = Len(text) THEN yy_n_chars ELSE yy_n_chars - 1

InAction == pc = "action" =>
  yy_act \in 1..4 /\ Found(Restored, yy_n_chars, yytext_ptr, yy_c_buf_p, yy_act, Decisive)

BufferInv == Known /\ Beginnings /\ Running /\ InAction

\* When all of the text was read.
Ended ==
  /\ pc = "create" => status = "NEW"
  /\ pc \in {"scan", "action", "done"} /\ source = "memory" => taken = Len(text)
  /\ status = "EOF_PENDING" => taken = Len(text)
  /\ pc = "done" => yy_c_buf_p = yy_n_chars /\ taken = Len(text)

\* A place where matching ended gives the action its token.
LEMMA ActionFound ==
  ASSUME NEW ch, NEW size \in Nat, ch \in [1..(size + 2) -> Int], NEW n \in 0..size, IsBuffer(ch, n),
         NEW from \in Nat, NEW p, NEW upto, Ends(ch, from, n, upto, p), FindAction(ch, from, p)
  PROVE  /\ pc' = "action" /\ yytext_ptr' = from /\ yy_c_buf_p' \in Nat
         /\ yy_act' \in 1..4 /\ last' \in [state : State, cpos : Nat]
         /\ yy_ch_buf' \in [1..(size + 2) -> Int] /\ yy_hold_char' \in Int
         /\ Restored' = ch
         /\ Found(ch, n, from, yy_c_buf_p', yy_act', upto)
<1> DEFINE match == Saved(p)
<1>1. IsMatch(ch, from, n, match) /\ p.last \in [state : State, cpos : Nat]
      /\ (match.state \in {4, 5, 6} => Stopped(ch, from, n, upto))
  BY DEF Ends
<1>2. /\ match.state \in {3, 4, 5, 6, 18} /\ match.cpos \in Nat /\ from < match.cpos
      /\ match.cpos <= n + 1
  BY <1>1 DEF IsMatch
<1>3. /\ yy_act' = Entry(yy_accept, match.state)
      /\ yy_hold_char' = Entry(ch, match.cpos)
      /\ yy_ch_buf' = [ch EXCEPT ![match.cpos + 1] = 0]
      /\ yy_c_buf_p' = match.cpos
      /\ pc' = "action" /\ yytext_ptr' = from /\ last' = p.last
  BY DEF FindAction, Saved
<1> HIDE DEF match
<1>4. match.cpos + 1 \in 1..(size + 2)
  BY <1>2
<1>5. yy_act' \in 1..4 /\ (yy_act' = 4 <=> match.state = 3)
  BY <1>2, <1>3, Stops DEF YY_END_OF_BUFFER
<1>6. yy_hold_char' = ch[match.cpos + 1]
  BY <1>3 DEF Entry
<1>7. Restored' = ch
  BY <1>3, <1>4, <1>6 DEF Restored
<1>8. yy_ch_buf' \in [1..(size + 2) -> Int] /\ yy_hold_char' \in Int
  BY <1>3, <1>4, <1>6
<1>9. Found(ch, n, from, yy_c_buf_p', yy_act', upto)
  <2>1. (yy_act' = 1 <=> match.state = 18) /\ (yy_act' = 3 <=> match.state = 5)
    BY <1>2, <1>3, Stops
  <2>2. yy_act' # 4 => yy_c_buf_p' <= n
    BY <1>1, <1>3, <1>5 DEF IsMatch
  <2>3. yy_act' = 1 => Runs(ch, from, yy_c_buf_p' - 1, 17) /\ Entry(ch, yy_c_buf_p' - 1) = 93
    BY <1>1, <1>3, <2>1 DEF IsMatch
  <2>4. ASSUME yy_act' \in {2, 3}
        PROVE  /\ yy_c_buf_p' = from + 1 /\ Stopped(ch, from, n, upto)
               /\ yy_act' = 3 <=> Entry(ch, from) = 10
    <3>1. match.state \in {4, 5, 6}
      BY <2>4, <2>1, <1>2, <1>5
    <3>2. yy_c_buf_p' = from + 1 /\ match.state = NextState(1, Class(Entry(ch, from)))
          /\ from + 1 <= n
      BY <3>1, <1>1, <1>3 DEF IsMatch
    <3>3. PICK c \in 0..255 : c = Entry(ch, from)
      <4>1. from \in 0..(n - 1)
        BY <3>2
      <4> QED
        BY <4>1 DEF IsBuffer
    <3>4. match.state = 5 <=> c = 10
      BY <3>2, <3>3, NewlineState
    <3> QED
      BY <3>1, <3>2, <3>3, <3>4, <2>1, <1>1
  <2>5. yy_act' = 4 => /\ yy_c_buf_p' <= n + 1 /\ Entry(ch, yy_c_buf_p' - 1) = 0
                       /\ \E state \in Live : Runs(ch, from, yy_c_buf_p' - 1, state)
    BY <1>1, <1>3, <1>5 DEF IsMatch
  <2>6. from < yy_c_buf_p'
    BY <1>2, <1>3
  <2> QED
    BY <2>2, <2>3, <2>4, <2>5, <2>6 DEF Found
<1> QED
  BY <1>1, <1>2, <1>3, <1>5, <1>7, <1>8, <1>9

LEMMA ActionInv ==
  ASSUME NEW ch, NEW size \in Nat, ch \in [1..(size + 2) -> Int], NEW n \in 0..size, IsBuffer(ch, n),
         NEW from \in Nat, NEW p, NEW upto \in {n - 1, n}, Ends(ch, from, n, upto, p),
         FindAction(ch, from, p), upto = n => taken' = Len(text),
         Known, text' = text, source' = source, tokens' = tokens,
         yy_buf_size' = size, yy_n_chars' = n, source # "memory" => size >= 2,
         taken' \in 0..Len(text), Holds(ch, n, from, text, Scanned, taken')
  PROVE  BufferInv'
<1>1. /\ pc' = "action" /\ yytext_ptr' = from /\ yy_c_buf_p' \in Nat
      /\ yy_act' \in 1..4 /\ last' \in [state : State, cpos : Nat]
      /\ yy_ch_buf' \in [1..(size + 2) -> Int] /\ yy_hold_char' \in Int
      /\ Restored' = ch
      /\ Found(ch, n, from, yy_c_buf_p', yy_act', upto)
  BY ActionFound
<1>2. Scanned' = Scanned
  BY DEF Scanned, BytesOf
<1>3. First' = from
  BY <1>1 DEF First
<1>4. Known'
  BY <1>1 DEF Known
<1>5. Beginnings' /\ InAction'
  <2>1. Stopped(ch, from, n, upto) => Stopped(ch, from, n, Decisive')
    BY DEF Stopped, Decisive
  <2>2. Found(ch, n, from, yy_c_buf_p', yy_act', Decisive')
    BY <1>1, <2>1 DEF Found
  <2> QED
    BY <1>1, <2>2 DEF Beginnings, InAction
<1>6. BufferBlock'
  BY <1>1 DEF BufferBlock
<1>7. Running'
  BY <1>1, <1>2, <1>3, <1>6 DEF Running
<1> QED
  BY <1>4, <1>5, <1>7 DEF BufferInv

\* A buffer that holds nothing, or all of a string.
LEMMA NewBuffer ==
  ASSUME NEW bytes \in Seq(0..255), NEW size \in Nat, Len(bytes) <= size,
         yy_ch_buf' = Filled(bytes, size), yy_c_buf_p' = 0, yy_hold_char' = Entry(yy_ch_buf', 0)
  PROVE  /\ Restored' = Filled(bytes, size)
         /\ yy_ch_buf' \in [1..(size + 2) -> Int] /\ yy_hold_char' \in Int
<1>1. Filled(bytes, size) \in [1..(size + 2) -> Int]
  BY FilledIsABuffer
<1> DEFINE ch == Filled(bytes, size)
<1> HIDE DEF ch
<1>2. Restored' = [ch EXCEPT ![1] = ch[1]]
  BY DEF Restored, Entry, ch
<1>3. [ch EXCEPT ![1] = ch[1]] = ch
  BY <1>1 DEF ch
<1>4. 1 \in 1..(size + 2)
  OBVIOUS
<1>5. ch[1] \in Int
  BY <1>1, <1>4 DEF ch
<1> QED
  BY <1>1, <1>2, <1>3, <1>5 DEF ch, Entry

LEMMA RestoredType ==
  ASSUME BufferBlock
  PROVE  Restored \in [1..(yy_buf_size + 2) -> Int]
<1>1. yy_ch_buf \in [1..(yy_buf_size + 2) -> Int] /\ yy_hold_char \in Int
  BY DEF BufferBlock
<1> QED
  BY <1>1, Zenon DEF Restored

LEMMA InitInv == ScannerInit => BufferInv
<1>1. SUFFICES ASSUME ScannerInit PROVE BufferInv
  OBVIOUS
<1>2. text \in Seq(0..255) /\ Len(text) \in Nat
  BY <1>1, TextsAssumption, SeqElements DEF ScannerInit
<1>3. TokenBytes(<<>>) = {}
  BY DEF TokenBytes
<1>4. IsFiniteSet(TokenBytes(tokens))
  BY <1>1, <1>3, FS_EmptySet, Zenon DEF ScannerInit
<1>5. source \in {"file", "terminal", "memory"} /\ pc = "create"
  BY <1>1, SourceAssumption DEF ScannerInit
<1>6. last \in [state : State, cpos : Nat]
  BY <1>1 DEF ScannerInit, NotStarted, State
<1>7. tokens \in Seq(Tokens)
  BY <1>1 DEF ScannerInit
<1>8. taken = 0 /\ yytext_ptr = 0 /\ yy_c_buf_p = 0 /\ yy_act = 0 /\ tokens = <<>>
  BY <1>1 DEF ScannerInit
<1>9. Known
  BY <1>2, <1>4, <1>5, <1>6, <1>7, <1>8 DEF Known
<1>10. Beginnings /\ Running /\ InAction
  BY <1>5, <1>8 DEF Beginnings, Running, InAction
<1> QED
  BY <1>9, <1>10 DEF BufferInv

LEMMA ExitInv ==
  ASSUME BufferInv, Exit
  PROVE  BufferInv'
<1>1. Known'
  BY DEF BufferInv, Known, Exit, input, pointers
<1>2. Beginnings' /\ Running' /\ InAction'
  BY DEF Exit, Beginnings, Running, InAction
<1> QED
  BY <1>1, <1>2 DEF BufferInv

LEMMA CreateInv ==
  ASSUME BufferInv, Create
  PROVE  BufferInv'
<1>1. CASE Exit
  BY <1>1, ExitInv
<1>2. CASE ~Exit
  <2>1. /\ pc = "create" /\ pc' = "scan"
        /\ yy_create_buffer \/ yy_scan_bytes
        /\ yy_hold_char' = Entry(yy_ch_buf', 0)
        /\ UNCHANGED <<input, calls, status, yytext_ptr, yy_c_buf_p, last, yy_act, tokens, dot>>
    BY <1>2 DEF Create
  <2>2. Known /\ text \in Seq(0..255) /\ Len(text) \in Nat /\ taken = 0 /\ tokens = <<>> /\ yy_c_buf_p = 0
    BY <2>1, SeqElements DEF BufferInv, Known, Beginnings
  <2>3. PICK bytes \in Seq(0..255), size \in Nat :
          /\ Len(bytes) <= size /\ (source # "memory" => size >= 2)
          /\ yy_ch_buf' = Filled(bytes, size) /\ yy_buf_size' = size
          /\ yy_n_chars' = Len(bytes) /\ taken' = Len(bytes) /\ Len(bytes) <= Len(text)
          /\ \A i \in 1..Len(bytes) : bytes[i] = text[i]
    <3>1. CASE yy_create_buffer
      <4>1. YY_BUF_SIZE \in Nat /\ YY_BUF_SIZE >= 2
        BY SizeAssumption DEF YY_BUF_SIZE
      <4>2. <<>> \in Seq(0..255) /\ Len(<<>>) = 0
        OBVIOUS
      <4>3. PICK none \in Seq(0..255) : none = <<>> /\ Len(none) = 0
        BY <4>2
      <4>4. /\ yy_ch_buf' = Filled(none, YY_BUF_SIZE) /\ yy_buf_size' = YY_BUF_SIZE
            /\ yy_n_chars' = Len(none) /\ taken' = Len(none)
        BY <3>1, <4>3 DEF yy_create_buffer
      <4>5. Len(none) <= YY_BUF_SIZE /\ Len(none) <= Len(text)
        BY <4>1, <4>3, <2>2
      <4>6. \A i \in 1..Len(none) : none[i] = text[i]
        BY <4>3
      <4>7. PICK z \in Nat : z = YY_BUF_SIZE
        BY <4>1
      <4> WITNESS none \in Seq(0..255), z \in Nat
      <4> QED
        BY <4>1, <4>4, <4>5, <4>6, <4>7
    <3>2. CASE yy_scan_bytes
      BY <3>2, <2>2 DEF yy_scan_bytes
    <3> QED
      BY <2>1, <3>1, <3>2
  <2>4. Len(bytes) \in Nat
    BY SeqElements
  <2>5. /\ Filled(bytes, size) \in [1..(size + 2) -> Int]
        /\ IsBuffer(Filled(bytes, size), Len(bytes))
        /\ \A i \in 1..Len(bytes) : Filled(bytes, size)[i] = bytes[i]
    BY <2>3, FilledIsABuffer
  <2>6. yy_c_buf_p' = 0 /\ First' = 0 /\ text' = text /\ source' = source /\ tokens' = tokens
        /\ last' = last /\ yytext_ptr' = yytext_ptr /\ yy_act' = yy_act
    BY <2>1, <2>2 DEF First, input
  <2>7. /\ Restored' = Filled(bytes, size)
        /\ yy_ch_buf' \in [1..(size + 2) -> Int] /\ yy_hold_char' \in Int
    BY <2>1, <2>3, <2>6, NewBuffer
  <2>8. Scanned' = 0
    <3>1. TokenBytes(<<>>) = {}
      BY DEF TokenBytes
    <3>2. Scanned = 0
      BY <3>1, <2>2, ScannedCounts, FS_EmptySet, Zenon
    <3> QED
      BY <3>2, <2>6 DEF Scanned, BytesOf
  <2>9. Holds(Filled(bytes, size), Len(bytes), 0, text, 0, taken')
    BY <2>3, <2>4, <2>5 DEF Holds
  <2>10. BufferBlock'
    BY <2>3, <2>4, <2>5, <2>6, <2>7 DEF BufferBlock
  <2>11. Running'
    BY <2>3, <2>6, <2>7, <2>8, <2>9, <2>10 DEF Running
  <2>12. Known'
    BY <2>1, <2>2, <2>3, <2>4, <2>6 DEF Known
  <2>13. Beginnings' /\ InAction'
    BY <2>1 DEF Beginnings, InAction
  <2> QED
    BY <2>11, <2>12, <2>13 DEF BufferInv
<1> QED
  BY <1>1, <1>2

LEMMA ScanInv ==
  ASSUME BufferInv, Scan
  PROVE  BufferInv'
<1>1. PICK ch : ch = Restored
  OBVIOUS
<1>2. /\ pc = "scan"
      /\ FindAction(ch, yy_c_buf_p,
           yy_match(ch, [cp |-> yy_c_buf_p, state |-> yystart, last |-> last]))
      /\ UNCHANGED <<input, taken, calls, yy_buf_size, status, yy_n_chars, tokens, dot>>
  BY <1>1 DEF Scan
<1>3. Known /\ BufferBlock /\ Holds(ch, yy_n_chars, yy_c_buf_p, text, Scanned, taken)
  BY <1>1, <1>2 DEF BufferInv, Running, First
<1>4. IsBuffer(ch, yy_n_chars) /\ ch \in [1..(yy_buf_size + 2) -> Int] /\ yy_buf_size \in Nat
      /\ yy_n_chars \in 0..yy_buf_size /\ yy_n_chars \in Nat
  BY <1>1, <1>3, RestoredType DEF BufferBlock
<1>5. yy_c_buf_p \in Nat /\ yy_c_buf_p <= yy_n_chars
  BY <1>3, <1>4 DEF Holds
<1>6. last \in [state : State, cpos : Nat] /\ taken \in 0..Len(text)
  BY <1>3 DEF Known
<1> DEFINE p == [cp |-> yy_c_buf_p, state |-> yystart, last |-> last]
<1>7. OnTheWay(ch, yy_c_buf_p, yy_n_chars, p)
  BY <1>4, <1>5, <1>6, BeginningIsOnTheWay
<1> HIDE DEF p
<1>8. Ends(ch, yy_c_buf_p, yy_n_chars, yy_n_chars - 1, yy_match(ch, p))
  BY <1>4, <1>5, <1>7, MatchEnds
<1>9. FindAction(ch, yy_c_buf_p, yy_match(ch, p))
  BY <1>2 DEF p
<1>10. text' = text /\ source' = source /\ tokens' = tokens /\ taken' = taken
       /\ yy_buf_size' = yy_buf_size /\ yy_n_chars' = yy_n_chars
  BY <1>2 DEF input
<1>11. source # "memory" => yy_buf_size >= 2
  BY <1>3 DEF BufferBlock
<1>12. Holds(ch, yy_n_chars, yy_c_buf_p, text, Scanned, taken')
  BY <1>3, <1>10
<1>13. taken' \in 0..Len(text)
  BY <1>6, <1>10
<1>14. yy_n_chars - 1 \in {yy_n_chars - 1, yy_n_chars} /\ yy_n_chars - 1 # yy_n_chars
  BY <1>4
<1> QED
  BY <1>3, <1>4, <1>5, <1>8, <1>9, <1>10, <1>11, <1>12, <1>13, <1>14, ActionInv

\* yytext is what lies between the two pointers.
LEMMA YytextIsAText ==
  ASSUME BufferInv, pc = "action", yy_act # 4
  PROVE  yytext \in Seq(Int) /\ Len(yytext) = yy_c_buf_p - yytext_ptr
<1>1. /\ BufferBlock /\ yytext_ptr \in Nat /\ yy_c_buf_p \in Nat /\ yytext_ptr < yy_c_buf_p
      /\ yy_c_buf_p <= yy_n_chars /\ yy_n_chars \in Nat /\ yy_n_chars <= yy_buf_size
      /\ yy_buf_size \in Nat
  BY DEF BufferInv, Known, Running, BufferBlock, InAction, Found
<1>2. PICK ch : ch = yy_ch_buf
  OBVIOUS
<1>3. PICK L \in Nat : L = yy_buf_size + 2
  BY <1>1
<1>4. ch \in [1..L -> Int]
  BY <1>1, <1>2, <1>3 DEF BufferBlock
<1>5. ch \in Seq(Int) /\ Len(ch) = L
  BY <1>4
<1>6. yytext_ptr + 1 \in 1..L /\ yy_c_buf_p \in 1..L
  BY <1>1, <1>3
<1>7. SubSeq(ch, yytext_ptr + 1, yy_c_buf_p) \in Seq(Int)
      /\ Len(SubSeq(ch, yytext_ptr + 1, yy_c_buf_p)) = yy_c_buf_p - yytext_ptr
  BY <1>5, <1>6, <1>1
<1> QED
  BY <1>7, <1>2 DEF yytext

\* The bytes of a token are the first of those that are in none.
LEMMA RuleInv ==
  ASSUME BufferInv, pc = "action", yy_act # 4, Matched
  PROVE  BufferInv'
<1>1. Known /\ BufferBlock /\ Holds(Restored, yy_n_chars, yytext_ptr, text, Scanned, taken)
      /\ Found(Restored, yy_n_chars, yytext_ptr, yy_c_buf_p, yy_act, Decisive)
      /\ yy_act \in 1..4
  BY DEF BufferInv, Running, InAction, First
<1>2. /\ pc' = "scan" /\ tokens' = Append(tokens, [rule |-> yy_act, text |-> yytext])
      /\ UNCHANGED <<input, taken, calls, buffer, pointers>>
  BY DEF Matched
<1>3. yytext_ptr \in Nat /\ yy_c_buf_p \in Nat /\ yytext_ptr < yy_c_buf_p /\ yy_c_buf_p <= yy_n_chars
      /\ yy_n_chars \in Nat /\ yy_n_chars <= yy_buf_size /\ yy_buf_size \in Nat
  BY <1>1 DEF Known, BufferBlock, Found
<1>4. yytext \in Seq(Int) /\ Len(yytext) = yy_c_buf_p - yytext_ptr
  BY YytextIsAText
<1> DEFINE t == [rule |-> yy_act, text |-> yytext]
<1>5. t \in Tokens /\ Len(t.text) = yy_c_buf_p - yytext_ptr
  BY <1>1, <1>4 DEF Tokens
<1>6. tokens \in Seq(Tokens) /\ IsFiniteSet(TokenBytes(tokens))
  BY <1>1 DEF Known
<1>7. tokens' = Append(tokens, t)
  BY <1>2
<1> HIDE DEF t
<1>8. /\ IsFiniteSet(TokenBytes(tokens'))
      /\ Cardinality(TokenBytes(tokens')) = Cardinality(TokenBytes(tokens)) + Len(t.text)
  BY <1>5, <1>6, <1>7, TokenIsCounted
<1>9. Scanned' = Cardinality(TokenBytes(tokens'))
  BY Zenon DEF Scanned, BytesOf, TokenBytes
<1>10. Scanned' = Scanned + (yy_c_buf_p - yytext_ptr)
  BY <1>5, <1>8, <1>9, ScannedCounts
<1>11. Scanned \in Nat
  BY <1>6, ScannedCounts, FS_CardinalityType
<1>12. tokens' \in Seq(Tokens)
  BY <1>5, <1>6, <1>7
<1>13. /\ text' = text /\ source' = source /\ taken' = taken /\ last' = last
       /\ yytext_ptr' = yytext_ptr /\ yy_c_buf_p' = yy_c_buf_p /\ yy_act' = yy_act
       /\ yy_n_chars' = yy_n_chars /\ yy_buf_size' = yy_buf_size /\ yy_ch_buf' = yy_ch_buf
       /\ yy_hold_char' = yy_hold_char
  BY <1>2 DEF input, buffer, pointers
<1>14. Known'
  BY <1>1, <1>2, <1>8, <1>12, <1>13 DEF Known
<1>15. Restored' = Restored /\ First' = yy_c_buf_p
  BY <1>2, <1>13 DEF Restored, First
<1>16. BufferBlock'
  BY <1>1, <1>13, <1>15 DEF BufferBlock
<1>17. Holds(Restored, yy_n_chars, yy_c_buf_p, text, Scanned', taken)
  <2>1. yy_n_chars - yytext_ptr = taken - Scanned /\ taken \in Nat
        /\ \A i \in 1..(yy_n_chars - yytext_ptr) : Restored[yytext_ptr + i] = text[Scanned + i]
    BY <1>1, SeqElements DEF Holds, Known
  <2>2. yy_n_chars - yy_c_buf_p = taken - Scanned'
    BY <2>1, <1>3, <1>10, <1>11
  <2>3. ASSUME NEW i \in 1..(yy_n_chars - yy_c_buf_p)
        PROVE  Restored[yy_c_buf_p + i] = text[Scanned' + i]
    <3> DEFINE j == (yy_c_buf_p - yytext_ptr) + i
    <3>1. j \in 1..(yy_n_chars - yytext_ptr) /\ yytext_ptr + j = yy_c_buf_p + i
          /\ Scanned + j = Scanned' + i
      BY <1>3, <1>10, <1>11
    <3> HIDE DEF j
    <3>2. Restored[yytext_ptr + j] = text[Scanned + j]
      BY <2>1, <3>1
    <3> QED
      BY <3>1, <3>2
  <2>4. yy_c_buf_p \in 0..yy_n_chars
    BY <1>3
  <2> QED
    BY <2>2, <2>3, <2>4 DEF Holds
<1>18. Running'
  BY <1>13, <1>15, <1>16, <1>17 DEF Running
<1>19. Beginnings' /\ InAction'
  BY <1>2 DEF Beginnings, InAction
<1> QED
  BY <1>14, <1>18, <1>19 DEF BufferInv

-----------------------------------------------------------------------------
(* The actions at the end of the buffer.                                   *)

\* What is known there.
LEMMA AtTheEnd ==
  ASSUME BufferInv, AtEndOfBuffer
  PROVE  /\ Known /\ BufferBlock /\ pc = "action"
         /\ Holds(Restored, yy_n_chars, yytext_ptr, text, Scanned, taken)
         /\ Restored \in [1..(yy_buf_size + 2) -> Int] /\ IsBuffer(Restored, yy_n_chars)
         /\ yytext_ptr \in Nat /\ yy_c_buf_p \in Nat /\ yytext_ptr < yy_c_buf_p
         /\ yy_c_buf_p <= yy_n_chars + 1
         /\ yy_n_chars \in Nat /\ yy_n_chars <= yy_buf_size /\ yy_buf_size \in Nat
         /\ yy_n_chars \in 0..yy_buf_size
         /\ Entry(Restored, yy_c_buf_p - 1) = 0
         /\ \E state \in Live : Runs(Restored, yytext_ptr, yy_c_buf_p - 1, state)
         /\ last \in [state : State, cpos : Nat] /\ taken \in 0..Len(text)
         /\ source # "memory" => yy_buf_size >= 2
<1>1. pc = "action" /\ yy_act = 4
  BY DEF AtEndOfBuffer, YY_END_OF_BUFFER
<1>2. Known /\ BufferBlock /\ Holds(Restored, yy_n_chars, yytext_ptr, text, Scanned, taken)
      /\ Found(Restored, yy_n_chars, yytext_ptr, yy_c_buf_p, yy_act, Decisive)
  BY <1>1 DEF BufferInv, Running, InAction, First
<1>3. Restored \in [1..(yy_buf_size + 2) -> Int]
  BY <1>2, RestoredType
<1>4. yy_buf_size \in Nat /\ yy_n_chars \in 0..yy_buf_size
  BY <1>2 DEF BufferBlock
<1> QED
  BY <1>1, <1>2, <1>3, <1>4 DEF Known, BufferBlock, Found

LEMMA NulInv ==
  ASSUME BufferInv, Nul
  PROVE  BufferInv'
<1>1. PICK ch : ch = Restored
  OBVIOUS
<1>2. AtEndOfBuffer /\ yy_c_buf_p <= yy_n_chars
  BY DEF Nul, ReallyNul
<1> DEFINE at == yy_c_buf_p - 1
           p == yy_get_previous_state(ch, yytext_ptr, at)
           next == Step(p, YY_NUL_EC)
<1>3. PICK n \in Nat, start \in Nat : n = yy_n_chars /\ start = yytext_ptr
  BY <1>2, AtTheEnd
<1>4. /\ Known /\ BufferBlock /\ Holds(ch, n, start, text, Scanned, taken)
      /\ ch \in [1..(yy_buf_size + 2) -> Int] /\ IsBuffer(ch, n)
      /\ yy_c_buf_p \in Nat /\ start < yy_c_buf_p /\ n \in 0..yy_buf_size /\ yy_buf_size \in Nat
      /\ Entry(ch, at) = 0 /\ last \in [state : State, cpos : Nat] /\ taken \in 0..Len(text)
      /\ source # "memory" => yy_buf_size >= 2
  BY <1>1, <1>2, <1>3, AtTheEnd
<1>5. PICK reached \in Live : Runs(ch, start, at, reached)
  BY <1>1, <1>2, <1>3, AtTheEnd
<1>6. at \in start..n /\ at < n
  BY <1>2, <1>3, <1>4
<1>7. OnTheWay(ch, start, n, p) /\ p.cp = at /\ p.state = reached
  <2> DEFINE q == yy_get_previous_state(ch, start, at)
  <2>1. q = p
    BY <1>3
  <2> HIDE DEF p, at
  <2>2. IsBuffer(ch, n) /\ Runs(ch, start, at, reached) /\ at \in start..n
        /\ last \in [state : State, cpos : Nat]
    BY <1>4, <1>5, <1>6
  <2>3. Reached(ch, start, n, at, reached, q)
    BY <2>2, RetraceEnds
  <2> QED
    BY <2>1, <2>3, Zenon DEF Reached
<1>8. FindAction(ch, start, IF next.state = YY_JAMSTATE THEN [p EXCEPT !.last = next.last]
                            ELSE yy_match(ch, next))
  <2>1. yytext_ptr + yy_amount_of_matched_text = at
    BY <1>3, <1>4 DEF yy_amount_of_matched_text
  <2> QED
    BY <1>1, <1>3, <2>1 DEF Nul
<1>9. next = PlaceAfter(ch, p) /\ next.state = NextState(reached, YY_NUL_EC) /\ next.last = Saved(p)
  BY <1>4, <1>7 DEF PlaceAfter, Class, Step
<1>10. text' = text /\ source' = source /\ tokens' = tokens /\ taken' = taken
       /\ yy_buf_size' = yy_buf_size /\ yy_n_chars' = n
  BY <1>3 DEF Nul, input
<1> HIDE DEF at, p, next
<1>11. PICK q : Ends(ch, start, n, n - 1, q) /\ FindAction(ch, start, q)
  <2>1. CASE reached = 1
    <3>1. next.state = 4 /\ next.state # YY_JAMSTATE
      BY <2>1, <1>9, Transitions DEF YY_JAMSTATE
    <3>2. PlaceAfter(ch, p).state \in Live /\ p.cp < n
      BY <3>1, <1>6, <1>7, <1>9 DEF Live
    <3>3. OnTheWay(ch, start, n, next)
      BY <3>2, <1>3, <1>4, <1>7, <1>9, OneByteFurther
    <3>4. Ends(ch, start, n, n - 1, yy_match(ch, next))
      BY <3>3, <1>3, <1>4, MatchEnds
    <3> QED
      BY <3>1, <3>4, <1>8
  <2>2. CASE reached # 1
    <3> DEFINE q == [p EXCEPT !.last = next.last]
    <3>1. next.state = YY_JAMSTATE
      BY <2>2, <1>5, <1>9, Transitions
    <3>2. IsMatch(ch, start, n, Saved(p)) /\ Saved(p) \in [state : State, cpos : Nat]
      BY <2>2, <1>3, <1>7, SavedIsAMatch
    <3>3. q.last = Saved(p) /\ q.state = p.state /\ q.cp = p.cp
      BY <1>7, <1>9 DEF OnTheWay, Place
    <3>4. Saved(q) = Saved(p)
      BY <3>3 DEF Saved
    <3>5. FindAction(ch, start, q)
      BY <3>1, <1>8
    <3> HIDE DEF q
    <3>6. Stopped(ch, start, n, n - 1)
      <4>1. Entry(ch, at) = 0 /\ at \in start..n /\ at < n /\ at <= n - 1
        BY <1>4, <1>6
      <4>2. NextState(reached, Class(Entry(ch, at))) = 19
        BY <3>1, <4>1, <1>9 DEF Class, YY_JAMSTATE
      <4> QED
        BY <4>1, <4>2, <1>5 DEF Stopped
    <3>7. Ends(ch, start, n, n - 1, q)
      BY <3>2, <3>3, <3>4, <3>6 DEF Ends
    <3> QED
      BY <3>5, <3>7
  <2> QED
    BY <2>1, <2>2
<1>12. Holds(ch, n, start, text, Scanned, taken') /\ taken' \in 0..Len(text)
  BY <1>4, <1>10
<1> QED
  <2>1. n - 1 \in {n - 1, n} /\ n - 1 # n
    BY <1>3
  <2> QED
    BY <2>1, <1>3, <1>4, <1>10, <1>11, <1>12, ActionInv

\* At the end of what there is, the state that was reached decides.
LEMMA LastMatchEnds ==
  ASSUME NEW ch, NEW n, IsBuffer(ch, n), NEW start \in Nat, start < n,
         NEW state \in Live, Runs(ch, start, n, state), last \in [state : State, cpos : Nat]
  PROVE  Ends(ch, start, n, n, yy_get_previous_state(ch, start, n))
<1>1. n \in Nat /\ n \in start..n
  BY DEF IsBuffer
<1> DEFINE p == yy_get_previous_state(ch, start, n)
<1>2. OnTheWay(ch, start, n, p) /\ p.cp = n
  BY <1>1, RetraceEnds DEF Reached
<1> HIDE DEF p
<1>3. p.state # 1
  BY <1>1, <1>2 DEF OnTheWay
<1>4. IsMatch(ch, start, n, Saved(p))
  BY <1>2, <1>3, SavedIsAMatch
<1>5. Stopped(ch, start, n, n)
  BY <1>1 DEF Stopped
<1> QED
  BY <1>2, <1>4, <1>5 DEF Ends, OnTheWay, Place, p

LEMMA MemoryEndInv ==
  ASSUME BufferInv, Ended, MemoryEnd
  PROVE  BufferInv'
<1>1. PICK ch : ch = Restored
  OBVIOUS
<1>2. AtEndOfBuffer /\ ~(yy_c_buf_p <= yy_n_chars)
  BY DEF MemoryEnd, ReallyNul
<1>3. PICK n \in Nat, start \in Nat : n = yy_n_chars /\ start = yytext_ptr
  BY <1>2, AtTheEnd
<1>4. /\ Known /\ BufferBlock /\ pc = "action" /\ Holds(ch, n, start, text, Scanned, taken)
      /\ ch \in [1..(yy_buf_size + 2) -> Int] /\ IsBuffer(ch, n)
      /\ yy_c_buf_p \in Nat /\ start < yy_c_buf_p /\ n \in 0..yy_buf_size /\ yy_buf_size \in Nat
      /\ last \in [state : State, cpos : Nat] /\ taken \in 0..Len(text)
      /\ source # "memory" => yy_buf_size >= 2
      /\ yy_c_buf_p <= n + 1
  BY <1>1, <1>2, <1>3, AtTheEnd
<1>5. yy_c_buf_p = n + 1 /\ yy_c_buf_p - 1 = n
  BY <1>2, <1>3, <1>4
<1>6. PICK state \in Live : Runs(ch, start, n, state)
  BY <1>1, <1>2, <1>3, <1>5, AtTheEnd
<1>7. text' = text /\ source' = source /\ tokens' = tokens /\ taken' = taken
       /\ yy_buf_size' = yy_buf_size /\ yy_n_chars' = n
  BY <1>3 DEF MemoryEnd, input
<1>8. Holds(ch, n, start, text, Scanned, taken') /\ taken' \in 0..Len(text)
  BY <1>4, <1>7
<1>9. CASE yy_c_buf_p - yytext_ptr = 1
  <2>1. /\ yy_ch_buf' = ch /\ yytext_ptr' = start /\ yy_hold_char' = yy_hold_char
        /\ pc' = "done" /\ yy_c_buf_p' = start /\ last' = last /\ yy_act' = yy_act
    BY <1>1, <1>3, <1>9 DEF MemoryEnd, EndOfFile
  <2>2. start = n
    BY <1>9, <1>3, <1>4, <1>5
  <2>3. yy_hold_char = 0
    <3>1. yy_ch_buf \in [1..(yy_buf_size + 2) -> Int] /\ n + 2 \in 1..(yy_buf_size + 2)
      BY <1>4 DEF BufferBlock
    <3>2. Restored = [yy_ch_buf EXCEPT ![n + 2] = yy_hold_char]
      BY <1>5 DEF Restored
    <3>3. Restored[n + 2] = yy_hold_char
      BY <3>1, <3>2
    <3>4. ch[n + 2] = 0
      BY <1>4 DEF IsBuffer, Entry
    <3> QED
      BY <3>3, <3>4, <1>1
  <2>4. Restored' = ch
    <3>1. Restored' = [ch EXCEPT ![n + 1] = 0]
      BY <2>1, <2>2, <2>3 DEF Restored
    <3>2. ch[n + 1] = 0
      BY <1>4 DEF IsBuffer, Entry
    <3> QED
      BY <3>1, <3>2, <1>4
  <2>5. BufferBlock'
    BY <2>1, <2>3, <2>4, <1>4, <1>7 DEF BufferBlock
  <2>6. Scanned' = Scanned /\ First' = start
    BY <2>1, <1>7 DEF Scanned, BytesOf, First
  <2>7. Running'
    BY <2>4, <2>5, <2>6, <1>7, <1>8 DEF Running
  <2>8. Known'
    BY <2>1, <1>4, <1>7 DEF Known
  <2>9. Beginnings' /\ InAction'
    BY <2>1 DEF Beginnings, InAction
  <2> QED
    BY <2>7, <2>8, <2>9 DEF BufferInv
<1>10. CASE yy_c_buf_p - yytext_ptr # 1
  <2>1. FindAction(ch, start, yy_get_previous_state(ch, start, n))
    BY <1>1, <1>3, <1>10 DEF MemoryEnd, LastMatch
  <2>2. start < n
    BY <1>10, <1>3, <1>4, <1>5
  <2>3. Ends(ch, start, n, n, yy_get_previous_state(ch, start, n))
    BY <2>2, <1>4, <1>6, LastMatchEnds
  <2>4. n \in {n - 1, n} /\ taken' = Len(text)
    BY <1>4, <1>7 DEF Ended, MemoryEnd
  <2> QED
    BY <2>1, <2>3, <2>4, <1>3, <1>4, <1>7, <1>8, ActionInv
<1> QED
  BY <1>9, <1>10

\* What is moved to the front, and what a read adds.
LEMMA MovedBytes ==
  ASSUME NEW ch, NEW size \in Nat, ch \in [1..(size + 2) -> Int], NEW n \in 0..size, IsBuffer(ch, n),
         NEW start \in Nat, NEW k \in Nat, n = start + k
  PROVE  /\ SubSeq(ch, start + 1, start + k) \in Seq(0..255)
         /\ Len(SubSeq(ch, start + 1, start + k)) = k
         /\ \A i \in 1..k : SubSeq(ch, start + 1, start + k)[i] = ch[start + i]
<1>1. PICK L \in Nat : L = size + 2 /\ n <= L
  OBVIOUS
<1>2. ch \in Seq(Int) /\ Len(ch) = L
  BY <1>1
<1>3. k = n - start
  OBVIOUS
<1> DEFINE moved == SubSeq(ch, start + 1, start + k)
<1>4. moved \in Seq(Int) /\ Len(moved) = k /\ \A i \in 1..k : moved[i] = ch[start + i]
  BY <1>1, <1>2, <1>3
<1>5. \A i \in 1..k : ch[start + i] \in 0..255
  <2>1. SUFFICES ASSUME NEW i \in 1..k PROVE ch[start + i] \in 0..255
    OBVIOUS
  <2>2. start + i - 1 \in 0..(n - 1) /\ (start + i - 1) + 1 = start + i
    BY <1>3
  <2> QED
    BY <2>2 DEF IsBuffer, Entry
<1> HIDE DEF moved
<1>6. moved \in Seq(0..255)
  <2>1. \A i \in 1..Len(moved) : moved[i] \in 0..255
    BY <1>4, <1>5
  <2> QED
    BY <2>1, <1>4, SeqInto
<1> QED
  BY <1>3, <1>4, <1>6 DEF moved

LEMMA RefilledInv ==
  ASSUME BufferInv, AtEndOfBuffer, ~ReallyNul,
         NEW size \in Nat, NEW got \in Seq(0..255),
         number_to_move + Len(got) <= size, source # "memory" => size >= 2,
         taken + Len(got) <= Len(text), \A i \in 1..Len(got) : got[i] = text[taken + i],
         got = <<>> => taken = Len(text), Refilled(size, got), UNCHANGED <<input, calls, tokens, dot>>
  PROVE  BufferInv'
<1>1. PICK ch : ch = Restored
  OBVIOUS
<1>2. PICK n \in Nat, start \in Nat : n = yy_n_chars /\ start = yytext_ptr
  BY AtTheEnd
<1>3. /\ Known /\ BufferBlock /\ pc = "action" /\ Holds(ch, n, start, text, Scanned, taken)
      /\ ch \in [1..(yy_buf_size + 2) -> Int] /\ IsBuffer(ch, n)
      /\ yy_c_buf_p \in Nat /\ start < yy_c_buf_p /\ n \in 0..yy_buf_size /\ yy_buf_size \in Nat
      /\ last \in [state : State, cpos : Nat] /\ taken \in 0..Len(text)
      /\ yy_c_buf_p <= n + 1
  BY <1>1, <1>2, AtTheEnd
<1>4. yy_c_buf_p = n + 1 /\ yy_c_buf_p - 1 = n /\ start \in 0..n
  BY <1>2, <1>3 DEF ReallyNul
<1>5. PICK state \in Live : Runs(ch, start, n, state)
  BY <1>1, <1>2, <1>4, AtTheEnd
<1>6. PICK k \in Nat : k = n - start /\ number_to_move = k /\ n = start + k
  BY <1>2, <1>4 DEF number_to_move
<1> DEFINE moved == SubSeq(ch, start + 1, start + k)
           bytes == moved \o got
           to == Filled(bytes, size)
<1>7. MovedText = moved
  BY <1>1, <1>2, <1>6 DEF MovedText
<1>8. moved \in Seq(0..255) /\ Len(moved) = k /\ \A i \in 1..k : moved[i] = ch[start + i]
  <2>1. /\ yy_buf_size \in Nat /\ ch \in [1..(yy_buf_size + 2) -> Int] /\ n \in 0..yy_buf_size
        /\ IsBuffer(ch, n) /\ start \in Nat /\ k \in Nat /\ n = start + k
    BY <1>3, <1>6
  <2>2. moved \in Seq(0..255)
    BY <2>1, MovedBytes
  <2>3. Len(moved) = k
    BY <2>1, MovedBytes
  <2>4. \A i \in 1..k : moved[i] = ch[start + i]
    BY <2>1, MovedBytes
  <2> QED
    BY <2>2, <2>3, <2>4, Zenon
<1> HIDE DEF moved
<1>9. PICK m \in Nat : m = Len(got)
  BY SeqElements
<1>10. /\ bytes \in Seq(0..255) /\ Len(bytes) = k + m
       /\ \A i \in 1..k : bytes[i] = ch[start + i]
       /\ \A i \in 1..m : bytes[k + i] = got[i]
  <2>1. /\ bytes \in Seq(0..255) /\ Len(bytes) = Len(moved) + Len(got)
        /\ \A i \in 1..Len(moved) : bytes[i] = moved[i]
        /\ \A i \in 1..Len(got) : bytes[Len(moved) + i] = got[i]
    <3>1. bytes \in Seq(0..255)
      BY <1>8, SeqJoin
    <3>2. Len(bytes) = Len(moved) + Len(got)
      BY <1>8, SeqJoin
    <3>3. \A i \in 1..Len(moved) : bytes[i] = moved[i]
      BY <1>8, SeqJoin
    <3>4. \A i \in 1..Len(got) : bytes[Len(moved) + i] = got[i]
      BY <1>8, SeqJoin
    <3> QED
      BY <3>1, <3>2, <3>3, <3>4, Zenon
  <2> QED
    BY <2>1, <1>8, <1>9
<1> HIDE DEF bytes
<1>11. /\ to \in [1..(size + 2) -> Int] /\ IsBuffer(to, k + m) /\ k + m <= size
       /\ \A i \in 1..(k + m) : to[i] = bytes[i]
  BY <1>6, <1>9, <1>10, FilledIsABuffer
<1> HIDE DEF to
<1>12. /\ yy_buf_size' = size /\ taken' = taken + m
       /\ \/ /\ got # <<>>
             /\ yy_n_chars' = k + m
             /\ FindAction(to, 0, yy_match(to, yy_get_previous_state(to, 0, k)))
          \/ /\ got = <<>> /\ k > 0
             /\ yy_n_chars' = k
             /\ LastMatch(to, 0, k)
          \/ /\ got = <<>> /\ k = 0
             /\ yyrestart(size)
             /\ EndOfFile
  BY <1>6, <1>7, <1>9, <1>10 DEF Refilled, bytes, to
<1>13. text' = text /\ source' = source /\ tokens' = tokens /\ taken' \in 0..Len(text)
  <2>1. taken' \in Nat /\ taken' <= Len(text)
    BY <1>3, <1>9, <1>12
  <2>2. Len(text) \in Nat
    BY <1>3, SeqElements DEF Known
  <2> QED
    BY <2>1, <2>2 DEF input
<1>14. Runs(to, 0, k, state)
  <2>1. \A i \in 0..(k - 1) : Entry(to, 0 + i) = Entry(ch, start + i)
    <3>1. SUFFICES ASSUME NEW i \in 0..(k - 1) PROVE Entry(to, 0 + i) = Entry(ch, start + i)
      OBVIOUS
    <3>2. i + 1 \in 1..k /\ i + 1 \in 1..(k + m) /\ start + (i + 1) = (start + i) + 1
      BY <1>9
    <3>3. to[i + 1] = ch[start + (i + 1)]
      BY <3>2, <1>10, <1>11
    <3> QED
      BY <3>2, <3>3 DEF Entry
  <2>2. Runs(ch, start, start + k, state)
    BY <1>5, <1>6
  <2>3. PICK at \in Nat : at = 0
    OBVIOUS
  <2>4. \A i \in 0..(k - 1) : Entry(to, at + i) = Entry(ch, start + i)
    BY <2>1, <2>3
  <2>5. Runs(to, at, at + k, state)
    BY <2>2, <2>4, RunMoves
  <2>6. at + k = k
    BY <2>3
  <2> QED
    BY <2>3, <2>5, <2>6, Zenon
<1>15. Holds(to, k + m, 0, text, Scanned, taken')
  <2>1. Scanned \in Nat /\ taken \in Nat
    BY <1>3, ScannedCounts, FS_CardinalityType, SeqElements DEF Known
  <2>2. k = taken - Scanned /\ \A i \in 1..k : ch[start + i] = text[Scanned + i]
    BY <1>3, <1>6 DEF Holds
  <2>3. ASSUME NEW i \in 1..(k + m) PROVE to[i] = text[Scanned + i]
    <3>1. CASE i <= k
      BY <3>1, <2>2, <1>10, <1>11
    <3>2. CASE ~(i <= k)
      <4>1. PICK S \in Nat, T \in Nat : S = Scanned /\ T = taken /\ k = T - S
        BY <2>1, <2>2
      <4>2. i - k \in 1..m /\ k + (i - k) = i /\ taken + (i - k) = Scanned + i
        BY <3>2, <4>1, <1>9
      <4>3. bytes[k + (i - k)] = got[i - k] /\ got[i - k] = text[taken + (i - k)]
        BY <4>2, <1>9, <1>10
      <4> QED
        BY <4>2, <4>3, <1>11
    <3> QED
      BY <3>1, <3>2
  <2>4. k + m = taken' - Scanned
    BY <2>1, <2>2, <1>12
  <2> QED
    BY <2>3, <2>4 DEF Holds
<1>16. got = <<>> => m = 0
  BY <1>9
<1>17. CASE got # <<>> /\ yy_n_chars' = k + m
            /\ FindAction(to, 0, yy_match(to, yy_get_previous_state(to, 0, k)))
  <2>1. k \in 0..(k + m) /\ k + m \in 0..size
    BY <1>9, <1>11
  <2>2. OnTheWay(to, 0, k + m, yy_get_previous_state(to, 0, k))
    BY <2>1, <1>3, <1>11, <1>14, RetraceEnds DEF Reached
  <2>3. Ends(to, 0, k + m, (k + m) - 1, yy_match(to, yy_get_previous_state(to, 0, k)))
    BY <2>2, <1>11, MatchEnds
  <2>4. (k + m) - 1 \in {(k + m) - 1, k + m} /\ (k + m) - 1 # k + m
    BY <1>6, <1>9
  <2> QED
    BY <2>1, <2>3, <2>4, <1>3, <1>11, <1>12, <1>13, <1>15, <1>17, ActionInv
<1>18. CASE got = <<>> /\ k > 0 /\ yy_n_chars' = k /\ LastMatch(to, 0, k)
  <2>1. k + m = k /\ k \in 0..size
    BY <1>16, <1>18, <1>11
  <2>2. Ends(to, 0, k, k, yy_get_previous_state(to, 0, k))
    BY <2>1, <1>3, <1>11, <1>14, <1>18, LastMatchEnds
  <2>3. FindAction(to, 0, yy_get_previous_state(to, 0, k))
    BY <1>18 DEF LastMatch
  <2>4. IsBuffer(to, k) /\ Holds(to, k, 0, text, Scanned, taken')
    BY <2>1, <1>11, <1>15
  <2>5. k \in {k - 1, k} /\ taken' = Len(text)
    BY <1>3, <1>12, <1>16, <1>18
  <2> QED
    BY <2>1, <2>2, <2>3, <2>4, <2>5, <1>3, <1>11, <1>12, <1>13, <1>18, ActionInv
<1>19. CASE got = <<>> /\ k = 0 /\ yyrestart(size) /\ EndOfFile
  <2> DEFINE none == <<>>
  <2>1. none \in Seq(0..255) /\ Len(none) = 0
    OBVIOUS
  <2>2. /\ yy_ch_buf' = Filled(none, size) /\ yy_n_chars' = 0 /\ yytext_ptr' = 0 /\ yy_hold_char' = 0
        /\ pc' = "done" /\ yy_c_buf_p' = 0 /\ last' = last /\ yy_act' = yy_act
    BY <1>19 DEF yyrestart, EndOfFile, YY_END_OF_BUFFER_CHAR
  <2> HIDE DEF none
  <2>3. Filled(none, size) \in [1..(size + 2) -> Int] /\ IsBuffer(Filled(none, size), 0)
    <3>1. Len(none) <= size
      BY <2>1
    <3>2. Filled(none, size) \in [1..(size + 2) -> Int] /\ IsBuffer(Filled(none, size), Len(none))
      BY <2>1, <3>1, FilledIsABuffer
    <3> QED
      BY <3>2, <2>1, Zenon
  <2>4. Entry(yy_ch_buf', 0) = 0
    BY <2>2, <2>3 DEF IsBuffer
  <2>5. Restored' = Filled(none, size) /\ yy_ch_buf' \in [1..(size + 2) -> Int]
    <3>1. Len(none) <= size /\ yy_hold_char' = Entry(yy_ch_buf', 0)
      BY <2>1, <2>2, <2>4
    <3> QED
      BY <2>1, <2>2, <3>1, NewBuffer
  <2>6. BufferBlock'
    BY <2>2, <2>3, <2>5, <1>12, <1>13 DEF BufferBlock
  <2>7. Scanned' = Scanned /\ First' = 0
    BY <2>2, <1>13 DEF Scanned, BytesOf, First
  <2>8. Holds(Filled(none, size), 0, 0, text, Scanned, taken')
    <3>1. k + m = 0
      BY <1>16, <1>19
    <3> QED
      BY <3>1, <1>15 DEF Holds
  <2>9. Running'
    BY <2>2, <2>5, <2>6, <2>7, <2>8, <1>13 DEF Running
  <2>10. Known'
    BY <2>2, <1>3, <1>13 DEF Known
  <2>11. Beginnings' /\ InAction'
    BY <2>2 DEF Beginnings, InAction
  <2> QED
    BY <2>9, <2>10, <2>11 DEF BufferInv
<1> QED
  BY <1>12, <1>17, <1>18, <1>19

\* yy_get_next_buffer ends the program, or makes room and reads the next bytes of
\* the text, none only at its end.
LEMMA WhatIsRead ==
  ASSUME BufferInv, Ended, yy_get_next_buffer
  PROVE  \/ Exit
         \/ \E size \in Nat, got \in Seq(0..255) :
              /\ Refilled(size, got) /\ UNCHANGED <<input, calls, tokens, dot>>
              /\ size >= 2 /\ number_to_move + Len(got) <= size
              /\ taken + Len(got) <= Len(text) /\ \A i \in 1..Len(got) : got[i] = text[taken + i]
              /\ got = <<>> => taken = Len(text)
<1>1. AtEndOfBuffer /\ ~ReallyNul /\ source # "memory"
  BY DEF yy_get_next_buffer
<1>2. /\ Known /\ yytext_ptr \in Nat /\ yy_c_buf_p \in Nat /\ yytext_ptr < yy_c_buf_p
      /\ yy_c_buf_p <= yy_n_chars + 1 /\ yy_n_chars <= yy_buf_size
      /\ yy_n_chars \in Nat /\ yy_buf_size \in Nat /\ yy_buf_size >= 2
      /\ text \in Seq(0..255) /\ taken \in 0..Len(text)
  BY <1>1, AtTheEnd DEF Known
<1>3. PICK k \in Nat : k = number_to_move /\ k <= yy_buf_size
  BY <1>2 DEF number_to_move
<1> DEFINE pending == status = "EOF_PENDING"
           size == IF pending THEN yy_buf_size ELSE Grown(yy_buf_size, number_to_move)
           room == size - number_to_move - 1
           num_to_read == IF room > YY_READ_BUF_SIZE THEN YY_READ_BUF_SIZE ELSE room
           got == IF pending THEN <<>> ELSE Received(num_to_read)
<1>4. \/ Refilled(size, got) /\ UNCHANGED <<input, calls, tokens, dot>>
      \/ Exit
  BY Zenon DEF yy_get_next_buffer
<1>5. CASE Exit
  BY <1>5
<1>6. CASE Refilled(size, got) /\ UNCHANGED <<input, calls, tokens, dot>>
  <2>1. /\ size \in Nat /\ size >= 2 /\ got \in Seq(0..255) /\ k + Len(got) <= size
        /\ taken + Len(got) <= Len(text) /\ \A i \in 1..Len(got) : got[i] = text[taken + i]
        /\ got = <<>> => taken = Len(text)
    <3>1. CASE pending
      <4>1. size = yy_buf_size /\ got = <<>> /\ taken = Len(text)
        BY <3>1 DEF Ended
      <4> HIDE DEF size, got, pending
      <4>2. Len(got) = 0 /\ got \in Seq(0..255)
        BY <4>1
      <4>3. Len(text) \in Nat
        BY <1>2, SeqElements
      <4> QED
        BY <4>1, <4>2, <4>3, <1>2, <1>3
    <3>2. CASE ~pending
      <4>1. size = Grown(yy_buf_size, k) /\ got = Received(num_to_read)
        BY <3>2, <1>3
      <4>2. Grown(yy_buf_size, k) \in {yy_buf_size, 2 * yy_buf_size} /\ Grown(yy_buf_size, k) >= k + 2
        BY <1>2, <1>3, GrownHasRoom
      <4>3. size \in Nat /\ size >= 2 /\ room = size - k - 1 /\ room \in Nat /\ room # 0
        <5> HIDE DEF size
        <5> QED
          BY <4>1, <4>2, <1>2, <1>3
      <4> HIDE DEF room, size
      <4>4. num_to_read \in Nat /\ num_to_read <= room /\ num_to_read # 0
        BY <4>3, SizeAssumption
      <4> HIDE DEF num_to_read
      <4>5. /\ Received(num_to_read) \in Seq(0..255)
            /\ Len(Received(num_to_read)) <= num_to_read
            /\ taken + Len(Received(num_to_read)) <= Len(text)
            /\ \A i \in 1..Len(Received(num_to_read)) : Received(num_to_read)[i] = text[taken + i]
            /\ Received(num_to_read) = <<>> => taken = Len(text)
        BY <4>4, <1>2, ReceivedIsNext
      <4> HIDE DEF got
      <4>6. Len(got) \in Nat
        BY <4>1, <4>5, SeqElements
      <4>7. k + Len(got) <= size
        BY <4>1, <4>3, <4>4, <4>5, <4>6
      <4> QED
        BY <4>1, <4>3, <4>5, <4>7
    <3> QED
      BY <3>1, <3>2
  <2> HIDE DEF size, got
  <2> QED
    BY <2>1, <1>3, <1>6
<1> QED
  BY <1>4, <1>5, <1>6

LEMMA NextBufferInv ==
  ASSUME BufferInv, Ended, yy_get_next_buffer
  PROVE  BufferInv'
<1>1. AtEndOfBuffer /\ ~ReallyNul
  BY DEF yy_get_next_buffer
<1>2. CASE Exit
  BY <1>2, ExitInv
<1>3. CASE ~Exit
  <2>1. PICK size \in Nat, got \in Seq(0..255) :
              /\ Refilled(size, got) /\ UNCHANGED <<input, calls, tokens, dot>>
              /\ size >= 2 /\ number_to_move + Len(got) <= size
              /\ taken + Len(got) <= Len(text) /\ \A i \in 1..Len(got) : got[i] = text[taken + i]
              /\ got = <<>> => taken = Len(text)
    BY <1>3, WhatIsRead
  <2> QED
    BY <2>1, <1>1, RefilledInv
<1> QED
  BY <1>2, <1>3

LEMMA CallAgainInv ==
  ASSUME BufferInv, CallAgain
  PROVE  BufferInv'
<1>1. /\ pc = "done" /\ pc' = "scan"
      /\ UNCHANGED <<input, taken, buffer, pointers, tokens, dot>>
  BY DEF CallAgain
<1>2. /\ text' = text /\ source' = source /\ taken' = taken /\ last' = last
      /\ yytext_ptr' = yytext_ptr /\ yy_c_buf_p' = yy_c_buf_p /\ yy_act' = yy_act
      /\ yy_n_chars' = yy_n_chars /\ yy_buf_size' = yy_buf_size /\ yy_ch_buf' = yy_ch_buf
      /\ yy_hold_char' = yy_hold_char /\ tokens' = tokens
  BY <1>1 DEF input, buffer, pointers
<1>3. Restored' = Restored /\ First' = First /\ Scanned' = Scanned
  BY <1>1, <1>2 DEF Restored, First, Scanned, BytesOf
<1>4. Known'
  BY <1>1, <1>2 DEF BufferInv, Known
<1>5. Running'
  BY <1>1, <1>2, <1>3 DEF BufferInv, Running, BufferBlock
<1>6. Beginnings' /\ InAction'
  BY <1>1 DEF Beginnings, InAction
<1> QED
  BY <1>4, <1>5, <1>6 DEF BufferInv

LEMMA StutterInv ==
  ASSUME BufferInv, UNCHANGED scanner
  PROVE  BufferInv'
<1>1. /\ text' = text /\ source' = source /\ taken' = taken /\ last' = last /\ pc' = pc
      /\ yytext_ptr' = yytext_ptr /\ yy_c_buf_p' = yy_c_buf_p /\ yy_act' = yy_act
      /\ yy_n_chars' = yy_n_chars /\ yy_buf_size' = yy_buf_size /\ yy_ch_buf' = yy_ch_buf
      /\ yy_hold_char' = yy_hold_char /\ tokens' = tokens
  BY DEF scanner, input, buffer, pointers
<1>2. Restored' = Restored /\ First' = First /\ Scanned' = Scanned /\ Decisive' = Decisive
  BY <1>1 DEF Restored, First, Scanned, BytesOf, Decisive
<1>3. Known' /\ Beginnings'
  BY <1>1 DEF BufferInv, Known, Beginnings
<1>4. Running' /\ InAction'
  BY <1>1, <1>2 DEF BufferInv, Running, BufferBlock, InAction
<1> QED
  BY <1>3, <1>4 DEF BufferInv

LEMMA EndedInv ==
  ASSUME BufferInv, Ended, ScannerNext
  PROVE  Ended'
<1>1. CASE Create
  BY <1>1 DEF Create, Exit, yy_create_buffer, yy_scan_bytes, input, buffer, Ended
<1>2. CASE Scan
  BY <1>2 DEF Scan, FindAction, input, Ended
<1>3. CASE SetDefinition \/ OtherByte
  BY <1>3 DEF SetDefinition, OtherByte, Matched, Exit, input, buffer, pointers, Ended
<1>4. CASE Nul
  BY <1>4 DEF Nul, FindAction, AtEndOfBuffer, input, Ended
<1>5. CASE MemoryEnd
  <2>1. AtEndOfBuffer /\ ~ReallyNul /\ source = "memory" /\ taken = Len(text)
    BY <1>5 DEF MemoryEnd, AtEndOfBuffer, Ended
  <2>2. yytext_ptr \in Nat /\ yy_c_buf_p \in Nat /\ yy_n_chars \in Nat /\ yy_c_buf_p = yy_n_chars + 1
    BY <2>1, AtTheEnd DEF ReallyNul
  <2>3. yy_c_buf_p - yytext_ptr = 1 => yytext_ptr = yy_n_chars
    BY <2>2
  <2>4. /\ text' = text /\ source' = source /\ taken' = taken /\ yy_n_chars' = yy_n_chars
        /\ status' = "EOF_PENDING" => status = "EOF_PENDING"
        /\ \/ pc' = "action"
           \/ pc' = "done" /\ yy_c_buf_p' = yytext_ptr /\ yy_c_buf_p - yytext_ptr = 1
    BY <1>5 DEF MemoryEnd, EndOfFile, LastMatch, FindAction, input
  <2> QED
    BY <2>1, <2>3, <2>4 DEF Ended
<1>6. CASE yy_get_next_buffer
  <2>1. source # "memory" /\ pc = "action"
    BY <1>6 DEF yy_get_next_buffer, AtEndOfBuffer
  <2>2. CASE Exit
    BY <2>2, <2>1 DEF Exit, input, buffer, Ended
  <2>3. CASE ~Exit
    <3>1. PICK size \in Nat, got \in Seq(0..255) :
            /\ Refilled(size, got) /\ UNCHANGED <<input, calls, tokens, dot>>
            /\ got = <<>> => taken = Len(text)
      BY <2>3, <1>6, WhatIsRead
    <3>2. /\ text' = text /\ source' = source /\ taken' = taken + Len(got)
          /\ \/ pc' = "action" /\ status' = "NORMAL"
             \/ pc' = "action" /\ status' = "EOF_PENDING" /\ got = <<>>
             \/ pc' = "done" /\ status' = "NEW" /\ got = <<>> /\ yy_c_buf_p' = yy_n_chars'
      <4>1. UNCHANGED input /\ taken' = taken + Len(got)
        BY <3>1 DEF Refilled
      <4>2. \/ pc' = "action" /\ status' = "NORMAL"
            \/ pc' = "action" /\ status' = "EOF_PENDING" /\ got = <<>>
            \/ pc' = "done" /\ status' = "NEW" /\ got = <<>> /\ yy_c_buf_p' = yy_n_chars'
        BY <3>1 DEF Refilled, FindAction, LastMatch, yyrestart, EndOfFile
      <4> QED
        BY <4>1, <4>2 DEF input
    <3>3. got = <<>> => taken' = Len(text')
      <4>1. taken \in Nat
        BY SeqElements DEF BufferInv, Known
      <4>2. got = <<>> => Len(got) = 0
        OBVIOUS
      <4> QED
        BY <4>1, <4>2, <3>1, <3>2
    <3> QED
      BY <2>1, <3>2, <3>3 DEF Ended
  <2> QED
    BY <2>2, <2>3
<1>7. CASE CallAgain
  BY <1>7 DEF CallAgain, input, buffer, pointers, Ended
<1> QED
  BY <1>1, <1>2, <1>3, <1>4, <1>5, <1>6, <1>7 DEF ScannerNext

LEMMA BufferInvHolds == ScannerSpec => [](BufferInv /\ Ended)
<1>1. ScannerInit => BufferInv /\ Ended
  <2>1. ScannerInit => Ended
    BY DEF ScannerInit, Ended
  <2> QED
    BY <2>1, InitInv
<1>2. BufferInv /\ Ended /\ [ScannerNext]_scanner => BufferInv' /\ Ended'
  <2>1. SUFFICES ASSUME BufferInv, Ended, [ScannerNext]_scanner PROVE BufferInv' /\ Ended'
    OBVIOUS
  <2>2. CASE UNCHANGED scanner
    <3>1. Ended'
      BY <2>1, <2>2 DEF Ended, scanner, input, buffer, pointers
    <3> QED
      BY <3>1, <2>1, <2>2, StutterInv
  <2>3. CASE ScannerNext
    <3> SUFFICES BufferInv'
      BY <2>1, <2>3, EndedInv
    <3>1. CASE Create
      BY <2>1, <3>1, CreateInv
    <3>2. CASE Scan
      BY <2>1, <3>2, ScanInv
    <3>3. CASE SetDefinition
      <4>1. pc = "action" /\ yy_act # 4 /\ (Matched \/ Exit)
        BY <3>3 DEF SetDefinition
      <4> QED
        BY <4>1, <2>1, RuleInv, ExitInv
    <3>4. CASE OtherByte
      <4>1. pc = "action" /\ yy_act # 4 /\ Matched
        BY <3>4 DEF OtherByte
      <4> QED
        BY <4>1, <2>1, RuleInv
    <3>5. CASE Nul
      BY <2>1, <3>5, NulInv
    <3>6. CASE MemoryEnd
      BY <2>1, <3>6, MemoryEndInv
    <3>7. CASE yy_get_next_buffer
      BY <2>1, <3>7, NextBufferInv
    <3>8. CASE CallAgain
      BY <2>1, <3>8, CallAgainInv
    <3> QED
      BY <2>1, <2>3, <3>1, <3>2, <3>3, <3>4, <3>5, <3>6, <3>7, <3>8 DEF ScannerNext
  <2> QED
    BY <2>1, <2>2, <2>3
<1> QED
  BY <1>1, <1>2, PTL DEF ScannerSpec

-----------------------------------------------------------------------------
(* The tokens so far.                                                      *)

\* The tokens are the longest matches, and the file holds the last set.
Told ==
  /\ \A k \in DOMAIN tokens : tokens[k] = TokenAt(text, Before(k))
  /\ \/ dot = <<>> /\ \A k \in DOMAIN tokens : tokens[k].rule # 1
     \/ \E k \in DOMAIN tokens : /\ tokens[k] = [rule |-> 1, text |-> dot]
                                /\ \A j \in DOMAIN tokens : j > k => tokens[j].rule # 1

\* One token more changes nothing about the bytes in front of the others, and has
\* those of all of them in front of it.
LEMMA BeforeStays ==
  ASSUME tokens \in Seq(Tokens), NEW t \in Tokens, tokens' = Append(tokens, t),
         NEW n \in Nat, n = Len(tokens)
  PROVE  (\A k \in 1..n : Before(k)' = Before(k)) /\ Before(n + 1)' = Scanned
<1>1. ASSUME NEW ks \in SUBSET (DOMAIN tokens) PROVE BytesOf(ks)' = BytesOf(ks)
  <2>1. \A k \in ks : tokens'[k] = tokens[k]
    OBVIOUS
  <2>2. {{k} \X (1..Len(tokens'[k].text)) : k \in ks} = {{k} \X (1..Len(tokens[k].text)) : k \in ks}
    BY <2>1
  <2> QED
    BY <2>2, Zenon DEF BytesOf
<1>2. ASSUME NEW k \in 1..n PROVE Before(k)' = Before(k)
  <2>1. 1..(k - 1) \in SUBSET (DOMAIN tokens)
    OBVIOUS
  <2> QED
    BY <2>1, <1>1, Zenon DEF Before
<1>3. Before(n + 1)' = Scanned
  <2>1. 1..((n + 1) - 1) = DOMAIN tokens
    OBVIOUS
  <2>2. PICK ks : ks = 1..((n + 1) - 1)
    OBVIOUS
  <2>3. BytesOf(ks)' = BytesOf(ks)
    BY <2>1, <2>2, <1>1, Zenon
  <2> QED
    BY <2>1, <2>2, <2>3, Zenon DEF Before, Scanned
<1> QED
  BY <1>2, <1>3

\* The same k bytes, from i on in t and from start on in ch.
Alike(t, i, ch, start, k) == \A j \in 0..(k - 1) : Entry(t, i + j) = Entry(ch, start + j)

\* What matching stopped at in ch, in the text as it was read up to then.
StoppedIn(t, i, upto, ch, start, n, limit) ==
  /\ upto \in 0..Len(t) /\ start <= n /\ upto - i = n - start
  /\ Alike(t, i, ch, start, n - start)
  /\ limit \in {n - 1, n} /\ (limit = n => upto = Len(t))
  /\ Stopped(ch, start, n, limit)

\* When nothing leads further into a set, none begins there.
LEMMA NoSetHere ==
  ASSUME NEW t \in Seq(0..255), NEW i \in Nat, NEW upto, NEW ch, NEW start \in Nat, NEW n \in Nat,
         NEW limit, StoppedIn(t, i, upto, ch, start, n, limit)
  PROVE  SetEnds(t, i) = {}
<1>1. SUFFICES ASSUME NEW e \in (i + 1)..Len(t), SetAt(t, i, e) PROVE FALSE
  BY DEF SetEnds
<1>2. PICK m \in start..n, state \in Live :
        /\ m <= limit /\ Runs(ch, start, m, state)
        /\ m < n => NextState(state, Class(Entry(ch, m))) \notin 6..18
  BY DEF StoppedIn, Stopped
<1>3. /\ Len(t) \in Nat /\ upto \in Nat /\ upto <= Len(t) /\ start <= n /\ upto - i = n - start
      /\ Alike(t, i, ch, start, n - start)
      /\ limit \in {n - 1, n} /\ (limit = n => upto = Len(t))
  BY SeqElements DEF StoppedIn
<1>4. PICK k \in Nat : k = m - start /\ m = start + k /\ i + k <= upto /\ i + k <= Len(t)
  BY <1>2, <1>3
<1>5. Runs(t, i, i + k, state)
  <2>1. Runs(ch, start, start + k, state)
    BY <1>2, <1>4
  <2>2. \A j \in 0..(k - 1) : Entry(t, i + j) = Entry(ch, start + j)
    BY <1>2, <1>3, <1>4 DEF Alike
  <2> QED
    BY <2>1, <2>2, RunMoves
<1>6. PICK at \in Nat : at = i + k
  OBVIOUS
<1>7. at < e /\ NextState(state, Class(Entry(t, at))) \in 6..18
  <2>1. i <= at /\ at <= Len(t) /\ Runs(t, i, at, state)
    BY <1>4, <1>5, <1>6
  <2>2. at < e
    BY <2>1, <1>1, RunsOfASet
  <2>3. NextState(state, Class(Entry(t, at))) \in 6..18
    BY <2>1, <1>1, RunsOfASet
  <2> QED
    BY <2>2, <2>3
<1>8. CASE m < n
  <2>1. Entry(t, i + k) = Entry(ch, start + k)
    <3>1. k \in 0..(n - start - 1)
      BY <1>8, <1>4
    <3> QED
      BY <3>1, <1>3 DEF Alike
  <2> QED
    BY <2>1, <1>2, <1>4, <1>6, <1>7, <1>8
<1>9. CASE m = n
  BY <1>2, <1>3, <1>4, <1>6, <1>7, <1>9
<1> QED
  BY <1>2, <1>8, <1>9

\* The token that an action has is the one that sets.l wants there.
LEMMA ActionToken ==
  ASSUME BufferInv, pc = "action", yy_act # 4
  PROVE  [rule |-> yy_act, text |-> yytext] = TokenAt(text, Scanned)
<1>1. PICK ch : ch = Restored
  OBVIOUS
<1>2. PICK n : n = yy_n_chars
  OBVIOUS
<1>3. Known /\ BufferBlock /\ Holds(ch, n, yytext_ptr, text, Scanned, taken)
      /\ Found(ch, n, yytext_ptr, yy_c_buf_p, yy_act, Decisive)
      /\ yy_act \in 1..4
  BY <1>1, <1>2 DEF BufferInv, Running, InAction, First
<1>4. n \in Nat /\ n <= yy_buf_size /\ yy_buf_size \in Nat /\ IsBuffer(ch, n)
      /\ ch \in [1..(yy_buf_size + 2) -> Int]
  BY <1>1, <1>2, <1>3, RestoredType DEF BufferBlock
<1>5. PICK start \in Nat, cp \in Nat : start = yytext_ptr /\ cp = yy_c_buf_p
  BY <1>3 DEF Known
<1>6. start < cp /\ cp <= n
  BY <1>3, <1>5 DEF Found
<1>7. PICK S \in Nat : S = Scanned
  BY <1>3, ScannedCounts, FS_CardinalityType DEF Known
<1>8. PICK t \in Seq(0..255) : t = text
  BY <1>3 DEF Known
<1>9. Len(t) \in Nat /\ taken \in 0..Len(t) /\ taken \in Nat
  BY <1>3, <1>8, SeqElements DEF Known
<1>10. taken - S = n - start /\ \A j \in 1..(n - start) : ch[start + j] = t[S + j]
  BY <1>3, <1>5, <1>7, <1>8 DEF Holds
<1>11. PICK d \in Nat : d = cp - start /\ d # 0 /\ cp = start + d /\ d <= n - start /\ S + d <= Len(t)
  <2>1. PICK T \in Nat, L \in Nat : T = taken /\ L = Len(t) /\ T <= L /\ T - S = n - start
    BY <1>9, <1>10
  <2>2. PICK d \in Nat : d = cp - start /\ d # 0
    BY <1>6
  <2>3. cp = start + d /\ d <= n - start /\ S + d <= L
    BY <2>1, <2>2, <1>4, <1>6
  <2> QED
    BY <2>1, <2>2, <2>3
<1>12. \A j \in 0..(n - start - 1) : Entry(t, S + j) = Entry(ch, start + j)
  <2>1. SUFFICES ASSUME NEW j \in 0..(n - start - 1) PROVE Entry(t, S + j) = Entry(ch, start + j)
    OBVIOUS
  <2>2. j + 1 \in 1..(n - start) /\ start + (j + 1) = (start + j) + 1 /\ S + (j + 1) = (S + j) + 1
    BY <1>4
  <2>3. ch[start + (j + 1)] = t[S + (j + 1)]
    BY <2>2, <1>10
  <2> QED
    BY <2>2, <2>3 DEF Entry
<1>13. yytext = SubSeq(t, S + 1, S + d)
  <2>1. PICK buf : buf = yy_ch_buf
    OBVIOUS
  <2>2. buf \in [1..(yy_buf_size + 2) -> Int] /\ ch = [buf EXCEPT ![cp + 1] = yy_hold_char]
    BY <2>1, <1>1, <1>3, <1>5 DEF BufferBlock, Restored
  <2>3. PICK L \in Nat : L = yy_buf_size + 2 /\ n <= L
    BY <1>4
  <2>4. buf \in Seq(Int) /\ Len(buf) = L
    BY <2>2, <2>3
  <2> DEFINE a == SubSeq(buf, start + 1, start + d)
             b == SubSeq(t, S + 1, S + d)
  <2>5. a \in Seq(Int) /\ Len(a) = d /\ \A j \in 1..d : a[j] = buf[start + j]
    <3>1. start + d <= Len(buf)
      <4>1. start + d = cp /\ cp <= L
        BY <2>3, <1>4, <1>6, <1>11
      <4> QED
        BY <4>1, <2>4
    <3> QED
      BY <3>1, <2>4, SeqPart
  <2>6. b \in Seq(0..255)
    BY <1>11, SeqPart
  <2>7. Len(b) = d
    BY <1>11, SeqPart
  <2>8. \A j \in 1..d : b[j] = t[S + j]
    BY <1>11, SeqPart
  <2> HIDE DEF a, b
  <2>9. \A j \in 1..d : a[j] = b[j]
    <3>1. SUFFICES ASSUME NEW j \in 1..d PROVE a[j] = b[j]
      OBVIOUS
    <3>2. start + j \in 1..(yy_buf_size + 2) /\ start + j # cp + 1 /\ j \in 1..(n - start)
      BY <1>4, <1>6, <1>11
    <3>3. ch[start + j] = buf[start + j]
      BY <3>2, <2>2
    <3> QED
      BY <3>2, <3>3, <2>5, <2>8, <1>10
  <2>10. Len(a) = Len(b) /\ \A j \in 1..Len(a) : a[j] = b[j]
    BY <2>5, <2>7, <2>9, Zenon
  <2>11. a = b
    <3>1. a \in Seq(Int) /\ b \in Seq(0..255) /\ Len(a) = Len(b)
      BY <2>5, <2>6, <2>10
    <3> QED
      BY <3>1, <2>10, SameElements
  <2>12. yytext = a
    BY <2>1, <1>5, <1>11 DEF yytext, a
  <2> QED
    BY <2>11, <2>12 DEF b
<1>14. CASE yy_act = 1
  <2>1. PICK k \in Nat : d = k + 1 /\ cp - 1 = start + k /\ S + k < Len(t) /\ (S + k) + 1 = S + d
    BY <1>11
  <2>2. Runs(ch, start, start + k, 17) /\ Entry(ch, start + k) = 93
    BY <2>1, <1>3, <1>5, <1>14 DEF Found
  <2>3. \A j \in 0..(k - 1) : Entry(t, S + j) = Entry(ch, start + j)
    <3>1. \A j \in 0..(k - 1) : j \in 0..(n - start - 1)
      BY <2>1, <1>4, <1>11
    <3> QED
      BY <3>1, <1>12
  <2>4. Runs(t, S, S + k, 17)
    <3>1. PICK end : end = 17
      OBVIOUS
    <3>2. Runs(ch, start, start + k, end)
      BY <2>2, <3>1
    <3>3. Runs(t, S, S + k, end)
      BY <3>2, <2>3, RunMoves
    <3> QED
      BY <3>1, <3>3
  <2>5. Entry(t, S + k) = 93
    <3>1. k \in 0..(n - start - 1)
      BY <2>1, <1>4, <1>11
    <3> QED
      BY <3>1, <2>2, <1>12
  <2>6. PICK m \in Nat : m = S + k
    OBVIOUS
  <2>7. SetAt(t, S, m + 1)
    <3>1. S <= m /\ m < Len(t) /\ Runs(t, S, m, 17) /\ t[m + 1] = 93
      BY <2>1, <2>4, <2>5, <2>6 DEF Entry
    <3> QED
      BY <3>1, RunReadsASet
  <2>8. ASSUME NEW e \in SetEnds(t, S) PROVE e = S + d
    <3>1. e \in (S + 1)..Len(t) /\ SetAt(t, S, e)
      BY DEF SetEnds
    <3>2. S <= m /\ m <= Len(t) /\ Runs(t, S, m, 17)
      BY <2>1, <2>4, <2>6
    <3>3. NextState(17, Class(Entry(t, m))) = 18 => m + 1 = e
      BY <3>1, <3>2, RunsOfASet
    <3>4. NextState(17, Class(93)) = 18
      <4>1. Class(93) = 10
        BY ClassesOfBytes
      <4>2. NextState(17, 10) = 18
        BY Rows
      <4> QED
        BY <4>1, <4>2
    <3> QED
      BY <3>3, <3>4, <2>1, <2>5, <2>6
  <2>9. SetEnds(t, S) = {S + d}
    <3>1. S + d \in SetEnds(t, S)
      BY <2>1, <2>6, <2>7, <1>9, <1>11 DEF SetEnds
    <3> QED
      BY <3>1, <2>8
  <2>10. Max(SetEnds(t, S)) = S + d
    BY <2>9 DEF Max
  <2> QED
    BY <2>9, <2>10, <1>7, <1>8, <1>13, <1>14 DEF TokenAt
<1>15. CASE yy_act # 1
  <2>1. yy_act \in {2, 3}
    BY <1>3, <1>15
  <2>2. cp = start + 1 /\ (yy_act = 3 <=> Entry(ch, start) = 10) /\ Stopped(ch, start, n, Decisive)
    BY <2>1, <1>3, <1>5 DEF Found
  <2>3. d = 1
    BY <2>2, <1>11
  <2>4. PICK lim \in {n - 1, n} : lim = Decisive /\ (lim = n => taken = Len(t))
    BY <1>2, <1>4, <1>8 DEF Decisive
  <2>5. PICK upto \in 0..Len(t) : upto = taken
    BY <1>9
  <2>6. start <= n /\ upto - S = n - start
    BY <2>5, <1>4, <1>6, <1>10
  <2>9. Stopped(ch, start, n, lim) /\ (lim = n => upto = Len(t))
    BY <2>2, <2>4, <2>5
  <2>7. SetEnds(t, S) = {}
    <3>1. Alike(t, S, ch, start, n - start)
      BY <1>12 DEF Alike
    <3>2. StoppedIn(t, S, upto, ch, start, n, lim)
      BY <2>4, <2>5, <2>6, <2>9, <3>1 DEF StoppedIn
    <3> QED
      BY <3>2, <1>4, NoSetHere
  <2>8. t[S + 1] = 10 <=> yy_act = 3
    <3>1. 0 \in 0..(n - start - 1) /\ S + 0 = S /\ start + 0 = start
      BY <1>4, <1>11
    <3>2. Entry(t, S) = Entry(ch, start)
      BY <3>1, <1>12
    <3> QED
      BY <3>2, <2>2 DEF Entry
  <2> QED
    BY <2>1, <2>3, <2>7, <2>8, <1>7, <1>8, <1>13 DEF TokenAt
<1> QED
  BY <1>14, <1>15

LEMMA ToldOfAToken ==
  ASSUME BufferInv, Told, pc = "action", yy_act # 4, Matched,
         dot' = IF yy_act = 1 THEN yytext ELSE dot
  PROVE  Told'
<1> DEFINE t == [rule |-> yy_act, text |-> yytext]
<1>1. t = TokenAt(text, Scanned)
  BY ActionToken
<1>2. tokens' = Append(tokens, t) /\ text' = text
  BY DEF Matched, input
<1>3. PICK n \in Nat : tokens \in Seq(Tokens) /\ n = Len(tokens) /\ t \in Tokens
  <2>1. yytext \in Seq(Int)
    BY YytextIsAText
  <2> QED
    BY <2>1 DEF Tokens, BufferInv, Known, InAction
<1> HIDE DEF t
<1>4. /\ DOMAIN tokens = 1..n /\ DOMAIN tokens' = 1..(n + 1)
      /\ tokens'[n + 1] = t /\ \A k \in 1..n : tokens'[k] = tokens[k]
  BY <1>2, <1>3
<1>5. (\A k \in 1..n : Before(k)' = Before(k)) /\ Before(n + 1)' = Scanned
  BY <1>2, <1>3, BeforeStays
<1>6. ASSUME NEW k \in 1..(n + 1) PROVE tokens'[k] = TokenAt(text, Before(k)')
  <2>1. CASE k = n + 1
    BY <2>1, <1>1, <1>4, <1>5
  <2>2. CASE k # n + 1
    BY <2>2, <1>4, <1>5 DEF Told
  <2> QED
    BY <2>1, <2>2
<1>7. \/ dot' = <<>> /\ \A k \in 1..(n + 1) : tokens'[k].rule # 1
      \/ \E k \in 1..(n + 1) : /\ tokens'[k] = [rule |-> 1, text |-> dot']
                               /\ \A j \in 1..(n + 1) : j > k => tokens'[j].rule # 1
  <2>1. CASE yy_act = 1
    <3>1. tokens'[n + 1] = [rule |-> 1, text |-> dot']
      BY <2>1, <1>4 DEF t
    <3> QED
      BY <3>1
  <2>2. CASE yy_act # 1
    <3>1. dot' = dot /\ tokens'[n + 1].rule # 1
      BY <2>2, <1>4 DEF t
    <3>2. CASE dot = <<>> /\ \A k \in 1..n : tokens[k].rule # 1
      BY <3>1, <3>2, <1>4
    <3>3. CASE ~(dot = <<>> /\ \A k \in 1..n : tokens[k].rule # 1)
      <4>1. PICK k \in 1..n : /\ tokens[k] = [rule |-> 1, text |-> dot]
                              /\ \A j \in 1..n : j > k => tokens[j].rule # 1
        BY <3>3, <1>4 DEF Told
      <4>2. tokens'[k] = [rule |-> 1, text |-> dot'] /\ \A j \in 1..(n + 1) : j > k => tokens'[j].rule # 1
        BY <4>1, <3>1, <1>4
      <4> QED
        BY <4>2
    <3> QED
      BY <3>2, <3>3
  <2> QED
    BY <2>1, <2>2
<1> QED
  BY <1>2, <1>4, <1>6, <1>7 DEF Told

-----------------------------------------------------------------------------
(* The buffer holds the text from the token to the last byte read: nothing *)
(* is lost, read twice or out of its place, however yy_get_next_buffer     *)
(* moves what is left, doubles the buffer or starts it again, whatever the *)
(* reads return.                                                           *)
THEOREM TheBufferHoldsTheRest == ScannerSpec => []BufferHoldsTheRest
<1>1. BufferInv => BufferHoldsTheRest
  <2>1. SUFFICES ASSUME BufferInv, pc \in {"scan", "action"} PROVE BufferHoldsTheRest
    BY DEF BufferHoldsTheRest
  <2> DEFINE n == yy_n_chars
  <2>2. PICK first : first = IF pc = "scan" THEN yy_c_buf_p ELSE yytext_ptr
    OBVIOUS
  <2>3. /\ Known /\ BufferBlock
        /\ Holds(Restored, n, first, text, Scanned, taken)
    BY <2>1, <2>2 DEF BufferInv, Running, First
  <2>4. PICK ch : ch = Restored
    OBVIOUS
  <2>5. /\ ch \in [1..(yy_buf_size + 2) -> Int] /\ IsBuffer(ch, n) /\ yy_buf_size \in Nat
        /\ n \in 0..yy_buf_size /\ yy_ch_buf \in [1..(yy_buf_size + 2) -> Int]
    BY <2>3, <2>4, RestoredType DEF BufferBlock
  <2>6. Scanned \in Nat /\ text \in Seq(0..255) /\ taken \in 0..Len(text)
    BY <2>3, ScannedCounts, FS_CardinalityType DEF Known
  <2>7. PICK L \in Nat : L = yy_buf_size + 2
    BY <2>5
  <2>8. Len(yy_ch_buf) = yy_buf_size + 2 /\ ch \in Seq(Int) /\ Len(ch) = L
    BY <2>5, <2>7
  <2>9. first \in 0..n /\ n - first = taken - Scanned
        /\ \A i \in 1..(n - first) : ch[first + i] = text[Scanned + i]
    BY <2>3, <2>4 DEF Holds
  <2>10. SubSeq(ch, first + 1, n) = SubSeq(text, Scanned + 1, taken)
    <3>1. PICK N \in Nat, F \in Nat, S \in Nat, T \in Nat :
            N = n /\ F = first /\ S = Scanned /\ T = taken
      BY <2>5, <2>6, <2>9
    <3>2. F <= N /\ N <= L /\ N - F = T - S /\ T <= Len(text) /\ Len(text) \in Nat
          /\ \A i \in 1..(N - F) : ch[F + i] = text[S + i]
      BY <3>1, <2>5, <2>6, <2>7, <2>9, SeqElements
    <3>3. PICK d \in Nat : d = N - F /\ N = F + d /\ T = S + d
      BY <3>2
    <3> DEFINE a == SubSeq(ch, F + 1, F + d)
               b == SubSeq(text, S + 1, S + d)
    <3>4. a \in Seq(Int) /\ Len(a) = d /\ \A i \in 1..d : a[i] = ch[F + i]
      BY <2>8, <3>2, <3>3, SeqPart
    <3>5. b \in Seq(0..255) /\ Len(b) = d /\ \A i \in 1..d : b[i] = text[S + i]
      <4>1. S + d <= Len(text)
        BY <3>2, <3>3
      <4>2. b \in Seq(0..255)
        BY <4>1, <2>6, SeqPart
      <4>3. Len(b) = d
        BY <4>1, <2>6, SeqPart
      <4>4. \A i \in 1..d : b[i] = text[S + i]
        BY <4>1, <2>6, SeqPart
      <4> QED
        BY <4>2, <4>3, <4>4, Zenon
    <3> HIDE DEF a, b
    <3>6. a = b
      <4>1. \A i \in 1..d : a[i] = b[i]
        BY <3>2, <3>3, <3>4, <3>5
      <4>2. Len(a) = Len(b) /\ \A i \in 1..Len(a) : a[i] = b[i]
        BY <4>1, <3>4, <3>5, Zenon
      <4> QED
        BY <4>2, <3>4, <3>5, SameElements
    <3> QED
      BY <3>1, <3>3, <3>6 DEF a, b
  <2>11. ch[n + 1] = 0 /\ ch[n + 2] = 0
    BY <2>5 DEF IsBuffer, Entry
  <2>12. n <= yy_buf_size
    BY <2>5
  <2> QED
    BY <2>2, <2>4, <2>8, <2>9, <2>10, <2>11, <2>12 DEF BufferHoldsTheRest, YY_END_OF_BUFFER_CHAR
<1> QED
  BY <1>1, BufferInvHolds, PTL

(* The tokens of the text are those that sets.l asks for, at each place the  *)
(* longest match of the first rule that has it: however the reads cut the    *)
(* text, wherever the buffer was moved, doubled or started again, with NULs  *)
(* in the text and after the end; then they are all of them.  The file holds *)
(* the last set.                                                             *)
THEOREM TokensAreLongest == ScannerSpec => []TokensAreTheLongestMatches
<1>1. ScannerInit => Told
  BY DEF ScannerInit, Told
<1>2. BufferInv /\ Ended /\ Told /\ [ScannerNext]_scanner => Told'
  <2>1. SUFFICES ASSUME BufferInv, Told, [ScannerNext]_scanner PROVE Told'
    OBVIOUS
  <2>2. CASE text' = text /\ tokens' = tokens /\ dot' = dot
    BY <2>1, <2>2 DEF Told, Before, BytesOf
  <2>3. CASE SetDefinition
    <3>1. pc = "action" /\ yy_act = 1
      BY <2>3 DEF SetDefinition
    <3>2. CASE Matched /\ dot' = yytext
      BY <3>1, <3>2, <2>1, ToldOfAToken
    <3>3. CASE Exit
      BY <3>3, <2>2 DEF Exit, input
    <3> QED
      BY <3>2, <3>3, <2>3 DEF SetDefinition
  <2>4. CASE OtherByte
    <3>1. pc = "action" /\ yy_act # 4 /\ yy_act # 1 /\ Matched /\ dot' = dot
      BY <2>4 DEF OtherByte
    <3> QED
      BY <3>1, <2>1, ToldOfAToken
  <2>5. CASE Create
    BY <2>5, <2>2 DEF Create, Exit, input
  <2>6. CASE Scan
    BY <2>6, <2>2 DEF Scan, input
  <2>7. CASE Nul
    BY <2>7, <2>2 DEF Nul, input
  <2>8. CASE MemoryEnd
    BY <2>8, <2>2 DEF MemoryEnd, input
  <2>9. CASE yy_get_next_buffer
    BY <2>9, <2>2 DEF yy_get_next_buffer, Exit, input
  <2>10. CASE CallAgain
    BY <2>10, <2>2 DEF CallAgain, input
  <2>11. CASE UNCHANGED scanner
    BY <2>11, <2>2 DEF scanner, input
  <2> QED
    BY <2>1, <2>3, <2>4, <2>5, <2>6, <2>7, <2>8, <2>9, <2>10, <2>11 DEF ScannerNext
<1>3. BufferInv /\ Ended /\ Told => TokensAreTheLongestMatches
  <2>1. SUFFICES ASSUME BufferInv, Ended, pc = "done" PROVE Scanned = Len(text)
    BY DEF Told, TokensAreTheLongestMatches
  <2>2. Holds(Restored, yy_n_chars, yy_c_buf_p, text, Scanned, taken)
        /\ yy_c_buf_p = yy_n_chars /\ taken = Len(text) /\ yy_n_chars \in Nat
    BY <2>1 DEF BufferInv, Running, First, BufferBlock, Ended
  <2>3. PICK S \in Nat, L \in Nat : S = Scanned /\ L = Len(text)
    BY <2>1, ScannedCounts, FS_CardinalityType, SeqElements DEF BufferInv, Known
  <2> QED
    BY <2>2, <2>3 DEF Holds
<1> QED
  BY <1>1, <1>2, <1>3, BufferInvHolds, PTL DEF ScannerSpec

(* When yylex reads on from an action, no newline is among the bytes that  *)
(* it has and did not match yet: every line that was read has had its      *)
(* answers.                                                                *)
THEOREM EveryLineIsAnswered == ScannerSpec => LinesAreAnsweredFirst
<1>1. BufferInv /\ [ScannerNext]_scanner =>
        [taken' # taken /\ pc = "action" => \A i \in 1..taken : text[i] = 10 => i <= Scanned]_scanner
  <2>1. SUFFICES ASSUME BufferInv, ScannerNext, taken' # taken, pc = "action",
                        NEW i \in 1..taken, text[i] = 10, ~(i <= Scanned)
                 PROVE  FALSE
    OBVIOUS
  <2>2. yy_get_next_buffer
    BY <2>1 DEF ScannerNext, Create, Scan, SetDefinition, OtherByte, Matched, Exit, Nul, MemoryEnd, CallAgain
  <2>3. AtEndOfBuffer /\ ~ReallyNul
    BY <2>2 DEF yy_get_next_buffer
  <2>4. PICK ch : ch = Restored
    OBVIOUS
  <2>5. PICK n \in Nat, start \in Nat : n = yy_n_chars /\ start = yytext_ptr
    BY <2>1, <2>3, AtTheEnd
  <2>6. /\ Known /\ Holds(ch, n, start, text, Scanned, taken)
        /\ yy_c_buf_p \in Nat /\ start < yy_c_buf_p /\ yy_c_buf_p <= n + 1
        /\ taken \in 0..Len(text)
    BY <2>1, <2>3, <2>4, <2>5, AtTheEnd
  <2>7. yy_c_buf_p - 1 = n /\ start <= n
    BY <2>3, <2>5, <2>6 DEF ReallyNul
  <2>8. PICK state \in Live : Runs(ch, start, n, state)
    BY <2>1, <2>3, <2>4, <2>5, <2>7, AtTheEnd
  <2>9. Scanned \in Nat /\ taken \in Nat
    BY <2>6, ScannedCounts, FS_CardinalityType, SeqElements DEF Known
  <2>10. PICK j \in Nat : j = i - Scanned /\ j \in 1..(n - start) /\ Scanned + j = i
    BY <2>1, <2>6, <2>9 DEF Holds
  <2>11. ch[start + j] = 10
    BY <2>1, <2>6, <2>10 DEF Holds
  <2>12. (start + j) - 1 \in start..(n - 1) /\ ((start + j) - 1) + 1 = start + j
    BY <2>10
  <2>13. Entry(ch, (start + j) - 1) # 10
    BY <2>8, <2>12, NoNewlineInARun
  <2> QED
    BY <2>11, <2>12, <2>13 DEF Entry
<1> QED
  BY <1>1, BufferInvHolds, PTL DEF ScannerSpec, LinesAreAnsweredFirst

-----------------------------------------------------------------------------
(* Counting up.  A function whose values are made one of the other, the i-th *)
(* from the one before it, exists, and the i-th one is in D[i] when the      *)
(* steps lead from D[i - 1] to D[i].                                         *)

InSteps(f, n, x, step) == f = [i \in 0..n |-> IF i = 0 THEN x ELSE step[<<i, f[i - 1]>>]]
Climbs(D, n, step) == \A i \in 1..n : \A x \in D[i - 1] : step[<<i, x>>] \in D[i]

LEMMA CountUp ==
  ASSUME NEW n \in Nat, NEW T, 0 \in T, \A i \in 1..n : i - 1 \in T => i \in T
  PROVE  \A i \in 0..n : i \in T
<1> DEFINE U == {i \in Nat : i > n \/ i \in T}
<1>1. \A k \in Nat : (\A j \in 0..(k - 1) : j \in U) => k \in U
  <2> SUFFICES ASSUME NEW k \in Nat, \A j \in 0..(k - 1) : j \in U PROVE k \in U
    OBVIOUS
  <2>1. CASE k = 0 \/ k > n
    BY <2>1
  <2>2. CASE k # 0 /\ k <= n
    <3>1. k - 1 \in 0..(k - 1) /\ k \in 1..n
      BY <2>2
    <3> QED
      BY <3>1
  <2> QED
    BY <2>1, <2>2
<1> HIDE DEF U
<1>2. \A k \in Nat : k \in U
  BY <1>1, AllNaturals
<1> QED
  BY <1>2 DEF U

LEMMA StepsLead ==
  ASSUME NEW n \in Nat, NEW D, NEW step, Climbs(D, n, step), NEW x \in D[0],
         NEW f, InSteps(f, n, x, step)
  PROVE  /\ \A i \in 0..n : f[i] \in D[i]
         /\ f[0] = x /\ \A i \in 1..n : f[i] = step[<<i, f[i - 1]>>]
<1>1. f[0] = x
  BY DEF InSteps
<1>2. \A i \in 1..n : f[i] = step[<<i, f[i - 1]>>]
  BY DEF InSteps
<1> DEFINE T == {i \in 0..n : f[i] \in D[i]}
<1>3. 0 \in T
  BY <1>1
<1>4. ASSUME NEW i \in 1..n, i - 1 \in T PROVE i \in T
  <2>1. f[i - 1] \in D[i - 1] /\ i \in 0..n
    BY <1>4
  <2>2. step[<<i, f[i - 1]>>] \in D[i]
    BY <2>1 DEF Climbs
  <2> QED
    BY <1>2, <2>1, <2>2
<1> HIDE DEF T
<1>5. \A i \in 0..n : i \in T
  BY <1>3, <1>4, CountUp
<1> QED
  BY <1>1, <1>2, <1>5 DEF T

LEMMA StepsExist ==
  ASSUME NEW n \in Nat, NEW step, NEW x
  PROVE  \E f : InSteps(f, n, x, step)
<1> DEFINE T == {m \in 0..n : \E f : InSteps(f, m, x, step)}
<1>1. 0 \in T
  <2>1. InSteps([i \in 0..0 |-> x], 0, x, step)
    BY DEF InSteps
  <2> QED
    BY <2>1
<1>2. ASSUME NEW m \in 1..n, m - 1 \in T PROVE m \in T
  <2>1. PICK f : InSteps(f, m - 1, x, step)
    BY <1>2
  <2> DEFINE g == [i \in 0..m |-> IF i = m THEN step[<<m, f[m - 1]>>] ELSE f[i]]
  <2>2. \A i \in 0..(m - 1) : f[i] = IF i = 0 THEN x ELSE step[<<i, f[i - 1]>>]
    BY <2>1 DEF InSteps
  <2>3. \A i \in 0..(m - 1) : i \in 0..m /\ i # m
    OBVIOUS
  <2>4. \A i \in 0..(m - 1) : g[i] = f[i]
    BY <2>3
  <2>5. g[m] = step[<<m, f[m - 1]>>]
    OBVIOUS
  <2>6. g = [i \in 0..m |-> g[i]]
    OBVIOUS
  <2> HIDE DEF g
  <2>7. \A i \in 0..m : g[i] = IF i = 0 THEN x ELSE step[<<i, g[i - 1]>>]
    <3> TAKE i \in 0..m
    <3>1. CASE i = m
      <4>1. i - 1 \in 0..(m - 1) /\ i # 0
        BY <3>1
      <4> QED
        BY <2>4, <2>5, <3>1, <4>1
    <3>2. CASE i # m
      <4>1. i \in 0..(m - 1) /\ (i # 0 => i - 1 \in 0..(m - 1))
        BY <3>2
      <4> QED
        BY <2>2, <2>4, <4>1
    <3> QED
      BY <3>1, <3>2
  <2>8. InSteps(g, m, x, step)
    BY <2>6, <2>7 DEF InSteps
  <2> QED
    BY <2>8
<1> HIDE DEF T
<1>3. n \in T
  BY <1>1, <1>2, CountUp
<1> QED
  BY <1>3 DEF T

\* FlattenSeq: the first parts of w joined.
Joined(f, w) ==
  /\ f[0] = <<>>
  /\ \A i \in 1..Len(w) : f[i] = f[i - 1] \o w[i]

LEMMA FlattenIs ==
  ASSUME NEW S, NEW w \in Seq(Seq(S))
  PROVE  \E f \in [0..Len(w) -> Seq(S)] : Joined(f, w) /\ FlattenSeq(w) = f[Len(w)]
<1> DEFINE flat == CHOOSE g : g = [i \in 1..Len(w) |-> IF i = 1 THEN w[i] ELSE g[i - 1] \o w[i]]
           f == [i \in 0..Len(w) |-> IF i = 0 THEN <<>> ELSE flat[i]]
<1>1. PICK n \in Nat : n = Len(w)
  OBVIOUS
<1>2. \A i \in 1..n : w[i] \in Seq(S)
  BY <1>1
<1>3. CASE n = 0
  <2>1. w = <<>> /\ FlattenSeq(w) = <<>>
    <3>1. w = <<>>
      <4>1. Len(w) = 0
        BY <1>1, <1>3
      <4> QED
        BY <4>1, EmptySeq
    <3> QED
      BY <3>1 DEF FlattenSeq
  <2> DEFINE e == [i \in 0..0 |-> <<>>]
  <2>2. e \in [0..0 -> Seq(S)] /\ e[0] = <<>>
    OBVIOUS
  <2> HIDE DEF e
  <2> QED
    BY <1>1, <1>3, <2>1, <2>2 DEF Joined
<1>4. CASE n # 0
  <2> DEFINE D == [i \in 0..(n - 1) |-> Seq(S)]
             step == [c \in (1..(n - 1)) \X Seq(S) |-> c[2] \o w[c[1] + 1]]
  <2>1. Climbs(D, n - 1, step)
    <3> SUFFICES ASSUME NEW i \in 1..(n - 1), NEW x \in D[i - 1] PROVE step[<<i, x>>] \in D[i]
      BY DEF Climbs
    <3>1. x \in Seq(S) /\ D[i] = Seq(S) /\ w[i + 1] \in Seq(S)
      BY <1>2
    <3>2. step[<<i, x>>] = x \o w[i + 1]
      BY <3>1
    <3>3. x \o w[i + 1] \in Seq(S)
      BY <3>1
    <3> HIDE DEF step, D
    <3> QED
      BY <3>1, <3>2, <3>3
  <2>2. \A i \in 1..(n - 1) : \A x \in Seq(S) : step[<<i, x>>] = x \o w[i + 1]
    OBVIOUS
  <2>3. w[1] \in D[0] /\ n - 1 \in Nat /\ w[1] \in Seq(S)
    <3>1. 1 \in 1..n /\ 0 \in 0..(n - 1) /\ n - 1 \in Nat
      BY <1>4
    <3> QED
      BY <1>2, <3>1
  <2>4. \A i \in 0..(n - 1) : D[i] = Seq(S)
    OBVIOUS
  <2> HIDE DEF D, step
  <2>5. PICK h : InSteps(h, n - 1, w[1], step)
    BY <2>3, StepsExist
  <2>6. /\ \A i \in 0..(n - 1) : h[i] \in Seq(S)
        /\ h[0] = w[1] /\ \A i \in 1..(n - 1) : h[i] = step[<<i, h[i - 1]>>]
    <3> DEFINE m == n - 1
    <3>1. m \in Nat /\ InSteps(h, m, w[1], step) /\ Climbs(D, m, step)
      BY <2>1, <2>3, <2>5
    <3> HIDE DEF m
    <3>2. /\ \A i \in 0..m : h[i] \in D[i]
          /\ h[0] = w[1] /\ \A i \in 1..m : h[i] = step[<<i, h[i - 1]>>]
      BY <2>3, <3>1, StepsLead
    <3> QED
      BY <2>4, <3>2 DEF m
  <2>7. \A i \in 1..(n - 1) : h[i] = h[i - 1] \o w[i + 1]
    <3> TAKE i \in 1..(n - 1)
    <3>1. i - 1 \in 0..(n - 1)
      OBVIOUS
    <3> QED
      BY <2>2, <2>6, <3>1
  <2> DEFINE g == [i \in 1..n |-> h[i - 1]]
  <2>8. \A i \in 1..n : g[i] = h[i - 1]
    OBVIOUS
  <2>9. g = [i \in 1..n |-> g[i]]
    OBVIOUS
  <2> HIDE DEF g
  <2>10. \A i \in 1..n : g[i] = IF i = 1 THEN w[i] ELSE g[i - 1] \o w[i]
    <3> TAKE i \in 1..n
    <3>1. CASE i = 1
      BY <2>6, <2>8, <3>1
    <3>2. CASE i # 1
      <4>1. i - 1 \in 1..(n - 1) /\ i - 1 \in 1..n /\ (i - 1) + 1 = i
        BY <3>2
      <4> QED
        BY <2>7, <2>8, <3>2, <4>1
    <3> QED
      BY <3>1, <3>2
  <2>11. g = [i \in 1..n |-> IF i = 1 THEN w[i] ELSE g[i - 1] \o w[i]]
    BY <2>9, <2>10
  <2>12. flat = [i \in 1..n |-> IF i = 1 THEN w[i] ELSE flat[i - 1] \o w[i]]
    BY <1>1, <2>11
  <2> HIDE DEF flat
  <2>13. \A i \in 1..n : flat[i] = IF i = 1 THEN w[i] ELSE flat[i - 1] \o w[i]
    BY <2>12
  <2> DEFINE T == {i \in 0..n : i = 0 \/ flat[i] \in Seq(S)}
  <2>14. ASSUME NEW i \in 1..n, i - 1 \in T PROVE i \in T
    <3>1. flat[i] = IF i = 1 THEN w[i] ELSE flat[i - 1] \o w[i]
      BY <2>13
    <3>2. i = 1 \/ flat[i - 1] \in Seq(S)
      BY <2>14
    <3>3. w[i] \in Seq(S) /\ i \in 0..n
      BY <1>2
    <3>4. flat[i] \in Seq(S)
      <4>1. CASE i = 1
        BY <3>1, <3>3, <4>1
      <4>2. CASE i # 1
        <5>1. flat[i] = flat[i - 1] \o w[i] /\ flat[i - 1] \in Seq(S)
          BY <3>1, <3>2, <4>2
        <5> QED
          BY <3>3, <5>1
      <4> QED
        BY <4>1, <4>2
    <3> QED
      BY <3>3, <3>4
  <2>15. 0 \in T
    OBVIOUS
  <2> HIDE DEF T
  <2>16. \A i \in 0..n : i \in T
    BY <2>14, <2>15, CountUp
  <2>17. \A i \in 1..n : flat[i] \in Seq(S)
    BY <2>16 DEF T
  <2>18. f \in [0..n -> Seq(S)] /\ f[0] = <<>> /\ \A i \in 1..n : f[i] = flat[i]
    BY <1>1, <2>17
  <2>19. FlattenSeq(w) = flat[n]
    BY <1>1, <1>4 DEF FlattenSeq, flat
  <2> HIDE DEF f
  <2>20. \A i \in 1..n : f[i] = f[i - 1] \o w[i]
    <3> TAKE i \in 1..n
    <3>1. CASE i = 1
      <4>1. f[i] = w[i] /\ w[i] \in Seq(S)
        BY <1>2, <2>13, <2>18, <3>1
      <4>2. f[i - 1] = <<>>
        BY <2>18, <3>1
      <4> QED
        BY <4>1, <4>2
    <3>2. CASE i # 1
      <4>1. i - 1 \in 1..n
        BY <3>2
      <4> QED
        BY <2>13, <2>18, <3>2, <4>1
    <3> QED
      BY <3>1, <3>2
  <2> QED
    BY <1>1, <1>4, <2>18, <2>19, <2>20 DEF Joined
<1> QED
  BY <1>3, <1>4
-----------------------------------------------------------------------------
(* Loops that end: what is kept on the way holds of the place they stop at.  *)

IsLoop(f, D, stop, next) == f = [p \in D |-> IF p \in stop THEN p ELSE f[next[p]]]
Stays(G, stop, next) == \A q \in G : q \notin stop => next[q] \in G
Sinks(G, stop, next, rank) == \A q \in G : q \notin stop => rank[next[q]] < rank[q]

LEMMA LoopIs ==
  ASSUME NEW D, NEW stop, NEW next, Leads(D, stop, next)
  PROVE  \E f : IsLoop(f, D, stop, next)
<1> DEFINE out == [p \in D |-> p]
<1>1. \A p \in D : out[p] = p
  OBVIOUS
<1> HIDE DEF out
<1>2. PICK f : f = [p \in D |-> IF p \in stop THEN out[p] ELSE f[next[p]]]
  BY LoopExists
<1>3. [p \in D |-> IF p \in stop THEN out[p] ELSE f[next[p]]]
        = [p \in D |-> IF p \in stop THEN p ELSE f[next[p]]]
  BY <1>1
<1>4. IsLoop(f, D, stop, next)
  BY <1>2, <1>3, Zenon DEF IsLoop
<1> QED
  BY <1>4

LEMMA LoopStops ==
  ASSUME NEW D, NEW stop, NEW next, NEW f, IsLoop(f, D, stop, next),
         NEW G, G \subseteq D, Stays(G, stop, next),
         NEW rank \in [G -> Nat], Sinks(G, stop, next, rank), NEW p \in G
  PROVE  f[p] \in G /\ f[p] \in stop
<1> DEFINE T == {k \in Nat : \A q \in G : rank[q] = k => f[q] \in G /\ f[q] \in stop}
<1>1. \A q \in G : f[q] = IF q \in stop THEN q ELSE f[next[q]]
  BY DEF IsLoop
<1>2. ASSUME NEW k \in Nat, \A j \in 0..(k - 1) : j \in T PROVE k \in T
  <2> SUFFICES ASSUME NEW q \in G, rank[q] = k PROVE f[q] \in G /\ f[q] \in stop
    OBVIOUS
  <2>1. CASE q \in stop
    BY <1>1, <2>1
  <2>2. CASE q \notin stop
    <3>1. next[q] \in G /\ rank[next[q]] < k /\ f[q] = f[next[q]]
      BY <1>1, <2>2 DEF Stays, Sinks
    <3>2. rank[next[q]] \in T
      <4>1. rank[next[q]] \in 0..(k - 1)
        BY <3>1
      <4> QED
        BY <1>2, <4>1
    <3>3. f[next[q]] \in G /\ f[next[q]] \in stop
      BY <3>1, <3>2
    <3> QED
      BY <3>1, <3>3
  <2> QED
    BY <2>1, <2>2
<1> HIDE DEF T
<1>3. \A k \in Nat : k \in T
  BY <1>2, AllNaturals
<1>4. rank[p] \in Nat
  OBVIOUS
<1> QED
  BY <1>3, <1>4 DEF T

\* FlattenSeq of one more part.
LEMMA FlattenAppend ==
  ASSUME NEW S, NEW w \in Seq(Seq(S)), NEW x \in Seq(S)
  PROVE  /\ FlattenSeq(w) \in Seq(S)
         /\ FlattenSeq(Append(w, x)) = FlattenSeq(w) \o x
<1> DEFINE v == Append(w, x)
<1>1. PICK n \in Nat : n = Len(w)
  OBVIOUS
<1>2. /\ v \in Seq(Seq(S)) /\ Len(v) = n + 1 /\ v[n + 1] = x
      /\ \A i \in 1..n : v[i] = w[i]
  BY <1>1
<1> HIDE DEF v
<1>3. PICK f \in [0..n -> Seq(S)] : Joined(f, w) /\ FlattenSeq(w) = f[n]
  BY <1>1, FlattenIs
<1>4. PICK g \in [0..(n + 1) -> Seq(S)] : Joined(g, v) /\ FlattenSeq(v) = g[n + 1]
  BY <1>2, FlattenIs
<1> DEFINE T == {i \in 0..n : g[i] = f[i]}
<1>5. 0 \in T
  BY <1>3, <1>4 DEF Joined
<1>6. ASSUME NEW i \in 1..n, i - 1 \in T PROVE i \in T
  <2>1. f[i] = f[i - 1] \o w[i]
    BY <1>1, <1>3 DEF Joined
  <2>2. i \in 1..(n + 1)
    OBVIOUS
  <2>3. g[i] = g[i - 1] \o v[i]
    BY <1>2, <1>4, <2>2 DEF Joined
  <2>4. g[i - 1] = f[i - 1] /\ v[i] = w[i]
    BY <1>2, <1>6
  <2>5. g[i] = f[i] /\ i \in 0..n
    BY <2>1, <2>3, <2>4
  <2> QED
    BY <2>5
<1> HIDE DEF T
<1>7. n \in T
  <2>1. \A i \in 0..n : i \in T
    BY <1>5, <1>6, CountUp
  <2>2. n \in 0..n
    OBVIOUS
  <2> QED
    BY <2>1, <2>2
<1>8. g[n] = f[n] /\ f[n] \in Seq(S)
  BY <1>3, <1>7 DEF T
<1>9. g[n + 1] = g[n] \o x
  <2>1. n + 1 \in 1..(n + 1) /\ (n + 1) - 1 = n
    OBVIOUS
  <2> QED
    BY <1>2, <1>4, <2>1 DEF Joined
<1> QED
  BY <1>3, <1>4, <1>8, <1>9 DEF v

-----------------------------------------------------------------------------
(* Splitting and joining.                                                    *)

SplitStop(t, sep) == {p \in SplitPlace : p.j >= Len(t) - (Len(sep) - 1)}
SplitNext(t, sep) == [p \in SplitPlace |-> SplitStep(t, sep, p)]
IsSplit(t, sep, f) ==
  f = [p \in SplitPlace |->
         IF p.j >= Len(t) - (Len(sep) - 1) THEN p ELSE f[SplitStep(t, sep, p)]]

LEMMA SplitIsChosen ==
  ASSUME NEW t, NEW sep
  PROVE  SplitEnd(t, sep) = CHOOSE f : IsSplit(t, sep, f)
BY Zenon DEF SplitEnd, IsSplit

LEMMA SplitStepIsAPlace ==
  ASSUME NEW t \in Seq(Nat), NEW sep \in Seq(Nat), NEW p \in SplitPlace
  PROVE  SplitStep(t, sep, p) \in SplitPlace
<1>1. /\ p.j \in Nat /\ p.start \in Nat /\ p.tokens \in Seq(Seq(Nat)) /\ p.slots \in Nat
  BY DEF SplitPlace
<1>2. Len(p.tokens) \in Nat /\ Len(sep) \in Nat
  BY <1>1, SeqElements
<1> DEFINE room == IF p.slots < Len(p.tokens) + 2 THEN 2 * p.slots ELSE p.slots
           part == SubSeq(t, p.start + 1, p.j)
<1>3. room \in Nat
  BY <1>1, <1>2
<1> HIDE DEF room
<1>4. CASE FoundAt(t, p.j, sep)
  <2>1. part \in Seq(Nat)
    <3>1. Len(t) \in Nat
      BY SeqElements
    <3>2. p.j <= Len(t)
      BY <1>1, <1>2, <1>4, <3>1 DEF FoundAt
    <3>3. p.start + 1 \in Nat
      BY <1>1
    <3> QED
      BY <1>1, <3>1, <3>2, <3>3
  <2> HIDE DEF part
  <2>2. Append(p.tokens, part) \in Seq(Seq(Nat)) /\ p.j + Len(sep) \in Nat
    BY <1>1, <1>2, <2>1
  <2>3. SplitStep(t, sep, p) = [j |-> p.j + Len(sep), start |-> p.j + Len(sep),
                                tokens |-> Append(p.tokens, part), slots |-> room]
    BY <1>4 DEF SplitStep, room, part
  <2> QED
    BY <1>3, <2>2, <2>3 DEF SplitPlace
<1>5. CASE ~FoundAt(t, p.j, sep)
  <2>1. SplitStep(t, sep, p) = [p EXCEPT !.j = @ + 1, !.slots = room]
    BY <1>5 DEF SplitStep, room
  <2>2. p.j + 1 \in Nat
    BY <1>1
  <2> QED
    BY <1>3, <2>1, <2>2 DEF SplitPlace
<1> QED
  BY <1>4, <1>5

LEMMA SplitLoop ==
  ASSUME NEW t \in Seq(Nat), NEW sep \in Seq(Nat)
  PROVE  IsLoop(SplitEnd(t, sep), SplitPlace, SplitStop(t, sep), SplitNext(t, sep))
<1> DEFINE stop == SplitStop(t, sep)
           next == SplitNext(t, sep)
<1>1. \A p \in SplitPlace : next[p] = SplitStep(t, sep, p)
  BY DEF SplitNext
<1>2. \A p \in SplitPlace : p \in stop <=> p.j >= Len(t) - (Len(sep) - 1)
  BY DEF SplitStop
<1>3. Leads(SplitPlace, stop, next)
  BY <1>1, SplitStepIsAPlace DEF Leads
<1> HIDE DEF stop, next
<1>4. ASSUME NEW f
      PROVE  [p \in SplitPlace |-> IF p \in stop THEN p ELSE f[next[p]]]
             = [p \in SplitPlace |->
                  IF p.j >= Len(t) - (Len(sep) - 1) THEN p ELSE f[SplitStep(t, sep, p)]]
  BY <1>1, <1>2, Zenon
<1>5. \A f : IsLoop(f, SplitPlace, stop, next) <=> IsSplit(t, sep, f)
  BY <1>4, Zenon DEF IsLoop, IsSplit
<1>6. PICK f : IsLoop(f, SplitPlace, stop, next)
  BY <1>3, LoopIs
<1>7. IsSplit(t, sep, SplitEnd(t, sep))
  BY <1>5, <1>6, SplitIsChosen, Zenon
<1> QED
  BY <1>5, <1>7 DEF stop, next

\* A separator found in a part is found in the text.
LEMMA FoundInPart ==
  ASSUME NEW t \in Seq(Nat), NEW sep \in Seq(Nat), NEW a \in Nat, NEW d \in Nat,
         a + d <= Len(t), NEW k \in Nat, FoundAt(SubSeq(t, a + 1, a + d), k, sep)
  PROVE  k + Len(sep) <= d /\ FoundAt(t, a + k, sep)
<1> DEFINE x == SubSeq(t, a + 1, a + d)
<1>1. PICK n \in Nat : n = Len(sep)
  BY SeqElements
<1>2. x \in Seq(Nat) /\ Len(x) = d /\ \A i \in 1..d : x[i] = t[a + i]
  BY SeqPart
<1>3. FoundAt(x, k, sep)
  OBVIOUS
<1> HIDE DEF x
<1>4. k + n <= d /\ SubSeq(x, k + 1, k + n) = sep
  BY <1>1, <1>2, <1>3 DEF FoundAt
<1>5. Len(t) \in Nat
  BY SeqElements
<1>6. \A i \in 1..n : SubSeq(x, k + 1, k + n)[i] = x[k + i]
  BY <1>1, <1>2, <1>4, SeqPart
<1>7. a + k \in Nat /\ (a + k) + n <= Len(t)
  BY <1>4, <1>5
<1> DEFINE b == a + k
<1>8. /\ SubSeq(t, b + 1, b + n) \in Seq(Nat) /\ Len(SubSeq(t, b + 1, b + n)) = n
      /\ \A i \in 1..n : SubSeq(t, b + 1, b + n)[i] = t[b + i]
  <2> HIDE DEF b
  <2>1. b \in Nat /\ b + n <= Len(t)
    BY <1>7 DEF b
  <2> QED
    BY <2>1, SeqPart
<1>9. \A i \in 1..n : SubSeq(t, b + 1, b + n)[i] = sep[i]
  <2> TAKE i \in 1..n
  <2>1. k + i \in 1..d /\ a + (k + i) = b + i
    BY <1>4
  <2>2. x[k + i] = t[b + i]
    BY <1>2, <2>1
  <2>3. sep[i] = x[k + i]
    BY <1>4, <1>6
  <2> HIDE DEF b
  <2> QED
    BY <1>8, <2>2, <2>3
<1>10. SubSeq(t, b + 1, b + n) = sep
  <2> HIDE DEF b
  <2> QED
    BY <1>1, <1>8, <1>9, SameElements
<1> QED
  BY <1>1, <1>4, <1>7, <1>10 DEF FoundAt

LEMMA JoinsMeet ==
  ASSUME NEW u \in Seq(Nat), NEW v \in Seq(Nat), NEW w \in Seq(Nat)
  PROVE  (u \o v) \o w = u \o (v \o w)
BY ConcatAssociative

LEMMA JoinsOfBytes ==
  ASSUME NEW u \in Seq(Byte), NEW v \in Seq(Byte), NEW w \in Seq(Byte)
  PROVE  (u \o v) \o w = u \o (v \o w)
BY ConcatAssociative

LEMMA PartsMeet ==
  ASSUME NEW S, NEW t \in Seq(S), NEW a \in Nat, NEW d \in Nat, a + d <= Len(t)
  PROVE  SubSeq(t, 1, a) \o SubSeq(t, a + 1, a + d) = SubSeq(t, 1, a + d)
<1>1. Len(t) \in Nat
  BY SeqElements
<1>2. a \in 0..Len(t) /\ a + d \in 0..Len(t)
  BY <1>1
<1> DEFINE u == SubSeq(t, 1, a)
           v == SubSeq(t, a + 1, a + d)
           w == SubSeq(t, 1, a + d)
<1>3. u \in Seq(S) /\ Len(u) = a /\ \A i \in 1..a : u[i] = t[i]
  BY <1>2, SeqFront
<1>4. v \in Seq(S) /\ Len(v) = d /\ \A i \in 1..d : v[i] = t[a + i]
  BY SeqPart
<1>5. w \in Seq(S) /\ Len(w) = a + d /\ \A i \in 1..(a + d) : w[i] = t[i]
  <2> DEFINE e == a + d
  <2>1. e \in 0..Len(t)
    BY <1>2
  <2> HIDE DEF e
  <2>2. SubSeq(t, 1, e) \in Seq(S) /\ Len(SubSeq(t, 1, e)) = e
        /\ \A i \in 1..e : SubSeq(t, 1, e)[i] = t[i]
    BY <2>1, SeqFront
  <2> QED
    BY <2>2 DEF e
<1> HIDE DEF u, v, w
<1>6. /\ u \o v \in Seq(S) /\ Len(u \o v) = a + d
      /\ \A i \in 1..a : (u \o v)[i] = u[i]
      /\ \A i \in 1..d : (u \o v)[a + i] = v[i]
  <2>1. /\ u \o v \in Seq(S) /\ Len(u \o v) = Len(u) + Len(v)
        /\ \A i \in 1..Len(u) : (u \o v)[i] = u[i]
        /\ \A i \in 1..Len(v) : (u \o v)[Len(u) + i] = v[i]
    <3>1. u \in Seq(S) /\ v \in Seq(S)
      BY <1>3, <1>4
    <3> QED
      BY <3>1, SeqJoin
  <2> DEFINE y == u \o v
  <2>2. y = u \o v
    OBVIOUS
  <2> HIDE DEF y
  <2> QED
    BY <1>3, <1>4, <2>1, <2>2, Zenon
<1>7. \A i \in 1..(a + d) : (u \o v)[i] = w[i]
  <2> TAKE i \in 1..(a + d)
  <2>1. CASE i <= a
    <3>1. i \in 1..a
      BY <2>1
    <3> QED
      BY <1>3, <1>5, <1>6, <3>1
  <2>2. CASE i > a
    <3>1. i - a \in 1..d /\ a + (i - a) = i
      BY <2>2
    <3>2. (u \o v)[a + (i - a)] = v[i - a] /\ v[i - a] = t[a + (i - a)]
      BY <1>4, <1>6, <3>1
    <3> QED
      BY <1>5, <3>1, <3>2
  <2>3. i <= a \/ i > a
    OBVIOUS
  <2> QED
    BY <2>1, <2>2, <2>3, Zenon
<1>8. u \o v = w
  BY <1>5, <1>6, <1>7, SameElements
<1> QED
  BY <1>8 DEF u, v, w

LEMMA FromTheStart ==
  ASSUME NEW a \in Nat, NEW b \in Nat, NEW k \in Nat, k <= b - a - 1
  PROVE  a + k \in a..(b - 1)
OBVIOUS

\* No separator anywhere in a part; each part with the separator behind it.
Whole(x, sep) == \A j \in 0..(Len(x) - 1) : ~FoundAt(x, j, sep)
Closes(parts, sep) == [k \in 1..Len(parts) |-> parts[k] \o sep]
Slots(p) == Len(p.tokens) < p.slots
NotYet(t, sep, p) == \A k \in p.start..(p.j - 1) : ~FoundAt(t, k, sep)
SplitSoFar(t, sep, p) ==
  /\ p.start <= p.j /\ p.j <= Len(t)
  /\ Slots(p)
  /\ \A k \in 1..Len(p.tokens) : Whole(p.tokens[k], sep)
  /\ NotYet(t, sep, p)
  /\ FlattenSeq(Closes(p.tokens, sep)) = SubSeq(t, 1, p.start)

LEMMA ClosesIsASeq ==
  ASSUME NEW w \in Seq(Seq(Nat)), NEW sep \in Seq(Nat)
  PROVE  Closes(w, sep) \in Seq(Seq(Nat)) /\ Len(Closes(w, sep)) = Len(w)
<1>1. PICK n \in Nat : n = Len(w)
  BY SeqElements
<1>2. \A k \in 1..n : w[k] \o sep \in Seq(Nat)
  <2> TAKE k \in 1..n
  <2>1. w[k] \in Seq(Nat)
    BY <1>1
  <2> QED
    BY <2>1
<1> QED
  BY <1>1, <1>2 DEF Closes

LEMMA ClosesAppend ==
  ASSUME NEW w \in Seq(Seq(Nat)), NEW sep \in Seq(Nat), NEW x \in Seq(Nat)
  PROVE  Closes(Append(w, x), sep) = Append(Closes(w, sep), x \o sep)
<1>1. PICK n \in Nat : n = Len(w)
  BY SeqElements
<1> DEFINE v == Append(w, x)
           c == Closes(w, sep)
<1>2. v \in Seq(Seq(Nat)) /\ Len(v) = n + 1 /\ v[n + 1] = x /\ \A k \in 1..n : v[k] = w[k]
  BY <1>1
<1>3. c \in Seq(Seq(Nat)) /\ Len(c) = n /\ \A k \in 1..n : c[k] = w[k] \o sep
  BY <1>1, ClosesIsASeq DEF Closes
<1> HIDE DEF v, c
<1>4. /\ Closes(v, sep) \in Seq(Seq(Nat)) /\ Len(Closes(v, sep)) = n + 1
      /\ \A k \in 1..(n + 1) : Closes(v, sep)[k] = v[k] \o sep
  BY <1>2, ClosesIsASeq DEF Closes
<1>5. x \o sep \in Seq(Nat)
  OBVIOUS
<1> DEFINE y == x \o sep
<1>6. y \in Seq(Nat)
  BY <1>5
<1>7. v[n + 1] \o sep = y
  BY <1>2
<1> HIDE DEF y
<1>8. /\ Append(c, y) \in Seq(Seq(Nat)) /\ Len(Append(c, y)) = n + 1
      /\ Append(c, y)[n + 1] = y /\ \A k \in 1..n : Append(c, y)[k] = c[k]
  BY <1>3, <1>6
<1>9. \A k \in 1..(n + 1) : Closes(v, sep)[k] = Append(c, y)[k]
  <2> TAKE k \in 1..(n + 1)
  <2>1. CASE k = n + 1
    BY <1>4, <1>7, <1>8, <2>1
  <2>2. CASE k # n + 1
    <3>1. k \in 1..n
      BY <2>2
    <3> QED
      BY <1>2, <1>3, <1>4, <1>8, <3>1
  <2> QED
    BY <2>1, <2>2
<1>10. Closes(v, sep) = Append(c, y)
  BY <1>4, <1>8, <1>9, SameElements
<1> QED
  BY <1>10 DEF v, c, y

LEMMA SplitGoesOn ==
  ASSUME NEW t \in Seq(Nat), NEW sep \in Seq(Nat), sep # <<>>, NEW p \in SplitPlace,
         SplitSoFar(t, sep, p), ~(p.j >= Len(t) - (Len(sep) - 1))
  PROVE  LET q == SplitStep(t, sep, p)
         IN  q \in SplitPlace /\ SplitSoFar(t, sep, q) /\ p.j < q.j
<1>1. PICK n \in Nat : n = Len(sep)
  BY SeqElements
<1>2. n # 0
  <2>1. Len(sep) # 0
    BY EmptySeq
  <2> QED
    BY <1>1, <2>1
<1>3. PICK l \in Nat : l = Len(t)
  BY SeqElements
<1>4. /\ p.j \in Nat /\ p.start \in Nat /\ p.tokens \in Seq(Seq(Nat)) /\ p.slots \in Nat
  BY DEF SplitPlace
<1>5. PICK m \in Nat : m = Len(p.tokens)
  BY <1>4, SeqElements
<1> DEFINE room == IF p.slots < Len(p.tokens) + 2 THEN 2 * p.slots ELSE p.slots
<1>6. room \in Nat /\ m + 2 <= room
  BY <1>4, <1>5 DEF SplitSoFar, Slots
<1> HIDE DEF room
<1>7. /\ p.start <= p.j /\ p.j <= l /\ p.j < l - (n - 1)
      /\ \A k \in 1..m : Whole(p.tokens[k], sep)
      /\ FlattenSeq(Closes(p.tokens, sep)) = SubSeq(t, 1, p.start)
      /\ \A k \in p.start..(p.j - 1) : ~FoundAt(t, k, sep)
  <2>1. p.j < l - (n - 1)
    BY <1>1, <1>3, <1>4
  <2>2. /\ p.start <= p.j /\ p.j <= l
        /\ \A k \in 1..m : Whole(p.tokens[k], sep)
        /\ FlattenSeq(Closes(p.tokens, sep)) = SubSeq(t, 1, p.start)
    BY <1>3, <1>5, Zenon DEF SplitSoFar
  <2>3. \A k \in p.start..(p.j - 1) : ~FoundAt(t, k, sep)
    BY Zenon DEF SplitSoFar, NotYet
  <2> QED
    BY <2>1, <2>2, <2>3
<1>8. CASE FoundAt(t, p.j, sep)
  <2> DEFINE part == SubSeq(t, p.start + 1, p.j)
             q == [j |-> p.j + n, start |-> p.j + n,
                   tokens |-> Append(p.tokens, part), slots |-> room]
             d == p.j - p.start
  <2>1. SplitStep(t, sep, p) = q
    BY <1>1, <1>8 DEF SplitStep, room
  <2>2. d \in Nat /\ p.start + d = p.j /\ p.start + d <= l
    BY <1>4, <1>7
  <2>3. p.j + n <= l /\ SubSeq(t, p.j + 1, p.j + n) = sep
    BY <1>1, <1>3, <1>8 DEF FoundAt
  <2>4. part \in Seq(Nat) /\ Len(part) = d
    <3> HIDE DEF d
    <3>1. PICK a \in Nat : a = p.start
      BY <1>4
    <3>2. a + d <= Len(t)
      BY <1>3, <2>2, <3>1
    <3>3. SubSeq(t, a + 1, a + d) \in Seq(Nat) /\ Len(SubSeq(t, a + 1, a + d)) = d
      BY <2>2, <3>2, SeqPart
    <3> QED
      BY <2>2, <3>1, <3>3
  <2>5. Whole(part, sep)
    <3> SUFFICES ASSUME NEW k \in 0..(Len(part) - 1), FoundAt(part, k, sep) PROVE FALSE
      BY DEF Whole
    <3>1. k \in Nat /\ k <= d - 1
      BY <2>2, <2>4
    <3>2. FoundAt(t, p.start + k, sep)
      <4> HIDE DEF d
      <4>1. FoundAt(SubSeq(t, p.start + 1, p.start + d), k, sep)
        BY <2>2
      <4> QED
        BY <1>3, <1>4, <2>2, <3>1, <4>1, FoundInPart
    <3>3. p.start + k \in p.start..(p.j - 1)
      <4>1. k \in Nat /\ k <= p.j - p.start - 1
        BY <3>1
      <4>2. p.start \in Nat /\ p.j \in Nat
        BY <1>4
      <4> HIDE DEF part, d
      <4> QED
        BY <4>1, <4>2, FromTheStart
    <3> QED
      BY <1>7, <3>2, <3>3
  <2>6. SubSeq(t, 1, p.start) \o part = SubSeq(t, 1, p.j)
    <3> HIDE DEF d
    <3>1. SubSeq(t, 1, p.start) \o SubSeq(t, p.start + 1, p.start + d)
          = SubSeq(t, 1, p.start + d)
      BY <1>3, <1>4, <2>2, PartsMeet
    <3> QED
      BY <2>2, <3>1
  <2>7. SubSeq(t, 1, p.j) \o sep = SubSeq(t, 1, p.j + n)
    BY <1>3, <1>4, <2>3, PartsMeet
  <2>8. FlattenSeq(Closes(Append(p.tokens, part), sep)) = SubSeq(t, 1, p.j + n)
    <3> HIDE DEF part
    <3>1. Closes(Append(p.tokens, part), sep) = Append(Closes(p.tokens, sep), part \o sep)
      BY <1>4, <2>4, ClosesAppend
    <3>2. Closes(p.tokens, sep) \in Seq(Seq(Nat)) /\ part \o sep \in Seq(Nat)
      BY <1>4, <2>4, ClosesIsASeq
    <3>3. FlattenSeq(Append(Closes(p.tokens, sep), part \o sep))
          = FlattenSeq(Closes(p.tokens, sep)) \o (part \o sep)
      BY <3>2, FlattenAppend
    <3>4. SubSeq(t, 1, p.start) \in Seq(Nat)
      <4>1. p.start \in 0..Len(t)
        BY <1>3, <1>4, <1>7
      <4> QED
        BY <4>1, SeqFront
    <3> DEFINE u == SubSeq(t, 1, p.start)
    <3>5. u \in Seq(Nat) /\ u \o part = SubSeq(t, 1, p.j)
      BY <2>6, <3>4
    <3> HIDE DEF u
    <3>6. u \o (part \o sep) = (u \o part) \o sep
      <4>1. PICK y \in Seq(Nat) : y = part
        BY <2>4
      <4>2. (u \o y) \o sep = u \o (y \o sep)
        <5> HIDE DEF q, d
        <5>1. u \in Seq(Nat) /\ sep \in Seq(Nat) /\ y \in Seq(Nat)
          BY <3>5
        <5> QED
          BY <5>1, JoinsMeet, Zenon
      <4> QED
        BY <4>1, <4>2, Zenon
    <3> QED
      BY <1>7, <2>7, <3>1, <3>3, <3>5, <3>6 DEF u
  <2>9. /\ Len(Append(p.tokens, part)) = m + 1 /\ Append(p.tokens, part) \in Seq(Seq(Nat))
        /\ Append(p.tokens, part)[m + 1] = part
        /\ \A k \in 1..m : Append(p.tokens, part)[k] = p.tokens[k]
    <3> HIDE DEF part
    <3> QED
      BY <1>4, <1>5, <2>4
  <2>10. \A k \in 1..(m + 1) : Whole(Append(p.tokens, part)[k], sep)
    <3> HIDE DEF part
    <3> TAKE k \in 1..(m + 1)
    <3>1. CASE k = m + 1
      BY <2>5, <2>9, <3>1
    <3>2. CASE k # m + 1
      <4>1. k \in 1..m
        BY <3>2
      <4> QED
        BY <1>7, <2>9, <4>1
    <3> QED
      BY <3>1, <3>2
  <2>11. /\ q.j = p.j + n /\ q.start = p.j + n /\ q.tokens = Append(p.tokens, part)
         /\ q.slots = room
    OBVIOUS
  <2>12. q \in SplitPlace
    <3> HIDE DEF part
    <3> QED
      BY <1>4, <1>6, <2>9 DEF SplitPlace
  <2> HIDE DEF q, part, d
  <2>13. NotYet(t, sep, q)
    <3>1. \A k \in q.start..(q.j - 1) : FALSE
      BY <1>4, <2>11
    <3> QED
      BY <3>1 DEF NotYet
  <2>14. Slots(q)
    BY <1>6, <2>9, <2>11 DEF Slots
  <2>15. \A k \in 1..Len(q.tokens) : Whole(q.tokens[k], sep)
    BY <2>9, <2>10, <2>11
  <2>16. SplitSoFar(t, sep, q)
    <3>1. q.start <= q.j /\ q.j <= Len(t)
      BY <1>3, <1>4, <2>3, <2>11
    <3>2. FlattenSeq(Closes(q.tokens, sep)) = SubSeq(t, 1, q.start)
      BY <2>8, <2>11
    <3> QED
      BY <2>13, <2>14, <2>15, <3>1, <3>2 DEF SplitSoFar
  <2> QED
    BY <1>2, <1>4, <2>1, <2>11, <2>12, <2>16
<1>9. CASE ~FoundAt(t, p.j, sep)
  <2> DEFINE q == [p EXCEPT !.j = @ + 1, !.slots = room]
  <2>1. SplitStep(t, sep, p) = q
    BY <1>9 DEF SplitStep, room
  <2>2. /\ q.j = p.j + 1 /\ q.start = p.start /\ q.tokens = p.tokens /\ q.slots = room
    BY DEF SplitPlace
  <2>3. q \in SplitPlace
    BY <2>1, SplitStepIsAPlace
  <2> HIDE DEF q
  <2>4. NotYet(t, sep, q)
    <3> SUFFICES ASSUME NEW k \in p.start..p.j PROVE ~FoundAt(t, k, sep)
      <4>1. q.start..(q.j - 1) = p.start..p.j
        BY <1>4, <2>2
      <4> QED
        BY <4>1 DEF NotYet
    <3>1. CASE k = p.j
      BY <1>9, <3>1
    <3>2. CASE k # p.j
      <4>1. k \in p.start..(p.j - 1)
        BY <1>4, <3>2
      <4> QED
        BY <1>7, <4>1
    <3> QED
      BY <3>1, <3>2
  <2>5. Slots(q)
    BY <1>5, <1>6, <2>2 DEF Slots
  <2>6. q.start <= q.j /\ q.j <= Len(t)
    BY <1>2, <1>3, <1>4, <1>7, <2>2
  <2>7. SplitSoFar(t, sep, q)
    BY <1>5, <1>7, <2>2, <2>4, <2>5, <2>6 DEF SplitSoFar
  <2> QED
    BY <1>4, <2>1, <2>2, <2>3, <2>7
<1> QED
  BY <1>8, <1>9

\* What sdssplitlen promises.
Splits(t, sep, r) ==
  /\ sdsjoinsds(r.tokens, sep) = t
  /\ \A k \in 1..Len(r.tokens) : Whole(r.tokens[k], sep)
  /\ Len(r.tokens) <= r.slots

LEMMA JoinOfParts ==
  ASSUME NEW w \in Seq(Seq(Nat)), NEW sep \in Seq(Nat), NEW x \in Seq(Nat)
  PROVE  sdsjoinsds(Append(w, x), sep) = FlattenSeq(Closes(w, sep)) \o x
<1>1. PICK n \in Nat : n = Len(w)
  BY SeqElements
<1> DEFINE v == Append(w, x)
           c == Closes(w, sep)
           part == [j \in 1..Len(v) |-> v[j] \o (IF j # Len(v) THEN sep ELSE <<>>)]
<1>2. v \in Seq(Seq(Nat)) /\ Len(v) = n + 1 /\ v[n + 1] = x /\ \A k \in 1..n : v[k] = w[k]
  BY <1>1
<1>3. c \in Seq(Seq(Nat)) /\ Len(c) = n /\ \A k \in 1..n : c[k] = w[k] \o sep
  BY <1>1, ClosesIsASeq DEF Closes
<1> HIDE DEF v, c
<1>4. DOMAIN part = 1..(n + 1)
  BY <1>2
<1>5. part[n + 1] = x
  <2>1. part[n + 1] = x \o <<>>
    BY <1>2
  <2> HIDE DEF part
  <2>2. x \o <<>> = x
    OBVIOUS
  <2> QED
    BY <2>1, <2>2
<1>6. \A k \in 1..n : part[k] = c[k] /\ c[k] \in Seq(Nat)
  <2> TAKE k \in 1..n
  <2>1. k \in 1..(n + 1) /\ k # n + 1
    OBVIOUS
  <2>2. part[k] = v[k] \o sep
    BY <1>2, <2>1
  <2> HIDE DEF part
  <2>3. c[k] \in Seq(Nat)
    BY <1>3, SeqElements
  <2> QED
    BY <1>2, <1>3, <2>2, <2>3
<1>7. part = [j \in 1..(n + 1) |-> part[j]]
  BY <1>2
<1>8. sdsjoinsds(v, sep) = FlattenSeq(part)
  BY DEF sdsjoinsds
<1> HIDE DEF part
<1>9. \A k \in 1..(n + 1) : part[k] \in Seq(Nat)
  <2> TAKE k \in 1..(n + 1)
  <2>1. k = n + 1 \/ k \in 1..n
    OBVIOUS
  <2> QED
    BY <1>5, <1>6, <2>1
<1>10. part \in Seq(Seq(Nat)) /\ Len(part) = n + 1
  <2>1. PICK m \in Nat : m = n + 1
    OBVIOUS
  <2>2. part = [j \in 1..m |-> part[j]] /\ \A j \in 1..m : part[j] \in Seq(Nat)
    BY <1>7, <1>9, <2>1
  <2>3. part \in Seq(Seq(Nat)) /\ DOMAIN part = 1..m
    <3>1. \A j \in 1..m : part[j] \in Seq(Nat)
      BY <2>2
    <3>2. [j \in 1..m |-> part[j]] \in Seq(Seq(Nat)) /\ DOMAIN [j \in 1..m |-> part[j]] = 1..m
      BY <3>1
    <3> QED
      BY <2>2, <3>2, Zenon
  <2>4. Len(part) = m
    BY <2>3
  <2> QED
    BY <2>1, <2>3, <2>4
<1>11. /\ Append(c, x) \in Seq(Seq(Nat)) /\ Len(Append(c, x)) = n + 1
       /\ Append(c, x)[n + 1] = x /\ \A k \in 1..n : Append(c, x)[k] = c[k]
  BY <1>3
<1>12. \A k \in 1..(n + 1) : part[k] = Append(c, x)[k]
  <2> TAKE k \in 1..(n + 1)
  <2>1. k = n + 1 \/ k \in 1..n
    OBVIOUS
  <2> QED
    BY <1>5, <1>6, <1>11, <2>1
<1>13. part = Append(c, x)
  BY <1>10, <1>11, <1>12, SameElements
<1>14. FlattenSeq(Append(c, x)) = FlattenSeq(c) \o x
  BY <1>3, FlattenAppend
<1> QED
  BY <1>8, <1>13, <1>14 DEF v, c

LEMMA TextsSplit ==
  ASSUME NEW t \in Seq(Nat), NEW sep \in Seq(Nat), sep # <<>>
  PROVE  Splits(t, sep, Split(t, sep))
<1>1. PICK n \in Nat : n = Len(sep)
  BY SeqElements
<1>2. PICK l \in Nat : l = Len(t)
  BY SeqElements
<1>3. CASE t = <<>>
  <2>1. Split(t, sep) = [tokens |-> <<>>, slots |-> 5]
    BY <1>3 DEF Split, INITIAL_SLOTS
  <2>2. sdsjoinsds(<<>>, sep) = <<>>
    <3> DEFINE part == [j \in 1..Len(<<>>) |->
                         <<>>[j] \o (IF j # Len(<<>>) THEN sep ELSE <<>>)]
    <3>1. sdsjoinsds(<<>>, sep) = FlattenSeq(part)
      BY DEF sdsjoinsds
    <3>2. Len(<<>>) = 0
      OBVIOUS
    <3>3. part = <<>>
      <4>1. \A e : e = <<>> \/ TRUE
        OBVIOUS
      <4>2. part \in Seq({}) /\ Len(part) = 0
        BY <3>2
      <4> HIDE DEF part
      <4> QED
        BY <4>2, EmptySeq
    <3>4. FlattenSeq(<<>>) = <<>>
      BY DEF FlattenSeq
    <3> QED
      BY <3>1, <3>3, <3>4
  <2> QED
    BY <1>3, <2>1, <2>2 DEF Splits
<1>4. CASE t # <<>>
  <2> DEFINE D == SplitPlace
             stop == SplitStop(t, sep)
             next == SplitNext(t, sep)
             G == {p \in SplitPlace : SplitSoFar(t, sep, p)}
             rank == [p \in G |-> l - p.j]
             start == [j |-> 0, start |-> 0, tokens |-> <<>>, slots |-> INITIAL_SLOTS]
             end == SplitEnd(t, sep)[start]
  <2>1. \A p \in D : next[p] = SplitStep(t, sep, p) /\ (p \in stop <=> p.j >= l - (n - 1))
    BY <1>1, <1>2 DEF SplitNext, SplitStop
  <2>2. \A p \in G : p \in D /\ SplitSoFar(t, sep, p) /\ p.j \in Nat /\ p.j <= l
    BY <1>2 DEF SplitSoFar, SplitPlace
  <2>3. \A p \in D : SplitSoFar(t, sep, p) => p \in G
    OBVIOUS
  <2>4. \A p \in G : rank[p] = l - p.j
    OBVIOUS
  <2>5. rank \in [G -> Nat]
    <3>1. \A p \in G : l - p.j \in Nat
      BY <2>2
    <3> HIDE DEF G
    <3> QED
      BY <3>1
  <2>6. G \subseteq D
    OBVIOUS
  <2>7. start \in D /\ start.j = 0 /\ start.start = 0 /\ start.tokens = <<>>
        /\ start.slots = 5
    BY DEF SplitPlace, INITIAL_SLOTS
  <2>8. SplitEnd(t, sep) = SplitEnd(t, sep) /\ end = SplitEnd(t, sep)[start]
    OBVIOUS
  <2> HIDE DEF D, stop, next, G, rank, start, end
  <2>9. \A p \in G : p \notin stop =>
          next[p] \in G /\ rank[next[p]] < rank[p]
    <3> SUFFICES ASSUME NEW p \in G, p \notin stop
                 PROVE  next[p] \in G /\ rank[next[p]] < rank[p]
      OBVIOUS
    <3>1. p \in SplitPlace /\ SplitSoFar(t, sep, p) /\ ~(p.j >= Len(t) - (Len(sep) - 1))
      BY <1>1, <1>2, <2>1, <2>2 DEF D
    <3>2. /\ SplitStep(t, sep, p) \in SplitPlace /\ SplitSoFar(t, sep, SplitStep(t, sep, p))
          /\ p.j < SplitStep(t, sep, p).j
      BY <3>1, SplitGoesOn
    <3>3. next[p] \in G /\ p.j < next[p].j
      BY <2>1, <2>2, <2>3, <3>2 DEF D
    <3>4. rank[next[p]] = l - next[p].j /\ rank[p] = l - p.j
      BY <2>4, <3>3
    <3>5. next[p].j \in Nat /\ p.j \in Nat
      BY <2>2, <3>3
    <3> QED
      BY <3>3, <3>4, <3>5
  <2>10. Stays(G, stop, next) /\ Sinks(G, stop, next, rank)
    BY <2>9 DEF Stays, Sinks
  <2>11. start \in G
    <3>1. Closes(start.tokens, sep) = <<>> /\ FlattenSeq(<<>>) = <<>>
      <4>1. <<>> \in Seq(Seq(Nat)) /\ Len(<<>>) = 0
        OBVIOUS
      <4>2. Closes(<<>>, sep) \in Seq(Seq(Nat)) /\ Len(Closes(<<>>, sep)) = 0
        BY <4>1, ClosesIsASeq
      <4>3. Closes(<<>>, sep) = <<>>
        BY <4>2, EmptySeq
      <4>4. FlattenSeq(<<>>) = <<>>
        BY DEF FlattenSeq
      <4> QED
        BY <2>7, <4>3, <4>4
    <3>2. SubSeq(t, 1, 0) = <<>>
      <4>1. 0 \in 0..Len(t)
        BY <1>2
      <4>2. SubSeq(t, 1, 0) \in Seq(Nat) /\ Len(SubSeq(t, 1, 0)) = 0
        BY <4>1, SeqFront
      <4> QED
        BY <4>2, EmptySeq
    <3>3. NotYet(t, sep, start)
      BY <2>7 DEF NotYet
    <3>4. Slots(start)
      BY <2>7 DEF Slots
    <3>5. \A k \in 1..Len(start.tokens) : Whole(start.tokens[k], sep)
      BY <2>7
    <3>6. start.start <= start.j /\ start.j <= Len(t)
      BY <1>2, <2>7
    <3>7. FlattenSeq(Closes(start.tokens, sep)) = SubSeq(t, 1, start.start)
      BY <2>7, <3>1, <3>2, Zenon
    <3>8. SplitSoFar(t, sep, start)
      BY <3>3, <3>4, <3>5, <3>6, <3>7, Zenon DEF SplitSoFar
    <3> QED
      BY <2>3, <2>7, <3>8
  <2>12. IsLoop(SplitEnd(t, sep), D, stop, next)
    BY SplitLoop DEF D, stop, next
  <2>13. end \in G /\ end \in stop
    BY <2>5, <2>6, <2>8, <2>10, <2>11, <2>12, LoopStops
  <2>14. /\ end.j \in Nat /\ end.start \in Nat /\ end.tokens \in Seq(Seq(Nat))
         /\ end.slots \in Nat /\ SplitSoFar(t, sep, end)
    BY <2>2, <2>13 DEF D, SplitPlace
  <2>15. /\ end.start <= end.j /\ end.j <= l /\ end.j >= l - (n - 1)
         /\ Len(end.tokens) < end.slots
         /\ \A k \in 1..Len(end.tokens) : Whole(end.tokens[k], sep)
         /\ \A k \in end.start..(end.j - 1) : ~FoundAt(t, k, sep)
         /\ FlattenSeq(Closes(end.tokens, sep)) = SubSeq(t, 1, end.start)
    BY <1>2, <2>1, <2>2, <2>13, <2>14 DEF SplitSoFar, Slots, NotYet
  <2> DEFINE part == SubSeq(t, end.start + 1, l)
             d == l - end.start
  <2>16. d \in Nat /\ end.start + d = l
    BY <2>14, <2>15
  <2>17. part \in Seq(Nat) /\ Len(part) = d /\ SubSeq(t, 1, end.start) \o part = SubSeq(t, 1, l)
    <3> HIDE DEF d
    <3> DEFINE x == SubSeq(t, end.start + 1, end.start + d)
    <3>1. end.start + d <= Len(t)
      BY <1>2, <2>16
    <3>2. x \in Seq(Nat) /\ Len(x) = d
      <4>1. PICK a \in Nat : a = end.start
        BY <2>14
      <4>2. a + d <= Len(t)
        BY <3>1, <4>1
      <4>3. SubSeq(t, a + 1, a + d) \in Seq(Nat) /\ Len(SubSeq(t, a + 1, a + d)) = d
        BY <2>16, <4>2, SeqPart
      <4> QED
        BY <4>1, <4>3
    <3>3. SubSeq(t, 1, end.start) \o x = SubSeq(t, 1, end.start + d)
      BY <2>14, <2>16, <3>1, PartsMeet
    <3> QED
      BY <2>16, <3>2, <3>3
  <2>18. SubSeq(t, 1, l) = t
    <3>1. l \in 0..Len(t)
      BY <1>2
    <3>2. /\ SubSeq(t, 1, l) \in Seq(Nat) /\ Len(SubSeq(t, 1, l)) = l
          /\ \A i \in 1..l : SubSeq(t, 1, l)[i] = t[i]
      BY <3>1, SeqFront
    <3> QED
      BY <1>2, <3>2, SameElements
  <2>19. Whole(part, sep)
    <3> SUFFICES ASSUME NEW k \in 0..(Len(part) - 1), FoundAt(part, k, sep) PROVE FALSE
      BY DEF Whole
    <3>1. k \in Nat
      OBVIOUS
    <3>2. k + n <= d /\ FoundAt(t, end.start + k, sep)
      <4> HIDE DEF d
      <4>1. FoundAt(SubSeq(t, end.start + 1, end.start + d), k, sep)
        BY <2>16
      <4>2. end.start + d <= Len(t)
        BY <1>2, <2>16
      <4> QED
        BY <1>1, <2>14, <2>16, <3>1, <4>1, <4>2, FoundInPart
    <3>3. end.start + k \in end.start..(end.j - 1)
      <4>1. end.start \in Nat /\ end.j \in Nat
        BY <2>14
      <4>2. PICK a \in Nat, b \in Nat : a = end.start /\ b = end.j
        BY <4>1, Zenon
      <4>3. b >= l - (n - 1) /\ k + n <= l - a
        BY <2>15, <3>2, <4>2
      <4> HIDE DEF part, d
      <4>4. k <= b - a - 1
        BY <3>1, <4>3
      <4> QED
        BY <3>1, <4>2, <4>4, FromTheStart
    <3> QED
      BY <2>15, <3>2, <3>3
  <2> HIDE DEF part, d
  <2> DEFINE w == Append(end.tokens, part)
  <2>20. PICK m \in Nat : m = Len(end.tokens)
    BY <2>14, SeqElements
  <2>21. /\ w \in Seq(Seq(Nat)) /\ Len(w) = m + 1 /\ w[m + 1] = part
         /\ \A k \in 1..m : w[k] = end.tokens[k]
    BY <2>14, <2>17, <2>20
  <2>22. Split(t, sep) = [tokens |-> w, slots |-> end.slots]
    BY <1>2, <1>4 DEF Split, end, start, part
  <2>23. sdsjoinsds(w, sep) = t
    BY <2>14, <2>15, <2>17, <2>18, JoinOfParts
  <2> HIDE DEF w
  <2>24. \A k \in 1..(m + 1) : Whole(w[k], sep)
    <3> TAKE k \in 1..(m + 1)
    <3>1. k = m + 1 \/ k \in 1..m
      OBVIOUS
    <3> QED
      BY <2>15, <2>19, <2>20, <2>21, <3>1
  <2>25. Len(w) <= end.slots
    BY <2>14, <2>15, <2>20, <2>21
  <2> DEFINE r == [tokens |-> w, slots |-> end.slots]
  <2>26. r.tokens = w /\ r.slots = end.slots
    OBVIOUS
  <2> HIDE DEF r
  <2>27. Splits(t, sep, r)
    BY <2>21, <2>23, <2>24, <2>25, <2>26 DEF Splits
  <2> QED
    BY <2>22, <2>27 DEF r
<1> QED
  BY <1>3, <1>4

-----------------------------------------------------------------------------
(* Quoting, and reading what is quoted.                                      *)

CharCodes ==
  /\ LF = 10 /\ CR = 13 /\ TAB = 9 /\ BEL = 7 /\ BS = 8 /\ Space = 32
  /\ DQUOTE = 34 /\ QUOTE = 39 /\ BACKSLASH = 92

LEMMA Codes == CharCodes
BY DEF CharCodes, LF, CR, TAB, BEL, BS, Space, DQUOTE, QUOTE, BACKSLASH

LEMMA Letters ==
  /\ DOMAIN Letter = {10, 13, 9, 7, 8}
  /\ Letter[10] = 110 /\ Letter[13] = 114 /\ Letter[9] = 116
  /\ Letter[7] = 97 /\ Letter[8] = 98
BY DEF Letter, LF, CR, TAB, BEL, BS

LEMMA MeantType ==
  ASSUME NEW c \in Nat
  PROVE  Meant(c) \in Nat
<1>1. CASE \E k \in DOMAIN Letter : Letter[k] = c
  <2> DEFINE k == CHOOSE k \in DOMAIN Letter : Letter[k] = c
  <2>1. k \in DOMAIN Letter
    BY <1>1
  <2>2. Meant(c) = k
    BY <1>1 DEF Meant
  <2> HIDE DEF k
  <2> QED
    BY <2>1, <2>2, Letters
<1>2. CASE ~ \E k \in DOMAIN Letter : Letter[k] = c
  BY <1>2, Zenon DEF Meant
<1> QED
  BY <1>1, <1>2

LEMMA MeantOfLetters ==
  ASSUME NEW c \in DOMAIN Letter
  PROVE  Letter[c] \in {110, 114, 116, 97, 98} /\ Meant(Letter[c]) = c
<1>1. Letter[c] \in {110, 114, 116, 97, 98}
  BY Letters
<1> DEFINE k == CHOOSE k \in DOMAIN Letter : Letter[k] = Letter[c]
<1>2. k \in DOMAIN Letter /\ Letter[k] = Letter[c]
  OBVIOUS
<1>3. Meant(Letter[c]) = k
  BY Zenon DEF Meant
<1> HIDE DEF k
<1>4. k = c
  BY <1>2, Letters
<1> QED
  BY <1>1, <1>3, <1>4

LEMMA MeantOfOthers ==
  ASSUME NEW c \in {92, 34}
  PROVE  Meant(c) = c
<1>1. ~ \E k \in DOMAIN Letter : Letter[k] = c
  BY Letters
<1> QED
  BY <1>1, Zenon DEF Meant

LEMMA HexDigitsMeet ==
  ASSUME NEW n \in 0..15
  PROVE  HexDigit(n) \in HexDigits /\ hex_digit_to_int(HexDigit(n)) = n
<1>1. CASE n < 10
  BY <1>1 DEF HexDigit, HexDigits, hex_digit_to_int
<1>2. CASE n >= 10
  BY <1>2 DEF HexDigit, HexDigits, hex_digit_to_int
<1> QED
  BY <1>1, <1>2

LEMMA HexType ==
  ASSUME NEW c \in HexDigits
  PROVE  c \in 1..255 /\ hex_digit_to_int(c) \in 0..15
<1>1. CASE c \in 48..57
  BY <1>1 DEF hex_digit_to_int
<1>2. CASE c \in 97..102
  BY <1>2 DEF hex_digit_to_int
<1>3. CASE c \in 65..70
  BY <1>3 DEF hex_digit_to_int
<1> QED
  BY <1>1, <1>2, <1>3 DEF HexDigits

\* The three ways a byte is printed.
Plain(c, e) == e = <<c>> /\ c \in 32..126 /\ c \notin {92, 34}
Pair(c, e) == \E d \in {92, 34, 110, 114, 116, 97, 98} : e = <<92, d>> /\ Meant(d) = c
Hex(c, e) ==
  \E h, l \in HexDigits :
    e = <<92, 120, h, l>> /\ 16 * hex_digit_to_int(h) + hex_digit_to_int(l) = c

LEMMA EscapedShape ==
  ASSUME NEW c \in 0..255
  PROVE  Plain(c, Escaped(c)) \/ Pair(c, Escaped(c)) \/ Hex(c, Escaped(c))
<1> DEFINE e == Escaped(c)
<1> SUFFICES Plain(c, e) \/ Pair(c, e) \/ Hex(c, e)
  OBVIOUS
<1>1. CASE c \in {92, 34}
  <2>1. e = <<92, c>>
    <3>1. c \notin DOMAIN Letter
      BY <1>1, Letters
    <3> QED
      BY <1>1, <3>1 DEF Escaped, BACKSLASH, DQUOTE
  <2>2. Meant(c) = c
    BY <1>1, MeantOfOthers
  <2> HIDE DEF e
  <2> QED
    BY <1>1, <2>1, <2>2 DEF Pair
<1>2. CASE c \in DOMAIN Letter
  <2>1. c \notin {92, 34}
    BY <1>2, Letters
  <2>2. e = <<92, Letter[c]>>
    <3>1. ~isprint(c)
      BY <1>2, Letters DEF isprint
    <3> QED
      BY <1>2, <2>1, <3>1 DEF Escaped, BACKSLASH, DQUOTE
  <2>3. Letter[c] \in {110, 114, 116, 97, 98} /\ Meant(Letter[c]) = c
    BY <1>2, MeantOfLetters
  <2>4. \E d \in {110, 114, 116, 97, 98} : Letter[c] = d
    BY <2>3, Zenon
  <2> HIDE DEF e
  <2>5. \E d \in {92, 34, 110, 114, 116, 97, 98} : e = <<92, d>> /\ Meant(d) = c
    BY <2>2, <2>3
  <2> QED
    BY <2>5, Zenon DEF Pair
<1>3. CASE c \notin {92, 34} /\ c \notin DOMAIN Letter /\ isprint(c)
  <2>1. e = <<c>>
    BY <1>3, Zenon DEF Escaped, BACKSLASH, DQUOTE
  <2>2. c \in 32..126
    BY <1>3 DEF isprint
  <2> HIDE DEF e
  <2> QED
    BY <1>3, <2>1, <2>2 DEF Plain
<1>4. CASE c \notin {92, 34} /\ c \notin DOMAIN Letter /\ ~isprint(c)
  <2>1. e = <<92, 120, HexDigit(c \div 16), HexDigit(c % 16)>>
    BY <1>4, Zenon DEF Escaped, BACKSLASH, DQUOTE
  <2>2. c \div 16 \in 0..15 /\ c % 16 \in 0..15 /\ 16 * (c \div 16) + (c % 16) = c
    OBVIOUS
  <2>3. PICK a \in 0..15, b \in 0..15 : a = c \div 16 /\ b = c % 16 /\ 16 * a + b = c
    BY <2>2
  <2>4. /\ HexDigit(a) \in HexDigits /\ hex_digit_to_int(HexDigit(a)) = a
        /\ HexDigit(b) \in HexDigits /\ hex_digit_to_int(HexDigit(b)) = b
    BY HexDigitsMeet
  <2>5. PICK h \in HexDigits, l \in HexDigits : h = HexDigit(a) /\ l = HexDigit(b)
    BY <2>4, Zenon
  <2>6. e = <<92, 120, h, l>>
    BY <2>1, <2>3, <2>5, Zenon
  <2>7. hex_digit_to_int(h) = a /\ hex_digit_to_int(l) = b
    BY <2>4, <2>5, Zenon
  <2>8. 16 * hex_digit_to_int(h) + hex_digit_to_int(l) = c
    BY <2>3, <2>7
  <2> HIDE DEF e
  <2> QED
    BY <2>6, <2>8, Zenon DEF Hex
<1> QED
  BY <1>1, <1>2, <1>3, <1>4

\* No byte that is printed has a NUL in it.
LEMMA EscapedBytes ==
  ASSUME NEW c \in 0..255
  PROVE  Escaped(c) \in Seq(1..255) /\ Len(Escaped(c)) >= 1
<1> DEFINE e == Escaped(c)
<1> SUFFICES e \in Seq(1..255) /\ Len(e) >= 1
  OBVIOUS
<1>1. Plain(c, e) \/ Pair(c, e) \/ Hex(c, e)
  BY EscapedShape
<1> HIDE DEF e
<1>2. CASE Plain(c, e)
  BY <1>2 DEF Plain
<1>3. CASE Pair(c, e)
  <2>1. PICK d \in {92, 34, 110, 114, 116, 97, 98} : e = <<92, d>>
    BY <1>3 DEF Pair
  <2> QED
    BY <2>1
<1>4. CASE Hex(c, e)
  <2>1. PICK h \in HexDigits, l \in HexDigits : e = <<92, 120, h, l>>
    BY <1>4 DEF Hex
  <2>2. h \in 1..255 /\ l \in 1..255
    BY HexType
  <2> QED
    BY <2>1, <2>2
<1> QED
  BY <1>1, <1>2, <1>3, <1>4

LEMMA CharIsThere ==
  ASSUME NEW line \in Seq(Nat), NEW i \in Nat
  PROVE  /\ CharAt(line, i) \in Nat
         /\ CharAt(line, i) # 0 => i \in 1..Len(line)
         /\ i \in 1..Len(line) => CharAt(line, i) = line[i]
BY DEF CharAt

\* One step, between double quotes.
InQuotes(line, q) == q \in ReadPlace /\ q.mode = DQUOTE
Added(q, n, b) == [p |-> q.p + n, mode |-> q.mode, token |-> Append(q.token, b)]

LEMMA AddedIsAPlace ==
  ASSUME NEW q \in ReadPlace, NEW n \in Nat, NEW b \in Nat
  PROVE  Added(q, n, b) \in ReadPlace
<1>1. q.p \in Nat /\ q.mode \in {Space, DQUOTE, QUOTE} /\ q.token \in Seq(Nat)
  BY DEF ReadPlace
<1>2. q.p + n \in Nat /\ Append(q.token, b) \in Seq(Nat)
  BY <1>1
<1> QED
  BY <1>1, <1>2 DEF Added, ReadPlace

LEMMA StepOfHex ==
  ASSUME NEW line, NEW q \in ReadPlace, q.mode = DQUOTE, IsHex(line, q.p)
  PROVE  ReadStep(line, q)
           = Added(q, 4, 16 * hex_digit_to_int(CharAt(line, q.p + 2))
                           + hex_digit_to_int(CharAt(line, q.p + 3)))
<1>1. q.mode # QUOTE /\ q.mode # Space
  BY DEF QUOTE, Space, DQUOTE
<1> QED
  BY <1>1 DEF ReadStep, Added

LEMMA StepOfPair ==
  ASSUME NEW line, NEW q \in ReadPlace, q.mode = DQUOTE, ~IsHex(line, q.p),
         CharAt(line, q.p) = BACKSLASH, CharAt(line, q.p + 1) # 0
  PROVE  ReadStep(line, q) = Added(q, 2, Meant(CharAt(line, q.p + 1)))
<1>1. q.mode # QUOTE /\ q.mode # Space
  BY DEF QUOTE, Space, DQUOTE
<1> QED
  BY <1>1 DEF ReadStep, Added

LEMMA StepOfPlain ==
  ASSUME NEW line, NEW q \in ReadPlace, q.mode = DQUOTE,
         CharAt(line, q.p) # BACKSLASH
  PROVE  ReadStep(line, q) = Added(q, 1, CharAt(line, q.p))
<1>1. ~IsHex(line, q.p)
  BY Zenon DEF IsHex
<1>2. q.mode # QUOTE /\ q.mode # Space
  BY DEF QUOTE, Space, DQUOTE
<1> QED
  BY <1>1, <1>2 DEF ReadStep, Added

LEMMA StepOfOpening ==
  ASSUME NEW line, NEW q \in ReadPlace, q.mode = Space,
         CharAt(line, q.p) \in {DQUOTE, QUOTE}
  PROVE  ReadStep(line, q)
           = [p |-> q.p + 1, mode |-> CharAt(line, q.p), token |-> q.token]
<1>1. q.mode # QUOTE /\ q.mode # DQUOTE
  BY DEF QUOTE, Space, DQUOTE
<1> QED
  BY <1>1 DEF ReadStep

\* What is printed for c is read as c.
LEMMA EscapedIsRead ==
  ASSUME NEW line \in Seq(Nat), NEW q \in ReadPlace, q.mode = DQUOTE, NEW c \in 0..255,
         NEW n \in Nat, n = Len(Escaped(c)),
         \A k \in 0..(n - 1) : CharAt(line, q.p + k) = Escaped(c)[k + 1]
  PROVE  ~TokenEnds(line, q) /\ ReadStep(line, q) = Added(q, n, c)
<1> DEFINE e == Escaped(c)
<1>1. Plain(c, e) \/ Pair(c, e) \/ Hex(c, e)
  BY EscapedShape
<1>2. n = Len(e) /\ \A k \in 0..(n - 1) : CharAt(line, q.p + k) = e[k + 1]
  OBVIOUS
<1>3. q.p \in Nat
  BY DEF ReadPlace
<1> HIDE DEF e
<1>4. TokenEnds(line, q) <=> CharAt(line, q.p) \in {34, 0}
  BY DEF TokenEnds, DQUOTE, Space
<1>5. CASE Plain(c, e)
  <2>1. e = <<c>> /\ c \in 32..126 /\ c \notin {92, 34}
    BY <1>5 DEF Plain
  <2>2. n = 1 /\ CharAt(line, q.p) = c
    <3>1. n = 1 /\ e[1] = c
      BY <1>2, <2>1
    <3>2. CharAt(line, q.p + 0) = e[0 + 1]
      BY <1>2, <3>1
    <3>3. q.p + 0 = q.p
      BY <1>3
    <3> QED
      BY <3>1, <3>2, <3>3
  <2>3. ~TokenEnds(line, q)
    BY <1>4, <2>1, <2>2
  <2>4. CharAt(line, q.p) # BACKSLASH
    BY <2>1, <2>2 DEF BACKSLASH
  <2>5. ReadStep(line, q) = Added(q, 1, CharAt(line, q.p))
    BY <2>4, StepOfPlain, Zenon
  <2> QED
    BY <2>2, <2>3, <2>5, Zenon
<1>6. CASE Pair(c, e)
  <2>1. PICK d \in {92, 34, 110, 114, 116, 97, 98} : e = <<92, d>> /\ Meant(d) = c
    BY <1>6 DEF Pair
  <2>2. n = 2 /\ CharAt(line, q.p) = 92 /\ CharAt(line, q.p + 1) = d
    <3>1. n = 2 /\ e[1] = 92 /\ e[2] = d
      BY <1>2, <2>1
    <3>2. CharAt(line, q.p + 0) = e[0 + 1] /\ CharAt(line, q.p + 1) = e[1 + 1]
      BY <1>2, <3>1
    <3>3. q.p + 0 = q.p
      BY <1>3
    <3> QED
      BY <3>1, <3>2, <3>3
  <2>3. ~TokenEnds(line, q)
    BY <1>4, <2>2
  <2>4. ~IsHex(line, q.p)
    BY <2>1, <2>2 DEF IsHex
  <2>5. CharAt(line, q.p) = BACKSLASH /\ CharAt(line, q.p + 1) # 0
    BY <2>1, <2>2 DEF BACKSLASH
  <2>6. ReadStep(line, q) = Added(q, 2, Meant(CharAt(line, q.p + 1)))
    BY <2>4, <2>5, StepOfPair, Zenon
  <2> QED
    BY <2>1, <2>2, <2>3, <2>6, Zenon
<1>7. CASE Hex(c, e)
  <2>1. PICK h \in HexDigits, l \in HexDigits :
          e = <<92, 120, h, l>> /\ 16 * hex_digit_to_int(h) + hex_digit_to_int(l) = c
    BY <1>7 DEF Hex
  <2>2. /\ n = 4 /\ CharAt(line, q.p) = 92 /\ CharAt(line, q.p + 1) = 120
        /\ CharAt(line, q.p + 2) = h /\ CharAt(line, q.p + 3) = l
    <3>1. n = 4 /\ e[1] = 92 /\ e[2] = 120 /\ e[3] = h /\ e[4] = l
      BY <1>2, <2>1
    <3>2. /\ CharAt(line, q.p + 0) = e[0 + 1] /\ CharAt(line, q.p + 1) = e[1 + 1]
          /\ CharAt(line, q.p + 2) = e[2 + 1] /\ CharAt(line, q.p + 3) = e[3 + 1]
      BY <1>2, <3>1
    <3>3. q.p + 0 = q.p
      BY <1>3
    <3> QED
      BY <3>1, <3>2, <3>3
  <2>3. ~TokenEnds(line, q)
    BY <1>4, <2>2
  <2>4. IsHex(line, q.p)
    BY <2>1, <2>2 DEF IsHex, BACKSLASH
  <2>5. ReadStep(line, q)
          = Added(q, 4, 16 * hex_digit_to_int(CharAt(line, q.p + 2))
                          + hex_digit_to_int(CharAt(line, q.p + 3)))
    BY <2>4, StepOfHex, Zenon
  <2> QED
    BY <2>1, <2>2, <2>3, <2>5, Zenon
<1> QED
  BY <1>1, <1>5, <1>6, <1>7

ReadStop(line) == {q \in ReadPlace : TokenEnds(line, q)}
ReadNext(line) == [q \in ReadPlace |-> ReadStep(line, q)]
IsRead(line, f) ==
  f = [q \in ReadPlace |-> IF TokenEnds(line, q) THEN q ELSE f[ReadStep(line, q)]]

LEMMA ReadIsChosen ==
  ASSUME NEW line
  PROVE  ReadEnd(line) = CHOOSE f : IsRead(line, f)
BY Zenon DEF ReadEnd, IsRead

\* A step goes forward, and stays where the text is.
LEMMA ReadStepIsAPlace ==
  ASSUME NEW line \in Seq(Nat), NEW q \in ReadPlace, ~TokenEnds(line, q)
  PROVE  LET r == ReadStep(line, q)
         IN  r \in ReadPlace /\ r.p \in Nat /\ q.p < r.p /\ q.p <= Len(line)
<1> DEFINE r == ReadStep(line, q)
           c == CharAt(line, q.p)
           next == CharAt(line, q.p + 1)
           hex == IsHex(line, q.p)
           x == 16 * hex_digit_to_int(CharAt(line, q.p + 2))
                  + hex_digit_to_int(CharAt(line, q.p + 3))
<1>1. q.p \in Nat /\ q.mode \in {Space, DQUOTE, QUOTE} /\ q.token \in Seq(Nat)
  BY DEF ReadPlace
<1>2. q.p + 1 \in Nat
  BY <1>1
<1>3. c \in Nat /\ next \in Nat
  BY <1>1, <1>2, CharIsThere, Zenon
<1>4. q.p <= Len(line)
  <2>1. c # 0
    BY DEF TokenEnds
  <2>2. q.p \in 1..Len(line)
    BY <1>1, <2>1, CharIsThere, Zenon
  <2>3. Len(line) \in Nat
    BY SeqElements
  <2> QED
    BY <2>2, <2>3
<1>5. Meant(next) \in Nat
  BY <1>3, MeantType
<1>6. hex => x \in Nat
  <2> SUFFICES ASSUME hex PROVE x \in Nat
    OBVIOUS
  <2>1. CharAt(line, q.p + 2) \in HexDigits /\ CharAt(line, q.p + 3) \in HexDigits
    BY Zenon DEF IsHex
  <2>2. \A h \in HexDigits : hex_digit_to_int(h) \in 0..15
    BY HexType
  <2>3. \A a, b \in 0..15 : 16 * a + b \in Nat
    OBVIOUS
  <2> QED
    BY <2>1, <2>2, <2>3, Zenon
<1>7. QUOTE \in Nat
  BY DEF QUOTE
<1> SUFFICES r \in ReadPlace /\ r.p \in Nat /\ q.p < r.p
  BY <1>4
<1>8. \/ hex /\ r = Added(q, 4, x)
      \/ r = Added(q, 2, Meant(next))
      \/ r = Added(q, 2, QUOTE)
      \/ c \in {DQUOTE, QUOTE} /\ r = [p |-> q.p + 1, mode |-> c, token |-> q.token]
      \/ r = Added(q, 1, c)
  <2> DEFINE C1 == q.mode = DQUOTE /\ hex
             C2 == q.mode = DQUOTE /\ ~hex /\ c = BACKSLASH /\ next # 0
             C3 == q.mode = QUOTE /\ c = BACKSLASH /\ next = QUOTE
             C4 == q.mode = Space /\ c \in {DQUOTE, QUOTE}
  <2>1. r = CASE C1 -> Added(q, 4, x) [] C2 -> Added(q, 2, Meant(next))
              [] C3 -> Added(q, 2, QUOTE)
              [] C4 -> [p |-> q.p + 1, mode |-> c, token |-> q.token]
              [] OTHER -> Added(q, 1, c)
    BY DEF ReadStep, Added
  <2>2. ~(C1 /\ C2) /\ ~(C3 /\ C4) /\ ~(C1 /\ C3) /\ ~(C1 /\ C4) /\ ~(C2 /\ C3) /\ ~(C2 /\ C4)
    BY DEF DQUOTE, QUOTE, Space
  <2>3. (C1 => hex) /\ (C4 => c \in {DQUOTE, QUOTE})
    OBVIOUS
  <2> HIDE DEF r, c, next, hex, x, C1, C2, C3, C4
  <2> QED
    BY <2>1, <2>2, <2>3
<1>9. ASSUME NEW n \in Nat, NEW b \in Nat, r = Added(q, n, b), n > 0
      PROVE  r \in ReadPlace /\ r.p \in Nat /\ q.p < r.p
  <2>1. Added(q, n, b) \in ReadPlace
    BY AddedIsAPlace
  <2>2. Added(q, n, b).p = q.p + n
    BY DEF Added
  <2> HIDE DEF r
  <2> QED
    BY <1>1, <1>9, <2>1, <2>2
<1> HIDE DEF r, c, next, hex, x
<1>10. CASE hex /\ r = Added(q, 4, x)
  BY <1>6, <1>9, <1>10
<1>11. CASE r = Added(q, 2, Meant(next))
  BY <1>5, <1>9, <1>11
<1>12. CASE r = Added(q, 2, QUOTE)
  BY <1>7, <1>9, <1>12
<1>13. CASE c \in {DQUOTE, QUOTE} /\ r = [p |-> q.p + 1, mode |-> c, token |-> q.token]
  BY <1>1, <1>2, <1>13 DEF ReadPlace
<1>14. CASE r = Added(q, 1, c)
  BY <1>3, <1>9, <1>14
<1> QED
  BY <1>8, <1>10, <1>11, <1>12, <1>13, <1>14

LEMMA ReadLoop ==
  ASSUME NEW line \in Seq(Nat)
  PROVE  IsLoop(ReadEnd(line), ReadPlace, ReadStop(line), ReadNext(line))
<1> DEFINE stop == ReadStop(line)
           next == ReadNext(line)
<1>1. \A q \in ReadPlace : next[q] = ReadStep(line, q)
  BY DEF ReadNext
<1>2. \A q \in ReadPlace : q \in stop <=> TokenEnds(line, q)
  BY DEF ReadStop
<1>3. Leads(ReadPlace, stop, next)
  BY <1>1, <1>2, ReadStepIsAPlace DEF Leads
<1> HIDE DEF stop, next
<1>4. ASSUME NEW f
      PROVE  [q \in ReadPlace |-> IF q \in stop THEN q ELSE f[next[q]]]
             = [q \in ReadPlace |-> IF TokenEnds(line, q) THEN q ELSE f[ReadStep(line, q)]]
  BY <1>1, <1>2, Zenon
<1>5. \A f : IsLoop(f, ReadPlace, stop, next) <=> IsRead(line, f)
  BY <1>4, Zenon DEF IsLoop, IsRead
<1>6. PICK f : IsLoop(f, ReadPlace, stop, next)
  BY <1>3, LoopIs
<1>7. IsRead(line, ReadEnd(line))
  BY <1>5, <1>6, ReadIsChosen, Zenon
<1> QED
  BY <1>5, <1>7 DEF stop, next

LEMMA ReadEquation ==
  ASSUME NEW line \in Seq(Nat), NEW q \in ReadPlace
  PROVE  /\ TokenEnds(line, q) => ReadEnd(line)[q] = q
         /\ ~TokenEnds(line, q) => ReadEnd(line)[q] = ReadEnd(line)[ReadStep(line, q)]
<1> DEFINE f == ReadEnd(line)
<1>1. f = [x \in ReadPlace |-> IF x \in ReadStop(line) THEN x ELSE f[ReadNext(line)[x]]]
  BY ReadLoop, Zenon DEF IsLoop
<1> HIDE DEF f
<1>2. f[q] = IF q \in ReadStop(line) THEN q ELSE f[ReadNext(line)[q]]
  BY <1>1
<1>3. q \in ReadStop(line) <=> TokenEnds(line, q)
  BY DEF ReadStop
<1>4. ReadNext(line)[q] = ReadStep(line, q)
  BY DEF ReadNext
<1> QED
  BY <1>2, <1>3, <1>4 DEF f

LEMMA ReadEndIsAPlace ==
  ASSUME NEW line \in Seq(Nat), NEW q \in ReadPlace
  PROVE  ReadEnd(line)[q] \in ReadPlace
<1> DEFINE D == ReadPlace
           stop == ReadStop(line)
           next == ReadNext(line)
           f == ReadEnd(line)
           rank == [x \in D |-> IF x.p <= Len(line) THEN Len(line) + 1 - x.p ELSE 0]
<1>1. PICK l \in Nat : l = Len(line)
  BY SeqElements
<1>2. \A x \in D : x.p \in Nat
  BY DEF ReadPlace
<1>3. rank = [x \in D |-> IF x.p <= l THEN l + 1 - x.p ELSE 0]
  BY <1>1
<1>4. \A x \in D : rank[x] = IF x.p <= l THEN l + 1 - x.p ELSE 0
  BY <1>1
<1>5. rank \in [D -> Nat]
  <2>1. \A x \in D : (IF x.p <= l THEN l + 1 - x.p ELSE 0) \in Nat
    BY <1>2
  <2> HIDE DEF D, rank
  <2> QED
    BY <1>3, <2>1
<1>6. IsLoop(f, D, stop, next)
  BY ReadLoop
<1>7. \A x \in D : x \notin stop => next[x] \in D /\ x.p < next[x].p /\ x.p <= l
  <2> SUFFICES ASSUME NEW x \in D, x \notin stop
               PROVE  next[x] \in D /\ x.p < next[x].p /\ x.p <= l
    OBVIOUS
  <2>1. ~TokenEnds(line, x)
    BY DEF ReadStop
  <2>2. next[x] = ReadStep(line, x)
    BY DEF ReadNext
  <2>3. ReadStep(line, x) \in ReadPlace /\ x.p < ReadStep(line, x).p /\ x.p <= Len(line)
    BY <2>1, ReadStepIsAPlace
  <2> QED
    BY <1>1, <2>2, <2>3
<1>8. q \in D
  OBVIOUS
<1> HIDE DEF D, stop, next, f, rank
<1>9. \A x \in D : x \notin stop => next[x] \in D /\ rank[next[x]] < rank[x]
  <2> SUFFICES ASSUME NEW x \in D, x \notin stop
               PROVE  next[x] \in D /\ rank[next[x]] < rank[x]
    OBVIOUS
  <2>1. next[x] \in D /\ x.p < next[x].p /\ x.p <= l
    BY <1>7
  <2>2. x.p \in Nat /\ next[x].p \in Nat
    BY <1>2, <2>1
  <2>3. rank[x] = l + 1 - x.p
    BY <1>4, <2>1
  <2>4. rank[next[x]] = IF next[x].p <= l THEN l + 1 - next[x].p ELSE 0
    BY <1>4, <2>1
  <2> QED
    BY <2>1, <2>2, <2>3, <2>4
<1>10. Stays(D, stop, next) /\ Sinks(D, stop, next, rank)
  BY <1>9 DEF Stays, Sinks
<1>11. f[q] \in D
  BY <1>5, <1>6, <1>8, <1>10, LoopStops
<1> QED
  BY <1>11 DEF D, f

ReadStart(p) == [p |-> p, mode |-> Space, token |-> <<>>]

LEMMA ReadTokenType ==
  ASSUME NEW line \in Seq(Nat), NEW p \in Nat
  PROVE  LET r == ReadToken(line, p)
         IN  r.ok \in BOOLEAN /\ r.p \in Nat /\ r.token \in Seq(Nat)
<1> DEFINE q == ReadEnd(line)[ReadStart(p)]
<1>1. ReadStart(p) \in ReadPlace
  <2>1. <<>> \in Seq(Nat)
    OBVIOUS
  <2> QED
    BY <2>1 DEF ReadStart, ReadPlace
<1>2. q \in ReadPlace
  BY <1>1, ReadEndIsAPlace
<1>3. q.p \in Nat /\ q.token \in Seq(Nat)
  <2> HIDE DEF q
  <2> QED
    BY <1>2 DEF ReadPlace
<1> DEFINE c == CharAt(line, q.p)
           next == CharAt(line, q.p + 1)
           r == ReadToken(line, p)
           ok == q.mode = Space \/ (c = q.mode /\ (next = 0 \/ isspace(next)))
<1>4. r = [ok |-> ok, p |-> IF c = 0 THEN q.p ELSE q.p + 1, token |-> q.token]
  BY Zenon DEF ReadToken, ReadStart
<1>5. ok \in BOOLEAN
  OBVIOUS
<1> HIDE DEF q, c, next, ok
<1>6. r.ok = ok /\ r.p = (IF c = 0 THEN q.p ELSE q.p + 1) /\ r.token = q.token
  BY <1>4
<1> HIDE DEF r
<1>7. r.ok \in BOOLEAN /\ r.p \in Nat /\ r.token \in Seq(Nat)
  BY <1>3, <1>5, <1>6
<1> QED
  BY <1>7 DEF r

ArgsStop(line) == {q \in ArgsPlace : ~q.ok \/ CharAt(line, q.p) = 0}
ArgsNext(line) == [q \in ArgsPlace |-> ArgsStep(line, q)]
IsArgs(line, f) ==
  f = [q \in ArgsPlace |->
         IF ~q.ok \/ CharAt(line, q.p) = 0 THEN q ELSE f[ArgsStep(line, q)]]

LEMMA ArgsIsChosen ==
  ASSUME NEW line
  PROVE  ArgsEnd(line) = CHOOSE f : IsArgs(line, f)
BY Zenon DEF ArgsEnd, IsArgs

LEMMA ArgsStepIsAPlace ==
  ASSUME NEW line \in Seq(Nat), NEW q \in ArgsPlace
  PROVE  ArgsStep(line, q) \in ArgsPlace
<1>1. q.ok \in BOOLEAN /\ q.p \in Nat /\ q.vector \in Seq(Seq(Nat))
  BY DEF ArgsPlace
<1> DEFINE r == ReadToken(line, q.p)
<1>2. r.ok \in BOOLEAN /\ r.p \in Nat /\ r.token \in Seq(Nat)
  BY <1>1, ReadTokenType
<1>3. ArgsStep(line, q) = IF isspace(CharAt(line, q.p)) THEN [q EXCEPT !.p = @ + 1]
                          ELSE [ok |-> r.ok, p |-> r.p, vector |-> Append(q.vector, r.token)]
  BY DEF ArgsStep
<1> HIDE DEF r
<1>4. CASE isspace(CharAt(line, q.p))
  <2>1. ArgsStep(line, q) = [q EXCEPT !.p = @ + 1] /\ q.p + 1 \in Nat
    BY <1>1, <1>3, <1>4
  <2> QED
    BY <2>1 DEF ArgsPlace
<1>5. CASE ~isspace(CharAt(line, q.p))
  <2>1. ArgsStep(line, q) = [ok |-> r.ok, p |-> r.p, vector |-> Append(q.vector, r.token)]
    BY <1>3, <1>5
  <2>2. Append(q.vector, r.token) \in Seq(Seq(Nat))
    BY <1>1, <1>2
  <2> QED
    BY <1>2, <2>1, <2>2 DEF ArgsPlace
<1> QED
  BY <1>4, <1>5

LEMMA ArgsEquation ==
  ASSUME NEW line \in Seq(Nat), NEW q \in ArgsPlace
  PROVE  ArgsEnd(line)[q] = IF ~q.ok \/ CharAt(line, q.p) = 0 THEN q
                            ELSE ArgsEnd(line)[ArgsStep(line, q)]
<1> DEFINE stop == ArgsStop(line)
           next == ArgsNext(line)
<1>1. \A x \in ArgsPlace : next[x] = ArgsStep(line, x)
  BY DEF ArgsNext
<1>2. \A x \in ArgsPlace : x \in stop <=> (~x.ok \/ CharAt(line, x.p) = 0)
  BY DEF ArgsStop
<1>3. Leads(ArgsPlace, stop, next)
  BY <1>1, ArgsStepIsAPlace DEF Leads
<1> HIDE DEF stop, next
<1>4. ASSUME NEW f
      PROVE  [x \in ArgsPlace |-> IF x \in stop THEN x ELSE f[next[x]]]
             = [x \in ArgsPlace |-> IF ~x.ok \/ CharAt(line, x.p) = 0 THEN x
                                    ELSE f[ArgsStep(line, x)]]
  BY <1>1, <1>2, Zenon
<1>5. \A f : IsLoop(f, ArgsPlace, stop, next) <=> IsArgs(line, f)
  BY <1>4, Zenon DEF IsLoop, IsArgs
<1>6. PICK f : IsLoop(f, ArgsPlace, stop, next)
  BY <1>3, LoopIs
<1>7. IsArgs(line, ArgsEnd(line))
  BY <1>5, <1>6, ArgsIsChosen, Zenon
<1> DEFINE g == ArgsEnd(line)
<1>8. g = [x \in ArgsPlace |-> IF ~x.ok \/ CharAt(line, x.p) = 0 THEN x
                               ELSE g[ArgsStep(line, x)]]
  BY <1>7, Zenon DEF IsArgs
<1> HIDE DEF g
<1>9. g[q] = IF ~q.ok \/ CharAt(line, q.p) = 0 THEN q ELSE g[ArgsStep(line, q)]
  BY <1>8
<1> QED
  BY <1>9 DEF g

LEMMA Widens ==
  ASSUME NEW t
  PROVE  (t \in Seq(0..255) \/ t \in Seq(1..255)) => t \in Seq(Nat)
<1>1. CASE t \in Seq(0..255)
  <2>1. \A i \in 1..Len(t) : t[i] \in Nat
    <3> TAKE i \in 1..Len(t)
    <3>1. t[i] \in 0..255
      BY <1>1, SeqElements
    <3>2. \A x \in 0..255 : x \in Nat
      OBVIOUS
    <3> QED
      BY <3>1, <3>2, Zenon
  <2> QED
    BY <1>1, <2>1, SeqInto
<1>2. CASE t \in Seq(1..255)
  <2>1. \A i \in 1..Len(t) : t[i] \in Nat
    <3> TAKE i \in 1..Len(t)
    <3>1. t[i] \in 1..255
      BY <1>2, SeqElements
    <3>2. \A x \in 1..255 : x \in Nat
      OBVIOUS
    <3> QED
      BY <3>1, <3>2, Zenon
  <2> QED
    BY <1>2, <2>1, SeqInto
<1> QED
  BY <1>1, <1>2

\* Where the parts of a joined sequence are.
Starts(x, y) == Len(x) <= Len(y) /\ \A k \in 1..Len(x) : y[k] = x[k]

LEMMA StartsGoOn ==
  ASSUME NEW S, NEW x \in Seq(S), NEW y \in Seq(S), NEW z \in Seq(S),
         Starts(x, y), Starts(y, z)
  PROVE  Starts(x, z)
<1>1. Len(x) \in Nat /\ Len(y) \in Nat /\ Len(z) \in Nat
  BY SeqElements
<1>2. \A k \in 1..Len(x) : k \in 1..Len(y)
  BY <1>1 DEF Starts
<1> QED
  BY <1>1, <1>2 DEF Starts

Lie(w, n, f) ==
  \A i \in 1..n :
    /\ Len(f[i]) = Len(f[i - 1]) + Len(w[i])
    /\ \A k \in 1..Len(w[i]) : f[n][Len(f[i - 1]) + k] = w[i][k]
    /\ Starts(f[i], f[n])

LEMMA PartsLie ==
  ASSUME NEW S, NEW w \in Seq(Seq(S)), NEW n \in Nat, n = Len(w),
         NEW f \in [0..n -> Seq(S)], Joined(f, w)
  PROVE  Lie(w, n, f)
<1>1. f[0] = <<>> /\ \A i \in 1..n : f[i] = f[i - 1] \o w[i]
  BY DEF Joined
<1>2. ASSUME NEW i \in 1..n
      PROVE  /\ f[i - 1] \in Seq(S) /\ f[i] \in Seq(S) /\ w[i] \in Seq(S)
             /\ Len(f[i - 1]) \in Nat /\ Len(w[i]) \in Nat
             /\ Len(f[i]) = Len(f[i - 1]) + Len(w[i])
             /\ \A k \in 1..Len(w[i]) : f[i][Len(f[i - 1]) + k] = w[i][k]
             /\ Starts(f[i - 1], f[i])
  <2>1. i - 1 \in 0..n /\ i \in 0..n
    OBVIOUS
  <2>2. PICK u \in Seq(S) : u = f[i - 1]
    BY <2>1
  <2>3. PICK v \in Seq(S) : v = w[i]
    OBVIOUS
  <2>4. /\ u \o v \in Seq(S) /\ Len(u \o v) = Len(u) + Len(v)
        /\ \A k \in 1..Len(u) : (u \o v)[k] = u[k]
        /\ \A k \in 1..Len(v) : (u \o v)[Len(u) + k] = v[k]
    BY SeqJoin
  <2>5. f[i] = u \o v
    BY <1>1, <2>2, <2>3
  <2>6. Len(u) \in Nat /\ Len(v) \in Nat
    BY SeqElements
  <2> DEFINE y == u \o v
  <2>7. y \in Seq(S) /\ Len(y) = Len(u) + Len(v) /\ f[i] = y
        /\ (\A k \in 1..Len(u) : y[k] = u[k]) /\ (\A k \in 1..Len(v) : y[Len(u) + k] = v[k])
    BY <2>4, <2>5
  <2> HIDE DEF y
  <2>8. Starts(u, y)
    BY <2>6, <2>7 DEF Starts
  <2> QED
    BY <2>2, <2>3, <2>6, <2>7, <2>8
<1> DEFINE T == {i \in 0..n : \A j \in 0..i : Starts(f[j], f[i])}
<1>3. 0 \in T
  <2>1. Starts(f[0], f[0])
    BY <1>1 DEF Starts
  <2>2. \A j \in 0..0 : j = 0
    OBVIOUS
  <2> QED
    BY <2>1, <2>2
<1>4. ASSUME NEW i \in 1..n, i - 1 \in T PROVE i \in T
  <2>1. \A j \in 0..(i - 1) : Starts(f[j], f[i - 1])
    BY <1>4
  <2>2. i \in 0..n
    OBVIOUS
  <2> HIDE DEF T
  <2>3. \A j \in 0..i : Starts(f[j], f[i])
    <3> TAKE j \in 0..i
    <3>1. CASE j = i
      <4>1. Len(f[i]) \in Nat
        BY <1>2
      <4> QED
        BY <3>1, <4>1 DEF Starts
    <3>2. CASE j # i
      <4>1. j \in 0..(i - 1) /\ j \in 0..n
        BY <3>2
      <4>2. f[j] \in Seq(S) /\ f[i - 1] \in Seq(S) /\ f[i] \in Seq(S)
        BY <1>2, <4>1
      <4>3. Starts(f[j], f[i - 1]) /\ Starts(f[i - 1], f[i])
        BY <1>2, <2>1, <4>1
      <4> QED
        BY <4>2, <4>3, StartsGoOn
    <3> QED
      BY <3>1, <3>2
  <2> QED
    BY <2>2, <2>3 DEF T
<1> HIDE DEF T
<1>5. \A i \in 0..n : i \in T
  BY <1>3, <1>4, CountUp
<1>6. \A j \in 0..n : Starts(f[j], f[n])
  <2>1. n \in T
    <3>1. n \in 0..n
      OBVIOUS
    <3> QED
      BY <1>5, <3>1
  <2> QED
    BY <2>1 DEF T
<1> SUFFICES ASSUME NEW i \in 1..n
             PROVE  /\ Len(f[i]) = Len(f[i - 1]) + Len(w[i])
                    /\ \A k \in 1..Len(w[i]) : f[n][Len(f[i - 1]) + k] = w[i][k]
                    /\ Starts(f[i], f[n])
  BY DEF Lie
<1>7. Starts(f[i], f[n])
  <2>1. i \in 0..n
    OBVIOUS
  <2> QED
    BY <1>6, <2>1
<1>8. \A k \in 1..Len(w[i]) : f[n][Len(f[i - 1]) + k] = w[i][k]
  <2> TAKE k \in 1..Len(w[i])
  <2>1. f[i][Len(f[i - 1]) + k] = w[i][k]
    BY <1>2
  <2>2. Len(f[i - 1]) + k \in 1..Len(f[i])
    <3>1. PICK x \in Nat, y \in Nat : x = Len(f[i - 1]) /\ y = Len(w[i])
      BY <1>2
    <3>2. Len(f[i]) = x + y
      BY <1>2, <3>1
    <3>3. k \in 1..y
      BY <3>1
    <3>4. x + k \in 1..(x + y)
      BY <3>3
    <3> QED
      BY <3>1, <3>2, <3>4, Zenon
  <2> QED
    BY <1>7, <2>1, <2>2 DEF Starts
<1> QED
  BY <1>2, <1>7, <1>8

\* What is printed has the quotes at its ends and no NUL.
LEMMA Printed ==
  ASSUME NEW t \in Seq(0..255), NEW n \in Nat, n = Len(t)
  PROVE  LET w == ReprPieces(t)
         IN  /\ w \in Seq(Seq(1..255)) /\ Len(w) = n + 2
             /\ w[1] = <<DQUOTE>> /\ w[n + 2] = <<DQUOTE>>
             /\ \A i \in 1..n : w[i + 1] = Escaped(t[i])
<1> DEFINE q == <<<<DQUOTE>>>>
           e == [i \in 1..n |-> Escaped(t[i])]
           w == ReprPieces(t)
<1>1. w = q \o e \o q
  BY DEF ReprPieces
<1>2. q \in Seq(Seq(1..255)) /\ Len(q) = 1 /\ q[1] = <<DQUOTE>>
  <2>1. <<DQUOTE>> \in Seq(1..255)
    BY DEF DQUOTE
  <2> QED
    BY <2>1
<1>3. e \in Seq(Seq(1..255)) /\ Len(e) = n /\ \A i \in 1..n : e[i] = Escaped(t[i])
  <2>1. \A i \in 1..n : Escaped(t[i]) \in Seq(1..255)
    <3> TAKE i \in 1..n
    <3>1. t[i] \in 0..255
      BY SeqElements
    <3> QED
      BY <3>1, EscapedBytes
  <2> QED
    BY <2>1
<1> HIDE DEF q, e, w
<1> DEFINE u == q \o e
<1>4. /\ u \in Seq(Seq(1..255)) /\ Len(u) = n + 1 /\ u[1] = q[1]
      /\ \A i \in 1..n : u[1 + i] = e[i]
  <2>1. /\ u \in Seq(Seq(1..255)) /\ Len(u) = Len(q) + Len(e)
        /\ \A i \in 1..Len(q) : u[i] = q[i]
        /\ \A i \in 1..Len(e) : u[Len(q) + i] = e[i]
    <3>1. q \in Seq(Seq(1..255)) /\ e \in Seq(Seq(1..255))
      BY <1>2, <1>3
    <3> QED
      BY <3>1, SeqJoin
  <2> HIDE DEF u
  <2> QED
    BY <1>2, <1>3, <2>1
<1>5. w = u \o q
  BY <1>1
<1> HIDE DEF u
<1>6. /\ w \in Seq(Seq(1..255)) /\ Len(w) = Len(u) + Len(q)
      /\ \A i \in 1..Len(u) : w[i] = u[i]
      /\ \A i \in 1..Len(q) : w[Len(u) + i] = q[i]
  <2>1. q \in Seq(Seq(1..255)) /\ u \in Seq(Seq(1..255))
    BY <1>2, <1>4
  <2>2. /\ u \o q \in Seq(Seq(1..255)) /\ Len(u \o q) = Len(u) + Len(q)
        /\ \A i \in 1..Len(u) : (u \o q)[i] = u[i]
        /\ \A i \in 1..Len(q) : (u \o q)[Len(u) + i] = q[i]
    BY <2>1, SeqJoin
  <2> QED
    BY <1>5, <2>2, Zenon
<1>7. Len(w) = n + 2 /\ w[1] = <<DQUOTE>> /\ w[n + 2] = <<DQUOTE>>
  <2>1. Len(w) = n + 2
    BY <1>2, <1>4, <1>6
  <2>2. 1 \in 1..Len(u) /\ 1 \in 1..Len(q) /\ Len(u) + 1 = n + 2
    BY <1>2, <1>4
  <2> QED
    BY <1>2, <1>4, <1>6, <2>1, <2>2
<1>8. \A i \in 1..n : w[i + 1] = Escaped(t[i])
  <2> TAKE i \in 1..n
  <2>1. 1 + i \in 1..Len(u) /\ 1 + i = i + 1
    BY <1>4
  <2> QED
    BY <1>3, <1>4, <1>6, <2>1
<1> QED
  BY <1>6, <1>7, <1>8 DEF w

LEMMA WithoutNul ==
  ASSUME NEW line \in Seq(1..255)
  PROVE  CString(line) = line
<1>1. PICK l \in Nat : l = Len(line)
  BY SeqElements
<1>2. \A i \in 1..l : line[i] # 0
  <2> TAKE i \in 1..l
  <2>1. line[i] \in 1..255
    BY <1>1, SeqElements
  <2>2. \A x \in 1..255 : x # 0
    OBVIOUS
  <2> QED
    BY <2>1, <2>2, Zenon
<1>3. {i \in 1..Len(line) : line[i] = 0} \cup {Len(line) + 1} = {l + 1}
  BY <1>1, <1>2
<1>4. Min({l + 1}) = l + 1
  <2> DEFINE m == CHOOSE x \in {l + 1} : \A y \in {l + 1} : x <= y
  <2>1. m = l + 1
    <3>1. l + 1 \in {l + 1} /\ \A y \in {l + 1} : l + 1 <= y
      OBVIOUS
    <3>2. m \in {l + 1}
      BY <3>1
    <3> QED
      BY <3>2
  <2>2. Min({l + 1}) = m
    BY Zenon DEF Min
  <2> QED
    BY <2>1, <2>2, Zenon
<1>5. CString(line) = SubSeq(line, 1, (l + 1) - 1)
  BY <1>3, <1>4, Zenon DEF CString
<1>6. (l + 1) - 1 = l
  OBVIOUS
<1>7. /\ SubSeq(line, 1, l) \in Seq(1..255) /\ Len(SubSeq(line, 1, l)) = l
      /\ \A i \in 1..l : SubSeq(line, 1, l)[i] = line[i]
  <2>1. l \in 0..Len(line)
    BY <1>1
  <2> QED
    BY <2>1, SeqFront
<1>8. SubSeq(line, 1, l) = line
  BY <1>1, <1>7, SameElements
<1> QED
  BY <1>5, <1>6, <1>8, Zenon

\* What is printed for the i-th byte of t begins at a[i - 1].
Lies(line, t, n, a) ==
  \A i \in 1..n :
    /\ a[i] = a[i - 1] + Len(Escaped(t[i]))
    /\ \A k \in 0..(Len(Escaped(t[i])) - 1) :
         CharAt(line, a[i - 1] + k) = Escaped(t[i])[k + 1]

Quoted(line, l, t, n, a) ==
  /\ n = Len(t) /\ l = Len(line)
  /\ a[0] = 2 /\ a[n] = l /\ Lies(line, t, n, a)
  /\ CharAt(line, 1) = DQUOTE /\ CharAt(line, l) = DQUOTE

\* The loop over the argument comes to the closing quote with all of t.
LEMMA TokenComesBack ==
  ASSUME NEW t \in Seq(0..255), NEW n \in Nat, NEW line \in Seq(Nat), NEW l \in Nat,
         NEW a \in [0..n -> Nat], Quoted(line, l, t, n, a)
  PROVE  ReadEnd(line)[ReadStart(1)] = [p |-> l, mode |-> DQUOTE, token |-> t]
<1> DEFINE f == ReadEnd(line)
           R(i) == [p |-> a[i], mode |-> DQUOTE, token |-> SubSeq(t, 1, i)]
<1>0. /\ n = Len(t) /\ l = Len(line)
      /\ a[0] = 2 /\ a[n] = l /\ Lies(line, t, n, a)
      /\ CharAt(line, 1) = DQUOTE /\ CharAt(line, l) = DQUOTE
  BY Zenon DEF Quoted
<1> USE <1>0
<1>1. \A i \in 0..n : /\ SubSeq(t, 1, i) \in Seq(0..255) /\ Len(SubSeq(t, 1, i)) = i
                      /\ \A k \in 1..i : SubSeq(t, 1, i)[k] = t[k]
  BY SeqFront
<1>2. \A i \in 0..n : R(i) \in ReadPlace
  <2> TAKE i \in 0..n
  <2>1. PICK u \in Seq(0..255) : u = SubSeq(t, 1, i)
    BY <1>1
  <2>2. u \in Seq(Nat)
    BY Widens
  <2>3. a[i] \in Nat
    OBVIOUS
  <2>4. R(i) = [p |-> a[i], mode |-> DQUOTE, token |-> u]
    BY <2>1
  <2> HIDE DEF R
  <2> QED
    BY <2>2, <2>3, <2>4 DEF ReadPlace
<1>3. f[ReadStart(1)] = f[R(0)]
  <2>1. ReadStart(1) \in ReadPlace /\ ReadStart(1).mode = Space /\ ReadStart(1).p = 1
        /\ ReadStart(1).token = <<>>
    <3>1. <<>> \in Seq(Nat)
      OBVIOUS
    <3> QED
      BY <3>1 DEF ReadStart, ReadPlace
  <2>2. ~TokenEnds(line, ReadStart(1))
    <3>1. DQUOTE \notin {Space, LF, CR, TAB, 0}
      BY DEF DQUOTE, Space, LF, CR, TAB
    <3> QED
      BY <2>1, <3>1, Zenon DEF TokenEnds
  <2>3. ReadStep(line, ReadStart(1)) = [p |-> 1 + 1, mode |-> DQUOTE, token |-> <<>>]
    <3>1. CharAt(line, ReadStart(1).p) = DQUOTE
      BY <2>1
    <3>2. CharAt(line, ReadStart(1).p) \in {DQUOTE, QUOTE}
      BY <3>1
    <3>3. ReadStep(line, ReadStart(1))
            = [p |-> ReadStart(1).p + 1, mode |-> CharAt(line, ReadStart(1).p),
               token |-> ReadStart(1).token]
      BY <2>1, <3>2, StepOfOpening
    <3> QED
      BY <2>1, <3>1, <3>3, Zenon
  <2>4. SubSeq(t, 1, 0) = <<>>
    <3>1. 0 \in 0..n
      OBVIOUS
    <3>2. SubSeq(t, 1, 0) \in Seq(0..255) /\ Len(SubSeq(t, 1, 0)) = 0
      BY <1>1, <3>1
    <3> QED
      BY <3>2, EmptySeq
  <2>5. R(0) = [p |-> 2, mode |-> DQUOTE, token |-> <<>>]
    BY <2>4
  <2>6. 1 + 1 = 2
    OBVIOUS
  <2>7. f[ReadStart(1)] = f[ReadStep(line, ReadStart(1))]
    BY <2>1, <2>2, ReadEquation
  <2> HIDE DEF f, R
  <2> QED
    BY <2>3, <2>5, <2>6, <2>7, Zenon
<1>4. ASSUME NEW i \in 1..n PROVE f[R(i - 1)] = f[R(i)]
  <2> DEFINE q == R(i - 1)
             c == t[i]
             m == Len(Escaped(c))
  <2>1. i - 1 \in 0..n /\ i \in 0..n /\ c \in 0..255
    <3>1. t[i] \in 0..255
      BY SeqElements
    <3>2. i - 1 \in 0..n /\ i \in 0..n
      OBVIOUS
    <3> QED
      BY <3>1, <3>2, Zenon
  <2>2. q \in ReadPlace
    BY <1>2, <2>1
  <2>3. q.p = a[i - 1] /\ q.mode = DQUOTE /\ q.token = SubSeq(t, 1, i - 1)
    OBVIOUS
  <2>4. m \in Nat
    <3>1. Escaped(c) \in Seq(1..255)
      BY <2>1, EscapedBytes
    <3> QED
      BY <3>1, SeqElements
  <2>5. \A k \in 0..(m - 1) : CharAt(line, q.p + k) = Escaped(c)[k + 1]
    <3>1. \A k \in 0..(m - 1) : CharAt(line, a[i - 1] + k) = Escaped(c)[k + 1]
      BY Zenon DEF Lies
    <3> HIDE DEF q
    <3> QED
      BY <2>3, <3>1, Zenon
  <2>6. SubSeq(t, 1, i) = Append(SubSeq(t, 1, i - 1), c)
    <3> DEFINE u == SubSeq(t, 1, i - 1)
               v == SubSeq(t, 1, i)
    <3>1. u \in Seq(0..255) /\ Len(u) = i - 1 /\ \A k \in 1..(i - 1) : u[k] = t[k]
      BY <1>1, <2>1
    <3>2. v \in Seq(0..255) /\ Len(v) = i /\ \A k \in 1..i : v[k] = t[k]
      BY <1>1, <2>1
    <3>3. c = t[i]
      OBVIOUS
    <3> HIDE DEF u, v, c
    <3>4. /\ Append(u, c) \in Seq(0..255) /\ Len(Append(u, c)) = i
          /\ Append(u, c)[i] = c /\ \A k \in 1..(i - 1) : Append(u, c)[k] = u[k]
      BY <2>1, <3>1
    <3>5. \A k \in 1..i : v[k] = Append(u, c)[k]
      <4> TAKE k \in 1..i
      <4>1. k = i \/ k \in 1..(i - 1)
        OBVIOUS
      <4> QED
        BY <3>1, <3>2, <3>3, <3>4, <4>1
    <3>6. v = Append(u, c)
      BY <3>2, <3>4, <3>5, SameElements
    <3> QED
      BY <3>6 DEF u, v
  <2>7. a[i] = a[i - 1] + m
    BY Zenon DEF Lies
  <2>8. R(i) = [p |-> a[i - 1] + m, mode |-> DQUOTE, token |-> Append(SubSeq(t, 1, i - 1), c)]
    BY <2>6, <2>7
  <2> HIDE DEF q, c, m, R
  <2>9. m = Len(Escaped(c))
    BY DEF m
  <2>10. ~TokenEnds(line, q) /\ ReadStep(line, q) = Added(q, m, c)
    BY <2>1, <2>2, <2>3, <2>4, <2>5, <2>9, EscapedIsRead
  <2>11. Added(q, m, c) = R(i)
    BY <2>3, <2>8, Zenon DEF Added
  <2>12. f[q] = f[ReadStep(line, q)]
    BY <2>2, <2>10, ReadEquation
  <2> HIDE DEF f
  <2> QED
    BY <2>10, <2>11, <2>12, Zenon DEF q
<1>5. f[R(n)] = R(n)
  <2>1. R(n) \in ReadPlace
    <3>1. n \in 0..n
      OBVIOUS
    <3> QED
      BY <1>2, <3>1
  <2>2. R(n).p = l /\ R(n).mode = DQUOTE
    OBVIOUS
  <2> HIDE DEF R
  <2>3. TokenEnds(line, R(n))
    <3>1. DQUOTE # Space
      BY DEF DQUOTE, Space
    <3>2. CharAt(line, R(n).p) \in {R(n).mode, 0}
      BY <2>2
    <3> QED
      BY <2>2, <3>1, <3>2, Zenon DEF TokenEnds
  <2> QED
    BY <2>1, <2>3, ReadEquation
<1>6. R(n) = [p |-> l, mode |-> DQUOTE, token |-> t]
  <2>1. SubSeq(t, 1, n) = t
    <3>1. n \in 0..n
      OBVIOUS
    <3>2. /\ SubSeq(t, 1, n) \in Seq(0..255) /\ Len(SubSeq(t, 1, n)) = n
          /\ \A k \in 1..n : SubSeq(t, 1, n)[k] = t[k]
      BY <1>1, <3>1
    <3> QED
      BY <3>2, SameElements
  <2> QED
    BY <2>1
<1> DEFINE T == {i \in 0..n : f[R(i)] = f[R(0)]}
<1> HIDE DEF f, R
<1>7. 0 \in T
  OBVIOUS
<1>8. ASSUME NEW i \in 1..n, i - 1 \in T PROVE i \in T
  <2>1. f[R(i - 1)] = f[R(0)] /\ i \in 0..n
    BY <1>8
  <2> QED
    BY <1>4, <2>1
<1> HIDE DEF T
<1>9. n \in T
  <2>1. \A i \in 0..n : i \in T
    BY <1>7, <1>8, CountUp
  <2>2. n \in 0..n
    OBVIOUS
  <2> QED
    BY <2>1, <2>2
<1>10. f[R(n)] = f[R(0)]
  BY <1>9 DEF T
<1> QED
  BY <1>3, <1>5, <1>6, <1>10, Zenon DEF f

LEMMA QuotedTextsReturn ==
  ASSUME NEW t \in Seq(0..255)
  PROVE  sdssplitargs(FlattenSeq(ReprPieces(t))) = [ok |-> TRUE, args |-> <<t>>]
<1>1. PICK n \in Nat : n = Len(t)
  BY SeqElements
<1> DEFINE N == n + 2
<1>2. N \in Nat /\ n + 1 \in 1..N /\ N \in 1..N /\ 1 \in 1..N /\ N - 1 = n + 1 /\ N \in 0..N
  OBVIOUS
<1>3. PICK w \in Seq(Seq(1..255)) :
        /\ w = ReprPieces(t) /\ Len(w) = N /\ w[1] = <<DQUOTE>> /\ w[N] = <<DQUOTE>>
        /\ \A i \in 1..n : w[i + 1] = Escaped(t[i])
  BY <1>1, Printed
<1> HIDE DEF N
<1>4. PICK f \in [0..N -> Seq(1..255)] : Joined(f, w) /\ FlattenSeq(w) = f[N]
  BY <1>3, FlattenIs
<1>5. \A i \in 1..N :
        /\ Len(f[i]) = Len(f[i - 1]) + Len(w[i])
        /\ \A k \in 1..Len(w[i]) : f[N][Len(f[i - 1]) + k] = w[i][k]
        /\ Starts(f[i], f[N])
  <2>1. N \in Nat /\ N = Len(w) /\ Joined(f, w)
    BY <1>2, <1>3, <1>4, Zenon
  <2>2. Lie(w, N, f)
    BY <2>1, PartsLie
  <2> QED
    BY <2>2, Zenon DEF Lie
<1>6. PICK line \in Seq(1..255) : line = f[N]
  BY <1>2
<1>7. PICK l \in Nat : l = Len(line)
  BY SeqElements
<1>8. line \in Seq(Nat)
  BY Widens
<1>9. \A i \in 0..N : Len(f[i]) \in Nat
  <2> TAKE i \in 0..N
  <2>1. f[i] \in Seq(1..255)
    OBVIOUS
  <2> QED
    BY <2>1, SeqElements
<1>10. \A i \in 1..N : \A k \in 1..Len(w[i]) :
         Len(f[i - 1]) + k \in 1..l /\ CharAt(line, Len(f[i - 1]) + k) = w[i][k]
  <2> TAKE i \in 1..N
  <2> TAKE k \in 1..Len(w[i])
  <2>1. i - 1 \in 0..N /\ i \in 0..N
    BY <1>2
  <2>2. Len(f[i - 1]) \in Nat /\ Len(f[i]) \in Nat /\ Len(w[i]) \in Nat
    <3>1. w[i] \in Seq(1..255)
      BY <1>3
    <3>2. Len(w[i]) \in Nat
      BY <3>1, SeqElements
    <3> QED
      BY <1>9, <2>1, <3>2
  <2>3. Len(f[i]) <= l
    BY <1>5, <1>6, <1>7 DEF Starts
  <2>4. Len(f[i]) = Len(f[i - 1]) + Len(w[i])
    BY <1>5
  <2>5. Len(f[i - 1]) + k \in 1..l
    <3>1. PICK x \in Nat, y \in Nat, z \in Nat :
            x = Len(f[i - 1]) /\ y = Len(w[i]) /\ z = Len(f[i])
      BY <2>2
    <3>2. z <= l /\ z = x + y /\ k \in 1..y
      BY <2>3, <2>4, <3>1
    <3>3. x + k \in 1..l
      BY <3>2
    <3> QED
      BY <3>1, <3>3, Zenon
  <2>6. Len(f[i - 1]) + k \in Nat
    BY <2>2
  <2>7. CharAt(line, Len(f[i - 1]) + k) = line[Len(f[i - 1]) + k]
    BY <1>7, <1>8, <2>5, <2>6, CharIsThere
  <2>8. line[Len(f[i - 1]) + k] = w[i][k]
    BY <1>5, <1>6
  <2> QED
    BY <2>5, <2>7, <2>8
<1>11. f[0] = <<>> /\ Len(f[0]) = 0
  BY <1>4 DEF Joined
<1>12. Len(f[1]) = 1 /\ CharAt(line, 1) = DQUOTE
  <2>1. Len(w[1]) = 1 /\ w[1][1] = DQUOTE
    BY <1>3
  <2>2. Len(f[1]) = Len(f[1 - 1]) + Len(w[1])
    BY <1>2, <1>5
  <2>3. 1 - 1 = 0 /\ 0 + 1 = 1 /\ 1 \in 1..Len(w[1])
    BY <2>1
  <2>4. CharAt(line, Len(f[1 - 1]) + 1) = w[1][1]
    BY <1>2, <1>10, <2>3
  <2> QED
    BY <1>11, <2>1, <2>2, <2>3, <2>4
<1>13. l = Len(f[n + 1]) + 1 /\ CharAt(line, l) = DQUOTE
  <2>1. Len(w[N]) = 1 /\ w[N][1] = DQUOTE
    BY <1>3
  <2>2. Len(f[N]) = Len(f[N - 1]) + Len(w[N])
    BY <1>2, <1>5
  <2>3. 1 \in 1..Len(w[N])
    BY <2>1
  <2>4. CharAt(line, Len(f[N - 1]) + 1) = w[N][1]
    BY <1>2, <1>10, <2>3
  <2> QED
    BY <1>2, <1>6, <1>7, <2>1, <2>2, <2>4
<1> DEFINE a == [i \in 0..n |-> Len(f[i + 1]) + 1]
<1>14. \A i \in 0..n : a[i] = Len(f[i + 1]) + 1 /\ Len(f[i + 1]) \in Nat
  <2> TAKE i \in 0..n
  <2>1. i + 1 \in 0..N
    BY <1>2
  <2> QED
    BY <1>9, <2>1
<1>15. a \in [0..n -> Nat]
  <2>1. \A i \in 0..n : Len(f[i + 1]) + 1 \in Nat
    BY <1>14
  <2> QED
    BY <2>1
<1>16. a[0] = 2 /\ a[n] = l
  <2>1. 0 \in 0..n /\ n \in 0..n /\ 0 + 1 = 1
    OBVIOUS
  <2>2. a[0] = Len(f[1]) + 1 /\ a[n] = Len(f[n + 1]) + 1
    BY <1>14, <2>1
  <2> HIDE DEF a
  <2> QED
    BY <1>12, <1>13, <2>2
<1> HIDE DEF a
<1>17. ASSUME NEW i \in 1..n
       PROVE  /\ a[i] = a[i - 1] + Len(Escaped(t[i]))
              /\ \A k \in 0..(Len(Escaped(t[i])) - 1) :
                   CharAt(line, a[i - 1] + k) = Escaped(t[i])[k + 1]
  <2>1. i + 1 \in 1..N /\ (i + 1) - 1 = i /\ i - 1 \in 0..n /\ i \in 0..n /\ (i - 1) + 1 = i
    BY <1>2
  <2>2. a[i - 1] = Len(f[i]) + 1 /\ a[i] = Len(f[i + 1]) + 1
    BY <1>14, <2>1
  <2>3. t[i] \in 0..255
    BY <1>1, SeqElements
  <2>4. PICK e \in Seq(1..255) : e = Escaped(t[i])
    BY <2>3, EscapedBytes
  <2>5. e = w[i + 1]
    BY <1>3, <2>4
  <2>6. PICK m \in Nat : m = Len(e)
    BY SeqElements
  <2>7. PICK x \in Nat : x = Len(f[i])
    BY <1>14, <2>1
  <2>8. Len(f[i + 1]) = x + m
    <3>1. Len(f[i + 1]) = Len(f[(i + 1) - 1]) + Len(w[i + 1])
      BY <1>5, <2>1
    <3> QED
      BY <2>1, <2>5, <2>6, <2>7, <3>1, Zenon
  <2>9. a[i - 1] = x + 1 /\ a[i] = x + m + 1
    BY <2>2, <2>7, <2>8, Zenon
  <2>10. a[i] = a[i - 1] + m
    BY <2>9
  <2>11. \A k \in 0..(m - 1) : CharAt(line, a[i - 1] + k) = e[k + 1]
    <3> TAKE k \in 0..(m - 1)
    <3>1. k + 1 \in 1..m /\ (x + 1) + k = x + (k + 1)
      OBVIOUS
    <3>2. k + 1 \in 1..Len(w[i + 1])
      BY <2>5, <2>6, <3>1, Zenon
    <3>3. CharAt(line, Len(f[(i + 1) - 1]) + (k + 1)) = w[i + 1][k + 1]
      BY <1>10, <2>1, <3>2, Zenon
    <3> QED
      BY <2>1, <2>5, <2>7, <2>9, <3>1, <3>3, Zenon
  <2> QED
    BY <2>4, <2>6, <2>10, <2>11, Zenon
<1>18. ReadEnd(line)[ReadStart(1)] = [p |-> l, mode |-> DQUOTE, token |-> t]
  <2>1. Lies(line, t, n, a)
    BY <1>17, Zenon DEF Lies
  <2>2. /\ n = Len(t) /\ line \in Seq(Nat) /\ l = Len(line) /\ a \in [0..n -> Nat]
        /\ a[0] = 2 /\ a[n] = l /\ CharAt(line, 1) = DQUOTE /\ CharAt(line, l) = DQUOTE
    BY <1>1, <1>7, <1>8, <1>12, <1>13, <1>15, <1>16, Zenon
  <2>3. Quoted(line, l, t, n, a) /\ a \in [0..n -> Nat] /\ line \in Seq(Nat)
    BY <2>1, <2>2, Zenon DEF Quoted
  <2> QED
    BY <2>3, TokenComesBack
<1> DEFINE q == ReadEnd(line)[ReadStart(1)]
           r == ReadToken(line, 1)
<1>19. q.p = l /\ q.mode = DQUOTE /\ q.token = t
  BY <1>18
<1>20. CharAt(line, l + 1) = 0
  <2>1. l + 1 \notin 1..Len(line)
    BY <1>7
  <2> QED
    BY <2>1 DEF CharAt
<1>21. r = [ok |-> TRUE, p |-> l + 1, token |-> t]
  <2> DEFINE c == CharAt(line, q.p)
             next == CharAt(line, q.p + 1)
             ok == q.mode = Space \/ (c = q.mode /\ (next = 0 \/ isspace(next)))
             p == IF c = 0 THEN q.p ELSE q.p + 1
  <2>1. r = [ok |-> ok, p |-> p, token |-> q.token]
    BY Zenon DEF ReadToken, ReadStart
  <2>2. c = DQUOTE /\ next = 0
    <3> HIDE DEF q
    <3> QED
      BY <1>13, <1>19, <1>20
  <2> HIDE DEF q, c, next, r
  <2>3. ok = TRUE
    BY <1>19, <2>2
  <2>4. p = l + 1
    BY <1>19, <2>2 DEF DQUOTE
  <2> HIDE DEF ok, p
  <2> QED
    BY <1>19, <2>1, <2>3, <2>4
<1> HIDE DEF q
<1> DEFINE A0 == [ok |-> TRUE, p |-> 1, vector |-> <<>>]
           A1 == [ok |-> TRUE, p |-> l + 1, vector |-> <<t>>]
<1>22. A0 \in ArgsPlace /\ A0.ok = TRUE /\ A0.p = 1 /\ A0.vector = <<>>
  <2>1. <<>> \in Seq(Seq(Nat))
    OBVIOUS
  <2> QED
    BY <2>1 DEF ArgsPlace
<1>23. A1 \in ArgsPlace /\ A1.ok = TRUE /\ A1.p = l + 1 /\ A1.vector = <<t>>
  <2>1. <<t>> \in Seq(Seq(Nat))
    <3>1. t \in Seq(Nat)
      BY Widens
    <3> QED
      BY <3>1
  <2> QED
    BY <2>1 DEF ArgsPlace
<1>24. ArgsStep(line, A0) = A1
  <2>1. ~isspace(CharAt(line, A0.p))
    BY <1>12, <1>22 DEF isspace, DQUOTE
  <2>2. ReadToken(line, A0.p) = r
    BY <1>22
  <2>3. ArgsStep(line, A0) = [ok |-> r.ok, p |-> r.p, vector |-> Append(A0.vector, r.token)]
    <3> HIDE DEF A0, r
    <3> QED
      BY <2>1, <2>2, Zenon DEF ArgsStep
  <2>4. r.ok = TRUE /\ r.p = l + 1 /\ r.token = t
    <3> HIDE DEF r
    <3> QED
      BY <1>21
  <2>5. Append(A0.vector, t) = <<t>>
    BY <1>22
  <2> HIDE DEF A0, r
  <2> QED
    BY <2>3, <2>4, <2>5
<1>25. ArgsEnd(line)[A0] = A1
  <2>1. CharAt(line, A0.p) # 0
    BY <1>12, <1>22 DEF DQUOTE
  <2> HIDE DEF A0, A1
  <2>2. ArgsEnd(line)[A0] = ArgsEnd(line)[ArgsStep(line, A0)]
    BY <1>8, <1>22, <2>1, ArgsEquation
  <2>3. ArgsEnd(line)[A1] = A1
    <3>1. CharAt(line, A1.p) = 0
      BY <1>20, <1>23
    <3> QED
      BY <1>8, <1>23, <3>1, ArgsEquation
  <2> QED
    BY <1>24, <2>2, <2>3, Zenon
<1>26. CString(line) = line
  BY WithoutNul
<1>27. FlattenSeq(ReprPieces(t)) = line
  BY <1>3, <1>4, <1>6
<1>28. sdssplitargs(line) = [ok |-> A1.ok, args |-> IF A1.ok THEN A1.vector ELSE <<>>]
  BY <1>25, <1>26, Zenon DEF sdssplitargs
<1> HIDE DEF A1
<1>29. sdssplitargs(line) = [ok |-> TRUE, args |-> <<t>>]
  BY <1>23, <1>28
<1> QED
  BY <1>27, <1>29, Zenon

-----------------------------------------------------------------------------
(* Decimal numbers: sdsll2str takes the digits off from the right.           *)

DigitStop == {p \in DigitPlace : p.v = 0}
DigitNext == [p \in DigitPlace |-> DigitStep(p)]
IsDigitEnd(f) == f = [p \in DigitPlace |-> IF p.v = 0 THEN p ELSE f[DigitStep(p)]]

LEMMA DigitsAreChosen == DigitEnd = CHOOSE f : IsDigitEnd(f)
BY Zenon DEF DigitEnd, IsDigitEnd

LEMMA FunctionIsSeq ==
  ASSUME NEW S, NEW k \in Nat, NEW f, f = [i \in 1..k |-> f[i]], \A i \in 1..k : f[i] \in S
  PROVE  f \in Seq(S)
OBVIOUS

\* x[i] is left of n when i digits are taken off, and those are in p.text.
Taken(n, x, p) ==
  LET k == Len(p.text)
  IN  /\ x \in [0..k -> Nat] /\ x[0] = n /\ x[k] = p.v
      /\ \A i \in 1..k : p.text[i] \in 48..57 /\ x[i - 1] = 10 * x[i] + p.text[i] - 48
      /\ \A i \in 1..(k - 1) : x[i] # 0
IsTaken(n, p) == p.text # <<>> /\ \E x : Taken(n, x, p)

LEMMA DigitTaken ==
  ASSUME NEW n \in Nat, NEW p \in DigitPlace, NEW x, Taken(n, x, p), p.v # 0 \/ p.text = <<>>
  PROVE  DigitStep(p) \in DigitPlace /\ IsTaken(n, DigitStep(p))
<1>1. PICK v \in Nat, t \in Seq(Nat) : v = p.v /\ t = p.text
  BY DEF DigitPlace
<1>2. PICK k \in Nat : k = Len(t)
  BY <1>1, SeqElements
<1>3. /\ x \in [0..k -> Nat] /\ x[0] = n /\ x[k] = v
      /\ \A i \in 1..k : t[i] \in 48..57 /\ x[i - 1] = 10 * x[i] + t[i] - 48
      /\ \A i \in 1..(k - 1) : x[i] # 0
  BY <1>1, <1>2 DEF Taken
<1>4. k # 0 => x[k] # 0
  BY <1>1, <1>2, <1>3
<1> DEFINE w == v \div 10
           c == 48 + (v % 10)
           u == Append(t, c)
           y == [i \in 0..(k + 1) |-> IF i <= k THEN x[i] ELSE w]
<1>5. w \in Nat /\ c \in 48..57 /\ c \in Nat /\ v = 10 * w + c - 48
  OBVIOUS
<1>6. DigitStep(p) = [v |-> w, text |-> u]
  BY <1>1 DEF DigitStep
<1> HIDE DEF w, c
<1>7. /\ u \in Seq(Nat) /\ Len(u) = k + 1 /\ u[k + 1] = c
      /\ \A i \in 1..k : u[i] = t[i]
  BY <1>2, <1>5
<1> HIDE DEF u
<1>8. /\ y \in [0..(k + 1) -> Nat] /\ y[k + 1] = w
      /\ \A i \in 0..k : y[i] = x[i]
  BY <1>3, <1>5
<1> HIDE DEF y
<1>9. y[0] = n
  BY <1>3, <1>8
<1>10. \A i \in 1..(k + 1) : u[i] \in 48..57 /\ y[i - 1] = 10 * y[i] + u[i] - 48
  <2> TAKE i \in 1..(k + 1)
  <2>1. CASE i = k + 1
    <3>1. y[i - 1] = v /\ y[i] = w /\ u[i] = c
      BY <1>3, <1>7, <1>8, <2>1
    <3> QED
      BY <1>5, <3>1
  <2>2. CASE i # k + 1
    <3>1. i \in 1..k /\ i \in 0..k /\ i - 1 \in 0..k
      BY <2>2
    <3>2. u[i] = t[i] /\ y[i] = x[i] /\ y[i - 1] = x[i - 1]
      BY <1>7, <1>8, <3>1
    <3> QED
      BY <1>3, <3>1, <3>2
  <2> QED
    BY <2>1, <2>2
<1>11. \A i \in 1..k : y[i] # 0
  <2> TAKE i \in 1..k
  <2>1. i \in 0..k /\ (i = k \/ i \in 1..(k - 1)) /\ k # 0
    OBVIOUS
  <2>2. y[i] = x[i]
    BY <1>8, <2>1
  <2> QED
    BY <1>3, <1>4, <2>1, <2>2
<1> DEFINE q == [v |-> w, text |-> u]
<1>12. q \in DigitPlace /\ q.v = w /\ q.text = u /\ u # <<>>
  BY <1>5, <1>7 DEF DigitPlace
<1> HIDE DEF q
<1>13. (k + 1) - 1 = k
  OBVIOUS
<1>14. Taken(n, y, q)
  BY <1>7, <1>8, <1>9, <1>10, <1>11, <1>12, <1>13 DEF Taken
<1> QED
  BY <1>6, <1>12, <1>14 DEF q, IsTaken

\* The loop ends with all digits of the number taken off.
LEMMA DigitsTaken ==
  ASSUME NEW n \in Nat
  PROVE  Digits(n) \in Seq(Nat) /\ IsTaken(n, [v |-> 0, text |-> Digits(n)])
<1> DEFINE D == DigitPlace
           stop == DigitStop
           next == DigitNext
           G == {p \in D : IsTaken(n, p)}
           rank == [p \in G |-> p.v]
           a == [v |-> n, text |-> <<>>]
<1>1. \A p \in D : p.v \in Nat /\ (p \in stop <=> p.v = 0) /\ next[p] = DigitStep(p)
  BY DEF DigitPlace, DigitStop, DigitNext
<1>2. ASSUME NEW p \in D, p.v # 0
      PROVE  DigitStep(p) \in D /\ DigitStep(p).v \in Nat /\ DigitStep(p).v < p.v
  <2>1. PICK v \in Nat, t \in Seq(Nat) : v = p.v /\ t = p.text
    BY DEF DigitPlace
  <2>2. v \div 10 \in Nat /\ v \div 10 < v /\ 48 + (v % 10) \in Nat
    BY <1>2, <2>1
  <2>3. Append(t, 48 + (v % 10)) \in Seq(Nat)
    BY <2>2
  <2> QED
    BY <2>1, <2>2, <2>3 DEF DigitStep, DigitPlace
<1>3. Leads(D, stop, next)
  BY <1>1, <1>2 DEF Leads
<1> HIDE DEF stop, next
<1>4. \A f : IsLoop(f, D, stop, next) <=> IsDigitEnd(f)
  <2> TAKE f
  <2>1. [p \in D |-> IF p \in stop THEN p ELSE f[next[p]]]
          = [p \in D |-> IF p.v = 0 THEN p ELSE f[DigitStep(p)]]
    BY <1>1
  <2> QED
    BY <2>1, Zenon DEF IsLoop, IsDigitEnd
<1>5. PICK f : IsLoop(f, D, stop, next)
  BY <1>3, LoopIs
<1>6. IsLoop(DigitEnd, D, stop, next)
  BY <1>4, <1>5, DigitsAreChosen, Zenon
<1>7. a \in D /\ Taken(n, [i \in 0..0 |-> n], a) /\ a.text = <<>>
  <2>1. a \in D /\ a.v = n /\ a.text = <<>> /\ Len(a.text) = 0
    BY DEF DigitPlace
  <2> DEFINE x == [i \in 0..0 |-> n]
  <2>2. x \in [0..0 -> Nat] /\ x[0] = n
    OBVIOUS
  <2> HIDE DEF x
  <2> QED
    BY <2>1, <2>2 DEF Taken, x
<1> DEFINE b == DigitStep(a)
<1>8. b \in D /\ IsTaken(n, b)
  BY <1>7, DigitTaken
<1> HIDE DEF a, b
<1>9. \A p \in G : p \notin stop => next[p] \in G /\ next[p].v < p.v
  <2> SUFFICES ASSUME NEW p \in G, p \notin stop PROVE next[p] \in G /\ next[p].v < p.v
    OBVIOUS
  <2>1. p \in D /\ IsTaken(n, p) /\ p.v # 0 /\ next[p] = DigitStep(p)
    BY <1>1
  <2>2. PICK x : Taken(n, x, p)
    BY <2>1 DEF IsTaken
  <2>3. DigitStep(p) \in D /\ IsTaken(n, DigitStep(p))
    BY <2>1, <2>2, DigitTaken
  <2> QED
    BY <1>2, <2>1, <2>3
<1>10. /\ rank \in [G -> Nat] /\ Stays(G, stop, next) /\ Sinks(G, stop, next, rank)
       /\ G \subseteq D /\ b \in G
  <2>1. rank \in [G -> Nat] /\ \A p \in G : rank[p] = p.v
    BY <1>1
  <2> HIDE DEF rank
  <2>2. Stays(G, stop, next) /\ Sinks(G, stop, next, rank)
    BY <1>9, <2>1 DEF Stays, Sinks
  <2> QED
    BY <1>8, <2>1, <2>2
<1> DEFINE z == DigitEnd[b]
<1> HIDE DEF rank, G
<1>11. z \in G /\ z \in stop
  BY <1>6, <1>10, LoopStops
<1> HIDE DEF z
<1>12. z \in D /\ IsTaken(n, z) /\ z.v = 0
  BY <1>1, <1>11 DEF G
<1>13. z = [v |-> 0, text |-> z.text] /\ z.text \in Seq(Nat)
  BY <1>12 DEF DigitPlace
<1>14. Digits(n) = z.text
  BY DEF Digits, z, b, a
<1> QED
  BY <1>12, <1>13, <1>14

\* Read from the left, they are the number.
IsReading(t, f) == f = [k \in 0..Len(t) |-> IF k = 0 THEN 0 ELSE 10 * f[k - 1] + t[k] - 48]

LEMMA ReadingIsChosen ==
  ASSUME NEW t
  PROVE  String!Reading(t) = (CHOOSE f : IsReading(t, f))[Len(t)]
BY Zenon DEF String!Reading, IsReading

LEMMA ReadingIs ==
  ASSUME NEW k \in Nat, NEW t \in Seq(Int), k = Len(t), NEW w \in [0..k -> Nat], w[0] = 0,
         \A i \in 1..k : w[i] = 10 * w[i - 1] + t[i] - 48
  PROVE  String!Reading(t) = w[k]
<1>1. IsReading(t, w)
  <2>1. \A i \in 0..k : w[i] = IF i = 0 THEN 0 ELSE 10 * w[i - 1] + t[i] - 48
    OBVIOUS
  <2>2. w = [i \in 0..k |-> w[i]]
    OBVIOUS
  <2>3. w = [i \in 0..k |-> IF i = 0 THEN 0 ELSE 10 * w[i - 1] + t[i] - 48]
    BY <2>1, <2>2
  <2> QED
    BY <2>3 DEF IsReading
<1> DEFINE g == CHOOSE f : IsReading(t, f)
<1>2. IsReading(t, g)
  BY <1>1, Zenon
<1>3. String!Reading(t) = g[k]
  BY ReadingIsChosen
<1> HIDE DEF g
<1>4. g = [i \in 0..k |-> IF i = 0 THEN 0 ELSE 10 * g[i - 1] + t[i] - 48]
  BY <1>2 DEF IsReading
<1> DEFINE T == {i \in 0..k : g[i] = w[i]}
<1>5. 0 \in T
  BY <1>4
<1>6. ASSUME NEW i \in 1..k, i - 1 \in T PROVE i \in T
  <2>1. g[i - 1] = w[i - 1] /\ i \in 0..k /\ i # 0
    BY <1>6
  <2>2. g[i] = 10 * g[i - 1] + t[i] - 48
    BY <1>4, <2>1
  <2> QED
    BY <2>1, <2>2
<1> HIDE DEF T
<1>7. \A i \in 0..k : i \in T
  BY <1>5, <1>6, CountUp
<1>8. k \in 0..k
  OBVIOUS
<1> QED
  BY <1>3, <1>7, <1>8 DEF T

LEMMA TakenIsRead ==
  ASSUME NEW n \in Nat, NEW t \in Seq(Nat), IsTaken(n, [v |-> 0, text |-> t])
  PROVE  LET d == Reverse(t)
         IN  /\ d \in Seq(48..57) /\ Len(d) = Len(t) /\ d # <<>>
             /\ d[1] = 48 => Len(d) = 1
             /\ String!Reading(d) = n
<1> DEFINE p == [v |-> 0, text |-> t]
<1>1. p.v = 0 /\ p.text = t /\ IsTaken(n, p)
  OBVIOUS
<1> HIDE DEF p
<1>2. PICK x : Taken(n, x, p)
  BY <1>1 DEF IsTaken
<1>3. t # <<>>
  BY <1>1 DEF IsTaken
<1>4. PICK k \in Nat : k = Len(t)
  BY SeqElements
<1>5. /\ x \in [0..k -> Nat] /\ x[0] = n /\ x[k] = 0
      /\ \A i \in 1..k : t[i] \in 48..57 /\ x[i - 1] = 10 * x[i] + t[i] - 48
      /\ \A i \in 1..(k - 1) : x[i] # 0
  BY <1>1, <1>2, <1>4 DEF Taken
<1>6. k # 0
  BY <1>3, <1>4
<1> DEFINE d == Reverse(t)
           w == [i \in 0..k |-> x[k - i]]
<1>7. d = [i \in 1..k |-> t[(k - i) + 1]]
  BY <1>4 DEF Reverse
<1>8. \A i \in 1..k : (k - i) + 1 \in 1..k
  OBVIOUS
<1>9. /\ d \in Seq(48..57) /\ Len(d) = k /\ d \in Seq(Int) /\ d # <<>>
      /\ \A i \in 1..k : d[i] = t[(k - i) + 1]
  <2> HIDE DEF d
  <2>1. \A i \in 1..k : d[i] \in 48..57
    BY <1>5, <1>7, <1>8
  <2>2. d = [i \in 1..k |-> d[i]]
    BY <1>7
  <2>3. d \in Seq(48..57)
    BY <2>1, <2>2, FunctionIsSeq
  <2>4. Len(d) = k
    BY <2>2
  <2>5. d \in Seq(Int)
    BY <2>1, <2>2
  <2> QED
    BY <1>6, <1>7, <2>3, <2>4, <2>5
<1> HIDE DEF d
<1>10. w \in [0..k -> Nat] /\ \A i \in 0..k : w[i] = x[k - i]
  <2>1. \A i \in 0..k : k - i \in 0..k
    OBVIOUS
  <2> QED
    BY <1>5, <2>1
<1> HIDE DEF w
<1>11. w[0] = 0 /\ w[k] = n
  BY <1>5, <1>10
<1>12. \A i \in 1..k : w[i] = 10 * w[i - 1] + d[i] - 48
  <2> TAKE i \in 1..k
  <2>1. PICK j \in 1..k : j = (k - i) + 1
    BY <1>8
  <2>2. x[j - 1] = 10 * x[j] + t[j] - 48 /\ d[i] = t[j]
    BY <1>5, <1>9, <2>1
  <2>3. i \in 0..k /\ i - 1 \in 0..k /\ k - i = j - 1 /\ k - (i - 1) = j
    BY <2>1
  <2>4. w[i] = x[j - 1] /\ w[i - 1] = x[j]
    BY <1>10, <2>3
  <2> QED
    BY <2>2, <2>4
<1>13. String!Reading(d) = n
  BY <1>9, <1>10, <1>11, <1>12, ReadingIs
<1>14. d[1] = 48 => k = 1
  <2>1. SUFFICES ASSUME d[1] = 48, k # 1 PROVE FALSE
    OBVIOUS
  <2>2. 1 \in 1..k /\ k \in 1..k /\ (k - 1) + 1 = k /\ k - 1 \in 1..(k - 1) /\ k - 1 \in 0..k
    BY <1>6, <2>1
  <2>3. d[1] = t[k] /\ x[k - 1] = 10 * x[k] + t[k] - 48 /\ x[k - 1] # 0
    BY <1>5, <1>9, <2>2
  <2> QED
    BY <1>5, <2>1, <2>3
<1> QED
  BY <1>4, <1>9, <1>13, <1>14 DEF d

\* What sdsll2str writes is the number, with a minus before it if it has one.
LEMMA NumberIsWritten ==
  ASSUME NEW n \in Int
  PROVE  sdsll2str(n) \in Seq(0..255) /\ String!IsDecimalOf(sdsll2str(n), n)
<1> DEFINE v == IF n < 0 THEN -n ELSE n
           b == Digits(v)
           d == Reverse(b)
           t == sdsll2str(n)
<1>1. v \in Nat
  OBVIOUS
<1>2. t = Reverse(b \o (IF n < 0 THEN <<45>> ELSE <<>>))
  BY DEF sdsll2str
<1> HIDE DEF v, t
<1>3. b \in Seq(Nat) /\ IsTaken(v, [v |-> 0, text |-> b])
  BY <1>1, DigitsTaken
<1> HIDE DEF b
<1>4. /\ d \in Seq(48..57) /\ Len(d) = Len(b) /\ d # <<>>
      /\ d[1] = 48 => Len(d) = 1
      /\ String!Reading(d) = v
  BY <1>1, <1>3, TakenIsRead
<1>5. PICK k \in Nat : k = Len(b)
  BY <1>3, SeqElements
<1>6. d = [i \in 1..k |-> b[(k - i) + 1]]
  BY <1>5 DEF Reverse
<1> HIDE DEF d
<1>7. CASE ~(n < 0)
  <2>1. t = d
    <3>1. b \o <<>> = b
      BY <1>3, ConcatEmptySeq
    <3> QED
      BY <1>2, <1>7, <3>1, Zenon DEF d
  <2>2. d \in Seq(0..255)
    <3>1. \A i \in 1..Len(d) : d[i] \in 48..57
      BY <1>4, SeqElements
    <3>2. \A c \in 48..57 : c \in 0..255
      OBVIOUS
    <3>3. \A i \in 1..Len(d) : d[i] \in 0..255
      BY <3>1, <3>2, Zenon
    <3> QED
      BY <1>4, <3>3, SeqInto
  <2>3. v = n
    BY <1>7 DEF v
  <2>4. (IF n < 0 THEN Tail(d) ELSE d) = d /\ (IF n < 0 THEN -n ELSE n) = v
    BY <1>7, <2>3
  <2>5. String!IsDecimalOf(d, n)
    BY <1>4, <1>7, <2>4, Zenon DEF String!IsDecimalOf
  <2> QED
    BY <2>1, <2>2, <2>5 DEF t
<1>8. CASE n < 0
  <2> DEFINE m == b \o <<45>>
  <2>1. m \in Seq(Nat) /\ Len(m) = k + 1 /\ m[k + 1] = 45 /\ \A i \in 1..k : m[i] = b[i]
    BY <1>3, <1>5
  <2>2. t = Reverse(m)
    BY <1>2, <1>8
  <2> HIDE DEF m
  <2>3. t = [i \in 1..(k + 1) |-> m[((k + 1) - i) + 1]]
    BY <2>1, <2>2 DEF Reverse
  <2>4. \A i \in 1..k : t[i + 1] = d[i]
    <3> TAKE i \in 1..k
    <3>1. i + 1 \in 1..(k + 1) /\ ((k + 1) - (i + 1)) + 1 = (k - i) + 1 /\ (k - i) + 1 \in 1..k
      OBVIOUS
    <3>2. t[i + 1] = m[(k - i) + 1]
      BY <2>3, <3>1
    <3>3. d[i] = b[(k - i) + 1]
      BY <1>6
    <3> QED
      BY <2>1, <3>1, <3>2, <3>3
  <2>5. t[1] = 45
    <3>1. 1 \in 1..(k + 1) /\ ((k + 1) - 1) + 1 = k + 1
      OBVIOUS
    <3> QED
      BY <2>1, <2>3, <3>1
  <2>6. t \in Seq(0..255) /\ Len(t) = k + 1
    <3>1. \A i \in 1..(k + 1) : t[i] \in 0..255
      <4> TAKE i \in 1..(k + 1)
      <4>1. CASE i = 1
        BY <2>5, <4>1
      <4>2. CASE i # 1
        <5>1. PICK j \in 1..k : i = j + 1
          BY <4>2
        <5>2. d[j] \in 48..57
          BY <1>4, <1>5, SeqElements
        <5> QED
          BY <2>4, <5>1, <5>2
      <4> QED
        BY <4>1, <4>2
    <3>2. t = [i \in 1..(k + 1) |-> t[i]]
      BY <2>3
    <3>3. k + 1 \in Nat
      OBVIOUS
    <3> HIDE DEF t
    <3>4. t \in Seq(0..255)
      BY <3>1, <3>2, <3>3, FunctionIsSeq
    <3> QED
      BY <3>2, <3>3, <3>4
  <2>7. Tail(t) = d
    <3>1. Tail(t) \in Seq(0..255) /\ Len(Tail(t)) = k /\ \A i \in 1..k : Tail(t)[i] = t[i + 1]
      BY <2>6
    <3>2. \A i \in 1..k : Tail(t)[i] = d[i]
      BY <2>4, <3>1
    <3> QED
      BY <1>4, <1>5, <3>1, <3>2, SameElements
  <2>8. v = -n /\ t # <<>>
    BY <1>8, <2>6 DEF v
  <2>9. (IF n < 0 THEN Tail(t) ELSE t) = d /\ (IF n < 0 THEN -n ELSE n) = v
    BY <1>8, <2>7, <2>8
  <2>10. String!IsDecimalOf(t, n)
    BY <1>4, <2>5, <2>8, <2>9, Zenon DEF String!IsDecimalOf
  <2> QED
    BY <2>6, <2>10 DEF t
<1> QED
  BY <1>7, <1>8 DEF t

-----------------------------------------------------------------------------
(* The calls that append in pieces.  During sdscatfmt the terminator may not *)
(* be there yet.                                                             *)

Open(b) ==
  /\ b \in Blocks
  /\ b.len <= MaxLen
  /\ b.len <= sdsalloc(b) /\ sdsalloc(b) <= Capacity[b.type] /\ sdsalloc(b) < b.room
  /\ b.len <= Len(b.buf) /\ Len(b.buf) <= b.room

\* No length up to w asks for more room than the widest header records.
Roomy(w) == 2 * w <= Capacity[4] /\ w + SDS_MAX_PREALLOC <= Capacity[4]

LEMMA GoodIsOpen ==
  ASSUME NEW b, Good(b)
  PROVE  Open(b)
<1>1. b.len \in Nat /\ Len(b.buf) \in Nat
  BY GoodTypes
<1> QED
  BY <1>1 DEF Good, WellFormedString, Open

LEMMA OpenTypes ==
  ASSUME NEW b, Open(b)
  PROVE  /\ b \in Blocks
         /\ b.len \in Nat /\ b.alloc \in Nat /\ b.room \in Nat /\ b.buf \in Seq(Byte)
         /\ b.type \in Types /\ Len(b.buf) \in Nat /\ sdsalloc(b) \in Nat
         /\ b.len <= sdsalloc(b) /\ sdsalloc(b) < b.room /\ b.len <= Len(b.buf)
         /\ sdsavail(b) \in Nat /\ b.len + sdsavail(b) = sdsalloc(b)
         /\ b.len <= MaxLen /\ MaxLen \in Nat /\ Capacity[b.type] \in Nat
         /\ b.len <= Capacity[b.type] /\ sdsalloc(b) <= Capacity[b.type]
<1>1. b \in Blocks
  BY DEF Open
<1>2. b.len \in Nat /\ b.alloc \in Nat /\ Capacity[b.type] \in Nat /\ Capacity[b.type] <= Capacity[4]
  BY <1>1, BlockParts
<1>3. Capacity[4] \in Nat /\ MaxLen \in Nat
  BY SdsAssumption DEF Types
<1>4. /\ b.len <= MaxLen /\ b.len <= sdsalloc(b) /\ sdsalloc(b) <= Capacity[b.type]
      /\ sdsalloc(b) < b.room /\ b.len <= Len(b.buf)
  BY DEF Open
<1>5. sdsalloc(b) \in Nat
  BY <1>2 DEF sdsalloc
<1>6. sdsavail(b) = sdsalloc(b) - b.len
  BY <1>2 DEF sdsalloc, sdsavail
<1> QED
  BY <1>1, <1>2, <1>3, <1>4, <1>5, <1>6, BlockParts

LEMMA OpenWhen ==
  ASSUME NEW b, b \in Blocks,
         b.len <= MaxLen, b.len <= sdsalloc(b), sdsalloc(b) <= Capacity[b.type],
         sdsalloc(b) < b.room, b.len <= Len(b.buf), Len(b.buf) <= b.room
  PROVE  Open(b)
  BY DEF Open

LEMMA ResizeOpen ==
  ASSUME NEW b, Open(b), NEW type \in Types, NEW n \in Nat,
         b.len <= n, n <= Capacity[type], type = SDS_TYPE_5 => n = b.len
  PROVE  /\ Open(Resize(b, type, n))
         /\ Resize(b, type, n).len = b.len
         /\ sdsalloc(Resize(b, type, n)) = n
         /\ SameBytes(Resize(b, type, n), b)
<1> DEFINE size == IF Len(b.buf) > b.len THEN b.len + 1 ELSE Len(b.buf)
           m == Moved(b)
           r == Resize(b, type, n)
           k == n + 1
<1>1. /\ b \in Blocks /\ b.len \in Nat /\ b.buf \in Seq(Byte) /\ b.len <= Len(b.buf)
      /\ b.type \in Types /\ b.alloc \in Nat /\ Len(b.buf) \in Nat /\ b.len <= MaxLen
  BY OpenTypes
<1>2. size \in Nat /\ b.len <= size /\ size <= b.len + 1 /\ size <= Len(b.buf)
  BY <1>1
<1>3. m = SubSeq(b.buf, 1, size)
  BY DEF Moved
<1> HIDE DEF size, m
<1>4. m \in Seq(Byte) /\ Len(m) = size /\ \A i \in 1..size : m[i] = b.buf[i]
  BY <1>1, <1>2, <1>3, Prefix
<1>5. k \in Nat /\ k = n + 1
  OBVIOUS
<1> HIDE DEF k
<1>6. /\ r \in Blocks /\ r.type = type /\ r.len = b.len /\ r.room = k /\ r.buf = m
      /\ type # SDS_TYPE_5 => r.alloc = n
  <2>1. CASE type = b.type
    <3> DEFINE c == [b EXCEPT !.room = k, !.buf = m]
    <3>1. c = [b EXCEPT !.room = k, !.buf = m]
      OBVIOUS
    <3>2. r = sdssetalloc(c, n)
      BY <1>5, <2>1 DEF Resize, m
    <3> HIDE DEF c
    <3>3. /\ c \in Blocks /\ c.type = b.type /\ c.len = b.len /\ c.room = k /\ c.buf = m
      BY <1>1, <1>4, <1>5, <3>1 DEF Blocks
    <3> QED
      BY <2>1, <3>2, <3>3, Headers
  <2>2. CASE type # b.type
    <3> DEFINE c == [type |-> type, len |-> 0, alloc |-> 0, room |-> k, buf |-> m]
               l == sdssetlen(c, b.len)
    <3>1. c = [type |-> type, len |-> 0, alloc |-> 0, room |-> k, buf |-> m]
      OBVIOUS
    <3>2. r = sdssetalloc(l, n)
      BY <1>5, <2>2 DEF Resize, Block, m
    <3>3. b.len <= Capacity[type]
      BY <1>1, CapacityTypes
    <3> HIDE DEF c
    <3>4. /\ c \in Blocks /\ c.type = type /\ c.len = 0 /\ c.room = k /\ c.buf = m
      BY <1>4, <1>5, <3>1 DEF Blocks
    <3>5. /\ l \in Blocks /\ l.type = type /\ l.len = b.len /\ l.room = k /\ l.buf = m
      BY <1>1, <3>3, <3>4, Headers
    <3> HIDE DEF l
    <3> QED
      BY <3>2, <3>5, Headers
  <2> QED
    BY <2>1, <2>2
<1>7. sdsalloc(r) = n
  BY <1>6 DEF sdsalloc
<1> HIDE DEF r
<1>8. Open(r)
  <2>1. r.len <= MaxLen /\ r.len <= sdsalloc(r) /\ sdsalloc(r) <= Capacity[r.type]
    BY <1>1, <1>6, <1>7
  <2>2. sdsalloc(r) < r.room /\ r.len <= Len(r.buf) /\ Len(r.buf) <= r.room
    BY <1>1, <1>2, <1>4, <1>5, <1>6, <1>7
  <2> QED
    BY <1>6, <2>1, <2>2, OpenWhen
<1>9. SameBytes(r, b)
  BY <1>1, <1>2, <1>4, <1>6 DEF SameBytes
<1> QED
  BY <1>6, <1>7, <1>8, <1>9 DEF r

LEMMA MakeRoomOpen ==
  ASSUME NEW b, Open(b), NEW addlen \in Nat, NEW w \in Nat, Roomy(w), b.len + addlen <= w
  PROVE  /\ Open(sdsMakeRoomFor(b, addlen))
         /\ sdsMakeRoomFor(b, addlen).len = b.len
         /\ b.len + addlen <= sdsalloc(sdsMakeRoomFor(b, addlen))
         /\ SameBytes(sdsMakeRoomFor(b, addlen), b)
<1> DEFINE newlen == Enlarged(b.len + addlen)
           req == sdsReqType(newlen)
           type == IF req = SDS_TYPE_5 THEN SDS_TYPE_8 ELSE req
<1>1. /\ b.len \in Nat /\ sdsavail(b) \in Nat /\ b.len + sdsavail(b) = sdsalloc(b)
      /\ sdsalloc(b) \in Nat /\ MaxLen \in Nat
  BY OpenTypes
<1>2. CASE sdsavail(b) >= addlen
  <2>1. sdsMakeRoomFor(b, addlen) = b
    BY <1>2 DEF sdsMakeRoomFor
  <2> QED BY <1>1, <1>2, <2>1 DEF SameBytes
<1>3. CASE ~(sdsavail(b) >= addlen)
  <2>1. /\ newlen \in Nat /\ newlen <= Capacity[4] /\ b.len + addlen <= newlen
        /\ b.len <= newlen
    <3>1. /\ SDS_MAX_PREALLOC \in Nat /\ Capacity[4] \in Nat /\ 2 * w <= Capacity[4]
          /\ w + SDS_MAX_PREALLOC <= Capacity[4]
      BY SdsAssumption DEF Types, Roomy
    <3> DEFINE want == b.len + addlen
    <3>2. want \in Nat /\ want <= w /\ b.len <= want
      BY <1>1, <1>3
    <3> HIDE DEF want
    <3>3. newlen = IF want < SDS_MAX_PREALLOC THEN 2 * want ELSE want + SDS_MAX_PREALLOC
      BY DEF Enlarged, want
    <3>4. newlen \in Nat /\ newlen <= Capacity[4] /\ want <= newlen
      BY <1>1, <3>1, <3>2, <3>3
    <3> QED
      BY <1>1, <3>1, <3>2, <3>4 DEF want
  <2> HIDE DEF newlen
  <2>2. req \in Types /\ newlen <= Capacity[req]
    BY <2>1, ReqType
  <2>3. Capacity[0] < Capacity[1] /\ Capacity[0] \in Nat /\ Capacity[1] \in Nat
    BY SdsAssumption DEF Types
  <2> HIDE DEF req
  <2>4. type \in Types /\ newlen <= Capacity[type] /\ type # SDS_TYPE_5
    BY <2>1, <2>2, <2>3 DEF SDS_TYPE_5, SDS_TYPE_8, Types
  <2>5. sdsMakeRoomFor(b, addlen) = Resize(b, type, newlen)
    BY <1>3 DEF sdsMakeRoomFor, newlen, req
  <2> HIDE DEF type
  <2> QED
    BY <2>1, <2>4, <2>5, ResizeOpen
<1> QED
  BY <1>2, <1>3

\* Bytes written into the room there is, and their number recorded.
LEMMA WriteOpen ==
  ASSUME NEW r, Open(r), NEW t \in Seq(Byte), NEW n \in Nat, n = r.len + Len(t),
         n <= sdsalloc(r), n <= MaxLen
  PROVE  /\ Open(sdssetlen(Put(r, r.len, t), n))
         /\ WrittenAt(sdssetlen(Put(r, r.len, t), n), r, r.len, t, n)
<1> DEFINE p == Put(r, r.len, t)
           c == sdssetlen(p, n)
<1>1. /\ r \in Blocks /\ sdsalloc(r) \in Nat /\ r.len \in Nat /\ r.len <= Len(r.buf)
      /\ r.room \in Nat /\ sdsalloc(r) < r.room /\ r.alloc \in Nat /\ r.len <= sdsalloc(r)
      /\ sdsalloc(r) <= Capacity[r.type] /\ Capacity[r.type] \in Nat
  BY OpenTypes
<1>2. /\ p \in Blocks /\ p.type = r.type /\ p.alloc = r.alloc /\ p.room = r.room
      /\ Len(p.buf) = r.len + Len(t)
      /\ \A i \in 1..r.len : p.buf[i] = r.buf[i]
      /\ \A i \in 1..Len(t) : p.buf[r.len + i] = t[i]
  BY <1>1, PutBytes
<1>3. n <= Capacity[p.type]
  BY <1>1, <1>2
<1> HIDE DEF p
<1>4. /\ c \in Blocks /\ c.type = r.type /\ c.alloc = r.alloc /\ c.room = r.room
      /\ c.len = n /\ c.buf = p.buf
  BY <1>2, <1>3, Headers
<1> HIDE DEF c
<1>5. sdsalloc(c) = (IF r.type = SDS_TYPE_5 THEN n ELSE r.alloc)
  BY <1>4 DEF sdsalloc
<1>6. sdsalloc(r) = (IF r.type = SDS_TYPE_5 THEN r.len ELSE r.alloc)
  BY DEF sdsalloc
<1>7. c.len <= sdsalloc(c) /\ sdsalloc(c) <= sdsalloc(r) /\ sdsalloc(c) \in Nat
  BY <1>1, <1>4, <1>5, <1>6
<1>8. sdsalloc(c) <= Capacity[c.type] /\ sdsalloc(c) < c.room
  BY <1>1, <1>4, <1>7
<1>9. c.len <= Len(c.buf) /\ Len(c.buf) <= c.room
  <2>1. Len(c.buf) = n
    BY <1>2, <1>4
  <2> QED
    BY <1>1, <1>4, <2>1
<1>10. Open(c)
  BY <1>4, <1>7, <1>8, <1>9, OpenWhen
<1>11. WrittenAt(c, r, r.len, t, n)
  BY <1>2, <1>4 DEF WrittenAt
<1> QED
  BY <1>10, <1>11 DEF c, p

LEMMA WrittenBytes ==
  ASSUME NEW d \in Directives
  PROVE  /\ Written(d) \in Seq(Byte)
         /\ d.kind \notin {"%s", "%i"} => Len(Written(d)) <= 1
<1>1. Byte = 0..255 /\ LLONG_MIN \in Int
  BY FormatAssumption
<1>2. CASE d \in [kind : {"lit", "%%"}, text : {<<c>> : c \in Byte}]
  <2>1. PICK c \in Byte : d.text = <<c>> /\ d.kind \in {"lit", "%%"}
    BY <1>2
  <2>2. Written(d) = <<c>>
    BY <2>1 DEF Written
  <2>3. <<c>> \in Seq(Byte) /\ Len(<<c>>) = 1
    OBVIOUS
  <2> QED
    BY <2>2, <2>3
<1>3. CASE d \in [kind : {"%s"}, text : Seq(Byte)]
  BY <1>3 DEF Written
<1>4. CASE d \in [kind : {"%i"}, number : LLONG_MIN..(-(LLONG_MIN + 1))]
  <2>1. d.kind = "%i" /\ d.number \in Int
    BY <1>1, <1>4
  <2>2. Written(d) = sdsll2str(d.number)
    BY <2>1 DEF Written
  <2> QED
    BY <1>1, <2>1, <2>2, NumberIsWritten
<1>5. CASE d = Lone
  BY <1>5 DEF Written, Lone
<1> QED
  BY <1>2, <1>3, <1>4, <1>5 DEF Directives

LEMMA DirectiveOpen ==
  ASSUME NEW b, Open(b), NEW d \in Directives,
         b.len + Len(Written(d)) <= MaxLen, NEW w \in Nat, Roomy(w), MaxLen + 1 <= w
  PROVE  /\ Open(Directive(b, d))
         /\ WrittenAt(Directive(b, d), b, b.len, Written(d), b.len + Len(Written(d)))
<1> DEFINE one == IF sdsavail(b) = 0 THEN sdsMakeRoomFor(b, 1) ELSE b
           t == Written(d)
           n == Len(Written(d))
           r == IF d.kind \in {"%s", "%i"} /\ sdsavail(one) < n
                THEN sdsMakeRoomFor(one, n) ELSE one
           c == Directive(b, d)
<1>1. t \in Seq(Byte) /\ (d.kind \notin {"%s", "%i"} => n <= 1)
  BY WrittenBytes
<1>2. n \in Nat /\ n = Len(t)
  BY <1>1, LenProperties
<1>3. b.len \in Nat /\ MaxLen \in Nat /\ sdsavail(b) \in Nat /\ b.len + sdsavail(b) = sdsalloc(b)
      /\ b.len <= MaxLen /\ sdsalloc(b) \in Nat
  BY OpenTypes
<1>4. Open(one) /\ one.len = b.len /\ SameBytes(one, b) /\ b.len + 1 <= sdsalloc(one)
  <2>1. CASE sdsavail(b) = 0
    <3>1. b.len + 1 <= w /\ 1 \in Nat
      BY <1>3
    <3> QED
      BY <2>1, <3>1, MakeRoomOpen
  <2>2. CASE sdsavail(b) # 0
    <3>1. SameBytes(b, b)
      BY DEF SameBytes
    <3> QED
      BY <1>3, <2>2, <3>1
  <2> QED
    BY <2>1, <2>2
<1>5. c = sdssetlen(Put(r, r.len, t), r.len + n)
  BY DEF Directive
<1> HIDE DEF one, c
<1>6. Open(r) /\ r.len = b.len /\ SameBytes(r, b) /\ b.len + n <= sdsalloc(r)
  <2>1. CASE d.kind \in {"%s", "%i"} /\ sdsavail(one) < n
    <3>1. r = sdsMakeRoomFor(one, n)
      BY <2>1
    <3>2. one.len + n <= w
      BY <1>2, <1>3, <1>4
    <3> HIDE DEF r
    <3>3. /\ Open(r) /\ r.len = one.len /\ one.len + n <= sdsalloc(r) /\ SameBytes(r, one)
      BY <1>2, <1>4, <3>1, <3>2, MakeRoomOpen
    <3>4. SameBytes(r, b)
      BY <1>4, <3>3 DEF SameBytes
    <3> QED
      BY <1>4, <3>3, <3>4
  <2>2. CASE ~(d.kind \in {"%s", "%i"} /\ sdsavail(one) < n)
    <3>1. r = one
      BY <2>2
    <3>2. b.len + n <= sdsalloc(one)
      <4>1. CASE d.kind \in {"%s", "%i"}
        <5>1. sdsavail(one) \in Nat /\ one.len + sdsavail(one) = sdsalloc(one)
          BY <1>4, OpenTypes
        <5>2. ~(sdsavail(one) < n)
          BY <2>2, <4>1
        <5> QED
          BY <1>2, <1>3, <1>4, <5>1, <5>2
      <4>2. CASE d.kind \notin {"%s", "%i"}
        <5>1. n <= 1
          BY <1>1, <4>2
        <5>2. sdsalloc(one) \in Nat
          BY <1>4, OpenTypes
        <5> QED
          BY <1>2, <1>3, <1>4, <5>1, <5>2
      <4> QED
        BY <4>1, <4>2
    <3> HIDE DEF r
    <3> QED
      BY <1>4, <3>1, <3>2
  <2> QED
    BY <2>1, <2>2
<1> HIDE DEF r
<1> DEFINE m == b.len + n
<1>7. m \in Nat /\ m = r.len + Len(t) /\ m <= sdsalloc(r) /\ m <= MaxLen
  BY <1>2, <1>3, <1>6
<1>8. c = sdssetlen(Put(r, r.len, t), m)
  BY <1>5, <1>6
<1> HIDE DEF m, n, t
<1>9. Open(c) /\ WrittenAt(c, r, r.len, t, m)
  BY <1>1, <1>6, <1>7, <1>8, WriteOpen
<1>10. WrittenAt(c, b, b.len, t, m)
  BY <1>6, <1>9 DEF WrittenAt, SameBytes
<1> QED
  BY <1>9, <1>10 DEF c, m, n, t

LEMMA WrittenHas ==
  ASSUME NEW b, NEW u \in Seq(Byte), HasBytes(b, u), NEW t \in Seq(Byte), NEW c,
         WrittenAt(c, b, b.len, t, b.len + Len(t))
  PROVE  HasBytes(c, u \o t)
<1>1. PICK m \in Nat, k \in Nat : m = Len(u) /\ k = Len(t)
  BY LenProperties
<1>2. b.len = m /\ \A i \in 1..m : b.buf[i] = u[i]
  BY <1>1 DEF HasBytes
<1>3. /\ c.len = m + k
      /\ \A i \in 1..m : c.buf[i] = b.buf[i]
      /\ \A i \in 1..k : c.buf[m + i] = t[i]
  BY <1>1, <1>2 DEF WrittenAt
<1> DEFINE v == u \o t
<1>4. /\ Len(v) = m + k /\ \A i \in 1..m : v[i] = u[i]
      /\ \A i \in 1..k : v[m + i] = t[i]
  BY <1>1, SeqJoin
<1> HIDE DEF v
<1>5. \A i \in 1..(m + k) : c.buf[i] = v[i]
  <2> TAKE i \in 1..(m + k)
  <2>1. CASE i <= m
    <3>1. i \in 1..m
      BY <2>1
    <3> QED
      BY <1>2, <1>3, <1>4, <3>1
  <2>2. CASE i > m
    <3>1. i - m \in 1..k /\ m + (i - m) = i
      BY <2>2
    <3>2. c.buf[m + (i - m)] = t[i - m] /\ v[m + (i - m)] = t[i - m]
      BY <1>3, <1>4, <3>1
    <3> QED
      BY <3>1, <3>2
  <2>3. i <= m \/ i > m
    OBVIOUS
  <2> QED
    BY <2>1, <2>2, <2>3, Zenon
<1>6. HasBytes(c, v)
  BY <1>3, <1>4, <1>5 DEF HasBytes
<1> QED
  BY <1>6 DEF v

\* u with the first parts of w behind it.
Follows(h, u, w, n) ==
  /\ h[0] = u
  /\ \A i \in 1..n : h[i] = h[i - 1] \o w[i] /\ Len(h[i]) = Len(h[i - 1]) + Len(w[i])
  /\ \A i \in 0..n : Len(h[i]) <= Len(h[n])
  /\ h[n] = u \o FlattenSeq(w)

LEMMA PartsFollow ==
  ASSUME NEW u \in Seq(Byte), NEW w \in Seq(Seq(Byte)), NEW n \in Nat, n = Len(w)
  PROVE  \E h \in [0..n -> Seq(Byte)] : Follows(h, u, w, n)
<1>1. PICK f \in [0..n -> Seq(Byte)] : Joined(f, w) /\ FlattenSeq(w) = f[n]
  BY FlattenIs
<1>2. f[0] = <<>> /\ \A i \in 1..n : f[i] = f[i - 1] \o w[i]
  BY <1>1 DEF Joined
<1>3. \A i \in 1..n : Starts(f[i], f[n])
  <2>1. Lie(w, n, f)
    BY <1>1, PartsLie
  <2> QED
    BY <2>1, Zenon DEF Lie
<1> DEFINE h == [i \in 0..n |-> u \o f[i]]
<1>4. \A i \in 0..n : /\ h[i] = u \o f[i] /\ h[i] \in Seq(Byte)
                      /\ Len(h[i]) = Len(u) + Len(f[i]) /\ f[i] \in Seq(Byte)
  <2> TAKE i \in 0..n
  <2>1. f[i] \in Seq(Byte)
    OBVIOUS
  <2>2. u \o f[i] \in Seq(Byte) /\ Len(u \o f[i]) = Len(u) + Len(f[i])
    BY <2>1, SeqJoin
  <2>3. h[i] = u \o f[i]
    OBVIOUS
  <2> HIDE DEF h
  <2> QED
    BY <2>1, <2>2, <2>3, Zenon
<1>5. h = [i \in 0..n |-> h[i]]
  OBVIOUS
<1> HIDE DEF h
<1>6. h \in [0..n -> Seq(Byte)]
  BY <1>4, <1>5
<1>7. h[0] = u
  <2>1. 0 \in 0..n
    OBVIOUS
  <2>2. h[0] = u \o <<>>
    BY <1>2, <1>4, <2>1
  <2> QED
    BY <2>2, ConcatEmptySeq
<1>8. \A i \in 1..n : h[i] = h[i - 1] \o w[i] /\ Len(h[i]) = Len(h[i - 1]) + Len(w[i])
  <2> TAKE i \in 1..n
  <2>1. i - 1 \in 0..n /\ i \in 0..n
    OBVIOUS
  <2>8. f[i - 1] \in Seq(Byte) /\ w[i] \in Seq(Byte)
    <3>1. f[i - 1] \in Seq(Byte)
      BY <2>1
    <3>2. w[i] \in Seq(Byte)
      BY SeqElements
    <3> QED
      BY <3>1, <3>2, Zenon
  <2>2. PICK x \in Seq(Byte), y \in Seq(Byte) : x = f[i - 1] /\ y = w[i]
    BY <2>8, Zenon
  <2>3. h[i - 1] = u \o x /\ h[i] = u \o (x \o y)
    BY <1>2, <1>4, <2>1, <2>2
  <2>4. (u \o x) \o y = u \o (x \o y)
    BY JoinsOfBytes
  <2>5. h[i] = h[i - 1] \o y
    BY <2>3, <2>4, Zenon
  <2>6. h[i - 1] \in Seq(Byte)
    BY <1>4, <2>1
  <2>7. Len(h[i - 1] \o y) = Len(h[i - 1]) + Len(y)
    BY <2>6, SeqJoin
  <2> QED
    BY <2>2, <2>5, <2>7, Zenon
<1>9. \A i \in 0..n : Len(h[i]) <= Len(h[n])
  <2> TAKE i \in 0..n
  <2>1. n \in 0..n
    OBVIOUS
  <2>2. Len(f[i]) \in Nat /\ Len(f[n]) \in Nat /\ Len(u) \in Nat
    BY <1>4, <2>1, SeqElements
  <2>3. Len(f[i]) <= Len(f[n])
    <3>1. CASE i = 0
      BY <1>2, <2>2, <3>1
    <3>2. CASE i # 0
      <4>1. i \in 1..n
        BY <3>2
      <4> QED
        BY <1>3, <4>1 DEF Starts
    <3> QED
      BY <3>1, <3>2
  <2>4. Len(h[i]) = Len(u) + Len(f[i]) /\ Len(h[n]) = Len(u) + Len(f[n])
    BY <1>4, <2>1
  <2> QED
    BY <2>2, <2>3, <2>4
<1>10. h[n] = u \o FlattenSeq(w)
  <2>1. n \in 0..n
    OBVIOUS
  <2> QED
    BY <1>1, <1>4, <2>1
<1> QED
  BY <1>6, <1>7, <1>8, <1>9, <1>10, Zenon DEF Follows

\* The blocks of a call that appends with sdscatlen.
IsAppend(b, w, f) ==
  f = [n \in 0..Len(w) |-> IF n = 0 THEN b ELSE sdscatlen(f[n - 1], w[n])]

LEMMA AppendIsChosen ==
  ASSUME NEW b, NEW w
  PROVE  AppendBlocks(b, w) = CHOOSE f : IsAppend(b, w, f)
BY Zenon DEF AppendBlocks, IsAppend

LEMMA AppendEnds ==
  ASSUME NEW b, Good(b), NEW w \in Seq(Seq(Byte)), NEW n \in Nat, n = Len(w),
         b.len + Len(FlattenSeq(w)) <= MaxLen
  PROVE  LET c == AppendBlocks(b, w)[n]
         IN  Good(c) /\ Content(c) = Content(b) \o FlattenSeq(w)
<1> DEFINE u == Content(b)
<1>1. u \in Seq(Byte) /\ Len(u) = b.len /\ \A i \in 1..b.len : u[i] = b.buf[i]
  BY ContentBytes
<1>2. HasBytes(b, u)
  BY <1>1 DEF HasBytes
<1> HIDE DEF u
<1>3. PICK h \in [0..n -> Seq(Byte)] : Follows(h, u, w, n)
  BY <1>1, PartsFollow
<1>4. /\ h[0] = u
      /\ \A i \in 1..n : h[i] = h[i - 1] \o w[i] /\ Len(h[i]) = Len(h[i - 1]) + Len(w[i])
      /\ \A i \in 0..n : Len(h[i]) <= Len(h[n])
      /\ h[n] = u \o FlattenSeq(w)
  BY <1>3, Zenon DEF Follows
<1>5. \A i \in 0..n : Len(h[i]) <= MaxLen /\ Len(h[i]) \in Nat
  <2> TAKE i \in 0..n
  <2>1. FlattenSeq(w) \in Seq(Byte)
    <3>1. PICK f \in [0..n -> Seq(Byte)] : FlattenSeq(w) = f[n]
      BY FlattenIs
    <3>2. n \in 0..n
      OBVIOUS
    <3> QED
      BY <3>1, <3>2
  <2>2. Len(u \o FlattenSeq(w)) = Len(u) + Len(FlattenSeq(w))
    BY <1>1, <2>1, SeqJoin
  <2>3. Len(h[n]) = b.len + Len(FlattenSeq(w))
    BY <1>1, <1>4, <2>2, Zenon
  <2>4. n \in 0..n
    OBVIOUS
  <2>5. Len(h[i]) \in Nat /\ Len(h[n]) \in Nat
    BY <2>4, SeqElements
  <2>6. MaxLen \in Nat
    BY SdsAssumption
  <2>7. Len(h[i]) <= Len(h[n]) /\ Len(h[n]) <= MaxLen
    BY <1>4, <2>3
  <2> QED
    BY <2>5, <2>6, <2>7
<1> DEFINE D == [i \in 0..n |-> {c \in Blocks : Good(c) /\ HasBytes(c, h[i])}]
           step == [x \in (1..n) \X Blocks |-> sdscatlen(x[2], w[x[1]])]
<1>6. \A i \in 0..n : \A c : c \in D[i] <=> c \in Blocks /\ Good(c) /\ HasBytes(c, h[i])
  OBVIOUS
<1>7. \A i \in 1..n : \A c \in Blocks : step[<<i, c>>] = sdscatlen(c, w[i])
  OBVIOUS
<1> HIDE DEF D, step
<1>8. ASSUME NEW i \in 1..n, NEW c, Good(c), HasBytes(c, h[i - 1])
      PROVE  Good(sdscatlen(c, w[i])) /\ HasBytes(sdscatlen(c, w[i]), h[i])
  <2>1. i - 1 \in 0..n /\ i \in 0..n
    OBVIOUS
  <2>8. h[i - 1] \in Seq(Byte)
    BY <2>1
  <2>9. w[i] \in Seq(Byte)
    BY SeqElements
  <2>2. PICK x \in Seq(Byte), y \in Seq(Byte) : x = h[i - 1] /\ y = w[i]
    BY <2>8, <2>9, Zenon
  <2>3. c.len = Len(x) /\ HasBytes(c, x)
    BY <1>8, <2>2 DEF HasBytes
  <2>4. h[i] = x \o y /\ Len(h[i]) = Len(x) + Len(y)
    BY <1>4, <2>2
  <2>5. c.len + Len(y) <= MaxLen
    BY <1>5, <2>1, <2>3, <2>4
  <2>6. Good(sdscatlen(c, y)) /\ WrittenAt(sdscatlen(c, y), c, c.len, y, c.len + Len(y))
    BY <1>8, <2>5, CatGood
  <2>7. HasBytes(sdscatlen(c, y), x \o y)
    BY <2>3, <2>6, WrittenHas
  <2> QED
    BY <2>2, <2>4, <2>6, <2>7, Zenon
<1>9. ASSUME NEW c, Good(c) PROVE c \in Blocks
  BY <1>9, GoodTypes
<1>10. Climbs(D, n, step)
  <2> SUFFICES ASSUME NEW i \in 1..n, NEW c \in D[i - 1] PROVE step[<<i, c>>] \in D[i]
    BY Zenon DEF Climbs
  <2>1. i - 1 \in 0..n /\ i \in 0..n
    OBVIOUS
  <2>2. c \in Blocks /\ Good(c) /\ HasBytes(c, h[i - 1])
    BY <1>6, <2>1
  <2>3. Good(sdscatlen(c, w[i])) /\ HasBytes(sdscatlen(c, w[i]), h[i])
    BY <1>8, <2>2
  <2>4. step[<<i, c>>] = sdscatlen(c, w[i])
    BY <1>7, <2>2
  <2>5. sdscatlen(c, w[i]) \in Blocks
    BY <1>9, <2>3
  <2> QED
    BY <1>6, <2>1, <2>3, <2>4, <2>5, Zenon
<1>11. b \in D[0]
  <2>1. 0 \in 0..n
    OBVIOUS
  <2> QED
    BY <1>2, <1>4, <1>6, <1>9, <2>1
<1>12. PICK g : InSteps(g, n, b, step)
  BY StepsExist
<1>13. /\ \A i \in 0..n : g[i] \in D[i]
       /\ g[0] = b /\ \A i \in 1..n : g[i] = step[<<i, g[i - 1]>>]
  BY <1>10, <1>11, <1>12, StepsLead
<1>14. IsAppend(b, w, g)
  <2>1. \A i \in 0..n : g[i] = IF i = 0 THEN b ELSE sdscatlen(g[i - 1], w[i])
    <3> TAKE i \in 0..n
    <3>1. CASE i = 0
      BY <1>13, <3>1
    <3>2. CASE i # 0
      <4>1. i \in 1..n /\ i - 1 \in 0..n
        BY <3>2
      <4>2. g[i - 1] \in Blocks
        BY <1>6, <1>13, <4>1
      <4> QED
        BY <1>7, <1>13, <3>2, <4>1, <4>2
    <3> QED
      BY <3>1, <3>2
  <2>2. g = [i \in 0..n |-> g[i]]
    <3>1. g = [i \in 0..n |-> IF i = 0 THEN b ELSE step[<<i, g[i - 1]>>]]
      BY <1>12, Zenon DEF InSteps
    <3> QED
      BY <3>1
  <2>3. g = [i \in 0..n |-> IF i = 0 THEN b ELSE sdscatlen(g[i - 1], w[i])]
    BY <2>1, <2>2
  <2> QED
    BY <2>3, Zenon DEF IsAppend
<1> DEFINE after == AppendBlocks(b, w)
<1>15. IsAppend(b, w, after)
  BY <1>14, AppendIsChosen, Zenon
<1> HIDE DEF after
<1>16. after = [i \in 0..n |-> IF i = 0 THEN b ELSE sdscatlen(after[i - 1], w[i])]
  BY <1>15, Zenon DEF IsAppend
<1>17. after[0] = b /\ \A i \in 1..n : after[i] = sdscatlen(after[i - 1], w[i])
  <2>1. after[0] = b
    <3>1. 0 \in 0..n
      OBVIOUS
    <3> QED
      BY <1>16, <3>1
  <2>2. \A i \in 1..n : after[i] = sdscatlen(after[i - 1], w[i])
    <3> TAKE i \in 1..n
    <3>1. i \in 0..n /\ i # 0
      OBVIOUS
    <3> QED
      BY <1>16, <3>1
  <2> QED
    BY <2>1, <2>2
<1> DEFINE T == {i \in 0..n : Good(after[i]) /\ HasBytes(after[i], h[i])}
<1>18. 0 \in T
  BY <1>2, <1>4, <1>17
<1>19. ASSUME NEW i \in 1..n, i - 1 \in T PROVE i \in T
  <2>1. Good(after[i - 1]) /\ HasBytes(after[i - 1], h[i - 1]) /\ i \in 0..n
    BY <1>19
  <2>2. Good(sdscatlen(after[i - 1], w[i])) /\ HasBytes(sdscatlen(after[i - 1], w[i]), h[i])
    BY <1>8, <2>1
  <2> QED
    BY <1>17, <2>1, <2>2
<1> HIDE DEF T
<1>20. n \in T
  <2>1. \A i \in 0..n : i \in T
    BY <1>18, <1>19, CountUp
  <2>2. n \in 0..n
    OBVIOUS
  <2> QED
    BY <2>1, <2>2
<1>21. Good(after[n]) /\ HasBytes(after[n], h[n]) /\ h[n] \in Seq(Byte)
  <2>1. n \in 0..n
    OBVIOUS
  <2> QED
    BY <1>20, <2>1 DEF T
<1>22. Content(after[n]) = h[n]
  BY <1>21, HasContent
<1> QED
  BY <1>4, <1>21, <1>22, Zenon DEF after, u

\* The blocks of sdscatfmt.
IsFormat(b, fmt, f) ==
  f = [n \in 0..Len(fmt) |-> IF n = 0 THEN FormatRoom(b, fmt) ELSE Directive(f[n - 1], fmt[n])]

LEMMA FormatIsChosen ==
  ASSUME NEW b, NEW fmt, NEW n \in Nat, n = Len(fmt)
  PROVE  FormatBlocks(b, fmt)[n + 1] = (CHOOSE f : IsFormat(b, fmt, f))[n]
<1> DEFINE after == CHOOSE f : IsFormat(b, fmt, f)
<1>1. FormatBlocks(b, fmt) = [i \in 0..(Len(fmt) + 1) |-> IF i = 0 THEN b ELSE after[i - 1]]
  BY Zenon DEF FormatBlocks, IsFormat
<1> HIDE DEF after
<1>2. n + 1 \in 0..(Len(fmt) + 1) /\ n + 1 # 0 /\ (n + 1) - 1 = n
  OBVIOUS
<1>3. FormatBlocks(b, fmt)[n + 1] = after[(n + 1) - 1]
  BY <1>1, <1>2
<1> QED
  BY <1>2, <1>3 DEF after

LEMMA FormatEnds ==
  ASSUME NEW b, Good(b), NEW fmt \in Formats, NEW n \in Nat, n = Len(fmt),
         b.len + Len(Expansion(fmt)) <= MaxLen
  PROVE  LET c == FormatBlocks(b, fmt)[n + 1]
         IN  Good(PutNul(c, c.len)) /\ Content(PutNul(c, c.len)) = Content(b) \o Expansion(fmt)
<1>1. fmt \in Seq(Directives)
  BY FormatAssumption
<1>2. \A i \in 1..n : fmt[i] \in Directives
  BY <1>1, SeqElements
<1> DEFINE w == [i \in 1..Len(fmt) |-> Written(fmt[i])]
           size == strlen(fmt)
<1>3. Expansion(fmt) = FlattenSeq(w)
  BY DEF Expansion
<1>4. w \in Seq(Seq(Byte)) /\ Len(w) = n /\ \A i \in 1..n : w[i] = Written(fmt[i])
  <2>1. \A i \in 1..n : Written(fmt[i]) \in Seq(Byte)
    BY <1>2, WrittenBytes
  <2> QED
    BY <2>1
<1>6. /\ size \in Nat /\ n <= size
  <2> DEFINE K == {i \in DOMAIN fmt : fmt[i].kind \in {"%s", "%i", "%%"}}
  <2>1. Cardinality(K) \in Nat
    <3>1. IsFiniteSet(1..n)
      BY FS_Interval
    <3>2. K \subseteq 1..n
      BY <1>1
    <3> HIDE DEF K
    <3>3. IsFiniteSet(K)
      BY <3>1, <3>2, FS_Subset
    <3> QED
      BY <3>3, FS_CardinalityType
  <2>2. size = n + Cardinality(K)
    BY DEF strlen
  <2> HIDE DEF K, size
  <2> QED
    BY <2>1, <2>2
<1>7. 4 * (MaxLen + size) <= Capacity[4] /\ 2 * (MaxLen + size) + SDS_MAX_PREALLOC <= Capacity[4]
  BY FormatAssumption
<1> HIDE DEF size, w
<1>8. /\ MaxLen \in Nat /\ b.len \in Nat /\ b.len <= MaxLen /\ SDS_MAX_PREALLOC \in Nat
      /\ Capacity[4] \in Nat
  BY GoodTypes, SdsAssumption DEF Types
<1> DEFINE W == 2 * (MaxLen + size)
<1>9. W \in Nat /\ Roomy(W) /\ b.len + (b.len + 2 * size) <= W /\ b.len + 2 * size \in Nat
      /\ (n # 0 => MaxLen + 1 <= W)
  BY <1>6, <1>7, <1>8 DEF Roomy
<1> HIDE DEF W
<1> DEFINE u == Content(b)
<1>10. u \in Seq(Byte) /\ Len(u) = b.len /\ \A i \in 1..b.len : u[i] = b.buf[i]
  BY ContentBytes
<1>11. HasBytes(b, u)
  BY <1>10 DEF HasBytes
<1> HIDE DEF u
<1>12. PICK h \in [0..n -> Seq(Byte)] : Follows(h, u, w, n)
  BY <1>4, <1>10, PartsFollow
<1>13. /\ h[0] = u
       /\ \A i \in 1..n : h[i] = h[i - 1] \o w[i] /\ Len(h[i]) = Len(h[i - 1]) + Len(w[i])
       /\ \A i \in 0..n : Len(h[i]) <= Len(h[n])
       /\ h[n] = u \o FlattenSeq(w)
  BY <1>12, Zenon DEF Follows
<1>14. \A i \in 0..n : Len(h[i]) <= MaxLen /\ Len(h[i]) \in Nat
  <2> TAKE i \in 0..n
  <2>1. FlattenSeq(w) \in Seq(Byte)
    <3>1. PICK f \in [0..Len(w) -> Seq(Byte)] : FlattenSeq(w) = f[Len(w)]
      BY <1>4, FlattenIs
    <3>2. n \in 0..n /\ Len(w) = n
      BY <1>4
    <3> QED
      BY <3>1, <3>2
  <2>2. Len(u \o FlattenSeq(w)) = Len(u) + Len(FlattenSeq(w))
    BY <1>10, <2>1, SeqJoin
  <2>3. Len(h[n]) = b.len + Len(Expansion(fmt))
    BY <1>3, <1>10, <1>13, <2>2, Zenon
  <2>4. n \in 0..n
    OBVIOUS
  <2>5. Len(h[i]) \in Nat /\ Len(h[n]) \in Nat
    BY <2>4, SeqElements
  <2>6. Len(h[i]) <= Len(h[n]) /\ Len(h[n]) <= MaxLen
    BY <1>13, <2>3
  <2> QED
    BY <1>8, <2>5, <2>6
<1> DEFINE D == [i \in 0..n |-> {c \in Blocks : Open(c) /\ HasBytes(c, h[i])}]
           step == [x \in (1..n) \X Blocks |-> Directive(x[2], fmt[x[1]])]
           room == FormatRoom(b, fmt)
<1>15. \A i \in 0..n : \A c : c \in D[i] <=> c \in Blocks /\ Open(c) /\ HasBytes(c, h[i])
  OBVIOUS
<1>16. \A i \in 1..n : \A c \in Blocks : step[<<i, c>>] = Directive(c, fmt[i])
  OBVIOUS
<1>17. room = sdsMakeRoomFor(b, b.len + 2 * size)
  BY DEF FormatRoom, size
<1> HIDE DEF D, step, room
<1>18. ASSUME NEW i \in 1..n, NEW c, Open(c), HasBytes(c, h[i - 1])
       PROVE  Open(Directive(c, fmt[i])) /\ HasBytes(Directive(c, fmt[i]), h[i])
  <2>1. i - 1 \in 0..n /\ i \in 0..n /\ n # 0
    OBVIOUS
  <2>10. h[i - 1] \in Seq(Byte)
    BY <2>1
  <2>11. w[i] \in Seq(Byte)
    BY <1>4, SeqElements
  <2>2. PICK x \in Seq(Byte), y \in Seq(Byte) : x = h[i - 1] /\ y = w[i]
    BY <2>10, <2>11, Zenon
  <2>3. c.len = Len(x) /\ HasBytes(c, x)
    BY <1>18, <2>2 DEF HasBytes
  <2>4. h[i] = x \o y /\ Len(h[i]) = Len(x) + Len(y)
    BY <1>13, <2>2
  <2>5. c.len + Len(y) <= MaxLen
    BY <1>14, <2>1, <2>3, <2>4
  <2>6. PICK d \in Directives : d = fmt[i] /\ Written(d) = y
    BY <1>2, <1>4, <2>2
  <2>7. c.len + Len(Written(d)) <= MaxLen
    BY <2>5, <2>6
  <2>8. /\ Open(Directive(c, d))
        /\ WrittenAt(Directive(c, d), c, c.len, Written(d), c.len + Len(Written(d)))
    BY <1>9, <1>18, <2>1, <2>7, DirectiveOpen
  <2>9. HasBytes(Directive(c, d), x \o y)
    BY <2>3, <2>6, <2>8, WrittenHas
  <2> QED
    BY <2>4, <2>6, <2>8, <2>9, Zenon
<1>19. ASSUME NEW c, Open(c) PROVE c \in Blocks
  BY <1>19, OpenTypes
<1>20. Climbs(D, n, step)
  <2> SUFFICES ASSUME NEW i \in 1..n, NEW c \in D[i - 1] PROVE step[<<i, c>>] \in D[i]
    BY Zenon DEF Climbs
  <2>1. i - 1 \in 0..n /\ i \in 0..n
    OBVIOUS
  <2>2. c \in Blocks /\ Open(c) /\ HasBytes(c, h[i - 1])
    BY <1>15, <2>1
  <2>3. Open(Directive(c, fmt[i])) /\ HasBytes(Directive(c, fmt[i]), h[i])
    BY <1>18, <2>2
  <2>4. step[<<i, c>>] = Directive(c, fmt[i])
    BY <1>16, <2>2
  <2>5. Directive(c, fmt[i]) \in Blocks
    BY <1>19, <2>3
  <2> QED
    BY <1>15, <2>1, <2>3, <2>4, <2>5, Zenon
<1>21. Open(room) /\ HasBytes(room, h[0])
  <2>1. Open(b)
    BY GoodIsOpen
  <2>2. Open(room) /\ room.len = b.len /\ SameBytes(room, b)
    BY <1>9, <1>17, <2>1, MakeRoomOpen
  <2>3. HasBytes(room, u)
    BY <1>11, <2>2 DEF HasBytes, SameBytes
  <2> QED
    BY <1>13, <2>2, <2>3
<1>22. room \in D[0]
  <2>1. 0 \in 0..n
    OBVIOUS
  <2> QED
    BY <1>15, <1>19, <1>21, <2>1
<1>23. PICK g : InSteps(g, n, room, step)
  BY StepsExist
<1>24. /\ \A i \in 0..n : g[i] \in D[i]
       /\ g[0] = room /\ \A i \in 1..n : g[i] = step[<<i, g[i - 1]>>]
  BY <1>20, <1>22, <1>23, StepsLead
<1>25. IsFormat(b, fmt, g)
  <2>1. \A i \in 0..n : g[i] = IF i = 0 THEN room ELSE Directive(g[i - 1], fmt[i])
    <3> TAKE i \in 0..n
    <3>1. CASE i = 0
      BY <1>24, <3>1
    <3>2. CASE i # 0
      <4>1. i \in 1..n /\ i - 1 \in 0..n
        BY <3>2
      <4>2. g[i - 1] \in Blocks
        BY <1>15, <1>24, <4>1
      <4> QED
        BY <1>16, <1>24, <3>2, <4>1, <4>2
    <3> QED
      BY <3>1, <3>2
  <2>2. g = [i \in 0..n |-> g[i]]
    <3>1. g = [i \in 0..n |-> IF i = 0 THEN room ELSE step[<<i, g[i - 1]>>]]
      BY <1>23, Zenon DEF InSteps
    <3> QED
      BY <3>1
  <2>3. g = [i \in 0..n |-> IF i = 0 THEN room ELSE Directive(g[i - 1], fmt[i])]
    BY <2>1, <2>2
  <2> QED
    BY <2>3, Zenon DEF IsFormat, room
<1> DEFINE after == CHOOSE f : IsFormat(b, fmt, f)
<1>26. IsFormat(b, fmt, after)
  BY <1>25, Zenon
<1>27. FormatBlocks(b, fmt)[n + 1] = after[n]
  BY FormatIsChosen
<1> HIDE DEF after
<1>28. after = [i \in 0..n |-> IF i = 0 THEN room ELSE Directive(after[i - 1], fmt[i])]
  BY <1>26, Zenon DEF IsFormat, room
<1>29. after[0] = room /\ \A i \in 1..n : after[i] = Directive(after[i - 1], fmt[i])
  BY <1>28
<1> DEFINE T == {i \in 0..n : Open(after[i]) /\ HasBytes(after[i], h[i])}
<1>30. 0 \in T
  BY <1>21, <1>29
<1>31. ASSUME NEW i \in 1..n, i - 1 \in T PROVE i \in T
  <2>1. Open(after[i - 1]) /\ HasBytes(after[i - 1], h[i - 1]) /\ i \in 0..n
    BY <1>31
  <2>2. Open(Directive(after[i - 1], fmt[i])) /\ HasBytes(Directive(after[i - 1], fmt[i]), h[i])
    BY <1>18, <2>1
  <2> QED
    BY <1>29, <2>1, <2>2
<1> HIDE DEF T
<1>32. n \in T
  <2>1. \A i \in 0..n : i \in T
    BY <1>30, <1>31, CountUp
  <2>2. n \in 0..n
    OBVIOUS
  <2> QED
    BY <2>1, <2>2
<1> DEFINE c == after[n]
           z == PutNul(c, c.len)
<1>33. Open(c) /\ HasBytes(c, h[n]) /\ h[n] \in Seq(Byte)
  <2>1. n \in 0..n
    OBVIOUS
  <2> QED
    BY <1>32, <2>1 DEF T
<1> HIDE DEF c
<1>34. /\ c \in Blocks /\ c.len \in Nat /\ c.len <= Len(c.buf) /\ c.len <= MaxLen
       /\ c.len <= sdsalloc(c) /\ sdsalloc(c) < c.room /\ sdsalloc(c) \in Nat
       /\ c.room \in Nat /\ sdsalloc(c) <= Capacity[c.type]
  BY <1>33, OpenTypes
<1>35. /\ z \in Blocks /\ z.type = c.type /\ z.len = c.len /\ z.alloc = c.alloc
       /\ z.room = c.room /\ Len(z.buf) = c.len + 1
       /\ \A i \in 1..c.len : z.buf[i] = c.buf[i]
       /\ z.buf[c.len + 1] = NUL
  BY <1>34, PutNulBytes
<1> HIDE DEF z
<1>36. sdsalloc(z) = sdsalloc(c)
  BY <1>35 DEF sdsalloc
<1>37. Good(z)
  <2>1. z.len <= MaxLen /\ z.len <= sdsalloc(z) /\ sdsalloc(z) <= Capacity[z.type]
        /\ z.buf[z.len + 1] = NUL
    BY <1>34, <1>35, <1>36
  <2>2. sdsalloc(z) < z.room /\ z.len < Len(z.buf) /\ Len(z.buf) <= z.room
    BY <1>34, <1>35, <1>36
  <2> QED
    BY <1>35, <2>1, <2>2, GoodWhen
<1>38. HasBytes(z, h[n])
  BY <1>33, <1>35 DEF HasBytes
<1>39. Content(z) = h[n]
  BY <1>33, <1>37, <1>38, HasContent
<1>40. FormatBlocks(b, fmt)[n + 1] = c
  BY <1>27 DEF c
<1>41. Content(z) = u \o Expansion(fmt)
  BY <1>3, <1>13, <1>39, Zenon
<1> QED
  BY <1>37, <1>40, <1>41, Zenon DEF z, u

-----------------------------------------------------------------------------
(* The strings with the calls that append in pieces.                         *)

LEMMA BytesAreNumbers ==
  ASSUME NEW t \in Seq(Byte)
  PROVE  t \in Seq(0..255) /\ t \in Seq(Nat)
<1>1. \A i \in 1..Len(t) : t[i] \in Byte
  BY SeqElements
<1>2. \A i \in 1..Len(t) : t[i] \in 0..255
  BY <1>1, FormatAssumption
<1>3. t \in Seq(0..255)
  BY <1>2, SeqInto
<1>4. \A i \in 1..Len(t) : t[i] \in Nat
  <2>1. \A x \in 0..255 : x \in Nat
    OBVIOUS
  <2> QED
    BY <1>2, <2>1, Zenon
<1> QED
  BY <1>3, <1>4, SeqInto

\* A text of Text is printed with bytes.
LEMMA ReprTypes ==
  ASSUME NEW t \in Text
  PROVE  ReprPieces(t) \in Seq(Seq(Byte))
<1>1. t \in Seq(Byte)
  BY SdsAssumption
<1>2. PICK m \in Nat : m = Len(t)
  BY <1>1, SeqElements
<1>3. t \in Seq(0..255)
  BY <1>1, BytesAreNumbers
<1> DEFINE w == ReprPieces(t)
<1>4. w \in Seq(Seq(1..255))
  BY <1>2, <1>3, Printed
<1> HIDE DEF w
<1>5. ASSUME NEW v \in Seq(1..255) PROVE v \in Seq(Byte)
  <2>1. \A i \in 1..Len(v) : v[i] \in 1..255
    BY SeqElements
  <2>2. \A c \in 1..255 : c \in Byte
    BY FormatAssumption
  <2>3. \A i \in 1..Len(v) : v[i] \in Byte
    BY <2>1, <2>2, Zenon
  <2> QED
    BY <2>3, SeqInto
<1>6. \A i \in 1..Len(w) : w[i] \in Seq(1..255)
  BY <1>4, SeqElements
<1>7. \A i \in 1..Len(w) : w[i] \in Seq(Byte)
  BY <1>5, <1>6
<1>8. w \in Seq(Seq(Byte))
  BY <1>4, <1>7, SeqInto
<1> QED
  BY <1>8 DEF w

LEMMA FlatBytes ==
  ASSUME NEW w \in Seq(Seq(Byte))
  PROVE  FlattenSeq(w) \in Seq(Byte)
<1>1. PICK n \in Nat : n = Len(w)
  BY SeqElements
<1>2. PICK f \in [0..n -> Seq(Byte)] : FlattenSeq(w) = f[n]
  BY <1>1, FlattenIs
<1>3. n \in 0..n
  OBVIOUS
<1> QED
  BY <1>2, <1>3

LEMMA ExpansionBytes ==
  ASSUME NEW fmt \in Formats
  PROVE  Expansion(fmt) \in Seq(Byte)
<1>1. fmt \in Seq(Directives)
  BY FormatAssumption
<1>2. PICK n \in Nat : n = Len(fmt)
  BY <1>1, SeqElements
<1>3. \A i \in 1..n : fmt[i] \in Directives
  BY <1>1, <1>2, SeqElements
<1> DEFINE w == [i \in 1..Len(fmt) |-> Written(fmt[i])]
<1>4. w \in Seq(Seq(Byte))
  <2>1. \A i \in 1..n : Written(fmt[i]) \in Seq(Byte)
    BY <1>3, WrittenBytes
  <2> QED
    BY <1>2, <2>1
<1>5. Expansion(fmt) = FlattenSeq(w)
  BY DEF Expansion
<1> HIDE DEF w
<1> QED
  BY <1>4, <1>5, FlatBytes

-----------------------------------------------------------------------------
(* Every call is the call of the same name on a string of bytes.             *)

\* What a part of a block shows.
LEMMA CutContent ==
  ASSUME NEW b, Good(b), NEW c, Good(c), NEW i \in Nat \ {0}, NEW j \in Int, j <= b.len,
         PartOf(c, b, i, j)
  PROVE  Content(c) = SubSeq(Content(b), i, j)
<1> DEFINE t == Content(b)
           x == SubSeq(t, i, j)
<1>1. t \in Seq(Byte) /\ Len(t) = b.len /\ \A k \in 1..b.len : t[k] = b.buf[k]
  BY ContentBytes
<1>2. b.len \in Nat
  BY GoodTypes
<1> HIDE DEF t
<1>3. CASE i <= j
  <2> DEFINE a == i - 1
             d == j - i + 1
  <2>1. a \in Nat /\ d \in Nat /\ a + d <= b.len /\ a + 1 = i /\ a + d = j
    BY <1>2, <1>3
  <2>2. c.len = d /\ \A k \in 1..d : c.buf[k] = b.buf[a + k]
    BY <1>3 DEF PartOf
  <2> HIDE DEF a, d
  <2>3. SubSeq(t, a + 1, a + d) \in Seq(Byte) /\ Len(SubSeq(t, a + 1, a + d)) = d
        /\ \A k \in 1..d : SubSeq(t, a + 1, a + d)[k] = t[a + k]
    BY <1>1, <2>1, SeqPart
  <2>4. x \in Seq(Byte) /\ Len(x) = d /\ \A k \in 1..d : x[k] = t[a + k]
    BY <2>1, <2>3
  <2> HIDE DEF x
  <2>5. \A k \in 1..d : a + k \in 1..b.len
    BY <1>2, <2>1
  <2>6. \A k \in 1..d : c.buf[k] = x[k]
    BY <1>1, <2>2, <2>4, <2>5
  <2>7. HasBytes(c, x)
    BY <2>2, <2>4, <2>6 DEF HasBytes
  <2>8. Content(c) = x
    BY <2>4, <2>7, HasContent
  <2> QED
    BY <2>8 DEF x, t
<1>4. CASE ~(i <= j)
  <2>1. c.len = 0
    BY <1>4 DEF PartOf
  <2>2. x = <<>>
    BY <1>1, <1>4
  <2> HIDE DEF x
  <2>3. <<>> \in Seq(Byte) /\ Len(<<>>) = 0
    OBVIOUS
  <2>4. HasBytes(c, <<>>)
    BY <2>1, <2>3 DEF HasBytes
  <2>5. Content(c) = <<>>
    BY <2>3, <2>4, HasContent
  <2> QED
    BY <2>2, <2>5 DEF x, t
<1> QED
  BY <1>3, <1>4

LEMMA AddedContent ==
  ASSUME NEW b, Good(b), NEW c, Good(c), NEW t \in Seq(Byte),
         WrittenAt(c, b, b.len, t, b.len + Len(t))
  PROVE  Content(c) = Content(b) \o t
<1> DEFINE u == Content(b)
<1>1. u \in Seq(Byte) /\ Len(u) = b.len /\ \A k \in 1..b.len : u[k] = b.buf[k]
  BY ContentBytes
<1> HIDE DEF u
<1>2. HasBytes(b, u)
  BY <1>1 DEF HasBytes
<1>3. HasBytes(c, u \o t)
  BY <1>1, <1>2, WrittenHas
<1>4. u \o t \in Seq(Byte)
  BY <1>1, SeqJoin
<1>5. Content(c) = u \o t
  BY <1>3, <1>4, HasContent
<1> QED
  BY <1>5 DEF u

\* The string with zeros behind it, n bytes in all.
Padded(u, n) == [i \in 1..n |-> IF i <= Len(u) THEN u[i] ELSE NUL]

LEMMA PadContent ==
  ASSUME NEW b, Good(b), NEW n \in 0..MaxLen
  PROVE  Content(sdsgrowzero(b, n)) = Padded(Content(b), IF n <= b.len THEN b.len ELSE n)
<1> DEFINE u == Content(b)
           c == sdsgrowzero(b, n)
           m == IF n <= b.len THEN b.len ELSE n
           x == Padded(u, m)
<1>1. u \in Seq(Byte) /\ Len(u) = b.len /\ \A i \in 1..b.len : u[i] = b.buf[i]
  BY ContentBytes
<1>2. /\ Good(c) /\ c.len = m
      /\ \A i \in 1..b.len : c.buf[i] = b.buf[i]
      /\ \A i \in b.len + 1..n : c.buf[i] = NUL
  BY GrowzeroGood
<1>3. b.len \in Nat /\ n \in Nat /\ NUL \in Byte /\ MaxLen \in Nat
  BY GoodTypes, SdsAssumption
<1>4. \A i \in 1..m : i \in 1..b.len \/ (~(i <= b.len) /\ i \in b.len + 1..n)
  BY <1>3
<1>5. m \in Nat
  BY <1>3
<1> HIDE DEF u, c, m
<1>6. x = [i \in 1..m |-> IF i <= Len(u) THEN u[i] ELSE NUL]
  BY DEF Padded
<1> HIDE DEF x
<1>7. \A i \in 1..m : /\ (IF i <= Len(u) THEN u[i] ELSE NUL) = c.buf[i]
                      /\ c.buf[i] \in Byte
  <2> TAKE i \in 1..m
  <2>1. CASE i \in 1..b.len
    <3>1. i <= Len(u) /\ u[i] = c.buf[i]
      BY <1>1, <1>2, <2>1
    <3>2. u[i] \in Byte
      BY <1>1, <2>1, SeqElements
    <3> QED
      BY <3>1, <3>2
  <2>2. CASE ~(i <= b.len) /\ i \in b.len + 1..n
    BY <1>1, <1>2, <1>3, <2>2
  <2> QED
    BY <1>4, <2>1, <2>2
<1>8. x \in Seq(Byte) /\ Len(x) = m /\ \A i \in 1..m : x[i] = c.buf[i]
  BY <1>5, <1>6, <1>7
<1>9. HasBytes(c, x)
  BY <1>2, <1>8 DEF HasBytes
<1>10. Content(c) = x
  BY <1>2, <1>8, <1>9, HasContent
<1> QED
  BY <1>10 DEF x, c, u, m

MappedTo(u, from, to) == [i \in 1..Len(u) |-> IF u[i] = from THEN to ELSE u[i]]

LEMMA MapContent ==
  ASSUME NEW b, Good(b), NEW from, NEW to \in Byte
  PROVE  Content(sdsmapchars(b, from, to)) = MappedTo(Content(b), from, to)
<1> DEFINE u == Content(b)
           c == sdsmapchars(b, from, to)
           x == MappedTo(u, from, to)
<1>1. u \in Seq(Byte) /\ Len(u) = b.len /\ \A i \in 1..b.len : u[i] = b.buf[i]
  BY ContentBytes
<1>2. /\ Good(c) /\ c.len = b.len
      /\ \A i \in 1..b.len : c.buf[i] = IF b.buf[i] = from THEN to ELSE b.buf[i]
  BY MapcharsGood
<1> HIDE DEF u, c
<1>3. x = [i \in 1..Len(u) |-> IF u[i] = from THEN to ELSE u[i]]
  BY DEF MappedTo
<1> HIDE DEF x
<1>4. \A i \in 1..Len(u) : u[i] \in Byte
  BY <1>1, SeqElements
<1>5. x \in Seq(Byte) /\ Len(x) = Len(u) /\ \A i \in 1..Len(u) : x[i] = IF u[i] = from THEN to ELSE u[i]
  BY <1>1, <1>3, <1>4
<1>6. \A i \in 1..Len(x) : c.buf[i] = x[i]
  BY <1>1, <1>2, <1>5
<1>7. HasBytes(c, x)
  BY <1>1, <1>2, <1>5, <1>6 DEF HasBytes
<1>8. Content(c) = x
  BY <1>2, <1>5, <1>7, HasContent
<1> QED
  BY <1>8 DEF x, c, u

\* A call that needs no memory leaves the block as large as it was, so it does
\* not return NULL.
Sized(b) == {"type", "room"} \subseteq DOMAIN b
Unmoved(c, b) == Sized(c) /\ c.type = b.type /\ c.room = b.room

LEMMA PartsUnmoved ==
  ASSUME NEW b, Sized(b), NEW n, NEW t
  PROVE  /\ Unmoved([b EXCEPT !.len = n], b)
         /\ Unmoved([b EXCEPT !.buf = t], b)
  BY DEF Sized, Unmoved

LEMMA WritesUnmoved ==
  ASSUME NEW b, Sized(b), NEW at, NEW n, NEW t
  PROVE  Unmoved(sdssetlen(b, n), b) /\ Unmoved(Put(b, at, t), b) /\ Unmoved(PutNul(b, at), b)
  BY PartsUnmoved DEF sdssetlen, Put, PutNul

LEMMA KeepUnmoved ==
  ASSUME NEW b, Sized(b), NEW at, NEW n
  PROVE  Unmoved(Keep(b, at, n), b)
<1> DEFINE t == SubSeq(b.buf, at + 1, at + n)
<1>1. Unmoved(Put(b, 0, t), b)
  BY WritesUnmoved
<1>2. Unmoved(PutNul(Put(b, 0, t), n), Put(b, 0, t))
  BY <1>1, WritesUnmoved DEF Unmoved
<1>3. Unmoved(sdssetlen(PutNul(Put(b, 0, t), n), n), PutNul(Put(b, 0, t), n))
  BY <1>2, WritesUnmoved DEF Unmoved
<1> QED
  BY <1>1, <1>2, <1>3, Zenon DEF Unmoved, Keep

LEMMA CallsUnmoved ==
  ASSUME NEW b, Sized(b)
  PROVE  /\ Unmoved(sdsupdatelen(b), b)
         /\ Unmoved(sdsclear(b), b)
         /\ \A cset : Unmoved(sdstrim(b, cset), b)
         /\ \A i, j : Unmoved(sdsrange(b, i, j), b)
         /\ \A from, to : Unmoved(sdsmapchars(b, from, to), b)
         /\ \A n : Unmoved(sdsIncrLen(b, n), b)
<1>1. \A n, k : Unmoved(PutNul(sdssetlen(b, n), k), b)
  <2> TAKE n, k
  <2>1. Unmoved(sdssetlen(b, n), b)
    BY WritesUnmoved
  <2>2. Unmoved(PutNul(sdssetlen(b, n), k), sdssetlen(b, n))
    BY <2>1, WritesUnmoved DEF Unmoved
  <2> QED
    BY <2>1, <2>2 DEF Unmoved
<1>2. Unmoved(b, b)
  BY DEF Unmoved
<1>3. \A at, n : Unmoved(Keep(b, at, n), b)
  BY KeepUnmoved
<1>4. Unmoved(sdsupdatelen(b), b)
  <2> DEFINE n == Strlen(b)
             x == [b EXCEPT !.buf = SubSeq(b.buf, 1, n + 1)]
  <2>1. sdsupdatelen(b) = sdssetlen(x, n)
    BY DEF sdsupdatelen
  <2>2. Unmoved(x, b)
    BY PartsUnmoved
  <2> HIDE DEF x, n
  <2>3. Unmoved(sdssetlen(x, n), x)
    BY <2>2, WritesUnmoved DEF Unmoved
  <2> QED
    BY <2>1, <2>2, <2>3 DEF Unmoved
<1>5. Unmoved(sdsclear(b), b)
  BY <1>1 DEF sdsclear
<1>6. ASSUME NEW cset PROVE Unmoved(sdstrim(b, cset), b)
  <2>1. \E at, n : sdstrim(b, cset) = Keep(b, at, n)
    BY Zenon DEF sdstrim
  <2> QED
    BY <1>3, <2>1
<1>7. ASSUME NEW i, NEW j PROVE Unmoved(sdsrange(b, i, j), b)
  <2>1. sdsrange(b, i, j) = b \/ \E at, n : sdsrange(b, i, j) = Keep(b, at, n)
    BY Zenon DEF sdsrange
  <2> QED
    BY <1>2, <1>3, <2>1
<1>8. ASSUME NEW from, NEW to PROVE Unmoved(sdsmapchars(b, from, to), b)
  BY PartsUnmoved DEF sdsmapchars
<1>9. ASSUME NEW n PROVE Unmoved(sdsIncrLen(b, n), b)
  BY <1>1 DEF sdsIncrLen
<1> QED
  BY <1>4, <1>5, <1>6, <1>7, <1>8, <1>9

\* What a call shows a caller, whose arguments are in c and which computes b.
LEMMA CallAnswers ==
  ASSUME NEW c, NEW b, Call(c, b)
  PROVE  /\ call' = c /\ String!Exists /\ Bytes = Content(s)
         /\ String!Returns(Content(b)) \/ String!Refused
         /\ b.type = s.type /\ b.room = s.room => String!Returns(Content(b))
<1>1. call' = c /\ Held /\ Held'
  BY DEF Call, Held
<1>2. Bytes = Content(s) /\ Bytes' = Content(s')
  BY <1>1 DEF Bytes, Held
<1>3. ASSUME s' = b, ret' = "ok" PROVE String!Returns(Content(b))
  BY <1>2, <1>3 DEF String!Returns
<1>4. ASSUME s' = s, ret' = "null" PROVE String!Refused
  BY <1>2, <1>4 DEF String!Refused
<1> QED
  BY <1>1, <1>2, <1>3, <1>4 DEF Call, Held, String!Exists

\* A block of the right content is all that is asked of a call.
LEMMA NoneIsLost ==
  ASSUME s' = sdsnewlen(<<>>), ret' \in {"none", "crash", "undefined"}
  PROVE  IInv' /\ String!Lost(ret')
<1>1. IInv'
  BY EmptyGood DEF IInv
<1>2. Bytes' = <<>>
  BY DEF Held, Bytes
<1> QED
  BY <1>1, <1>2 DEF String!Lost

LEMMA NewStep == New => String!New
<1> SUFFICES ASSUME New PROVE String!New
  OBVIOUS
<1>1. PICK t \in Text : /\ ret \in {"none", "null"}
                        /\ call' = [op |-> "sdsnewlen", text |-> t]
                        /\ \/ s' = sdsnewlen(t) /\ ret' = "ok"
                           \/ s' = sdsnewlen(<<>>) /\ ret' = "none"
  BY DEF New
<1>2. call'.op = "sdsnewlen" /\ call'.text = t
  BY <1>1
<1>3. CASE s' = sdsnewlen(t) /\ ret' = "ok"
  <2>1. t \in Seq(Byte) /\ Len(t) <= MaxLen
    BY SdsAssumption
  <2>2. Content(s') = t
    BY <1>3, <2>1, NewGood, HasContent
  <2>3. Bytes' = t
    BY <1>3, <2>2 DEF Bytes, Held
  <2> QED
    BY <1>1, <1>2, <1>3, <2>3 DEF String!New, String!Returns
<1>4. CASE s' = sdsnewlen(<<>>) /\ ret' = "none"
  <2>1. String!Lost("none")
    BY <1>4, NoneIsLost
  <2> QED
    BY <1>1, <1>2, <2>1 DEF String!New
<1> QED
  BY <1>1, <1>3, <1>4

LEMMA FreeStep == Free => String!Free
<1> SUFFICES ASSUME Free PROVE String!Free
  OBVIOUS
<1>1. call' = [op |-> "sdsfree"] /\ Held /\ s' = sdsnewlen(<<>>) /\ ret' = "none"
  BY DEF Free
<1>2. String!Lost("none")
  BY <1>1, NoneIsLost
<1> QED
  BY <1>1, <1>2 DEF String!Free, String!Exists, Held

LEMMA ResizeStep == IInv /\ (MakeRoomFor \/ RemoveFreeSpace) => String!Resize
<1> SUFFICES ASSUME IInv, MakeRoomFor \/ RemoveFreeSpace PROVE String!Resize
  OBVIOUS
<1>1. Good(s) /\ s.len \in Nat /\ MaxLen \in Nat /\ s.len <= MaxLen
  BY GoodTypes DEF IInv
<1>2. ASSUME NEW c, NEW b, Good(b), SameBytes(b, s), Call(c, b),
             c.op \in {"sdsMakeRoomFor", "sdsRemoveFreeSpace"}
      PROVE  String!Resize
  <2>1. Content(b) = Content(s)
    BY <1>1, <1>2, SameContent
  <2>2. /\ call' = c /\ String!Exists /\ Bytes = Content(s)
        /\ String!Returns(Content(b)) \/ String!Refused
    BY <1>2, CallAnswers
  <2> QED
    BY <1>2, <2>1, <2>2 DEF String!Resize
<1>3. CASE MakeRoomFor
  <2>1. PICK n \in 0..(MaxLen - s.len) :
          Call([op |-> "sdsMakeRoomFor", length |-> n], sdsMakeRoomFor(s, n))
    BY <1>3 DEF MakeRoomFor
  <2>2. n \in Int /\ s.len + n \in 0..MaxLen
    BY <1>1
  <2>3. Good(sdsMakeRoomFor(s, n)) /\ SameBytes(sdsMakeRoomFor(s, n), s)
    BY <1>1, <2>2, MakeRoomGood
  <2> QED
    BY <1>2, <2>1, <2>3
<1>4. CASE RemoveFreeSpace
  <2>1. Good(sdsRemoveFreeSpace(s)) /\ SameBytes(sdsRemoveFreeSpace(s), s)
    BY <1>1, RemoveFreeSpaceGood
  <2> QED
    BY <1>2, <1>4, <2>1 DEF RemoveFreeSpace
<1> QED
  BY <1>3, <1>4

\* What a call that looks for no memory gives back.
LEMMA UnmovedAnswers ==
  ASSUME NEW c, NEW b, Call(c, b), Unmoved(b, s)
  PROVE  call' = c /\ String!Exists /\ Bytes = Content(s) /\ String!Returns(Content(b))
  BY CallAnswers DEF Unmoved

LEMMA GoodIsSized ==
  ASSUME NEW b, Good(b)
  PROVE  Sized(b)
  BY GoodTypes DEF Sized, Blocks

LEMMA ClearStep == IInv /\ Clear => String!Clear
<1> SUFFICES ASSUME IInv, Clear PROVE String!Clear
  OBVIOUS
<1>1. Good(s) /\ Unmoved(sdsclear(s), s)
  BY GoodIsSized, CallsUnmoved DEF IInv
<1>2. Good(sdsclear(s)) /\ HasBytes(sdsclear(s), <<>>)
  BY <1>1, ClearGood DEF HasBytes
<1>3. Content(sdsclear(s)) = <<>>
  <2>1. <<>> \in Seq(Byte)
    OBVIOUS
  <2> QED
    BY <1>2, <2>1, HasContent
<1>4. call' = [op |-> "sdsclear"] /\ String!Exists /\ String!Returns(Content(sdsclear(s)))
  BY <1>1, UnmovedAnswers DEF Clear
<1> QED
  BY <1>3, <1>4 DEF String!Clear

LEMMA UpdatelenStep == IInv /\ Updatelen => String!Updatelen
<1> SUFFICES ASSUME IInv, Updatelen PROVE String!Updatelen
  OBVIOUS
<1> DEFINE c == sdsupdatelen(s)
           u == Content(s)
<1>1. Good(s) /\ Unmoved(c, s) /\ s.len \in Nat
  BY GoodIsSized, CallsUnmoved, GoodTypes DEF IInv
<1>2. Good(c) /\ \E n : PartOf(c, s, 1, n) /\ EndsAt(s, n)
  BY <1>1, UpdatelenGood
<1>3. call' = [op |-> "sdsupdatelen"] /\ String!Exists /\ Bytes = u /\ String!Returns(Content(c))
  BY <1>1, UnmovedAnswers DEF Updatelen
<1> HIDE DEF c
<1>4. PICK n : PartOf(c, s, 1, n) /\ EndsAt(s, n)
  BY <1>2
<1>5. /\ n \in 0..s.len /\ s.buf[n + 1] = NUL /\ \A i \in 1..n : s.buf[i] # NUL
  BY <1>4, Zenon DEF EndsAt
<1>6. /\ Len(u) = s.len /\ \A i \in 1..s.len : u[i] = s.buf[i]
  BY <1>1, ContentBytes
<1> HIDE DEF u
<1>7. n \in Int /\ n <= s.len /\ 1 \in Nat \ {0}
  BY <1>1, <1>5
<1>8. Content(c) = SubSeq(u, 1, n)
  BY <1>1, <1>2, <1>4, <1>7, CutContent DEF u
<1>9. \A i \in 1..n : u[i] # NUL
  <2>1. \A i \in 1..n : i \in 1..s.len
    BY <1>1, <1>5
  <2> QED
    BY <1>5, <1>6, <2>1
<1>10. n < Len(u) => u[n + 1] = NUL
  <2>1. n < Len(u) => n + 1 \in 1..s.len
    BY <1>1, <1>5, <1>6
  <2> QED
    BY <1>5, <1>6, <2>1
<1>11. n \in 0..Len(Bytes) /\ (\A i \in 1..n : Bytes[i] # NUL)
       /\ (n < Len(Bytes) => Bytes[n + 1] = NUL) /\ String!Returns(SubSeq(Bytes, 1, n))
  BY <1>3, <1>5, <1>6, <1>8, <1>9, <1>10
<1>12. call'.op = "sdsupdatelen"
  BY <1>3
<1> QED
  BY <1>3, <1>11, <1>12, Zenon DEF String!Updatelen

LEMMA GrowzeroStep == IInv /\ Growzero => String!Growzero
<1> SUFFICES ASSUME IInv, Growzero PROVE String!Growzero
  OBVIOUS
<1>1. PICK n \in 0..MaxLen : Call([op |-> "sdsgrowzero", length |-> n], sdsgrowzero(s, n))
  BY DEF Growzero
<1> DEFINE u == Content(s)
           x == Content(sdsgrowzero(s, n))
           m == IF n <= Len(u) THEN Len(u) ELSE n
<1>2. Good(s) /\ Len(u) = s.len
  BY ContentBytes DEF IInv
<1>3. x = Padded(u, m)
  BY <1>2, PadContent
<1>4. /\ call' = [op |-> "sdsgrowzero", length |-> n] /\ String!Exists /\ Bytes = u
      /\ String!Returns(x) \/ String!Refused
  BY <1>1, CallAnswers
<1>5. call'.op = "sdsgrowzero" /\ call'.length = n
  BY <1>4
<1> HIDE DEF u, x
<1>6. x = [i \in 1..m |-> IF i <= Len(u) THEN u[i] ELSE NUL]
  BY <1>3 DEF Padded
<1> QED
  BY <1>4, <1>5, <1>6, Zenon DEF String!Growzero

LEMMA CatStep == IInv /\ Cat => String!Cat
<1> SUFFICES ASSUME IInv, Cat PROVE String!Cat
  OBVIOUS
<1>1. PICK t \in Text : /\ s.len + Len(t) <= MaxLen
                        /\ Call([op |-> "sdscatlen", text |-> t], sdscatlen(s, t))
  BY DEF Cat
<1>2. Good(s) /\ t \in Seq(Byte)
  BY SdsAssumption DEF IInv
<1>3. Content(sdscatlen(s, t)) = Content(s) \o t
  BY <1>1, <1>2, CatGood, AddedContent
<1>4. /\ call' = [op |-> "sdscatlen", text |-> t] /\ String!Exists /\ Bytes = Content(s)
      /\ String!Returns(Content(sdscatlen(s, t))) \/ String!Refused
  BY <1>1, CallAnswers
<1>5. call'.op = "sdscatlen" /\ call'.text = t
  BY <1>4
<1> QED
  BY <1>3, <1>4, <1>5, Zenon DEF String!Cat

LEMMA CpyStep == IInv /\ Cpy => String!Cpy
<1> SUFFICES ASSUME IInv, Cpy PROVE String!Cpy
  OBVIOUS
<1>1. PICK t \in Text : Call([op |-> "sdscpylen", text |-> t], sdscpylen(s, t))
  BY DEF Cpy
<1>2. Good(s) /\ t \in Seq(Byte) /\ Len(t) <= MaxLen
  BY SdsAssumption DEF IInv
<1>3. Content(sdscpylen(s, t)) = t
  BY <1>2, CpyGood, HasContent
<1>4. /\ call' = [op |-> "sdscpylen", text |-> t] /\ String!Exists
      /\ String!Returns(Content(sdscpylen(s, t))) \/ String!Refused
  BY <1>1, CallAnswers
<1>5. call'.op = "sdscpylen" /\ call'.text = t
  BY <1>4
<1> QED
  BY <1>3, <1>4, <1>5, Zenon DEF String!Cpy

LEMMA TrimStep == IInv /\ Trim => String!Trim
<1> SUFFICES ASSUME IInv, Trim PROVE String!Trim
  OBVIOUS
<1>1. PICK cset \in Charsets : Call([op |-> "sdstrim", cset |-> cset], sdstrim(s, cset))
  BY DEF Trim
<1> DEFINE c == sdstrim(s, cset)
           u == Content(s)
           zs == cset \cup {NUL}
<1>2. Good(s) /\ Unmoved(c, s) /\ s.len \in Nat
  BY GoodIsSized, CallsUnmoved, GoodTypes DEF IInv
<1>3. Good(c) /\ \E i, j : PartOf(c, s, i, j) /\ Trimmed(s, cset, i, j)
  BY <1>2, TrimGood
<1>4. /\ call' = [op |-> "sdstrim", cset |-> cset] /\ String!Exists /\ Bytes = u
      /\ String!Returns(Content(c))
  BY <1>1, <1>2, UnmovedAnswers
<1> HIDE DEF c
<1>5. PICK i, j : PartOf(c, s, i, j) /\ Trimmed(s, cset, i, j)
  BY <1>3
<1>6. /\ i \in 1..(s.len + 1) /\ j \in 0..s.len
      /\ \A k \in (1..(i - 1)) \cup ((j + 1)..s.len) : s.buf[k] \in zs
      /\ i <= j => s.buf[i] \notin zs /\ s.buf[j] \notin zs
  BY <1>5, Zenon DEF Trimmed
<1>7. /\ Len(u) = s.len /\ \A k \in 1..s.len : u[k] = s.buf[k]
  BY <1>2, ContentBytes
<1> HIDE DEF u, zs
<1>8. i \in Nat \ {0} /\ j \in Int /\ j <= s.len
  BY <1>2, <1>6
<1>9. Content(c) = SubSeq(u, i, j)
  BY <1>2, <1>3, <1>5, <1>8, CutContent DEF u
<1>10. \A k \in (1..(i - 1)) \cup ((j + 1)..Len(u)) : u[k] \in zs
  <2>1. \A k \in (1..(i - 1)) \cup ((j + 1)..s.len) : k \in 1..s.len
    BY <1>2, <1>6
  <2> QED
    BY <1>6, <1>7, <2>1
<1>11. i <= j => u[i] \notin zs /\ u[j] \notin zs
  <2>1. i <= j => i \in 1..s.len /\ j \in 1..s.len
    BY <1>2, <1>6
  <2> QED
    BY <1>6, <1>7, <2>1
<1>12. i \in 1..(Len(u) + 1) /\ j \in 0..Len(u) /\ String!Returns(SubSeq(u, i, j))
  BY <1>4, <1>6, <1>7, <1>9
<1>13. call'.op = "sdstrim" /\ call'.cset \cup {NUL} = zs
  BY <1>4 DEF zs
<1> QED
  BY <1>4, <1>10, <1>11, <1>12, <1>13, Zenon DEF String!Trim

LEMMA RangeStep == IInv /\ Slice => String!Range
<1> SUFFICES ASSUME IInv, Slice PROVE String!Range
  OBVIOUS
<1>1. PICK i, j \in -(MaxLen + 1)..(MaxLen + 1) :
        Call([op |-> "sdsrange", first |-> i, last |-> j], sdsrange(s, i, j))
  BY DEF Slice
<1> DEFINE c == sdsrange(s, i, j)
           u == Content(s)
<1>2. Good(s) /\ Unmoved(c, s) /\ s.len \in Nat /\ MaxLen \in Nat
  BY GoodIsSized, CallsUnmoved, GoodTypes DEF IInv
<1>3. i \in Int /\ j \in Int
  BY <1>2
<1>4. Good(c) /\ PartOf(c, s, Offset(s, i) + 1, Upto(s, j))
  BY <1>2, <1>3, RangeGood
<1>5. /\ call' = [op |-> "sdsrange", first |-> i, last |-> j] /\ String!Exists /\ Bytes = u
      /\ String!Returns(Content(c))
  BY <1>1, <1>2, UnmovedAnswers
<1> HIDE DEF c
<1>6. Len(u) = s.len
  BY <1>2, ContentBytes
<1> HIDE DEF u
<1> DEFINE offset(k) == IF k >= 0 THEN k ELSE IF k < -Len(u) THEN 0 ELSE Len(u) + k
           upto == IF offset(j) < Len(u) THEN offset(j) + 1 ELSE Len(u)
<1>7. ASSUME NEW k \in Int PROVE Offset(s, k) = offset(k) /\ offset(k) \in Nat
  BY <1>2, <1>6 DEF Offset
<1>8. Upto(s, j) = upto /\ upto \in Int /\ upto <= s.len
  BY <1>2, <1>3, <1>6, <1>7 DEF Upto
<1>9. Offset(s, i) = offset(i) /\ offset(i) + 1 \in Nat \ {0}
  BY <1>3, <1>7
<1>10. Content(c) = SubSeq(u, offset(i) + 1, upto)
  <2> HIDE DEF offset, upto
  <2>1. PartOf(c, s, offset(i) + 1, upto)
    BY <1>4, <1>8, <1>9
  <2> QED
    BY <1>2, <1>4, <1>8, <1>9, <2>1, CutContent DEF u
<1>11. call'.op = "sdsrange" /\ call'.first = i /\ call'.last = j
  BY <1>5
<1> QED
  BY <1>5, <1>10, <1>11, Zenon DEF String!Range

LEMMA MapcharsStep == IInv /\ Mapchars => String!Mapchars
<1> SUFFICES ASSUME IInv, Mapchars PROVE String!Mapchars
  OBVIOUS
<1>1. PICK from, to \in UNION Charsets :
        Call([op |-> "sdsmapchars", from |-> from, to |-> to], sdsmapchars(s, from, to))
  BY DEF Mapchars
<1>2. Good(s) /\ to \in Byte /\ Unmoved(sdsmapchars(s, from, to), s)
  BY SdsAssumption, GoodIsSized, CallsUnmoved DEF IInv
<1>3. Content(sdsmapchars(s, from, to)) = MappedTo(Content(s), from, to)
  BY <1>2, MapContent
<1>4. /\ call' = [op |-> "sdsmapchars", from |-> from, to |-> to] /\ String!Exists
      /\ Bytes = Content(s) /\ String!Returns(Content(sdsmapchars(s, from, to)))
  BY <1>1, <1>2, UnmovedAnswers
<1>5. call'.op = "sdsmapchars" /\ call'.from = from /\ call'.to = to
  BY <1>4
<1> QED
  BY <1>3, <1>4, <1>5, Zenon DEF String!Mapchars, MappedTo

LEMMA ReadTextStep == IInv /\ Read => String!Read
<1> SUFFICES ASSUME IInv, Read PROVE String!Read
  OBVIOUS
<1>1. PICK t \in Text :
        /\ Len(t) <= sdsavail(s) /\ s.len + Len(t) <= MaxLen
        /\ Call([op |-> "read", text |-> t], sdsIncrLen(Put(s, s.len, t), Len(t)))
  BY DEF Read
<1> DEFINE n == s.len + Len(t)
           p == Put(s, s.len, t)
           b == sdsIncrLen(p, Len(t))
<1>2. /\ Good(s) /\ s \in Blocks /\ s.len \in Nat /\ MaxLen \in Nat /\ sdsavail(s) \in Nat
      /\ s.len + sdsavail(s) = sdsalloc(s) /\ s.len < Len(s.buf) /\ Len(s.buf) \in Nat
  BY GoodTypes DEF IInv
<1>3. t \in Seq(Byte) /\ Len(t) \in Nat
  BY SdsAssumption, LenProperties
<1>4. n \in Nat /\ n <= sdsalloc(s) /\ n <= MaxLen /\ s.len <= Len(s.buf)
  BY <1>1, <1>2, <1>3
<1>5. p.len = s.len
  BY <1>2, <1>3, <1>4, PutBytes
<1>6. b = PutNul(sdssetlen(p, n), n)
  BY <1>5 DEF sdsIncrLen
<1>7. Good(b) /\ WrittenAt(b, s, s.len, t, n)
  BY <1>2, <1>3, <1>4, <1>6, WriteGood
<1>8. Unmoved(p, s)
  BY <1>2, GoodIsSized, WritesUnmoved
<1>9. Unmoved(b, p)
  BY <1>8, CallsUnmoved DEF Unmoved
<1> HIDE DEF b, n, p
<1>10. Unmoved(b, s)
  BY <1>8, <1>9 DEF Unmoved
<1>11. Content(b) = Content(s) \o t
  BY <1>2, <1>3, <1>7, AddedContent DEF n
<1>12. Call([op |-> "read", text |-> t], b)
  BY <1>1 DEF b, p
<1>13. /\ call' = [op |-> "read", text |-> t] /\ String!Exists /\ Bytes = Content(s)
       /\ String!Returns(Content(b))
  BY <1>10, <1>12, UnmovedAnswers
<1>14. call'.op = "read" /\ call'.text = t
  BY <1>13
<1> QED
  BY <1>11, <1>13, <1>14, Zenon DEF String!Read

LEMMA ShortenStep == IInv /\ Shorten => String!Shorten
<1> SUFFICES ASSUME IInv, Shorten PROVE String!Shorten
  OBVIOUS
<1>1. PICK n \in 1..MaxLen :
        MayIncr(s, -n) /\ Call([op |-> "shorten", length |-> n], sdsIncrLen(s, -n))
  BY DEF Shorten
<1> DEFINE k == s.len + -n
           b == sdsIncrLen(s, -n)
           u == Content(s)
<1>2. Good(s) /\ s.len \in Nat /\ MaxLen \in Nat /\ Unmoved(b, s)
  BY GoodTypes, GoodIsSized, CallsUnmoved DEF IInv
<1>3. n \in Nat /\ n <= s.len /\ k \in Nat /\ k <= s.len
  BY <1>1, <1>2 DEF MayIncr
<1>4. b = PutNul(sdssetlen(s, k), k)
  BY DEF sdsIncrLen
<1>5. /\ call' = [op |-> "shorten", length |-> n] /\ String!Exists /\ Bytes = u
      /\ String!Returns(Content(b))
  BY <1>1, <1>2, UnmovedAnswers
<1> HIDE DEF b
<1>6. Good(b) /\ b.len = k /\ \A i \in 1..k : b.buf[i] = s.buf[i]
  <2> HIDE DEF k
  <2> QED
    BY <1>2, <1>3, <1>4, ShortenGood
<1>7. Len(u) = s.len
  BY <1>2, ContentBytes
<1>8. PartOf(b, s, 1, k)
  <2>1. \A i \in 1..k : (1 - 1) + i = i
    BY <1>3
  <2>2. k = IF 1 <= k THEN k - 1 + 1 ELSE 0
    BY <1>3
  <2> HIDE DEF k
  <2> QED
    BY <1>6, <2>1, <2>2 DEF PartOf
<1>9. Content(b) = SubSeq(u, 1, k)
  <2>1. 1 \in Nat \ {0} /\ k \in Int
    BY <1>3
  <2> HIDE DEF k
  <2> QED
    BY <1>2, <1>3, <1>6, <1>8, <2>1, CutContent
<1> HIDE DEF u
<1>10. k = Len(u) - n /\ n <= Len(u)
  BY <1>2, <1>3, <1>7
<1>11. call'.op = "shorten" /\ call'.length = n
  BY <1>5
<1> HIDE DEF k
<1> QED
  BY <1>5, <1>9, <1>10, <1>11, Zenon DEF String!Shorten

ByteStringStep == [String!Next]_<<call, ret, Bytes>>

LEMMA PlainStep == IInv /\ [Next]_vars => ByteStringStep
<1> SUFFICES ASSUME IInv, [Next]_vars PROVE ByteStringStep
  OBVIOUS
<1>1. ASSUME Next PROVE String!Next
  BY <1>1, NewStep, FreeStep, ResizeStep, ClearStep, UpdatelenStep, GrowzeroStep, CatStep,
     CpyStep, TrimStep, RangeStep, MapcharsStep, ReadTextStep, ShortenStep, Zenon
  DEF Next, String!Next
<1>2. ASSUME UNCHANGED vars PROVE UNCHANGED <<call, ret, Bytes>>
  BY <1>2 DEF vars, Bytes, Held
<1> QED
  BY <1>1, <1>2 DEF ByteStringStep

\* Where the parts of w lie behind u.
CutIn(u, w, n, v) ==
  /\ Len(u) <= Len(v) /\ SubSeq(v, 1, Len(u)) = u
  /\ \E cut \in [0..n -> Len(u)..Len(v)] :
       /\ cut[0] = Len(u) /\ cut[n] = Len(v)
       /\ \A i \in 1..n : /\ cut[i - 1] <= cut[i]
                          /\ SubSeq(v, cut[i - 1] + 1, cut[i]) = w[i]

LEMMA PartsAreCut ==
  ASSUME NEW u \in Seq(Byte), NEW w \in Seq(Seq(Byte)), NEW n \in Nat, n = Len(w)
  PROVE  CutIn(u, w, n, u \o FlattenSeq(w))
<1> DEFINE v == u \o FlattenSeq(w)
<1>0. v = u \o FlattenSeq(w)
  OBVIOUS
<1> HIDE DEF v
<1>1. PICK f \in [0..n -> Seq(Byte)] : Joined(f, w) /\ FlattenSeq(w) = f[n]
  BY FlattenIs
<1>2. Lie(w, n, f)
  BY <1>1, PartsLie
<1>3. n \in 0..n /\ 0 \in 0..n /\ f[0] = <<>>
  BY <1>1 DEF Joined
<1>4. PICK m \in Nat : m = Len(u)
  BY LenProperties
<1>5. \A i \in 0..n : f[i] \in Seq(Byte) /\ Len(f[i]) \in Nat
  BY SeqElements
<1>6. /\ v \in Seq(Byte) /\ Len(v) = m + Len(f[n])
      /\ \A i \in 1..m : v[i] = u[i]
      /\ \A i \in 1..Len(f[n]) : v[m + i] = f[n][i]
  <2>1. v = u \o f[n] /\ f[n] \in Seq(Byte)
    BY <1>0, <1>1, <1>3
  <2> QED
    BY <1>4, <2>1, SeqJoin
<1>7. \A i \in 0..n : Len(f[i]) <= Len(f[n])
  <2> TAKE i \in 0..n
  <2>1. CASE i = 0
    BY <1>3, <1>5, <2>1
  <2>2. CASE i # 0
    <3>1. i \in 1..n
      BY <2>2
    <3> QED
      BY <1>2, <3>1 DEF Lie, Starts
  <2> QED
    BY <2>1, <2>2
<1> DEFINE cut == [i \in 0..n |-> m + Len(f[i])]
<1>8. \A i \in 0..n : cut[i] = m + Len(f[i])
  OBVIOUS
<1>9. cut \in [0..n -> m..Len(v)]
  <2>1. Len(f[n]) \in Nat
    BY <1>3, <1>5
  <2>2. \A i \in 0..n : m + Len(f[i]) \in m..Len(v)
    BY <1>5, <1>6, <1>7, <2>1
  <2> QED
    BY <2>2
<1> HIDE DEF cut
<1>10. cut[0] = m /\ cut[n] = Len(v)
  <2>1. cut[0] = m + Len(f[0]) /\ cut[n] = m + Len(f[n])
    BY <1>3, <1>8
  <2>2. Len(f[0]) = 0
    BY <1>3
  <2> QED
    BY <1>6, <2>1, <2>2
<1>11. ASSUME NEW i \in 1..n
       PROVE  cut[i - 1] <= cut[i] /\ SubSeq(v, cut[i - 1] + 1, cut[i]) = w[i]
  <2>1. i - 1 \in 0..n /\ i \in 0..n
    OBVIOUS
  <2>2. PICK a \in Nat, d \in Nat, e \in Nat :
          a = Len(f[i - 1]) /\ d = Len(w[i]) /\ e = Len(f[n])
    <3>1. w[i] \in Seq(Byte)
      BY SeqElements
    <3>2. Len(w[i]) \in Nat
      BY <3>1, SeqElements
    <3> QED
      BY <1>3, <1>5, <2>1, <3>2
  <2>3. Len(f[i]) = a + d /\ \A k \in 1..d : f[n][a + k] = w[i][k]
    BY <1>2, <2>2 DEF Lie
  <2>4. a + d <= e
    BY <1>7, <2>1, <2>2, <2>3
  <2>5. cut[i - 1] = m + a /\ cut[i] = (m + a) + d
    <3>1. cut[i - 1] = m + Len(f[i - 1]) /\ cut[i] = m + Len(f[i])
      BY <1>8, <2>1
    <3>2. cut[i - 1] = m + a /\ cut[i] = m + (a + d)
      BY <2>2, <2>3, <3>1, Zenon
    <3>3. m + (a + d) = (m + a) + d
      OBVIOUS
    <3> QED
      BY <3>2, <3>3, Zenon
  <2>6. (m + a) + d <= Len(v) /\ m + a \in Nat
    <3>1. Len(v) = m + e
      BY <1>6, <2>2
    <3> QED
      BY <2>4, <3>1
  <2> DEFINE x == SubSeq(v, (m + a) + 1, (m + a) + d)
  <2>7. x \in Seq(Byte) /\ Len(x) = d /\ \A k \in 1..d : x[k] = v[(m + a) + k]
    BY <1>6, <2>6, SeqPart
  <2> HIDE DEF x
  <2>8. \A k \in 1..d : x[k] = w[i][k]
    <3> TAKE k \in 1..d
    <3>1. a + k \in 1..e /\ (m + a) + k = m + (a + k)
      BY <2>4
    <3>2. \A j \in 1..e : v[m + j] = f[n][j]
      BY <1>6, <2>2, Zenon
    <3>3. v[m + (a + k)] = f[n][a + k]
      BY <3>1, <3>2, Zenon
    <3> QED
      BY <2>3, <2>7, <3>1, <3>3, Zenon
  <2>9. w[i] \in Seq(Byte)
    BY SeqElements
  <2>10. x = w[i]
    BY <2>2, <2>7, <2>8, <2>9, SeqEqual
  <2>11. cut[i - 1] <= cut[i]
    BY <2>5
  <2> QED
    BY <2>5, <2>10, <2>11, Zenon DEF x
<1>12. SubSeq(v, 1, m) = u
  <2> DEFINE x == SubSeq(v, 1, m)
  <2>1. Len(f[n]) \in Nat
    BY <1>3, <1>5
  <2>2. m \in 0..Len(v)
    BY <1>6, <2>1
  <2>3. x \in Seq(Byte) /\ Len(x) = m /\ \A i \in 1..m : x[i] = v[i]
    BY <1>6, <2>2, SeqFront
  <2> HIDE DEF x
  <2>4. x = u
    BY <1>4, <1>6, <2>3, SeqEqual
  <2> QED
    BY <2>4 DEF x
<1>13. Len(u) <= Len(v)
  <2>1. Len(f[n]) \in Nat
    BY <1>3, <1>5
  <2> QED
    BY <1>4, <1>6, <2>1
<1>14. CutIn(u, w, n, v)
  BY <1>4, <1>9, <1>10, <1>11, <1>12, <1>13 DEF CutIn
<1> QED
  BY <1>0, <1>14, Zenon

\* A call that leaves the texts of w behind the string appends what they stand for.
LEMMA PartsAppended ==
  ASSUME NEW u \in Seq(Byte), NEW w \in Seq(Seq(Byte)), NEW n \in Nat, n = Len(w),
         NEW parts, Len(parts) = n, \A i \in 1..n : String!StandsFor(w[i], parts[i]),
         Bytes = u, Bytes' = u \o FlattenSeq(w), ret' = "ok"
  PROVE  String!AppendsAll(parts)
<1>1. /\ Len(Bytes) <= Len(Bytes') /\ SubSeq(Bytes', 1, Len(Bytes)) = Bytes
      /\ \E cut \in [0..n -> Len(Bytes)..Len(Bytes')] :
           /\ cut[0] = Len(Bytes) /\ cut[n] = Len(Bytes')
           /\ \A i \in 1..n : /\ cut[i - 1] <= cut[i]
                              /\ SubSeq(Bytes', cut[i - 1] + 1, cut[i]) = w[i]
  <2>1. CutIn(u, w, n, u \o FlattenSeq(w))
    BY PartsAreCut
  <2>2. CutIn(Bytes, w, n, Bytes')
    BY <2>1, Zenon
  <2> QED
    BY <2>2, Zenon DEF CutIn
<1>2. PICK cut \in [0..n -> Len(Bytes)..Len(Bytes')] :
        /\ cut[0] = Len(Bytes) /\ cut[n] = Len(Bytes')
        /\ \A i \in 1..n : /\ cut[i - 1] <= cut[i]
                           /\ SubSeq(Bytes', cut[i - 1] + 1, cut[i]) = w[i]
  BY <1>1, Zenon
<1>3. \A i \in 1..n : /\ cut[i - 1] <= cut[i]
                      /\ String!StandsFor(SubSeq(Bytes', cut[i - 1] + 1, cut[i]), parts[i])
  <2> TAKE i \in 1..n
  <2>1. SubSeq(Bytes', cut[i - 1] + 1, cut[i]) = w[i] /\ cut[i - 1] <= cut[i]
    BY <1>2, Zenon
  <2>2. String!StandsFor(w[i], parts[i])
    BY Zenon
  <2> QED
    BY <2>1, <2>2, Zenon
<1>4. cut \in [0..Len(parts) -> Len(Bytes)..Len(Bytes')] /\ cut[Len(parts)] = Len(Bytes')
  BY <1>2
<1>5. \A i \in 1..Len(parts) :
        /\ cut[i - 1] <= cut[i]
        /\ String!StandsFor(SubSeq(Bytes', cut[i - 1] + 1, cut[i]), parts[i])
  <2>1. 1..Len(parts) = 1..n
    BY Zenon
  <2> QED
    BY <1>3, <2>1, Zenon
<1> QED
  BY <1>1, <1>2, <1>4, <1>5, Zenon DEF String!AppendsAll

\* What the call leaves and what a caller sees of it.
LEMMA WholeAppended ==
  ASSUME NEW b, Good(b), NEW u \in Seq(Byte), Bytes = u, NEW w \in Seq(Seq(Byte)),
         NEW n \in Nat, n = Len(w), Content(b) = u \o FlattenSeq(w), s' = b, ret' = "ok",
         NEW parts, Len(parts) = n, \A i \in 1..n : String!StandsFor(w[i], parts[i])
  PROVE  IInv' /\ String!AppendsAll(parts)
<1>1. IInv'
  BY DEF IInv
<1>2. Bytes' = u \o FlattenSeq(w)
  BY DEF Bytes, Held
<1>3. String!AppendsAll(parts)
  BY <1>2, PartsAppended
<1> QED
  BY <1>1, <1>3

\* What sdscatfmt writes for a directive is what the directive stands for.
LEMMA MeaningIsWritten ==
  ASSUME NEW d \in Directives, ~Meaningless(d)
  PROVE  String!HasMeaning(d) /\ String!StandsFor(Written(d), d)
<1>1. LLONG_MIN \in Int
  BY FormatAssumption
<1>2. CASE d \in [kind : {"lit", "%%"}, text : {<<c>> : c \in Byte}]
  <2>1. d.kind \notin {"%i", "byte", "%"}
    BY <1>2
  <2> QED
    BY <2>1 DEF String!HasMeaning, String!StandsFor, Written
<1>3. CASE d \in [kind : {"%s"}, text : Seq(Byte)]
  <2>1. d.kind \notin {"%i", "byte", "%"}
    BY <1>3
  <2> QED
    BY <2>1 DEF String!HasMeaning, String!StandsFor, Written
<1>4. CASE d \in [kind : {"%i"}, number : LLONG_MIN..(-(LLONG_MIN + 1))]
  <2>1. d.kind = "%i" /\ d.number \in Int
    BY <1>1, <1>4
  <2>2. String!HasMeaning(d)
    BY <2>1 DEF String!HasMeaning, Meaningless
  <2>3. String!IsDecimalOf(sdsll2str(d.number), d.number)
    BY <2>1, NumberIsWritten
  <2> QED
    BY <2>1, <2>2, <2>3 DEF String!StandsFor, Written
<1>5. CASE d = Lone
  BY <1>5 DEF Meaningless, Lone
<1> QED
  BY <1>2, <1>3, <1>4, <1>5 DEF Directives

LEMMA MeaninglessToo ==
  ASSUME NEW d, Meaningless(d)
  PROVE  ~String!HasMeaning(d)
  BY DEF Meaningless, String!HasMeaning

LEMMA FormatStep == IInv /\ Catfmt => IInv' /\ String!Catfmt
<1> SUFFICES ASSUME IInv, Catfmt PROVE IInv' /\ String!Catfmt
  OBVIOUS
<1>1. PICK fmt \in Formats :
        LET blocks == FormatBlocks(s, fmt)
            n == Len(fmt) + 1
            result == PutNul(blocks[n], blocks[n].len)
            stops == {i \in DOMAIN fmt : Meaningless(fmt[i])}
        IN  /\ Held
            /\ s.len + Len(Expansion(fmt)) <= MaxLen
            /\ call' = [op |-> "sdscatfmt", format |-> fmt]
            /\ \/ stops = {} /\ s' = result /\ ret' = "ok"
               \/ stops # {} /\ s' = sdsnewlen(<<>>) /\ ret' = "undefined"
               \/ s' = sdsnewlen(<<>>) /\ ret' = "crash"
  BY DEF Catfmt
<1>2. fmt \in Seq(Directives)
  BY FormatAssumption
<1>3. PICK n \in Nat : n = Len(fmt)
  BY <1>2, SeqElements
<1>4. DOMAIN fmt = 1..n /\ \A i \in 1..n : fmt[i] \in Directives
  BY <1>2, <1>3
<1> DEFINE c == FormatBlocks(s, fmt)[n + 1]
           z == PutNul(c, c.len)
           u == Content(s)
           w == [i \in 1..Len(fmt) |-> Written(fmt[i])]
<1>5. /\ Held /\ s.len + Len(Expansion(fmt)) <= MaxLen
      /\ call' = [op |-> "sdscatfmt", format |-> fmt]
      /\ \/ (\A i \in 1..n : ~Meaningless(fmt[i])) /\ s' = z /\ ret' = "ok"
         \/ (\E i \in 1..n : Meaningless(fmt[i])) /\ s' = sdsnewlen(<<>>) /\ ret' = "undefined"
         \/ s' = sdsnewlen(<<>>) /\ ret' = "crash"
  BY <1>1, <1>3, <1>4
<1>6. Good(s) /\ u \in Seq(Byte) /\ Bytes = u
  BY <1>5, ContentBytes DEF IInv, Bytes
<1>7. Good(z) /\ Content(z) = u \o Expansion(fmt)
  BY <1>3, <1>5, <1>6, FormatEnds
<1> HIDE DEF z, u
<1>8. call'.op = "sdscatfmt" /\ call'.format = fmt
  BY <1>5
<1>9. String!Exists
  BY <1>5 DEF String!Exists, Held
<1>10. CASE (\A i \in 1..n : ~Meaningless(fmt[i])) /\ s' = z /\ ret' = "ok"
  <2>1. \A i \in 1..n : String!HasMeaning(fmt[i]) /\ String!StandsFor(Written(fmt[i]), fmt[i])
    BY <1>4, <1>10, MeaningIsWritten
  <2>2. w \in Seq(Seq(Byte)) /\ Len(w) = n /\ \A i \in 1..n : w[i] = Written(fmt[i])
    <3>1. \A i \in 1..n : Written(fmt[i]) \in Seq(Byte)
      BY <1>4, WrittenBytes
    <3> QED
      BY <1>3, <3>1
  <2>3. Expansion(fmt) = FlattenSeq(w)
    BY DEF Expansion
  <2> HIDE DEF w
  <2>4. \A i \in 1..n : String!StandsFor(w[i], fmt[i])
    BY <2>1, <2>2
  <2>5. Content(z) = u \o FlattenSeq(w)
    BY <1>7, <2>3
  <2>6. IInv' /\ String!AppendsAll(fmt)
    BY <1>3, <1>6, <1>7, <1>10, <2>2, <2>4, <2>5, WholeAppended
  <2>7. \A i \in DOMAIN call'.format : String!HasMeaning(call'.format[i])
    BY <1>4, <1>8, <2>1
  <2> QED
    BY <1>8, <1>9, <2>6, <2>7, Zenon DEF String!Catfmt
<1>11. CASE (\E i \in 1..n : Meaningless(fmt[i])) /\ s' = sdsnewlen(<<>>) /\ ret' = "undefined"
  <2>1. IInv' /\ String!Lost("undefined")
    BY <1>11, NoneIsLost
  <2>2. PICK i \in 1..n : Meaningless(fmt[i])
    BY <1>11
  <2>3. i \in DOMAIN call'.format /\ ~String!HasMeaning(call'.format[i])
    BY <1>4, <1>8, <2>2, MeaninglessToo
  <2> QED
    BY <1>8, <1>9, <2>1, <2>3, Zenon DEF String!Catfmt
<1>12. CASE s' = sdsnewlen(<<>>) /\ ret' = "crash"
  <2>1. IInv' /\ String!Lost("crash")
    BY <1>12, NoneIsLost
  <2> QED
    BY <1>8, <1>9, <2>1, Zenon DEF String!Catfmt
<1> QED
  BY <1>5, <1>10, <1>11, <1>12

\* What sdscatrepr writes for a byte is its quote.
LEMMA HexDigitIs ==
  ASSUME NEW n \in 0..15
  PROVE  HexDigit(n) = String!Hex[n]
  BY DEF HexDigit, String!Hex

LEMMA QuoteIsWritten ==
  ASSUME NEW c \in 0..255
  PROVE  String!StandsFor(Escaped(c), String!Quote(c))
<1> DEFINE e == Escaped(c)
<1> SUFFICES String!StandsFor(e, String!Quote(c))
  OBVIOUS
<1>1. ASSUME String!IsQuoteOf(e, c) PROVE String!StandsFor(e, String!Quote(c))
  <2>1. String!Quote(c).kind = "byte" /\ String!Quote(c).byte = c
    BY DEF String!Quote
  <2> QED
    BY <1>1, <2>1 DEF String!StandsFor
<1>2. CASE c \in {92, 34}
  <2>1. e = <<92, c>>
    <3>1. c \notin DOMAIN Letter
      BY <1>2, Letters
    <3> QED
      BY <1>2, <3>1 DEF Escaped, BACKSLASH, DQUOTE
  <2>2. <<c, c>> \in String!Named /\ <<c, c>>[1] = c /\ <<c, c>>[2] = c
    BY <1>2 DEF String!Named
  <2> HIDE DEF e
  <2> QED
    BY <1>1, <2>1, <2>2, Zenon DEF String!IsQuoteOf
<1>3. CASE c \in DOMAIN Letter
  <2>1. c \notin {92, 34} /\ c \in {10, 13, 9, 7, 8}
    BY <1>3, Letters
  <2>2. e = <<92, Letter[c]>>
    <3>1. ~isprint(c)
      BY <1>3, Letters DEF isprint
    <3> QED
      BY <1>3, <2>1, <3>1 DEF Escaped, BACKSLASH, DQUOTE
  <2>3. <<Letter[c], c>> \in String!Named
    BY <1>3, <2>1 DEF Letter, LF, CR, TAB, BEL, BS, String!Named
  <2>4. <<Letter[c], c>>[1] = Letter[c] /\ <<Letter[c], c>>[2] = c
    OBVIOUS
  <2> HIDE DEF e
  <2> QED
    BY <1>1, <2>2, <2>3, <2>4, Zenon DEF String!IsQuoteOf
<1>4. CASE c \notin {92, 34} /\ c \notin DOMAIN Letter
  <2>1. \A x \in String!Named : x[2] # c
    BY <1>4, Letters DEF String!Named
  <2>2. CASE c \in 32..126
    <3>1. e = <<c>>
      BY <1>4, <2>2, Zenon DEF Escaped, BACKSLASH, DQUOTE, isprint
    <3> HIDE DEF e
    <3> QED
      BY <1>1, <2>1, <2>2, <3>1, Zenon DEF String!IsQuoteOf
  <2>3. CASE c \notin 32..126
    <3>1. e = <<92, 120, HexDigit(c \div 16), HexDigit(c % 16)>>
      BY <1>4, <2>3, Zenon DEF Escaped, BACKSLASH, DQUOTE, isprint
    <3>2. c \div 16 \in 0..15 /\ c % 16 \in 0..15 /\ c = 16 * (c \div 16) + (c % 16)
      OBVIOUS
    <3>3. PICK h \in 0..15, l \in 0..15 : h = c \div 16 /\ l = c % 16 /\ c = 16 * h + l
      BY <3>2
    <3>4. e = <<92, 120, String!Hex[h], String!Hex[l]>>
      BY <3>1, <3>3, HexDigitIs, Zenon
    <3> HIDE DEF e
    <3>5. \E x, y \in 0..15 : c = 16 * x + y /\ e = <<92, 120, String!Hex[x], String!Hex[y]>>
      BY <3>3, <3>4, Zenon
    <3>6. String!IsQuoteOf(e, c)
      BY <2>1, <2>3, <3>5, Zenon DEF String!IsQuoteOf
    <3> QED
      BY <1>1, <3>6
  <2> QED
    BY <2>2, <2>3
<1> QED
  BY <1>2, <1>3, <1>4

LEMMA TextIsWritten ==
  ASSUME NEW t
  PROVE  String!StandsFor(t, String!Is(t))
<1>1. String!Is(t).kind = "text" /\ String!Is(t).text = t
  BY DEF String!Is
<1> QED
  BY <1>1 DEF String!StandsFor

\* The parts of a quoted text.
QuoteParts(t) ==
  <<String!Is(<<34>>)>> \o [i \in DOMAIN t |-> String!Quote(t[i])] \o <<String!Is(<<34>>)>>

LEMMA PartsOfQuote ==
  ASSUME NEW t \in Seq(Byte), NEW m \in Nat, m = Len(t)
  PROVE  /\ Len(QuoteParts(t)) = m + 2
         /\ \A i \in 1..(m + 2) : String!StandsFor(ReprPieces(t)[i], QuoteParts(t)[i])
<1> DEFINE q == <<String!Is(<<34>>)>>
           e == [i \in DOMAIN t |-> String!Quote(t[i])]
           S == {String!Is(<<34>>)} \cup {String!Quote(c) : c \in Byte}
           p == QuoteParts(t)
           w == ReprPieces(t)
<1>1. p = (q \o e) \o q
  BY DEF QuoteParts
<1>2. q \in Seq(S) /\ Len(q) = 1 /\ q[1] = String!Is(<<34>>)
  OBVIOUS
<1>3. DOMAIN t = 1..m /\ \A i \in 1..m : t[i] \in Byte
  OBVIOUS
<1>4. e \in Seq(S) /\ Len(e) = m /\ \A i \in 1..m : e[i] = String!Quote(t[i])
  <2>1. e = [i \in 1..m |-> String!Quote(t[i])]
    BY <1>3
  <2>2. \A i \in 1..m : String!Quote(t[i]) \in S
    BY <1>3
  <2> HIDE DEF S, e
  <2> QED
    BY <2>1, <2>2
<1> HIDE DEF q, e, S, p
<1>5. /\ q \o e \in Seq(S) /\ Len(q \o e) = 1 + m
      /\ (q \o e)[1] = q[1]
      /\ \A i \in 1..m : (q \o e)[1 + i] = e[i]
  <2>1. /\ q \o e \in Seq(S) /\ Len(q \o e) = Len(q) + Len(e)
        /\ \A i \in 1..Len(q) : (q \o e)[i] = q[i]
        /\ \A i \in 1..Len(e) : (q \o e)[Len(q) + i] = e[i]
    <3>1. q \in Seq(S) /\ e \in Seq(S)
      BY <1>2, <1>4
    <3> QED
      BY <3>1, SeqJoin
  <2>2. 1 \in 1..1
    OBVIOUS
  <2> QED
    BY <1>2, <1>4, <2>1, <2>2, Zenon
<1>6. /\ Len(p) = (1 + m) + 1
      /\ \A i \in 1..(1 + m) : p[i] = (q \o e)[i]
      /\ p[(1 + m) + 1] = q[1]
  <2> DEFINE x == q \o e
  <2>1. x \in Seq(S) /\ Len(x) = 1 + m
    BY <1>5
  <2>2. p = x \o q
    BY <1>1
  <2> HIDE DEF x
  <2>3. /\ Len(p) = Len(x) + Len(q)
        /\ \A i \in 1..Len(x) : p[i] = x[i]
        /\ \A i \in 1..Len(q) : p[Len(x) + i] = q[i]
    <3>1. x \in Seq(S) /\ q \in Seq(S)
      BY <1>2, <2>1
    <3>2. /\ x \o q \in Seq(S) /\ Len(x \o q) = Len(x) + Len(q)
          /\ \A i \in 1..Len(x) : (x \o q)[i] = x[i]
          /\ \A i \in 1..Len(q) : (x \o q)[Len(x) + i] = q[i]
      BY <3>1, SeqJoin
    <3> QED
      BY <2>2, <3>2, Zenon
  <2>4. 1 \in 1..1
    OBVIOUS
  <2> QED
    BY <1>2, <2>1, <2>3, <2>4, Zenon DEF x
<1>7. /\ w[1] = <<DQUOTE>> /\ w[m + 2] = <<DQUOTE>>
      /\ \A i \in 1..m : w[i + 1] = Escaped(t[i])
  BY BytesAreNumbers, Printed
<1> HIDE DEF w
<1>8. p[1] = String!Is(<<34>>) /\ p[m + 2] = String!Is(<<34>>)
  <2>1. 1 \in 1..(1 + m) /\ (1 + m) + 1 = m + 2
    OBVIOUS
  <2> QED
    BY <1>2, <1>5, <1>6, <2>1, Zenon
<1>9. \A i \in 1..m : p[i + 1] = String!Quote(t[i])
  <2> TAKE i \in 1..m
  <2>1. i + 1 \in 1..(1 + m) /\ 1 + i = i + 1
    OBVIOUS
  <2> QED
    BY <1>4, <1>5, <1>6, <2>1, Zenon
<1>10. String!StandsFor(<<34>>, String!Is(<<34>>))
  BY TextIsWritten
<1>11. \A i \in 1..(m + 2) : String!StandsFor(w[i], p[i])
  <2> TAKE i \in 1..(m + 2)
  <2>1. CASE i = 1 \/ i = m + 2
    BY <1>7, <1>8, <1>10, <2>1, Zenon DEF DQUOTE
  <2>2. CASE ~(i = 1 \/ i = m + 2)
    <3>1. PICK k \in 1..m : i = k + 1
      <4>1. i - 1 \in 1..m /\ i = (i - 1) + 1
        BY <2>2
      <4> QED
        BY <4>1
    <3>2. t[k] \in 0..255
      BY <1>3, FormatAssumption
    <3>3. String!StandsFor(Escaped(t[k]), String!Quote(t[k]))
      BY <3>2, QuoteIsWritten
    <3>4. w[i] = Escaped(t[k]) /\ p[i] = String!Quote(t[k])
      BY <1>7, <1>9, <3>1, Zenon
    <3> QED
      BY <3>3, <3>4, Zenon
  <2> QED
    BY <2>1, <2>2
<1>12. Len(p) = m + 2
  BY <1>6
<1> QED
  BY <1>11, <1>12 DEF p, w

LEMMA ReprStep == IInv /\ Catrepr => IInv' /\ String!Catrepr
<1> SUFFICES ASSUME IInv, Catrepr PROVE IInv' /\ String!Catrepr
  OBVIOUS
<1>1. PICK t \in Text :
        LET pieces == ReprPieces(t)
            blocks == AppendBlocks(s, pieces)
            n == Len(pieces)
        IN  /\ Held
            /\ s.len + Len(FlattenSeq(pieces)) <= MaxLen
            /\ call' = [op |-> "sdscatrepr", text |-> t]
            /\ \/ s' = blocks[n] /\ ret' = "ok"
               \/ s' = sdsnewlen(<<>>) /\ ret' \in {"none", "crash"}
  BY DEF Catrepr
<1> DEFINE w == ReprPieces(t)
           u == Content(s)
<1>2. t \in Seq(Byte) /\ w \in Seq(Seq(Byte))
  BY SdsAssumption, ReprTypes
<1>3. PICK m \in Nat : m = Len(t)
  BY <1>2, SeqElements
<1>4. PICK n \in Nat : n = Len(w)
  BY <1>2, SeqElements
<1>5. n = m + 2
  BY <1>2, <1>3, <1>4, BytesAreNumbers, Printed
<1> DEFINE z == AppendBlocks(s, w)[n]
<1>6. /\ Held /\ s.len + Len(FlattenSeq(w)) <= MaxLen
      /\ call' = [op |-> "sdscatrepr", text |-> t]
      /\ \/ s' = z /\ ret' = "ok"
         \/ s' = sdsnewlen(<<>>) /\ ret' \in {"none", "crash"}
  BY <1>1, <1>4
<1>7. Good(s) /\ u \in Seq(Byte) /\ Bytes = u
  BY <1>6, ContentBytes DEF IInv, Bytes
<1>8. Len(QuoteParts(t)) = n /\ \A i \in 1..n : String!StandsFor(w[i], QuoteParts(t)[i])
  BY <1>2, <1>3, <1>5, PartsOfQuote
<1> HIDE DEF w
<1>9. Good(z) /\ Content(z) = u \o FlattenSeq(w)
  BY <1>2, <1>4, <1>6, <1>7, AppendEnds
<1> HIDE DEF z, u
<1>10. call'.op = "sdscatrepr" /\ call'.text = t /\ String!Exists
  BY <1>6 DEF String!Exists, Held
<1>11. CASE s' = z /\ ret' = "ok"
  <2>1. IInv' /\ String!AppendsAll(QuoteParts(t))
    BY <1>2, <1>4, <1>7, <1>8, <1>9, <1>11, WholeAppended
  <2> QED
    BY <1>10, <2>1, Zenon DEF String!Catrepr, QuoteParts
<1>12. CASE s' = sdsnewlen(<<>>) /\ ret' = "none"
  <2>1. IInv' /\ String!Lost("none")
    BY <1>12, NoneIsLost
  <2> QED
    BY <1>10, <2>1, Zenon DEF String!Catrepr
<1>13. CASE s' = sdsnewlen(<<>>) /\ ret' = "crash"
  <2>1. IInv' /\ String!Lost("crash")
    BY <1>13, NoneIsLost
  <2> QED
    BY <1>10, <2>1, Zenon DEF String!Catrepr
<1> QED
  BY <1>6, <1>11, <1>12, <1>13

LEMMA JoinStep == IInv /\ Join => IInv' /\ String!Join
<1> SUFFICES ASSUME IInv, Join PROVE IInv' /\ String!Join
  OBVIOUS
<1> DEFINE e == sdsnewlen(<<>>)
<1>1. PICK w \in Joins :
        /\ ret = "none" /\ Len(FlattenSeq(w)) <= MaxLen
        /\ call' = [op |-> "sdsjoinsds", pieces |-> w]
        /\ \/ s' = AppendBlocks(e, w)[Len(w)] /\ ret' = "ok"
           \/ s' = e /\ ret' = "crash"
  BY DEF Join
<1>2. Good(e) /\ Content(e) = <<>> /\ e.len = 0
  <2>1. <<>> \in Seq(Byte) /\ Len(<<>>) = 0 /\ 0 <= MaxLen
    BY SdsAssumption
  <2>2. Good(e) /\ HasBytes(e, <<>>)
    BY <2>1, NewGood
  <2> HIDE DEF e
  <2>3. Content(e) = <<>>
    BY <2>1, <2>2, HasContent
  <2> QED
    BY <2>1, <2>2, <2>3 DEF HasBytes
<1>3. call'.op = "sdsjoinsds" /\ call'.pieces = w /\ ret = "none"
  BY <1>1
<1>4. CASE s' = e /\ ret' = "crash"
  <2>1. IInv' /\ String!Lost("crash")
    BY <1>4, NoneIsLost
  <2> QED
    BY <1>3, <2>1, Zenon DEF String!Join
<1> HIDE DEF e
<1>5. w \in Seq(Seq(Byte))
  BY FormatAssumption
<1>6. PICK n \in Nat : n = Len(w)
  BY <1>5, SeqElements
<1> DEFINE z == AppendBlocks(e, w)[n]
           parts == [i \in DOMAIN w |-> String!Is(w[i])]
<1>7. e.len + Len(FlattenSeq(w)) <= MaxLen
  <2>1. FlattenSeq(w) \in Seq(Byte)
    BY <1>5, FlatBytes
  <2>2. Len(FlattenSeq(w)) \in Nat
    BY <2>1, SeqElements
  <2> QED
    BY <1>1, <1>2, <2>2
<1>8. Good(z) /\ Content(z) = <<>> \o FlattenSeq(w)
  BY <1>2, <1>5, <1>6, <1>7, AppendEnds
<1>9. Len(parts) = n /\ \A i \in 1..n : parts[i] = String!Is(w[i])
  BY <1>5, <1>6
<1> HIDE DEF z, parts
<1>10. \A i \in 1..n : String!StandsFor(w[i], parts[i])
  BY <1>9, TextIsWritten
<1>11. CASE s' = z /\ ret' = "ok"
  <2>1. <<>> \in Seq(Byte) /\ Bytes = <<>>
    BY <1>1 DEF Bytes, Held
  <2>2. IInv' /\ String!AppendsAll(parts)
    BY <1>5, <1>6, <1>8, <1>9, <1>10, <1>11, <2>1, WholeAppended
  <2> QED
    BY <1>3, <2>2, Zenon DEF String!Join, parts
<1> QED
  BY <1>1, <1>4, <1>6, <1>11 DEF z

LEMMA CallsKeep == IInv /\ [NextFormat]_vars => IInv' /\ ByteStringStep
<1>1. ASSUME IInv, [Next]_vars PROVE IInv' /\ ByteStringStep
  BY <1>1, NextGood, PlainStep
<1>2. ASSUME IInv, Catfmt \/ Catrepr \/ Join PROVE IInv' /\ ByteStringStep
  <2>1. IInv' /\ (String!Catfmt \/ String!Catrepr \/ String!Join)
    BY <1>2, FormatStep, ReprStep, JoinStep, Zenon
  <2>2. String!Next
    BY <2>1, Zenon DEF String!Next
  <2> QED
    BY <2>1, <2>2 DEF ByteStringStep
<1> QED
  BY <1>1, <1>2 DEF NextFormat

\* The layout of the block after every sequence of calls, those that append
\* in several pieces among them: sdscatfmt reserves for its format before it
\* knows the texts and the numbers, writes them without a terminator and makes
\* room again for each; sdscatrepr and sdsjoinsds append what they compute.
\* For every set of header types, texts, formats and lengths the bytes stay
\* in the room that was allocated and a NUL is behind them when the call ends.
THEOREM FormattedStringsAreWellFormed == SpecFormat => []WellFormed
<1>1. IInv => WellFormed
  BY DEF IInv, Good, WellFormed
<1>2. IInv /\ [NextFormat]_vars => IInv'
  BY CallsKeep
<1> QED
  BY <1>1, <1>2, InitGood, PTL DEF SpecFormat

\* For every set of header types, texts, formats and lengths: each call, with the
\* arguments it was given, does to the bytes what its comment in sds.c says,
\* and nothing when it returns NULL, whatever header and room the string has.
\* sdscatfmt appends what its directives stand for, numbers in decimal among
\* them, sdscatrepr the quoted text, and sdsjoinsds makes the joined one.
THEOREM FormattedStringsImplementByteStrings == SpecFormat => ImplementsByteString
<1>1. Init => String!Init
  BY DEF Init, Held, Bytes, String!Init
<1> QED
  BY <1>1, InitGood, CallsKeep, PTL DEF SpecFormat, ImplementsByteString, String!Spec, ByteStringStep

\* Whatever string the calls made, of any length: split at any separator, its
\* parts have the separator nowhere in them, fit the array that sdssplitlen
\* allocated and join to the string again; quoted by sdscatrepr and read by
\* sdssplitargs, it comes back as the one argument, with every byte it had.
THEOREM TextsReturn == SpecFormat => []TextsComeBack
<1>1. ASSUME IInv PROVE TextsComeBack
  <2> DEFINE t == Content(s)
  <2>1. t \in Seq(Byte)
    BY <1>1, ContentBytes DEF IInv
  <2> HIDE DEF t
  <2>2. t \in Seq(0..255) /\ t \in Seq(Nat)
    BY <2>1, BytesAreNumbers
  <2>3. ASSUME NEW sep \in Text \ {<<>>}, NEW r \in sdssplitlen(t, sep), r # NoTokens
        PROVE  /\ sdsjoinsds(r.tokens, sep) = t
               /\ \A k \in 1..Len(r.tokens) : \A j \in 0..(Len(r.tokens[k]) - 1) :
                    ~FoundAt(r.tokens[k], j, sep)
               /\ Len(r.tokens) <= r.slots
    <3>1. sep \in Seq(Byte) /\ sep # <<>>
      BY SdsAssumption
    <3>2. sep \in Seq(Nat)
      BY <3>1, BytesAreNumbers
    <3>3. Splits(t, sep, Split(t, sep))
      BY <2>2, <3>1, <3>2, TextsSplit
    <3>4. r = Split(t, sep)
      BY <2>3 DEF sdssplitlen
    <3> QED
      BY <3>3, <3>4, Zenon DEF Splits, Whole
  <2>4. sdssplitargs(FlattenSeq(ReprPieces(t))) = [ok |-> TRUE, args |-> <<t>>]
    BY <2>2, QuotedTextsReturn
  <2> QED
    BY <2>3, <2>4, Zenon DEF TextsComeBack, t
<1>2. IInv /\ [NextFormat]_vars => IInv'
  BY CallsKeep
<1> QED
  BY <1>1, <1>2, InitGood, PTL DEF SpecFormat
=============================================================================
