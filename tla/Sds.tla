-------------------------------- MODULE Sds --------------------------------
(***************************************************************************)
(* The dynamic strings of edit_distance/sds.c, the memory of the words the *)
(* programs of the repository scan.  A string is a block of memory: a      *)
(* header of one of five types, which limits the length it can record, the *)
(* bytes, and a NUL after them.                                            *)
(*                                                                         *)
(* A block is a record: type; len and alloc, what the header holds (the    *)
(* header of type 0, SDS_TYPE_5, has no alloc); room, the bytes allocated  *)
(* behind the header; and buf, the bytes written since they were last      *)
(* moved or cut - what lies behind them is not told apart.  A write beyond *)
(* room makes buf longer than room.  malloc and realloc may fail.          *)
(*                                                                         *)
(* The operations are the actions of a caller that has one string and, as  *)
(* the comments of sds.c ask, goes on with the pointer it is given.  After *)
(* a NULL it may go on with the old one, or lose it.                       *)
(***************************************************************************)
EXTENDS Integers, Sequences

CONSTANTS Byte,             \* values of a char
          NUL,              \* the terminator
          Text,             \* what callers pass
          Charsets,         \* sets of characters they pass
          Capacity,         \* by type: the largest length its header records
          SDS_MAX_PREALLOC, \* above it, room is no longer doubled (1 MB)
          MaxLen            \* bound of the model: the longest string

Types == 0..4
SDS_TYPE_5 == 0
SDS_TYPE_8 == 1

ASSUME SdsAssumption ==
  /\ NUL \in Byte
  /\ Charsets \subseteq SUBSET Byte
  /\ Text \subseteq Seq(Byte)
  /\ Capacity \in [Types -> Nat]
  /\ \A t \in 0..3 : Capacity[t] < Capacity[t + 1]
  /\ SDS_MAX_PREALLOC \in Nat
  /\ MaxLen \in Nat
  /\ \A t \in Text : Len(t) <= MaxLen
  \* no length the model reaches overflows size_t
  /\ 2 * MaxLen <= Capacity[4]
  /\ MaxLen + SDS_MAX_PREALLOC <= Capacity[4]

VARIABLES s,    \* the block the caller's pointer points into
          ret,  \* what the last call returned: "ok", "null"; "none" without a string
          call  \* the last call and its arguments, which no step looks at

vars == <<s, ret, call>>

-----------------------------------------------------------------------------
(* Headers: sds.h and the first functions of sds.c.                        *)

sdslen(b) == b.len
sdsalloc(b) == IF b.type = SDS_TYPE_5 THEN b.len ELSE b.alloc
sdsavail(b) == IF b.type = SDS_TYPE_5 THEN 0 ELSE b.alloc - b.len

\* A header keeps the low bits of what is stored in it.
sdssetlen(b, n) == [b EXCEPT !.len = n % (Capacity[b.type] + 1)]
sdssetalloc(b, n) ==
  IF b.type = SDS_TYPE_5 THEN b ELSE [b EXCEPT !.alloc = n % (Capacity[b.type] + 1)]

sdsReqType(n) == CHOOSE t \in Types : /\ t < 4 => n <= Capacity[t]
                                      /\ \A u \in 0..(t - 1) : n > Capacity[u]

\* The bytes a caller sees.
Content(b) == SubSeq(b.buf, 1, b.len)

\* memcpy or memmove of t to offset at, and a byte stored behind it.
Put(b, at, t) == [b EXCEPT !.buf = SubSeq(b.buf, 1, at) \o t]
PutNul(b, at) == Put(b, at, <<NUL>>)

\* A new block of a type, with room for n bytes and the terminator.
Block(type, n) == [type |-> type, len |-> 0, alloc |-> 0, room |-> n + 1, buf |-> <<>>]

sdsnewlen(t) ==
  LET n == Len(t)
      req == sdsReqType(n)
      type == IF req = SDS_TYPE_5 /\ n = 0 THEN SDS_TYPE_8 ELSE req
      fresh == sdssetalloc(sdssetlen(Block(type, n), n), n)
  IN  PutNul(Put(fresh, 0, t), n)

-----------------------------------------------------------------------------
(* Room.  A block moved to another header copies its bytes and their NUL.  *)

\* The block b resized, or moved behind a header of another type.  During
\* sdscatfmt the terminator has not been written yet.
Moved(b) == SubSeq(b.buf, 1, IF Len(b.buf) > b.len THEN b.len + 1 ELSE Len(b.buf))

Resize(b, type, n) ==
  IF type = b.type
  THEN sdssetalloc([b EXCEPT !.room = n + 1, !.buf = Moved(b)], n)
  ELSE sdssetalloc(sdssetlen([Block(type, n) EXCEPT !.buf = Moved(b)], b.len), n)

Enlarged(n) == IF n < SDS_MAX_PREALLOC THEN 2 * n ELSE n + SDS_MAX_PREALLOC

\* The header chosen for the bytes asked for, before they are doubled.
sdsMakeRoomForTooLittle(b, addlen) ==
  LET req == sdsReqType(b.len + addlen)
      type == IF req = SDS_TYPE_5 THEN SDS_TYPE_8 ELSE req
  IN  IF sdsavail(b) >= addlen THEN b ELSE Resize(b, type, Enlarged(b.len + addlen))

sdsMakeRoomFor(b, addlen) ==
  LET newlen == Enlarged(b.len + addlen)
      req == sdsReqType(newlen)
      type == IF req = SDS_TYPE_5 THEN SDS_TYPE_8 ELSE req
  IN  IF sdsavail(b) >= addlen THEN b ELSE Resize(b, type, newlen)

sdsRemoveFreeSpace(b) ==
  LET req == sdsReqType(b.len)
      type == IF req > SDS_TYPE_8 THEN b.type ELSE req
  IN  IF sdsavail(b) = 0 THEN b ELSE Resize(b, type, b.len)

-----------------------------------------------------------------------------
(* Contents.                                                               *)

sdscatlen(b, t) ==
  LET r == sdsMakeRoomFor(b, Len(t))
      n == b.len + Len(t)
  IN  PutNul(sdssetlen(Put(r, b.len, t), n), n)

sdscpylen(b, t) ==
  LET r == IF sdsalloc(b) < Len(t) THEN sdsMakeRoomFor(b, Len(t) - b.len) ELSE b
  IN  sdssetlen(PutNul(Put(r, 0, t), Len(t)), Len(t))

sdsgrowzero(b, n) ==
  LET r == sdsMakeRoomFor(b, n - b.len)
  IN  IF n <= b.len THEN b
      ELSE sdssetlen(Put(r, b.len, [i \in 1..(n - b.len + 1) |-> NUL]), n)

sdsclear(b) == PutNul(sdssetlen(b, 0), 0)

\* strlen: up to the first NUL, which need not be the terminator.
Strlen(b) == CHOOSE n \in 0..b.len : /\ b.buf[n + 1] = NUL
                                     /\ \A i \in 1..n : b.buf[i] # NUL
sdsupdatelen(b) == LET n == Strlen(b)
                   IN  sdssetlen([b EXCEPT !.buf = SubSeq(@, 1, n + 1)], n)

\* What sdsrange and sdstrim keep: n bytes from offset at moved to the front.
Keep(b, at, n) == sdssetlen(PutNul(Put(b, 0, SubSeq(b.buf, at + 1, at + n)), n), n)

\* A negative index counted from the last byte instead of from behind it.
OffsetFromLast(b, i) == IF i >= 0 THEN i ELSE IF b.len - 1 + i < 0 THEN 0 ELSE b.len - 1 + i

\* An index counts from the end when it is negative, and stops at the start.
Offset(b, i) == IF i >= 0 THEN i ELSE IF b.len + i < 0 THEN 0 ELSE b.len + i

sdsrange(b, first, last) ==
  LET start == Offset(b, first)
      end == IF Offset(b, last) >= b.len THEN b.len - 1 ELSE Offset(b, last)
      empty == start > Offset(b, last) \/ start >= b.len \/ start > end
  IN  IF b.len = 0 THEN b
      ELSE IF empty THEN Keep(b, 0, 0)
      ELSE Keep(b, start, end - start + 1)

\* strchr(cset, c) also finds the NUL that ends cset.
InSet(cset, c) == c \in cset \cup {NUL}

sdstrim(b, cset) ==
  LET inner == {i \in 1..b.len : ~InSet(cset, b.buf[i])}
      sp == CHOOSE i \in inner : \A k \in inner : i <= k
      ep == CHOOSE i \in inner : \A k \in inner : k <= i
  IN  IF inner = {} THEN Keep(b, 0, 0) ELSE Keep(b, sp - 1, ep - sp + 1)

\* sdsmapchars with a set of one; sdstolower and sdstoupper are of this kind.
sdsmapchars(b, from, to) ==
  [b EXCEPT !.buf = [i \in 1..Len(b.buf) |->
     IF i <= b.len /\ b.buf[i] = from THEN to ELSE b.buf[i]]]

\* The assertion of sdsIncrLen, and what it does when it holds.
MayIncr(b, incr) ==
  IF b.type = SDS_TYPE_5
  THEN \/ incr > 0 /\ b.len + incr <= Capacity[SDS_TYPE_5]
       \/ incr < 0 /\ b.len >= -incr
  ELSE \/ incr >= 0 /\ b.alloc - b.len >= incr
       \/ incr < 0 /\ b.len >= -incr

sdsIncrLen(b, incr) == PutNul(sdssetlen(b, b.len + incr), b.len + incr)

-----------------------------------------------------------------------------
Init ==
  /\ s = sdsnewlen(<<>>)
  /\ ret = "none"
  /\ call = [op |-> "none"]

Held == ret \in {"ok", "null"}

\* A call that returns the string, in the same block or in another: when it
\* needs memory (the block changes size) it may return NULL instead.
Call(c, b) ==
  /\ Held
  /\ call' = c
  /\ \/ s' = b /\ ret' = "ok"
     \/ /\ b.room # s.room \/ b.type # s.type
        /\ s' = s /\ ret' = "null"

\* sdsnewlen, sdsnew, sdsempty, sdsdup: also when the last pointer was lost.
New ==
  \E t \in Text :
    /\ ret \in {"none", "null"}
    /\ call' = [op |-> "sdsnewlen", text |-> t]
    /\ \/ s' = sdsnewlen(t) /\ ret' = "ok"
       \/ s' = sdsnewlen(<<>>) /\ ret' = "none"

Free ==
  /\ Held
  /\ call' = [op |-> "sdsfree"]
  /\ s' = sdsnewlen(<<>>)
  /\ ret' = "none"

Updatelen == Call([op |-> "sdsupdatelen"], sdsupdatelen(s))
Clear == Call([op |-> "sdsclear"], sdsclear(s))
MakeRoomFor ==
  \E n \in 0..(MaxLen - s.len) :
    Call([op |-> "sdsMakeRoomFor", length |-> n], sdsMakeRoomFor(s, n))
RemoveFreeSpace == Call([op |-> "sdsRemoveFreeSpace"], sdsRemoveFreeSpace(s))
Growzero ==
  \E n \in 0..MaxLen : Call([op |-> "sdsgrowzero", length |-> n], sdsgrowzero(s, n))
Cat ==
  \E t \in Text :
    s.len + Len(t) <= MaxLen /\ Call([op |-> "sdscatlen", text |-> t], sdscatlen(s, t))
Cpy == \E t \in Text : Call([op |-> "sdscpylen", text |-> t], sdscpylen(s, t))
Trim ==
  \E cset \in Charsets : Call([op |-> "sdstrim", cset |-> cset], sdstrim(s, cset))
Slice ==
  \E i, j \in -(MaxLen + 1)..(MaxLen + 1) :
    Call([op |-> "sdsrange", first |-> i, last |-> j], sdsrange(s, i, j))
Mapchars ==
  \E from, to \in UNION Charsets :
    Call([op |-> "sdsmapchars", from |-> from, to |-> to], sdsmapchars(s, from, to))

\* The caller writes into the room it has (read(2) in the comment of
\* sdsIncrLen) and adds the bytes, or takes bytes off the end.
Read ==
  \E t \in Text :
    /\ Len(t) > 0
    /\ Len(t) <= sdsavail(s)
    /\ s.len + Len(t) <= MaxLen
    /\ MayIncr(s, Len(t))
    /\ Call([op |-> "read", text |-> t], sdsIncrLen(Put(s, s.len, t), Len(t)))

Shorten ==
  \E n \in 1..MaxLen :
    MayIncr(s, -n) /\ Call([op |-> "shorten", length |-> n], sdsIncrLen(s, -n))

Next ==
  \/ New \/ Free \/ Updatelen \/ Clear \/ MakeRoomFor \/ RemoveFreeSpace \/ Growzero
  \/ Cat \/ Cpy \/ Trim \/ Slice \/ Mapchars \/ Read \/ Shorten

Spec == Init /\ [][Next]_vars

-----------------------------------------------------------------------------
Blocks == [type : Types, len : Nat, alloc : Nat, room : Nat, buf : Seq(Byte)]

(* A string that any call may be made on: its length and its allocation    *)
(* fit the header and the block, nothing was written behind the block, and *)
(* a NUL follows the bytes.                                                *)
WellFormedString(b) ==
  /\ b \in Blocks
  /\ b.len <= sdsalloc(b)
  /\ sdsalloc(b) <= Capacity[b.type]
  /\ sdsalloc(b) < b.room
  /\ b.len < Len(b.buf)
  /\ Len(b.buf) <= b.room
  /\ b.buf[b.len + 1] = NUL

WellFormed == WellFormedString(s)
=============================================================================
