----------------------------- MODULE ByteString -----------------------------
(***************************************************************************)
(* What sds.c promises the programs that use it: a string of any bytes,    *)
(* and what each call does to them.  Nothing here knows of headers,        *)
(* allocations or terminators.  A call that needs memory may return NULL   *)
(* and has then done nothing, or be the end of the program.                *)
(*                                                                         *)
(* There is an action for each call: it says what the function named in    *)
(* call.op may do with the arguments that the other fields of call hold.   *)
(***************************************************************************)
EXTENDS Integers, Sequences

CONSTANTS Zero,  \* the byte sdsgrowzero pads with and a C string ends at
          Least  \* the least number, whose magnitude is not a number

VARIABLES call,    \* the last call
          result,  \* "ok", "null"; "none" without a string; "crash", "undefined"
          str      \* the bytes

Init == result = "none" /\ str = <<>>

Exists == result \in {"ok", "null"}

Returns(new) == result' = "ok" /\ str' = new
Refused == result' = "null" /\ str' = str
Lost(how) == result' = how /\ str' = <<>>

-----------------------------------------------------------------------------
(* Texts that stand for something.                                         *)

\* Digits, read from the left.
Reading(t) ==
  LET value[k \in 0..Len(t)] == IF k = 0 THEN 0 ELSE 10 * value[k - 1] + t[k] - 48
  IN  value[Len(t)]

IsDecimalOf(t, n) ==
  LET digits == IF n < 0 THEN Tail(t) ELSE t
  IN  /\ t # <<>> /\ (n < 0 => t[1] = 45)
      /\ digits \in Seq(48..57)
      /\ digits # <<>> /\ (digits[1] = 48 => Len(digits) = 1)
      /\ Reading(digits) = IF n < 0 THEN -n ELSE n

\* The escapes with a letter, and the digits of the others.
Named == {<<92, 92>>, <<34, 34>>, <<110, 10>>, <<114, 13>>, <<116, 9>>, <<97, 7>>, <<98, 8>>}
Hex == [n \in 0..15 |-> IF n < 10 THEN 48 + n ELSE 87 + n]

IsQuoteOf(t, c) ==
  \/ \E x \in Named : x[2] = c /\ t = <<92, x[1]>>
  \/ \A x \in Named : x[2] # c /\ \/ c \in 32..126 /\ t = <<c>>
                                  \/ /\ c \notin 32..126
                                     /\ \E h, l \in 0..15 : c = 16 * h + l
                                          /\ t = <<92, 120, Hex[h], Hex[l]>>

StandsFor(t, part) ==
  CASE part.kind = "%i" -> IsDecimalOf(t, part.number)
    [] part.kind = "byte" -> IsQuoteOf(t, part.byte)
    [] OTHER -> t = part.text

\* Behind the string, one after the other, stand the parts.
AppendsAll(parts) ==
  /\ result' = "ok"
  /\ Len(str) <= Len(str') /\ SubSeq(str', 1, Len(str)) = str
  /\ \E cut \in [0..Len(parts) -> Len(str)..Len(str')] :
       /\ cut[0] = Len(str) /\ cut[Len(parts)] = Len(str')
       /\ \A i \in 1..Len(parts) :
            cut[i - 1] <= cut[i] /\ StandsFor(SubSeq(str', cut[i - 1] + 1, cut[i]), parts[i])

Is(t) == [kind |-> "text", text |-> t]
Quote(c) == [kind |-> "byte", byte |-> c]

-----------------------------------------------------------------------------
New ==
  /\ call'.op = "sdsnewlen" /\ result \in {"none", "null"}
  /\ Returns(call'.text) \/ Lost("none")

Free == call'.op = "sdsfree" /\ Exists /\ Lost("none")

\* Only the room changes.
Resize ==
  /\ call'.op \in {"sdsMakeRoomFor", "sdsRemoveFreeSpace"} /\ Exists
  /\ Returns(str) \/ Refused

Clear == call'.op = "sdsclear" /\ Exists /\ Returns(<<>>)

\* Up to the first zero, if there is one.
Updatelen ==
  /\ call'.op = "sdsupdatelen" /\ Exists
  /\ \E n \in 0..Len(str) : /\ \A i \in 1..n : str[i] # Zero
                            /\ n < Len(str) => str[n + 1] = Zero
                            /\ Returns(SubSeq(str, 1, n))

Growzero ==
  /\ call'.op = "sdsgrowzero" /\ Exists
  /\ LET n == IF call'.length <= Len(str) THEN Len(str) ELSE call'.length
     IN  Returns([i \in 1..n |-> IF i <= Len(str) THEN str[i] ELSE Zero]) \/ Refused

Cat == call'.op = "sdscatlen" /\ Exists /\ (Returns(str \o call'.text) \/ Refused)

Cpy == call'.op = "sdscpylen" /\ Exists /\ (Returns(call'.text) \/ Refused)

\* strchr finds the zero that ends the set, so zeros are trimmed as well.
Trim ==
  /\ call'.op = "sdstrim" /\ Exists
  /\ LET cset == call'.cset \cup {Zero}
     IN  \E i \in 1..(Len(str) + 1), j \in 0..Len(str) :
           /\ \A k \in (1..(i - 1)) \cup ((j + 1)..Len(str)) : str[k] \in cset
           /\ i <= j => str[i] \notin cset /\ str[j] \notin cset
           /\ Returns(SubSeq(str, i, j))

\* From one offset to the other, both inclusive; -1 is the last byte, and an
\* offset before the first byte is the first.
Range ==
  LET offset(i) == IF i >= 0 THEN i ELSE IF i < -Len(str) THEN 0 ELSE Len(str) + i
      last == IF offset(call'.last) < Len(str) THEN offset(call'.last) + 1 ELSE Len(str)
  IN  /\ call'.op = "sdsrange" /\ Exists
      /\ Returns(SubSeq(str, offset(call'.first) + 1, last))

Mapchars ==
  /\ call'.op = "sdsmapchars" /\ Exists
  /\ Returns([i \in 1..Len(str) |-> IF str[i] = call'.from THEN call'.to ELSE str[i]])

\* sdsIncrLen: the caller has written text behind the bytes, or takes some off.
Read == call'.op = "read" /\ Exists /\ Returns(str \o call'.text)
Shorten ==
  /\ call'.op = "shorten" /\ Exists
  /\ call'.length <= Len(str) /\ Returns(SubSeq(str, 1, Len(str) - call'.length))

\* A format must not end within a directive.
HasMeaning(part) == part.kind # "%" /\ (part.kind = "%i" => part.number # Least)

Catfmt ==
  /\ call'.op = "sdscatfmt" /\ Exists
  /\ \/ /\ \A i \in DOMAIN call'.format : HasMeaning(call'.format[i])
        /\ AppendsAll(call'.format)
     \/ /\ \E i \in DOMAIN call'.format : ~HasMeaning(call'.format[i])
        /\ Lost("undefined")
     \/ Lost("crash")

Catrepr ==
  /\ call'.op = "sdscatrepr" /\ Exists
  /\ \/ AppendsAll(<<Is(<<34>>)>> \o [i \in DOMAIN call'.text |-> Quote(call'.text[i])]
                     \o <<Is(<<34>>)>>)
     \/ Lost("crash")
     \/ Lost("none")

Join ==
  /\ call'.op = "sdsjoinsds" /\ result = "none"
  /\ \/ AppendsAll([i \in DOMAIN call'.pieces |-> Is(call'.pieces[i])])
     \/ Lost("crash")

Next ==
  \/ New \/ Free \/ Resize \/ Clear \/ Updatelen \/ Growzero \/ Cat \/ Cpy \/ Trim
  \/ Range \/ Mapchars \/ Read \/ Shorten \/ Catfmt \/ Catrepr \/ Join

Spec == Init /\ [][Next]_<<call, result, str>>
=============================================================================
