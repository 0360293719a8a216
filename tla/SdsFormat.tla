----------------------------- MODULE SdsFormat -----------------------------
(***************************************************************************)
(* The calls of edit_distance/sds.c that append in several pieces:         *)
(* sdscatfmt, sdscatrepr and sdsjoinsds.  They go on without looking       *)
(* whether a piece could be appended, so a malloc that fails ends the      *)
(* program or, at the last piece, loses the string.                        *)
(***************************************************************************)
EXTENDS Sds, SdsText, FiniteSets

CONSTANTS Formats,   \* the calls of sdscatfmt: sequences of directives
          Joins,     \* those of sdsjoinsds: two strings and a separator between
          LLONG_MIN  \* the least long long; the largest is one less in magnitude

\* A directive: a byte of the format, %s with its text, %i with its number,
\* %% (any other letter is treated as %% is), or a % at the end of the format.
Lit(c) == [kind |-> "lit", text |-> <<c>>]
Str(t) == [kind |-> "%s", text |-> t]
Num(n) == [kind |-> "%i", number |-> n]
Percent(c) == [kind |-> "%%", text |-> <<c>>]
Lone == [kind |-> "%", text |-> <<>>]

Directives ==
  [kind : {"lit", "%%"}, text : {<<c>> : c \in Byte}]
    \cup [kind : {"%s"}, text : Seq(Byte)]
    \cup [kind : {"%i"}, number : LLONG_MIN..(-(LLONG_MIN + 1))]
    \cup {Lone}

\* The length of the format, in which %s, %i and %% have two bytes.
strlen(fmt) == Len(fmt) + Cardinality({i \in DOMAIN fmt : fmt[i].kind \in {"%s", "%i", "%%"}})

ASSUME FormatAssumption ==
  /\ NUL = 0 /\ Byte = 0..255
  /\ LLONG_MIN \in Int
  /\ Formats \subseteq Seq(Directives)
  \* no length they ask room for overflows size_t
  /\ \A fmt \in Formats :
       /\ 4 * (MaxLen + strlen(fmt)) <= Capacity[4]
       /\ 2 * (MaxLen + strlen(fmt)) + SDS_MAX_PREALLOC <= Capacity[4]
  /\ Joins \subseteq Seq(Seq(Byte))

\* What sdscatfmt writes for a directive, and for a format.
Written(d) == IF d.kind = "%i" THEN sdsll2str(d.number) ELSE d.text
Expansion(fmt) == FlattenSeq([i \in 1..Len(fmt) |-> Written(fmt[i])])

\* Where C gives the call no meaning: -value overflows for the least number,
\* and behind a % at the end the loop goes on reading past the terminator.
Meaningless(d) == d.kind = "%" \/ (d.kind = "%i" /\ d.number = LLONG_MIN)

\* The block after a directive: a first look for one byte of room, then for
\* the text; sdsinclen adds to the length; no terminator yet.
Directive(b, d) ==
  LET one == IF sdsavail(b) = 0 THEN sdsMakeRoomFor(b, 1) ELSE b
      n == Len(Written(d))
      r == IF d.kind \in {"%s", "%i"} /\ sdsavail(one) < n
           THEN sdsMakeRoomFor(one, n) ELSE one
  IN  sdssetlen(Put(r, r.len, Written(d)), r.len + n)

FormatRoom(b, fmt) ==
  sdsMakeRoomFor(b, b.len + 2 * strlen(fmt))

\* The blocks a call goes through.
FormatBlocks(b, fmt) ==
  LET after[n \in 0..Len(fmt)] ==
        IF n = 0 THEN FormatRoom(b, fmt) ELSE Directive(after[n - 1], fmt[n])
  IN  [n \in 0..(Len(fmt) + 1) |-> IF n = 0 THEN b ELSE after[n - 1]]

AppendBlocks(b, pieces) ==
  LET after[n \in 0..Len(pieces)] ==
        IF n = 0 THEN b ELSE sdscatlen(after[n - 1], pieces[n])
  IN  after

\* Between two of them memory was asked for.
Allocates(b, c) == b.room # c.room \/ b.type # c.type

Catfmt ==
  \E fmt \in Formats :
    LET blocks == FormatBlocks(s, fmt)
        n == Len(fmt) + 1
        result == PutNul(blocks[n], blocks[n].len)
        stops == {i \in DOMAIN fmt : Meaningless(fmt[i])}
    IN  /\ Held
        /\ s.len + Len(Expansion(fmt)) <= MaxLen
        /\ call' = [op |-> "sdscatfmt", format |-> fmt]
        /\ \/ stops = {} /\ s' = result /\ ret' = "ok"
           \/ stops # {} /\ s' = sdsnewlen(<<>>) /\ ret' = "undefined"
           \/ /\ \E i \in 1..n : /\ \A k \in stops : i <= k + 1
                                 /\ Allocates(blocks[i - 1], blocks[i])
              /\ s' = sdsnewlen(<<>>) /\ ret' = "crash"

Catrepr ==
  \E t \in Text :
    LET pieces == ReprPieces(t)
        blocks == AppendBlocks(s, pieces)
        n == Len(pieces)
    IN  /\ Held
        /\ s.len + Len(FlattenSeq(pieces)) <= MaxLen
        /\ call' = [op |-> "sdscatrepr", text |-> t]
        /\ \/ s' = blocks[n] /\ ret' = "ok"
           \/ /\ \E i \in 1..(n - 1) : Allocates(blocks[i - 1], blocks[i])
              /\ s' = sdsnewlen(<<>>) /\ ret' = "crash"
           \/ /\ Allocates(blocks[n - 1], blocks[n])
              /\ s' = sdsnewlen(<<>>) /\ ret' = "none"

\* sdsjoinsds makes a string of its own.
Join ==
  \E pieces \in Joins :
    LET blocks == AppendBlocks(sdsnewlen(<<>>), pieces)
    IN  /\ ret = "none"
        /\ Len(FlattenSeq(pieces)) <= MaxLen
        /\ call' = [op |-> "sdsjoinsds", pieces |-> pieces]
        /\ \/ s' = blocks[Len(pieces)] /\ ret' = "ok"
           \/ s' = sdsnewlen(<<>>) /\ ret' = "crash"

NextFormat == Next \/ Catfmt \/ Catrepr \/ Join

SpecFormat == Init /\ [][NextFormat]_vars

-----------------------------------------------------------------------------
(* Every call does to the bytes what its comment in sds.c says, whatever   *)
(* header and room the string has, and changes nothing when it returns     *)
(* NULL: a call with its arguments is the step of the same call on a       *)
(* ByteString.                                                             *)
Bytes == IF Held THEN Content(s) ELSE <<>>

String == INSTANCE ByteString WITH
            Zero <- NUL, Least <- LLONG_MIN,
            str <- Bytes, result <- ret

ImplementsByteString == String!Spec

\* Splitting a string at a separator and joining the parts gives the string
\* back, no part has the separator in it, and the array always has a slot for
\* the next part (sdssplitlen, sdsjoinsds), unless memory is refused and there
\* are no parts.  "sdscatrepr() is able to convert back a string into a quoted
\* string in the same format sdssplitargs() is able to parse": any bytes, NULs
\* and quotes among them, come back as one argument.
TextsComeBack ==
  Held =>
    /\ \A sep \in Text \ {<<>>} : \A r \in sdssplitlen(Content(s), sep) :
         \/ r = NoTokens
         \/ /\ sdsjoinsds(r.tokens, sep) = Content(s)
            /\ \A k \in 1..Len(r.tokens) : \A j \in 0..(Len(r.tokens[k]) - 1) :
                 ~FoundAt(r.tokens[k], j, sep)
            /\ Len(r.tokens) <= r.slots
    /\ sdssplitargs(FlattenSeq(ReprPieces(Content(s))))
         = [ok |-> TRUE, args |-> <<Content(s)>>]
=============================================================================
