------------------------------- MODULE Resplit -------------------------------
(***************************************************************************)
(* regex_builder/resplit.c: resplit prints the text before the first match *)
(* between colons and calls itself on the text behind the match; what has  *)
(* no match is printed as it is.  Every call copies its text to an array   *)
(* of fixed size on the stack.  Patterns are sets of strings without       *)
(* anchors (they would hold again in every call), and are taken to         *)
(* compile.                                                                *)
(***************************************************************************)
EXTENDS PosixRegex

CONSTANTS
    SplitRequest, \* the calls of main: [buffer, pattern]
    FrameSize,    \* MAX_FILE_SIZE, 10000 in the code
    MaxFrames     \* how many frames of resplit the stack has room for

ASSUME FrameAssumption == FrameSize \in Nat \ {0} /\ MaxFrames \in Nat \ {0}
ASSUME SplitRequestAssumption == \A r \in SplitRequest : r.buffer \in Seq(Char)

VARIABLES
    request,
    splitPc,
    frames,   \* the buffers of the calls that have not returned, latest last
    compiled, \* the number of regular expressions compiled and not freed
    printed   \* pieces, as printed

splitVars == <<request, splitPc, frames, compiled, printed>>

SplitInit ==
    /\ request \in SplitRequest
    /\ splitPc = "call"
    /\ frames = <<request.buffer>>
    /\ compiled = 0
    /\ printed = <<>>

Buffer == frames[Len(frames)]

\* Lines 24-30 (regcomp and the copy of the buffer, whose length nobody looks
\* at) for the latest frame.
Enter ==
    /\ splitPc = "call"
    /\ IF Len(frames) <= MaxFrames /\ Len(Buffer) < FrameSize
       THEN splitPc' = "match" /\ compiled' = compiled + 1
       ELSE splitPc' = "undefined" /\ UNCHANGED compiled
    /\ UNCHANGED <<request, frames, printed>>

\* The text from the match on.
FromMatch(m) == SubSeq(Buffer, m.so + 1, Len(Buffer))

\* The text behind the first character of the match.
BehindOne(m) == SubSeq(Buffer, m.so + 2, Len(Buffer))

Behind(m) == SubSeq(Buffer, m.eo + 1, Len(Buffer))

\* A call that leaves the expression to the one it makes.
Leak(n) == n

Regfree(n) == n - 1

\* Lines 31-38: the piece is printed, and the next call made.
SplitAtMatch ==
    /\ splitPc = "match"
    /\ Found(request.pattern, Buffer)
    /\ LET m == Regexec(request.pattern, Buffer)
       IN  /\ printed' = Append(printed, [colons |-> TRUE,
                                          piece |-> SubSeq(Buffer, 1, m.so)])
           /\ frames' = Append(frames, Behind(m))
    /\ compiled' = Regfree(compiled)
    /\ splitPc' = "call"
    /\ UNCHANGED request

PrintRest ==
    /\ splitPc = "match"
    /\ ~Found(request.pattern, Buffer)
    /\ printed' = Append(printed, [colons |-> FALSE, piece |-> Buffer])
    /\ compiled' = Regfree(compiled)
    /\ splitPc' = "return"
    /\ UNCHANGED <<request, frames>>

SplitReturn ==
    /\ splitPc = "return"
    /\ frames' = SubSeq(frames, 1, Len(frames) - 1)
    /\ splitPc' = IF Len(frames) = 1 THEN "done" ELSE "return"
    /\ UNCHANGED <<request, compiled, printed>>

SplitNext == Enter \/ SplitAtMatch \/ PrintRest \/ SplitReturn

SplitSpec == SplitInit /\ [][SplitNext]_splitVars

-----------------------------------------------------------------------------
(* Properties                                                              *)

\* Every variable has a value of its type.
SplitTypeOK ==
    /\ request \in SplitRequest
    /\ splitPc \in {"call", "match", "return", "done", "undefined"}
    /\ frames \in Seq(Seq(Char))
    /\ splitPc # "done" => frames # <<>>
    /\ compiled \in {0, 1}

\* The offsets of the buffer where a piece that is spelled from offset may end,
\* with a match of the pattern behind a piece between colons.
EndsOf(req, item, offset) ==
    {end \in offset .. Len(req.buffer) :
        \E so \in offset .. end :
            /\ SubSeq(req.buffer, offset + 1, so) = item.piece
            /\ IF item.colons
               THEN SubSeq(req.buffer, so + 1, end) \in req.pattern
               ELSE so = end}

\* The same for the first k items, which are spelled from the start.
Ends(req, items) ==
    LET ends[k \in 0 .. Len(items)] ==
            IF k = 0 THEN {0}
            ELSE UNION {EndsOf(req, items[k], offset) : offset \in ends[k - 1]}
    IN  ends

\* The pieces printed so far, with some match of the pattern between each and
\* the next, and the text of the call at work, spell the buffer: nothing is
\* lost or printed twice (lines 31-44). Only the last piece is without colons,
\* and no piece contains a match, but for the empty one that a pattern may have
\* anywhere.
PiecesSpellTheBuffer ==
    LET all == splitPc \in {"return", "done"}
    IN  /\ \E offset \in Ends(request, printed)[Len(printed)] :
              SubSeq(request.buffer, offset + 1, Len(request.buffer)) =
                  IF all THEN <<>> ELSE Buffer
        /\ \A k \in DOMAIN printed :
              /\ printed[k].colons = ~(all /\ k = Len(printed))
              /\ ~Found(request.pattern \ {<<>>}, printed[k].piece)

\* A call that waits for the one it made holds its frame and no expression (the
\* valgrind report of lines 1-14). The arrays overflow only on a buffer that is
\* too long for the first call, and the stack runs out of frames only on one of
\* at least as many characters or on a pattern that matches the empty string,
\* with which a call may have no less text than its caller.
WaitingCallsHoldAFrame ==
    /\ splitPc \in {"call", "return", "done"} => compiled = 0
    /\ splitPc = "undefined" => \/ Len(request.buffer) >= FrameSize
                                \/ Len(request.buffer) >= MaxFrames
                                \/ <<>> \in request.pattern

=============================================================================
