-------------------------------- MODULE Resub --------------------------------
(***************************************************************************)
(* regex_builder/resub.c: resub appends buffer to the global results with  *)
(* the matches of pattern replaced.  Between calls a client may clear      *)
(* results, as the comment in lines 11-15 does, or let them pile up.       *)
(*                                                                         *)
(* A pattern is the set of strings it matches, without anchors: regexec is *)
(* called without REG_NOTBOL, so an anchor would hold again after every    *)
(* match.  Patterns are taken to compile, which resub does not check.      *)
(***************************************************************************)
EXTENDS PosixRegex

CONSTANTS
    Request,     \* calls: [buffer, pattern, replacement]
    ResultsSize, \* sizeof results; 1024 in the code
    BufferSize,  \* MAX_FILE_SIZE; 10000 in the code
    MaxCalls     \* bound on the number of calls

ASSUME SizeAssumption == /\ ResultsSize \in Nat \ {0}
                         /\ BufferSize \in Nat \ {0}
                         /\ MaxCalls \in Nat
ASSUME RequestAssumption ==
    /\ Request # {}
    /\ \A r \in Request : r.buffer \in Seq(Char) /\ r.replacement \in Seq(Char)

VARIABLES
    pc, call, current_offset, current_buffer, results,
    calls, \* number of calls made
    before \* what results held when the current call was made

vars == <<pc, call, current_offset, current_buffer, results, calls, before>>

Init == /\ pc = "idle"
        /\ call = CHOOSE req \in Request : TRUE
        /\ current_offset = 0
        /\ current_buffer = <<>>
        /\ results = <<>>
        /\ calls = 0
        /\ before = <<>>

\* memset(results, '\0', 1024) in the client
Clear ==
    /\ pc = "idle"
    /\ results' = <<>>
    /\ before' = <<>>
    /\ UNCHANGED <<pc, call, current_offset, current_buffer, calls>>

\* Lines 17-25. strcpy(current_buffer, buffer) is not bounded.
Call(req) ==
    /\ pc = "idle"
    /\ calls < MaxCalls
    /\ calls' = calls + 1
    /\ call' = req
    /\ before' = results
    /\ current_offset' = 0
    /\ IF Len(req.buffer) < BufferSize
       THEN current_buffer' = req.buffer /\ pc' = "loop"
       ELSE UNCHANGED current_buffer /\ pc' = "undefined"
    /\ UNCHANGED results

\* From an offset of the buffer to its end.
From(offset) == SubSeq(call.buffer, offset + 1, Len(call.buffer))

\* Going on at the match instead of behind it.
AtMatch(m) == m.so

BehindMatch(m) == m.eo

Copied(offset, m) == From(offset)

\* The match kept in front of its replacement.
WithMatch(m) == SubSeq(current_buffer, 1, m.eo) \o call.replacement

UpToMatch(m) == SubSeq(current_buffer, 1, m.so) \o call.replacement

\* strcat and strncat to results are not bounded either.
AppendToResults(text, next) ==
    IF Len(results \o text) < ResultsSize
    THEN results' = results \o text /\ pc' = next
    ELSE UNCHANGED results /\ pc' = "undefined"

\* Lines 27-34
ReplaceMatch ==
    /\ pc = "loop"
    /\ current_offset < Len(call.buffer)
    /\ Found(call.pattern, current_buffer)
    /\ LET m == Regexec(call.pattern, current_buffer)
       IN  /\ AppendToResults(UpToMatch(m), "loop")
           /\ current_offset' = current_offset + BehindMatch(m)
           /\ current_buffer' = Copied(current_offset + BehindMatch(m), m)
    /\ UNCHANGED <<call, calls, before>>

\* Lines 35-38 and 40
AppendRest ==
    /\ pc = "loop"
    /\ current_offset < Len(call.buffer)
    /\ ~Found(call.pattern, current_buffer)
    /\ AppendToResults(current_buffer, "idle")
    /\ UNCHANGED <<call, current_offset, current_buffer, calls, before>>

\* Line 40, after a match at the very end
Return ==
    /\ pc = "loop"
    /\ current_offset >= Len(call.buffer)
    /\ pc' = "idle"
    /\ UNCHANGED <<call, current_offset, current_buffer, results, calls, before>>

Next == \/ Clear
        \/ \E req \in Request : Call(req)
        \/ ReplaceMatch \/ AppendRest \/ Return

Spec == Init /\ [][Next]_vars

\* A call that has been made runs on; nobody has to make one.
FairSpec == Spec /\ WF_vars(ReplaceMatch \/ AppendRest \/ Return)

-----------------------------------------------------------------------------
(* Properties                                                              *)

\* Every variable has a value of its type: the offset stays inside of the
\* buffer, and the copy is the buffer from there.
TypeOK ==
    /\ pc \in {"idle", "loop", "undefined"}
    /\ call \in Request
    /\ current_offset \in 0 .. Len(call.buffer)
    /\ pc = "loop" => current_buffer = From(current_offset)
    /\ results \in Seq(Char) /\ Len(results) < ResultsSize
    /\ calls \in 0 .. MaxCalls

\* A call seen from outside: nothing until it returns, then everything.
Seen == IF pc = "idle" THEN results ELSE before

Abstract == INSTANCE GlobalReplace WITH out <- Seen

\* resub (lines 17-41) implements the replacement of every match, in one step
\* of its caller and without touching what earlier calls left in results.
ReplacesEveryMatch == Abstract!Spec

\* The results so far and the replaced text do not fit, the buffer itself does
\* not, or an empty match has its replacement appended over and over.
SomethingIsFull ==
    \/ Len(call.buffer) >= BufferSize
    \/ Abstract!Replaced(call) = {}
    \/ \E t \in Abstract!Replaced(call) : Len(before \o t) >= ResultsSize

\* A call runs past results or its copy of the buffer (lines 10, 19) only when
\* something is full.
UndefinedOnlyWhenFull == pc = "undefined" => SomethingIsFull

\* A call returns, but for two cases. It is undefined only when something is
\* full, and it stays in its loop only at an offset where the pattern matches the
\* empty string: rm_eo is 0 there (lines 26-39), while with any other match the
\* offset moves behind it.
ReturnsUnlessFullOrStuck ==
    pc # "idle" ~> \/ pc = "idle"
                   \/ pc = "undefined" /\ SomethingIsFull
                   \/ /\ Found(call.pattern, current_buffer)
                      /\ Regexec(call.pattern, current_buffer).eo = 0

=============================================================================
