---------------------------- MODULE GlobalReplace ----------------------------
(***************************************************************************)
(* What resub promises its callers: one call appends to the results the    *)
(* buffer with every match of the pattern replaced, the matches being      *)
(* taken from left to right, each as early and as long as possible.        *)
(***************************************************************************)
EXTENDS PosixRegex

CONSTANTS Request \* calls: [buffer, pattern, replacement]

VARIABLE out

\* The texts that may take the place of what lies behind the first k characters:
\* one, or none where an empty match would have to be replaced over and over.
ReplacedFrom(req) ==
    LET n == Len(req.buffer)
        from[k \in 0 .. n] ==
            LET s == SubSeq(req.buffer, k + 1, n)
                m == Regexec(req.pattern, s)
            IN  IF k = n \/ ~Found(req.pattern, s)
                THEN {s}
                ELSE IF m.eo = 0
                     THEN {}
                     ELSE {SubSeq(s, 1, m.so) \o req.replacement \o t :
                              t \in from[k + m.eo]}
    IN  from

\* The texts a call may append.
Replaced(req) == ReplacedFrom(req)[0]

Init == out = <<>>

Resub(req) == \E t \in Replaced(req) : out' = out \o t

Clear == out' = <<>>

Next == Clear \/ \E req \in Request : Resub(req)

Spec == Init /\ [][Next]_out

=============================================================================
