----------------------------- MODULE MCPosixRegex -----------------------------
(* TLC instance of Resub and Resplit, the two programs written on regexec: a *)
(* behaviour is one of Resub, whose client makes three calls, or one of        *)
(* Resplit.  Resub has every buffer of up to 4 characters, patterns that     *)
(* overlap themselves and each other, and replacements that are empty,       *)
(* longer than the match, and matched by the pattern again.  Resplit has the *)
(* call of its main (hlelolg and lo), every buffer of up to 6 characters and *)
(* one too long for a frame, and a pattern that matches the empty string.    *)
EXTENDS Resub, Resplit

Strings(alphabet, n) == UNION {[1 .. k -> alphabet] : k \in 0 .. n}

A == <<"a">>
AA == <<"a", "a">>
B == <<"b">>
AB == <<"a", "b">>

\* The last two match the empty string as well, like a* and (ab)?.
Patterns == {{A}, {AA}, {AB, B}, {A, AA, AB}, {<<>>, A, AA}, {<<>>, AB}}

MCRequest == [buffer : Strings({"a", "b"}, 4), pattern : Patterns,
              replacement : {<<>>, <<"a", "b">>}]

MCSplitRequest ==
    [buffer : Strings({"l", "o"}, 6) \cup
              {<<"h", "l", "e", "l", "o", "l", "g">>, [k \in 1 .. 8 |-> "l"]},
     pattern : {{<<"l", "o">>}, {<<"l">>}, {<<"o", "o">>},
                {<<"l">>, <<"l", "o">>, <<"l", "l">>}, {<<>>, <<"l">>}}]

MCChar == {"a", "b", "l", "o", "h", "e", "g"}

-----------------------------------------------------------------------------
NoSplit == /\ request = [buffer |-> <<>>, pattern |-> {<<"l">>}]
           /\ splitPc = "done"
           /\ frames = <<>> /\ compiled = 0 /\ printed = <<>>

Splits == splitPc # "done" \/ printed # <<>>

MCInit == Init /\ (NoSplit \/ SplitInit)
MCNext == \/ Next /\ ~Splits /\ UNCHANGED splitVars
          \/ SplitNext /\ UNCHANGED vars

MCSpec == /\ MCInit /\ [][MCNext]_<<vars, splitVars>>
          /\ WF_vars(ReplaceMatch \/ AppendRest \/ Return)

=============================================================================
