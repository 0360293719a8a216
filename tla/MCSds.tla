------------------------------- MODULE MCSds -------------------------------
(***************************************************************************)
(* Strings of up to MaxLen bytes over a NUL, a space, a quote and a        *)
(* backslash, with header types so small that strings go through all of    *)
(* them.                                                                   *)
(***************************************************************************)
EXTENDS SdsFormat

MCByte == 0..255
MCChars == {0, Space, DQUOTE, BACKSLASH}
MCCharsets == SUBSET {Space, DQUOTE}
MCText == UNION {[1..n -> MCChars] : n \in 0..2}
MCCapacity == [t \in Types |-> <<1, 2, 4, 8, 1000>>[t + 1]]

MCLeast == -16

MCFormats == {<<>>,
              <<Lit(120), Str(<<0, 120>>)>>,
              <<Percent(DQUOTE), Lit(120), Lit(Space)>>,
              <<Str(<<>>), Num(-8), Str(<<BACKSLASH>>)>>,
              <<Num(-10)>>, <<Num(15), Num(0)>>, <<Num(7), Num(-16)>>,
              <<Str(<<0>>), Lone>>}

MCJoins == {<<<<120>>, <<Space>>, <<0>>>>, <<<<>>, <<Space, Space>>, <<120>>>>,
            <<<<DQUOTE>>, <<>>, <<BACKSLASH, 0>>>>}

\* States that differ only in the last call have the same steps and the same
\* invariants; ImplementsByteString is looked at for each step of each of them.
MCView == <<s, ret>>
=============================================================================
