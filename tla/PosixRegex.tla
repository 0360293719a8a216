------------------------------ MODULE PosixRegex ------------------------------
(***************************************************************************)
(* What resub.c and resplit.c rely on of regexec(3): the extended regular  *)
(* expressions they are given are modelled by the strings they match, and  *)
(* regexec finds the leftmost match and the longest one there.             *)
(***************************************************************************)
EXTENDS Integers, Sequences

CONSTANT Char \* the characters of a text

\* [rm_so, rm_eo) of every match of the pattern in s.
AllMatches(pattern, s) ==
    {m \in [so : 0 .. Len(s), eo : 0 .. Len(s)] :
        m.so <= m.eo /\ SubSeq(s, m.so + 1, m.eo) \in pattern}

Found(pattern, s) == AllMatches(pattern, s) # {}

Regexec(pattern, s) ==
    CHOOSE m \in AllMatches(pattern, s) :
        \A o \in AllMatches(pattern, s) :
            m.so < o.so \/ (m.so = o.so /\ m.eo >= o.eo)

=============================================================================
