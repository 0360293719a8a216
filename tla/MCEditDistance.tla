---------------------------- MODULE MCEditDistance ----------------------------
(* TLC instance of EditDistance: a table of extent 5, words of up to 4       *)
(* letters (one too many for the table) and files of up to 3 words, of two   *)
(* letters or, for words too long among them, of one.                        *)
EXTENDS EditDistance

Words(n) == UNION {[1 .. k -> Letter] : k \in 0 .. n}

MCRequest ==
    {[argc |-> 3, words |-> <<x, y>>] : x, y \in Words(4)}
    \cup [argc : {2}, words : UNION {[1 .. k -> Words(2) \ {<<>>}] : k \in 0 .. 3}]
    \cup [argc : {2}, words : [1 .. 3 -> UNION {[1 .. k -> {"a"}] : k \in 1 .. 4}]]
    \cup [argc : {1, 4}, words : {<<>>}]

=============================================================================
