--------------------------- MODULE MCRegexBuilder ---------------------------
(* TLC instance of RegexBuilder: every text of up to 4 characters drawn from *)
(* the classes that overlap, two classes data[] treats specially, and        *)
(* characters no rule matches; a buffer three of them fill.                  *)
EXTENDS RegexBuilder

MCChar == {"a", "z", "A", "0", "+", "/", "%", "[", NewLine}

MCText == UNION {[1 .. n -> MCChar] : n \in 0 .. 4}
              \cup {<<"1", "a">> \o t : t \in [1 .. 2 -> MCChar \cup {":", "<", "]", " "}]}

AllChar == MCChar \cup {"Z", "1", " ", ":", "<", "]"}

=============================================================================
