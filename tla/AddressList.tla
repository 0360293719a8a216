---------------------------- MODULE AddressList ----------------------------
(***************************************************************************)
(* network_addressing.l: the adapters, states, hardware addresses and      *)
(* internet addresses in the output of "ip addr".  Every start condition   *)
(* is inclusive, so the rules of INITIAL match in each of them, and the    *)
(* longest match wins.  The words of ip addr are symbols; link/ether is    *)
(* three, as the name of an adapter ends at the slash.                     *)
(***************************************************************************)
EXTENDS TextScanner

VARIABLE counter  \* numbers of the address

Lower == {"state", "inet", "link", "ether", "lo", "e"}
Upper == {"UP"}
Hex == Digit \cup {"e"}

Keyword(word) ==
  IF Ahead(word) /\ Peek(Len(word)) = " " THEN Len(word) + SpanAt(Len(word), {" "}) ELSE 0

MacAhead ==
  \A i \in 0..16 : IF i % 3 = 2 THEN Peek(i) = ":" ELSE Peek(i) \in Hex

In(starts, n) == IF start \in starts THEN n ELSE 0

Span3 == IF Span(Digit) > 3 THEN 3 ELSE Span(Digit)

\* How far each rule matches; 0 where it does not.
Matches ==
  [adapter |-> IF AtLineStart /\ Span(Digit) > 0 /\ Peek(Span(Digit)) = ":"
               THEN Span(Digit) + 1 ELSE 0,
   name    |-> In({"enter_adapter"}, Span(Digit \cup Lower)),
   colon   |-> In({"exit_adapter"}, IF Head1 = ":" THEN 1 ELSE 0),
   state   |-> Keyword(<<"state">>),
   upper   |-> In({"enter_state"}, Span(Upper)),
   link    |-> Keyword(<<"link", "/", "ether">>),
   mac     |-> In({"enter_mac"}, IF MacAhead THEN 17 ELSE 0),
   blanks  |-> In({"exit_state", "exit_mac"}, Span({" "})),
   inet    |-> Keyword(<<"inet">>),
   first   |-> In({"enter_inet"}, Span3),
   octet   |-> In({"inet"}, Span3),
   dot     |-> In({"inet"}, IF Head1 = "." THEN 1 ELSE 0)]

\* The rule matches, and no other one more: rule is taken.
Match(rule) ==
  /\ Runs("addresses") /\ More
  /\ Matches[rule] > 0
  /\ \A other \in DOMAIN Matches : Matches[other] <= Matches[rule]
  /\ Take(Matches[rule])

Printed(kind, what) == [kind |-> kind, what |-> what]
yytext(rule) == Following(Matches[rule])

\* A rule that prints its text, and one that prints nothing.
PrintText(rule, next) ==
  /\ Match(rule)
  /\ out' = Append(out, Printed(rule, yytext(rule)))
  /\ start' = next
  /\ UNCHANGED counter
Begin(rule, next) ==
  /\ Match(rule)
  /\ start' = next
  /\ UNCHANGED <<out, counter>>

AdapterNumber == PrintText("adapter", "enter_adapter")
AdapterName == PrintText("name", "exit_adapter")
AdapterColon == Begin("colon", "INITIAL")
StateWord == Begin("state", "enter_state")
StateName == PrintText("upper", "exit_state")
LinkWord == Begin("link", "enter_mac")
Mac == PrintText("mac", "exit_mac")
Blanks == Begin("blanks", "INITIAL")
InetWord == Begin("inet", "enter_inet")
Dot == PrintText("dot", "inet")

-----------------------------------------------------------------------------
(* Numbers.  One above 255 ends the address where it is.                   *)

Valid(value) == value \in 0..255

FirstNumber ==
  /\ Match("first")
  /\ counter' = 1
  /\ LET value == atol(yytext("first"))
     IN  /\ out' = out \o <<Printed("address", <<>>)>>
                      \o (IF Valid(value) THEN <<Printed("number", value)>> ELSE <<>>)
         /\ start' = IF Valid(value) THEN "inet" ELSE "INITIAL"

\* A bug: a number that is not printed does not end the address.
NumberGoesOn ==
  /\ Match("octet")
  /\ LET value == atol(yytext("octet"))
         number == IF Valid(value) THEN <<Printed("number", value)>> ELSE <<>>
         last == counter = 3
     IN  /\ counter' = IF last THEN 0 ELSE counter + 1
         /\ out' = out \o number \o (IF last THEN <<Printed("line", <<>>)>> ELSE <<>>)
         /\ start' = IF last THEN "INITIAL" ELSE "inet"

NextNumber ==
  /\ Match("octet")
  /\ LET value == atol(yytext("octet"))
         number == Printed("number", value)
         last == counter = 3
     IN  \/ /\ Valid(value) /\ last
            /\ counter' = 0
            /\ out' = out \o <<number, Printed("line", <<>>)>>
            /\ start' = "INITIAL"
         \/ /\ Valid(value) /\ ~last
            /\ counter' = counter + 1
            /\ out' = Append(out, number)
            /\ start' = "inet"
         \/ /\ ~Valid(value)
            /\ counter' = counter + 1
            /\ start' = "INITIAL"
            /\ UNCHANGED out

DropOther ==
  /\ Runs("addresses") /\ More
  /\ \A rule \in DOMAIN Matches : Matches[rule] = 0
  /\ Take(1)
  /\ UNCHANGED <<start, out, counter>>

AddressReturn == Ends("addresses", <<>>) /\ UNCHANGED counter

AddressNext == AdapterNumber \/ AdapterName \/ AdapterColon \/ StateWord \/ StateName
                 \/ LinkWord \/ Mac \/ Blanks \/ InetWord \/ Dot \/ FirstNumber \/ NextNumber
                 \/ DropOther \/ AddressReturn

AddressInit == ScannerInit /\ counter = 0

AddressSpec == AddressInit /\ [][AddressNext]_<<scanned, counter>>

-----------------------------------------------------------------------------
\* What was printed for the address that the k-th item printed belongs to begins
\* with the last "address" up to it.
BeginOf(k) == Max({i \in 1..k : out[i].kind = "address"})
Numbers(i, k) == {n \in i..k : out[n].kind = "number"}

\* An address that network_addressing.l ends with a newline has four numbers,
\* none above 255, and nothing but dots between them, however adapters, states
\* and further addresses interrupt one that is not complete: counter and the
\* start condition stay together (network_addressing.l:23-52).
AddressesHaveFourNumbers ==
  \A k \in 1..Len(out) :
    program = "addresses" /\ out[k].kind = "line" =>
      /\ \E i \in 1..k : out[i].kind = "address"
      /\ Cardinality(Numbers(BeginOf(k), k)) = 4
      /\ \A i \in Numbers(BeginOf(k), k) : out[i].what <= 255
      /\ \A i \in (BeginOf(k) + 1)..(k - 1) : out[i].kind \in {"number", "dot"}

=============================================================================
