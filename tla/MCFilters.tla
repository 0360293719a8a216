------------------------------ MODULE MCFilters ------------------------------
(* TLC instance of the programs that read one text: a behaviour is one run   *)
(* of one of the eight.  Short texts are all those over an alphabet with every *)
(* rule's characters; where a rule needs more, they are put together from      *)
(* words.  The names of the files PdfMoves moves have the lengths around the   *)
(* size of every array a command is built in.                                  *)
EXTENDS TextFilters, AddressList, LatexRepl, SourceRewriter, PdfMoves, FiniteSetsExt

Words(alphabet, n) == UNION {[1..k -> alphabet] : k \in 0..n}

Joined(pieces, n) == {FlattenSeq(w) : w \in Words(pieces, n)}

MCKey == {"a:", "b:", "fits:", "long:"}
MCKeyLength == [k \in MCKey |-> CASE k = "fits:" -> 255 [] k = "long:" -> 256 [] OTHER -> 2]

\* Parts of the lines that ip addr prints.
HardwareAddress == [i \in 1..17 |-> IF i % 3 = 0 THEN ":" ELSE IF i < 9 THEN "e" ELSE "1"]
AddressWords ==
  {<<"1", "2", ":", " ">>, <<"lo", "1", ":">>, <<" ", "state", " ", "UP", " ">>, HardwareAddress,
   <<"link", "/", "ether", " ">>, <<"inet", " ", " ">>, <<"inet", "6", " ">>, <<Newline>>,
   <<"1", "2", "7", ".", "0", ".", "0", ".", "1", "/", "8">>, <<"3", "0", "0", "1", ".">>}
NumberWords == {<<"inet", " ">>, <<"7", ".">>, <<"2", "5", "5", " ">>, <<"2", "5", "6", ".">>}

RewriteWords ==
  {<<"field", ":", " ", "'", "a", "'", ",">>, <<"field", ":", "'", "field", "'", " ", ",", Newline>>,
   <<"field", ":", "'", "'", ",">>, <<"field", ":", "'", "a", "'">>, <<" ">>, <<",">>, <<Newline>>}

MCInput == ({"strip"} \X Words({"/", "*", Newline, "c"}, 7))
             \cup ({"max"} \X (Words({"a:", "b:", "0", "1", "2", Newline}, 6)
                                  \cup Words(MCKey \cup {"1", "x"}, 4)))
             \cup ({"average"} \X Words({"1", "2", Newline, "x"}, 6))
             \cup ({"addresses"} \X (Joined(AddressWords, 3) \cup Joined(NumberWords, 6)))
             \cup ({"latex"} \X Words({"\\", "dot", "eq", "wedge", "bar", "mathdollar"}, 6))
             \cup ({"rewrite"} \X Joined(RewriteWords, 4))

MCStarted ==
  [program : {"filter"}, name : {57, 58, 59, 247, 248, 255, 256},
   input : Words(Reported, 3)]
    \cup [program : {"sorter"}, name : {215, 216, 250, 251},
          input : Words(Typed, 2)]

NoText ==
  /\ program = "none" /\ text = <<>> /\ at = 0 /\ start = "INITIAL" /\ out = <<>>
  /\ scanner = "ended"

NoMove ==
  /\ job = [program |-> "none", name |-> 0, input |-> <<>>]
  /\ pc = "exit" /\ read = 0 /\ moving = Home /\ rsync = "none" /\ places = {Home}
  /\ cuts = 0

MCInit ==
  /\ ResultsInit
  /\ counter = 0
  /\ orientation = "none"
  /\ line_buffer = 0
  /\ (ScannerInit /\ NoMove) \/ (PdfInit /\ NoText)

MCNext ==
  \/ TextNext /\ UNCHANGED <<counter, orientation, line_buffer, pdf>>
  \/ AddressNext /\ UNCHANGED <<results, orientation, line_buffer, pdf>>
  \/ LatexNext /\ UNCHANGED <<results, counter, line_buffer, pdf>>
  \/ RewriteNext /\ UNCHANGED <<results, counter, orientation, pdf>>
  \/ PdfNext /\ UNCHANGED <<scanned, results, counter, orientation, line_buffer>>

MCSpec == MCInit /\ [][MCNext]_<<scanned, results, counter, orientation, line_buffer, pdf>>
=============================================================================
