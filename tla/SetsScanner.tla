---------------------------- MODULE SetsScanner ----------------------------
(***************************************************************************)
(* The scanner that flex generated from repl/sets.l (repl/lex.yy.c), with  *)
(* its tables: yylex and the buffer it refills while it matches.  The      *)
(* other generated scanners of the repository have the same yylex and the  *)
(* same buffer functions, with other tables and actions.                   *)
(*                                                                         *)
(* Bytes are their codes in ASCII, 0 is the end-of-buffer character.  An   *)
(* offset into the buffer is a pointer of the code.  A byte nobody wrote   *)
(* is Junk, on which no table is defined.  One step is the work between    *)
(* two of the places where yylex may stop: a token, a read, the end.       *)
(***************************************************************************)
EXTENDS Integers, Sequences, SequencesExt, FiniteSetsExt

CONSTANTS Texts,            \* what there is to scan
          Sources,          \* "file", "terminal" or "memory"
          YY_READ_BUF_SIZE, \* bytes asked for in one read
          Calls             \* bound of the model: calls of yylex after the end

YY_BUF_SIZE == 2 * YY_READ_BUF_SIZE
YY_END_OF_BUFFER_CHAR == 0
Junk == -1

ASSUME TextsAssumption == Texts \subseteq Seq(0..255)
ASSUME SizeAssumption == YY_READ_BUF_SIZE \in Nat \ {0}
ASSUME SourceAssumption == Sources \subseteq {"file", "terminal", "memory"}

-----------------------------------------------------------------------------
(* The tables, as in lex.yy.c: element i of an array is element i + 1.     *)

YY_JAMBASE == 42
YY_JAMSTATE == 19
YY_END_OF_BUFFER == 4
YY_NUL_EC == 1
yystart == 1

yy_accept == <<0, 0, 0, 4, 2, 3, 2, 0, 0, 0, 0, 0, 0, 0, 0, 0, 0, 0, 1, 0>>

\* Tab, newline, space, comma, digits, equals sign, S, [, ], e, l, t.
yy_ec(c) ==
  CASE c = 0 -> 0 [] c = 9 -> 2 [] c = 10 -> 3 [] c = 32 -> 4 [] c = 44 -> 5
    [] c \in 48..57 -> 6 [] c = 61 -> 7 [] c = 83 -> 8 [] c = 91 -> 9
    [] c = 93 -> 10 [] c = 101 -> 11 [] c = 108 -> 12 [] c = 116 -> 13
    [] c \in (1..255) \ ({9, 10, 32, 44, 61, 83, 91, 93, 101, 108, 116} \cup 48..57) -> 1

yy_meta == <<0, 1, 2, 1, 2, 1, 1, 1, 1, 2, 1, 1, 1, 1>>

yy_base == <<0, 0, 10, 16, 42, 42, 4, 1, 7, 19, 24, 0, 1, 0, 1, 27, 0, 29, 42, 42, 39, 0>>

yy_def == <<0, 20, 20, 19, 19, 19, 19, 19, 19, 19, 19, 10, 21, 21, 19, 19, 19, 19, 19, 0,
            19, 19>>

yy_nxt == <<0, 19, 13, 5, 19, 19, 17, 15, 19, 14, 14, 9, 6, 5, 8, 7, 19, 19, 19, 19, 19,
            19, 6, 9, 19, 19, 19, 10, 11, 19, 19, 12, 16, 15, 16, 17, 19, 19, 19, 18, 4,
            4, 3, 19, 19, 19, 19, 19, 19, 19, 19, 19, 19, 19, 19, 19>>

yy_chk == <<0, 0, 21, 1, 0, 0, 16, 14, 0, 13, 12, 8, 1, 2, 7, 6, 3, 0, 0, 0, 0,
            0, 2, 9, 0, 0, 0, 9, 10, 0, 0, 10, 15, 15, 17, 17, 0, 0, 0, 17, 20,
            20, 19, 19, 19, 19, 19, 19, 19, 19, 19, 19, 19, 19, 19, 19>>

Entry(table, i) == table[i + 1]
Accepts(state) == Entry(yy_accept, state) # 0

\* A state without an entry for a class has the one of another state, and a
\* template that of another class.
State == 0..21
Cell == [state : State, class : 0..13]

Elsewhere(cell) ==
  LET other == Entry(yy_def, cell.state)
  IN  [state |-> other,
       class |-> IF other >= YY_JAMSTATE + 1 THEN Entry(yy_meta, cell.class) ELSE cell.class]

yy_nxt_of[cell \in Cell] ==
  LET at == Entry(yy_base, cell.state) + cell.class
  IN  IF Entry(yy_chk, at) = cell.state THEN Entry(yy_nxt, at) ELSE yy_nxt_of[Elsewhere(cell)]

NextState(state, class) == yy_nxt_of[[state |-> state, class |-> class]]

-----------------------------------------------------------------------------
VARIABLES
  text, source,  \* what is scanned, and where it is
  taken,         \* bytes of it that were read, or copied to the buffer
  calls,         \* calls of yylex after the end
  pc,
  yy_ch_buf,     \* the buffer, two bytes longer than
  yy_buf_size,
  status,        \* yy_buffer_status
  yy_n_chars,    \* bytes in the buffer, end markers not counted
  yytext_ptr, yy_c_buf_p, yy_hold_char,
  last,          \* yy_last_accepting_state and yy_last_accepting_cpos
  yy_act,
  tokens,        \* history: rule and text of each match
  dot            \* what test_file.dot holds

input == <<text, source>>
buffer == <<yy_ch_buf, yy_buf_size, status, yy_n_chars>>
pointers == <<yytext_ptr, yy_c_buf_p, yy_hold_char, last, yy_act>>
scanner == <<input, taken, calls, pc, buffer, pointers, tokens, dot>>

\* A buffer of size bytes that holds some, the end markers behind them.
Filled(bytes, size) ==
  LET n == Len(bytes)
  IN  [i \in 1..(size + 2) |->
         IF i <= n THEN bytes[i] ELSE IF i <= n + 2 THEN YY_END_OF_BUFFER_CHAR ELSE Junk]

NotStarted == [state |-> 0, cpos |-> 0]

\* The buffer is there before yylex is called when a string is scanned, and is
\* otherwise created by its first call.
ScannerInit ==
  /\ text \in Texts /\ source \in Sources
  /\ taken = 0 /\ calls = 0 /\ pc = "create"
  /\ yy_ch_buf = <<>> /\ yy_buf_size = 0 /\ status = "NEW" /\ yy_n_chars = 0
  /\ yytext_ptr = 0 /\ yy_c_buf_p = 0 /\ yy_hold_char = 0
  /\ last = NotStarted /\ yy_act = 0
  /\ tokens = <<>> /\ dot = <<>>

\* yypanic, or exit in an action.
Exit ==
  /\ pc' = "exit"
  /\ UNCHANGED <<input, taken, calls, buffer, pointers, tokens, dot>>

yy_create_buffer ==
  /\ source # "memory"
  /\ yy_ch_buf' = Filled(<<>>, YY_BUF_SIZE)
  /\ yy_buf_size' = YY_BUF_SIZE
  /\ yy_n_chars' = 0
  /\ taken' = 0

yy_scan_bytes ==
  /\ source = "memory"
  /\ yy_ch_buf' = Filled(text, Len(text))
  /\ yy_buf_size' = Len(text)
  /\ yy_n_chars' = Len(text)
  /\ taken' = Len(text)

Create ==
  /\ pc = "create"
  /\ \/ /\ yy_create_buffer \/ yy_scan_bytes
        /\ yy_hold_char' = Entry(yy_ch_buf', 0)
        /\ pc' = "scan"
        /\ UNCHANGED <<input, calls, status, yytext_ptr, yy_c_buf_p, last, yy_act, tokens, dot>>
     \/ Exit

-----------------------------------------------------------------------------
(* Matching.  A place is [cp, state, last]: the next byte, the state in    *)
(* front of it, and the last accepting state with its position.            *)

Place == [cp : Nat, state : State, last : [state : State, cpos : Nat]]

Saved(p) == IF Accepts(p.state) THEN [state |-> p.state, cpos |-> p.cp] ELSE p.last

Step(p, class) ==
  [cp |-> p.cp + 1, state |-> NextState(p.state, class), last |-> Saved(p)]

\* The loop of yy_match stops at the states that nothing but the jam state
\* follows.
Going == {state \in State : Entry(yy_base, state) # YY_JAMBASE}

\* A loop that ends in the jam state, always one byte later.
yy_matchToTheJam(ch, place) ==
  LET from[p \in Place] ==
        LET next == Step(p, yy_ec(Entry(ch, p.cp)))
        IN  IF next.state = YY_JAMSTATE THEN next ELSE from[next]
  IN  from[place]

yy_match(ch, place) ==
  LET from[p \in Place] ==
        LET next == Step(p, yy_ec(Entry(ch, p.cp)))
        IN  IF next.state \in Going THEN from[next] ELSE next
  IN  from[place]

\* Going on as at the beginning of a token.
yy_get_previous_stateForgotten(ch, start, end) ==
  [cp |-> end, state |-> yystart, last |-> last]

\* Every state that follows is in State, which the tables leave to be seen.
yy_get_previous_state(ch, start, end) ==
  LET class(c) == IF c = 0 THEN YY_NUL_EC ELSE yy_ec(c)
      from[p \in Place] ==
        LET next == Step(p, class(Entry(ch, p.cp)))
        IN  IF p.cp < end /\ next.state \in State THEN from[next] ELSE p
  IN  from[[cp |-> start, state |-> yystart, last |-> last]]

\* yy_find_action and YY_DO_BEFORE_ACTION for the text that starts at from.
FindAction(ch, from, p) ==
  LET backs == ~Accepts(p.state)
      cp == IF backs THEN p.last.cpos ELSE p.cp
      state == IF backs THEN p.last.state ELSE p.state
  IN  /\ yy_act' = Entry(yy_accept, state)
      /\ yytext_ptr' = from
      /\ yy_hold_char' = Entry(ch, cp)
      /\ yy_ch_buf' = [ch EXCEPT ![cp + 1] = 0]
      /\ yy_c_buf_p' = cp
      /\ last' = p.last
      /\ pc' = "action"

\* The buffer with the byte back that yytext's NUL replaced.
Restored == [yy_ch_buf EXCEPT ![yy_c_buf_p + 1] = yy_hold_char]

Scan ==
  /\ pc = "scan"
  /\ FindAction(Restored, yy_c_buf_p,
       yy_match(Restored, [cp |-> yy_c_buf_p, state |-> yystart, last |-> last]))
  /\ UNCHANGED <<input, taken, calls, yy_buf_size, status, yy_n_chars, tokens, dot>>

-----------------------------------------------------------------------------
(* The actions.                                                            *)

yytext == SubSeq(yy_ch_buf, yytext_ptr + 1, yy_c_buf_p)

Matched ==
  /\ pc' = "scan"
  /\ tokens' = Append(tokens, [rule |-> yy_act, text |-> yytext])
  /\ UNCHANGED <<input, taken, calls, buffer, pointers>>

\* A set: printed, and written over the last one; dot_file exits when the
\* file cannot be opened.
SetDefinition ==
  /\ pc = "action" /\ yy_act = 1
  /\ \/ Matched /\ dot' = yytext
     \/ Exit

\* Any other byte is dropped, a newline echoed.
OtherByte ==
  /\ pc = "action" /\ yy_act \in {2, 3}
  /\ Matched
  /\ UNCHANGED dot

AtEndOfBuffer == pc = "action" /\ yy_act = YY_END_OF_BUFFER
yy_amount_of_matched_text == yy_c_buf_p - yytext_ptr - 1
ReallyNul == yy_c_buf_p <= yy_n_chars

\* A NUL of the text: the transition the tables have no column for.
Nul ==
  LET ch == Restored
      at == yytext_ptr + yy_amount_of_matched_text
      p == yy_get_previous_state(ch, yytext_ptr, at)
      next == Step(p, YY_NUL_EC)
  IN  /\ AtEndOfBuffer /\ ReallyNul
      /\ status' = IF status = "NEW" THEN "NORMAL" ELSE status
      /\ FindAction(ch, yytext_ptr,
           IF next.state = YY_JAMSTATE THEN [p EXCEPT !.last = next.last]
           ELSE yy_match(ch, next))
      /\ UNCHANGED <<input, taken, calls, yy_buf_size, yy_n_chars, tokens, dot>>

-----------------------------------------------------------------------------
(* yy_get_next_buffer, and what yylex does with its answer.                *)

\* yyread: from a terminal no further than the end of a line.
Line(t) == SelectInSeq(t, LAMBDA c : c = 10)
Received(max) ==
  LET rest == SubSeq(text, taken + 1, Len(text))
      want == IF source = "terminal" /\ Line(rest) # 0 THEN Line(rest) ELSE Len(rest)
  IN  SubSeq(rest, 1, IF want <= max THEN want ELSE max)

\* The buffer doubles until there is room for one byte more.
Grown(yy_size, number) ==
  LET from[size \in Nat] == IF size - number - 1 <= 0 THEN from[2 * size] ELSE size
  IN  from[yy_size]

number_to_moveWithTheMarker == yy_c_buf_p - yytext_ptr
number_to_move == yy_c_buf_p - yytext_ptr - 1
MovedText == SubSeq(Restored, yytext_ptr + 1, yytext_ptr + number_to_move)

\* yywrap says there is another file, and nobody opened one.
EndOfFileGoesOn ==
  /\ pc' = "scan"
  /\ yy_c_buf_p' = yytext_ptr'
  /\ UNCHANGED <<last, yy_act>>

EndOfFile ==
  /\ pc' = "done"
  /\ yy_c_buf_p' = yytext_ptr'
  /\ UNCHANGED <<last, yy_act>>

\* Nothing more comes, but there is text that a rule may match: the state
\* in front of the end decides.
LastMatch(ch, from, end) ==
  FindAction(ch, from, yy_get_previous_state(ch, from, end))

\* A string: its end is the end.
MemoryEnd ==
  /\ AtEndOfBuffer /\ ~ReallyNul /\ source = "memory"
  /\ IF yy_c_buf_p - yytext_ptr = 1
     THEN /\ yy_ch_buf' = Restored
          /\ yytext_ptr' = yytext_ptr
          /\ yy_hold_char' = yy_hold_char
          /\ EndOfFile
     ELSE LastMatch(Restored, yytext_ptr, yy_n_chars)
  /\ status' = IF status = "NEW" THEN "NORMAL" ELSE status
  /\ UNCHANGED <<input, taken, calls, yy_buf_size, yy_n_chars, tokens, dot>>

\* yyrestart: the buffer as it was when it was new.
yyrestart(size) ==
  /\ yy_ch_buf' = Filled(<<>>, size)
  /\ yy_n_chars' = 0
  /\ status' = "NEW"
  /\ yytext_ptr' = 0
  /\ yy_hold_char' = YY_END_OF_BUFFER_CHAR

Refilled(size, got) ==
  LET bytes == MovedText \o got
      ch == Filled(bytes, size)
  IN  /\ yy_buf_size' = size
      /\ taken' = taken + Len(got)
      /\ \/ /\ got # <<>>
            /\ yy_n_chars' = Len(bytes)
            /\ status' = "NORMAL"
            /\ FindAction(ch, 0, yy_match(ch, yy_get_previous_state(ch, 0, number_to_move)))
         \/ /\ got = <<>> /\ number_to_move > 0
            /\ yy_n_chars' = number_to_move
            /\ status' = "EOF_PENDING"
            /\ LastMatch(ch, 0, number_to_move)
         \/ /\ got = <<>> /\ number_to_move = 0
            /\ yyrestart(size)
            /\ EndOfFile

yy_get_next_buffer ==
  /\ AtEndOfBuffer /\ ~ReallyNul /\ source # "memory"
  /\ LET pending == status = "EOF_PENDING"
         size == IF pending THEN yy_buf_size ELSE Grown(yy_buf_size, number_to_move)
         room == size - number_to_move - 1
         num_to_read == IF room > YY_READ_BUF_SIZE THEN YY_READ_BUF_SIZE ELSE room
     IN  \/ /\ Refilled(size, IF pending THEN <<>> ELSE Received(num_to_read))
            /\ UNCHANGED <<input, calls, tokens, dot>>
         \/ ~pending /\ Exit   \* realloc fails, or the read

\* The caller asks again after the end.
CallAgain ==
  /\ pc = "done" /\ calls < Calls
  /\ calls' = calls + 1
  /\ pc' = "scan"
  /\ UNCHANGED <<input, taken, buffer, pointers, tokens, dot>>

ScannerNext == Create \/ Scan \/ SetDefinition \/ OtherByte \/ Nul \/ MemoryEnd
               \/ yy_get_next_buffer \/ CallAgain

\* yylex runs on its own, and what it waits for is a read that returns.
ScannerSpec == ScannerInit /\ [][ScannerNext]_scanner /\ WF_scanner(ScannerNext)

-----------------------------------------------------------------------------
\* How many bytes some of the tokens have, each counted by its token and place:
\* those of all tokens, and those in front of token k.
BytesOf(ks) == Cardinality(UNION {{k} \X (1..Len(tokens[k].text)) : k \in ks})
Scanned == BytesOf(DOMAIN tokens)
Before(k) == BytesOf(1..(k - 1))

\* What sets.l says of a set in t, behind the first i bytes:
\*   let" "+S  " "*=  [ \t]*"["  ([0-9]+",")+[0-9]+"]"
\* the places where its name, its equals sign, its bracket and the set may end.
Digit == 48..57
Between(t, from, to, class) == \A k \in (from + 1)..(to - 1) : t[k] \in class

NameAt(t, i, at) ==
  /\ at >= i + 5 /\ t[at] = 83
  /\ t[i + 1] = 108 /\ t[i + 2] = 101 /\ t[i + 3] = 116
  /\ Between(t, i + 3, at, {32})

EqualsAt(t, i, at) ==
  /\ t[at] = 61
  /\ \E name \in (i + 1)..(at - 1) : NameAt(t, i, name) /\ Between(t, name, at, {32})

BracketAt(t, i, at) ==
  /\ t[at] = 91
  /\ \E equals \in (i + 1)..(at - 1) :
       EqualsAt(t, i, equals) /\ Between(t, equals, at, {32, 9})

\* Digits and commas, of which every one, as the bracket, has a digit behind it.
ItemsAt(t, from, to) ==
  /\ Between(t, from, to + 1, Digit \cup {44})
  /\ \A k \in from..(to - 1) : t[k] \notin Digit => t[k + 1] \in Digit

SetAt(t, i, at) ==
  /\ t[at] = 93 /\ t[at - 1] \in Digit
  /\ \E bracket \in (i + 1)..(at - 1) :
       /\ BracketAt(t, i, bracket) /\ ItemsAt(t, bracket, at - 1)
       /\ \E k \in (bracket + 1)..(at - 1) : t[k] = 44

\* The longest text that a rule matches there, and the first such rule.
SetEnds(t, i) == {at \in (i + 1)..Len(t) : SetAt(t, i, at)}
TokenAt(t, i) ==
  IF SetEnds(t, i) # {} THEN [rule |-> 1, text |-> SubSeq(t, i + 1, Max(SetEnds(t, i)))]
  ELSE [rule |-> IF t[i + 1] = 10 THEN 3 ELSE 2, text |-> SubSeq(t, i + 1, i + 1)]

(* The tokens are those of sets.l - at each place the longest text that a  *)
(* rule matches, by the first rule that does - wherever the reads cut the  *)
(* text, however often the buffer grew or moved, and with NULs in the      *)
(* text; at the end they are all of them, no matter how often yylex is     *)
(* called again, and the file holds the last set.                          *)
TokensAreTheLongestMatches ==
  /\ \A k \in DOMAIN tokens : tokens[k] = TokenAt(text, Before(k))
  /\ pc = "done" => Scanned = Len(text)
  /\ \/ dot = <<>> /\ \A k \in DOMAIN tokens : tokens[k].rule # 1
     \/ \E k \in DOMAIN tokens : /\ tokens[k] = [rule |-> 1, text |-> dot]
                                /\ \A j \in DOMAIN tokens : j > k => tokens[j].rule # 1

(* No byte is lost or read twice when the buffer is moved, grown or        *)
(* started again: what it holds is the text from the first byte of the     *)
(* token to the last byte read, between two end markers and the front, in  *)
(* a block that is large enough.                                           *)
BufferHoldsTheRest ==
  pc \in {"scan", "action"} =>
    LET first == IF pc = "scan" THEN yy_c_buf_p ELSE yytext_ptr
    IN  /\ Len(yy_ch_buf) = yy_buf_size + 2 /\ yy_n_chars <= yy_buf_size
        /\ first \in 0..yy_n_chars
        /\ SubSeq(Restored, first + 1, yy_n_chars) = SubSeq(text, Scanned + 1, taken)
        /\ Restored[yy_n_chars + 1] = YY_END_OF_BUFFER_CHAR
        /\ Restored[yy_n_chars + 2] = YY_END_OF_BUFFER_CHAR

(* The scanner of a read-eval-print loop: it asks for more input only      *)
(* after every line that it has was answered.                              *)
LinesAreAnsweredFirst ==
  [][taken' # taken /\ pc = "action" =>
       \A i \in 1..taken : text[i] = 10 => i <= Scanned]_scanner
=============================================================================
