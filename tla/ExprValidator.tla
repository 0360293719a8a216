---------------------------- MODULE ExprValidator ----------------------------
(***************************************************************************)
(* arithmetic/symbol_table.l and expression_parser.y: a scanner whose      *)
(* symbol table is filled by lines that begin with "integer" or "binop",   *)
(* and a parser of INTEGER BINOP INTEGER that asks it for tokens. main     *)
(* calls the parser until the input is at its end.                         *)
(*                                                                         *)
(* A text is a sequence of symbols: the keywords "integer" and "binop" at  *)
(* the start of a line, single characters that can be words, characters    *)
(* the scanner ignores, and newlines.                                      *)
(***************************************************************************)
EXTENDS Integers, Sequences, FiniteSets

CONSTANTS
    Word,        \* the characters of the rule in line 15
    Other,       \* characters only the rule . matches
    Text,        \* the texts on standard input
    Interactive, \* whether standard input is a terminal: a subset of BOOLEAN
    Block        \* what one read of a file asks for; 8192 characters in flex

NewLine == "\n"
Keyword == {"integer", "binop"}
Symbol == Word \cup Other \cup Keyword \cup {NewLine}

\* A keyword inside a line would be spelt as single characters.
StartsLine(text, k) == k = 1 \/ text[k - 1] = NewLine

ASSUME TextAssumption ==
    \A text \in Text : /\ text \in Seq(Symbol)
                       /\ \A k \in 1 .. Len(text) :
                             text[k] \in Keyword => StartsLine(text, k)
ASSUME WordAssumption == /\ (Word \cup Other) \cap (Keyword \cup {NewLine}) = {}
                         /\ Word \cap Other = {}
ASSUME BlockAssumption == Block \in Nat \ {0}
ASSUME InteractiveAssumption == Interactive \subseteq BOOLEAN

VARIABLES
    text, interactive,
    filled,    \* how many symbols have been read into the scanner's buffer
    eof,       \* feof(yyin)
    pos,       \* how many of them have been matched
    state,     \* the global of that name: LOOKUP, or the type of the words
    word_list, \* the list of words, the latest first
    stack,     \* the parser's stack
    token,     \* the token yylex returned
    pc,
    trace      \* calls of yyparse, tokens, and messages, in order

validator == <<text, interactive, filled, eof, pos, state, word_list, stack, token,
          pc, trace>>
input == <<text, interactive>>
reader == <<filled, eof>>
parser == <<stack, token, trace>>

ValidatorInit ==
    /\ text \in Text
    /\ interactive \in Interactive
    /\ filled = 0
    /\ eof = FALSE
    /\ pos = 0
    /\ state = "LOOKUP"
    /\ word_list = <<>>
    /\ stack = <<>>
    /\ token = "none"
    /\ pc = "main"
    /\ trace = <<>>

-----------------------------------------------------------------------------
(* Reading: flex's YY_INPUT on standard input                              *)

\* A terminal gives one line at a time, a file a block.
Chunk ==
    LET ends == {k \in (filled + 1) .. Len(text) :
                    \/ interactive /\ text[k] = NewLine
                    \/ ~interactive /\ k = filled + Block}
    IN  IF ends = {}
        THEN [size |-> Len(text) - filled, eof |-> TRUE]
        ELSE [size |-> (CHOOSE k \in ends : \A e \in ends : k <= e) - filled,
              eof  |-> FALSE]

Fill ==
    /\ pc = "yylex"
    /\ pos = filled
    /\ filled' = filled + Chunk.size
    /\ eof' = Chunk.eof
    /\ IF Chunk.size = 0
       THEN token' = "end" /\ pc' = "yyparse"
       ELSE UNCHANGED <<token, pc>>
    /\ UNCHANGED <<input, pos, state, word_list, stack, trace>>

-----------------------------------------------------------------------------
(* The rules of symbol_table.l                                             *)

Next1 == text[pos + 1]

Advance(p) == p + 1

\* A rule matches the next symbol in the buffer.
Matched(symbols) ==
    /\ pc = "yylex"
    /\ pos < filled
    /\ Next1 \in symbols
    /\ pos' = Advance(pos)
    /\ UNCHANGED <<input, reader>>

Type(keyword) == IF keyword = "integer" THEN "INTEGER" ELSE "BINOP"

\* A newline that leaves the words of the next line to be defined.
KeepState(s) == s

StateAfterNewLine(s) == "LOOKUP"

MatchNewLine ==
    /\ Matched({NewLine})
    /\ state' = StateAfterNewLine(state)
    /\ UNCHANGED <<word_list, parser, pc>>

MatchKeyword ==
    /\ Matched(Keyword)
    /\ state' = Type(Next1)
    /\ UNCHANGED <<word_list, parser, pc>>

\* The type of the first word in the list with that name.
lookup_word(name) ==
    LET at == {n \in DOMAIN word_list : word_list[n].name = name}
    IN  IF at = {}
        THEN "LOOKUP"
        ELSE word_list[CHOOSE n \in at : \A m \in at : n <= m].type

Unknown(name) == lookup_word(name) = "LOOKUP"

\* add_word(state, yytext)
AddWord ==
    /\ state # "LOOKUP"
    /\ Matched(Word)
    /\ word_list' = IF Unknown(Next1)
                    THEN <<[name |-> Next1, type |-> state]>> \o word_list
                    ELSE word_list
    /\ UNCHANGED <<state, parser, pc>>

\* A word that is not in the list is reported and skipped, any other one
\* returned as a token of its type.
LookUpWord ==
    /\ state = "LOOKUP"
    /\ Matched(Word)
    /\ IF lookup_word(Next1) = "LOOKUP"
       THEN UNCHANGED <<token, pc>>
       ELSE token' = lookup_word(Next1) /\ pc' = "yyparse"
    /\ UNCHANGED <<state, word_list, stack, trace>>

MatchOther ==
    /\ Matched(Other)
    /\ UNCHANGED <<state, word_list, parser, pc>>

-----------------------------------------------------------------------------
(* expression_parser.y                                                     *)

CallParser ==
    /\ pc = "main"
    /\ stack' = <<>>
    /\ trace' = Append(trace, "yyparse")
    /\ pc' = "yylex"
    /\ UNCHANGED <<input, reader, pos, state, word_list, token>>

\* What the parser can shift on top of its stack.
Expected ==
    CASE stack = <<>>                   -> "INTEGER"
      [] stack = <<"INTEGER">>          -> "BINOP"
      [] stack = <<"INTEGER", "BINOP">> -> "INTEGER"
      [] OTHER                          -> "end"

\* The third token completes the rule: it is reduced without looking further.
ShiftToken ==
    /\ pc = "yyparse"
    /\ token = Expected
    /\ IF token = "end"
       THEN pc' = "test" /\ stack' = <<>> /\ trace' = Append(trace, token)
       ELSE /\ pc' = "yylex"
            /\ IF Len(stack) = 2
               THEN /\ stack' = <<"expression">>
                    /\ trace' = trace \o <<token, "expression is valid">>
               ELSE /\ stack' = Append(stack, token)
                    /\ trace' = Append(trace, token)
    /\ token' = "none"
    /\ UNCHANGED <<input, reader, pos, state, word_list>>

\* A parser that puts its stack down but goes on in the same call.
Resume(t) == IF t = "end" THEN "test" ELSE "yylex"

Abort(t) == "test"

\* The grammar has no error rule: yyparse reports the error and returns, and
\* the token is lost.
SyntaxError ==
    /\ pc = "yyparse"
    /\ token # Expected
    /\ pc' = Abort(token)
    /\ stack' = <<>>
    /\ token' = "none"
    /\ trace' = trace \o <<token, "syntax error">>
    /\ UNCHANGED <<input, reader, pos, state, word_list>>

\* Running on without a look at the input.
NeverAtEnd == FALSE

AtEnd == eof

\* while (!feof(yyin))
Test ==
    /\ pc = "test"
    /\ pc' = IF AtEnd THEN "exit" ELSE "main"
    /\ UNCHANGED <<input, reader, pos, state, word_list, parser>>

ValidatorNext ==
    \/ Fill
    \/ MatchNewLine \/ MatchKeyword \/ AddWord \/ LookUpWord \/ MatchOther
    \/ CallParser \/ ShiftToken \/ SyntaxError \/ Test

ValidatorSpec == ValidatorInit /\ [][ValidatorNext]_validator

-----------------------------------------------------------------------------
(* Properties                                                              *)

Types == {"INTEGER", "BINOP"}

\* The first definition of the word at position k of the text, on the lines
\* before its own, as a reader of the text sees it.
LineStart(k) == CHOOSE b \in 1 .. k : /\ StartsLine(text, b)
                                      /\ \A c \in (b + 1) .. k : ~StartsLine(text, c)

Definitions(k) == {d \in 1 .. (k - 1) : /\ text[d] = text[k]
                                        /\ text[LineStart(d)] \in Keyword}

MeaningAt(k) ==
    IF text[k] \notin Word \/ text[LineStart(k)] \in Keyword \/ Definitions(k) = {}
    THEN "nothing"
    ELSE Type(text[LineStart(CHOOSE d \in Definitions(k) :
                                \A e \in Definitions(k) : d <= e)])

\* What the scanner has returned is what the text means: the words outside of
\* definitions that an earlier line defined, each with the type of its first
\* definition, in order, none lost or repeated between calls of yyparse
\* (symbol_table.l:9-26 and 43-70).
TokensFollowTheText ==
    LET returned == IF token \in Types THEN Append(trace, token) ELSE trace
        given == {k \in DOMAIN returned : returned[k] \in Types}
        meant == {k \in 1 .. pos : MeaningAt(k) # "nothing"}
    IN  /\ Cardinality(given) = Cardinality(meant)
        /\ \A g \in given, m \in meant :
              Cardinality({h \in given : h < g}) = Cardinality({n \in meant : n < m})
                  => returned[g] = MeaningAt(m)

\* "expression is valid" is printed exactly when the first three tokens of a
\* call of yyparse are INTEGER BINOP INTEGER: never for tokens of two calls.
ValidIsOneExpression ==
    \A k \in DOMAIN trace :
        trace[k] = "expression is valid"
            <=> k > 4 /\ SubSeq(trace, k - 4, k - 1)
                            = <<"yyparse", "INTEGER", "BINOP", "INTEGER">>

\* A file that one read takes in whole is at its end after the first call of
\* yyparse, which is then the only one: a second expression of it is never
\* judged, and on a terminal everything typed is (expression_parser.y:18-22).
FileIsJudgedOnce ==
    /\ ~interactive /\ Len(text) < Block =>
          \A j, k \in DOMAIN trace : trace[j] = "yyparse" /\ trace[k] = "yyparse" => j = k
    /\ interactive /\ pc = "exit" /\ text # <<>> /\ text[Len(text)] = NewLine
           => pos = Len(text)

=============================================================================
