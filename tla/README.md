# A verification development for learn_flex

`learn_flex` is a collection of small programs around flex and bison scanners:
tools that compare words, find duplicate files, build regular expressions,
extract sources from notebooks, validate expressions, and more. There is no
server and no protocol in it. What makes it hard to get right is *state that
outlives a match*: start conditions, global tables and buffers of fixed size,
indices shared by two rules, text kept by `yymore`, a file that is mapped while
others may write it. A test feeds such a program a few texts; the modules here
run it on every short text, and the proofs cover all texts where they can.

Contents: [inventory](#inventory), [modules](#modules-and-their-code),
[refinements](#abstract-specifications), [runs](#runs-and-their-bounds),
[fairness](#fairness), [proofs](#proofs),
[disagreements](#disagreements-between-code-and-documentation),
[not modelled](#not-modelled), [what is left](#what-is-left).

Everything is run in this directory: `tlc -workers 2 -config X.cfg M` for a
run, `tlapm M_proofs.tla` for the proofs.

## Inventory

Every program is a process with one thread. They interact with files, with the
user's terminal and, three of them, with child processes; two of them are built
from several scanners in one process.

| component | state | operations | hard behaviour | what makes it correct |
| --- | --- | --- | --- | --- |
| edit distance (`edit_distance/`) | globals `X`, `Y`, `dist[10][10]`, `ptr[10][10][3]`, loop counters | choose two words from the arguments or a lexed file, fill border and table, report | tables of fixed size filled to the terminating NUL inclusive; a cell depends on three others in global arrays | a defined behaviour exactly for words that fit; the number is the distance; the pointers explain it |
| duplicate files (`duplicate_file_detection/`) | two copies of checksum and path arrays with an index; two scanners with a start condition | scan two lists of checksums, join them, free | checksum and path stored by different rules; unchecked arrays; one scanner copied from the other | the arrays follow the lines, the report is the join, strings are freed once |
| regular expression builder, scanner (`regex_builder/scanner.l`) | `line_buffer[2048]`, table of what to show | encode runs of characters, echo lines | overlapping classes, rule order, unchecked `strcat`, a function without a return | runs are whole and in order, lines are echoed once |
| mapped file driver (`regex_builder/main.c` and three more) | descriptor, mapping, flex's buffers | map a file, copy it into a scan buffer, lex, release | other processes write the file; a mapping need not end with a NUL | the text is lexed, everything is released, faults have a known cause |
| substitution (`regex_builder/resub.c`) | `results[1024]`, shared by all calls; offset and copy of the text | replace all matches | offsets into a copy used for the original; empty matches; accumulated results | a call appends the replaced text, in one step of its caller |
| splitting (`regex_builder/resplit.c`) | frames of the recursion, compiled expressions | print the pieces between matches | recursion with 10000 bytes per frame, two paths that free | pieces spell the text, expressions are freed, depth is bounded |
| expression validator (`arithmetic/symbol_table.l`, `expression_parser.y`) | word list, `state`, flex's read buffer, bison's stack | define words, look them up, parse, start over | `feof` true while text is unread; an error loses a token; state crosses lines and calls | tokens mean what the lines before say; "valid" is said of one expression |
| notebook extraction (`extract_source_from_ipynb_notebooks/source.l`) | start condition, bracket count, text kept by `yymore`, kind of the cell | copy source arrays to a file | brackets in the text; an action without `yymore`; unknown kinds of cells; text used as a format | brackets and kept text belong to one cell; every source is copied |
| dynamic strings (`edit_distance/sds.c`) | a block: header type, length, allocation, bytes | create, copy, append, trim, cut, map, grow, shrink; split, join, quote, parse, format | the header's type changes with the length; type 5 has no free space; `malloc` fails; lengths can be read back from a NUL | a plain byte string, in a block that can record it |
| calculator (`calc/`) | bison's two stacks, the lookahead token, a union | evaluate lines of integers or rationals | stacks grow by doubling or cannot; a sign with the wrong-looking precedence; the first error ends it | answers are what the text means, on time, and the stacks are never left |
| set reader (`repl/sets.l`, `repl/lex.yy.c`) | flex's buffer, its pointers and remembered match | find definitions of sets in a file, a terminal or memory | tokens cut by reads, NULs in the text that look like the end of the buffer, a buffer that grows | longest matches wherever reads cut, an end for every text |
| comment stripping (`C/strip_c_comments.l`) | start condition | drop comments | comments that do not end, openers inside comments | what is left is the code |
| maximum and average (`arithmetic/get_max.l`, `average.l`) | current key, maximum; sum and count | keep the greatest number of each key; divide | an exclusive state only a number leaves; a division by zero | statistics of the lines |
| PDF filter and sorter (`pdf_test.l`, `pdf_testing/`) | the file name; files on disk | run `pdfinfo` or `xpdf`, move a file with `rsync` | two moves of one file, commands longer than their buffers, children that are cut short | the file is never lost and moved once |
| address list (`network_addressing.l`) | nine start conditions, a counter | print adapters and addresses | inclusive states in the order of another program's output | an address is complete or not ended |
| LaTeX reader (`latex/latex_parser_v0/latex_repl.l`) | orientation of standard output | print the character of a command | wide and narrow output to one stream | the first piece of a text decides which kind is printed |
| source rewriter (`rewrite_source_code/scanner.l`) | `line_buffer[2048]` | add a text behind each field | the buffer is never cleared | every field is rewritten until the file's fields fill the buffer |
| C tokenizer, C code generator, character frequencies, word count and kernel log filter, user table, hash and Python examples, scanner generator, vendored code | little or none between matches | print a form of what they match | - | see [below](#not-modelled) |

The hazards, each at its line with the properties that would catch it, are
listed in `PROJECT.json`.

## Modules and their code

One convention is common to all: a text is a sequence of symbols, and a symbol
stands for what the rules tell apart - a character, a keyword at the start of a
line, a run of 64 hexadecimal digits. flex's rule (longest match, then first
rule) is spelt out where it decides something (`RegexBuilder`) and built into
the guards where the rules exclude each other. Undefined behaviour of C is a
value `"undefined"` of `pc` from which nothing follows: the model says when it
is reached, not what happens then.

**EditDistance** models `edit_distance.l`. `Start`, `LexWord` and `LexEnd` are
the selection of the words in `main` and in the rule; `Measure` the two calls of
`sdslen`; `FillColumn`, `FillRow` and `FillCell` one iteration of each loop,
with `ColumnEnd`, `RowEnd` and `NextRow` their ends. A word carries its NUL, as
the loops run to it. `Arr`, `Least` and `Optimal` are `distance()`.

**DuplicateFiles** models `main.c`, `s1.l` and `s2.l`. The scanners are equal up
to the names of their arrays, so a scanner is indexed by the file it reads; the
operator `Arrays` says whose arrays it writes. `&yytext[2]` is `PathOf`, which
looks behind the match where the code does. **ChecksumReport** has what a list of
checksums means (its lines, their checksums and paths, the join of two lists) and
the properties that compare the program with it.

**RegexBuilder** models `scanner.l`. `Rules` is the table of its rules, each with
its place among them, the name it prints and the names it looks up (the rules
`LBRACK` and `LT` look up others than their own); `FirstRule` is the one with the
least place of those that match longest. `MatchRun` is any rule but `NL`,
`MatchNewLines` the rule `NL`, `MatchOther` the last one. The value of
`search_print_struct` for a name it does not list is arbitrary.

**MmapDriver** models `regex_builder/main.c`, the same text in two more
directories, and the functions of `lex.S1_.c` it calls. `Strlen` and `CopyByte`
are one iteration each, so that `OtherWrites`, the other process, can come
between any two reads. `ByteAt` is what a read of the mapping gives: a byte of
the file as it is now, a zero behind its end, SIGBUS on a page the file lost, or
something outside of the mapping.

**Resub** models `resub.c`: `Call` is the head of the function, `ReplaceMatch`
an iteration with a match, `AppendRest` the one without, `Clear` the client's
`memset`. **GlobalReplace** is the abstract specification: a call appends the
replaced text at once, or never returns. **Resplit** models `resplit.c`, its
frames and `regfree` included. **PosixRegex** is `regexec`, which is external: a
pattern is the set of strings it matches, without anchors (both functions pass
no `REG_NOTBOL`, so an anchor would match again behind every match).

**ExprValidator** composes the scanner, the symbol table, the parser and `main`.
`Fill` is flex's `YY_INPUT`, a line of a terminal or a block of a file, because
`feof` depends on it. `ShiftToken` and `SyntaxError` are the parser; the completed
rule is reduced without a look at the next token, as bison does in a state with
one action.

**NotebookSource** models `source.l`: one action per rule, and
`EchoInCellType` for flex's default rule, which is what the state `CELL_TYPE`
has for everything but two words. `fprintf(yyout, tmp)` takes the text of a
markdown line as its format, which `HasConversion` makes undefined where it holds
a conversion. The reference behind `ExtractsEverySource` says of each symbol of
an array (`ArrayAt`) whether it is written and as what (`IsWritten`, `AsWritten`),
from the whole of the array and the kind of the cell.

**Calculator** models `calc/`: the parser as bison generated it, with the packed
tables of `expr.tab.c`, so that what is checked is the automaton that runs and
not the grammar it came from. `yysetstate` pushes the state and lets the stacks
grow (`Full`) or fail to; `NeedsToken`, `Entry`, `Shift`, `Reduce` and `Error`
are the labels `yybackup` to `yyerrlab1`. A value is the expression that
computes it, so that two answers are equal only when they are computed alike.
`Member` is the member of `%union` a rule reads: reading the other one gives
`Garbage`.

**Sds** models the functions of `edit_distance/sds.c` that change a string, as
operators on a block (header type, recorded length and allocation, room of the
allocation, bytes) and one action for each function of `sds.h`; `malloc` may
fail at every call. The capacities of the header types are constants.
**SdsText** has the functions that split, join, quote and parse, **SdsFormat**
those that append more than one piece, with the blocks in between. `call` records
the last call and its arguments; no step looks at it, but the abstract
specification, **ByteString**, says what each call may do. `sdssplitlen` is the
set of what it may return: `NoTokens` is its cleanup when memory is refused.
`sdscatfmt` is "undefined" where C gives it no meaning (`Meaningless`): for the
least `long long`, whose `-value` overflows (`sds.c:458`), and for a `%` at the
end of the format, behind which the loop reads on.

**SetsScanner** models `repl/sets.l` through `repl/lex.yy.c`: the tables, the
buffer with its two end-of-buffer bytes, `yy_c_buf_p`, `yytext_ptr`, the
character under `YY_DO_BEFORE_ACTION` and the last accepting state. One step is
the work between two places where `yylex` may stop (a token, a read, the end);
`yy_get_next_buffer` is `MovedText`, `Grown` and `Refilled` in the order of the code.
The other generated scanners of the repository have the same functions.

**TextScanner** is what flex does for the six small scanners that need no more
of it than the text behind a position (`Ahead`, `Span`) and the default echo.
**TextFilters** (comment stripping, maximum, average), **AddressList**,
**LatexRepl** and **SourceRewriter** have one action per rule and share its
variables. `NewKey` is the unchecked `strcpy` of get_max too: a key that does
not fit `current_repo` with its NUL ends the model in "overflow". In LatexRepl,
`Accepts` is the orientation of a C stream: the first `wprintf` or echo decides,
and the other kind of output is dropped.

**PdfMoves** models the PDF filter and the sorter over one `rsync`, external,
which copies and then removes and can be cut short before either. What a name
of a given length does to the `char cmd[128]` of a command is `Fits`.
`Main` has the outcomes of the `strcpy` through the pointer that `pdf_test.l`
never sets, and of the sorter's `pclose` of a viewer that did not start.

The `MC...` modules give the constants their values and hold the reference
definitions that only TLC evaluates (quoted and
formatted texts). `MCPosixRegex` runs Resub or Resplit,
`MCFilters` one of the eight programs that read one text: a behaviour is a run of
one of them. The `..._proofs` modules hold the theorems.

In most modules a few operators exist to be one plausible bug away from another
(`NextSlot` and `SameSlot`, `Owned` and `StateOnly`): `PROJECT.json` lists under
"mutants" which of them each property was seen to catch.

## Abstract specifications

* **GlobalReplace** says what `resub` promises: a call appends, at once, the
  buffer with every match replaced, matches being taken from the left, each as
  early and as long as possible. `Resub!Abstract` maps the results array while
  no call runs, and what it was before the call while one does; the run
  `posix_regex` checks `ReplacesEveryMatch == Abstract!Spec` and `ReplacesAll`
  proves it. A call that never returns, because an empty match is next, implements it by stuttering.
* **ByteString** says what sds promises: a string of any bytes, and for each
  function an action that says, of the arguments in `call`, what it makes of them:
  `sdscatlen` the bytes and then the text, `sdstrim` what lies between the first
  and the last byte not in the set, `sdscatfmt` something in which each directive
  can be read back (a decimal of the number, not the digits of a loop). A call
  that needs memory may leave the bytes alone and return NULL. It knows nothing of
  headers, allocations and terminators. The mapping takes the recorded length of
  the bytes in the block; the run `sds` checks `ImplementsByteString` with failures
  of `malloc` at every call, and `FormattedStringsImplementByteStrings` proves it.

## Runs and their bounds

| run | distinct states | what it asks | bounds, and why they are enough |
| --- | --- | --- | --- |
| `edit_distance` | 22428 | Is the number printed the edit distance of the right two words, do pointers explain it, is each cell computed from filled ones, and is the program defined exactly for words that fit? | extent 5, two letters, words of up to 4 letters (4 is one too many for the table), files of up to 3 words, each of which may be the one too long. All ways in which two words can share letters occur from 3 letters on. |
| `duplicate_files` | 33977 | Do the arrays follow the lines, is the report the join, are strings freed once, do the arrays overflow exactly when too long? | arrays of 2, lists of up to 3 lines (one too many) with escaped names and a name that is itself a digest, and all texts of up to 4 symbols on one side |
| `regex_builder` | 50706 | Do the items cover the text in order with whole runs, is each line echoed once, and does the buffer overflow exactly on long lines? | all texts of up to 4 characters of 9 that cover each overlap of classes, and some with the special rules; a buffer of 4 |
| `expr_validator` | 19455 | Do tokens follow the text, is "valid" said of one expression, what of a file is judged? | the session of `example.png` and all continuations of up to 5 symbols, redefinitions, blocks of 12 symbols so that files are shorter and longer than a read, terminal and file |
| `posix_regex` | 231213 | Does a call of `resub` append the replaced text, and does it return? Do the pieces of `resplit` spell the text, and do only frames wait? | `resub`: all buffers of up to 4 characters, 6 patterns (overlapping, alternatives, empty matches), 3 calls, results of 9 and so too small for some. `resplit`: the call of its `main`, all buffers of up to 6 characters and one of 8 that does not fit a frame, 5 patterns, 4 frames, fewer than the longest texts take |
| `notebook_source` | 54724 | Do brackets and kept text belong to one cell, and is every source copied? | notebooks of up to 2 cells of up to 2 lines with brackets and names of cells in the text, blank lines, percent signs and other kinds of cells, and every sequence of up to 4 symbols that no notebook has |
| `mmap_driver` | 33666 | Is the text lexed, everything released, and has each fault a cause, whoever writes the file? | pages of 2 bytes, files of up to 2 pages, 2 writes by another process between any two steps: enough to shrink and grow the file under strlen or under the copy |
| `mmap_driver_comment` | violation | Does every mapping end with a NUL, as `yy_scan_string` asks? No. | the same files, nobody writing |
| `calculator` | 749975 | Are answers what the text means, given before the next line is read, up to the first error, on stacks that are never left? | every input of up to 7 tokens; stacks of 2 that may grow to 4 and 8, or fail to: 7 tokens nest deeper than 8 entries |
| `sds` | 33659 | Is the block well formed after any sequence of calls, does it implement a plain string, do texts come back from quoting, splitting and formatting? | strings of up to 4 bytes out of a NUL, a space, a quote and a backslash; capacities 1, 2, 4, 8, so that a string passes through four header types; formats with every kind of directive, numbers of one and two digits, the least number and a `%` at the end. The `VIEW` leaves `call` out: states that differ in it have the same steps |
| `sets_scanner` | 50967 | Are tokens the longest matches wherever reads cut them, is nothing lost in the buffer, is a line answered before the next is read, does every text end? | texts of up to 3 of 7 pieces, whole sets, beginnings of sets, NULs and newlines; reads of 2 bytes and a buffer of 4, so that a token of 11 is moved and grows the buffer several times; one call after the end |
| `filters` | 1173963 | Six questions of eight programs, see below. | comment stripping: all texts of up to 7 of 4 characters; maximum and average: up to 6, and up to 4 with keys of 255 characters, which just fit `current_repo`, and of 256; addresses: 3 words of what `ip addr` prints, or 6 of numbers; LaTeX: up to 6 of a backslash and names of which some are prefixes of others; fields: 4 words. File names of the lengths around every array. |

The properties of `filters`: `CommentsAreStripped` (nothing but comments is
dropped; the reference has no string literals, as the program has none: an opener
in one opens a comment), `StatisticsAreOfTheLines` (of any text, with keys where numbers should
stand and numbers without keys: a line for each run of equal keys with its
largest number, an overflow exactly at the first key that does not fit, a mean
that is undefined without numbers), `AddressesHaveFourNumbers`, `FirstPieceDecides`
(LaTeX output is of the kind of the first piece), `EveryFieldIsRewritten`,
`FirstMoveDecides` (PDF).

Each of the other properties is explained where it is defined. Deadlock is not
checked: every program here ends, by design, in a state without a successor.
Bounds are constants; the modules themselves count only what an environment
would do for ever: `MaxCalls` (`Resub`), `MaxWrites` (`MmapDriver`), `MaxTokens`
(`Calculator`), `MaxLen` (`Sds`), `Calls` (`SetsScanner`). Limits of `int` and
`long` are not modelled: no text is as long (`yy_scan_bytes` takes an `int`, to
which `strlen`'s result is converted, `lex.S1_.c:5647`), and the numbers in the
texts of the calculator, the maximum and the average are taken to fit (what
`atol` returns for others, and a sum or product that overflows, is left out).

## Fairness

Liveness is stated where termination is in question, under weak fairness of the
program's own steps: one thread that the operating system runs and that waits
for nobody.

* `ReturnsUnlessFullOrStuck` (`posix_regex`), under `WF` of the steps of
  `resub` after the call: a call returns unless results overflow or an empty
  match is next, in which case the loop at line 26 goes on for ever. The client
  gets no fairness: nobody has to call again.
* `EveryTextEnds` (`sets_scanner`), under `WF_vars(Next)`: all steps are the
  scanner's, a read of a terminal included, which the user answers with a line or
  the end of the input.

## Proofs

Eight modules have machine-checked proofs, for every value of the constants that
satisfies the named assumptions of the modules proved about. Where a reader of
the code would expect an induction over a run, the invariant is what makes that
induction work. A property that compares the state with the text read so far is
proved from an invariant that says the same of every prefix; where the reference
is a recursive function (the replaced text, the text without comments), the
proof first shows that such a function exists and satisfies its equation, by
counting down from the end of the text (`RecursionFromAbove`), and then uses the
equation at the place where the scanner stands.

* **EditDistance** (`EditDistance_proofs`; `DimAssumption`, `RequestAssumption`,
  `NoWordAssumption`). `TableShape` is `AdjacentCellsDiffer`: neighbouring cells
  differ by one, diagonal ones by 0 or 2. It is not inductive: `Inv` adds where
  the loop counters stand (`LoopBounds`) and that the border holds its index
  (`BorderFilled`); three neighbours of the right shape give a fourth
  (`CellKeepsTable`). `DefinedWhenItFits` needs which words `X` and `Y` are at
  each point (`WordsSelected`), as the file's words are matched one by one.
  `PointersExplain` is that the back-pointers of an inner cell are exactly the
  operations that lead to its distance; it needs that nothing points anywhere
  before the cell is filled (`PointersFresh`), as the code only ever adds, and that
  filling one leaves the cells it was compared with alone. `ResultIsLeast` is that
  the number printed is the cost of the cheapest alignment: an alignment of two
  words is a set of pairs of their positions that do not cross, and
  `CheapestAlignment` shows, by what becomes of the two last characters, that
  the least cost for two prefixes follows from the three shorter ones as
  `distance()` computes it. `CellsAreDistances` says this of every cell the
  loops have filled. `TypeCorrect` is the type invariant.
* **DuplicateFiles** (`DuplicateFiles_proofs`; `SymbolAssumption`,
  `MaxLenAssumption`, `FileAssumption`, `ArgcAssumption`, `BlankAssumption`).
  `StringsFreedOnce`: the live strings are the completed entries, those not freed
  yet once `main` frees, and a checksum that waits for its path (`LiveStrings`);
  slots behind the index are empty (`OpenSlots`), or the next checksum would lose
  a string. `EntriesFollowTheLines`: `EntriesInv` says where in a well-formed
  list a scanner stands - at a line, behind its checksum, behind its path - and
  that the index is the rank of that line among the starts of lines.
  `ReportIsComplete`: `JoinInv` says that the report is the pairs of lines passed
  so far (`Passed`), in the order of the two loops. `OverflowIsATooLongFile`
  follows from both.
* **RegexBuilder and MmapDriver** (`RegexBuilder_proofs`; `ClassAssumption`, and
  `FileAssumption`, `PageSizeAssumption`, `DeletesAssumption`,
  `MaxWritesAssumption`). Of the driver: `Releases`, `TextIsLexed`,
  `FaultsExplained`, `TypeCorrect`, for files and pages of every size and any
  number of writes; the invariant adds which blocks exist at each step
  (`HeldBlocks`) and what strlen and the copy have read so far (`ReadSoFar`). Of
  the scanner: `RunsTileTheText` and `LinesAreEchoedOnce`. A rule is known by its
  name (`RulesAreKnown`), and `TileInv` says which match of which rule each item
  is: the longest, by the first rule that has it. The property knows no rules
  and no matches: it goes by what the text is from where an item begins up to the
  first character that cannot go on (`Reach`), and `ReachIs` shows that this is
  how far the longest match of the rule goes. `LineInv` says where in the text the open line begins, that
  the buffer spells it, and that each line echoed so far fitted (`LinesFit`), from
  which the two clauses about an overflow follow.
* **ExprValidator** (`Parsers_proofs`; `TextAssumption`, `WordAssumption`,
  `BlockAssumption`, `InteractiveAssumption`). `TokensAreTheText`: the word list
  holds what the lines read so far define (`WordsInv`: `state` is what the first
  word of the line says, and the first definition of a name is the one `lookup`
  finds), and the tokens returned are the words the text so far means something
  by (`TokensInv`), compared by rank across calls of the parser.
  `ValidMeansAnExpression`: `StackInv` reads the parser's stack and what was
  printed off the tokens of the call at work (`Judged`). `OneReadIsOneCall`:
  `OnceInv` says when `feof` can be true while text is unread.
* **Calculator** (`Parsers_proofs`; `DepthAssumption`, `NoErrorRule`):
  `ParserStaysOnItsStack`. That a reduction never pops below the bottom does not
  follow from the depth of the stack: it holds because the states on it are a
  path of the automaton the tables pack. `Below` gives the states that may lie
  below each one; every shift and goto keeps the path (`ShiftsFollow` and the
  lemmas behind it, each a finite fact of the tables), and from a state that
  reduces by a rule one can go back along any path as many states as the rule is
  long.
  `ErrorsAreTheFirst` and `EveryLineIsAnsweredFirst` compare the automaton with the
  tokens of the line alone (`Fits`, `Asked`): `Follows` says that the top state
  tells whether an operand comes before, whether the line is empty, and of which
  kind it is, and that the states behind an opening bracket on the stack are as
  many as the brackets still open. A shift takes `Follows` to the next token
  (`ShiftFollows`), a reduction leaves it as it is (`ReduceFollows`: it pops a
  bracket only with the one that closes it), what is shifted fits (`ShiftFits`)
  and what is an error does not (`ErrorDoesNotFit`). `Handled` adds the count of
  answers: one is due exactly in the two states behind the end of a line, which
  read no token.
  `AnswersAreMeant` says what the answers are. `Meaning` is the value of a part of
  the text by the precedences of `expr.y`, without a parser: where the operators
  outside of brackets are, which of them are signs, and the one that binds least.
  It is a recursive function, which exists because parts of a part are shorter
  (`MeaningExists`), and what it yields for two expressions and an operator between
  them, a sign, brackets and a number is a lemma each (`SumMeans` to `NumberMeans`).
  `MeantInv` says that the entries of the stack stand for the tokens shifted, one
  behind the other (`Spanned`), and that one that holds an expression
  (`IsExpression`) has the value and the type of its part of the text. That is not
  inductive: whether `a * b + c` means what the reductions make of it depends on
  what follows `a * b`. `Shape` says which operators a part may have outside of
  brackets, by its state and by the next token: a state is left for a token that
  binds more than it has read, so what has no sum or sign apart stays a factor.
  Each rule keeps it (`BinaryMakes`, `SignMakes`, `BracketMakes`, `NumberMakes`).
* **Resub and Resplit** (`PosixRegex_proofs`; the assumptions of both).
  `OffsetStaysInside` is the type invariant of Resub: the offset, which is added
  up from matches in copies, stays inside of the buffer. `ReplacesAll` is the
  refinement of GlobalReplace: `Progress` says that what is still to be replaced
  in the copy, appended to what results has, is the replaced text the abstract
  call appends, and `RefinementStep` maps each step to a stutter, the abstract
  call, or one that never returns. `FullBeforeUndefined` is what liveness needs
  of safety: an undefined call had no room. `RecursionIsBounded`, for texts,
  frames and patterns of every size: unless the pattern matches the empty string,
  each waiting call took at least one character (`TextShrinks`).
  `SplitLosesNothing`: `PiecesInv` says that what was printed and the text at
  work spell the buffer, and that no piece that ends at a match holds one.
  All rest on `RegexecFindsAMatch`: of finitely many matches one is leftmost and
  longest. `SplitTypeCorrect` is the type invariant of Resplit.
* **NotebookSource** (`NotebookSource_proofs`; `NotebookAssumption`,
  `CountOnlyAssumption`): `BracketsAreBalanced`, `KeptTextEnds`, `TypeCorrect`;
  the three are inductive together. `balanced` is compared with cardinalities
  since the array began, and `DepthStep` is what one symbol adds to them.
  `EverySourceIsExtracted` needs more: `InArrayOf` says which array the scanner is
  in, from where on yymore keeps its text - behind the last line written or the
  last blank line - and that yyout is what the symbols before that place ask for
  (`Copied`, the prefixes of the reference); `BetweenArrays` that every array
  begun so far has been closed. What is lost in front of a blank line, and what
  --count leaves out, is known only when the array's end is, so the reference
  reads an array as a whole and the proof shows at each end that all of the kept
  text, or none of it, is to be written (`KeptIsWritten`, `ClosingIsCopied`).
* **Sds** (`Buffers_proofs`; `SdsAssumption`, `FormatAssumption`).
  `StringsAreWellFormed`: each function
  maps a good block to a good block: the type that `sdsReqType` picks can record
  the length (`ReqType`), so the mask of `sdssetlen` cuts nothing; what
  `sdsMakeRoomFor` leaves has room for the bytes its caller then writes, and
  their terminator. `sdstrim` and `sdsupdatelen` need a least and a greatest
  position, which well-founded induction on the naturals supplies.
  `FormattedStringsImplementByteStrings` is the refinement of ByteString: a lemma
  for each way of writing (`CutContent`, `AddedContent`, `PadContent`,
  `MapContent`) says what a function leaves of the bytes, and a lemma for each
  action (`NewStep` to `JoinStep`) that it is the abstract action of its name.
* **SdsFormat, SdsText** (`Buffers_proofs`; a byte is one of 0..255, a plain
  directive has one, and no length overflows `size_t`).
  `FormattedStringsAreWellFormed` and `FormattedStringsImplementByteStrings` take
  in the calls that append in pieces. A block in the middle of `sdscatfmt` may
  lack its terminator, so the invariant of the loop is `Open`, with the bytes so
  far (`Follows`); `DirectiveOpen` says that the look for one byte and the look
  for the text together leave room, and at the end the one terminator makes the
  block `Good` (`FormatEnds`, and `AppendEnds` for the other two). `PartsAppended`
  finds the cuts between the parts that ByteString asks for; the digits of
  `sdsll2str` are a decimal of their number for every number but the least
  (`NumberIsWritten`: the loop takes off the digits that `Reading` puts on).
  `TextsReturn` proves `TextsComeBack` for strings of any length. The loops are
  recursive functions over a place in the text (`SplitEnd`, `ReadEnd`, `ArgsEnd`),
  which exist (`LoopIs`) and stop (`LoopStops`). `SplitSoFar`, the invariant of `sdssplitlen`,
  says that the parts so far and the separators behind them spell the text up to
  `start`, that no separator begins between `start` and `j`, and that a slot is
  free. For `sdssplitargs`, a quoted text is the concatenation of what its bytes
  are printed as (`Lies`), reading one of these moves over exactly its characters
  and appends the byte it stands for (`EscapedIsRead`, a case for each kind of
  escape), and no printed character is a NUL (`WithoutNul`), so the C string is
  the whole of it.
* **SetsScanner** (`Buffers_proofs`; `TextsAssumption`, `SizeAssumption`,
  `SourceAssumption`), for every text, every size of a read and a file, a terminal
  or a string. The loops of the scanner are recursive functions, of which it has
  to be shown that they exist: `LoopExists` gives any loop a function that
  satisfies its equation, whether or not the loop ends, so that nothing about a
  match is taken for granted. What yields that matching ends is a finite fact of
  the tables (`Transitions`: which state follows each live one on which class)
  and the NUL behind the last byte: a run is a way through the live states that
  the bytes in front of the pointer spell (`Runs`), `MatchEnds` and
  `RetraceEnds` say where `yy_match` and `yy_get_previous_state` leave it.
  `BufferInv` relates the buffer to the text: the bytes of the tokens returned
  (`Scanned`, counted with a cardinality) are the first of the text, and the
  buffer has those from there to the last byte read (`Holds`), between the token
  and the two end markers; at work on a token, the bytes up to the pointer are
  a run. `TheBufferHoldsTheRest` and `EveryLineIsAnswered` follow from it: the
  second because no live state lies behind a newline (`NoNewlineInARun`).
  `TokensAreLongest` compares the tokens with the patterns of `sets.l`, stated
  without recursion by the places where the parts of a set may end (`SetAt`,
  `TokenAt`). A run that leads into a set has read its beginning
  (`RunReadsASet`, from `SoFar`, which says it of each state), over a set there is
  a run (`SetHasRun`), and from one place there is one run, so no run that begins
  a set stops before its end or goes past it (`RunsOfASet`). What is new in the
  invariant is why a single byte is a token (`Stopped`): at some place the next
  byte leads no further into a set, or the run has come to the end of the bytes,
  and that counts only when nothing follows them. `Ended` says when that is so:
  for a string always, for a file once a read returned nothing, which
  `yy_buffer_status` remembers.
* **The filters** (`Filters_proofs`; `InputAssumption`, `StartedAssumption`,
  `KeyAssumption`).
  `CommentsGo`: `StripInv` says that what is printed, and the code behind the
  place where the scanner stands, is the code of the whole text, with an equation
  for each way a comment begins and ends. `OneKindArrives`: `LatexInv` says the
  same of the pieces of a LaTeX text, and that the orientation is that of the
  first. `LinesAreAddresses`: `AddressInv` counts the numbers since the last line
  begun, which the start condition gives. `StatisticsAreRight`: of get_max,
  `LineSoFar` says that `current_repo` is the last stored key and
  `max_watchers_count` the largest number of the run it belongs to, `Shows` that
  what is printed is what the places passed ask for, compared by rank, and
  `Settled` that the start condition is `integer` exactly where a number is
  looked for and that no number is left half read; a key that begins a run is one
  that differs from `current_repo` (`RunBegins`), so it is copied, and fits or
  ends the program. For average, an invariant of the sum and count of each prefix
  suffices. `EveryFieldGetsItsText`, which assumes of
  `line_buffer` only that it has a byte (`BufferAssumption`): what the scanner
  matches is the longest field in front of it (`FieldIsMatched`), no field begins
  in another (`FieldsAreApart`), so the scanner never stands in one (`Clear`), and
  where a symbol is printed follows from how many fields end in front of it
  (`RewriteInv`). `FileIsMovedOnce`: `MovesOnce` ties
  where the file is to how far `rsync` came and who waits for it, `NameFits` the
  length of the name to the commands built so far.

Only model-checked: liveness, which is out of the prover's reach -
`ReturnsUnlessFullOrStuck` (its safety half is proved) and `EveryTextEnds`.

## Disagreements between code and documentation

One run is expected to find a violation of what the repository says of a
program: `mmap_driver_comment`. `yy_scan_string` asks for a NUL-terminated string
(`lex.S1_.c`), and a file that fills its pages is mapped without one
(`main.c:24`).

The models show some more, which are part of what the passing runs state:

* the words of `edit_distance_test` have 9 letters, and the first loop writes
  `dist[10][0]` (`edit_distance.l:76`): the tables have room for 8;
* `sdssplitlen` "on zero length string" returns NULL, says its comment
  (`sds.c:809`); it returns an array, of which the caller is told a count of 0;
* `LBRACK` is defined as `"]"` (`regex_builder/scanner.l:82`), so `[` only
  matches the last rule and is missing from the encoding;
* the rule for a blank line (`source.l:43`) does not call `yymore`, so the lines
  of a cell in front of a blank one are lost;
* the sorter asks for "0 for trash, anything else for keep", but only 0, 1 and q
  have rules, and other keys are echoed;
* `pdf_test.l:2` says that it only filters encrypted files, and a rule moves files
  with JavaScript as well;
* `latex_repl.l` never calls `setlocale`, so that no character above ASCII can be
  printed; the checked-in `lex.yy.c` comes from an older text that did. Code
  points above U+FFFF are cut to 16 bits in the rules (U+1D400 is written
  `0xD400`; `latex_2_unicode.txt:1866` has the name's own).

## Not modelled

* **Vendored and duplicated code**: two copies of xxHash (of which the programs
  call one function on one buffer), a second copy of sds, the Hermes LaTeX parser.
* **Generated scanners** other than `repl/lex.yy.c`: `misc/`, `utils/`, `latex/`
  and `regex_builder/` hold flex's output for other rules, with the same `yylex`
  and buffer functions, whose behaviour `SetsScanner` has. Their tables, and the
  functions no program calls (`yyunput`, `input`, the stack of buffers), are left
  out. This and the vendored code are most of the lines of the repository, so
  that the modules stand for about a tenth of all lines and for nearly all of
  those written by hand that keep any state.
* `latex_repl.l` has 2444 rules that differ in a name and a code; six names stand
  for them. `ch3-01.l` and `ch3-01.y` lack the header they share.
* **Programs without state between matches** (C tokenizer, word count, kernel log
  filter, `factorial.l`), **with constant input** (`char_frequency.c`, the C code
  generator), or **that only call a library** (`hashtable.c`, the hash and Python
  examples); `regex_builder/test.py`, which formats rules.
* In modelled components: `sdscatvprintf`, whose text `vsnprintf` makes;
  `sdsull2str`, which is `sdsll2str` without a sign; the memory of the arrays that
  `sdssplitlen` and `sdssplitargs` return; the
  rounding of the calculator's and the average's `float`; the fields of a PDF
  report whose rules begin states that no rule has; the names of the files the
  notebook program opens, and `post-processing.sh`. What is printed for a user is
  left out of all modules unless a property is about it.

## What is left

An abstract specification of `DuplicateFiles` (a join in one step) and of the
buffer of `SetsScanner` (a text and a position), with refinement mappings.
