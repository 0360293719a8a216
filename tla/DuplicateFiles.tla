---------------------------- MODULE DuplicateFiles ----------------------------
(***************************************************************************)
(* duplicate_file_detection: main.c runs the scanner of s1.l over the      *)
(* first file of sha256 sums and that of s2.l over the second, prints a    *)
(* line for every pair of entries with equal checksums and frees the       *)
(* strings.  The two scanners are the same program over two copies of the  *)
(* global arrays, so the model indexes one scanner by the file it reads.   *)
(*                                                                         *)
(* A file is a sequence of symbols: a run of 64 hexadecimal digits is one  *)
(* symbol (a member of Sum), a newline is NL, and any other character is a *)
(* member of Char.  What the scanners print themselves, the newlines that  *)
(* flex's default rule echoes, is left out.                                *)
(***************************************************************************)
EXTENDS Integers, Sequences, FiniteSets

CONSTANTS
    Sum, Char, NL,
    File,     \* pairs of files: <<first, second>>, a file being Missing or a text
    Argc,     \* the argument counts main may be started with
    MaxLen,   \* ARRAY_MAX_LEN; 10000 in the code
    Missing,  \* a file that open cannot open
    Null      \* a slot nothing was stored in

Symbol == Sum \cup Char \cup {NL}

ASSUME SymbolAssumption == /\ Sum \cap Char = {}
                           /\ NL \notin Sum \cup Char
                           /\ Null \notin Sum /\ Null \notin {-1, 0, 1}
ASSUME MaxLenAssumption == MaxLen \in Nat \ {0}
ASSUME FileAssumption == /\ Missing \notin Seq(Symbol)
                         /\ File \subseteq (Seq(Symbol) \cup {Missing})
                                           \X (Seq(Symbol) \cup {Missing})
ASSUME ArgcAssumption == Argc \subseteq Nat

VARIABLES
    files,     \* the two files, in the order of the arguments
    argc,
    pc,
    reading,   \* 1 or 2: the file open at the moment
    rest,      \* the part of it its scanner has not matched
    state,     \* the start condition of that scanner
    checksum,  \* checksum_s1 and checksum_s2
    filepath,  \* filepath_s1 and filepath_s2
    idx,       \* array_idx_s1 and array_idx_s2
    live,      \* the slots holding a string sdsnew made and sdsfree has not freed
    i, j,      \* the loop counters
    printed,   \* the pairs of paths printed
    status     \* what main returned, Null before

vars == <<files, argc, pc, reading, rest, state, checksum, filepath, idx,
          live, i, j, printed, status>>

Which == {1, 2}
Slot == 0 .. (MaxLen - 1)

arrays == <<checksum, filepath, idx, live>>
inputs == <<files, argc>>

Init ==
    /\ files \in File
    /\ argc \in Argc
    /\ pc = "main"
    /\ reading = 1
    /\ rest = <<>>
    /\ state = "INITIAL"
    /\ checksum = [s \in Which |-> [k \in Slot |-> Null]]
    /\ filepath = [s \in Which |-> [k \in Slot |-> Null]]
    /\ idx = [s \in Which |-> 0]
    /\ live = {}
    /\ i = 0 /\ j = 0
    /\ printed = <<>>
    /\ status = Null

Return(code) == pc' = "exit" /\ status' = code

CheckArguments ==
    /\ pc = "main"
    /\ IF argc = 3
       THEN pc' = "open" /\ UNCHANGED status
       ELSE Return(-1)
    /\ UNCHANGED <<inputs, reading, rest, state, arrays, i, j, printed>>

(* open and mmap.  An empty file cannot be mapped and is skipped: scanning *)
(* it would match nothing either.                                          *)
OpenFile ==
    /\ pc = "open"
    /\ IF files[reading] = Missing
       THEN Return(1) /\ UNCHANGED <<rest, state>>
       ELSE /\ pc' = "scan"
            /\ rest' = files[reading]
            /\ state' = "INITIAL"
            /\ UNCHANGED status
    /\ UNCHANGED <<inputs, reading, arrays, i, j, printed>>

-----------------------------------------------------------------------------
(* The rules of s1.l and s2.l                                              *)

\* Every scanner storing into the arrays of s1.l.
AlwaysFirst(s) == 1

Arrays(s) == s

OpenSlot(s) == idx[s]

\* [a-f0-9]{64}
MatchChecksum ==
    LET s == Arrays(reading) IN
    /\ pc = "scan" /\ state = "INITIAL"
    /\ rest # <<>> /\ Head(rest) \in Sum
    /\ IF idx[s] \in Slot
       THEN /\ checksum' = [checksum EXCEPT ![s][OpenSlot(s)] = Head(rest)]
            /\ live' = live \cup {<<s, "checksum", OpenSlot(s)>>}
            /\ state' = "fpath"
            /\ rest' = Tail(rest)
            /\ UNCHANGED pc
       ELSE /\ pc' = "undefined"
            /\ UNCHANGED <<checksum, live, state, rest>>
    /\ UNCHANGED <<inputs, reading, filepath, idx, i, j, printed, status>>

\* The symbols .* matches at the head of rest: those before the next newline.
LineLength(text) ==
    CHOOSE n \in 0 .. Len(text) :
        /\ \A k \in 1 .. n : text[k] # NL
        /\ n = Len(text) \/ text[n + 1] = NL

\* Skipping one character of yytext instead of two.
DropOne(line, after) == Tail(line)

\* sdsnew(&yytext[2]): two characters less. A line of one character ends at
\* yytext[1], and what lies behind is the text after its newline. A checksum
\* right behind the checksum loses two of its own digits.
PathOf(line, after) ==
    IF Head(line) \in Sum
    THEN << <<"last 62 of", Head(line)>> >> \o Tail(line)
    ELSE IF Len(line) > 1
         THEN IF line[2] \in Sum
              THEN << <<"last 63 of", line[2]>> >> \o SubSeq(line, 3, Len(line))
              ELSE SubSeq(line, 3, Len(line))
         ELSE SubSeq(after, 2, Len(after))

\* The slot of the next file, when the index is not advanced.
SameSlot(k) == k

NextSlot(k) == k + 1

\* <fpath>.*
MatchPath ==
    LET s == Arrays(reading)
        n == LineLength(rest)
        after == SubSeq(rest, n + 1, Len(rest))
    IN
    /\ pc = "scan" /\ state = "fpath"
    /\ rest # <<>> /\ Head(rest) # NL
    /\ filepath' = [filepath EXCEPT ![s][idx[s]] = PathOf(SubSeq(rest, 1, n), after)]
    /\ live' = live \cup {<<s, "filepath", idx[s]>>}
    /\ idx' = [idx EXCEPT ![s] = NextSlot(@)]
    /\ state' = "INITIAL"
    /\ rest' = after
    /\ UNCHANGED <<inputs, pc, reading, checksum, i, j, printed, status>>

\* The rules . and \n, and the default rule that echoes a newline in fpath:
\* .* does not match it there, and the scanner stays in fpath.
MatchOther ==
    /\ pc = "scan"
    /\ rest # <<>>
    /\ \/ state = "INITIAL" /\ Head(rest) \notin Sum
       \/ state = "fpath" /\ Head(rest) = NL
    /\ rest' = Tail(rest)
    /\ UNCHANGED <<inputs, pc, reading, state, arrays, i, j, printed, status>>

\* End of the text: back to main, which deletes the buffer and closes the file.
EndOfFile ==
    /\ pc = "scan"
    /\ rest = <<>>
    /\ IF reading = 1
       THEN reading' = 2 /\ pc' = "open" /\ UNCHANGED <<i, j>>
       ELSE UNCHANGED reading /\ pc' = "join" /\ i' = 0 /\ j' = 0
    /\ UNCHANGED <<inputs, rest, state, arrays, printed, status>>

-----------------------------------------------------------------------------
(* The loops of main                                                       *)

SameChecksum(a, b) == checksum[1][a] = checksum[2][b]

ComparePair ==
    /\ pc = "join"
    /\ i < idx[1] /\ j < idx[2]
    /\ printed' = IF SameChecksum(i, j)
                  THEN Append(printed, <<filepath[1][i], filepath[2][j]>>)
                  ELSE printed
    /\ j' = j + 1
    /\ UNCHANGED <<inputs, pc, reading, rest, state, arrays, i, status>>

NextEntry ==
    /\ pc = "join"
    /\ i < idx[1] /\ j >= idx[2]
    /\ i' = i + 1
    /\ j' = 0
    /\ UNCHANGED <<inputs, pc, reading, rest, state, arrays, printed, status>>

JoinEnd ==
    /\ pc = "join"
    /\ i >= idx[1]
    /\ pc' = "free"
    /\ reading' = 1
    /\ i' = 0
    /\ UNCHANGED <<inputs, rest, state, arrays, j, printed, status>>

\* The second loop copied from the first with its bound.
FirstCount(s) == idx[1]

Count(s) == idx[s]

FreeEntry ==
    /\ pc = "free"
    /\ i < Count(reading)
    /\ live' = live \ {<<reading, "checksum", i>>, <<reading, "filepath", i>>}
    /\ i' = i + 1
    /\ UNCHANGED <<inputs, pc, reading, rest, state, checksum, filepath, idx,
                   j, printed, status>>

FreeEnd ==
    /\ pc = "free"
    /\ i >= Count(reading)
    /\ IF reading = 1
       THEN reading' = 2 /\ i' = 0 /\ UNCHANGED <<pc, status>>
       ELSE Return(0) /\ UNCHANGED <<reading, i>>
    /\ UNCHANGED <<inputs, rest, state, arrays, j, printed>>

Next == \/ CheckArguments \/ OpenFile
        \/ MatchChecksum \/ MatchPath \/ MatchOther \/ EndOfFile
        \/ ComparePair \/ NextEntry \/ JoinEnd
        \/ FreeEntry \/ FreeEnd

Spec == Init /\ [][Next]_vars

-----------------------------------------------------------------------------
(* Properties                                                              *)

\* A pathless checksum at the end of a file holds a slot that idx never passes.
Dangling ==
    {<<s, "checksum", idx[s]>> : s \in
        {s \in Which : idx[s] \in Slot /\ checksum[s][idx[s]] # Null}}

Completed ==
    {h \in Which \X {"checksum", "filepath"} \X Slot : h[3] < idx[h[1]]}

\* What sdsnew made is freed exactly once (s1.l and s2.l lines 15-21, main.c
\* lines 69-77): until the last loops the strings are those of the completed
\* entries and of a pathless last checksum, the loops free strings that are
\* there, and only the pathless ones are left when main returns 0.
StringsAreFreedOnce ==
    /\ pc \in {"open", "scan", "join"} => live = Completed \cup Dangling
    /\ pc = "free" /\ i < Count(reading) =>
           {<<reading, "checksum", i>>, <<reading, "filepath", i>>} \subseteq live
    /\ status = 0 => live = Dangling

=============================================================================
