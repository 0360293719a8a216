------------------------------ MODULE MmapDriver ------------------------------
(***************************************************************************)
(* The main function that regex_builder/main.c, main.c,                    *)
(* rewrite_source_code/main.c and, twice in a row,                         *)
(* duplicate_file_detection/main.c share, with the buffer functions that   *)
(* flex generates for it (regex_builder/lex.S1_.c): a file is mapped, its  *)
(* text copied into a scan buffer, lexed, and everything released again.   *)
(* C/strip_c_comments.l is the same without the call that deletes the      *)
(* buffer.  Nothing keeps other processes from writing to the file.        *)
(*                                                                         *)
(* A file is a sequence of bytes, of which only NUL matters.               *)
(***************************************************************************)
EXTENDS Integers, Sequences

CONSTANTS
    File,      \* the contents the file may have
    Missing,   \* a file that open cannot open
    PageSize,  \* 4096 bytes
    Deletes,   \* whether the program deletes its buffer: a subset of BOOLEAN
    MaxWrites  \* bound on how often another process writes the file

Byte == {"x", "NUL"}

ASSUME FileAssumption == /\ Missing \notin Seq(Byte)
                         /\ File \subseteq Seq(Byte) \cup {Missing}
ASSUME PageSizeAssumption == PageSize \in Nat \ {0}
ASSUME DeletesAssumption == Deletes \subseteq BOOLEAN
ASSUME MaxWritesAssumption == MaxWrites \in Nat

VARIABLES
    file,    \* what the file contains now
    writes,  \* how often it was written since main began
    deletes, \* which of the programs this is
    pc,
    fd,      \* whether the descriptor is open
    size,    \* s.st_size
    mapped,  \* whether the mapping exists
    len,     \* bytes strlen has counted
    copy,    \* the bytes of the scan buffer in front of its end markers
    heap,    \* the blocks flex has allocated
    current, \* YY_CURRENT_BUFFER: "state", or "NULL"
    status   \* what main returned, -1 before

vars == <<file, writes, deletes, pc, fd, size, mapped, len, copy, heap,
          current, status>>
world == <<file, writes, deletes>>
kernel == <<fd, size, mapped>>
buffer == <<copy, heap, current>>

Init == /\ file \in File
        /\ writes = 0
        /\ deletes \in Deletes
        /\ pc = "open"
        /\ fd = FALSE
        /\ size = 0
        /\ mapped = FALSE
        /\ len = 0
        /\ copy = <<>>
        /\ heap = {}
        /\ current = "NULL"
        /\ status = -1

\* Another process writes the file while main is at work.
OtherWrites ==
    /\ pc \notin {"open", "exit", "killed", "undefined"}
    /\ writes < MaxWrites
    /\ file' \in File \ {Missing, file}
    /\ writes' = writes + 1
    /\ UNCHANGED <<deletes, pc, kernel, len, buffer, status>>

-----------------------------------------------------------------------------
(* The file and its mapping                                                *)

Open ==
    /\ pc = "open"
    /\ IF file = Missing
       THEN pc' = "exit" /\ status' = 1 /\ UNCHANGED fd
       ELSE pc' = "fstat" /\ fd' = TRUE /\ UNCHANGED status
    /\ UNCHANGED <<world, size, mapped, len, buffer>>

SizeOf(bytes) == Len(bytes)

Fstat ==
    /\ pc = "fstat"
    /\ size' = SizeOf(file)
    /\ pc' = "mmap"
    /\ UNCHANGED <<world, fd, mapped, len, buffer, status>>

Mmap ==
    /\ pc = "mmap"
    /\ size > 0
    /\ mapped' = TRUE
    /\ pc' = "strlen"
    /\ UNCHANGED <<world, fd, size, len, buffer, status>>

\* mmap refuses a size of 0, and any size when it has no room.
MmapFails ==
    /\ pc = "mmap"
    /\ pc' = "close"
    /\ UNCHANGED <<world, kernel, len, buffer, status>>

\* Only the pages the bytes fill.
WholePages(bytes) == bytes \div PageSize

Pages(bytes) == (bytes + PageSize - 1) \div PageSize

\* Reading the k-th byte of the mapping: the page the file ends in is filled
\* with zeros, a mapped page behind it raises SIGBUS, and the mapping may be
\* followed by another one or by nothing.
ByteAt(k) ==
    IF k >= PageSize * Pages(size) THEN "outside"
    ELSE IF k < Len(file) THEN file[k + 1]
    ELSE IF k < PageSize * Pages(Len(file)) THEN "NUL"
    ELSE "SIGBUS"

Faults(k) == /\ ByteAt(k) \notin Byte
             /\ pc' = IF ByteAt(k) = "SIGBUS" THEN "killed" ELSE "undefined"

-----------------------------------------------------------------------------
(* yy_scan_string, yy_scan_bytes and yy_scan_buffer                        *)

FollowingByte(k) == k + 1

\* strlen looks at one byte after the other.
Strlen ==
    /\ pc = "strlen"
    /\ \/ /\ ByteAt(len) = "x"
          /\ len' = FollowingByte(len)
          /\ UNCHANGED pc
       \/ /\ ByteAt(len) = "NUL"
          /\ pc' = "alloc"
          /\ UNCHANGED len
       \/ /\ Faults(len)
          /\ UNCHANGED len
    /\ UNCHANGED <<world, kernel, buffer, status>>

AllocCopy ==
    /\ pc = "alloc"
    /\ heap' = heap \cup {"copy"}
    /\ copy' = <<>>
    /\ pc' = "copy"
    /\ UNCHANGED <<world, kernel, len, current, status>>

\* YY_FATAL_ERROR
AllocFails ==
    /\ pc \in {"alloc", "state"}
    /\ pc' = "exit"
    /\ status' = 2
    /\ UNCHANGED <<world, kernel, len, buffer>>

\* A loop that also copies the NUL strlen stopped at.
PastLength == Len(copy) <= len

WithinLength == Len(copy) < len

CopyByte ==
    /\ pc = "copy"
    /\ WithinLength
    /\ \/ /\ ByteAt(Len(copy)) \in Byte
          /\ copy' = Append(copy, ByteAt(Len(copy)))
          /\ UNCHANGED pc
       \/ /\ Faults(Len(copy))
          /\ UNCHANGED copy
    /\ UNCHANGED <<world, kernel, len, heap, current, status>>

CopyEnd ==
    /\ pc = "copy"
    /\ ~WithinLength
    /\ pc' = "state"
    /\ UNCHANGED <<world, kernel, len, buffer, status>>

\* yy_scan_buffer finds the end markers yy_scan_bytes wrote, allocates the state
\* and the stack of buffers, and makes the new buffer the current one: the call
\* of yy_switch_to_buffer in main finds nothing left to do.
ScanBuffer ==
    /\ pc = "state"
    /\ heap' = heap \cup {"state", "stack"}
    /\ current' = "state"
    /\ pc' = "lex"
    /\ UNCHANGED <<world, kernel, len, copy, status>>

\* The scanner reads its copy to the end and leaves the buffer to main.
Lex ==
    /\ pc = "lex"
    /\ pc' = IF deletes THEN "delete" ELSE "munmap"
    /\ UNCHANGED <<world, kernel, len, buffer, status>>

\* A buffer whose bytes are taken for the caller's, as yy_scan_buffer does.
StateOnly == {"state"}

\* yy_is_our_buffer is set: the bytes go with the state.
Owned == {"state", "copy"}

DeleteBuffer ==
    /\ pc = "delete"
    /\ current' = IF current = "state" THEN "NULL" ELSE current
    /\ heap' = heap \ Owned
    /\ copy' = <<>>
    /\ pc' = "munmap"
    /\ UNCHANGED <<world, kernel, len, status>>

Munmap ==
    /\ pc = "munmap"
    /\ mapped' = FALSE
    /\ pc' = "close"
    /\ UNCHANGED <<world, fd, size, len, buffer, status>>

Close ==
    /\ pc = "close"
    /\ fd' = FALSE
    /\ status' = 0
    /\ pc' = "exit"
    /\ UNCHANGED <<world, size, mapped, len, buffer>>

Main == \/ Open \/ Fstat \/ Mmap \/ MmapFails
        \/ Strlen \/ AllocCopy \/ AllocFails \/ CopyByte \/ CopyEnd \/ ScanBuffer
        \/ Lex \/ DeleteBuffer \/ Munmap \/ Close

Next == Main \/ OtherWrites

Spec == Init /\ [][Next]_vars

-----------------------------------------------------------------------------
(* Properties                                                              *)

\* Every variable has a value of its type.
TypeOK ==
    /\ file \in File
    /\ writes \in 0 .. MaxWrites
    /\ deletes \in Deletes
    /\ pc \in {"open", "fstat", "mmap", "strlen", "alloc", "copy", "state", "lex",
               "delete", "munmap", "close", "exit", "killed", "undefined"}
    /\ fd \in BOOLEAN /\ mapped \in BOOLEAN
    /\ size \in Nat /\ len \in Nat
    /\ copy \in Seq(Byte)
    /\ heap \subseteq {"copy", "state", "stack"}
    /\ current \in {"NULL", "state"}
    /\ status \in {-1, 0, 1, 2}

\* The text of a file: what stands in front of its first NUL.
IsTextOf(front, bytes) ==
    /\ Len(front) <= Len(bytes)
    /\ \A k \in 1 .. Len(front) : front[k] = bytes[k] /\ bytes[k] # "NUL"
    /\ Len(front) < Len(bytes) => bytes[Len(front) + 1] = "NUL"

\* As long as nobody writes the file, the scanner is given its text up to the
\* first NUL (main.c:24), from a mapping whose every byte it may read; and what
\* it is given has never more bytes than the file had when main looked.
LexesTheText ==
    pc = "lex" => /\ writes = 0 => IsTextOf(copy, file)
                  /\ Len(copy) <= PageSize * Pages(size)

\* The scan of the mapping (strlen and the copy, lex.S1_.c:5644-5673) is only
\* cut short by SIGBUS when another process made the file lose a page after
\* main looked at its size. Of a file nobody writes it only runs past the mapping
\* when the file fills its last page and has no NUL; of one that is written the
\* property says nothing of this, as no later state tells what strlen has read.
FaultsHaveACause ==
    /\ pc = "killed" => writes > 0 /\ Pages(Len(file)) < Pages(size)
    /\ pc = "undefined" => \/ writes > 0
                           \/ Len(file) % PageSize = 0 /\ IsTextOf(file, file)

\* flex's current buffer is never a freed one, and its bytes live as long as it
\* does; when main returns 0, the descriptor, the mapping and, where main deletes
\* its buffer, all but the stack of buffers are released (main.c:27-31).
ReleasesWhatItHolds ==
    /\ current = "state" => {"state", "copy", "stack"} \subseteq heap
    /\ status = 0 => /\ ~fd /\ ~mapped
                     /\ deletes => heap \subseteq {"stack"} /\ current = "NULL"

\* regex_builder/lex.S1_.c:5641 (the comment of yy_scan_string) asks for "a
\* NUL-terminated string to scan": the mapping main passes to it has a NUL.
ScansATerminatedString ==
    pc = "strlen" /\ writes = 0 =>
        \E k \in 0 .. (PageSize * Pages(size) - 1) : ByteAt(k) = "NUL"

=============================================================================
