------------------------- MODULE RegexBuilder_proofs -------------------------
(* Proofs about the regular expression builder, for files, pages, texts and   *)
(* buffers of every size: main maps, copies and releases a file that others   *)
(* write (MmapDriver), and the scanner encodes the text (RegexBuilder).        *)
EXTENDS MmapDriver, RegexBuilder, FiniteSetTheorems, SequenceTheorems, WellFoundedInduction, TLAPS

(***************************************************************************)
(* main and flex's buffers.                                                *)
(***************************************************************************)


\* Once main has a descriptor, the file is one that exists.
FileExists ==
    pc \in {"fstat", "mmap", "strlen", "alloc", "copy", "state", "lex", "delete",
            "munmap", "close", "killed", "undefined"} => file \in Seq(Byte)

\* The blocks and the current buffer flex has at each step, and that the
\* mapping is gone where main closes the descriptor.
HeldBlocks ==
    /\ pc \in {"open", "fstat", "mmap", "strlen", "alloc", "copy", "state"} =>
           current = "NULL"
    /\ pc \in {"open", "fstat", "mmap"} => heap = {}
    /\ pc \in {"copy", "state"} => "copy" \in heap
    /\ pc \in {"munmap", "close"} /\ deletes =>
           heap \subseteq {"stack"} /\ current = "NULL"
    /\ pc = "strlen" => heap = {}
    /\ pc \in {"open", "fstat", "mmap", "close"} => ~mapped
    /\ pc # "exit" => status = -1

\* How far strlen and the copy have got, and what they have seen of a file that
\* was left alone.
AllText(n) == n <= Len(file) /\ \A k \in 1 .. n : file[k] = "x"

ReadSoFar ==
    /\ pc \in {"open", "fstat", "mmap"} => len = 0
    /\ pc \in {"mmap", "strlen", "alloc", "copy", "state", "lex"} /\ writes = 0 =>
           size = Len(file) /\ AllText(len)
    /\ pc \in {"alloc", "copy", "state", "lex"} /\ writes = 0 =>
           (len < Len(file) => file[len + 1] = "NUL")
    /\ pc \in {"copy", "state", "lex"} =>
           /\ Len(copy) <= len
           /\ Len(copy) <= PageSize * Pages(size)
           /\ writes = 0 => \A k \in 1 .. Len(copy) : copy[k] = file[k]
    /\ pc \in {"state", "lex"} => Len(copy) = len

\* The properties are not inductive alone: what is freed depends on what was
\* allocated, and what is lexed on every byte strlen and the copy have read.
Inv == /\ TypeOK /\ FileExists /\ HeldBlocks /\ ReadSoFar
       /\ ReleasesWhatItHolds /\ FaultsHaveACause

-----------------------------------------------------------------------------
\* The pages of n bytes hold at least n bytes, and exactly n only if the last
\* one is full.
LEMMA PagesCover ==
    ASSUME NEW n \in Nat
    PROVE  /\ Pages(n) \in Nat
           /\ PageSize * Pages(n) \in Nat
           /\ n <= PageSize * Pages(n)
           /\ PageSize * Pages(n) = n => n % PageSize = 0
<1> DEFINE q == (n + PageSize - 1) \div PageSize
<1>1. PageSize \in Nat \ {0} /\ q \in Nat
  BY PageSizeAssumption
<1>2. /\ PageSize * q \in Nat
      /\ n + PageSize - 1 = PageSize * q + ((n + PageSize - 1) % PageSize)
      /\ (n + PageSize - 1) % PageSize \in 0 .. (PageSize - 1)
  BY <1>1
<1>3. n <= PageSize * q
  BY <1>1, <1>2
<1>4. ASSUME PageSize * q = n PROVE n % PageSize = 0
  <2> DEFINE d == n \div PageSize
             m == n % PageSize
  <2>1. d \in Int /\ m \in 0 .. (PageSize - 1) /\ n = PageSize * d + m
    BY <1>1
  <2>2. PageSize * (q - d) = m
    BY <1>1, <1>4, <2>1
  <2> HIDE DEF q, d, m
  <2>3. q - d >= 1 => PageSize * (q - d) >= PageSize
    BY <1>1, <2>1
  <2>4. q - d <= -1 => PageSize * (q - d) <= 0 - PageSize
    BY <1>1, <2>1
  <2>5. q - d = 0
    BY <1>1, <2>1, <2>2, <2>3, <2>4
  <2> QED
    BY <1>1, <2>1, <2>2, <2>5 DEF m
<1> QED
  BY <1>1, <1>2, <1>3, <1>4 DEF Pages

\* What a read of the mapping tells about the file.
LEMMA ReadByte ==
    ASSUME TypeOK, file \in Seq(Byte), NEW k \in Nat
    PROVE  /\ ByteAt(k) = "x" => k < Len(file) /\ file[k + 1] = "x"
           /\ ByteAt(k) = "NUL" => (k < Len(file) => file[k + 1] = "NUL")
           /\ ByteAt(k) \in Byte /\ k < Len(file) => ByteAt(k) = file[k + 1]
           /\ ByteAt(k) \in Byte => k < PageSize * Pages(size)
           /\ ByteAt(k) \in Byte \cup {"outside", "SIGBUS"}
           /\ ByteAt(k) = "outside" => k >= PageSize * Pages(size)
           /\ ByteAt(k) = "SIGBUS" => /\ k >= PageSize * Pages(Len(file))
                                      /\ k < PageSize * Pages(size)
<1>a. size \in Nat /\ Len(file) \in Nat
  BY DEF TypeOK
<1>1. PageSize * Pages(size) \in Nat /\ PageSize * Pages(Len(file)) \in Nat
  BY <1>a, PagesCover
<1>2. k < Len(file) => file[k + 1] \in Byte
  OBVIOUS
<1> QED
  BY <1>a, <1>1, <1>2 DEF ByteAt, Byte

\* A read outside of the file but on a mapped page means that the file lost a
\* page, and one behind the mapping that the text fills its pages.
LEMMA FaultCause ==
    ASSUME TypeOK, file \in Seq(Byte), NEW k \in Nat,
           writes = 0 => size = Len(file) /\ AllText(k)
    PROVE  /\ ByteAt(k) = "SIGBUS" => writes > 0 /\ Pages(Len(file)) < Pages(size)
           /\ ByteAt(k) = "outside" =>
                 writes > 0 \/ (Len(file) % PageSize = 0 /\ IsTextOf(file, file))
<1>1. size \in Nat /\ Len(file) \in Nat /\ writes \in Nat
  BY MaxWritesAssumption DEF TypeOK
<1>2. /\ Pages(size) \in Nat /\ Pages(Len(file)) \in Nat
      /\ PageSize * Pages(size) \in Nat /\ PageSize * Pages(Len(file)) \in Nat
      /\ Len(file) <= PageSize * Pages(Len(file))
      /\ PageSize * Pages(Len(file)) = Len(file) => Len(file) % PageSize = 0
  BY <1>1, PagesCover
<1>3. ASSUME ByteAt(k) = "SIGBUS"
      PROVE  writes > 0 /\ Pages(Len(file)) < Pages(size)
  <2>1. PageSize * Pages(Len(file)) < PageSize * Pages(size)
    BY <1>2, <1>3, ReadByte
  <2>2. Pages(Len(file)) < Pages(size)
    BY <1>2, <2>1, PageSizeAssumption
  <2> QED
    BY <1>1, <1>2, <2>2
<1>4. ASSUME ByteAt(k) = "outside", writes = 0
      PROVE  Len(file) % PageSize = 0 /\ IsTextOf(file, file)
  <2>1. k >= PageSize * Pages(size) /\ k <= Len(file) /\ size = Len(file)
    BY <1>4, ReadByte DEF AllText
  <2>2. k = Len(file) /\ PageSize * Pages(Len(file)) = Len(file)
    BY <1>1, <1>2, <2>1
  <2>3. \A n \in 1 .. Len(file) : file[n] = "x"
    BY <1>4, <2>2 DEF AllText
  <2> QED
    BY <1>1, <1>2, <2>2, <2>3 DEF IsTextOf
<1> QED
  BY <1>1, <1>3, <1>4

\* The initial state satisfies the invariant.
THEOREM InitInv == Init => Inv
<1> SUFFICES ASSUME Init PROVE Inv
  OBVIOUS
<1>1. TypeOK
  <2>1. 0 \in 0 .. MaxWrites /\ <<>> \in Seq(Byte)
    BY MaxWritesAssumption
  <2> QED
    BY <2>1, Zenon DEF Init, TypeOK
<1>2. FileExists /\ HeldBlocks /\ ReleasesWhatItHolds /\ FaultsHaveACause
  BY DEF Init, FileExists, HeldBlocks, ReleasesWhatItHolds, FaultsHaveACause
<1>3. ReadSoFar
  BY DEF Init, ReadSoFar
<1> QED
  BY <1>1, <1>2, <1>3 DEF Inv

-----------------------------------------------------------------------------
\* Every step keeps the types.
LEMMA NextTypes == Inv /\ [Next]_vars => TypeOK' /\ FileExists'
<1> SUFFICES ASSUME Inv, [Next]_vars PROVE TypeOK' /\ FileExists'
  OBVIOUS
<1> USE DEF Inv, TypeOK, FileExists, world, kernel, buffer
<1>1. CASE Open
  BY <1>1, FileAssumption DEF Open
<1>2. CASE Fstat
  BY <1>2 DEF Fstat, SizeOf
<1>3. CASE Mmap \/ MmapFails
  BY <1>3 DEF Mmap, MmapFails
<1>4. CASE Strlen
  BY <1>4 DEF Strlen, FollowingByte, Faults
<1>5. CASE AllocCopy \/ AllocFails
  <2>1. CASE AllocCopy
    BY <1>5, <2>1 DEF AllocCopy
  <2>2. CASE AllocFails
    BY <1>5, <2>2 DEF AllocFails
  <2> QED
    BY <1>5, <2>1, <2>2
<1>6. CASE CopyByte \/ CopyEnd
  <2>1. CASE CopyByte
    <3>1. copy' \in Seq(Byte) /\ pc' \in {"copy", "killed", "undefined"}
      BY <2>1 DEF CopyByte, Faults
    <3> QED
      BY <2>1, <3>1 DEF CopyByte
  <2>2. CASE CopyEnd
    BY <2>2 DEF CopyEnd
  <2> QED
    BY <1>6, <2>1, <2>2
<1>7. CASE ScanBuffer \/ Lex
  BY <1>7 DEF ScanBuffer, Lex
<1>8. CASE DeleteBuffer
  BY <1>8 DEF DeleteBuffer, Owned
<1>9. CASE Munmap \/ Close
  BY <1>9 DEF Munmap, Close
<1>10. CASE OtherWrites
  BY <1>10, FileAssumption, MaxWritesAssumption DEF OtherWrites
<1>11. CASE UNCHANGED vars
  BY <1>11 DEF vars
<1> QED
  BY <1>1, <1>2, <1>3, <1>4, <1>5, <1>6, <1>7, <1>8, <1>9, <1>10, <1>11
  DEF Next, Main

\* Every step keeps the account of the blocks and what is released at the end.
LEMMA NextHeld == Inv /\ [Next]_vars => HeldBlocks' /\ ReleasesWhatItHolds'
<1> SUFFICES ASSUME Inv, [Next]_vars PROVE HeldBlocks' /\ ReleasesWhatItHolds'
  OBVIOUS
<1>a. heap \subseteq {"copy", "state", "stack"} /\ current \in {"NULL", "state"}
  BY DEF Inv, TypeOK
<1>b. HeldBlocks /\ ReleasesWhatItHolds
  BY DEF Inv
<1> USE <1>b DEF HeldBlocks, ReleasesWhatItHolds, world, kernel, buffer
<1>1. CASE Open \/ Fstat
  <2>1. CASE Open
    BY <2>1 DEF Open
  <2>2. CASE Fstat
    BY <2>2 DEF Fstat
  <2> QED
    BY <1>1, <2>1, <2>2
<1>2. CASE Mmap \/ MmapFails
  <2>1. CASE Mmap
    BY <2>1 DEF Mmap
  <2>2. CASE MmapFails
    BY <2>2 DEF MmapFails
  <2> QED
    BY <1>2, <2>1, <2>2
<1>3. CASE Strlen
  BY <1>3 DEF Strlen, Faults
<1>4. CASE AllocCopy \/ AllocFails
  <2>1. CASE AllocCopy
    BY <2>1 DEF AllocCopy
  <2>2. CASE AllocFails
    BY <2>2 DEF AllocFails
  <2> QED
    BY <1>4, <2>1, <2>2
<1>5. CASE CopyByte \/ CopyEnd
  BY <1>5 DEF CopyByte, CopyEnd, Faults
<1>6. CASE ScanBuffer \/ Lex
  BY <1>6 DEF ScanBuffer, Lex
<1>7. CASE DeleteBuffer
  BY <1>7, <1>a DEF DeleteBuffer, Owned
<1>8. CASE Munmap \/ Close
  <2>1. CASE Munmap
    BY <2>1 DEF Munmap
  <2>2. CASE Close
    BY <2>2 DEF Close
  <2> QED
    BY <1>8, <2>1, <2>2
<1>9. CASE OtherWrites
  BY <1>9 DEF OtherWrites
<1>10. CASE UNCHANGED vars
  BY <1>10 DEF vars
<1> QED
  BY <1>1, <1>2, <1>3, <1>4, <1>5, <1>6, <1>7, <1>8, <1>9, <1>10 DEF Next, Main

-----------------------------------------------------------------------------
\* A byte strlen passes belongs to the text, and the one it stops at ends it.
LEMMA StrlenReads ==
    ASSUME Inv, Strlen
    PROVE  ReadSoFar' /\ FaultsHaveACause'
<1>1. /\ pc = "strlen" /\ len \in Nat /\ size \in Nat /\ file \in Seq(Byte)
      /\ UNCHANGED <<file, writes, size, copy>>
      /\ writes = 0 => size = Len(file) /\ AllText(len)
  BY DEF Strlen, Inv, TypeOK, FileExists, ReadSoFar, world, kernel, buffer
<1>2. Len(file) \in Nat
  BY <1>1
<1>3. CASE ByteAt(len) = "x"
  <2>1. len < Len(file) /\ file[len + 1] = "x"
    BY <1>1, <1>3, ReadByte DEF Inv
  <2>2. len' = len + 1 /\ pc' = "strlen"
    BY <1>1, <1>3 DEF Strlen, FollowingByte, Faults, Byte
  <2>3. writes = 0 => AllText(len)'
    BY <1>1, <1>2, <2>1, <2>2 DEF AllText
  <2> QED
    BY <1>1, <2>2, <2>3 DEF ReadSoFar, FaultsHaveACause
<1>4. CASE ByteAt(len) = "NUL"
  <2>1. len < Len(file) => file[len + 1] = "NUL"
    BY <1>1, <1>4, ReadByte DEF Inv
  <2>2. len' = len /\ pc' = "alloc"
    BY <1>1, <1>4 DEF Strlen, Faults, Byte
  <2> QED
    BY <1>1, <2>1, <2>2 DEF ReadSoFar, FaultsHaveACause, AllText
<1>5. CASE ByteAt(len) \in {"outside", "SIGBUS"}
  <2>1. len' = len /\ pc' = IF ByteAt(len) = "SIGBUS" THEN "killed" ELSE "undefined"
    BY <1>1, <1>5 DEF Strlen, Faults, Byte
  <2>2. FaultsHaveACause'
    BY <1>1, <1>5, <2>1, FaultCause, ReadByte
       DEF FaultsHaveACause, Inv
  <2> QED
    BY <2>1, <2>2 DEF ReadSoFar
<1> QED
  BY <1>1, <1>3, <1>4, <1>5, ReadByte DEF Inv, Byte

\* A byte that is copied is the one strlen saw there, if the file was left alone.
LEMMA CopyReads ==
    ASSUME Inv, CopyByte
    PROVE  ReadSoFar' /\ FaultsHaveACause'
<1> DEFINE k == Len(copy)
<1>1. /\ pc = "copy" /\ len \in Nat /\ size \in Nat /\ file \in Seq(Byte)
      /\ copy \in Seq(Byte) /\ k \in Nat /\ Len(file) \in Nat
      /\ k < len
      /\ UNCHANGED <<file, writes, size, len>>
      /\ writes = 0 => /\ size = Len(file) /\ AllText(len)
                       /\ len < Len(file) => file[len + 1] = "NUL"
                       /\ \A n \in 1 .. k : copy[n] = file[n]
  BY DEF CopyByte, WithinLength, Inv, TypeOK, FileExists, ReadSoFar, world, kernel
<1>2. CASE ByteAt(k) \in Byte
  <2>1. copy' = Append(copy, ByteAt(k)) /\ pc' = "copy"
    BY <1>1, <1>2 DEF CopyByte, Faults
  <2>2. k < PageSize * Pages(size) /\ PageSize * Pages(size) \in Nat
    BY <1>1, <1>2, ReadByte, PagesCover DEF Inv
  <2>3. Len(copy') = k + 1 /\ \A n \in 1 .. k : copy'[n] = copy[n]
    BY <1>1, <1>2, <2>1
  <2>4. copy'[k + 1] = ByteAt(k)
    BY <1>1, <1>2, <2>1
  <2>5. writes = 0 => k < Len(file) /\ ByteAt(k) = file[k + 1]
    BY <1>1, <1>2, ReadByte DEF Inv, AllText
  <2>6. writes = 0 => \A n \in 1 .. (k + 1) : copy'[n] = file[n]
    BY <1>1, <2>3, <2>4, <2>5
  <2>7. Len(copy') <= len /\ Len(copy') <= PageSize * Pages(size)
    BY <1>1, <2>2, <2>3
  <2>8. Pages(size)' = Pages(size) /\ AllText(len)' = AllText(len)
    BY <1>1 DEF Pages, AllText
  <2> HIDE DEF k
  <2> QED
    BY <1>1, <2>1, <2>3, <2>6, <2>7, <2>8 DEF ReadSoFar, FaultsHaveACause
<1>3. CASE ByteAt(k) \in {"outside", "SIGBUS"}
  <2>1. pc' = IF ByteAt(k) = "SIGBUS" THEN "killed" ELSE "undefined"
    BY <1>1, <1>3 DEF CopyByte, Faults, Byte
  <2>2. writes = 0 => AllText(k)
    BY <1>1 DEF AllText
  <2>3. FaultsHaveACause'
    BY <1>1, <1>3, <2>1, <2>2, FaultCause DEF FaultsHaveACause, Inv
  <2> QED
    BY <2>1, <2>3 DEF ReadSoFar
<1> QED
  BY <1>1, <1>2, <1>3, ReadByte DEF Inv

\* Every step keeps what is known of the text.
LEMMA NextReads == Inv /\ [Next]_vars => ReadSoFar' /\ FaultsHaveACause'
<1> SUFFICES ASSUME Inv, [Next]_vars PROVE ReadSoFar' /\ FaultsHaveACause'
  OBVIOUS
<1>a. ReadSoFar /\ FaultsHaveACause
  BY DEF Inv
<1>1. CASE Open \/ MmapFails \/ AllocFails \/ Lex \/ Munmap \/ Close
  <2>1. UNCHANGED <<file, writes, len>> /\ pc' \in {"exit", "fstat", "close", "delete", "munmap"}
    BY <1>1 DEF Open, MmapFails, AllocFails, Lex, Munmap, Close, world
  <2>2. pc' = "fstat" => len = 0
    BY <1>1, <1>a DEF Open, MmapFails, AllocFails, Lex, Munmap, Close, ReadSoFar
  <2> QED
    BY <2>1, <2>2 DEF ReadSoFar, FaultsHaveACause
<1>2. CASE Fstat
  <2>1. /\ pc' = "mmap" /\ len = 0 /\ size' = Len(file)
        /\ UNCHANGED <<file, writes, len>>
    BY <1>2, <1>a DEF Fstat, SizeOf, ReadSoFar, world
  <2>2. Len(file) \in Nat
    BY <1>2 DEF Fstat, Inv, FileExists
  <2> QED
    BY <2>1, <2>2 DEF ReadSoFar, FaultsHaveACause, AllText
<1>3. CASE Mmap
  <2>1. pc = "mmap" /\ pc' = "strlen" /\ UNCHANGED <<file, writes, size, len>>
    BY <1>3 DEF Mmap, world
  <2> QED
    BY <2>1, <1>a DEF ReadSoFar, FaultsHaveACause, AllText
<1>4. CASE Strlen
  BY <1>4, StrlenReads
<1>5. CASE AllocCopy
  <2>1. /\ pc = "alloc" /\ pc' = "copy" /\ copy' = <<>>
        /\ UNCHANGED <<file, writes, size, len>>
    BY <1>5 DEF AllocCopy, world, kernel
  <2>2. len \in Nat /\ PageSize * Pages(size) \in Nat
    BY PagesCover DEF Inv, TypeOK
  <2>3. Pages(size)' = Pages(size)
    BY <2>1 DEF Pages
  <2> QED
    BY <2>1, <2>2, <2>3, <1>a DEF ReadSoFar, FaultsHaveACause, AllText
<1>6. CASE CopyByte
  BY <1>6, CopyReads
<1>7. CASE CopyEnd \/ ScanBuffer
  <2>1. /\ pc \in {"copy", "state"} /\ pc' \in {"state", "lex"}
        /\ pc = "copy" => ~WithinLength
        /\ UNCHANGED <<file, writes, size, len, copy>>
    BY <1>7 DEF CopyEnd, ScanBuffer, world, kernel, buffer
  <2>2. Len(copy) = len
    BY <2>1, <1>a DEF ReadSoFar, WithinLength, Inv, TypeOK
  <2>3. Pages(size)' = Pages(size)
    BY <2>1 DEF Pages
  <2> QED
    BY <2>1, <2>2, <2>3, <1>a DEF ReadSoFar, FaultsHaveACause, AllText
<1>8. CASE DeleteBuffer
  BY <1>8 DEF DeleteBuffer, ReadSoFar, FaultsHaveACause
<1>9. CASE OtherWrites
  <2>1. /\ writes' = writes + 1 /\ UNCHANGED <<pc, size, len, copy>>
        /\ pc \notin {"killed", "undefined"}
    BY <1>9 DEF OtherWrites, kernel, buffer
  <2>2. writes' # 0
    BY <2>1, MaxWritesAssumption DEF Inv, TypeOK
  <2>3. Pages(size)' = Pages(size)
    BY <2>1 DEF Pages
  <2> QED
    BY <2>1, <2>2, <2>3, <1>a DEF ReadSoFar, FaultsHaveACause
<1>10. CASE UNCHANGED vars
  BY <1>10, <1>a DEF vars, ReadSoFar, FaultsHaveACause, AllText, Pages, IsTextOf
<1> QED
  BY <1>1, <1>2, <1>3, <1>4, <1>5, <1>6, <1>7, <1>8, <1>9, <1>10 DEF Next, Main

\* The text is whole where the copy is.
LEMMA InvLexes == Inv => LexesTheText
<1> SUFFICES ASSUME Inv, pc = "lex"
             PROVE  /\ writes = 0 => IsTextOf(copy, file)
                    /\ Len(copy) <= PageSize * Pages(size)
  BY DEF LexesTheText
<1>1. /\ Len(copy) = len /\ Len(copy) <= PageSize * Pages(size)
      /\ writes = 0 => /\ AllText(len)
                       /\ len < Len(file) => file[len + 1] = "NUL"
                       /\ \A k \in 1 .. Len(copy) : copy[k] = file[k]
  BY DEF Inv, ReadSoFar
<1>2. writes = 0 => IsTextOf(copy, file)
  BY <1>1 DEF AllText, IsTextOf
<1> QED
  BY <1>1, <1>2

-----------------------------------------------------------------------------
\* Every variable keeps its type.
THEOREM TypeCorrect == Spec => []TypeOK
<1>1. Inv /\ [Next]_vars => Inv'
  BY NextTypes, NextHeld, NextReads DEF Inv
<1>2. Inv => TypeOK
  BY DEF Inv
<1> QED
  BY InitInv, <1>1, <1>2, PTL DEF Spec

\* main releases all it holds, and flex's current buffer is never a freed one.
THEOREM Releases == Spec => []ReleasesWhatItHolds
<1>1. Inv /\ [Next]_vars => Inv'
  BY NextTypes, NextHeld, NextReads DEF Inv
<1>2. Inv => ReleasesWhatItHolds
  BY DEF Inv
<1> QED
  BY InitInv, <1>1, <1>2, PTL DEF Spec

\* The scanner is given the text of the file, whatever its length and the size
\* of a page, as long as nobody writes the file.
THEOREM TextIsLexed == Spec => []LexesTheText
<1>1. Inv /\ [Next]_vars => Inv'
  BY NextTypes, NextHeld, NextReads DEF Inv
<1> QED
  BY InitInv, InvLexes, <1>1, PTL DEF Spec

\* The mapping is read outside of the file only for the causes named.
THEOREM FaultsExplained == Spec => []FaultsHaveACause
<1>1. Inv /\ [Next]_vars => Inv'
  BY NextTypes, NextHeld, NextReads DEF Inv
<1>2. Inv => FaultsHaveACause
  BY DEF Inv
<1> QED
  BY InitInv, <1>1, <1>2, PTL DEF Spec

(***************************************************************************)
(* The scanner.  TileInv and LineInv are inductive together with the types: *)
(* TileInv has the rule each item is the longest match of, and LineInv      *)
(* where the line that is open begins and that no part of a line longer than *)
(* the buffer was encoded.                                                 *)
(***************************************************************************)
\* The characters of the rule of this name.
CharsNamed(name) ==
    IF name = "COLON" THEN {":"}
    ELSE IF name = "COMMA" THEN {","}
    ELSE IF name = "COMMENT" THEN Char
    ELSE IF name = "DIGIT" THEN Digit
    ELSE IF name = "DOLLAR" THEN {"$"}
    ELSE IF name = "DOT" THEN {"."}
    ELSE IF name = "BACKSLASH" THEN {"\\"}
    ELSE IF name = "GT" THEN {">"}
    ELSE IF name = "INTEGER" THEN Digit \cup {"+", "-"}
    ELSE IF name = "LBRACE" THEN {"{"}
    ELSE IF name = "LBRACK" THEN {"]"}
    ELSE IF name = "LOWER" THEN Lower
    ELSE IF name = "LPAREN" THEN {"("}
    ELSE IF name = "LT" THEN {"<"}
    ELSE IF name = "OR" THEN {"|"}
    ELSE IF name = "POWER" THEN {"^"}
    ELSE IF name = "RBRACE" THEN {"}"}
    ELSE IF name = "RPAREN" THEN {")"}
    ELSE IF name = "SEMICOLON" THEN {";"}
    ELSE IF name = "STAR" THEN {"*"}
    ELSE IF name = "UNDERSCORE" THEN {"_"}
    ELSE IF name = "UPPER" THEN Upper
    ELSE IF name = "EQUAL" THEN {"="}
    ELSE IF name = "PERCENT" THEN {"%"}
    ELSE IF name = "WS" THEN Blank
    ELSE IF name = "FSLASH" THEN {"/"}
    ELSE IF name = "XDIGIT" THEN Digit \cup HexLetter
    ELSE IF name = "NL" THEN {NewLine} ELSE {}

\* The places of the rules whose classes overlap.
Placed(place, name) ==
    /\ name = "COMMENT" => place = 3
    /\ name = "DIGIT" => place = 4
    /\ name = "INTEGER" => place = 9
    /\ name = "LOWER" => place = 12
    /\ name = "UPPER" => place = 23
    /\ name = "FSLASH" => place = 27
    /\ name = "XDIGIT" => place = 28

\* What the proofs know of a rule: its name gives its characters, and its place
\* where that matters, and only two have a newline among them.
Known(rule) ==
    /\ rule.place \in Nat
    /\ rule.name # "line"
    /\ rule.chars = CharsNamed(rule.name)
    /\ Placed(rule.place, rule.name)
    /\ NewLine \in rule.chars => rule.name \in {"NL", "COMMENT"}

LEMMA KnownRule ==
    ASSUME NEW place, NEW name, NEW one, NEW more, NEW chars,
           place \in Nat, name # "line", chars = CharsNamed(name), Placed(place, name),
           NewLine \in chars => name \in {"NL", "COMMENT"}
    PROVE  Known(Rule(place, name, one, more, chars))
  BY Zenon DEF Known, Rule

LEMMA RulesColonToGtAreKnown ==
    \A rule \in RulesColonToGt : Known(rule)
<1>1. Known(Plain(1, "COLON", {":"}))
  <2>1. CharsNamed("COLON") = {":"}
    BY Zenon DEF CharsNamed
  <2>2. 1 \in Nat /\ "COLON" # "line" /\ NewLine \notin {":"}
    BY ClassAssumption DEF NewLine
  <2>3. Placed(1, "COLON")
    BY DEF Placed
  <2> QED
    BY <2>1, <2>2, <2>3, KnownRule, Zenon DEF Plain
<1>2. Known(Plain(2, "COMMA", {","}))
  <2>1. CharsNamed("COMMA") = {","}
    BY Zenon DEF CharsNamed
  <2>2. 2 \in Nat /\ "COMMA" # "line" /\ NewLine \notin {","}
    BY ClassAssumption DEF NewLine
  <2>3. Placed(2, "COMMA")
    BY DEF Placed
  <2> QED
    BY <2>1, <2>2, <2>3, KnownRule, Zenon DEF Plain
<1>3. Known(Plain(3, "COMMENT", Char))
  <2>1. CharsNamed("COMMENT") = Char
    BY Zenon DEF CharsNamed
  <2>2. 3 \in Nat /\ "COMMENT" # "line" /\ "COMMENT" \in {"NL", "COMMENT"}
    OBVIOUS
  <2>3. Placed(3, "COMMENT")
    BY DEF Placed
  <2> QED
    BY <2>1, <2>2, <2>3, KnownRule, Zenon DEF Plain
<1>4. Known(Plain(4, "DIGIT", Digit))
  <2>1. CharsNamed("DIGIT") = Digit
    BY Zenon DEF CharsNamed
  <2>2. 4 \in Nat /\ "DIGIT" # "line" /\ NewLine \notin Digit
    BY ClassAssumption DEF NewLine
  <2>3. Placed(4, "DIGIT")
    BY DEF Placed
  <2> QED
    BY <2>1, <2>2, <2>3, KnownRule, Zenon DEF Plain
<1>5. Known(Plain(5, "DOLLAR", {"$"}))
  <2>1. CharsNamed("DOLLAR") = {"$"}
    BY Zenon DEF CharsNamed
  <2>2. 5 \in Nat /\ "DOLLAR" # "line" /\ NewLine \notin {"$"}
    BY ClassAssumption DEF NewLine
  <2>3. Placed(5, "DOLLAR")
    BY DEF Placed
  <2> QED
    BY <2>1, <2>2, <2>3, KnownRule, Zenon DEF Plain
<1>6. Known(Plain(6, "DOT", {"."}))
  <2>1. CharsNamed("DOT") = {"."}
    BY Zenon DEF CharsNamed
  <2>2. 6 \in Nat /\ "DOT" # "line" /\ NewLine \notin {"."}
    BY ClassAssumption DEF NewLine
  <2>3. Placed(6, "DOT")
    BY DEF Placed
  <2> QED
    BY <2>1, <2>2, <2>3, KnownRule, Zenon DEF Plain
<1>7. Known(Plain(7, "BACKSLASH", {"\\"}))
  <2>1. CharsNamed("BACKSLASH") = {"\\"}
    BY Zenon DEF CharsNamed
  <2>2. 7 \in Nat /\ "BACKSLASH" # "line" /\ NewLine \notin {"\\"}
    BY ClassAssumption DEF NewLine
  <2>3. Placed(7, "BACKSLASH")
    BY DEF Placed
  <2> QED
    BY <2>1, <2>2, <2>3, KnownRule, Zenon DEF Plain
<1>8. Known(Plain(8, "GT", {">"}))
  <2>1. CharsNamed("GT") = {">"}
    BY Zenon DEF CharsNamed
  <2>2. 8 \in Nat /\ "GT" # "line" /\ NewLine \notin {">"}
    BY ClassAssumption DEF NewLine
  <2>3. Placed(8, "GT")
    BY DEF Placed
  <2> QED
    BY <2>1, <2>2, <2>3, KnownRule, Zenon DEF Plain
<1> QED
  BY Zenon, <1>1, <1>2, <1>3, <1>4, <1>5, <1>6, <1>7, <1>8 DEF RulesColonToGt

LEMMA RulesIntegerToLtAreKnown ==
    \A rule \in RulesIntegerToLt : Known(rule)
<1>1. Known(Plain(9, "INTEGER", Digit \cup {"+", "-"}))
  <2>1. CharsNamed("INTEGER") = Digit \cup {"+", "-"}
    BY Zenon DEF CharsNamed
  <2>2. 9 \in Nat /\ "INTEGER" # "line" /\ NewLine \notin Digit \cup {"+", "-"}
    BY ClassAssumption DEF NewLine
  <2>3. Placed(9, "INTEGER")
    BY DEF Placed
  <2> QED
    BY <2>1, <2>2, <2>3, KnownRule, Zenon DEF Plain
<1>2. Known(Plain(10, "LBRACE", {"{"}))
  <2>1. CharsNamed("LBRACE") = {"{"}
    BY Zenon DEF CharsNamed
  <2>2. 10 \in Nat /\ "LBRACE" # "line" /\ NewLine \notin {"{"}
    BY ClassAssumption DEF NewLine
  <2>3. Placed(10, "LBRACE")
    BY DEF Placed
  <2> QED
    BY <2>1, <2>2, <2>3, KnownRule, Zenon DEF Plain
<1>3. Known(Rule(11, "LBRACK", "LT", "LT", {"]"}))
  <2>1. CharsNamed("LBRACK") = {"]"}
    BY Zenon DEF CharsNamed
  <2>2. 11 \in Nat /\ "LBRACK" # "line" /\ NewLine \notin {"]"}
    BY ClassAssumption DEF NewLine
  <2>3. Placed(11, "LBRACK")
    BY DEF Placed
  <2> QED
    BY <2>1, <2>2, <2>3, KnownRule, Zenon
<1>4. Known(Plain(12, "LOWER", Lower))
  <2>1. CharsNamed("LOWER") = Lower
    BY Zenon DEF CharsNamed
  <2>2. 12 \in Nat /\ "LOWER" # "line" /\ NewLine \notin Lower
    BY ClassAssumption DEF NewLine
  <2>3. Placed(12, "LOWER")
    BY DEF Placed
  <2> QED
    BY <2>1, <2>2, <2>3, KnownRule, Zenon DEF Plain
<1>5. Known(Plain(13, "LPAREN", {"("}))
  <2>1. CharsNamed("LPAREN") = {"("}
    BY Zenon DEF CharsNamed
  <2>2. 13 \in Nat /\ "LPAREN" # "line" /\ NewLine \notin {"("}
    BY ClassAssumption DEF NewLine
  <2>3. Placed(13, "LPAREN")
    BY DEF Placed
  <2> QED
    BY <2>1, <2>2, <2>3, KnownRule, Zenon DEF Plain
<1>6. Known(Rule(14, "LT", "WORD", "WORD", {"<"}))
  <2>1. CharsNamed("LT") = {"<"}
    BY Zenon DEF CharsNamed
  <2>2. 14 \in Nat /\ "LT" # "line" /\ NewLine \notin {"<"}
    BY ClassAssumption DEF NewLine
  <2>3. Placed(14, "LT")
    BY DEF Placed
  <2> QED
    BY <2>1, <2>2, <2>3, KnownRule, Zenon
<1> QED
  BY Zenon, <1>1, <1>2, <1>3, <1>4, <1>5, <1>6 DEF RulesIntegerToLt

LEMMA RulesOrToStarAreKnown ==
    \A rule \in RulesOrToStar : Known(rule)
<1>1. Known(Plain(16, "OR", {"|"}))
  <2>1. CharsNamed("OR") = {"|"}
    BY Zenon DEF CharsNamed
  <2>2. 16 \in Nat /\ "OR" # "line" /\ NewLine \notin {"|"}
    BY ClassAssumption DEF NewLine
  <2>3. Placed(16, "OR")
    BY DEF Placed
  <2> QED
    BY <2>1, <2>2, <2>3, KnownRule, Zenon DEF Plain
<1>2. Known(Plain(17, "POWER", {"^"}))
  <2>1. CharsNamed("POWER") = {"^"}
    BY Zenon DEF CharsNamed
  <2>2. 17 \in Nat /\ "POWER" # "line" /\ NewLine \notin {"^"}
    BY ClassAssumption DEF NewLine
  <2>3. Placed(17, "POWER")
    BY DEF Placed
  <2> QED
    BY <2>1, <2>2, <2>3, KnownRule, Zenon DEF Plain
<1>3. Known(Plain(18, "RBRACE", {"}"}))
  <2>1. CharsNamed("RBRACE") = {"}"}
    BY Zenon DEF CharsNamed
  <2>2. 18 \in Nat /\ "RBRACE" # "line" /\ NewLine \notin {"}"}
    BY ClassAssumption DEF NewLine
  <2>3. Placed(18, "RBRACE")
    BY DEF Placed
  <2> QED
    BY <2>1, <2>2, <2>3, KnownRule, Zenon DEF Plain
<1>4. Known(Plain(19, "RPAREN", {")"}))
  <2>1. CharsNamed("RPAREN") = {")"}
    BY Zenon DEF CharsNamed
  <2>2. 19 \in Nat /\ "RPAREN" # "line" /\ NewLine \notin {")"}
    BY ClassAssumption DEF NewLine
  <2>3. Placed(19, "RPAREN")
    BY DEF Placed
  <2> QED
    BY <2>1, <2>2, <2>3, KnownRule, Zenon DEF Plain
<1>5. Known(Plain(20, "SEMICOLON", {";"}))
  <2>1. CharsNamed("SEMICOLON") = {";"}
    BY Zenon DEF CharsNamed
  <2>2. 20 \in Nat /\ "SEMICOLON" # "line" /\ NewLine \notin {";"}
    BY ClassAssumption DEF NewLine
  <2>3. Placed(20, "SEMICOLON")
    BY DEF Placed
  <2> QED
    BY <2>1, <2>2, <2>3, KnownRule, Zenon DEF Plain
<1>6. Known(Plain(21, "STAR", {"*"}))
  <2>1. CharsNamed("STAR") = {"*"}
    BY Zenon DEF CharsNamed
  <2>2. 21 \in Nat /\ "STAR" # "line" /\ NewLine \notin {"*"}
    BY ClassAssumption DEF NewLine
  <2>3. Placed(21, "STAR")
    BY DEF Placed
  <2> QED
    BY <2>1, <2>2, <2>3, KnownRule, Zenon DEF Plain
<1> QED
  BY Zenon, <1>1, <1>2, <1>3, <1>4, <1>5, <1>6 DEF RulesOrToStar

LEMMA RulesUnderscoreToXdigitAreKnown ==
    \A rule \in RulesUnderscoreToXdigit : Known(rule)
<1>1. Known(Plain(22, "UNDERSCORE", {"_"}))
  <2>1. CharsNamed("UNDERSCORE") = {"_"}
    BY Zenon DEF CharsNamed
  <2>2. 22 \in Nat /\ "UNDERSCORE" # "line" /\ NewLine \notin {"_"}
    BY ClassAssumption DEF NewLine
  <2>3. Placed(22, "UNDERSCORE")
    BY DEF Placed
  <2> QED
    BY <2>1, <2>2, <2>3, KnownRule, Zenon DEF Plain
<1>2. Known(Plain(23, "UPPER", Upper))
  <2>1. CharsNamed("UPPER") = Upper
    BY Zenon DEF CharsNamed
  <2>2. 23 \in Nat /\ "UPPER" # "line" /\ NewLine \notin Upper
    BY ClassAssumption DEF NewLine
  <2>3. Placed(23, "UPPER")
    BY DEF Placed
  <2> QED
    BY <2>1, <2>2, <2>3, KnownRule, Zenon DEF Plain
<1>3. Known(Plain(24, "EQUAL", {"="}))
  <2>1. CharsNamed("EQUAL") = {"="}
    BY Zenon DEF CharsNamed
  <2>2. 24 \in Nat /\ "EQUAL" # "line" /\ NewLine \notin {"="}
    BY ClassAssumption DEF NewLine
  <2>3. Placed(24, "EQUAL")
    BY DEF Placed
  <2> QED
    BY <2>1, <2>2, <2>3, KnownRule, Zenon DEF Plain
<1>4. Known(Plain(25, "PERCENT", {"%"}))
  <2>1. CharsNamed("PERCENT") = {"%"}
    BY Zenon DEF CharsNamed
  <2>2. 25 \in Nat /\ "PERCENT" # "line" /\ NewLine \notin {"%"}
    BY ClassAssumption DEF NewLine
  <2>3. Placed(25, "PERCENT")
    BY DEF Placed
  <2> QED
    BY <2>1, <2>2, <2>3, KnownRule, Zenon DEF Plain
<1>5. Known(Plain(26, "WS", Blank))
  <2>1. CharsNamed("WS") = Blank
    BY Zenon DEF CharsNamed
  <2>2. 26 \in Nat /\ "WS" # "line" /\ NewLine \notin Blank
    BY ClassAssumption DEF NewLine
  <2>3. Placed(26, "WS")
    BY DEF Placed
  <2> QED
    BY <2>1, <2>2, <2>3, KnownRule, Zenon DEF Plain
<1>6. Known(Plain(27, "FSLASH", {"/"}))
  <2>1. CharsNamed("FSLASH") = {"/"}
    BY Zenon DEF CharsNamed
  <2>2. 27 \in Nat /\ "FSLASH" # "line" /\ NewLine \notin {"/"}
    BY ClassAssumption DEF NewLine
  <2>3. Placed(27, "FSLASH")
    BY DEF Placed
  <2> QED
    BY <2>1, <2>2, <2>3, KnownRule, Zenon DEF Plain
<1>7. Known(Rule(28, "XDIGIT", "XDIGIT", "", Digit \cup HexLetter))
  <2>1. CharsNamed("XDIGIT") = Digit \cup HexLetter
    BY Zenon DEF CharsNamed
  <2>2. 28 \in Nat /\ "XDIGIT" # "line" /\ NewLine \notin Digit \cup HexLetter
    BY ClassAssumption DEF NewLine
  <2>3. Placed(28, "XDIGIT")
    BY DEF Placed
  <2> QED
    BY <2>1, <2>2, <2>3, KnownRule, Zenon
<1> QED
  BY Zenon, <1>1, <1>2, <1>3, <1>4, <1>5, <1>6, <1>7 DEF RulesUnderscoreToXdigit

LEMMA RuleNlIsKnown == Known(RuleNl) /\ RuleNl.name = "NL" /\ RuleNl.chars = {NewLine}
<1>1. Known(Plain(15, "NL", {NewLine}))
  <2>1. CharsNamed("NL") = {NewLine}
    BY Zenon DEF CharsNamed
  <2>2. 15 \in Nat /\ "NL" # "line" /\ "NL" \in {"NL", "COMMENT"}
    OBVIOUS
  <2>3. Placed(15, "NL")
    BY DEF Placed
  <2> QED
    BY <2>1, <2>2, <2>3, KnownRule, Zenon DEF Plain
<1>2. RuleNl.name = "NL" /\ RuleNl.chars = {NewLine}
  BY Zenon DEF RuleNl, Plain, Rule
<1> QED
  BY <1>1, <1>2, Zenon DEF RuleNl

LEMMA RulesAreKnown == \A rule \in Rules : Known(rule)
  BY RulesColonToGtAreKnown, RulesIntegerToLtAreKnown, RulesOrToStarAreKnown,
     RulesUnderscoreToXdigitAreKnown, RuleNlIsKnown, Zenon DEF Rules

\* A rule is known by its name.
LEMMA NameGivesChars ==
    ASSUME NEW rule \in Rules, NEW other \in Rules, rule.name = other.name
    PROVE  rule.chars = other.chars
  BY RulesAreKnown, Zenon DEF Known

LEMMA NlMatchesNewLines ==
    ASSUME NEW rule \in Rules, rule.name = "NL"
    PROVE  rule.chars = {NewLine}
  BY RulesAreKnown, RuleNlIsKnown, Zenon DEF Known

-----------------------------------------------------------------------------
(* Matching                                                                *)

\* A set of naturals that is not empty has a least element.
LEMMA LeastOfNaturals ==
    ASSUME NEW T \in SUBSET Nat, T # {}
    PROVE  \E x \in T : \A y \in T : x <= y
<1>1. PICK x \in T : \A y \in T : ~ (<<y, x>> \in OpToRel(<, Nat))
  BY NatLessThanWellFounded, WFMin, Zenon
<1>2. \A y \in T : ~ (y < x)
  BY <1>1 DEF OpToRel
<1> QED
  BY <1>2

LEMMA LongestIs ==
    ASSUME NEW L \in Nat, NEW T \in SUBSET (1 .. L)
    PROVE  /\ T = {} => Longest(T) = 0
           /\ T # {} => Longest(T) \in T /\ \A n \in T : n <= Longest(T)
<1>1. CASE T = {}
  BY <1>1 DEF Longest
<1>2. CASE T # {}
  <2> DEFINE Back == {L - n : n \in T}
  <2>6. \A n \in T : L - n \in Nat
    OBVIOUS
  <2>7. Back # {}
    BY <1>2, Zenon
  <2>1. Back \in SUBSET Nat /\ Back # {}
    BY <2>6, <2>7
  <2>2. PICK x \in Back : \A y \in Back : x <= y
    BY <2>1, LeastOfNaturals
  <2>3. PICK n \in T : x = L - n
    BY <2>2
  <2>4. \A m \in T : n >= m
    BY <2>2, <2>3
  <2>5. Max(T) \in T /\ \A m \in T : Max(T) >= m
    BY <2>3, <2>4, Zenon DEF Max
  <2> QED
    BY <1>2, <2>5 DEF Longest
<1> QED
  BY <1>1, <1>2

LEMMA MatchLengthIs ==
    ASSUME text \in Seq(Char), pos \in 0 .. Len(text)
    PROVE  /\ MatchLength \in 0 .. (Len(text) - pos)
           /\ MatchLength # 0 => Matching(MatchLength) # {}
           /\ \A n \in (MatchLength + 1) .. (Len(text) - pos) : Matching(n) = {}
<1> DEFINE L == Len(text) - pos
           T == {n \in 1 .. L : Matching(n) # {}}
<1>1. L \in Nat /\ T \in SUBSET (1 .. L)
  OBVIOUS
<1>2. MatchLength = Longest(T)
  BY Zenon DEF MatchLength
<1> HIDE DEF L
<1>3. /\ T = {} => Longest(T) = 0
      /\ T # {} => Longest(T) \in T /\ \A n \in T : n <= Longest(T)
  BY <1>1, LongestIs
<1> HIDE DEF MatchLength
<1> DEFINE m == MatchLength
<1>4. m \in 0 .. L /\ m # 0 => Matching(m) # {}
  BY <1>1, <1>2, <1>3
<1>5. m \in 0 .. L
  BY <1>1, <1>2, <1>3
<1>6. ASSUME NEW n \in (m + 1) .. L PROVE Matching(n) = {}
  <2>1. n \in 1 .. L /\ ~(n <= m)
    BY <1>1, <1>5
  <2> QED
    BY <1>2, <1>3, <2>1, Zenon
<1> QED
  BY <1>4, <1>5, <1>6 DEF L

LEMMA FirstRuleIs ==
    ASSUME NEW n, Matching(n) # {}
    PROVE  /\ FirstRule(n) \in Rules /\ Matches(FirstRule(n), Lexeme(n))
           /\ \A other \in Rules :
                 Matches(other, Lexeme(n)) => FirstRule(n).place <= other.place
<1> DEFINE Places == {rule.place : rule \in Matching(n)}
<1>1. \A rule \in Matching(n) : rule \in Rules /\ rule.place \in Nat /\ Matches(rule, Lexeme(n))
  BY RulesAreKnown, Zenon DEF Known, Matching
<1>2. Places \in SUBSET Nat /\ Places # {}
  BY <1>1
<1>3. PICK x \in Places : \A y \in Places : x <= y
  BY <1>2, LeastOfNaturals
<1>4. PICK rule \in Matching(n) : x = rule.place
  BY <1>3
<1>5. \A other \in Matching(n) : rule.place <= other.place
  BY <1>3, <1>4
<1>6. /\ FirstRule(n) \in Matching(n)
      /\ \A other \in Matching(n) : FirstRule(n).place <= other.place
  BY <1>4, <1>5, Zenon DEF FirstRule
<1>7. \A other \in Rules : Matches(other, Lexeme(n)) => other \in Matching(n)
  BY Zenon DEF Matching
<1> QED
  BY <1>1, <1>6, <1>7, Zenon

-----------------------------------------------------------------------------
(* Windows of the text                                                     *)

LEMMA Window ==
    ASSUME NEW S, NEW t \in Seq(S), NEW i \in 0 .. Len(t), NEW j \in i .. Len(t)
    PROVE  /\ SubSeq(t, i + 1, j) \in Seq(S)
           /\ Len(SubSeq(t, i + 1, j)) = j - i
           /\ \A k \in 1 .. (j - i) : SubSeq(t, i + 1, j)[k] = t[i + k]
  OBVIOUS

\* What a rule needs of a window, without the words for it.
LEMMA OverWindow ==
    ASSUME NEW S, NEW t \in Seq(S), NEW i \in 0 .. Len(t), NEW j \in i .. Len(t), NEW chars
    PROVE  Over(SubSeq(t, i + 1, j), chars) <=> \A k \in (i + 1) .. j : t[k] \in chars
<1>1. ASSUME NEW k \in (i + 1) .. j, Over(SubSeq(t, i + 1, j), chars) PROVE t[k] \in chars
  <2> DEFINE s == SubSeq(t, i + 1, j)
             l == k - i
  <2>1. l \in 1 .. (j - i) /\ i + l = k
    OBVIOUS
  <2>2. Len(s) = j - i /\ \A m \in 1 .. (j - i) : s[m] = t[i + m]
    BY Window
  <2> HIDE DEF s, l
  <2>3. \A m \in 1 .. Len(s) : s[m] \in chars
    BY <1>1, Zenon DEF Over, s
  <2> QED
    BY <2>1, <2>2, <2>3
<1>2. ASSUME \A k \in (i + 1) .. j : t[k] \in chars, NEW k \in 1 .. (j - i) PROVE t[i + k] \in chars
  BY <1>2
<1>3. ASSUME \A k \in (i + 1) .. j : t[k] \in chars PROVE Over(SubSeq(t, i + 1, j), chars)
  <2> DEFINE s == SubSeq(t, i + 1, j)
  <2>1. Len(s) = j - i /\ \A k \in 1 .. (j - i) : s[k] = t[i + k]
    BY Window
  <2> HIDE DEF s
  <2>2. \A k \in 1 .. Len(s) : s[k] \in chars
    BY <1>2, <1>3, <2>1
  <2> QED
    BY <2>2 DEF Over, s
<1> QED
  BY <1>1, <1>3

Sign == {"+", "-"}
Slash == "/"

SignedIn(t, i, j) == \A k \in (i + 1) .. j : t[k] \in Sign => k < j /\ t[k + 1] \in Digit

CommentIn(t, i, j) ==
    /\ j - i >= 3
    /\ \A k \in (i + 1) .. (i + 3) : t[k] = Slash
    /\ \A k \in (i + 1) .. j : t[k] # NewLine

\* Matches of the characters of t between i and j.
MatchesIn(rule, t, i, j) ==
    /\ i < j
    /\ \A k \in (i + 1) .. j : t[k] \in rule.chars
    /\ rule.name = "INTEGER" => SignedIn(t, i, j)
    /\ rule.name = "COMMENT" => CommentIn(t, i, j)

LEMMA SignedWindow ==
    ASSUME NEW S, NEW t \in Seq(S), NEW i \in 0 .. Len(t), NEW j \in i .. Len(t)
    PROVE  Signed(SubSeq(t, i + 1, j)) <=> SignedIn(t, i, j)
<1> DEFINE s == SubSeq(t, i + 1, j)
<1>0. Signed(s) <=> \A k \in 1 .. Len(s) : s[k] \in Sign => k < Len(s) /\ s[k + 1] \in Digit
  BY Zenon DEF Signed, Sign
<1>1. Len(s) = j - i /\ \A k \in 1 .. (j - i) : s[k] = t[i + k]
  BY Window
<1> HIDE DEF s
<1>2. ASSUME Signed(s), NEW k \in (i + 1) .. j, t[k] \in Sign PROVE k < j /\ t[k + 1] \in Digit
  <2> DEFINE l == k - i
  <2>1. l \in 1 .. Len(s) /\ i + l = k /\ l + 1 = (k + 1) - i
    BY <1>1
  <2>2. s[l] \in Sign
    BY <1>1, <1>2, <2>1
  <2> HIDE DEF l
  <2>3. l < Len(s) /\ s[l + 1] \in Digit
    BY <1>0, <1>2, <2>1, <2>2, Zenon
  <2>4. l + 1 \in 1 .. (j - i) /\ i + (l + 1) = k + 1
    BY <1>1, <2>1, <2>3
  <2> QED
    BY <1>1, <2>1, <2>3, <2>4
<1>3. ASSUME SignedIn(t, i, j), NEW l \in 1 .. Len(s), s[l] \in Sign
      PROVE  l < Len(s) /\ s[l + 1] \in Digit
  <2> DEFINE k == i + l
  <2>1. k \in (i + 1) .. j /\ t[k] \in Sign
    BY <1>1, <1>3
  <2>2. k < j /\ t[k + 1] \in Digit
    BY <1>3, <2>1 DEF SignedIn
  <2>3. l < Len(s) /\ l + 1 \in 1 .. (j - i) /\ i + (l + 1) = k + 1
    BY <1>1, <2>2
  <2> HIDE DEF k
  <2> QED
    BY <1>1, <2>2, <2>3
<1>4. Signed(s) => SignedIn(t, i, j)
  BY <1>2, Zenon DEF SignedIn
<1>5. SignedIn(t, i, j) => Signed(s)
  BY <1>0, <1>3, Zenon
<1> QED
  BY <1>4, <1>5, Zenon DEF s

LEMMA CommentWindow ==
    ASSUME NEW S, NEW t \in Seq(S), NEW i \in 0 .. Len(t), NEW j \in i .. Len(t)
    PROVE  Comment(SubSeq(t, i + 1, j)) <=> CommentIn(t, i, j)
<1> DEFINE s == SubSeq(t, i + 1, j)
<1>0. Comment(s) <=> /\ Len(s) >= 3
                     /\ \A k \in 1 .. 3 : s[k] = Slash
                     /\ \A k \in 1 .. Len(s) : s[k] # NewLine
  BY Zenon DEF Comment, Slash
<1>1. Len(s) = j - i /\ \A k \in 1 .. (j - i) : s[k] = t[i + k]
  BY Window
<1> HIDE DEF s
<1>2. ASSUME NEW l \in Nat, l <= j - i, NEW c
      PROVE  /\ (\A k \in 1 .. l : s[k] = c) <=> \A k \in (i + 1) .. (i + l) : t[k] = c
             /\ (\A k \in 1 .. l : s[k] # c) <=> \A k \in (i + 1) .. (i + l) : t[k] # c
  <2>1. \A k \in 1 .. l : s[k] = t[i + k] /\ i + k \in (i + 1) .. (i + l)
    BY <1>1, <1>2
  <2>2. \A k \in (i + 1) .. (i + l) : k - i \in 1 .. l /\ t[k] = s[k - i]
    BY <1>1, <1>2
  <2> QED
    BY <2>1, <2>2, Zenon
<1>3. j - i \in Nat /\ 3 \in Nat /\ i + (j - i) = j
  OBVIOUS
<1>4. (\A k \in 1 .. (j - i) : s[k] # NewLine) <=> \A k \in (i + 1) .. j : t[k] # NewLine
  <2> DEFINE l == j - i
  <2>1. l \in Nat /\ l <= j - i /\ i + l = j
    BY <1>3
  <2> HIDE DEF l
  <2>2. (\A k \in 1 .. l : s[k] # NewLine) <=> \A k \in (i + 1) .. (i + l) : t[k] # NewLine
    BY <1>2, <2>1
  <2> QED
    BY <2>1, <2>2, Zenon DEF l
<1>5. Len(s) >= 3 => ((\A k \in 1 .. 3 : s[k] = Slash) <=> \A k \in (i + 1) .. (i + 3) : t[k] = Slash)
  BY <1>1, <1>2, <1>3
<1>6. Len(s) = j - i
  BY <1>1
<1> HIDE DEF s
<1>7. (\A k \in 1 .. Len(s) : s[k] # NewLine) <=> \A k \in (i + 1) .. j : t[k] # NewLine
  BY <1>4, <1>6, Zenon
<1>8. Len(s) >= 3 <=> j - i >= 3
  BY <1>6, Zenon
<1>9. CASE Len(s) >= 3
  BY <1>0, <1>5, <1>7, <1>8, <1>9, Zenon DEF CommentIn, s
<1>10. CASE ~(Len(s) >= 3)
  BY <1>0, <1>8, <1>10, Zenon DEF CommentIn, s
<1> QED
  BY <1>9, <1>10, Zenon

LEMMA MatchesWindow ==
    ASSUME NEW S, NEW t \in Seq(S), NEW i \in 0 .. Len(t), NEW j \in i .. Len(t), NEW rule
    PROVE  Matches(rule, SubSeq(t, i + 1, j)) <=> MatchesIn(rule, t, i, j)
<1> DEFINE s == SubSeq(t, i + 1, j)
<1>1. s # <<>> <=> i < j
  <2>1. s \in Seq(S) /\ Len(s) = j - i
    BY Window
  <2> HIDE DEF s
  <2>2. s # <<>> <=> Len(s) # 0
    BY <2>1
  <2> QED
    BY <2>1, <2>2
<1>2. Over(s, rule.chars) <=> \A k \in (i + 1) .. j : t[k] \in rule.chars
  BY OverWindow
<1>3. Signed(s) <=> SignedIn(t, i, j)
  BY SignedWindow, Zenon
<1>4. Comment(s) <=> CommentIn(t, i, j)
  BY CommentWindow, Zenon
<1> HIDE DEF s
<1>5. Matches(rule, s) <=> MatchesIn(rule, t, i, j)
  BY <1>1, <1>2, <1>3, <1>4, Zenon DEF Matches, MatchesIn
<1> QED
  BY <1>5 DEF s

-----------------------------------------------------------------------------
(* What a step does                                                        *)

Encodings == [name : {rule.name : rule \in Rules}, length : Nat \ {0}, shown : BOOLEAN, from : Nat]
Echoes == [name : {"line"}, echo : Seq(Char)]
Printed == Encodings \cup Echoes

BuilderTypes ==
    /\ text \in Seq(Char)
    /\ pos \in 0 .. Len(text)
    /\ line_buffer \in Seq(Char)
    /\ printed \in Seq(Printed)
    /\ scanner \in {"runs", "done", "undefined"}

\* The rule of a step and its match: no rule matches more, and none before it as
\* much.
LongestMatch(rule, n) ==
    /\ rule \in Rules
    /\ n \in 1 .. (Len(text) - pos)
    /\ MatchesIn(rule, text, pos, pos + n)
    /\ \A other \in Rules : \A m \in (n + 1) .. (Len(text) - pos) :
          ~MatchesIn(other, text, pos, pos + m)
    /\ \A other \in Rules : MatchesIn(other, text, pos, pos + n) => rule.place <= other.place

LEMMA MatchingIs ==
    ASSUME text \in Seq(Char), pos \in 0 .. Len(text), NEW n \in 0 .. (Len(text) - pos), NEW rule
    PROVE  Matches(rule, Lexeme(n)) <=> MatchesIn(rule, text, pos, pos + n)
<1>1. pos + n \in pos .. Len(text)
  OBVIOUS
<1> QED
  BY <1>1, MatchesWindow DEF Lexeme

LEMMA MatchIsLongest ==
    ASSUME text \in Seq(Char), pos \in 0 .. Len(text), MatchLength > 0
    PROVE  LongestMatch(FirstRule(MatchLength), MatchLength)
<1> DEFINE n == MatchLength
           rule == FirstRule(n)
<1>1. /\ n \in 0 .. (Len(text) - pos)
      /\ n # 0 => Matching(n) # {}
      /\ \A m \in (n + 1) .. (Len(text) - pos) : Matching(m) = {}
  BY MatchLengthIs
<1> HIDE DEF n
<1>2. n \in 1 .. (Len(text) - pos) /\ Matching(n) # {}
  BY <1>1 DEF n
<1>3. /\ rule \in Rules /\ Matches(rule, Lexeme(n))
      /\ \A other \in Rules : Matches(other, Lexeme(n)) => rule.place <= other.place
  BY <1>2, FirstRuleIs, Zenon
<1> HIDE DEF rule
<1>4. \A other : Matches(other, Lexeme(n)) <=> MatchesIn(other, text, pos, pos + n)
  BY <1>1, MatchingIs
<1>5. ASSUME NEW other \in Rules, NEW m \in (n + 1) .. (Len(text) - pos)
      PROVE  ~MatchesIn(other, text, pos, pos + m)
  <2>1. m \in 0 .. (Len(text) - pos)
    BY <1>1
  <2>2. other \notin Matching(m)
    BY <1>1
  <2>3. ~Matches(other, Lexeme(m))
    BY <2>2, Zenon DEF Matching
  <2> QED
    BY <2>1, <2>3, MatchingIs
<1>6. /\ MatchesIn(rule, text, pos, pos + n)
      /\ \A other \in Rules : MatchesIn(other, text, pos, pos + n) => rule.place <= other.place
  BY <1>3, <1>4, Zenon
<1> QED
  BY <1>2, <1>3, <1>5, <1>6, Zenon DEF LongestMatch, n, rule

LEMMA NothingMatches ==
    ASSUME text \in Seq(Char), pos \in 0 .. Len(text), pos < Len(text), MatchLength = 0
    PROVE  \A rule \in Rules : \A m \in (pos + 1) .. Len(text) : ~MatchesIn(rule, text, pos, m)
<1> SUFFICES ASSUME NEW rule \in Rules, NEW m \in (pos + 1) .. Len(text)
             PROVE  ~MatchesIn(rule, text, pos, m)
  OBVIOUS
<1> DEFINE l == m - pos
<1>1. /\ l \in (MatchLength + 1) .. (Len(text) - pos) /\ l \in 0 .. (Len(text) - pos)
      /\ pos + l = m
  OBVIOUS
<1> HIDE DEF l
<1>2. Matching(l) = {}
  BY <1>1, MatchLengthIs
<1>3. ~Matches(rule, Lexeme(l))
  BY <1>2, Zenon DEF Matching
<1>4. ~MatchesIn(rule, text, pos, pos + l)
  BY <1>1, <1>3, MatchingIs
<1> QED
  BY <1>1, <1>4, Zenon

LEMMA LookupIsBoolean ==
    ASSUME NEW rule, NEW n, NEW shown \in Lookup(rule, n)
    PROVE  shown \in BOOLEAN
<1> DEFINE name == IF n = 1 THEN rule.one ELSE rule.more
<1>1. shown \in search_print_struct(name)
  BY Zenon DEF Lookup
<1> HIDE DEF name
<1> QED
  BY <1>1, Zenon DEF search_print_struct

\* The output of a rule that matched n characters.
IsEncoding(x, rule, n) ==
    x \in Encodings /\ x.name = rule.name /\ x.length = n /\ x.from = pos

LEMMA ItemIsEncoding ==
    ASSUME NEW rule \in Rules, NEW n \in Nat \ {0}, NEW shown \in BOOLEAN, pos \in Nat
    PROVE  IsEncoding(Item(rule, n, shown), rule, n)
<1>1. rule.name \in {r.name : r \in Rules}
  OBVIOUS
<1>2. Item(rule, n, shown) \in Encodings
  BY <1>1, Zenon DEF Item, Encodings
<1>3. /\ Item(rule, n, shown).name = rule.name
      /\ Item(rule, n, shown).length = n
      /\ Item(rule, n, shown).from = pos
  BY Zenon DEF Item
<1> QED
  BY <1>2, <1>3, Zenon DEF IsEncoding

\* The four things a step can be, besides the end of the text.
Encodes(rule, n, x) ==
    /\ LongestMatch(rule, n) /\ rule.name # "NL" /\ IsEncoding(x, rule, n)
    /\ Len(line_buffer) + n < BufferSize
    /\ line_buffer' = line_buffer \o Lexeme(n)
    /\ printed' = Append(printed, x)
    /\ pos' = pos + n
    /\ scanner' = scanner

EndsLine(rule, n, x, e) ==
    /\ LongestMatch(rule, n) /\ rule.name = "NL" /\ IsEncoding(x, rule, n)
    /\ Len(line_buffer) + n < BufferSize
    /\ e \in Echoes /\ e.echo = line_buffer \o Lexeme(n)
    /\ line_buffer' = <<>>
    /\ printed' = Append(Append(printed, x), e)
    /\ pos' = pos + n
    /\ scanner' = scanner

Overflows(rule, n) ==
    /\ LongestMatch(rule, n)
    /\ ~(Len(line_buffer) + n < BufferSize)
    /\ scanner' = "undefined"
    /\ UNCHANGED <<line_buffer, printed, pos>>

DropsOne ==
    /\ pos < Len(text)
    /\ \A rule \in Rules : \A m \in (pos + 1) .. Len(text) : ~MatchesIn(rule, text, pos, m)
    /\ pos' = pos + 1
    /\ UNCHANGED <<line_buffer, printed, scanner>>

Stops ==
    /\ pos = Len(text)
    /\ scanner' = "done"
    /\ UNCHANGED <<line_buffer, printed, pos>>

LEMMA LexemeIs ==
    ASSUME text \in Seq(Char), pos \in 0 .. Len(text), NEW n \in 1 .. (Len(text) - pos)
    PROVE  /\ Lexeme(n) \in Seq(Char) /\ Len(Lexeme(n)) = n
           /\ \A k \in 1 .. n : Lexeme(n)[k] = text[pos + k]
<1>1. pos + n \in pos .. Len(text) /\ (pos + n) - pos = n
  OBVIOUS
<1>2. /\ Lexeme(n) \in Seq(Char) /\ Len(Lexeme(n)) = (pos + n) - pos
      /\ \A k \in 1 .. ((pos + n) - pos) : Lexeme(n)[k] = text[pos + k]
  BY <1>1, Window DEF Lexeme
<1> QED
  BY <1>1, <1>2

LEMMA AppendsTwo ==
    ASSUME NEW S, NEW s \in Seq(S), NEW a \in S, NEW b \in S
    PROVE  s \o <<a, b>> = Append(Append(s, a), b)
  OBVIOUS

LEMMA StepIs ==
    ASSUME BuilderTypes, BuilderNext
    PROVE  /\ text' = text /\ scanner = "runs"
           /\ \/ \E rule, n, x : Encodes(rule, n, x)
              \/ \E rule, n, x, e : EndsLine(rule, n, x, e)
              \/ \E rule, n : Overflows(rule, n)
              \/ DropsOne
              \/ Stops
<1> DEFINE n == MatchLength
           rule == FirstRule(n)
<1>0. text \in Seq(Char) /\ pos \in 0 .. Len(text) /\ pos \in Nat /\ line_buffer \in Seq(Char)
      /\ printed \in Seq(Printed)
  BY DEF BuilderTypes
<1>1. ASSUME n > 0
      PROVE  /\ LongestMatch(rule, n) /\ rule \in Rules /\ n \in Nat \ {0}
             /\ n \in 1 .. (Len(text) - pos)
  <2>1. LongestMatch(rule, n)
    BY <1>0, <1>1, MatchIsLongest
  <2> HIDE DEF n, rule
  <2>2. rule \in Rules /\ n \in 1 .. (Len(text) - pos)
    BY <2>1, Zenon DEF LongestMatch
  <2> QED
    BY <2>1, <2>2
<1>2. ASSUME NEW shown, n > 0, shown \in Lookup(rule, n) PROVE IsEncoding(Item(rule, n, shown), rule, n)
  <2>1. rule \in Rules /\ n \in Nat \ {0}
    BY <1>1, <1>2
  <2>2. shown \in BOOLEAN
    BY <1>2, LookupIsBoolean
  <2> HIDE DEF n, rule
  <2> QED
    BY <1>0, <2>1, <2>2, ItemIsEncoding
<1>3. CASE MatchRun
  <2>1. n > 0 /\ rule.name # "NL" /\ text' = text /\ scanner = "runs"
    BY <1>3, Zenon DEF MatchRun
  <2>2. CASE Room(n)
    <3>1. PICK shown \in Lookup(rule, n) :
                /\ line_buffer' = line_buffer \o Lexeme(n)
                /\ printed' = Append(printed, Item(rule, n, shown))
                /\ pos' = pos + n
                /\ scanner' = scanner
      BY <1>3, <2>2, Zenon DEF MatchRun
    <3>2. Encodes(rule, n, Item(rule, n, shown))
      BY <1>1, <1>2, <2>1, <2>2, <3>1, Zenon DEF Encodes, Room
    <3> QED
      BY <2>1, <3>2, Zenon
  <2>3. CASE ~Room(n)
    <3>1. Overflows(rule, n)
      BY <1>1, <1>3, <2>1, <2>3, Zenon DEF MatchRun, Overflows, Room
    <3> QED
      BY <2>1, <3>1, Zenon
  <2> QED
    BY <2>2, <2>3, Zenon
<1>4. CASE MatchNewLines
  <2> DEFINE line == line_buffer \o Lexeme(n)
             e == [name |-> "line", echo |-> line]
  <2>1. n > 0 /\ rule.name = "NL" /\ text' = text /\ scanner = "runs"
    BY <1>4, Zenon DEF MatchNewLines
  <2>2. CASE Room(n)
    <3>1. PICK shown \in Lookup(rule, n) :
                /\ printed' = printed \o <<Item(rule, n, shown), e>>
                /\ line_buffer' = ClearLine(line)
                /\ pos' = pos + n
                /\ scanner' = scanner
      BY <1>4, <2>2, Zenon DEF MatchNewLines
    <3>2. Lexeme(n) \in Seq(Char)
      BY <1>0, <1>1, <2>1, LexemeIs
    <3>3. line \in Seq(Char)
      BY <1>0, <3>2
    <3> HIDE DEF line
    <3>4. e \in Echoes /\ e.echo = line
      BY <3>3, Zenon DEF Echoes
    <3> HIDE DEF e
    <3>5. IsEncoding(Item(rule, n, shown), rule, n)
      BY <1>2, <2>1, Zenon
    <3>6. Item(rule, n, shown) \in Printed /\ e \in Printed
      BY <3>4, <3>5, Zenon DEF IsEncoding, Printed
    <3>7. printed' = Append(Append(printed, Item(rule, n, shown)), e)
      BY <1>0, <3>1, <3>6, AppendsTwo
    <3>8. EndsLine(rule, n, Item(rule, n, shown), e)
      BY <1>1, <2>1, <2>2, <3>1, <3>4, <3>5, <3>7, Zenon DEF EndsLine, Room, ClearLine, line
    <3> QED
      BY <2>1, <3>8, Zenon
  <2>3. CASE ~Room(n)
    <3>1. Overflows(rule, n)
      BY <1>1, <1>4, <2>1, <2>3, Zenon DEF MatchNewLines, Overflows, Room
    <3> QED
      BY <2>1, <3>1, Zenon
  <2> QED
    BY <2>2, <2>3, Zenon
<1>5. CASE MatchOther
  <2>1. DropsOne
    BY <1>0, <1>5, NothingMatches, Zenon DEF MatchOther, DropsOne
  <2> QED
    BY <1>5, <2>1, Zenon DEF MatchOther
<1>6. CASE EndOfText
  BY <1>6, Zenon DEF EndOfText, Stops
<1> QED
  BY <1>3, <1>4, <1>5, <1>6, Zenon DEF BuilderNext

-----------------------------------------------------------------------------
(* Types                                                                   *)

LEMMA Appended ==
    ASSUME NEW S, NEW s \in Seq(S), NEW x \in S
    PROVE  /\ Append(s, x) \in Seq(S)
           /\ Len(Append(s, x)) = Len(s) + 1
           /\ DOMAIN Append(s, x) = 1 .. (Len(s) + 1)
           /\ \A k \in 1 .. Len(s) : Append(s, x)[k] = s[k]
           /\ Append(s, x)[Len(s) + 1] = x
  OBVIOUS

LEMMA Joined ==
    ASSUME NEW S, NEW s \in Seq(S), NEW t \in Seq(S)
    PROVE  /\ s \o t \in Seq(S)
           /\ Len(s \o t) = Len(s) + Len(t)
           /\ \A k \in 1 .. Len(s) : (s \o t)[k] = s[k]
           /\ \A k \in 1 .. Len(t) : (s \o t)[Len(s) + k] = t[k]
  OBVIOUS

LEMMA MatchInside ==
    ASSUME BuilderTypes, NEW rule, NEW n, LongestMatch(rule, n)
    PROVE  /\ n \in Nat \ {0} /\ pos \in Nat /\ Len(text) \in Nat
           /\ pos + n \in (pos + 1) .. Len(text) /\ n \in 1 .. (Len(text) - pos)
           /\ Lexeme(n) \in Seq(Char) /\ Len(Lexeme(n)) = n
           /\ \A k \in 1 .. n : Lexeme(n)[k] = text[pos + k]
<1>1. n \in 1 .. (Len(text) - pos) /\ text \in Seq(Char) /\ pos \in 0 .. Len(text)
  BY Zenon DEF LongestMatch, BuilderTypes
<1>2. Lexeme(n) \in Seq(Char) /\ Len(Lexeme(n)) = n /\ \A k \in 1 .. n : Lexeme(n)[k] = text[pos + k]
  BY <1>1, LexemeIs
<1> QED
  BY <1>1, <1>2

LEMMA TypesKept == BuilderTypes /\ [BuilderNext]_builder => BuilderTypes'
<1> SUFFICES ASSUME BuilderTypes, [BuilderNext]_builder PROVE BuilderTypes'
  OBVIOUS
<1>1. CASE UNCHANGED builder
  BY <1>1, Zenon DEF builder, BuilderTypes
<1>2. CASE BuilderNext
  <2>1. text' = text /\ scanner = "runs"
    BY <1>2, StepIs, Zenon
  <2>2. ASSUME NEW rule, NEW n, NEW x, Encodes(rule, n, x) PROVE BuilderTypes'
    <3>1. LongestMatch(rule, n) /\ x \in Printed
      BY <2>2, Zenon DEF Encodes, IsEncoding, Printed
    <3>2. Lexeme(n) \in Seq(Char) /\ pos + n \in 0 .. Len(text)
      BY <3>1, MatchInside
    <3>3. printed' \in Seq(Printed) /\ line_buffer' \in Seq(Char)
      BY <2>2, <3>1, <3>2, Appended, Joined, Zenon DEF Encodes, BuilderTypes
    <3> QED
      BY <2>1, <2>2, <3>2, <3>3, Zenon DEF Encodes, BuilderTypes
  <2>3. ASSUME NEW rule, NEW n, NEW x, NEW e, EndsLine(rule, n, x, e) PROVE BuilderTypes'
    <3>1. LongestMatch(rule, n) /\ x \in Printed /\ e \in Printed
      BY <2>3, Zenon DEF EndsLine, IsEncoding, Printed
    <3>2. pos + n \in 0 .. Len(text)
      BY <3>1, MatchInside
    <3>3. printed' \in Seq(Printed)
      BY <2>3, <3>1, Appended, Zenon DEF EndsLine, BuilderTypes
    <3>4. line_buffer' \in Seq(Char)
      BY <2>3, EmptySeq, Zenon DEF EndsLine
    <3> QED
      BY <2>1, <2>3, <3>2, <3>3, <3>4, Zenon DEF EndsLine, BuilderTypes
  <2>4. ASSUME NEW rule, NEW n, Overflows(rule, n) PROVE BuilderTypes'
    BY <2>1, <2>4, Zenon DEF Overflows, BuilderTypes
  <2>5. CASE DropsOne
    <3>1. pos + 1 \in 0 .. Len(text)
      BY <2>5 DEF DropsOne, BuilderTypes
    <3> QED
      BY <2>1, <2>5, <3>1, Zenon DEF DropsOne, BuilderTypes
  <2>6. CASE Stops
    BY <2>1, <2>6, Zenon DEF Stops, BuilderTypes
  <2> QED
    BY <1>2, <2>2, <2>3, <2>4, <2>5, <2>6, StepIs, Zenon
<1> QED
  BY <1>1, <1>2

LEMMA TypesAtStart == BuilderInit => BuilderTypes
<1> SUFFICES ASSUME BuilderInit PROVE BuilderTypes
  OBVIOUS
<1>1. text \in Seq(Char)
  BY ClassAssumption DEF BuilderInit
<1>2. 0 \in 0 .. Len(text)
  BY <1>1
<1> QED
  BY <1>1, <1>2, EmptySeq, Zenon DEF BuilderInit, BuilderTypes

-----------------------------------------------------------------------------
(* What was printed                                                        *)

LEMMA PrintedHas ==
    ASSUME NEW out \in Seq(Printed)
    PROVE  /\ DOMAIN out = 1 .. Len(out) /\ Len(out) \in Nat
           /\ Items(out) \in SUBSET (1 .. Len(out)) /\ Lines(out) \in SUBSET (1 .. Len(out))
           /\ \A k \in Items(out) : out[k] \in Encodings
           /\ \A k \in Lines(out) : out[k] \in Echoes
<1>1. DOMAIN out = 1 .. Len(out) /\ Len(out) \in Nat /\ \A k \in 1 .. Len(out) : out[k] \in Printed
  OBVIOUS
<1>2. Items(out) \in SUBSET (1 .. Len(out)) /\ Lines(out) \in SUBSET (1 .. Len(out))
  BY <1>1, Zenon DEF Items, Lines
<1>3. \A y \in Encodings : y.name # "line"
  <2>1. \A y \in Encodings : y.name \in {rule.name : rule \in Rules}
    BY Zenon DEF Encodings
  <2> QED
    BY <2>1, RulesAreKnown, Zenon DEF Known
<1>4. \A y \in Echoes : y.name = "line"
  BY Zenon DEF Echoes
<1>5. ASSUME NEW k \in Items(out) PROVE out[k] \in Encodings
  <2>1. out[k].name # "line" /\ out[k] \in Printed
    BY <1>1, <1>2, <1>5, Zenon DEF Items
  <2> QED
    BY <1>4, <2>1, Zenon DEF Printed
<1>6. ASSUME NEW k \in Lines(out) PROVE out[k] \in Echoes
  <2>1. out[k].name = "line" /\ out[k] \in Printed
    BY <1>1, <1>2, <1>6, Zenon DEF Lines
  <2> QED
    BY <1>3, <2>1, Zenon DEF Printed
<1> QED
  BY <1>1, <1>2, <1>5, <1>6, Zenon

LEMMA NamesOfPrinted ==
    /\ \A y \in Encodings : y.name # "line" /\ y.from \in Nat /\ y.length \in Nat \ {0}
    /\ \A y \in Echoes : y.name = "line"
<1>1. \A y \in Encodings : /\ y.name \in {rule.name : rule \in Rules}
                           /\ y.from \in Nat /\ y.length \in Nat \ {0}
  BY Zenon DEF Encodings
<1>2. \A y \in Echoes : y.name = "line"
  BY Zenon DEF Echoes
<1> QED
  BY <1>1, <1>2, RulesAreKnown, Zenon DEF Known

\* An output more: what becomes of the items, the lines and the current line.
LEMMA ItemAdded ==
    ASSUME NEW out \in Seq(Printed), NEW x \in Encodings
    PROVE  LET new == Append(out, x)
               n == Len(out)
           IN  /\ Items(new) = Items(out) \cup {n + 1}
               /\ Lines(new) = Lines(out)
               /\ \A k \in 1 .. (n + 1) : LineOf(new, k) = LineOf(out, k)
               /\ LineOf(new, n + 2) = LineOf(out, n + 1) \cup {n + 1}
               /\ \A s \in SUBSET (1 .. n) : EncodedBy(new, s) = EncodedBy(out, s)
               /\ \A s \in SUBSET (1 .. n) :
                     EncodedBy(new, s \cup {n + 1}) = EncodedBy(out, s) \cup ((x.from + 1) .. End(x))
<1> DEFINE new == Append(out, x)
           n == Len(out)
<1>1. x.name # "line" /\ x \in Printed
  BY NamesOfPrinted, Zenon DEF Printed
<1>2. /\ DOMAIN out = 1 .. n /\ n \in Nat
      /\ Items(out) \in SUBSET (1 .. n) /\ Lines(out) \in SUBSET (1 .. n)
  BY PrintedHas
<1>3. /\ DOMAIN new = 1 .. (n + 1)
      /\ \A k \in 1 .. n : new[k] = out[k]
      /\ new[n + 1] = x
  BY <1>1, Appended
<1> HIDE DEF new, n
<1>4. 1 .. (n + 1) = (1 .. n) \cup {n + 1} /\ n + 1 \notin 1 .. n
  BY <1>2
<1>5. Items(new) = Items(out) \cup {n + 1}
  BY <1>1, <1>2, <1>3, <1>4, Zenon DEF Items
<1>6. Lines(new) = Lines(out)
  BY <1>1, <1>2, <1>3, <1>4, Zenon DEF Lines
<1>7. ASSUME NEW k \in 1 .. (n + 1) PROVE LineOf(new, k) = LineOf(out, k)
  <2>1. ~(n + 1 < k)
    BY <1>2
  <2> QED
    BY <1>5, <1>6, <2>1, Zenon DEF LineOf
<1>8. LineOf(new, n + 2) = LineOf(out, n + 1) \cup {n + 1}
  <2>1. \A j \in 1 .. n : j < n + 2 /\ j < n + 1
    BY <1>2
  <2>2. n + 1 < n + 2 /\ ~(n + 1 < n + 1)
    BY <1>2
  <2>3. \A j \in Items(out) : j < n + 2 /\ j < n + 1
    BY <1>2, <2>1, Zenon
  <2>4. \A j \in Lines(out) : j < n + 2 /\ j < n + 1
    BY <1>2, <2>1, Zenon
  <2> QED
    BY <1>5, <1>6, <2>2, <2>3, <2>4, Zenon DEF LineOf
<1>9. ASSUME NEW s \in SUBSET (1 .. n) PROVE EncodedBy(new, s) = EncodedBy(out, s)
  <2>1. \A k \in s : new[k] = out[k]
    BY <1>3
  <2> QED
    BY <2>1, Zenon DEF EncodedBy
<1>10. ASSUME NEW s \in SUBSET (1 .. n)
       PROVE  EncodedBy(new, s \cup {n + 1}) = EncodedBy(out, s) \cup ((x.from + 1) .. End(x))
  <2>1. EncodedBy(new, s \cup {n + 1}) = EncodedBy(new, s) \cup ((new[n + 1].from + 1) .. End(new[n + 1]))
    BY Zenon DEF EncodedBy
  <2> QED
    BY <1>3, <1>9, <2>1, Zenon
<1> QED
  BY <1>5, <1>6, <1>7, <1>8, <1>9, <1>10, Zenon DEF new, n

LEMMA LineAdded ==
    ASSUME NEW out \in Seq(Printed), NEW e \in Echoes
    PROVE  LET new == Append(out, e)
               n == Len(out)
           IN  /\ Items(new) = Items(out)
               /\ Lines(new) = Lines(out) \cup {n + 1}
               /\ \A k \in 1 .. (n + 1) : LineOf(new, k) = LineOf(out, k)
               /\ LineOf(new, n + 2) = {}
               /\ \A s \in SUBSET (1 .. n) : EncodedBy(new, s) = EncodedBy(out, s)
<1> DEFINE new == Append(out, e)
           n == Len(out)
<1>1. e.name = "line" /\ e \in Printed
  BY NamesOfPrinted, Zenon DEF Printed
<1>2. /\ DOMAIN out = 1 .. n /\ n \in Nat
      /\ Items(out) \in SUBSET (1 .. n) /\ Lines(out) \in SUBSET (1 .. n)
  BY PrintedHas
<1>3. /\ DOMAIN new = 1 .. (n + 1)
      /\ \A k \in 1 .. n : new[k] = out[k]
      /\ new[n + 1] = e
  BY <1>1, Appended
<1> HIDE DEF new, n
<1>4. 1 .. (n + 1) = (1 .. n) \cup {n + 1} /\ n + 1 \notin 1 .. n
  BY <1>2
<1>5. Items(new) = Items(out)
  BY <1>1, <1>2, <1>3, <1>4, Zenon DEF Items
<1>6. Lines(new) = Lines(out) \cup {n + 1}
  BY <1>1, <1>2, <1>3, <1>4, Zenon DEF Lines
<1>7. ASSUME NEW k \in 1 .. (n + 1) PROVE LineOf(new, k) = LineOf(out, k)
  <2>1. ~(n + 1 < k)
    BY <1>2
  <2> QED
    BY <1>5, <1>6, <2>1, Zenon DEF LineOf
<1>8. LineOf(new, n + 2) = {}
  <2>1. n + 1 < n + 2 /\ \A j \in 1 .. n : ~(n + 1 < j)
    BY <1>2
  <2>2. \A j \in Items(out) : ~(n + 1 < j)
    BY <1>2, <2>1, Zenon
  <2> QED
    BY <1>5, <1>6, <2>1, <2>2, Zenon DEF LineOf
<1>9. ASSUME NEW s \in SUBSET (1 .. n) PROVE EncodedBy(new, s) = EncodedBy(out, s)
  <2>1. \A k \in s : new[k] = out[k]
    BY <1>3
  <2> QED
    BY <2>1, Zenon DEF EncodedBy
<1> QED
  BY <1>5, <1>6, <1>7, <1>8, <1>9, Zenon DEF new, n

-----------------------------------------------------------------------------
(* The items tile the text                                                 *)

\* An item is a match of the rule it names; no rule has a longer one from there,
\* and none before it one as long.
WholeRun(it) ==
    \E rule \in Rules :
        /\ rule.name = it.name
        /\ MatchesIn(rule, text, it.from, End(it))
        /\ \A other \in Rules : \A m \in (End(it) + 1) .. Len(text) :
              ~MatchesIn(other, text, it.from, m)
        /\ \A other \in Rules :
              MatchesIn(other, text, it.from, End(it)) => rule.place <= other.place

InFront(it, other) == End(it) <= other.from

Tiles(out, p) ==
    /\ \A k \in Items(out) : End(out[k]) <= p /\ WholeRun(out[k])
    /\ \A j, k \in Items(out) : j < k => InFront(out[j], out[k])
    /\ \A c \in (1 .. p) \ EncodedBy(out, Items(out)) :
          \A rule \in Rules : \A m \in c .. Len(text) : ~MatchesIn(rule, text, c - 1, m)

LEMMA EndsAreNaturals ==
    ASSUME NEW x \in Encodings
    PROVE  x.from \in Nat /\ End(x) \in Nat /\ x.from < End(x) /\ End(x) = x.from + x.length
<1>1. x.from \in Nat /\ x.length \in Nat \ {0}
  BY NamesOfPrinted, Zenon
<1>2. End(x) = x.from + x.length
  BY Zenon DEF End
<1> QED
  BY <1>1, <1>2

\* The match of a step is a whole run behind those matched before.
LEMMA MatchIsWhole ==
    ASSUME BuilderTypes, NEW rule, NEW n, NEW x, LongestMatch(rule, n), IsEncoding(x, rule, n)
    PROVE  /\ End(x) = pos + n /\ x.from = pos /\ x \in Encodings /\ WholeRun(x)
           /\ \A it \in Encodings : WholeRun(it) /\ End(it) <= pos => InFront(it, x)
<1>1. /\ n \in Nat \ {0} /\ pos \in Nat /\ Len(text) \in Nat /\ pos + n \in (pos + 1) .. Len(text)
  BY MatchInside
<1>2. x.from = pos /\ x.name = rule.name /\ x \in Encodings /\ End(x) = pos + n
  BY EndsAreNaturals, Zenon DEF IsEncoding, End
<1>3. /\ rule \in Rules /\ MatchesIn(rule, text, pos, pos + n)
      /\ \A other \in Rules : MatchesIn(other, text, pos, pos + n) => rule.place <= other.place
  BY Zenon DEF LongestMatch
<1>4. ASSUME NEW other \in Rules, NEW m \in (pos + n + 1) .. Len(text)
      PROVE  ~MatchesIn(other, text, pos, m)
  <2> DEFINE l == m - pos
  <2>1. l \in (n + 1) .. (Len(text) - pos) /\ pos + l = m
    BY <1>1
  <2> HIDE DEF l
  <2>2. ~MatchesIn(other, text, pos, pos + l)
    BY <1>3, <2>1, Zenon DEF LongestMatch
  <2> QED
    BY <2>1, <2>2, Zenon
<1>5. WholeRun(x)
  <2>1. \A other \in Rules : \A m \in (End(x) + 1) .. Len(text) :
            ~MatchesIn(other, text, x.from, m)
    BY <1>2, <1>4, Zenon
  <2> QED
    BY <1>2, <1>3, <2>1, Zenon DEF WholeRun
<1>6. ASSUME NEW it \in Encodings, WholeRun(it), End(it) <= pos PROVE InFront(it, x)
  BY <1>2, <1>6, Zenon DEF InFront
<1> QED
  BY <1>2, <1>5, <1>6, Zenon

LEMMA ItemTiles ==
    ASSUME BuilderTypes, NEW rule, NEW n, NEW x, LongestMatch(rule, n), IsEncoding(x, rule, n),
           Tiles(printed, pos)
    PROVE  Tiles(Append(printed, x), pos + n)
<1> DEFINE out == Append(printed, x)
           l == Len(printed)
<1>1. /\ n \in Nat \ {0} /\ pos \in Nat /\ Len(text) \in Nat /\ pos + n \in (pos + 1) .. Len(text)
  BY MatchInside
<1>2. /\ End(x) = pos + n /\ x.from = pos /\ x \in Encodings /\ x \in Printed /\ WholeRun(x)
      /\ \A it \in Encodings : WholeRun(it) /\ End(it) <= pos => InFront(it, x)
  BY MatchIsWhole, Zenon DEF Printed
<1>3. printed \in Seq(Printed)
  BY DEF BuilderTypes
<1>4. /\ l \in Nat /\ Items(printed) \in SUBSET (1 .. l)
      /\ \A k \in Items(printed) : printed[k] \in Encodings
  BY <1>3, PrintedHas, Zenon
<1>5. /\ \A k \in 1 .. l : out[k] = printed[k]
      /\ out[l + 1] = x
  BY <1>2, <1>3, Appended
<1>6. /\ Items(out) = Items(printed) \cup {l + 1}
      /\ EncodedBy(out, Items(printed) \cup {l + 1})
            = EncodedBy(printed, Items(printed)) \cup ((x.from + 1) .. End(x))
  BY <1>2, <1>3, <1>4, ItemAdded, Zenon
<1> HIDE DEF out, l
<1>7. ASSUME NEW k \in Items(out) PROVE End(out[k]) <= pos + n /\ WholeRun(out[k])
  <2>1. CASE k \in Items(printed)
    <3>1. out[k] = printed[k] /\ printed[k] \in Encodings /\ End(printed[k]) <= pos /\ WholeRun(printed[k])
      BY <1>4, <1>5, <2>1, Zenon DEF Tiles
    <3>2. End(printed[k]) \in Nat
      BY <3>1, EndsAreNaturals
    <3>3. End(printed[k]) <= pos + n
      BY <1>1, <3>1, <3>2
    <3> QED
      BY <3>1, <3>3, Zenon
  <2>2. CASE k = l + 1
    <3>1. pos + n <= pos + n
      BY <1>1
    <3> QED
      BY <1>2, <1>5, <2>2, <3>1, Zenon
  <2> QED
    BY <1>6, <2>1, <2>2, Zenon
<1>8. ASSUME NEW j \in Items(out), NEW k \in Items(out), j < k PROVE InFront(out[j], out[k])
  <2>1. \A i \in 1 .. l : ~(l + 1 < i)
    BY <1>4
  <2>2. ~(l + 1 < l + 1)
    BY <1>4
  <2>3. j \in Items(printed)
    BY <1>4, <1>6, <1>8, <2>1, <2>2, Zenon
  <2>4. CASE k \in Items(printed)
    BY <1>4, <1>5, <1>8, <2>3, <2>4, Zenon DEF Tiles
  <2>5. CASE k = l + 1
    BY <1>2, <1>4, <1>5, <2>3, <2>5, Zenon DEF Tiles
  <2> QED
    BY <1>6, <2>4, <2>5, Zenon
<1>9. ASSUME NEW c \in (1 .. (pos + n)) \ EncodedBy(out, Items(out)), NEW r \in Rules,
             NEW m \in c .. Len(text)
      PROVE  ~MatchesIn(r, text, c - 1, m)
  <2>1. c \notin EncodedBy(printed, Items(printed)) /\ c \notin (pos + 1) .. (pos + n)
    BY <1>2, <1>6, <1>9, Zenon
  <2>2. c \in 1 .. pos
    BY <1>1, <2>1
  <2> QED
    BY <2>1, <2>2, Zenon DEF Tiles
<1>10. Tiles(out, pos + n)
  BY <1>7, <1>8, <1>9, Zenon DEF Tiles
<1> QED
  BY <1>10 DEF out

LEMMA LineTiles ==
    ASSUME NEW out \in Seq(Printed), NEW p, NEW e \in Echoes, Tiles(out, p)
    PROVE  Tiles(Append(out, e), p)
<1>1. e \in Printed
  BY DEF Printed
<1>2. Items(out) \in SUBSET (1 .. Len(out))
  BY PrintedHas
<1>3. Items(Append(out, e)) = Items(out) /\ EncodedBy(Append(out, e), Items(out)) = EncodedBy(out, Items(out))
  BY <1>2, LineAdded, Zenon
<1> DEFINE new == Append(out, e)
<1>4. \A k \in Items(out) : new[k] = out[k]
  BY <1>1, <1>2, Appended
<1>5. Items(new) = Items(out) /\ EncodedBy(new, Items(new)) = EncodedBy(out, Items(out))
  BY <1>3, Zenon
<1> HIDE DEF new
<1>6. \A k \in Items(new) : End(new[k]) <= p /\ WholeRun(new[k])
  BY <1>4, <1>5, Zenon DEF Tiles
<1>7. \A j, k \in Items(new) : j < k => InFront(new[j], new[k])
  <2> SUFFICES ASSUME NEW j \in Items(new), NEW k \in Items(new), j < k
               PROVE  InFront(new[j], new[k])
    BY Zenon
  <2>1. InFront(out[j], out[k])
    BY <1>5, Zenon DEF Tiles
  <2>2. new[j] = out[j]
    BY <1>4, <1>5, Zenon
  <2>3. new[k] = out[k]
    BY <1>4, <1>5, Zenon
  <2> QED
    BY <2>1, <2>2, <2>3
<1>8. \A c \in (1 .. p) \ EncodedBy(new, Items(new)) :
          \A rule \in Rules : \A m \in c .. Len(text) : ~MatchesIn(rule, text, c - 1, m)
  BY <1>5, Zenon DEF Tiles
<1> QED
  BY <1>6, <1>7, <1>8, Zenon DEF Tiles, new

LEMMA DropTiles ==
    ASSUME BuilderTypes, DropsOne, Tiles(printed, pos)
    PROVE  Tiles(printed, pos + 1)
<1>1. pos \in Nat
  BY DEF BuilderTypes
<1>2. \A k \in Items(printed) : End(printed[k]) \in Nat
  BY PrintedHas, EndsAreNaturals, Zenon DEF BuilderTypes
<1>3. \A k \in Items(printed) : End(printed[k]) <= pos
  BY Zenon DEF Tiles
<1>4. \A k \in Items(printed) : End(printed[k]) <= pos + 1
  BY <1>1, <1>2, <1>3
<1>5. ASSUME NEW c \in (1 .. (pos + 1)) \ EncodedBy(printed, Items(printed)), NEW r \in Rules,
             NEW m \in c .. Len(text)
      PROVE  ~MatchesIn(r, text, c - 1, m)
  <2>1. CASE c \in 1 .. pos
    BY <1>5, <2>1, Zenon DEF Tiles
  <2>2. CASE c = pos + 1
    <3>1. c - 1 = pos
      BY <1>1, <2>2
    <3> QED
      BY <2>2, <3>1, Zenon DEF DropsOne
  <2> QED
    BY <1>1, <1>5, <2>1, <2>2
<1>6. /\ \A k \in Items(printed) : WholeRun(printed[k])
      /\ \A j, k \in Items(printed) : j < k => InFront(printed[j], printed[k])
  BY Zenon DEF Tiles
<1>7. \A c \in (1 .. (pos + 1)) \ EncodedBy(printed, Items(printed)) :
          \A r \in Rules : \A m \in c .. Len(text) : ~MatchesIn(r, text, c - 1, m)
  BY <1>5, Zenon
<1> QED
  BY <1>4, <1>6, <1>7, Zenon DEF Tiles

TileInv == Tiles(printed, pos)

LEMMA TilesAtStart == BuilderInit => TileInv
<1> SUFFICES ASSUME BuilderInit PROVE TileInv
  OBVIOUS
<1>1. printed = <<>> /\ pos = 0
  BY DEF BuilderInit
<1>2. DOMAIN printed = {} /\ 1 .. pos = {}
  BY <1>1
<1>3. Items(printed) = {}
  BY <1>2, Zenon DEF Items
<1> QED
  BY <1>2, <1>3, Zenon DEF TileInv, Tiles

\* How a match is drawn does not depend on the state but for the text.
LEMMA TilesPrimed ==
    ASSUME text' = text, NEW out, NEW p, Tiles(out, p), printed' = out, pos' = p
    PROVE  TileInv'
  BY Zenon DEF TileInv, Tiles, WholeRun

LEMMA TilesKept == BuilderTypes /\ TileInv /\ [BuilderNext]_builder => TileInv'
<1> SUFFICES ASSUME BuilderTypes, TileInv, [BuilderNext]_builder PROVE TileInv'
  OBVIOUS
<1>0. Tiles(printed, pos) /\ printed \in Seq(Printed)
  BY Zenon DEF TileInv, BuilderTypes
<1>1. CASE UNCHANGED builder
  <2>1. text' = text /\ printed' = printed /\ pos' = pos
    BY <1>1 DEF builder
  <2> QED
    BY <1>0, <2>1, TilesPrimed
<1>2. CASE BuilderNext
  <2>1. text' = text
    BY <1>2, StepIs, Zenon
  <2>2. ASSUME NEW rule, NEW n, NEW x, Encodes(rule, n, x) PROVE TileInv'
    BY <1>0, <2>1, <2>2, ItemTiles, TilesPrimed, Zenon DEF Encodes
  <2>3. ASSUME NEW rule, NEW n, NEW x, NEW e, EndsLine(rule, n, x, e) PROVE TileInv'
    <3>1. Tiles(Append(printed, x), pos + n) /\ e \in Echoes /\ x \in Printed
      BY <1>0, <2>3, ItemTiles, Zenon DEF EndsLine, IsEncoding, Printed
    <3>2. Append(printed, x) \in Seq(Printed)
      BY <1>0, <3>1, Appended
    <3>3. Tiles(Append(Append(printed, x), e), pos + n)
      BY <3>1, <3>2, LineTiles
    <3> QED
      BY <2>1, <2>3, <3>3, TilesPrimed, Zenon DEF EndsLine
  <2>4. ASSUME NEW rule, NEW n, Overflows(rule, n) PROVE TileInv'
    BY <1>0, <2>1, <2>4, TilesPrimed, Zenon DEF Overflows
  <2>5. CASE DropsOne
    <3>1. Tiles(printed, pos + 1)
      BY <1>0, <2>5, DropTiles
    <3> QED
      BY <2>1, <2>5, <3>1, TilesPrimed, Zenon DEF DropsOne
  <2>6. CASE Stops
    BY <1>0, <2>1, <2>6, TilesPrimed, Zenon DEF Stops
  <2> QED
    BY <1>2, <2>2, <2>3, <2>4, <2>5, <2>6, StepIs, Zenon
<1> QED
  BY <1>1, <1>2

\* The places of the names that come first are in their order.
OrderedPlaces == <<3, 4, 9, 12, 23, 27, 28>>

LEMMA OrderIsOfPlaces ==
    /\ DOMAIN Order = 1 .. 7 /\ \A a, b \in 1 .. 7 : a < b => OrderedPlaces[a] < OrderedPlaces[b]
    /\ \A a \in 1 .. 7 : \A rule \in Rules : rule.name = Order[a] => rule.place = OrderedPlaces[a]
<1>1. DOMAIN Order = 1 .. 7 /\ \A a, b \in 1 .. 7 : a < b => OrderedPlaces[a] < OrderedPlaces[b]
  BY DEF Order, OrderedPlaces
<1>2. ASSUME NEW a \in 1 .. 7, NEW place, Placed(place, Order[a]) PROVE place = OrderedPlaces[a]
  BY <1>2 DEF Placed, Order, OrderedPlaces
<1>3. \A rule \in Rules : Placed(rule.place, rule.name)
  BY RulesAreKnown, Zenon DEF Known
<1> QED
  BY <1>1, <1>2, <1>3, Zenon

\* What a character that goes on with a run is.
InClass(name, c) == c \in IF name \in DOMAIN Classes THEN Classes[name] ELSE CharsOf({name})

LEMMA ClassIs ==
    ASSUME NEW rule \in Rules, NEW c \in Char
    PROVE  InClass(rule.name, c) <=> c \in rule.chars /\ (rule.name = "COMMENT" => c # NewLine)
<1> DEFINE name == rule.name
<1>1. rule.chars = CharsNamed(name)
  BY RulesAreKnown, Zenon DEF Known
<1>2. CharsOf({name}) = rule.chars
  BY NameGivesChars, Zenon DEF CharsOf
<1>3. DOMAIN Classes = {"COMMENT", "DIGIT", "INTEGER", "LOWER", "UPPER", "FSLASH", "XDIGIT"}
  BY Zenon DEF Classes
<1> HIDE DEF name
<1>4. CASE name \notin DOMAIN Classes
  <2>1. name # "COMMENT"
    BY <1>3, <1>4
  <2> QED
    BY <1>2, <1>4, <2>1, Zenon DEF InClass, name
<1>5. CASE name = "COMMENT"
  <2>1. CharsNamed("COMMENT") = Char
    BY Zenon DEF CharsNamed
  <2>2. Classes["COMMENT"] = Char \ {NewLine} /\ "COMMENT" \in DOMAIN Classes
    BY <1>3 DEF Classes
  <2> QED
    BY <1>1, <1>5, <2>1, <2>2, Zenon DEF InClass, name
<1>6. CASE name \in {"DIGIT", "INTEGER", "LOWER", "UPPER", "FSLASH", "XDIGIT"}
  <2>1. /\ Classes["DIGIT"] = Digit /\ Classes["INTEGER"] = Digit \cup {"+", "-"}
        /\ Classes["LOWER"] = Lower /\ Classes["UPPER"] = Upper
        /\ Classes["FSLASH"] = {"/"} /\ Classes["XDIGIT"] = Digit \cup HexLetter
    BY DEF Classes
  <2>2. /\ CharsNamed("DIGIT") = Digit /\ CharsNamed("INTEGER") = Digit \cup {"+", "-"}
        /\ CharsNamed("LOWER") = Lower /\ CharsNamed("UPPER") = Upper
        /\ CharsNamed("FSLASH") = {"/"} /\ CharsNamed("XDIGIT") = Digit \cup HexLetter
    BY Zenon DEF CharsNamed
  <2>3. Classes[name] = CharsNamed(name)
    BY <1>6, <2>1, <2>2, Zenon
  <2>4. name # "COMMENT" /\ name \in DOMAIN Classes
    BY <1>3, <1>6
  <2> QED
    BY <1>1, <2>3, <2>4, Zenon DEF InClass, name
<1>7. name \in DOMAIN Classes =>
         name = "COMMENT" \/ name \in {"DIGIT", "INTEGER", "LOWER", "UPPER", "FSLASH", "XDIGIT"}
  BY <1>3
<1> QED
  BY <1>4, <1>5, <1>6, <1>7, Zenon

LEMMA ContinuesIs ==
    ASSUME text \in Seq(Char), NEW rule \in Rules, NEW q \in 1 .. Len(text)
    PROVE  Continues(rule.name, q) <=>
              /\ text[q] \in rule.chars
              /\ rule.name = "COMMENT" => text[q] # NewLine
              /\ rule.name = "INTEGER" /\ text[q] \in Sign =>
                    q + 1 \in 1 .. Len(text) /\ text[q + 1] \in Digit
<1>1. text[q] \in Char /\ DOMAIN text = 1 .. Len(text)
  OBVIOUS
<1>2. InClass(rule.name, text[q]) <=>
         text[q] \in rule.chars /\ (rule.name = "COMMENT" => text[q] # NewLine)
  BY <1>1, ClassIs
<1> QED
  BY <1>1, <1>2, Zenon DEF Continues, InClass, Sign

\* A digit goes on with a number.
LEMMA DigitContinues ==
    ASSUME text \in Seq(Char), NEW rule \in Rules, rule.name = "INTEGER",
           NEW q \in 1 .. Len(text), text[q] \in Digit
    PROVE  Continues(rule.name, q)
<1>1. rule.chars = CharsNamed("INTEGER")
  BY RulesAreKnown, Zenon DEF Known
<1>2. CharsNamed("INTEGER") = Digit \cup {"+", "-"}
  BY Zenon DEF CharsNamed
<1>3. text[q] \in rule.chars /\ text[q] \notin Sign /\ "INTEGER" # "COMMENT"
  BY <1>1, <1>2, ClassAssumption DEF Sign
<1> QED
  BY <1>3, ContinuesIs, Zenon

\* Where a run stops: every character before goes on with it, and that one does not.
LEMMA ReachStops ==
    ASSUME text \in Seq(Char), NEW name, NEW p \in 1 .. (Len(text) + 1), Begins(name, p)
    PROVE  /\ Reach(name, p) \in 0 .. (Len(text) + 1 - p)
           /\ \A q \in p .. (p + Reach(name, p) - 1) : Continues(name, q)
           /\ ~Continues(name, p + Reach(name, p))
<1> DEFINE T == {q \in p .. (Len(text) + 1) : ~Continues(name, q)}
           e == Min(T)
<1>1. Len(text) \in Nat /\ DOMAIN text = 1 .. Len(text)
  OBVIOUS
<1>2. ~Continues(name, Len(text) + 1)
  <2>1. Len(text) + 1 \notin DOMAIN text
    BY <1>1
  <2> QED
    BY <2>1, Zenon DEF Continues
<1>3. T \in SUBSET Nat /\ T # {}
  BY <1>1, <1>2
<1>4. PICK x \in T : \A y \in T : x <= y
  BY <1>3, LeastOfNaturals
<1>5. e \in T /\ \A y \in T : e <= y
  BY <1>4, Zenon DEF Min
<1>6. Reach(name, p) = e - p
  BY Zenon DEF Reach
<1> HIDE DEF e
<1>7. e \in p .. (Len(text) + 1) /\ ~Continues(name, e)
  BY <1>5
<1>8. Reach(name, p) \in 0 .. (Len(text) + 1 - p) /\ p + Reach(name, p) = e
  BY <1>1, <1>6, <1>7
<1>9. ASSUME NEW q \in p .. (e - 1) PROVE Continues(name, q)
  <2>1. q \in p .. (Len(text) + 1) /\ ~(e <= q)
    BY <1>1, <1>7, <1>9
  <2> QED
    BY <1>5, <2>1
<1> QED
  BY <1>7, <1>8, <1>9

\* A run of a class is the longest match of its rule.
LEMMA ReachMatches ==
    ASSUME text \in Seq(Char), NEW rule \in Rules, NEW i \in 0 .. Len(text),
           Reach(rule.name, i + 1) > 0, Begins(rule.name, i + 1)
    PROVE  MatchesIn(rule, text, i, i + Reach(rule.name, i + 1))
<1> DEFINE name == rule.name
           r == Reach(name, i + 1)
<1>1. i + 1 \in 1 .. (Len(text) + 1) /\ Len(text) \in Nat /\ i \in Nat
  OBVIOUS
<1>2. /\ r \in 0 .. (Len(text) + 1 - (i + 1))
      /\ \A q \in (i + 1) .. (i + 1 + r - 1) : Continues(name, q)
      /\ ~Continues(name, i + 1 + r)
  BY <1>1, ReachStops, Zenon
<1> HIDE DEF r
<1>3. r \in Nat /\ r > 0 /\ i + r \in (i + 1) .. Len(text) /\ i + 1 + r - 1 = i + r
      /\ i + 1 + r = i + r + 1
  BY <1>1, <1>2 DEF r
<1>4. ASSUME NEW k \in (i + 1) .. (i + r)
      PROVE  /\ text[k] \in rule.chars
             /\ name = "COMMENT" => text[k] # NewLine
             /\ name = "INTEGER" /\ text[k] \in Sign =>
                   k + 1 \in 1 .. Len(text) /\ text[k + 1] \in Digit
  <2>1. k \in 1 .. Len(text)
    BY <1>1, <1>3, <1>4
  <2>2. Continues(name, k)
    BY <1>2, <1>3, <1>4
  <2> QED
    BY <2>1, <2>2, ContinuesIs, Zenon
<1>5. ASSUME name = "INTEGER", NEW k \in (i + 1) .. (i + r), text[k] \in Sign
      PROVE  k < i + r /\ text[k + 1] \in Digit
  <2>1. k + 1 \in 1 .. Len(text) /\ text[k + 1] \in Digit
    BY <1>4, <1>5, Zenon
  <2>2. Continues(name, k + 1)
    BY <1>5, <2>1, DigitContinues, Zenon
  <2>3. k + 1 # i + r + 1
    BY <1>2, <1>3, <2>2
  <2> QED
    BY <1>3, <2>1, <2>3
<1>6. ASSUME name = "COMMENT" PROVE CommentIn(text, i, i + r)
  <2>1. \A q \in (i + 1) .. (i + 1 + 2) : q \in DOMAIN text /\ text[q] = "/"
    BY <1>6, Zenon DEF Begins
  <2>2. rule.chars = Char /\ "COMMENT" # "INTEGER"
    <3>1. rule.chars = CharsNamed("COMMENT")
      BY <1>6, RulesAreKnown, Zenon DEF Known
    <3>2. CharsNamed("COMMENT") = Char
      BY Zenon DEF CharsNamed
    <3> QED
      BY <3>1, <3>2
  <2>3. ASSUME NEW q \in (i + 1) .. (i + 3) PROVE Continues(name, q)
    <3>1. q \in (i + 1) .. (i + 1 + 2)
      BY <1>1
    <3>2. q \in DOMAIN text /\ text[q] = "/"
      BY <2>1, <3>1, Zenon
    <3>3. q \in 1 .. Len(text) /\ text[q] \in Char /\ text[q] # NewLine
      BY <3>2 DEF NewLine
    <3> QED
      BY <1>6, <2>2, <3>3, ContinuesIs, Zenon
  <2>4. i + r + 1 \notin (i + 1) .. (i + 3)
    BY <1>2, <1>3, <2>3
  <2>5. (i + r) - i >= 3
    BY <1>1, <1>3, <2>4
  <2>6. \A q \in (i + 1) .. (i + 3) : text[q] = Slash
    <3>1. \A q \in (i + 1) .. (i + 3) : q \in (i + 1) .. (i + 1 + 2)
      BY <1>1
    <3> QED
      BY <2>1, <3>1, Zenon DEF Slash
  <2> QED
    BY <1>4, <1>6, <2>5, <2>6, Zenon DEF CommentIn
<1>7. i < i + r /\ \A k \in (i + 1) .. (i + r) : text[k] \in rule.chars
  BY <1>3, <1>4
<1>8. name = "INTEGER" => SignedIn(text, i, i + r)
  BY <1>5, Zenon DEF SignedIn
<1> QED
  BY <1>6, <1>7, <1>8, Zenon DEF MatchesIn, r

\* And no match of it goes farther.
LEMMA MatchReaches ==
    ASSUME text \in Seq(Char), NEW rule \in Rules, NEW i \in 0 .. Len(text),
           NEW m \in (i + 1) .. Len(text), MatchesIn(rule, text, i, m)
    PROVE  Begins(rule.name, i + 1) /\ m <= i + Reach(rule.name, i + 1)
<1> DEFINE name == rule.name
           r == Reach(name, i + 1)
<1>1. i + 1 \in 1 .. (Len(text) + 1) /\ Len(text) \in Nat /\ i \in Nat /\ m \in Nat
      /\ DOMAIN text = 1 .. Len(text)
  OBVIOUS
<1>2. /\ \A k \in (i + 1) .. m : text[k] \in rule.chars
      /\ name = "INTEGER" => SignedIn(text, i, m)
      /\ name = "COMMENT" => CommentIn(text, i, m)
  BY Zenon DEF MatchesIn
<1>3. ASSUME name = "COMMENT" PROVE \A q \in (i + 1) .. (i + 1 + 2) : q \in DOMAIN text /\ text[q] = "/"
  <2>1. m - i >= 3 /\ \A q \in (i + 1) .. (i + 3) : text[q] = "/"
    BY <1>2, <1>3, Zenon DEF CommentIn, Slash
  <2>2. \A q \in (i + 1) .. (i + 1 + 2) : q \in (i + 1) .. (i + 3) /\ q \in DOMAIN text
    BY <1>1, <2>1
  <2> QED
    BY <2>1, <2>2, Zenon
<1>4. Begins(name, i + 1)
  BY <1>3, Zenon DEF Begins
<1>5. r \in 0 .. (Len(text) + 1 - (i + 1)) /\ ~Continues(name, i + 1 + r)
  BY <1>1, <1>4, ReachStops, Zenon
<1> HIDE DEF r
<1>6. ASSUME NEW k \in (i + 1) .. m PROVE Continues(name, k)
  <2>1. k \in 1 .. Len(text) /\ text[k] \in rule.chars
    BY <1>1, <1>2
  <2>2. name = "COMMENT" => text[k] # NewLine
    BY <1>2, <1>6, Zenon DEF CommentIn
  <2>3. ASSUME name = "INTEGER", text[k] \in Sign
        PROVE  k + 1 \in 1 .. Len(text) /\ text[k + 1] \in Digit
    <3>1. k < m /\ text[k + 1] \in Digit
      BY <1>2, <1>6, <2>3, Zenon DEF SignedIn
    <3> QED
      BY <1>1, <2>1, <3>1
  <2> QED
    BY <2>1, <2>2, <2>3, ContinuesIs, Zenon
<1>7. i + 1 + r \notin (i + 1) .. m
  BY <1>5, <1>6
<1>8. m <= i + r
  BY <1>1, <1>5, <1>7
<1> QED
  BY <1>4, <1>8 DEF r

LEMMA ReachIs ==
    ASSUME text \in Seq(Char), NEW rule \in Rules, NEW i \in 0 .. Len(text)
    PROVE  /\ Reach(rule.name, i + 1) \in 0 .. (Len(text) - i)
           /\ Reach(rule.name, i + 1) > 0 => MatchesIn(rule, text, i, i + Reach(rule.name, i + 1))
           /\ \A m \in (i + 1) .. Len(text) :
                 MatchesIn(rule, text, i, m) => m <= i + Reach(rule.name, i + 1)
<1>1. i + 1 \in 1 .. (Len(text) + 1) /\ Len(text) + 1 - (i + 1) = Len(text) - i /\ Len(text) - i \in Nat
  OBVIOUS
<1>2. CASE Begins(rule.name, i + 1)
  <2>1. Reach(rule.name, i + 1) \in 0 .. (Len(text) - i)
    BY <1>1, <1>2, ReachStops
  <2> QED
    BY <1>2, <2>1, ReachMatches, MatchReaches, Zenon
<1>3. CASE ~Begins(rule.name, i + 1)
  <2>1. Reach(rule.name, i + 1) = 0
    BY <1>3, Zenon DEF Reach
  <2>2. 0 \in 0 .. (Len(text) - i) /\ ~(0 > 0)
    BY <1>1
  <2> QED
    BY <1>3, <2>1, <2>2, MatchReaches, Zenon
<1> QED
  BY <1>2, <1>3

\* An item of the output is the run of its class, and the first of the farthest.
LEMMA ItemReaches ==
    ASSUME text \in Seq(Char), NEW it \in Encodings, WholeRun(it), End(it) <= Len(text)
    PROVE  /\ it.name \in Names /\ it.length > 0
           /\ it.length = Reach(it.name, it.from + 1)
           /\ \A name \in Names : Reach(name, it.from + 1) <= it.length
           /\ \A a, b \in DOMAIN Order :
                 a < b /\ it.name = Order[b] /\ Order[a] \in Names =>
                    Reach(Order[a], it.from + 1) < it.length
<1> DEFINE i == it.from
           n == it.length
<1>1. PICK rule \in Rules :
         /\ rule.name = it.name
         /\ MatchesIn(rule, text, i, End(it))
         /\ \A other \in Rules : \A m \in (End(it) + 1) .. Len(text) :
               ~MatchesIn(other, text, i, m)
         /\ \A other \in Rules : MatchesIn(other, text, i, End(it)) => rule.place <= other.place
  BY Zenon DEF WholeRun
<1>2. End(it) = i + n /\ i \in Nat /\ n \in Nat \ {0}
  BY EndsAreNaturals, NamesOfPrinted, Zenon
<1> HIDE DEF i, n
<1>3. Len(text) \in Nat /\ i \in 0 .. Len(text) /\ i + n \in (i + 1) .. Len(text)
  BY <1>2
<1>4. ASSUME NEW other \in Rules
      PROVE  /\ Reach(other.name, i + 1) <= n /\ Reach(other.name, i + 1) \in Nat
             /\ Reach(other.name, i + 1) = n => MatchesIn(other, text, i, i + n)
  <2> DEFINE r == Reach(other.name, i + 1)
  <2>1. r \in 0 .. (Len(text) - i) /\ (r > 0 => MatchesIn(other, text, i, i + r))
    BY <1>3, ReachIs, Zenon
  <2> HIDE DEF r
  <2>2. ASSUME ~(r <= n) PROVE FALSE
    <3>1. r > 0 /\ i + r \in (i + n + 1) .. Len(text)
      BY <1>2, <1>3, <2>1, <2>2
    <3> QED
      BY <1>1, <1>2, <2>1, <3>1, Zenon
  <2>3. n > 0
    BY <1>2
  <2>4. r = n => MatchesIn(other, text, i, i + n)
    BY <2>1, <2>3, Zenon
  <2>5. r \in Nat
    BY <1>3, <2>1
  <2> QED
    BY <2>2, <2>4, <2>5, Zenon DEF r
<1>5. n = Reach(it.name, i + 1)
  <2>1. i + n <= i + Reach(it.name, i + 1)
    BY <1>1, <1>2, <1>3, ReachIs, Zenon
  <2>2. Reach(it.name, i + 1) <= n /\ Reach(it.name, i + 1) \in Nat
    BY <1>1, <1>4, Zenon
  <2> QED
    BY <1>2, <2>1, <2>2
<1>6. ASSUME NEW a \in DOMAIN Order, NEW b \in DOMAIN Order, a < b, it.name = Order[b],
             Order[a] \in Names
      PROVE  Reach(Order[a], i + 1) < n
  <2>1. PICK other \in Rules : other.name = Order[a]
    BY <1>6, Zenon DEF Names
  <2>2. /\ a \in 1 .. 7 /\ b \in 1 .. 7 /\ OrderedPlaces[a] < OrderedPlaces[b]
        /\ other.place = OrderedPlaces[a] /\ rule.place = OrderedPlaces[b]
    BY <1>1, <1>6, <2>1, OrderIsOfPlaces
  <2>3. OrderedPlaces[a] \in Nat /\ OrderedPlaces[b] \in Nat
    BY <2>2 DEF OrderedPlaces
  <2>4. ~(rule.place <= other.place)
    BY <2>2, <2>3
  <2>5. ~MatchesIn(other, text, i, i + n)
    BY <1>1, <1>2, <2>4, Zenon
  <2>6. Reach(other.name, i + 1) <= n /\ Reach(other.name, i + 1) \in Nat
        /\ Reach(other.name, i + 1) # n
    BY <1>4, <2>5, Zenon
  <2> QED
    BY <1>2, <2>1, <2>6
<1>7. it.name \in Names /\ n > 0
  BY <1>1, <1>2 DEF Names
<1>8. \A name \in Names : Reach(name, i + 1) <= n
  BY <1>4, Zenon DEF Names
<1> QED
  BY <1>5, <1>6, <1>7, <1>8, Zenon DEF i, n

\* The names that come first are names of rules.
LEMMA OrderIsOfNames == \A a \in DOMAIN Order : Order[a] \in Names
<1>1. /\ Plain(3, "COMMENT", Char) \in Rules /\ Plain(4, "DIGIT", Digit) \in Rules
      /\ Plain(9, "INTEGER", Digit \cup {"+", "-"}) \in Rules /\ Plain(12, "LOWER", Lower) \in Rules
      /\ Plain(23, "UPPER", Upper) \in Rules /\ Plain(27, "FSLASH", {"/"}) \in Rules
      /\ Rule(28, "XDIGIT", "XDIGIT", "", Digit \cup HexLetter) \in Rules
  BY Zenon DEF Rules, RulesColonToGt, RulesIntegerToLt, RulesUnderscoreToXdigit
<1>2. /\ Plain(3, "COMMENT", Char).name = "COMMENT" /\ Plain(4, "DIGIT", Digit).name = "DIGIT"
      /\ Plain(9, "INTEGER", Digit \cup {"+", "-"}).name = "INTEGER"
      /\ Plain(12, "LOWER", Lower).name = "LOWER" /\ Plain(23, "UPPER", Upper).name = "UPPER"
      /\ Plain(27, "FSLASH", {"/"}).name = "FSLASH"
      /\ Rule(28, "XDIGIT", "XDIGIT", "", Digit \cup HexLetter).name = "XDIGIT"
  BY DEF Plain, Rule
<1>3. {"COMMENT", "DIGIT", "INTEGER", "LOWER", "UPPER", "FSLASH", "XDIGIT"} \subseteq Names
  <2>1. \A rule \in Rules : rule.name \in Names
    BY Zenon DEF Names
  <2>2. "COMMENT" \in Names /\ "DIGIT" \in Names /\ "INTEGER" \in Names /\ "LOWER" \in Names
    BY <1>1, <1>2, <2>1, Zenon
  <2>3. "UPPER" \in Names /\ "FSLASH" \in Names /\ "XDIGIT" \in Names
    BY <1>1, <1>2, <2>1, Zenon
  <2> QED
    BY <2>2, <2>3
<1>4. ASSUME NEW a \in DOMAIN Order
      PROVE  Order[a] \in {"COMMENT", "DIGIT", "INTEGER", "LOWER", "UPPER", "FSLASH", "XDIGIT"}
  <2>1. a \in 1 .. 7
    BY OrderIsOfPlaces, Zenon
  <2> QED
    BY <2>1 DEF Order
<1> QED
  BY <1>3, <1>4, Zenon

LEMMA TilesAre == BuilderTypes /\ TileInv => ItemsTileTheText
<1> SUFFICES ASSUME BuilderTypes, TileInv PROVE ItemsTileTheText
  OBVIOUS
<1>1. text \in Seq(Char) /\ pos \in 0 .. Len(text) /\ Len(text) \in Nat
  BY DEF BuilderTypes
<1>2. ASSUME NEW k \in Items(printed)
      PROVE  LET it == printed[k]
                 p == it.from + 1
             IN  /\ it.name \in Names /\ it.length > 0
                 /\ it.length = Reach(it.name, p)
                 /\ \A name \in Names : Reach(name, p) <= it.length
                 /\ \A a, b \in DOMAIN Order :
                       a < b /\ it.name = Order[b] => Reach(Order[a], p) < it.length
  <2>1. printed[k] \in Encodings /\ End(printed[k]) <= pos /\ WholeRun(printed[k])
    BY PrintedHas, Zenon DEF TileInv, Tiles, BuilderTypes
  <2>2. End(printed[k]) \in Nat
    BY <2>1, EndsAreNaturals
  <2>3. End(printed[k]) <= Len(text)
    BY <1>1, <2>1, <2>2
  <2> QED
    BY <1>1, <2>1, <2>3, ItemReaches, OrderIsOfNames, Zenon
<1>3. ASSUME NEW j \in Items(printed), NEW k \in Items(printed), j < k
      PROVE  End(printed[j]) <= printed[k].from
  BY <1>3, Zenon DEF TileInv, Tiles, InFront
<1>4. ASSUME NEW c \in (1 .. pos) \ Encoded, NEW name \in Names PROVE Reach(name, c) = 0
  <2> DEFINE i == c - 1
  <2>1. i \in 0 .. Len(text) /\ i + 1 = c /\ i \in Nat
    BY <1>1, <1>4
  <2>2. PICK rule \in Rules : rule.name = name
    BY Zenon DEF Names
  <2>3. \A m \in c .. Len(text) : ~MatchesIn(rule, text, i, m)
    BY <1>4, Zenon DEF TileInv, Tiles, Encoded
  <2> HIDE DEF i
  <2>4. /\ Reach(rule.name, i + 1) \in 0 .. (Len(text) - i)
        /\ Reach(rule.name, i + 1) > 0 => MatchesIn(rule, text, i, i + Reach(rule.name, i + 1))
    BY <1>1, <2>1, ReachIs, Zenon
  <2> DEFINE r == Reach(name, c)
  <2>5. r \in 0 .. (Len(text) - i) /\ (r > 0 => MatchesIn(rule, text, i, i + r))
    BY <2>1, <2>2, <2>4, Zenon
  <2> HIDE DEF r
  <2>6. r > 0 => i + r \in c .. Len(text)
    BY <1>1, <2>1, <2>5
  <2>7. ~(r > 0)
    BY <2>3, <2>5, <2>6, Zenon
  <2>8. r = 0
    BY <1>1, <2>1, <2>5, <2>7
  <2> QED
    BY <2>8 DEF r
<1> QED
  BY <1>2, <1>3, <1>4, Zenon DEF ItemsTileTheText

\* Every item is a whole run, of the class that reaches farthest and comes first,
\* and nothing that any class could match is left out (scanner.l:108-603): for
\* texts of any length over any classes of characters.
THEOREM RunsTileTheText == BuilderSpec => []ItemsTileTheText
<1>1. BuilderInit => BuilderTypes /\ TileInv
  BY TypesAtStart, TilesAtStart
<1>2. BuilderTypes /\ TileInv /\ [BuilderNext]_builder => (BuilderTypes /\ TileInv)'
  BY TypesKept, TilesKept
<1> QED
  BY <1>1, <1>2, TilesAre, PTL DEF BuilderSpec

-----------------------------------------------------------------------------
(* The line in the buffer                                                  *)

LEMMA FiniteUpTo ==
    ASSUME NEW n \in Nat, NEW T \in SUBSET (1 .. n)
    PROVE  IsFiniteSet(T) /\ Cardinality(T) \in Nat /\ Cardinality(T) <= n
<1>1. IsFiniteSet(1 .. n) /\ Cardinality(1 .. n) = n
  BY FS_Interval
<1>2. IsFiniteSet(T) /\ Cardinality(T) <= n
  BY <1>1, FS_Subset
<1> QED
  BY <1>2, FS_CardinalityType

LEMMA CountsAdd ==
    ASSUME NEW p \in Nat, NEW n \in Nat, NEW P \in SUBSET (1 .. p)
    PROVE  Cardinality(P \cup ((p + 1) .. (p + n))) = Cardinality(P) + n
<1> DEFINE W == (p + 1) .. (p + n)
<1>1. IsFiniteSet(W) /\ Cardinality(W) = n
  BY FS_Interval
<1>2. IsFiniteSet(P) /\ Cardinality(P) \in Nat
  BY FiniteUpTo
<1>3. P \cap W = {}
  OBVIOUS
<1> HIDE DEF W
<1>4. Cardinality(P \cup W) = Cardinality(P) + Cardinality(W) - Cardinality(P \cap W)
  BY <1>1, <1>2, FS_Union
<1>5. Cardinality(P \cup W) = Cardinality(P) + n - 0
  BY <1>1, <1>3, <1>4, FS_EmptySet, Zenon
<1> QED
  BY <1>2, <1>5 DEF W

\* A match of what follows, appended.
LEMMA SpellsMore ==
    ASSUME NEW t, NEW p \in Nat, NEW n \in Nat, NEW P \in SUBSET (1 .. p),
           NEW s \in Seq(Char), Spells(t, s, P),
           NEW u \in Seq(Char)
    PROVE  Len(u) = n /\ (\A k \in 1 .. n : u[k] = t[p + k]) =>
               Spells(t, s \o u, P \cup ((p + 1) .. (p + n)))
<1> DEFINE W == (p + 1) .. (p + n)
           v == s \o u
<1>8. /\ Len(v) = Len(s) + Len(u)
      /\ \A k \in 1 .. Len(s) : v[k] = s[k]
      /\ \A k \in 1 .. Len(u) : v[Len(s) + k] = u[k]
  BY Joined
<1> HIDE DEF v
<1> SUFFICES ASSUME Len(u) = n, \A k \in 1 .. n : u[k] = t[p + k]
             PROVE  Spells(t, v, P \cup ((p + 1) .. (p + n)))
  BY Zenon DEF v
<1>1. Len(s) = Cardinality(P) /\ \A x \in P : s[Cardinality({q \in P : q <= x})] = t[x]
  BY Zenon DEF Spells
<1>2. Len(s) \in Nat /\ Len(u) \in Nat
  OBVIOUS
<1>3. /\ Len(v) = Len(s) + n
      /\ \A k \in 1 .. Len(s) : v[k] = s[k]
      /\ \A k \in 1 .. n : v[Len(s) + k] = u[k]
  BY <1>8, Zenon
<1> HIDE DEF W
<1>4. Len(v) = Cardinality(P \cup W)
  BY <1>1, <1>2, <1>3, CountsAdd DEF W
<1>5. ASSUME NEW x \in P PROVE v[Cardinality({q \in P \cup W : q <= x})] = t[x]
  <2> DEFINE Q == {q \in P : q <= x}
  <2>8. x \in 1 .. p /\ x <= x
    OBVIOUS
  <2>9. \A q \in W : ~(q <= x)
    BY <2>8 DEF W
  <2>1. {q \in P \cup W : q <= x} = Q
    BY <2>9, Zenon
  <2>2. Q \in SUBSET (1 .. p) /\ Q \subseteq P /\ Q # {}
    BY <2>8, Zenon
  <2> HIDE DEF Q
  <2>3. IsFiniteSet(Q) /\ Cardinality(Q) \in Nat /\ Cardinality(Q) # 0
    BY <2>2, FiniteUpTo, FS_EmptySet
  <2>4. IsFiniteSet(P)
    BY FiniteUpTo
  <2>5. Cardinality(Q) <= Cardinality(P)
    BY <2>2, <2>4, FS_Subset
  <2>6. Cardinality(Q) \in 1 .. Len(s)
    BY <1>1, <1>2, <2>3, <2>5
  <2>7. s[Cardinality(Q)] = t[x]
    BY <1>1, Zenon DEF Q
  <2> QED
    BY <1>3, <2>1, <2>6, <2>7
<1>6. ASSUME NEW x \in W PROVE v[Cardinality({q \in P \cup W : q <= x})] = t[x]
  <2> DEFINE k == x - p
  <2>1. k \in 1 .. n /\ p + k = x /\ k \in Nat
    BY DEF W
  <2> HIDE DEF k
  <2> DEFINE Wk == (p + 1) .. (p + k)
  <2>4. \A q \in P : q <= x
    BY <2>1
  <2>5. \A q \in W : q <= x <=> q \in Wk
    BY <2>1 DEF W
  <2>6. Wk \subseteq W
    BY <2>1 DEF W
  <2>7. Cardinality(P \cup Wk) = Cardinality(P) + k
    BY <2>1, CountsAdd
  <2> HIDE DEF Wk
  <2>2. {q \in P \cup W : q <= x} = P \cup Wk
    BY <2>4, <2>5, <2>6, Zenon
  <2>3. Cardinality(P \cup Wk) = Len(s) + k
    BY <1>1, <2>7, Zenon
  <2> QED
    BY <1>3, <2>1, <2>2, <2>3
<1>7. \A x \in P \cup W : v[Cardinality({q \in P \cup W : q <= x})] = t[x]
  BY <1>5, <1>6
<1> QED
  BY <1>4, <1>7, Zenon DEF Spells, W

\* A match is all newlines, or has none.
LEMMA NewLinesOnly ==
    ASSUME NEW rule, NEW n, LongestMatch(rule, n)
    PROVE  /\ rule.name = "NL" => \A k \in (pos + 1) .. (pos + n) : text[k] = NewLine
           /\ rule.name # "NL" => \A k \in (pos + 1) .. (pos + n) : text[k] # NewLine
<1>1. rule \in Rules /\ MatchesIn(rule, text, pos, pos + n)
  BY Zenon DEF LongestMatch
<1>2. \A k \in (pos + 1) .. (pos + n) : text[k] \in rule.chars
  BY <1>1, Zenon DEF MatchesIn
<1>3. CASE rule.name = "NL"
  BY <1>1, <1>2, <1>3, NlMatchesNewLines, Zenon
<1>4. CASE rule.name = "COMMENT"
  BY <1>1, <1>4, Zenon DEF MatchesIn, CommentIn
<1>5. CASE rule.name # "NL" /\ rule.name # "COMMENT"
  BY <1>1, <1>2, <1>5, RulesAreKnown, Zenon DEF Known
<1>6. rule.name = "COMMENT" => rule.name # "NL"
  OBVIOUS
<1> QED
  BY <1>3, <1>4, <1>5, <1>6, Zenon

\* A newline is no part of what the rules leave out.
LEMMA NewLinesMatch ==
    ASSUME NEW t, NEW i \in Nat, NEW j \in Nat, i < j, \A k \in (i + 1) .. j : t[k] = NewLine
    PROVE  MatchesIn(RuleNl, t, i, j)
<1>1. RuleNl.name = "NL" /\ RuleNl.chars = {NewLine}
  BY RuleNlIsKnown
<1>2. "NL" # "INTEGER" /\ "NL" # "COMMENT"
  OBVIOUS
<1> QED
  BY <1>1, <1>2, Zenon DEF MatchesIn

LEMMA RuleNlIsARule == RuleNl \in Rules
  BY Zenon DEF Rules

-----------------------------------------------------------------------------
AllCoded(out) == EncodedBy(out, Items(out))
OpenLine(out) == EncodedBy(out, LineOf(out, Len(out) + 1))

\* The line that is open begins behind s.
OpensBehind(s, coded, open, p) ==
    /\ s > 0 => text[s] = NewLine /\ (s < Len(text) => text[s + 1] # NewLine)
    /\ \A c \in (s + 1) .. p : text[c] # NewLine
    /\ open = coded \cap ((s + 1) .. p)

\* No part of a line has been encoded that does not fit.
LinesFit(coded, p) ==
    \A i \in Nat \ {0}, j \in Nat :
        j <= p /\ OneLine(text, i .. j) => Cardinality(coded \cap (i .. j)) < BufferSize

EchoedLines(out) ==
    \A k \in Lines(out) :
        /\ Spells(text, out[k].echo, EncodedBy(out, LineOf(out, k)))
        /\ EndsInNewLines(out[k].echo)

LineInv ==
    /\ EchoedLines(printed)
    /\ Spells(text, line_buffer, OpenLine(printed))
    /\ \A c \in DOMAIN line_buffer : line_buffer[c] # NewLine
    /\ \E s \in 0 .. pos : OpensBehind(s, AllCoded(printed), OpenLine(printed), pos)
    /\ LinesFit(AllCoded(printed), pos)
    /\ scanner = "undefined" => LongLines(text, Char) # {}
    /\ scanner = "done" => pos = Len(text)

LEMMA CodedIsBehind ==
    ASSUME BuilderTypes, TileInv
    PROVE  AllCoded(printed) \in SUBSET (1 .. pos) /\ OpenLine(printed) \in SUBSET (1 .. pos)
<1>1. \A k \in Items(printed) : printed[k] \in Encodings /\ End(printed[k]) <= pos
  BY PrintedHas, Zenon DEF BuilderTypes, TileInv, Tiles
<1>2. ASSUME NEW k \in Items(printed) PROVE (printed[k].from + 1) .. End(printed[k]) \subseteq 1 .. pos
  <2>1. printed[k].from \in Nat /\ End(printed[k]) \in Nat /\ End(printed[k]) <= pos /\ pos \in Nat
    BY <1>1, EndsAreNaturals DEF BuilderTypes
  <2> DEFINE f == printed[k].from
             e == End(printed[k])
  <2>2. f \in Nat /\ e \in Nat /\ e <= pos /\ pos \in Nat
    BY <2>1
  <2> HIDE DEF f, e
  <2>3. (f + 1) .. e \subseteq 1 .. pos
    BY <2>2
  <2> QED
    BY <2>3 DEF f, e
<1>3. LineOf(printed, Len(printed) + 1) \subseteq Items(printed)
  BY Zenon DEF LineOf
<1> QED
  BY <1>2, <1>3, Zenon DEF AllCoded, OpenLine, EncodedBy

\* What is encoded next still fits with what its line has.
LEMMA LinesStillFit ==
    ASSUME BuilderTypes, NEW n \in Nat, pos + n <= Len(text), NEW s \in 0 .. pos,
           NEW coded \in SUBSET (1 .. pos), NEW open, OpensBehind(s, coded, open, pos),
           LinesFit(coded, pos), n > 0, Cardinality(open) + n < BufferSize
    PROVE  LinesFit(coded \cup ((pos + 1) .. (pos + n)), pos + n)
<1> DEFINE W == (pos + 1) .. (pos + n)
<1>1. pos \in Nat /\ Len(text) \in Nat /\ BufferSize \in Nat
  BY ClassAssumption DEF BuilderTypes
<1>2. ASSUME NEW i \in Nat \ {0}, NEW j \in Nat, j <= pos + n, OneLine(text, i .. j)
      PROVE  Cardinality((coded \cup W) \cap (i .. j)) < BufferSize
  <2>1. CASE j <= pos
    <3>1. (coded \cup W) \cap (i .. j) = coded \cap (i .. j)
      BY <1>1, <2>1
    <3> QED
      BY <1>2, <2>1, <3>1, Zenon DEF LinesFit
  <2>2. CASE ~(j <= pos)
    <3>1. s < i
      <4> SUFFICES ASSUME i <= s PROVE FALSE
        OBVIOUS
      <4>1. s > 0 /\ s < Len(text) /\ s \in i .. j /\ s + 1 \in i .. j /\ s < s + 1
        BY <1>1, <1>2, <2>2
      <4>2. text[s] = NewLine /\ text[s + 1] # NewLine
        BY <4>1, Zenon DEF OpensBehind
      <4> QED
        BY <1>2, <4>1, <4>2, Zenon DEF OneLine
    <3>2. open = coded \cap ((s + 1) .. pos)
      BY Zenon DEF OpensBehind
    <3>3. open \in SUBSET (1 .. pos)
      BY <3>2
    <3>4. (coded \cup W) \cap (i .. j) \subseteq open \cup W
      BY <1>1, <3>1, <3>2
    <3>5. Cardinality(open \cup W) = Cardinality(open) + n
      BY <1>1, <3>3, CountsAdd
    <3>6. open \cup W \in SUBSET (1 .. (pos + n)) /\ pos + n \in Nat
      BY <1>1, <3>3
    <3>7. IsFiniteSet(open \cup W)
      BY <3>6, FiniteUpTo
    <3> DEFINE X == (coded \cup W) \cap (i .. j)
    <3>8. X \in SUBSET (open \cup W)
      BY <3>4
    <3> HIDE DEF X, W
    <3>9. IsFiniteSet(X) /\ Cardinality(X) <= Cardinality(open \cup W)
      BY <3>7, <3>8, FS_Subset
    <3>10. Cardinality(X) \in Nat /\ Cardinality(open \cup W) \in Nat
      BY <3>7, <3>9, FS_CardinalityType
    <3> QED
      BY <1>1, <3>5, <3>9, <3>10 DEF X
  <2> QED
    BY <2>1, <2>2
<1> QED
  BY <1>2, Zenon DEF LinesFit

\* What does not fit is a line of the text that does not.
LEMMA OverflowIsLong ==
    ASSUME BuilderTypes, NEW rule, NEW n, LongestMatch(rule, n), NEW s \in 0 .. pos,
           NEW coded, NEW open, OpensBehind(s, coded, open, pos), open \in SUBSET (1 .. pos),
           ~(Cardinality(open) + n < BufferSize)
    PROVE  LongLines(text, Char) # {}
<1>1. /\ n \in Nat \ {0} /\ pos \in Nat /\ Len(text) \in Nat /\ pos + n \in (pos + 1) .. Len(text)
      /\ BufferSize \in Nat
  BY MatchInside, ClassAssumption
<1> DEFINE p == s + 1
           q == pos + n
<1>2. p \in 1 .. Len(text) /\ q \in p .. Len(text)
  BY <1>1
<1>3. \A c \in 1 .. Len(text) : text[c] \in Char
  BY DEF BuilderTypes
<1>4. {k \in p .. q : text[k] \in Char} = p .. q
  BY <1>2, <1>3
<1>5. Cardinality(p .. q) = (q - p) + 1 /\ (q - p) + 1 = (pos - s) + n
  BY <1>1, <1>2, FS_Interval
<1>6. Cardinality(open) \in Nat /\ Cardinality(open) <= pos - s
  <2>1. open \in SUBSET ((s + 1) .. pos)
    BY Zenon DEF OpensBehind
  <2>2. IsFiniteSet((s + 1) .. pos) /\ Cardinality((s + 1) .. pos) = pos - s
    <3>1. s + 1 \in Int /\ pos \in Int
      BY <1>1
    <3>2. /\ IsFiniteSet((s + 1) .. pos)
          /\ Cardinality((s + 1) .. pos) = IF s + 1 > pos THEN 0 ELSE (pos - (s + 1)) + 1
      BY <3>1, FS_Interval
    <3>3. (IF s + 1 > pos THEN 0 ELSE (pos - (s + 1)) + 1) = pos - s
      BY <1>1
    <3> QED
      BY <3>2, <3>3
  <2>3. IsFiniteSet(open) /\ Cardinality(open) <= Cardinality((s + 1) .. pos)
    BY <2>1, <2>2, FS_Subset
  <2> QED
    BY <2>2, <2>3, FS_CardinalityType
<1>7. Cardinality(p .. q) >= BufferSize
  BY <1>1, <1>5, <1>6
<1>8. ASSUME NEW k \in p .. q, NEW m \in p .. q, k < m, text[k] = NewLine PROVE text[m] = NewLine
  <2>1. k \notin (s + 1) .. pos
    BY <1>8, Zenon DEF OpensBehind
  <2>2. k \in (pos + 1) .. (pos + n) /\ m \in (pos + 1) .. (pos + n)
    BY <1>1, <1>8, <2>1
  <2> QED
    BY <1>8, <2>2, NewLinesOnly, Zenon
<1>9. OneLine(text, p .. q)
  BY <1>8, Zenon DEF OneLine
<1>10. DOMAIN text = 1 .. Len(text)
  BY DEF BuilderTypes
<1> HIDE DEF p, q
<1>11. p \in LongLines(text, Char)
  BY <1>2, <1>4, <1>7, <1>9, <1>10, Zenon DEF LongLines
<1> QED
  BY <1>11

\* The items, the lines and the open line after a match.
LEMMA AfterItem ==
    ASSUME BuilderTypes, TileInv, NEW rule, NEW n, NEW x, LongestMatch(rule, n), IsEncoding(x, rule, n)
    PROVE  LET out == Append(printed, x)
               W == (pos + 1) .. (pos + n)
           IN  /\ out \in Seq(Printed) /\ Len(out) = Len(printed) + 1
               /\ AllCoded(out) = AllCoded(printed) \cup W
               /\ OpenLine(out) = OpenLine(printed) \cup W
               /\ EchoedLines(printed) => EchoedLines(out)
               /\ LineOf(out, Len(out) + 1) \in SUBSET (1 .. Len(out))
<1> DEFINE out == Append(printed, x)
           l == Len(printed)
           W == (pos + 1) .. (pos + n)
<1>1. x \in Encodings /\ x \in Printed /\ x.from = pos /\ End(x) = pos + n
  BY MatchIsWhole, Zenon DEF Printed
<1>2. printed \in Seq(Printed)
  BY DEF BuilderTypes
<1>3. /\ out \in Seq(Printed) /\ Len(out) = l + 1
      /\ \A k \in 1 .. l : out[k] = printed[k]
  BY <1>1, <1>2, Appended
<1>4. /\ Items(printed) \in SUBSET (1 .. l) /\ Lines(printed) \in SUBSET (1 .. l) /\ l \in Nat
  BY <1>2, PrintedHas, Zenon
<1>5. /\ Items(out) = Items(printed) \cup {l + 1}
      /\ Lines(out) = Lines(printed)
      /\ \A k \in 1 .. (l + 1) : LineOf(out, k) = LineOf(printed, k)
      /\ LineOf(out, l + 2) = LineOf(printed, l + 1) \cup {l + 1}
      /\ \A s \in SUBSET (1 .. l) : EncodedBy(out, s) = EncodedBy(printed, s)
      /\ \A s \in SUBSET (1 .. l) :
            EncodedBy(out, s \cup {l + 1}) = EncodedBy(printed, s) \cup ((x.from + 1) .. End(x))
  BY <1>1, <1>2, ItemAdded, Zenon
<1> HIDE DEF out, l
<1>6. \A s \in SUBSET (1 .. l) : EncodedBy(out, s \cup {l + 1}) = EncodedBy(printed, s) \cup W
  BY <1>1, <1>5, Zenon
<1>7. \A k : LineOf(printed, k) \in SUBSET (1 .. l)
  BY <1>4, Zenon DEF LineOf
<1>8. AllCoded(out) = AllCoded(printed) \cup W
  BY <1>4, <1>5, <1>6, Zenon DEF AllCoded
<1>9. Len(out) + 1 = l + 2
  BY <1>3, <1>4
<1>10. OpenLine(out) = OpenLine(printed) \cup W
  BY <1>5, <1>6, <1>7, <1>9, Zenon DEF OpenLine, l
<1>11. ASSUME EchoedLines(printed), NEW k \in Lines(out)
       PROVE  /\ Spells(text, out[k].echo, EncodedBy(out, LineOf(out, k)))
              /\ EndsInNewLines(out[k].echo)
  <2>1. k \in Lines(printed) /\ k \in 1 .. l /\ out[k] = printed[k]
    BY <1>3, <1>4, <1>5, <1>11, Zenon
  <2>2. k \in 1 .. (l + 1)
    BY <1>4, <2>1
  <2>3. LineOf(out, k) = LineOf(printed, k) /\ EncodedBy(out, LineOf(out, k)) = EncodedBy(printed, LineOf(printed, k))
    BY <1>5, <1>7, <2>2, Zenon
  <2> QED
    BY <1>11, <2>1, <2>3, Zenon DEF EchoedLines
<1>12. LineOf(out, Len(out) + 1) \in SUBSET (1 .. Len(out))
  <2>1. l + 1 \in 1 .. (l + 1) /\ 1 .. l \subseteq 1 .. (l + 1)
    BY <1>4
  <2>2. LineOf(out, l + 2) \in SUBSET (1 .. (l + 1))
    BY <1>5, <1>7, <2>1, Zenon
  <2> QED
    BY <1>3, <1>9, <2>2, Zenon
<1>13. EchoedLines(printed) => EchoedLines(out)
  BY <1>11, Zenon DEF EchoedLines
<1> QED
  BY <1>3, <1>8, <1>10, <1>12, <1>13, Zenon DEF out, l

\* The same after a line was echoed.
LEMMA AfterEcho ==
    ASSUME NEW out \in Seq(Printed), NEW e \in Echoes, EchoedLines(out),
           Spells(text, e.echo, OpenLine(out)), EndsInNewLines(e.echo),
           LineOf(out, Len(out) + 1) \in SUBSET (1 .. Len(out))
    PROVE  LET new == Append(out, e)
           IN  /\ AllCoded(new) = AllCoded(out)
               /\ OpenLine(new) = {}
               /\ EchoedLines(new)
<1> DEFINE new == Append(out, e)
           l == Len(out)
<1>1. e \in Printed
  BY DEF Printed
<1>2. /\ Len(new) = l + 1
      /\ \A k \in 1 .. l : new[k] = out[k]
      /\ new[l + 1] = e
  BY <1>1, Appended
<1>3. Items(out) \in SUBSET (1 .. l) /\ Lines(out) \in SUBSET (1 .. l) /\ l \in Nat
  BY PrintedHas, Zenon
<1>4. /\ Items(new) = Items(out)
      /\ Lines(new) = Lines(out) \cup {l + 1}
      /\ \A k \in 1 .. (l + 1) : LineOf(new, k) = LineOf(out, k)
      /\ LineOf(new, l + 2) = {}
      /\ \A s \in SUBSET (1 .. l) : EncodedBy(new, s) = EncodedBy(out, s)
  BY LineAdded, Zenon
<1>5. \A k : LineOf(out, k) \in SUBSET (1 .. l)
  BY <1>3, Zenon DEF LineOf
<1> HIDE DEF new, l
<1>6. AllCoded(new) = AllCoded(out)
  BY <1>3, <1>4, Zenon DEF AllCoded
<1>7. Len(new) + 1 = l + 2
  BY <1>2, <1>3
<1>8. OpenLine(new) = {}
  BY <1>4, <1>7, Zenon DEF OpenLine, EncodedBy
<1>9. ASSUME NEW k \in Lines(new)
      PROVE  /\ Spells(text, new[k].echo, EncodedBy(new, LineOf(new, k)))
             /\ EndsInNewLines(new[k].echo)
  <2>1. k \in 1 .. (l + 1)
    BY <1>3, <1>4, <1>9
  <2>2. EncodedBy(new, LineOf(new, k)) = EncodedBy(out, LineOf(out, k))
    BY <1>4, <1>5, <2>1, Zenon
  <2>3. CASE k \in Lines(out)
    <3>1. new[k] = out[k]
      BY <1>2, <1>3, <2>3, Zenon
    <3> QED
      BY <2>2, <2>3, <3>1, Zenon DEF EchoedLines
  <2>4. CASE k = l + 1
    BY <1>2, <2>2, <2>4, Zenon DEF OpenLine, l
  <2> QED
    BY <1>4, <2>3, <2>4, Zenon
<1>10. EchoedLines(new)
  BY <1>9, Zenon DEF EchoedLines
<1> QED
  BY <1>6, <1>8, <1>10, Zenon DEF new

\* Of the state but the text, the invariant only takes this.
LineHeld(out, kept, p) ==
    /\ EchoedLines(out)
    /\ Spells(text, kept, OpenLine(out))
    /\ \A c \in DOMAIN kept : kept[c] # NewLine
    /\ \E s \in 0 .. p : OpensBehind(s, AllCoded(out), OpenLine(out), p)
    /\ LinesFit(AllCoded(out), p)

LEMMA LineInvIs ==
    LineInv <=> /\ LineHeld(printed, line_buffer, pos)
                /\ scanner = "undefined" => LongLines(text, Char) # {}
                /\ scanner = "done" => pos = Len(text)
  BY Zenon DEF LineInv, LineHeld

LEMMA LineHeldStays ==
    ASSUME text' = text, NEW out, NEW kept, NEW p, LineHeld(out, kept, p),
           printed' = out, line_buffer' = kept, pos' = p,
           scanner' = "undefined" => LongLines(text, Char) # {},
           scanner' = "done" => p = Len(text)
    PROVE  LineInv'
<1>1. EchoedLines(printed)'
  BY Zenon DEF LineHeld, EchoedLines
<1>2. Spells(text, line_buffer, OpenLine(printed))'
  BY Zenon DEF LineHeld, OpenLine
<1>3. (\E s \in 0 .. pos : OpensBehind(s, AllCoded(printed), OpenLine(printed), pos))'
  BY Zenon DEF LineHeld, OpenLine, AllCoded, OpensBehind
<1>4. LinesFit(AllCoded(printed), pos)'
  BY Zenon DEF LineHeld, LinesFit, AllCoded
<1> QED
  BY <1>1, <1>2, <1>3, <1>4, Zenon DEF LineInv, LineHeld

\* A match appended to the buffer, before it is echoed.
LEMMA MatchHeld ==
    ASSUME BuilderTypes, TileInv, NEW rule, NEW n, NEW x, LongestMatch(rule, n), IsEncoding(x, rule, n),
           LineHeld(printed, line_buffer, pos), Len(line_buffer) + n < BufferSize
    PROVE  LET out == Append(printed, x)
               line == line_buffer \o Lexeme(n)
           IN  /\ EchoedLines(out)
               /\ Spells(text, line, OpenLine(out))
               /\ LinesFit(AllCoded(out), pos + n)
<1> DEFINE out == Append(printed, x)
           W == (pos + 1) .. (pos + n)
<1>1. /\ n \in Nat \ {0} /\ pos \in Nat /\ Len(text) \in Nat /\ pos + n \in (pos + 1) .. Len(text)
      /\ Lexeme(n) \in Seq(Char) /\ Len(Lexeme(n)) = n
      /\ \A k \in 1 .. n : Lexeme(n)[k] = text[pos + k]
  BY MatchInside, Zenon
<1>2. /\ AllCoded(out) = AllCoded(printed) \cup W
      /\ OpenLine(out) = OpenLine(printed) \cup W
      /\ EchoedLines(out)
  BY AfterItem, Zenon DEF LineHeld
<1>3. AllCoded(printed) \in SUBSET (1 .. pos) /\ OpenLine(printed) \in SUBSET (1 .. pos)
  BY CodedIsBehind
<1>4. line_buffer \in Seq(Char) /\ Spells(text, line_buffer, OpenLine(printed))
  BY Zenon DEF BuilderTypes, LineHeld
<1> HIDE DEF out
<1>5. Spells(text, line_buffer \o Lexeme(n), OpenLine(printed) \cup W)
  BY <1>1, <1>3, <1>4, SpellsMore, Zenon
<1>6. Len(line_buffer) = Cardinality(OpenLine(printed))
  BY <1>4, Zenon DEF Spells
<1>7. PICK s \in 0 .. pos : OpensBehind(s, AllCoded(printed), OpenLine(printed), pos)
  BY Zenon DEF LineHeld
<1>8. n > 0 /\ pos + n <= Len(text) /\ n \in Nat
  BY <1>1
<1>9. LinesFit(AllCoded(printed), pos) /\ Cardinality(OpenLine(printed)) + n < BufferSize
  BY <1>6, Zenon DEF LineHeld
<1>10. LinesFit(AllCoded(printed) \cup W, pos + n)
  BY <1>3, <1>7, <1>8, <1>9, LinesStillFit, Zenon
<1> QED
  BY <1>2, <1>5, <1>10, Zenon DEF out

LEMMA EncodesHolds ==
    ASSUME BuilderTypes, TileInv, LineHeld(printed, line_buffer, pos),
           NEW rule, NEW n, NEW x, Encodes(rule, n, x)
    PROVE  LineHeld(Append(printed, x), line_buffer \o Lexeme(n), pos + n)
<1> DEFINE out == Append(printed, x)
           line == line_buffer \o Lexeme(n)
           W == (pos + 1) .. (pos + n)
<1>1. LongestMatch(rule, n) /\ IsEncoding(x, rule, n) /\ rule.name # "NL" /\ Len(line_buffer) + n < BufferSize
  BY Zenon DEF Encodes
<1>2. EchoedLines(out) /\ Spells(text, line, OpenLine(out)) /\ LinesFit(AllCoded(out), pos + n)
  BY <1>1, MatchHeld, Zenon
<1>3. AllCoded(out) = AllCoded(printed) \cup W /\ OpenLine(out) = OpenLine(printed) \cup W
  BY <1>1, AfterItem, Zenon
<1>4. /\ n \in Nat \ {0} /\ pos \in Nat /\ Len(text) \in Nat /\ pos + n \in (pos + 1) .. Len(text)
      /\ Lexeme(n) \in Seq(Char) /\ Len(Lexeme(n)) = n
      /\ \A k \in 1 .. n : Lexeme(n)[k] = text[pos + k]
  BY <1>1, MatchInside, Zenon
<1>5. \A k \in W : text[k] # NewLine
  BY <1>1, NewLinesOnly, Zenon
<1>6. \A c \in DOMAIN line : line[c] # NewLine
  <2>1. line_buffer \in Seq(Char) /\ \A c \in 1 .. Len(line_buffer) : line_buffer[c] # NewLine
    BY DEF BuilderTypes, LineHeld
  <2>2. /\ line \in Seq(Char) /\ Len(line) = Len(line_buffer) + Len(Lexeme(n))
        /\ \A k \in 1 .. Len(line_buffer) : line[k] = line_buffer[k]
        /\ \A k \in 1 .. Len(Lexeme(n)) : line[Len(line_buffer) + k] = Lexeme(n)[k]
    <3>1. line_buffer \in Seq(Char) /\ Lexeme(n) \in Seq(Char)
      BY <1>4, <2>1, Zenon
    <3> QED
      BY <3>1, Joined
  <2> DEFINE a == Len(line_buffer)
  <2>3. a \in Nat /\ DOMAIN line = 1 .. (a + n)
    BY <1>4, <2>1, <2>2
  <2>4. \A k \in 1 .. n : line[a + k] = text[pos + k]
    BY <1>4, <2>2, Zenon
  <2>5. \A k \in 1 .. n : pos + k \in W
    BY <1>4
  <2> HIDE DEF a, line, W
  <2>6. ASSUME NEW c \in 1 .. (a + n) PROVE line[c] # NewLine
    <3>1. CASE c \in 1 .. a
      BY <2>1, <2>2, <3>1, Zenon DEF a
    <3>2. CASE c \notin 1 .. a
      <4> DEFINE k == c - a
      <4>1. k \in 1 .. n /\ a + k = c
        BY <1>4, <2>3, <3>2
      <4> HIDE DEF k
      <4> QED
        BY <1>5, <2>4, <2>5, <4>1, Zenon
    <3> QED
      BY <3>1, <3>2
  <2> QED
    BY <2>3, <2>6, Zenon
<1>7. PICK s \in 0 .. pos : OpensBehind(s, AllCoded(printed), OpenLine(printed), pos)
  BY Zenon DEF LineHeld
<1>8. AllCoded(printed) \in SUBSET (1 .. pos)
  BY CodedIsBehind
<1>9. OpensBehind(s, AllCoded(out), OpenLine(out), pos + n)
  <2>1. \A c \in (s + 1) .. (pos + n) : c \in (s + 1) .. pos \/ c \in W
    BY <1>4
  <2>2. \A c \in (s + 1) .. (pos + n) : text[c] # NewLine
    BY <1>5, <1>7, <2>1, Zenon DEF OpensBehind
  <2>3. OpenLine(printed) = AllCoded(printed) \cap ((s + 1) .. pos)
    BY <1>7, Zenon DEF OpensBehind
  <2>4. (AllCoded(printed) \cup W) \cap ((s + 1) .. (pos + n)) = (AllCoded(printed) \cap ((s + 1) .. pos)) \cup W
    BY <1>4, <1>8
  <2>5. OpenLine(out) = AllCoded(out) \cap ((s + 1) .. (pos + n))
    BY <1>3, <2>3, <2>4, Zenon
  <2> QED
    BY <1>7, <2>2, <2>5, Zenon DEF OpensBehind
<1>10. s \in 0 .. (pos + n)
  BY <1>4
<1> HIDE DEF out, line
<1> QED
  BY <1>2, <1>6, <1>9, <1>10, Zenon DEF LineHeld, out, line

\* Behind a match of newlines there is none.
LEMMA NewLinesEnd ==
    ASSUME BuilderTypes, NEW rule, NEW n, LongestMatch(rule, n), rule.name = "NL"
    PROVE  /\ text[pos + n] = NewLine
           /\ pos + n < Len(text) => text[(pos + n) + 1] # NewLine
<1>1. /\ n \in Nat \ {0} /\ pos \in Nat /\ Len(text) \in Nat /\ pos + n \in (pos + 1) .. Len(text)
  BY MatchInside
<1>2. \A k \in (pos + 1) .. (pos + n) : text[k] = NewLine
  BY NewLinesOnly, Zenon
<1>3. pos + n \in (pos + 1) .. (pos + n)
  BY <1>1
<1>4. ASSUME pos + n < Len(text), text[(pos + n) + 1] = NewLine PROVE FALSE
  <2> DEFINE m == n + 1
  <2>1. m \in (n + 1) .. (Len(text) - pos) /\ pos \in Nat /\ pos + m \in Nat /\ pos < pos + m
    BY <1>1, <1>4
  <2>2. \A k \in (pos + 1) .. (pos + m) : k \in (pos + 1) .. (pos + n) \/ k = (pos + n) + 1
    BY <1>1
  <2>3. \A k \in (pos + 1) .. (pos + m) : text[k] = NewLine
    BY <1>2, <1>4, <2>2, Zenon
  <2> HIDE DEF m
  <2>4. MatchesIn(RuleNl, text, pos, pos + m)
    BY <2>1, <2>3, NewLinesMatch
  <2> QED
    BY <2>1, <2>4, RuleNlIsARule, Zenon DEF LongestMatch
<1> QED
  BY <1>2, <1>3, <1>4, Zenon

LEMMA EndsLineHolds ==
    ASSUME BuilderTypes, TileInv, LineHeld(printed, line_buffer, pos),
           NEW rule, NEW n, NEW x, NEW e, EndsLine(rule, n, x, e)
    PROVE  LineHeld(Append(Append(printed, x), e), <<>>, pos + n)
<1> DEFINE out == Append(printed, x)
           new == Append(out, e)
           line == line_buffer \o Lexeme(n)
<1>1. /\ LongestMatch(rule, n) /\ IsEncoding(x, rule, n) /\ rule.name = "NL"
      /\ Len(line_buffer) + n < BufferSize
      /\ e \in Echoes /\ e.echo = line
  BY Zenon DEF EndsLine
<1>2. EchoedLines(out) /\ Spells(text, line, OpenLine(out)) /\ LinesFit(AllCoded(out), pos + n)
  BY <1>1, MatchHeld, Zenon
<1>3. out \in Seq(Printed) /\ LineOf(out, Len(out) + 1) \in SUBSET (1 .. Len(out))
  BY <1>1, AfterItem, Zenon
<1>4. /\ n \in Nat \ {0} /\ pos \in Nat /\ Len(text) \in Nat /\ pos + n \in (pos + 1) .. Len(text)
      /\ Lexeme(n) \in Seq(Char) /\ Len(Lexeme(n)) = n
      /\ \A k \in 1 .. n : Lexeme(n)[k] = text[pos + k]
  BY <1>1, MatchInside, Zenon
<1>5. EndsInNewLines(line)
  <2>1. line_buffer \in Seq(Char) /\ \A c \in 1 .. Len(line_buffer) : line_buffer[c] # NewLine
    BY DEF BuilderTypes, LineHeld
  <2>2. /\ line \in Seq(Char) /\ Len(line) = Len(line_buffer) + Len(Lexeme(n))
        /\ \A k \in 1 .. Len(line_buffer) : line[k] = line_buffer[k]
        /\ \A k \in 1 .. Len(Lexeme(n)) : line[Len(line_buffer) + k] = Lexeme(n)[k]
    <3>1. line_buffer \in Seq(Char) /\ Lexeme(n) \in Seq(Char)
      BY <1>4, <2>1, Zenon
    <3> QED
      BY <3>1, Joined
  <2> DEFINE a == Len(line_buffer)
             W == (pos + 1) .. (pos + n)
  <2>3. a \in Nat /\ DOMAIN line = 1 .. (a + n) /\ a + 1 \in 1 .. Len(line)
    BY <1>4, <2>1, <2>2
  <2>4. \A k \in 1 .. n : line[a + k] = text[pos + k]
    BY <1>4, <2>2, Zenon
  <2>5. \A k \in 1 .. n : pos + k \in W
    BY <1>4
  <2>6. \A k \in W : text[k] = NewLine
    BY <1>1, NewLinesOnly, Zenon
  <2> HIDE DEF a, line, W
  <2>7. ASSUME NEW c \in 1 .. (a + n) PROVE line[c] = NewLine <=> c >= a + 1
    <3>1. CASE c \in 1 .. a
      <4>1. line[c] # NewLine
        BY <2>1, <2>2, <3>1, Zenon DEF a
      <4>2. ~(c >= a + 1)
        BY <2>3, <3>1
      <4> QED
        BY <4>1, <4>2, Zenon
    <3>2. CASE c \notin 1 .. a
      <4> DEFINE k == c - a
      <4>1. k \in 1 .. n /\ a + k = c /\ c >= a + 1
        BY <1>4, <2>3, <3>2
      <4> HIDE DEF k
      <4>2. line[c] = NewLine
        BY <2>4, <2>5, <2>6, <4>1, Zenon
      <4> QED
        BY <4>1, <4>2, Zenon
    <3> QED
      BY <3>1, <3>2
  <2> QED
    BY <2>3, <2>7, Zenon DEF EndsInNewLines
<1> HIDE DEF out, line
<1>6. AllCoded(new) = AllCoded(out) /\ OpenLine(new) = {} /\ EchoedLines(new)
  BY <1>1, <1>2, <1>3, <1>5, AfterEcho, Zenon
<1> HIDE DEF new
<1>7. DOMAIN <<>> = {} /\ Len(<<>>) = 0
  OBVIOUS
<1>8. Spells(text, <<>>, OpenLine(new))
  BY <1>6, <1>7, FS_EmptySet, Zenon DEF Spells
<1>9. OpensBehind(pos + n, AllCoded(new), OpenLine(new), pos + n)
  <2>1. ((pos + n) + 1) .. (pos + n) = {}
    BY <1>4
  <2> QED
    BY <1>1, <1>6, <2>1, NewLinesEnd, Zenon DEF OpensBehind
<1>10. pos + n \in 0 .. (pos + n)
  BY <1>4
<1>11. LineHeld(new, <<>>, pos + n)
  BY <1>2, <1>6, <1>7, <1>8, <1>9, <1>10, Zenon DEF LineHeld
<1> QED
  BY <1>11 DEF new, out

LEMMA DropsOneHolds ==
    ASSUME BuilderTypes, TileInv, LineHeld(printed, line_buffer, pos), DropsOne
    PROVE  LineHeld(printed, line_buffer, pos + 1)
<1> DEFINE coded == AllCoded(printed)
           open == OpenLine(printed)
<1>1. pos \in Nat /\ Len(text) \in Nat /\ pos + 1 <= Len(text) /\ BufferSize \in Nat \ {0}
  BY ClassAssumption DEF BuilderTypes, DropsOne
<1>2. coded \in SUBSET (1 .. pos)
  BY CodedIsBehind
<1>3. text[pos + 1] # NewLine
  <2> SUFFICES ASSUME text[pos + 1] = NewLine PROVE FALSE
    OBVIOUS
  <2>1. pos \in Nat /\ pos + 1 \in Nat /\ pos < pos + 1
        /\ \A k \in (pos + 1) .. (pos + 1) : k = pos + 1
    BY <1>1
  <2>2. \A k \in (pos + 1) .. (pos + 1) : text[k] = NewLine
    BY <2>1
  <2>3. MatchesIn(RuleNl, text, pos, pos + 1)
    BY <2>1, <2>2, NewLinesMatch
  <2>4. pos + 1 \in (pos + 1) .. Len(text)
    BY <1>1
  <2> QED
    BY <2>3, <2>4, RuleNlIsARule, Zenon DEF DropsOne
<1>4. PICK s \in 0 .. pos : OpensBehind(s, coded, open, pos)
  BY Zenon DEF LineHeld
<1>5. OpensBehind(s, coded, open, pos + 1)
  <2>1. \A c \in (s + 1) .. (pos + 1) : c \in (s + 1) .. pos \/ c = pos + 1
    BY <1>1
  <2>2. \A c \in (s + 1) .. (pos + 1) : text[c] # NewLine
    BY <1>3, <1>4, <2>1, Zenon DEF OpensBehind
  <2>3. coded \cap ((s + 1) .. pos) = coded \cap ((s + 1) .. (pos + 1))
    BY <1>1, <1>2
  <2> QED
    BY <1>4, <2>2, <2>3, Zenon DEF OpensBehind
<1>6. s \in 0 .. (pos + 1)
  BY <1>1
<1>7. ASSUME NEW i \in Nat \ {0}, NEW j \in Nat, j <= pos + 1, OneLine(text, i .. j)
      PROVE  Cardinality(coded \cap (i .. j)) < BufferSize
  <2>1. CASE j <= pos
    BY <1>7, <2>1, Zenon DEF LineHeld, LinesFit
  <2>2. CASE j = pos + 1
    <3>1. coded \cap (i .. j) = coded \cap (i .. pos) /\ i .. pos \subseteq i .. j
      BY <1>1, <1>2, <2>2
    <3>2. OneLine(text, i .. pos)
      BY <1>7, <3>1, Zenon DEF OneLine
    <3>3. pos <= pos
      BY <1>1
    <3> QED
      BY <1>1, <3>1, <3>2, <3>3, Zenon DEF LineHeld, LinesFit
  <2> QED
    BY <1>1, <1>7, <2>1, <2>2
<1>8. LinesFit(coded, pos + 1)
  BY <1>7, Zenon DEF LinesFit
<1> QED
  BY <1>5, <1>6, <1>8, Zenon DEF LineHeld

LEMMA LineKept ==
    BuilderTypes /\ TileInv /\ LineInv /\ [BuilderNext]_builder => LineInv'
<1> SUFFICES ASSUME BuilderTypes, TileInv, LineInv, [BuilderNext]_builder PROVE LineInv'
  OBVIOUS
<1>0. /\ LineHeld(printed, line_buffer, pos)
      /\ scanner = "undefined" => LongLines(text, Char) # {}
      /\ scanner = "done" => pos = Len(text)
  BY LineInvIs, Zenon
<1>1. CASE UNCHANGED builder
  <2>1. /\ text' = text /\ printed' = printed /\ pos' = pos /\ line_buffer' = line_buffer
        /\ scanner' = scanner
    BY <1>1 DEF builder
  <2> QED
    BY <1>0, <2>1, LineHeldStays
<1>2. CASE BuilderNext
  <2>1. text' = text /\ scanner = "runs"
    BY <1>2, StepIs, Zenon
  <2>2. ASSUME NEW rule, NEW n, NEW x, Encodes(rule, n, x) PROVE LineInv'
    <3>1. LineHeld(Append(printed, x), line_buffer \o Lexeme(n), pos + n)
      BY <1>0, <2>2, EncodesHolds
    <3>2. scanner' # "undefined" /\ scanner' # "done"
      BY <2>1, <2>2 DEF Encodes
    <3> QED
      BY <2>1, <2>2, <3>1, <3>2, LineHeldStays, Zenon DEF Encodes
  <2>3. ASSUME NEW rule, NEW n, NEW x, NEW e, EndsLine(rule, n, x, e) PROVE LineInv'
    <3>1. LineHeld(Append(Append(printed, x), e), <<>>, pos + n)
      BY <1>0, <2>3, EndsLineHolds
    <3>2. scanner' # "undefined" /\ scanner' # "done"
      BY <2>1, <2>3 DEF EndsLine
    <3> QED
      BY <2>1, <2>3, <3>1, <3>2, LineHeldStays, Zenon DEF EndsLine
  <2>4. ASSUME NEW rule, NEW n, Overflows(rule, n) PROVE LineInv'
    <3>1. PICK s \in 0 .. pos : OpensBehind(s, AllCoded(printed), OpenLine(printed), pos)
      BY <1>0, Zenon DEF LineHeld
    <3>2. Len(line_buffer) = Cardinality(OpenLine(printed))
      BY <1>0, Zenon DEF LineHeld, Spells
    <3>3. LongLines(text, Char) # {}
      BY <2>4, <3>1, <3>2, CodedIsBehind, OverflowIsLong, Zenon DEF Overflows
    <3>4. scanner' # "done"
      BY <2>4 DEF Overflows
    <3> QED
      BY <1>0, <2>1, <2>4, <3>3, <3>4, LineHeldStays, Zenon DEF Overflows
  <2>5. CASE DropsOne
    <3>1. LineHeld(printed, line_buffer, pos + 1)
      BY <1>0, <2>5, DropsOneHolds
    <3>2. scanner' # "undefined" /\ scanner' # "done"
      BY <2>1, <2>5 DEF DropsOne
    <3> QED
      BY <2>1, <2>5, <3>1, <3>2, LineHeldStays, Zenon DEF DropsOne
  <2>6. CASE Stops
    <3>1. scanner' # "undefined"
      BY <2>6 DEF Stops
    <3> QED
      BY <1>0, <2>1, <2>6, <3>1, LineHeldStays, Zenon DEF Stops
  <2> QED
    BY <1>2, <2>2, <2>3, <2>4, <2>5, <2>6, StepIs, Zenon
<1> QED
  BY <1>1, <1>2

LEMMA LineAtStart == BuilderInit => LineInv
<1> SUFFICES ASSUME BuilderInit PROVE LineInv
  OBVIOUS
<1>1. printed = <<>> /\ pos = 0 /\ line_buffer = <<>> /\ scanner = "runs"
  BY DEF BuilderInit
<1>2. DOMAIN printed = {} /\ DOMAIN line_buffer = {} /\ Len(line_buffer) = 0
  BY <1>1
<1>3. Items(printed) = {} /\ Lines(printed) = {}
  BY <1>2, Zenon DEF Items, Lines
<1>4. AllCoded(printed) = {} /\ OpenLine(printed) = {}
  BY <1>3, Zenon DEF AllCoded, OpenLine, LineOf, EncodedBy
<1>5. Spells(text, line_buffer, OpenLine(printed))
  BY <1>2, <1>4, FS_EmptySet, Zenon DEF Spells
<1>6. 0 \in 0 .. pos /\ ~(0 > 0) /\ (0 + 1) .. pos = {}
  BY <1>1
<1>7. OpensBehind(0, AllCoded(printed), OpenLine(printed), pos)
  BY <1>4, <1>6, Zenon DEF OpensBehind
<1>8. 0 < BufferSize
  BY ClassAssumption
<1>9. \A i, j : AllCoded(printed) \cap (i .. j) = {}
  BY <1>4
<1>10. LinesFit(AllCoded(printed), pos)
  BY <1>8, <1>9, FS_EmptySet, Zenon DEF LinesFit
<1>11. EchoedLines(printed)
  BY <1>3, Zenon DEF EchoedLines
<1>12. scanner # "undefined" /\ scanner # "done"
  BY <1>1
<1> QED
  BY <1>2, <1>5, <1>6, <1>7, <1>10, <1>11, <1>12, Zenon DEF LineInv

LEMMA LineInvHolds == BuilderTypes /\ TileInv /\ LineInv => LineBufferHoldsTheLine
<1> SUFFICES ASSUME BuilderTypes, TileInv, LineInv PROVE LineBufferHoldsTheLine
  OBVIOUS
<1> DEFINE names == {r.name : r \in Rules} \ {"INTEGER", "COMMENT"}
           chars == CharsOf(names)
<1>1. ASSUME scanner = "done", NEW p \in LongLines(text, chars) PROVE FALSE
  <2>1. PICK q \in p .. Len(text) :
          /\ OneLine(text, p .. q)
          /\ Cardinality({k \in p .. q : text[k] \in chars}) >= BufferSize
    BY <1>1, Zenon DEF LongLines
  <2>2. pos = Len(text) /\ text \in Seq(Char)
    BY <1>1, Zenon DEF LineInv, BuilderTypes
  <2>3. p \in DOMAIN text
    BY <1>1, Zenon DEF LongLines
  <2>4. p \in Nat \ {0} /\ q \in Nat /\ q <= pos /\ pos \in Nat
    BY <2>1, <2>2, <2>3
  <2> DEFINE T == {k \in p .. q : text[k] \in chars}
             C == AllCoded(printed) \cap (p .. q)
  <2>5. ASSUME NEW k \in T, k \notin AllCoded(printed) PROVE FALSE
    <3>1. k \in (1 .. pos) \ AllCoded(printed) /\ text[k] \in chars
      BY <2>4, <2>5
    <3>2. PICK rule \in Rules : rule.name \in names /\ text[k] \in rule.chars
      BY <3>1, Zenon DEF CharsOf
    <3>0. k \in k .. Len(text)
      BY <2>2, <2>4, <3>1
    <3>3. ~MatchesIn(rule, text, k - 1, k)
      BY <3>0, <3>1, <3>2, Zenon DEF TileInv, Tiles, AllCoded
    <3>4. k - 1 < k /\ \A c \in ((k - 1) + 1) .. k : c = k
      BY <2>4, <3>1
    <3> QED
      BY <3>2, <3>3, <3>4, Zenon DEF MatchesIn
  <2>6. T \subseteq C
    BY <2>5
  <2> HIDE DEF chars
  <2>7. Cardinality(C) < BufferSize
    BY <2>1, <2>4, Zenon DEF LineInv, LinesFit
  <2>8. C \in SUBSET (1 .. pos)
    BY <2>4, CodedIsBehind
  <2> HIDE DEF C, T
  <2>9. IsFiniteSet(C) /\ Cardinality(C) \in Nat
    BY <2>4, <2>8, FiniteUpTo
  <2>10. IsFiniteSet(T) /\ Cardinality(T) <= Cardinality(C)
    BY <2>6, <2>9, FS_Subset
  <2>11. Cardinality(T) \in Nat /\ BufferSize \in Nat
    BY <2>10, FS_CardinalityType, ClassAssumption
  <2>12. Cardinality(T) >= BufferSize
    BY <2>1 DEF T
  <2> QED
    BY <2>7, <2>9, <2>10, <2>11, <2>12
<1>2. scanner = "done" => LongLines(text, chars) = {}
  BY <1>1, Zenon
<1> QED
  BY <1>2, Zenon DEF LineInv, LineBufferHoldsTheLine, EchoedLines, OpenLine

\* line_buffer and the echoed lines are the lines of the text (scanner.l:356-375),
\* and strcat runs over the buffer only where one does not fit: for texts of any
\* length and a buffer of any size.
THEOREM LinesAreEchoedOnce == BuilderSpec => []LineBufferHoldsTheLine
<1>1. BuilderInit => BuilderTypes /\ TileInv /\ LineInv
  BY TypesAtStart, TilesAtStart, LineAtStart
<1>2. BuilderTypes /\ TileInv /\ LineInv /\ [BuilderNext]_builder => (BuilderTypes /\ TileInv /\ LineInv)'
  BY TypesKept, TilesKept, LineKept
<1> QED
  BY <1>1, <1>2, LineInvHolds, PTL DEF BuilderSpec

=============================================================================
