---------------------------- MODULE MCMmapDriver ----------------------------
(* TLC instance of MmapDriver: files of up to two pages of two bytes, and a  *)
(* missing file, in programs with and without yy_delete_buffer, while        *)
(* another process writes the file up to twice.                              *)
EXTENDS MmapDriver

Bytes(n) == UNION {[1 .. k -> Byte] : k \in 0 .. n}

MCFile == Bytes(4) \cup {Missing}

=============================================================================
