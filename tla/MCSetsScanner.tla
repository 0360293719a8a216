--------------------------- MODULE MCSetsScanner ---------------------------
(***************************************************************************)
(* Texts of up to three pieces: a set, the beginnings of one, and bytes    *)
(* that break it.  Reads return at most two bytes, so that every token     *)
(* longer than that goes through several buffers.                          *)
(***************************************************************************)
EXTENDS SetsScanner, FiniteSetsExt

MCPieces ==
  { <<108, 101, 116, 32, 83, 61, 91, 49, 44, 49, 93>>,  \* let S=[1,1]
    <<108, 101, 116, 32, 32, 83, 32, 61, 9, 91>>,       \* let  S =<tab>[
    <<108, 101, 116, 32, 83, 61, 91, 49, 44>>,          \* let S=[1,
    <<49, 44>>, <<49, 49, 93>>,                         \* 1,  11]
    <<0>>, <<10>> }

MCTexts == UNION {{FlattenSeq(p) : p \in [1..n -> MCPieces]} : n \in 0..3}

-----------------------------------------------------------------------------
(* Every text is scanned to its end, or the program gives up; no text      *)
(* makes the scanner read or match the same thing for ever.                *)
EveryTextEnds == <>[](pc \in {"done", "exit"})
=============================================================================
