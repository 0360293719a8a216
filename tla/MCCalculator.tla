---------------------------- MODULE MCCalculator ----------------------------
(* TLC instance of Calculator: every input of up to MaxTokens tokens, with   *)
(* stacks of two entries that grow twice, or cannot, and that deeply nested  *)
(* lines outgrow. Nothing but the constants, in MCCalculator.cfg, is bound.  *)
EXTENDS Calculator

=============================================================================
