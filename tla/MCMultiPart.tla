----------------------------- MODULE MCMultiPart -----------------------------
(***************************************************************************)
(* Instance of MultiPart for TLC: every body up to a length.               *)
(***************************************************************************)
EXTENDS MultiPart

CONSTANT MaxLength \* bound for TLC: length of the bodies

MCBodies == SeqOf(Symbol, MaxLength)
==============================================================================
