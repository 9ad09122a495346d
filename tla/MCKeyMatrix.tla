----------------------------- MODULE MCKeyMatrix -----------------------------
(* An instance of KeyMatrix for TLC: a rectangle of four keys, the least   *)
(* that has a phantom.                                                     *)
EXTENDS KeyMatrix

MCKeys == Rows \X Cols
=============================================================================
