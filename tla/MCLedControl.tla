---------------------------- MODULE MCLedControl -----------------------------
(* Instances of LedControl for TLC: few modes, small strides and a narrow  *)
(* counter, with every relation between them as in the code.               *)
EXTENDS LedControl

MCKeyStart  == [m \in KeyModes |-> 3]
MCHeadStart == [m \in HeadModes |-> 3]
=============================================================================
