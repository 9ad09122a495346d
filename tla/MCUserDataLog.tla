--------------------------- MODULE MCUserDataLog ---------------------------
(***************************************************************************)
(* The settings log with a sector of three slots, the last of them outside  *)
(* the scan as in the code, and records of two words.                      *)
(***************************************************************************)
EXTENDS UserDataLog

CONSTANTS v1, v2

MCValues == {v1, v2}
============================================================================
