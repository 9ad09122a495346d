------------------------------ MODULE MCTapping ------------------------------
(* Three keys, of which two have two roles; the third is a letter or a     *)
(* modifier.                                                               *)
EXTENDS Tapping

CONSTANTS a, b, c

MCKeymaps == {[k \in {a, b, c} |-> IF k = c THEN kind ELSE "mod_tap"] : kind \in {"plain", "mod"}}

MCTappings == {{"permissive_hold", "ignore_mod_tap_interrupt"}, {"tapping_force_hold"}}

MCPermissive == {{"permissive_hold", "ignore_mod_tap_interrupt"}}
=============================================================================
