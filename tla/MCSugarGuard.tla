--------------------------- MODULE MCSugarGuard ---------------------------
(* Model-checking instance of SugarGuard: two candy machines and two      *)
(* guards, so that a guard can wrap one machine while the cache names the *)
(* other.                                                                  *)
EXTENDS SugarGuard

CONSTANTS m1, m2, g1, g2

MCMachines == {m1, m2}
MCGuards == {g1, g2}
=============================================================================
