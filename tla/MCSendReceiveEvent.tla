------------------------ MODULE MCSendReceiveEvent ------------------------
(* Model-checking instance of SendReceiveEvent: three requesters, so that *)
(* two can wait on one receive event while a third is still idle.         *)
EXTENDS SendReceiveEvent

CONSTANTS r1, r2, r3

MCRequesters == {r1, r2, r3}
=============================================================================
