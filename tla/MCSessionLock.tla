--------------------------- MODULE MCSessionLock ---------------------------
(* Instances of SessionLock for TLC: the callers are model values that are *)
(* alike, so the safety runs identify states up to renaming them.          *)
EXTENDS SessionLock, TLC

CONSTANTS c1, c2, c3

ThreeCallers == {c1, c2, c3}
OneCaller == {c1}
OtherCallers == {c2, c3}
Nobody == {}

AlikeCallers == Permutations(Callers)
=============================================================================
