---------------------------- MODULE SessionMutex ----------------------------
(***************************************************************************)
(* What ARCHITECTURE.md 8.3 promises of the session lock, and nothing more *)
(* : at any time at most one caller is inside a session.  A caller that    *)
(* dies inside may be forgotten (the TTL recovery), which frees the        *)
(* session.                                                                *)
(***************************************************************************)
CONSTANT Callers

VARIABLE inside    \* the callers that believe the session is theirs

MutexInit == inside = {}

Enter(c) == /\ inside = {}
            /\ inside' = {c}

Leave(c) == /\ c \in inside
            /\ inside' = inside \ {c}

MutexNext == \E c \in Callers : Enter(c) \/ Leave(c)

MutexSpec == MutexInit /\ [][MutexNext]_inside
=============================================================================
