------------------------------ MODULE TaskGraph ------------------------------
(***************************************************************************)
(* What runUltrawork (execution/ultrawork.ts) promises those who give it   *)
(* tasks, whatever the waves in which it runs them: a task is started once *)
(* and after all that it depends on, nothing is started after a failure,   *)
(* nothing runs any more when the answer comes, and the answer is true.    *)
(***************************************************************************)
CONSTANT Ids

VARIABLES
    valid,      \* the list passes validateTasks
    tasks,      \* the ids on the list
    dependsOn,  \* for each of them the ids it names
    status,     \* how far each task is
    answer      \* what the caller has been told

vars == <<valid, tasks, dependsOn, status, answer>>

Init == /\ valid \in BOOLEAN
        /\ tasks \in SUBSET Ids
        /\ dependsOn \in [Ids -> SUBSET Ids]
        /\ status = [t \in Ids |-> "waiting"]
        /\ answer = "none"

-----------------------------------------------------------------------------
Failure == \E t \in tasks : status[t] = "failed"
Quiet == \A t \in tasks : status[t] # "running"

Start(S) == /\ valid /\ ~Failure /\ answer = "none"
            /\ \A t \in S : /\ status[t] = "waiting"
                            /\ \A d \in dependsOn[t] : status[d] = "done"
            /\ status' = [t \in Ids |-> IF t \in S THEN "running" ELSE status[t]]
            /\ UNCHANGED <<valid, tasks, dependsOn, answer>>

End(t, how) == /\ status[t] = "running"
               /\ status' = [status EXCEPT ![t] = how]
               /\ UNCHANGED <<valid, tasks, dependsOn, answer>>

(* Tasks that wait for one another: none of them can ever be started.      *)
Deadlocked == \E S \in SUBSET tasks :
                  /\ S # {}
                  /\ \A t \in S : status[t] = "waiting" /\ dependsOn[t] \cap S # {}

Answer(how) == /\ answer = "none" /\ Quiet
               /\ \/ how = "completed" /\ valid /\ \A t \in tasks : status[t] = "done"
                  \/ how = "failed" /\ (~valid \/ Failure \/ Deadlocked)
               /\ answer' = how
               /\ UNCHANGED <<valid, tasks, dependsOn, status>>

Next == \/ \E S \in SUBSET tasks : Start(S)
        \/ \E t \in tasks, how \in {"done", "failed"} : End(t, how)
        \/ \E how \in {"completed", "failed"} : Answer(how)

Spec == Init /\ [][Next]_vars
=============================================================================
