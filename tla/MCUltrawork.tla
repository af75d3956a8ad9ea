----------------------------- MODULE MCUltrawork -----------------------------
(* An instance of Ultrawork for TLC.                                       *)
EXTENDS Ultrawork, TLC

FourIds == 1 .. 4

(* Every graph over three tasks, cycles and self references included, and  *)
(* dependencies on an id that is not on the list.                          *)
Small == {[t \in FourIds |-> IF t = 4 THEN {} ELSE deps[t]] :
              deps \in [1 .. 3 -> SUBSET (1 .. 3)]}

(* Four tasks: a diamond, a chain beside a lone task, two pairs that cross,*)
(* a cycle behind a task that can run.                                     *)
Shapes == {<<{}, {1}, {1}, {2, 3}>>, <<{}, {1}, {2}, {}>>, <<{}, {}, {1, 2}, {1, 2}>>,
           <<{}, {1, 3}, {2}, {3}>>}

Mixes == {<<"unset", "unset", "unset", "unset">>, <<"unset", "yes", "no", "yes">>,
          <<"no", "no", "yes", "no">>}

(* Three tasks; one of them twice; one left out; none.                     *)
Given == [list : {<<2, 1, 3>>, <<1, 2, 1>>, <<1, 3>>, <<>>}, dependsOn : Small,
          background : Mixes]
         \cup [list : {<<4, 3, 2, 1>>}, dependsOn : Shapes, background : Mixes]
=============================================================================
