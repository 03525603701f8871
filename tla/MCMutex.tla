------------------------------ MODULE MCMutex -------------------------------
(* Instances of Mutex: the application's tasks have ids from 0 on.         *)
EXTENDS Mutex

CONSTANTS a, b, c

MCOneTask    == {a}
MCTwoTasks   == {a, b}
MCThreeTasks == {a, b, c}

MCOneId   == [t \in {a} |-> 3]
MCTwoIds  == [t \in {a, b} |-> IF t = a THEN 0 ELSE 1]
MCThreeIds == [t \in {a, b, c} |-> IF t = a THEN 0 ELSE IF t = b THEN 1 ELSE 2]

=============================================================================
