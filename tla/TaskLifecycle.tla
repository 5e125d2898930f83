--------------------------- MODULE TaskLifecycle ---------------------------
(***************************************************************************)
(* What the scheduler promises about its tasks, whatever queue or slot     *)
(* they are on: a task is posted once, runs at most once and without       *)
(* interruption, and never comes back once it is gone; a task with         *)
(* children only starts together with all of them.                         *)
(***************************************************************************)
CONSTANTS
    TaskIds,     \* the tasks that can be posted
    ParentOf     \* the parent of each task, itself if it has none

VARIABLE status

\* Posted; started on a slot; completed, failed or cancelled.
Moves == {<<"new", "pending">>, <<"pending", "running">>,
          <<"pending", "gone">>, <<"running", "gone">>}

Init == status = [id \in TaskIds |-> "new"]

\* One step of the server may move several tasks: a request posts all its
\* tasks, a parent starts with its children, a failing launch ends a family.
Next ==
    \A id \in TaskIds :
       LET old == status[id]
           new == status'[id]
       IN /\ new = old \/ <<old, new>> \in Moves
          /\ old = "pending" /\ new = "running" =>
               \A kid \in TaskIds :
                  ParentOf[kid] = id /\ status[kid] # "new" => status'[kid] = "running"

Spec == Init /\ [][Next]_status
=============================================================================
