---------------------------- MODULE MCSleepQueue ----------------------------
(***************************************************************************)
(* Instances of SleepQueue for TLC.  The state space is finite without a   *)
(* constraint: a worker has at most one task in queue_tasks and Main at    *)
(* most one NEXT_RESPONSE.                                                 *)
(***************************************************************************)
EXTENDS SleepQueue
=============================================================================
