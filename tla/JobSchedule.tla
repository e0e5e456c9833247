------------------------------ MODULE JobSchedule ------------------------------
(***************************************************************************)
(* What the execution of a job list promises, without threads, queues of   *)
(* executives, or a main loop: every job is settled once, either by being  *)
(* run or by being skipped; jobs of one queue are settled one after the    *)
(* other in list order; and no job is run or skipped before the jobs it    *)
(* needs before fetching are settled.                                      *)
(***************************************************************************)
EXTENDS Naturals

CONSTANTS
    Jobs,          \* the positions of the job list
    QueueOfJob,    \* the queue of every job
    FetchingNeeds  \* the jobs that must be settled before a job may begin

VARIABLE status

Init == status \in [Jobs -> {"waiting", "settled"}]

MayBegin(j) ==
    /\ status[j] = "waiting"
    /\ \A k \in Jobs :
          (k < j /\ QueueOfJob[k] = QueueOfJob[j]) \/ k \in FetchingNeeds[j]
              => status[k] = "settled"

Begin(j) ==
    /\ MayBegin(j)
    /\ status' = [status EXCEPT ![j] = "running"]

Skip(j) ==
    /\ MayBegin(j)
    /\ status' = [status EXCEPT ![j] = "settled"]

Finish(j) ==
    /\ status[j] = "running"
    /\ status' = [status EXCEPT ![j] = "settled"]

Next == \E j \in Jobs : Begin(j) \/ Skip(j) \/ Finish(j)

Spec == Init /\ [][Next]_status
================================================================================
