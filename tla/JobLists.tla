------------------------------ MODULE JobLists ------------------------------
(***************************************************************************)
(* The job list that `cave resolve` makes and `cave perform resolution`    *)
(* executes: src/paludis/resolver/job_list.hh, job.hh and                  *)
(* job_requirements.hh.  Jobs are numbered in list order.                  *)
(***************************************************************************)
EXTENDS Naturals

Kinds == {"fetch", "install", "uninstall"}

(***************************************************************************)
(* JobRequirementIf.                                                       *)
(***************************************************************************)
RequiredIf == {"satisfied", "independent", "always", "fetching"}

(***************************************************************************)
(* What the orderer promises, and the executor relies on: a job requires   *)
(* only jobs before it, and a requirement between a fetch and a job of     *)
(* another kind carries the fetching flag.                                 *)
(***************************************************************************)
IsJobList(n, kind, requirements) ==
    /\ kind \in [1..n -> Kinds]
    /\ requirements \in [1..n -> SUBSET [job : 1..n, required_if : SUBSET RequiredIf]]
    /\ \A j \in 1..n : \A r \in requirements[j] :
          /\ r.job < j
          /\ kind[j] = "fetch" \/ kind[r.job] = "fetch" => "fetching" \in r.required_if
==============================================================================
