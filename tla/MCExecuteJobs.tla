---------------------------- MODULE MCExecuteJobs ----------------------------
(* The job list of two packages, where the second needs the first to be    *)
(* fetched (as it would if it lived in a version control system) and to be *)
(* built, and of an uninstall that has to come after the first:            *)
(*   1 fetch a,  2 install a,  3 fetch b,  4 install b,  5 uninstall c     *)
EXTENDS ExecuteJobs

Needs(k, ifs) == [job |-> k, required_if |-> ifs]
ByDependency == {"satisfied", "independent"}

FiveKinds == <<"fetch", "install", "fetch", "install", "uninstall">>
FiveRequirements ==
    << {},
       {Needs(1, RequiredIf)},
       {Needs(2, ByDependency \cup {"fetching"})},
       {Needs(3, RequiredIf), Needs(2, ByDependency)},
       {Needs(2, ByDependency)} >>

(* The first four of them.                                                 *)
FourKinds == SubSeq(FiveKinds, 1, 4)
FourRequirements == SubSeq(FiveRequirements, 1, 4)

(* Every job starts from scratch.                                          *)
FreshInit == Init /\ state = [j \in Jobs |-> "pending"]
FreshSpec == FreshInit /\ [][Next]_vars
FreshFairSpec == FreshSpec /\ Fairness
=============================================================================
