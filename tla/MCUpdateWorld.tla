---------------------------- MODULE MCUpdateWorld ----------------------------
(* Two packages, a set and a special set.  The targets are up to four       *)
(* specs, among them one that names a version of a package.                 *)
EXTENDS UpdateWorld

CONSTANTS p, q, s, special

MCPackages == {p, q}
MCSetNames == {s, special}
MCSpecialSets == {special}

Target(n) == [name |-> n, blocks |-> FALSE, plain |-> TRUE]
Blocked(n) == [name |-> n, blocks |-> TRUE, plain |-> TRUE]
Version(n, blocks) == [name |-> n, blocks |-> blocks, plain |-> FALSE]

PackageRequests(dependents) ==
    [specs : SUBSET {Target(p), Blocked(p), Version(q, FALSE), Version(q, TRUE), Target(q)},
     dependents : SUBSET dependents, set : {FALSE}, preserveWorld : BOOLEAN]
SetRequests(dependents) ==
    [specs : SUBSET {Target(s), Target(special)},
     dependents : SUBSET dependents, set : {TRUE}, preserveWorld : BOOLEAN]

(* Every request, with the packages that are uninstalled as dependents.    *)
AnyRequests == PackageRequests({p, q}) \cup SetRequests({p})
==============================================================================
