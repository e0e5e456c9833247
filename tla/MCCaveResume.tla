----------------------------- MODULE MCCaveResume -----------------------------
(* A package and an uninstall that comes after it, run up to three times:   *)
(*   1 fetch a,  2 install a,  3 uninstall b                                *)
EXTENDS CaveResume

ThreeKinds == <<"fetch", "install", "uninstall">>
ThreeRequirements ==
    << {},
       {[job |-> 1, required_if |-> RequiredIf]},
       {[job |-> 2, required_if |-> {"satisfied", "independent"}]} >>

MCUsedOptions == [fetch : {FALSE}, requireIf : {"satisfied", "always"}]
                 \cup [fetch : {TRUE}, requireIf : {"never"}]
===============================================================================
