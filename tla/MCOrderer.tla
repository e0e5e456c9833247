------------------------------ MODULE MCOrderer ------------------------------
(* Three packages and every way in which they may need each other, with few *)
(* enough links; the decisions for the third vary.                          *)
EXTENDS Orderer

CONSTANT MaxLinks

MCResolvents == 1..3

Dependency(f, build, run, fetch, met) ==
    [kind |-> "dependency", from |-> f, build |-> build, run |-> run, fetch |-> fetch,
     met |-> met, normal |-> TRUE, leavesSlot |-> FALSE]

Link(f, how) ==
    CASE how = "build" -> Dependency(f, TRUE, FALSE, FALSE, FALSE)
      [] how = "run" -> Dependency(f, FALSE, TRUE, FALSE, FALSE)
      [] how = "fetch" -> Dependency(f, TRUE, FALSE, TRUE, FALSE)
      [] how = "met" -> Dependency(f, TRUE, TRUE, FALSE, TRUE)
      [] how = "leaves" -> [Dependency(f, TRUE, FALSE, FALSE, TRUE) EXCEPT !.leavesSlot = TRUE]
      [] how = "block" -> [Dependency(f, TRUE, TRUE, FALSE, FALSE) EXCEPT !.normal = FALSE]
      [] how = "fetch block" -> [Dependency(f, TRUE, FALSE, TRUE, FALSE) EXCEPT !.normal = FALSE]
      [] how = "dependent" -> [Dependency(f, FALSE, FALSE, FALSE, FALSE) EXCEPT !.kind = "dependent"]
      [] how = "was_used_by" -> [Dependency(f, FALSE, FALSE, FALSE, FALSE) EXCEPT !.kind = "was_used_by"]

(* Every way to link at most n pairs of packages (and the first to itself). *)
Pairs == {p \in MCResolvents \X MCResolvents : p[1] # p[2] \/ p[1] = 1}
LinkSets(hows, n) ==
    UNION {[ps -> hows] : ps \in {ps \in SUBSET Pairs : Cardinality(ps) <= n}}

Input(decisions, links, early, binary) ==
    [decision |-> decisions, early |-> early, binary |-> binary,
     reasons |-> [r \in MCResolvents |->
                     {Link(p[1], links[p]) : p \in {p \in DOMAIN links : p[2] = r}}]]

NotEarly == [r \in MCResolvents |-> "maybe"]
LastFirst == <<"maybe", "no", "yes">>
AllChange == [r \in MCResolvents |-> "change"]

(* Three changes.  The longest knots are of what must be built, what must   *)
(* be there to run and what is met already.                                 *)
Changes ==
    {Input(AllChange, links, NotEarly, {}) :
        links \in LinkSets({"build", "run", "fetch", "met"}, MaxLinks - 1)
                    \cup {links \in LinkSets({"build", "run", "met"}, MaxLinks) : <<1, 1>> \notin DOMAIN links}}

(* The third package stays, goes, is not taken or cannot be decided upon.   *)
Mixed ==
    {Input(<<"change", "change", d>>, links, LastFirst, {}) :
        d \in {"nochange", "remove", "untaken", "unable", "break"},
        links \in LinkSets({"build", "leaves", "dependent", "block", "was_used_by"}, MaxLinks - 2)}

(* The second is the binary of the first.                                   *)
Binaries ==
    {Input(<<"change", "change", d>>, links, NotEarly, {<<1, 2>>}) :
        d \in {"change", "nochange"}, links \in LinkSets({"build", "run", "fetch", "met"}, MaxLinks - 2)}

(* What is needed for a fetch is blocked by one.                            *)
Blocked ==
    {Input(<<"change", d, "change">>, links, NotEarly, {}) :
        d \in {"change", "nochange"}, links \in LinkSets({"fetch", "fetch block", "run"}, MaxLinks - 1)}

MCInputs == {x \in Changes \cup Mixed \cup Binaries \cup Blocked : Decided(x)}
==============================================================================
