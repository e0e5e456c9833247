------------------------------- MODULE Orderer -------------------------------
(***************************************************************************)
(* src/paludis/resolver/orderer.cc: from the decision for every resolvent  *)
(* and the reasons of its constraints to an execute job list.  The NAG is  *)
(* built from the reasons; its components are taken in order; a component  *)
(* of several changes is broken up, first by looking only at the changes,  *)
(* then by dropping the dependencies that are met already; what is still   *)
(* stuck is unorderable, and everything else becomes jobs.                 *)
(***************************************************************************)
EXTENDS NAG, JobLists, DecidedReasons

Decisions == {"change", "remove", "untaken", "nochange", "unable", "break"}

(***************************************************************************)
(* The reason of a constraint: a dependency, by its labels, whether it is  *)
(* already met, whether it is an ordinary one or a blocker that is to be   *)
(* resolved afterwards, and whether it is met only in a slot that the      *)
(* change leaves; what it is a dependent of; or what used it and goes.     *)
(***************************************************************************)
Reasons ==
    [kind : {"dependency", "dependent", "was_used_by"}, from : Resolvents,
     build : BOOLEAN, run : BOOLEAN, fetch : BOOLEAN,
     met : BOOLEAN, normal : BOOLEAN, leavesSlot : BOOLEAN]

(***************************************************************************)
(* What the decider leaves, as Decider shows, up to its first restart.  A  *)
(* binary is not made of a package that is only suggested.                 *)
(***************************************************************************)
Decided(x) ==
    /\ x.decision \in [Resolvents -> Decisions]
    /\ x.reasons \in [Resolvents -> SUBSET Reasons]
    /\ x.early \in [Resolvents -> {"yes", "maybe", "no"}]
    /\ x.binary \subseteq Resolvents \X Resolvents
    /\ \A r \in Resolvents : \A c \in x.reasons[r] : x.decision[c.from] \in DecisionsBehind(c.kind)
    /\ \A p \in x.binary : x.decision[p[2]] = "change" => x.decision[p[1]] # "untaken"

CONSTANT Inputs   \* the outcomes of the decider that are considered

ASSUME InputsAssumption == \A x \in Inputs : Decided(x)

VARIABLES
    resolved,     \* what the decider has left: decisions, reasons, order_early_fn and
                  \* the resolvents that create the binaries of others
    stage,        \* of Orderer::resolve()
    nag,
    todo,         \* components and nodes that are still to be gone through, in order
    jobs,         \* the execute job list
    unorderable   \* taken_unorderable_decisions, by NAG index

vars == <<resolved, stage, nag, todo, jobs, unorderable>>

decision == resolved.decision

NoEdges == [e \in {} |-> {}]

Init ==
    /\ resolved \in Inputs
    /\ stage = "nodes"
    /\ nag = [node |-> {}, edge |-> NoEdges]
    /\ todo = <<>>
    /\ jobs = <<>>
    /\ unorderable = <<>>

-----------------------------------------------------------------------------

IsChange(n) ==
    /\ n \in nag.node
    /\ decision[n.resolvent] \in (IF n.role = "fetched" THEN {"change"} ELSE {"change", "remove"})

OwnFetch(r) ==
    [from |-> Done(r), to |-> Fetched(r),
     with |-> [always |-> FALSE, build |-> TRUE, build_all_met |-> FALSE,
               run |-> FALSE, run_all_met |-> TRUE]]

(***************************************************************************)
(* DecisionDispatcher: the nodes, and the edge from a change to its fetch. *)
(***************************************************************************)
NodifyDecisions ==
    /\ stage = "nodes"
    /\ LET Deciding(ds) == {r \in Resolvents : decision[r] \in ds}
       IN  nag' = [node |-> {Done(r) : r \in Deciding({"change", "remove", "nochange"})}
                              \cup {Fetched(r) : r \in Deciding({"change"})},
                   edge |-> AddEdges({OwnFetch(r) : r \in Deciding({"change"})})]
    /\ stage' = "edges"
    /\ UNCHANGED <<resolved, todo, jobs, unorderable>>

(* _role_for_fetching()                                                    *)
FetchRole(r) == IF decision[r] \in {"change", "untaken"} THEN Fetched(r) ELSE Done(r)

(* A dependency of a package of which a binary is made is one of the       *)
(* binary.                                                                 *)
MaybeBinary(n) ==
    LET bins == {[n EXCEPT !.resolvent = p[2]] : p \in {p \in resolved.binary : p[1] = n.resolvent}}
    IN  IF bins \cap nag.node = {} THEN n ELSE CHOOSE b \in bins \cap nag.node : TRUE

Loose == [always |-> FALSE, build |-> FALSE, build_all_met |-> TRUE,
          run |-> FALSE, run_all_met |-> TRUE]

DependencyEdge(r, c) ==
    LET from == MaybeBinary(IF c.fetch THEN FetchRole(c.from) ELSE Done(c.from))
        selfViaBinary == <<r, from.resolvent>> \in resolved.binary
        buildMet == ~ c.build \/ (c.met /\ ~ (c.leavesSlot /\ decision[r] = "change"))
    IN  [from |-> from, to |-> Done(r),
         with |-> [always |-> FALSE, build |-> c.build, build_all_met |-> buildMet,
                   run |-> c.run, run_all_met |-> selfViaBinary \/ c.met \/ ~ c.run]]

(***************************************************************************)
(* EdgesFromReasonVisitor, for a resolvent r that has a node.  A post      *)
(* dependency has no edge.                                                 *)
(***************************************************************************)
EdgesFromReason(r, c) ==
    IF c.kind = "was_used_by" THEN {[from |-> Done(r), to |-> Done(c.from), with |-> Loose]}
    ELSE IF decision[c.from] = "unable" THEN {}
    ELSE IF c.kind = "dependent" THEN {[from |-> Done(c.from), to |-> Done(r), with |-> Loose]}
    ELSE IF ~ (c.build \/ c.run) THEN {}
    ELSE IF c.normal THEN {DependencyEdge(r, c)}
    ELSE LET from == IF c.fetch THEN FetchRole(c.from) ELSE Done(c.from)
         IN  {[from |-> Done(r), to |-> from, with |-> Loose]}

(* _add_binary_cleverness(): a package is fetched from its new binary.     *)
BinaryEdges(b) ==
    {[from |-> Fetched(p[1]), to |-> Done(b),
      with |-> [always |-> TRUE, build |-> TRUE, build_all_met |-> FALSE,
                run |-> FALSE, run_all_met |-> TRUE]] :
        p \in {p \in resolved.binary : p[2] = b /\ decision[p[1]] \in {"change", "untaken"}}}

BuildEdges ==
    /\ stage = "edges"
    /\ LET ordered == {r \in Resolvents : Done(r) \in nag.node}
           reasons(r) == UNION {EdgesFromReason(r, c) : c \in resolved.reasons[r]}
           binaries(r) == IF decision[r] = "change" THEN BinaryEdges(r) ELSE {}
           own == {[from |-> e[1], to |-> e[2], with |-> nag.edge[e]] : e \in DOMAIN nag.edge}
       IN  nag' = [nag EXCEPT !.edge = AddEdges(own \cup UNION {reasons(r) \cup binaries(r) : r \in ordered})]
    /\ stage' = IF VerifyEdges(nag') THEN "sorting" ELSE "internal error"
    /\ UNCHANGED <<resolved, todo, jobs, unorderable>>

-----------------------------------------------------------------------------

Components(sorted) == [i \in DOMAIN sorted.result |-> [is |-> "component", node |-> sorted.result[i]]]
Parts(sorted, within, again) ==
    [i \in DOMAIN sorted.result |->
        [is |-> "part", node |-> sorted.result[i], within |-> within, again |-> again]]
Alone(n) == [is |-> "alone", node |-> {n}]

SortNAG ==
    /\ stage = "sorting"
    /\ LET sorted == SortedSCCs(nag, resolved.early)
       IN  IF sorted.fails
           THEN stage' = "internal error" /\ UNCHANGED todo
           ELSE stage' = "ordering" /\ todo' = Components(sorted)
    /\ UNCHANGED <<resolved, nag, jobs, unorderable>>

Now(kind) == stage = "ordering" /\ todo # <<>> /\ Head(todo).is = kind

(* Puts the parts of a set of nodes before what is still to be done.       *)
BreakUp(g, again) ==
    LET sorted == SortedSCCs(g, resolved.early)
    IN  IF sorted.fails
        THEN stage' = "internal error" /\ UNCHANGED todo
        ELSE UNCHANGED stage /\ todo' = Parts(sorted, g.node, again) \o Tail(todo)

AnyEdge(p) == TRUE
Unmet(p) == ~ AllMet(p)

(***************************************************************************)
(* The loop of Orderer::resolve() over the components.                     *)
(***************************************************************************)
OrderComponent ==
    /\ Now("component")
    /\ LET changes == {n \in Head(todo).node : IsChange(n)}
       IN  IF Cardinality(changes) <= 1
           THEN todo' = [i \in 1..Cardinality(changes) |-> Alone(First(changes))] \o Tail(todo)
                   /\ UNCHANGED stage
           ELSE BreakUp(Subgraph(nag, changes, AnyEdge), FALSE)
    /\ UNCHANGED <<resolved, nag, jobs, unorderable>>

(* What of a need is left when what is met of it is dropped.               *)
WithoutMet(p) ==
    [p EXCEPT !.build = @ /\ ~ p.build_all_met, !.run = @ /\ ~ p.run_all_met]

(***************************************************************************)
(* The graph that a part was found in: the first time that of the changes  *)
(* of a component, the second time that of a part of it, without what is   *)
(* met already.                                                            *)
(***************************************************************************)
PartGraph(part) ==
    IF part.again
    THEN LET g == Subgraph(nag, part.within, Unmet)
         IN  [g EXCEPT !.edge = [e \in DOMAIN g.edge |-> WithoutMet(g.edge[e])]]
    ELSE Subgraph(nag, part.within, AnyEdge)

(* Mutant of NoBuildDependencies: some node has none.                      *)
SomeNoBuildDependencies(S, g) == \E n \in S : \A e \in EdgesFrom(g, n) : ~ g.edge[e].build

NoBuildDependencies(S, g) == \A n \in S : \A e \in EdgesFrom(g, n) : ~ g.edge[e].build

Orderable(part) == Cardinality(part.node) = 1 \/ NoBuildDependencies(part.node, PartGraph(part))

OrderPart ==
    /\ Now("part")
    /\ LET part == Head(todo)
           nodes == InOrder(part.node)
       IN  /\ Orderable(part)
           /\ todo' = [i \in DOMAIN nodes |-> Alone(nodes[i])] \o Tail(todo)
    /\ UNCHANGED <<resolved, stage, nag, jobs, unorderable>>

(* "Let's try this whole mess again, except without any edges for          *)
(* dependencies that're already met."                                      *)
TryAgain ==
    /\ Now("part")
    /\ LET part == Head(todo)
       IN  /\ ~ Orderable(part) /\ ~ part.again
           /\ BreakUp(Subgraph(nag, part.node, Unmet), TRUE)
    /\ UNCHANGED <<resolved, nag, jobs, unorderable>>

(* Mutant of Reported: a fetch is reported besides its change.             *)
ReportedAll(S) == S

(* A fetch is not reported if its change is.                               *)
Reported(S) == {n \in S : ~ (n.role = "fetched" /\ Done(n.resolvent) \in S)}

GiveUp ==
    /\ Now("part")
    /\ LET part == Head(todo)
       IN  /\ ~ Orderable(part) /\ part.again
           /\ unorderable' = unorderable \o InOrder(Reported(part.node))
    /\ todo' = Tail(todo)
    /\ UNCHANGED <<resolved, stage, nag, jobs>>

-----------------------------------------------------------------------------

JobNumbers(n) == {j \in DOMAIN jobs : jobs[j].index = n}
FetchJobNumbers(r) == JobNumbers(Fetched(r))

(* The numbers of the jobs of the done nodes of S                          *)
JobsOf(S) == {j \in DOMAIN jobs : jobs[j].index \in S /\ jobs[j].index.role = "done"}

(* Mutant of PopulateRequirements: only what is needed directly counts.    *)
DirectRequirements(n, flags, uninstall) ==
    LET Heads(S) == {e[2] : e \in S}
        direct == EdgesFrom(nag, n)
    IN  [job : JobsOf(Heads({e \in direct : ~ AllMet(nag.edge[e])})),
         required_if : {flags \cup {"satisfied", "independent"}}]

(***************************************************************************)
(* populate_requirements() and minimise_requirements()                     *)
(***************************************************************************)
PopulateRequirements(n, flags, uninstall) ==
    LET Heads(S) == {e[2] : e \in S}
        direct == EdgesFrom(nag, n)
        wanted == {e \in direct : ~ AllMet(nag.edge[e]) \/ uninstall}
        always == {e \in direct : nag.edge[e].always}
        reached == IF uninstall THEN {}
                   ELSE Heads({e \in Connected(nag.node, DOMAIN nag.edge) : e[1] = n})
    IN  [job : JobsOf(Heads(wanted)), required_if : {flags \cup {"satisfied", "independent"}}]
        \cup [job : JobsOf(Heads(always)), required_if : {flags \cup {"always"}}]
        \cup [job : JobsOf(reached), required_if : {flags \cup {"independent"}}]

AppendJob(n, kind, requirements) ==
    jobs' = Append(jobs, [index |-> n, kind |-> kind, requirements |-> requirements])

(* _check_self_deps_and_schedule()                                         *)
SelfDependent(n) ==
    /\ <<n, n>> \in DOMAIN nag.edge
    /\ ~ AllMet(nag.edge[<<n, n>>])
    /\ nag.edge[<<n, n>>].build

IsNext(n, d, role) ==
    Now("alone") /\ n \in Head(todo).node /\ decision[n.resolvent] = d /\ n.role = role

SelfDependency(n) ==
    /\ Now("alone") /\ n \in Head(todo).node
    /\ SelfDependent(n)
    /\ unorderable' = Append(unorderable, n)
    /\ todo' = Tail(todo)
    /\ UNCHANGED <<resolved, stage, nag, jobs>>

ScheduleFetch(n) ==
    /\ IsNext(n, "change", "fetched") /\ ~ SelfDependent(n)
    /\ AppendJob(n, "fetch", PopulateRequirements(n, {"fetching"}, FALSE))
    /\ todo' = Tail(todo)
    /\ UNCHANGED <<resolved, stage, nag, unorderable>>

ScheduleInstall(n) ==
    /\ IsNext(n, "change", "done") /\ ~ SelfDependent(n)
    /\ LET own == FetchJobNumbers(n.resolvent)
       IN  IF own = {} THEN stage' = "internal error" /\ UNCHANGED <<jobs, todo>>
           ELSE /\ AppendJob(n, "install", PopulateRequirements(n, {}, FALSE)
                                              \cup [job : own, required_if : {RequiredIf}])
                /\ todo' = Tail(todo)
                /\ UNCHANGED stage
    /\ UNCHANGED <<resolved, nag, unorderable>>

ScheduleUninstall(n) ==
    /\ IsNext(n, "remove", "done") /\ ~ SelfDependent(n)
    /\ AppendJob(n, "uninstall", PopulateRequirements(n, {}, TRUE))
    /\ todo' = Tail(todo)
    /\ UNCHANGED <<resolved, stage, nag, unorderable>>

Next ==
    \/ NodifyDecisions
    \/ BuildEdges
    \/ SortNAG
    \/ OrderComponent
    \/ OrderPart \/ TryAgain \/ GiveUp
    \/ \E n \in nag.node : SelfDependency(n)
    \/ \E n \in nag.node : ScheduleFetch(n)
    \/ \E n \in nag.node : ScheduleInstall(n)
    \/ \E n \in nag.node : ScheduleUninstall(n)

Spec == Init /\ [][Next]_vars

-----------------------------------------------------------------------------

Finished == stage = "ordering" /\ todo = <<>>

AllConnected == Connected(nag.node, DOMAIN nag.edge)

(***************************************************************************)
(* Something is needed to fetch a package, directly or not, and a version  *)
(* of it is also blocked for its fetch, to be changed afterwards only.     *)
(***************************************************************************)
FetchBlocks ==
    \E r \in Resolvents : \E c \in resolved.reasons[r] :
        /\ c.kind = "dependency" /\ c.fetch /\ ~ c.normal
        /\ <<Fetched(c.from), Done(r)>> \in AllConnected

(***************************************************************************)
(* None of the internal errors of the orderer and of the sort can happen:  *)
(* every edge has its nodes, every fetch goes out, and no install is       *)
(* scheduled before its fetch.  Only if a fetch blocks what it needs may   *)
(* it be left pending, when the edge that keeps it waiting is dropped with *)
(* a cycle.                                                                *)
(***************************************************************************)
NoInternalError == stage = "internal error" => FetchBlocks

(***************************************************************************)
(* Whatever a package needs, directly or through packages that stay, is    *)
(* done before it, unless they need each other; and what it needs to be    *)
(* built or fetched, and has not got, is done before it in any case.       *)
(***************************************************************************)
DependenciesFirst ==
    Finished =>
        /\ LET connected == AllConnected
           IN  \A a, b \in nag.node :
                  <<a, b>> \in connected /\ <<b, a>> \notin connected =>
                      \A i \in JobNumbers(a), j \in JobNumbers(b) : j < i
        /\ \A e \in DOMAIN nag.edge :
              nag.edge[e].build /\ ~ nag.edge[e].build_all_met =>
                  \A i \in JobNumbers(e[1]), j \in JobNumbers(e[2]) : j < i

UnmetEdges == {e \in DOMAIN nag.edge : ~ AllMet(nag.edge[e])}

Reports(r) == {i \in DOMAIN unorderable : unorderable[i].resolvent = r}

(***************************************************************************)
(* Every change that was decided upon is either done by exactly one job    *)
(* (after exactly one fetch, if it needs one) or reported exactly once as  *)
(* unorderable, and then it needs itself in some way that is not met.      *)
(***************************************************************************)
EveryChangeAccountedFor ==
    Finished =>
        LET needed == Connected(nag.node, UnmetEdges)
        IN  \A n \in {n \in nag.node : IsChange(n) /\ n.role = "done"} :
            \/ /\ Cardinality(JobNumbers(n)) = 1
               /\ Reports(n.resolvent) = {}
               /\ decision[n.resolvent] = "change" => Cardinality(FetchJobNumbers(n.resolvent)) = 1
            \/ /\ JobNumbers(n) = {}
               /\ Cardinality(Reports(n.resolvent)) = 1
               /\ <<n, n>> \in needed

Requires(j, i, flag) == \E r \in jobs[j].requirements : r.job = i /\ flag \in r.required_if

(***************************************************************************)
(* The job list is one that execute_executions() can work with: it is what *)
(* ExecuteJobs assumes, an install always requires its own fetch, and a    *)
(* job that needs, in whatever way, the job of an earlier one says so; an  *)
(* uninstall only says what it needs directly, and nothing says that it is *)
(* after the fetch of another.                                             *)
(***************************************************************************)
FitForExecution ==
    Finished =>
        /\ IsJobList(Len(jobs), [j \in DOMAIN jobs |-> jobs[j].kind], [j \in DOMAIN jobs |-> jobs[j].requirements])
        /\ LET connected == AllConnected
           IN  \A i, j \in DOMAIN jobs :
                 LET e == <<jobs[j].index, jobs[i].index>>
                 IN  i < j =>
                       /\ e = <<Done(e[1].resolvent), Fetched(e[1].resolvent)>> => Requires(j, i, "always")
                       /\ e \in DOMAIN nag.edge =>
                             \/ AllMet(nag.edge[e]) /\ (jobs[j].kind # "uninstall" \/ jobs[i].kind = "fetch")
                             \/ Requires(j, i, "satisfied")
                       /\ e \in connected /\ jobs[j].kind # "uninstall" /\ jobs[i].kind # "fetch" =>
                             Requires(j, i, "independent")
==============================================================================
