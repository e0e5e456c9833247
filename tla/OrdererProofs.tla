---------------------------- MODULE OrdererProofs ----------------------------
(***************************************************************************)
(* The orderer, for any number of packages and whatever the decider has    *)
(* decided.                                                                *)
(*                                                                         *)
(* The job list is fit for execution: it is what ExecuteJobs, and all that *)
(* is proved there, assumes of its job list. For this it does not matter   *)
(* how components are sorted: a job requires what is in the list already.  *)
(* IInv is the invariant.                                                  *)
(*                                                                         *)
(* Jobs are in the order of what they need, every change is done or        *)
(* reported, and no internal error can happen but one. For this, the sort  *)
(* and the connected components of a graph are looked into first (from     *)
(* LeastNatural to SortedInOrder): the components part the nodes, one of   *)
(* those that are not ordered can always be ordered, and a fetch is left   *)
(* pending only if nothing in the graph needs it. Then the graph that is   *)
(* built is looked into (to BuildGraph), and last, what is done with each  *)
(* component (from TailFacts on). OrderInv is the invariant: whatever is a *)
(* job may precede whatever is still to be done, what is to be done is in  *)
(* the order that it may be done in, and a change is a job, is still to be *)
(* done, or is reported.                                                   *)
(***************************************************************************)
EXTENDS Orderer, FiniteSetTheorems, WellFoundedInduction, TLAPS

JobRecords ==
    [index : Indices, kind : Kinds,
     requirements : SUBSET [job : Nat, required_if : SUBSET RequiredIf]]

KindFor(n) ==
    IF n.role = "fetched" THEN "fetch"
    ELSE IF decision[n.resolvent] = "change" THEN "install" ELSE "uninstall"

(* A fetch is that of a change.                                            *)
JobsAreOfNodes ==
    /\ jobs \in Seq(JobRecords)
    /\ \A j \in DOMAIN jobs :
          /\ jobs[j].kind = KindFor(jobs[j].index)
          /\ jobs[j].kind = "fetch" => decision[jobs[j].index.resolvent] = "change"

Says(requirements, i, flag) == \E r \in requirements : r.job = i /\ flag \in r.required_if

(* What a job must say of a job that is before it.                         *)
SaysEnough(n, kind, requirements, i) ==
    LET m == jobs[i].index
    IN  /\ n = Done(n.resolvent) /\ m = Fetched(n.resolvent) => Says(requirements, i, "always")
        /\ <<n, m>> \in DOMAIN nag.edge =>
              \/ AllMet(nag.edge[<<n, m>>]) /\ (kind # "uninstall" \/ jobs[i].kind = "fetch")
              \/ Says(requirements, i, "satisfied")
        /\ <<n, m>> \in AllConnected /\ kind # "uninstall" /\ jobs[i].kind # "fetch" =>
              Says(requirements, i, "independent")

(* What a job may say of the jobs before it.                               *)
SaysWell(kind, requirements, before) ==
    \A r \in requirements :
        /\ r.job \in before
        /\ kind = "fetch" \/ jobs[r.job].kind = "fetch" => "fetching" \in r.required_if

JobsSayEnough ==
    \A i, j \in DOMAIN jobs :
        i < j => SaysEnough(jobs[j].index, jobs[j].kind, jobs[j].requirements, i)

JobsSayWell == \A j \in DOMAIN jobs : SaysWell(jobs[j].kind, jobs[j].requirements, 1..(j - 1))

(* Nothing but a change has an edge to a fetch that is not met, and that   *)
(* is to its own.                                                          *)
OnlyOwnFetches(g) ==
    \A e \in DOMAIN g.edge :
        e[2].role = "fetched" /\ ~ AllMet(g.edge[e]) => e[1] = Done(e[2].resolvent)

Graph ==
    /\ nag = [node |-> nag.node, edge |-> nag.edge]
    /\ nag.node \subseteq Indices
    /\ OnlyOwnFetches(nag)

NoJobsYet == stage \in {"nodes", "edges", "sorting"} => jobs = <<>>

IInv == Graph /\ NoJobsYet /\ JobsAreOfNodes /\ JobsSayWell /\ JobsSayEnough

-----------------------------------------------------------------------------

(* Edges between the same nodes are merged so that what one of them needs  *)
(* is needed: if an edge is not met, some edge that was added is not.      *)
LEMMA MergedEdges ==
    ASSUME NEW added, NEW e \in DOMAIN AddEdges(added), ~ AllMet(AddEdges(added)[e])
    PROVE  \E a \in added : <<a.from, a.to>> = e /\ ~ AllMet(a.with)
<1> DEFINE merged == {a.with : a \in {x \in added : <<x.from, x.to>> = e}}
<1>1. e \in {<<a.from, a.to>> : a \in added}
  BY DEF AddEdges
<1>2. AddEdges(added)[e].build_all_met = (\A p \in merged : p.build_all_met)
  BY <1>1 DEF AddEdges
<1>3. AddEdges(added)[e].run_all_met = (\A p \in merged : p.run_all_met)
  BY <1>1 DEF AddEdges
<1> QED BY <1>2, <1>3 DEF AllMet

(* An edge was added by someone.                                           *)
LEMMA EdgesAreAdded ==
    ASSUME NEW added, NEW e \in DOMAIN AddEdges(added)
    PROVE  \E a \in added : <<a.from, a.to>> = e
BY DEF AddEdges

(* Where an edge that the reasons of r give comes from and goes to.        *)
LEMMA ReasonEdges ==
    ASSUME NEW r, NEW c, NEW a \in EdgesFromReason(r, c)
    PROVE  a.to.role = "fetched" => AllMet(a.with)
<1>1. CASE c.kind = "was_used_by"
  BY <1>1 DEF EdgesFromReason, Done, Loose, AllMet
<1>2. CASE c.kind # "was_used_by" /\ c.kind = "dependent"
  BY <1>2 DEF EdgesFromReason, Done, Loose, AllMet
<1>3. CASE c.kind \notin {"was_used_by", "dependent"} /\ c.normal
  <2>1. a = DependencyEdge(r, c)
    BY <1>3 DEF EdgesFromReason
  <2>2. a.to = Done(r)
    BY <2>1 DEF DependencyEdge
  <2> QED BY <2>2 DEF Done
<1>4. CASE c.kind \notin {"was_used_by", "dependent"} /\ ~ c.normal
  <2>1. a.with = Loose
    BY <1>4 DEF EdgesFromReason
  <2> QED BY <2>1 DEF Loose, AllMet
<1> QED BY <1>1, <1>2, <1>3, <1>4

(* Nothing is in the graph or the list at first.                           *)
LEMMA InitInvariant == Init => IInv
<1> SUFFICES ASSUME Init PROVE IInv
  OBVIOUS
<1>1. nag.node = {} /\ DOMAIN nag.edge = {} /\ nag = [node |-> nag.node, edge |-> nag.edge]
  BY DEF Init, NoEdges
<1>2. Graph
  BY <1>1 DEF Graph, OnlyOwnFetches
<1>3. jobs = <<>>
  BY DEF Init
<1> QED BY <1>2, <1>3 DEF IInv, NoJobsYet, JobsAreOfNodes, JobsSayWell, JobsSayEnough

(* While there are no jobs, nothing is to be said of them.                 *)
LEMMA NothingToSay ==
    ASSUME jobs' = <<>>
    PROVE  JobsAreOfNodes' /\ JobsSayWell' /\ JobsSayEnough'
BY DEF JobsAreOfNodes, JobsSayWell, JobsSayEnough

(* The graph that is built has the edges that the invariant allows.        *)
LEMMA StepNodify ==
    ASSUME IInv, NodifyDecisions
    PROVE  Graph'
<1> DEFINE own == {OwnFetch(r) : r \in {r \in Resolvents : decision[r] \in {"change"}}}
<1>1. nag' = [node |-> nag'.node, edge |-> AddEdges(own)]
  BY DEF NodifyDecisions
<1>2. nag'.node \subseteq Indices
  <2>1. \A r \in Resolvents : Done(r) \in Indices /\ Fetched(r) \in Indices
    BY DEF Done, Fetched, Indices
  <2> QED BY <2>1 DEF NodifyDecisions
<1>3. OnlyOwnFetches(nag')
  <2> SUFFICES ASSUME NEW e \in DOMAIN AddEdges(own), e[2].role = "fetched"
               PROVE  e[1] = Done(e[2].resolvent)
    BY <1>1 DEF OnlyOwnFetches
  <2>1. PICK a \in own : <<a.from, a.to>> = e
    BY EdgesAreAdded
  <2>2. PICK r \in Resolvents : a = OwnFetch(r)
    OBVIOUS
  <2> QED BY <2>1, <2>2 DEF OwnFetch, Fetched, Done
<1> QED BY <1>1, <1>2, <1>3 DEF Graph

(* Nor do the reasons add an unmet need of the fetch of another.           *)
LEMMA StepBuildEdges ==
    ASSUME IInv, BuildEdges
    PROVE  Graph'
<1> DEFINE ordered == {r \in Resolvents : Done(r) \in nag.node}
           reasons(r) == UNION {EdgesFromReason(r, c) : c \in resolved.reasons[r]}
           binaries(r) == IF decision[r] = "change" THEN BinaryEdges(r) ELSE {}
           own == {[from |-> e[1], to |-> e[2], with |-> nag.edge[e]] : e \in DOMAIN nag.edge}
           added == own \cup UNION {reasons(r) \cup binaries(r) : r \in ordered}
<1>1. nag' = [node |-> nag.node, edge |-> AddEdges(added)]
  BY DEF BuildEdges, IInv, Graph
<1>2. OnlyOwnFetches(nag')
  <2> SUFFICES ASSUME NEW e \in DOMAIN AddEdges(added), e[2].role = "fetched",
                      ~ AllMet(AddEdges(added)[e])
               PROVE  e[1] = Done(e[2].resolvent)
    BY <1>1 DEF OnlyOwnFetches
  <2>1. PICK a \in added : <<a.from, a.to>> = e /\ ~ AllMet(a.with)
    BY MergedEdges
  <2>2. CASE a \in own
    <3>1. PICK f \in DOMAIN nag.edge : a = [from |-> f[1], to |-> f[2], with |-> nag.edge[f]]
      BY <2>2
    <3>2. e[1] = f[1] /\ e[2] = f[2] /\ ~ AllMet(nag.edge[f])
      BY <2>1, <3>1
    <3> QED BY <3>2 DEF IInv, Graph, OnlyOwnFetches
  <2>3. CASE \E r \in ordered : a \in reasons(r)
    <3>1. PICK r \in ordered : a \in reasons(r)
      BY <2>3
    <3>2. PICK c \in resolved.reasons[r] : a \in EdgesFromReason(r, c)
      BY <3>1
    <3> QED BY <2>1, <3>2, ReasonEdges
  <2>4. CASE \E r \in ordered : a \in binaries(r)
    <3>1. PICK r \in ordered : a \in BinaryEdges(r)
      BY <2>4
    <3> QED BY <2>1, <3>1 DEF BinaryEdges, Done
  <2> QED BY <2>2, <2>3, <2>4
<1> QED BY <1>1, <1>2 DEF IInv, Graph

-----------------------------------------------------------------------------

(* populate_requirements() names jobs that are there already, and none     *)
(* that fetches; every flag that it was given is there.                    *)
LEMMA PopulatedWell ==
    ASSUME JobsAreOfNodes, NEW n, NEW flags \in SUBSET RequiredIf, NEW uninstall \in BOOLEAN,
           NEW r \in PopulateRequirements(n, flags, uninstall)
    PROVE  /\ r \in [job : DOMAIN jobs, required_if : SUBSET RequiredIf]
           /\ flags \subseteq r.required_if
           /\ jobs[r.job].kind # "fetch"
<1>1. ASSUME NEW S, NEW more \in SUBSET RequiredIf,
             r \in [job : JobsOf(S), required_if : {flags \cup more}]
      PROVE  /\ r \in [job : DOMAIN jobs, required_if : SUBSET RequiredIf]
             /\ flags \subseteq r.required_if
             /\ jobs[r.job].kind # "fetch"
  <2>1. r.job \in DOMAIN jobs /\ jobs[r.job].index.role = "done"
    BY <1>1 DEF JobsOf
  <2>2. jobs[r.job].kind # "fetch"
    BY <2>1 DEF JobsAreOfNodes, KindFor
  <2> QED BY <1>1, <2>1, <2>2
<1>2. {"satisfied", "independent"} \in SUBSET RequiredIf /\ {"always"} \in SUBSET RequiredIf
         /\ {"independent"} \in SUBSET RequiredIf
  BY DEF RequiredIf
<1>3. \E S : \E more \in SUBSET RequiredIf : r \in [job : JobsOf(S), required_if : {flags \cup more}]
  BY <1>2 DEF PopulateRequirements
<1> QED BY <1>1, <1>3

(* It says of every job that does not fetch what has to be said.           *)
LEMMA PopulatedEnough ==
    ASSUME NEW n, NEW flags \in SUBSET RequiredIf, NEW uninstall \in BOOLEAN,
           NEW i \in DOMAIN jobs, jobs[i].index.role = "done"
    PROVE  LET P == PopulateRequirements(n, flags, uninstall)
               e == <<n, jobs[i].index>>
           IN  /\ e \in DOMAIN nag.edge /\ (~ AllMet(nag.edge[e]) \/ uninstall)
                      => Says(P, i, "satisfied")
               /\ e \in AllConnected /\ ~ uninstall => Says(P, i, "independent")
<1> DEFINE P == PopulateRequirements(n, flags, uninstall)
           e == <<n, jobs[i].index>>
           Heads(S) == {f[2] : f \in S}
           direct == EdgesFrom(nag, n)
           wanted == {f \in direct : ~ AllMet(nag.edge[f]) \/ uninstall}
           reached == IF uninstall THEN {}
                      ELSE Heads({f \in Connected(nag.node, DOMAIN nag.edge) : f[1] = n})
<1>1. ASSUME NEW S, NEW if, jobs[i].index \in S
      PROVE  [job |-> i, required_if |-> if] \in [job : JobsOf(S), required_if : {if}]
  BY <1>1 DEF JobsOf
<1>2. [job : JobsOf(Heads(wanted)), required_if : {flags \cup {"satisfied", "independent"}}] \subseteq P
  BY DEF PopulateRequirements
<1>3. [job : JobsOf(reached), required_if : {flags \cup {"independent"}}] \subseteq P
  BY DEF PopulateRequirements
<1>4. ASSUME e \in DOMAIN nag.edge, ~ AllMet(nag.edge[e]) \/ uninstall
      PROVE  Says(P, i, "satisfied")
  <2>1. e \in wanted
    BY <1>4 DEF EdgesFrom
  <2>2. jobs[i].index \in Heads(wanted)
    BY <2>1
  <2>3. [job |-> i, required_if |-> flags \cup {"satisfied", "independent"}] \in P
    BY <1>1, <1>2, <2>2
  <2> QED BY <2>3 DEF Says
<1>5. ASSUME e \in AllConnected, ~ uninstall
      PROVE  Says(P, i, "independent")
  <2>1. jobs[i].index \in reached
    BY <1>5 DEF AllConnected
  <2>2. [job |-> i, required_if |-> flags \cup {"independent"}] \in P
    BY <1>1, <1>3, <2>1
  <2> QED BY <2>2 DEF Says
<1> QED BY <1>4, <1>5

(* A job that says what it has to of those before it may be appended.      *)
LEMMA JobAppended ==
    ASSUME IInv, UNCHANGED <<resolved, nag>>, NEW n \in Indices, NEW requirements,
           n.role = "fetched" => decision[n.resolvent] = "change",
           AppendJob(n, KindFor(n), requirements),
           requirements \subseteq [job : DOMAIN jobs, required_if : SUBSET RequiredIf],
           SaysWell(KindFor(n), requirements, DOMAIN jobs),
           \A i \in DOMAIN jobs : SaysEnough(n, KindFor(n), requirements, i)
    PROVE  JobsAreOfNodes' /\ JobsSayWell' /\ JobsSayEnough'
<1> DEFINE job == [index |-> n, kind |-> KindFor(n), requirements |-> requirements]
           last == Len(jobs) + 1
<1>1. jobs \in Seq(JobRecords) /\ Len(jobs) \in Nat /\ DOMAIN jobs = 1..Len(jobs)
  BY DEF IInv, JobsAreOfNodes
<1>2. job \in JobRecords
  <2>1. requirements \in SUBSET [job : Nat, required_if : SUBSET RequiredIf]
    BY <1>1
  <2>2. KindFor(n) \in Kinds
    BY DEF KindFor, Kinds
  <2> QED BY <2>1, <2>2 DEF JobRecords
<1>3. jobs' = Append(jobs, job)
  BY DEF AppendJob
<1>4. /\ jobs' \in Seq(JobRecords)
      /\ DOMAIN jobs' = 1..last
      /\ jobs'[last] = job
      /\ \A i \in DOMAIN jobs : jobs'[i] = jobs[i]
  <2> HIDE DEF job
  <2> QED BY <1>1, <1>2, <1>3
<1>5. \A i \in DOMAIN jobs' : i = last \/ i \in DOMAIN jobs
  BY <1>1, <1>4
<1>6. \A m : KindFor(m)' = KindFor(m)
  BY DEF KindFor, decision
<1>7. JobsAreOfNodes'
  <2>1. \A i \in DOMAIN jobs' : jobs'[i].kind = KindFor(jobs'[i].index)
    BY <1>4, <1>5 DEF IInv, JobsAreOfNodes
  <2>2. \A i \in DOMAIN jobs' : jobs'[i].kind = "fetch" => decision[jobs'[i].index.resolvent] = "change"
    BY <1>4, <1>5 DEF IInv, JobsAreOfNodes, KindFor
  <2> QED BY <1>4, <1>6, <2>1, <2>2 DEF JobsAreOfNodes, decision
<1>8. JobsSayWell'
  <2> SUFFICES ASSUME NEW j \in DOMAIN jobs', NEW r \in jobs'[j].requirements
               PROVE  /\ r.job \in 1..(j - 1)
                      /\ jobs'[j].kind = "fetch" \/ jobs'[r.job].kind = "fetch"
                            => "fetching" \in r.required_if
    BY DEF JobsSayWell, SaysWell
  <2>1. CASE j = last
    <3>1. r \in requirements /\ jobs'[j].kind = KindFor(n)
      BY <1>4, <2>1
    <3>2. r.job \in DOMAIN jobs /\ jobs'[r.job] = jobs[r.job]
      BY <1>4, <3>1 DEF SaysWell
    <3>3. r.job \in 1..(j - 1)
      BY <1>1, <2>1, <3>2
    <3> QED BY <3>1, <3>2, <3>3 DEF SaysWell
  <2>2. CASE j \in DOMAIN jobs
    <3>1. jobs'[j] = jobs[j]
      BY <1>4, <2>2
    <3>2. r.job \in 1..(j - 1)
      BY <2>2, <3>1 DEF IInv, JobsSayWell, SaysWell
    <3>3. r.job \in DOMAIN jobs
      BY <1>1, <2>2, <3>2
    <3>4. jobs'[r.job] = jobs[r.job]
      BY <1>4, <3>3
    <3> QED BY <2>2, <3>1, <3>2, <3>4 DEF IInv, JobsSayWell, SaysWell
  <2> QED BY <1>5, <2>1, <2>2
<1>9. JobsSayEnough'
  <2> SUFFICES ASSUME NEW i \in DOMAIN jobs', NEW j \in DOMAIN jobs', i < j
               PROVE  SaysEnough(jobs[j].index, jobs[j].kind, jobs[j].requirements, i)'
    BY DEF JobsSayEnough
  <2>1. i \in DOMAIN jobs
    BY <1>1, <1>4
  <2>2. jobs'[i] = jobs[i]
    BY <1>4, <2>1
  <2>3. SaysEnough(jobs'[j].index, jobs'[j].kind, jobs'[j].requirements, i)
    <3>1. CASE j = last
      BY <1>4, <2>1, <3>1
    <3>2. CASE j \in DOMAIN jobs
      BY <1>4, <2>1, <3>2 DEF IInv, JobsSayEnough
    <3> QED BY <1>5, <3>1, <3>2
  <2>4. AllConnected' = AllConnected
    BY DEF AllConnected
  <2> QED BY <2>2, <2>3, <2>4 DEF SaysEnough
<1> QED BY <1>7, <1>8, <1>9

(* A job is of a node, and its kind is that of its node.                   *)
LEMMA JobOfNode ==
    ASSUME JobsAreOfNodes, NEW i \in DOMAIN jobs
    PROVE  jobs[i].index \in Indices /\ jobs[i].kind = KindFor(jobs[i].index)
<1>1. jobs[i] \in JobRecords
  BY DEF JobsAreOfNodes
<1> QED BY <1>1 DEF JobsAreOfNodes, JobRecords

(* Each kind of job says what it has to.                                   *)
LEMMA StepFetch ==
    ASSUME IInv, NEW n \in nag.node, ScheduleFetch(n)
    PROVE  JobsAreOfNodes' /\ JobsSayWell' /\ JobsSayEnough'
<1> DEFINE P == PopulateRequirements(n, {"fetching"}, FALSE)
<1>1. /\ n \in Indices /\ n.role = "fetched" /\ decision[n.resolvent] = "change"
      /\ KindFor(n) = "fetch" /\ AppendJob(n, KindFor(n), P) /\ UNCHANGED <<resolved, nag>>
  BY DEF ScheduleFetch, IsNext, KindFor, IInv, Graph
<1>2. /\ {"fetching"} \in SUBSET RequiredIf
      /\ JobsAreOfNodes /\ OnlyOwnFetches(nag)
  BY DEF RequiredIf, IInv, Graph
<1>3. P \subseteq [job : DOMAIN jobs, required_if : SUBSET RequiredIf]
  BY <1>2, PopulatedWell
<1>4. SaysWell("fetch", P, DOMAIN jobs)
  <2>1. \A r \in P : "fetching" \in r.required_if
    BY <1>2, PopulatedWell
  <2> QED BY <1>3, <2>1 DEF SaysWell
<1>5. ASSUME NEW i \in DOMAIN jobs
      PROVE  SaysEnough(n, "fetch", P, i)
  <2> DEFINE m == jobs[i].index
             e == <<n, m>>
  <2>1. m \in Indices /\ jobs[i].kind = KindFor(m)
    BY <1>2, JobOfNode
  <2>2. m.role # "done" => m.role = "fetched" /\ jobs[i].kind = "fetch"
    BY <2>1 DEF Indices, KindFor
  <2>3. n # Done(n.resolvent)
    BY <1>1 DEF Done
  <2>4. CASE m.role = "done"
    <3>1. /\ e \in DOMAIN nag.edge /\ ~ AllMet(nag.edge[e]) => Says(P, i, "satisfied")
          /\ e \in AllConnected => Says(P, i, "independent")
      BY <1>2, <2>4, PopulatedEnough
    <3> QED BY <2>3, <3>1 DEF SaysEnough
  <2>5. CASE m.role # "done"
    <3>1. e \in DOMAIN nag.edge => AllMet(nag.edge[e])
      <4>1. n # Done(m.resolvent)
        BY <1>1 DEF Done
      <4>2. e[1] = n /\ e[2] = m
        OBVIOUS
      <4> QED BY <1>2, <2>2, <2>5, <4>1, <4>2 DEF OnlyOwnFetches
    <3> QED BY <2>2, <2>3, <2>5, <3>1 DEF SaysEnough
  <2> QED BY <2>4, <2>5
<1> QED BY <1>1, <1>3, <1>4, <1>5, JobAppended

(* An install says besides that it needs its fetch.                        *)
LEMMA StepInstall ==
    ASSUME IInv, NEW n \in nag.node, ScheduleInstall(n), stage' = stage
    PROVE  JobsAreOfNodes' /\ JobsSayWell' /\ JobsSayEnough'
<1> DEFINE P == PopulateRequirements(n, {}, FALSE)
           own == [job : FetchJobNumbers(n.resolvent), required_if : {RequiredIf}]
<1>1. /\ n \in Indices /\ n.role = "done" /\ decision[n.resolvent] = "change"
      /\ KindFor(n) = "install" /\ UNCHANGED <<resolved, nag>>
  BY DEF ScheduleInstall, IsNext, KindFor, IInv, Graph
<1>2. AppendJob(n, KindFor(n), P \cup own)
  BY <1>1 DEF ScheduleInstall, IsNext, Now
<1>3. JobsAreOfNodes /\ OnlyOwnFetches(nag)
  BY DEF IInv, Graph
<1>4. n = Done(n.resolvent)
  BY <1>1 DEF Indices, Done
<1>5. P \cup own \subseteq [job : DOMAIN jobs, required_if : SUBSET RequiredIf]
  <2>1. P \subseteq [job : DOMAIN jobs, required_if : SUBSET RequiredIf]
    BY <1>3, PopulatedWell
  <2>2. own \subseteq [job : DOMAIN jobs, required_if : SUBSET RequiredIf]
    BY DEF FetchJobNumbers, JobNumbers
  <2> QED BY <2>1, <2>2
<1>6. SaysWell("install", P \cup own, DOMAIN jobs)
  <2>1. \A r \in P : jobs[r.job].kind # "fetch"
    BY <1>3, PopulatedWell
  <2>2. \A r \in own : "fetching" \in r.required_if
    BY DEF RequiredIf
  <2> QED BY <1>5, <2>1, <2>2 DEF SaysWell
<1>7. ASSUME NEW i \in DOMAIN jobs
      PROVE  SaysEnough(n, "install", P \cup own, i)
  <2> DEFINE m == jobs[i].index
             e == <<n, m>>
  <2>1. m \in Indices /\ jobs[i].kind = KindFor(m)
    BY <1>3, JobOfNode
  <2>2. CASE m.role = "done"
    <3>1. /\ e \in DOMAIN nag.edge /\ ~ AllMet(nag.edge[e]) => Says(P, i, "satisfied")
          /\ e \in AllConnected => Says(P, i, "independent")
      BY <2>2, PopulatedEnough
    <3>2. m # Fetched(n.resolvent)
      BY <2>2 DEF Fetched
    <3> QED BY <3>1, <3>2 DEF SaysEnough, Says
  <2>3. CASE m = Fetched(n.resolvent)
    <3>1. [job |-> i, required_if |-> RequiredIf] \in own
      BY <2>3 DEF FetchJobNumbers, JobNumbers
    <3>2. \A flag \in RequiredIf : Says(P \cup own, i, flag)
      BY <3>1 DEF Says
    <3> QED BY <3>2 DEF SaysEnough, RequiredIf
  <2>4. CASE m.role # "done" /\ m # Fetched(n.resolvent)
    <3>1. m.role = "fetched" /\ jobs[i].kind = "fetch" /\ m = Fetched(m.resolvent)
      BY <2>1, <2>4 DEF Indices, KindFor, Fetched
    <3>2. n # Done(m.resolvent)
      BY <1>4, <2>4, <3>1 DEF Done
    <3>3. e \in DOMAIN nag.edge => AllMet(nag.edge[e])
      <4>1. e[1] = n /\ e[2] = m
        OBVIOUS
      <4> QED BY <1>3, <3>1, <3>2, <4>1 DEF OnlyOwnFetches
    <3> QED BY <2>4, <3>1, <3>3 DEF SaysEnough
  <2> QED BY <2>2, <2>3, <2>4
<1> QED BY <1>1, <1>2, <1>5, <1>6, <1>7, JobAppended

(* An uninstall says what it needs directly.                               *)
LEMMA StepUninstall ==
    ASSUME IInv, NEW n \in nag.node, ScheduleUninstall(n)
    PROVE  JobsAreOfNodes' /\ JobsSayWell' /\ JobsSayEnough'
<1> DEFINE P == PopulateRequirements(n, {}, TRUE)
<1>1. /\ n \in Indices /\ n.role = "done" /\ decision[n.resolvent] = "remove"
      /\ KindFor(n) = "uninstall" /\ AppendJob(n, KindFor(n), P) /\ UNCHANGED <<resolved, nag>>
  BY DEF ScheduleUninstall, IsNext, KindFor, IInv, Graph
<1>2. JobsAreOfNodes /\ OnlyOwnFetches(nag)
  BY DEF IInv, Graph
<1>3. P \subseteq [job : DOMAIN jobs, required_if : SUBSET RequiredIf]
  BY <1>2, PopulatedWell
<1>4. SaysWell("uninstall", P, DOMAIN jobs)
  <2>1. \A r \in P : jobs[r.job].kind # "fetch"
    BY <1>2, PopulatedWell
  <2> QED BY <1>3, <2>1 DEF SaysWell
<1>5. ASSUME NEW i \in DOMAIN jobs
      PROVE  SaysEnough(n, "uninstall", P, i)
  <2> DEFINE m == jobs[i].index
             e == <<n, m>>
  <2>1. m \in Indices /\ jobs[i].kind = KindFor(m)
    BY <1>2, JobOfNode
  <2>2. CASE m.role = "done"
    <3>1. e \in DOMAIN nag.edge => Says(P, i, "satisfied")
      BY <2>2, PopulatedEnough
    <3>2. m # Fetched(n.resolvent)
      BY <2>2 DEF Fetched
    <3> QED BY <3>1, <3>2 DEF SaysEnough
  <2>3. CASE m.role # "done"
    <3>1. m.role = "fetched" /\ jobs[i].kind = "fetch"
      BY <2>1, <2>3 DEF Indices, KindFor
    <3>2. decision[m.resolvent] = "change"
      BY <1>2, <3>1 DEF JobsAreOfNodes
    <3>3. m # Fetched(n.resolvent) /\ n # Done(m.resolvent)
      BY <1>1, <3>2 DEF Fetched, Done
    <3>4. e \in DOMAIN nag.edge => AllMet(nag.edge[e])
      <4>1. e[1] = n /\ e[2] = m
        OBVIOUS
      <4> QED BY <1>2, <3>1, <3>3, <4>1 DEF OnlyOwnFetches
    <3> QED BY <3>1, <3>3, <3>4 DEF SaysEnough
  <2> QED BY <2>2, <2>3
<1> QED BY <1>1, <1>3, <1>4, <1>5, JobAppended

(* Steps that make no job and leave the graph alone change nothing here.   *)
LEMMA StepElsewhere ==
    ASSUME IInv, UNCHANGED <<resolved, nag, jobs>>
    PROVE  Graph' /\ JobsAreOfNodes' /\ JobsSayWell' /\ JobsSayEnough'
<1>1. Graph'
  BY DEF IInv, Graph, OnlyOwnFetches
<1>2. JobsAreOfNodes'
  BY DEF IInv, JobsAreOfNodes, KindFor, decision
<1>3. JobsSayWell'
  BY DEF IInv, JobsSayWell, SaysWell
<1>4. JobsSayEnough'
  <2>1. \A n, kind, requirements, i :
           SaysEnough(n, kind, requirements, i)' = SaysEnough(n, kind, requirements, i)
    BY DEF SaysEnough, AllConnected
  <2> QED BY DEF IInv, JobsSayEnough, SaysEnough, AllConnected
<1> QED BY <1>1, <1>2, <1>3, <1>4

(* Every step keeps the invariant of the job list.                         *)
LEMMA StepInvariant == IInv /\ [Next]_vars => IInv'
<1> SUFFICES ASSUME IInv, [Next]_vars PROVE IInv'
  OBVIOUS
<1>1. CASE NodifyDecisions
  <2>1. jobs' = <<>>
    BY <1>1 DEF NodifyDecisions, IInv, NoJobsYet
  <2> QED BY <1>1, <2>1, NothingToSay, StepNodify DEF IInv, NoJobsYet
<1>2. CASE BuildEdges
  <2>1. jobs' = <<>>
    BY <1>2 DEF BuildEdges, IInv, NoJobsYet
  <2> QED BY <1>2, <2>1, NothingToSay, StepBuildEdges DEF IInv, NoJobsYet
<1>3. CASE SortNAG
  <2>1. UNCHANGED <<resolved, nag, jobs>> /\ jobs = <<>>
    BY <1>3 DEF SortNAG, IInv, NoJobsYet
  <2> QED BY <2>1, StepElsewhere DEF IInv, NoJobsYet
<1>4. CASE OrderComponent \/ TryAgain
  <2>1. UNCHANGED <<resolved, nag, jobs>> /\ stage' \in {stage, "internal error"}
    BY <1>4 DEF OrderComponent, TryAgain, BreakUp
  <2> QED BY <2>1, StepElsewhere DEF IInv, NoJobsYet
<1>5. CASE OrderPart \/ GiveUp \/ \E n \in nag.node : SelfDependency(n)
  <2>1. UNCHANGED <<resolved, stage, nag, jobs>>
    BY <1>5 DEF OrderPart, GiveUp, SelfDependency
  <2> QED BY <2>1, StepElsewhere DEF IInv, NoJobsYet
<1>6. ASSUME NEW n \in nag.node, ScheduleFetch(n) \/ ScheduleUninstall(n)
      PROVE  IInv'
  <2>1. UNCHANGED <<resolved, nag, stage>> /\ stage = "ordering"
    BY <1>6 DEF ScheduleFetch, ScheduleUninstall, IsNext, Now
  <2>2. Graph' /\ NoJobsYet'
    BY <2>1 DEF IInv, Graph, OnlyOwnFetches, NoJobsYet
  <2> QED BY <1>6, <2>2, StepFetch, StepUninstall DEF IInv
<1>7. ASSUME NEW n \in nag.node, ScheduleInstall(n)
      PROVE  IInv'
  <2>1. UNCHANGED <<resolved, nag>> /\ stage = "ordering" /\ stage' \in {stage, "internal error"}
    BY <1>7 DEF ScheduleInstall, IsNext, Now
  <2>2. Graph' /\ NoJobsYet'
    BY <2>1 DEF IInv, Graph, OnlyOwnFetches, NoJobsYet
  <2>3. CASE stage' = stage
    BY <1>7, <2>2, <2>3, StepInstall DEF IInv
  <2>4. CASE stage' # stage
    <3>1. UNCHANGED jobs
      BY <1>7, <2>4 DEF ScheduleInstall
    <3> QED BY <2>1, <2>2, <3>1, StepElsewhere DEF IInv
  <2> QED BY <2>3, <2>4
<1>8. CASE UNCHANGED vars
  <2>1. UNCHANGED <<resolved, stage, nag, jobs>>
    BY <1>8 DEF vars
  <2> QED BY <2>1, StepElsewhere DEF IInv, NoJobsYet
<1> QED BY <1>1, <1>2, <1>3, <1>4, <1>5, <1>6, <1>7, <1>8 DEF Next

-----------------------------------------------------------------------------

(* What ExecuteJobs calls a job list is what the invariant makes of jobs.  *)
LEMMA InvariantMeans == IInv => FitForExecution
<1> SUFFICES ASSUME IInv PROVE FitForExecution
  OBVIOUS
<1> DEFINE n == Len(jobs)
           kind == [j \in DOMAIN jobs |-> jobs[j].kind]
           requirements == [j \in DOMAIN jobs |-> jobs[j].requirements]
<1>1. DOMAIN jobs = 1..n /\ n \in Nat /\ \A j \in DOMAIN jobs : jobs[j] \in JobRecords
  BY DEF IInv, JobsAreOfNodes
<1>2. IsJobList(n, kind, requirements)
  <2>1. kind \in [1..n -> Kinds]
    BY <1>1 DEF JobRecords
  <2>2. ASSUME NEW j \in 1..n
        PROVE  /\ requirements[j] \in SUBSET [job : 1..n, required_if : SUBSET RequiredIf]
               /\ \A r \in requirements[j] :
                     /\ r.job < j
                     /\ kind[j] = "fetch" \/ kind[r.job] = "fetch" => "fetching" \in r.required_if
    <3>1. requirements[j] \in SUBSET [job : Nat, required_if : SUBSET RequiredIf]
      BY <1>1 DEF JobRecords
    <3>2. SaysWell(jobs[j].kind, jobs[j].requirements, 1..(j - 1))
      BY <1>1 DEF IInv, JobsSayWell
    <3>3. \A r \in requirements[j] : r.job \in 1..(j - 1) /\ r.job \in 1..n
      BY <1>1, <3>2 DEF SaysWell
    <3>4. requirements[j] \in SUBSET [job : 1..n, required_if : SUBSET RequiredIf]
      BY <3>1, <3>3
    <3>5. \A r \in requirements[j] :
             kind[j] = "fetch" \/ kind[r.job] = "fetch" => "fetching" \in r.required_if
      BY <1>1, <3>2, <3>3 DEF SaysWell
    <3>6. \A r \in requirements[j] : r.job < j
      BY <1>1, <3>3
    <3> QED BY <3>4, <3>5, <3>6
  <2>3. requirements \in [1..n -> SUBSET [job : 1..n, required_if : SUBSET RequiredIf]]
    BY <1>1, <2>2
  <2> HIDE DEF kind, requirements, n
  <2> QED BY <2>1, <2>2, <2>3 DEF IsJobList
<1>3. ASSUME NEW i \in DOMAIN jobs, NEW j \in DOMAIN jobs, i < j
      PROVE  LET e == <<jobs[j].index, jobs[i].index>>
             IN  /\ e = <<Done(e[1].resolvent), Fetched(e[1].resolvent)>> => Requires(j, i, "always")
                 /\ e \in DOMAIN nag.edge =>
                       \/ AllMet(nag.edge[e]) /\ (jobs[j].kind # "uninstall" \/ jobs[i].kind = "fetch")
                       \/ Requires(j, i, "satisfied")
                 /\ e \in AllConnected /\ jobs[j].kind # "uninstall" /\ jobs[i].kind # "fetch" =>
                       Requires(j, i, "independent")
  <2>1. SaysEnough(jobs[j].index, jobs[j].kind, jobs[j].requirements, i)
    BY <1>3 DEF IInv, JobsSayEnough
  <2>2. \A flag : Says(jobs[j].requirements, i, flag) = Requires(j, i, flag)
    BY DEF Says, Requires
  <2> QED BY <2>1, <2>2 DEF SaysEnough
<1> QED BY <1>2, <1>3 DEF FitForExecution

-----------------------------------------------------------------------------

(* A set of naturals has a least member.                                   *)
LEMMA LeastNatural ==
    ASSUME NEW T \in SUBSET Nat, T # {}
    PROVE  \E n \in T : \A m \in T : n <= m
<1>1. PICK n \in T : \A m \in T : ~ (<<m, n>> \in OpToRel(<, Nat))
  BY NatLessThanWellFounded, WFMin
<1>2. \A m \in T : ~ (m < n)
  BY <1>1 DEF OpToRel
<1> QED BY <1>2

(* Induction, for a set in place of a formula.                             *)
LEMMA EveryNatural ==
    ASSUME NEW T, 0 \in T, \A n \in Nat : n \in T => n + 1 \in T
    PROVE  Nat \subseteq T
<1> SUFFICES ASSUME ~ (Nat \subseteq T) PROVE FALSE
  OBVIOUS
<1> DEFINE U == Nat \ T
<1>1. PICK n \in U : \A m \in U : n <= m
  <2> U \in SUBSET Nat /\ U # {}
    OBVIOUS
  <2> HIDE DEF U
  <2> QED BY LeastNatural
<1>2. n \in Nat /\ n # 0 /\ n - 1 \in Nat /\ n - 1 \notin U
  BY <1>1
<1>3. n - 1 \in T /\ (n - 1) + 1 = n
  BY <1>2
<1> QED BY <1>2, <1>3

(* A sequence of rounds is what its definition says. *)
LEMMA Rounds ==
    ASSUME NEW S, NEW b \in S, NEW step \in [S -> S]
    PROVE  \E f \in [Nat -> S] : f[0] = b /\ \A n \in Nat : f[n + 1] = step[f[n]]
<1> DEFINE Upto(n, g) == g[0] = b /\ \A i \in 0..(n - 1) : g[i + 1] = step[g[i]]
           T == {n \in Nat : \E g \in [Nat -> S] : Upto(n, g)}
<1>1. Nat \subseteq T
  <2>1. 0 \in T
    <3>1. [i \in Nat |-> b] \in [Nat -> S] /\ Upto(0, [i \in Nat |-> b])
      OBVIOUS
    <3> QED BY <3>1
  <2>2. ASSUME NEW n \in Nat, n \in T PROVE n + 1 \in T
    <3>1. PICK g \in [Nat -> S] : Upto(n, g)
      BY <2>2
    <3> DEFINE h == [g EXCEPT ![n + 1] = step[g[n]]]
    <3>2. h \in [Nat -> S]
      OBVIOUS
    <3>3. Upto(n + 1, h)
      <4>1. h[0] = b
        BY <3>1
      <4>2. ASSUME NEW i \in 0..n PROVE h[i + 1] = step[h[i]]
        <5>1. CASE i = n
          BY <5>1
        <5>2. CASE i # n
          <6>1. i \in 0..(n - 1) /\ h[i + 1] = g[i + 1] /\ h[i] = g[i]
            BY <5>2
          <6> QED BY <6>1, <3>1
        <5> QED BY <5>1, <5>2
      <4> QED BY <4>1, <4>2
    <3> HIDE DEF h, Upto
    <3> QED BY <3>2, <3>3
  <2> HIDE DEF T
  <2> QED BY <2>1, <2>2, EveryNatural
<1>2. ASSUME NEW n \in Nat, NEW m \in Nat, NEW g \in [Nat -> S], NEW h \in [Nat -> S],
             Upto(n, g), Upto(m, h), NEW i \in Nat, i <= n, i <= m
      PROVE  g[i] = h[i]
  <2> DEFINE V == {j \in Nat : j <= n /\ j <= m => g[j] = h[j]}
  <2>1. 0 \in V
    BY <1>2
  <2>2. ASSUME NEW j \in Nat, j \in V PROVE j + 1 \in V
    <3> SUFFICES ASSUME j + 1 <= n, j + 1 <= m PROVE g[j + 1] = h[j + 1]
      OBVIOUS
    <3>1. j \in 0..(n - 1) /\ j \in 0..(m - 1) /\ g[j] = h[j]
      BY <2>2
    <3> QED BY <3>1, <1>2
  <2>3. i \in V
    <3> HIDE DEF V
    <3> QED BY <2>1, <2>2, EveryNatural
  <2> QED BY <2>3, <1>2
<1> DEFINE G(n) == CHOOSE g \in [Nat -> S] : Upto(n, g)
           f == [n \in Nat |-> G(n)[n]]
<1>3. \A n \in Nat : G(n) \in [Nat -> S] /\ Upto(n, G(n))
  <2> SUFFICES ASSUME NEW n \in Nat PROVE G(n) \in [Nat -> S] /\ Upto(n, G(n))
    OBVIOUS
  <2>1. \E g \in [Nat -> S] : Upto(n, g)
    BY <1>1
  <2> HIDE DEF Upto
  <2> QED BY <2>1
<1>4. f \in [Nat -> S] /\ f[0] = b
  <2> HIDE DEF G
  <2> QED BY <1>3
<1>5. ASSUME NEW n \in Nat PROVE f[n + 1] = step[f[n]]
  <2>1. G(n + 1)[n + 1] = step[G(n + 1)[n]]
    <3> HIDE DEF G
    <3> QED BY <1>3
  <2>2. G(n + 1)[n] = G(n)[n]
    <3> HIDE DEF G, Upto
    <3> QED BY <1>2, <1>3
  <2> HIDE DEF G
  <2> QED BY <2>1, <2>2
<1> HIDE DEF f
<1> QED BY <1>4, <1>5

-----------------------------------------------------------------------------

Orders(R, S) ==
    /\ \A a \in S : <<a, a>> \notin R
    /\ \A a, b, c \in S : <<a, b>> \in R /\ <<b, c>> \in R => <<a, c>> \in R
    /\ \A a, b \in S : a = b \/ <<a, b>> \in R \/ <<b, a>> \in R

(* A finite set that is ordered, as a sequence.                            *)
LEMMA RankedInOrder ==
    ASSUME NEW S, IsFiniteSet(S), NEW R, Orders(R, S)
    PROVE  /\ Ranked(S, R) \in [1..Cardinality(S) -> S]
           /\ \A n \in S : \E i \in 1..Cardinality(S) : Ranked(S, R)[i] = n
           /\ \A i, j \in 1..Cardinality(S) : i < j => <<Ranked(S, R)[i], Ranked(S, R)[j]>> \in R
<1> DEFINE Below(n) == {m \in S : <<m, n>> \in R}
           N == Cardinality(S)
           f == [n \in S |-> Cardinality(Below(n)) + 1]
           s == Ranked(S, R)
<1>1. N \in Nat
  BY FS_CardinalityType
<1>2. ASSUME NEW n \in S
      PROVE  IsFiniteSet(Below(n)) /\ Cardinality(Below(n)) \in Nat /\ Cardinality(Below(n)) < N
  <2>1. IsFiniteSet(S \ {n}) /\ Cardinality(S \ {n}) = N - 1
    BY FS_RemoveElement
  <2>2. Below(n) \in SUBSET (S \ {n})
    BY DEF Orders
  <2>3. IsFiniteSet(Below(n)) /\ Cardinality(Below(n)) <= N - 1
    <3> HIDE DEF Below
    <3> QED BY <2>1, <2>2, FS_Subset
  <2>4. Cardinality(Below(n)) \in Nat
    <3> HIDE DEF Below
    <3> QED BY <2>3, FS_CardinalityType
  <2> QED BY <2>3, <2>4, <1>1
<1>3. ASSUME NEW a \in S, NEW b \in S, <<a, b>> \in R
      PROVE  Cardinality(Below(a)) < Cardinality(Below(b))
  <2>1. Below(a) \in SUBSET Below(b) /\ Below(a) # Below(b)
    <3>1. a \in Below(b) /\ a \notin Below(a)
      BY <1>3 DEF Orders
    <3>2. Below(a) \subseteq Below(b)
      BY <1>3 DEF Orders
    <3> QED BY <3>1, <3>2
  <2>2. IsFiniteSet(Below(b)) /\ Cardinality(Below(a)) \in Nat /\ Cardinality(Below(b)) \in Nat
    BY <1>2
  <2>3. Cardinality(Below(a)) <= Cardinality(Below(b)) /\ Cardinality(Below(a)) # Cardinality(Below(b))
    <3> HIDE DEF Below
    <3> QED BY <2>1, <2>2, FS_Subset
  <2> HIDE DEF Below
  <2> QED BY <2>2, <2>3
<1>4. f \in [S -> 1..N]
  <2>1. \A n \in S : Cardinality(Below(n)) + 1 \in 1..N
    <3> HIDE DEF Below, N
    <3> QED BY <1>1, <1>2
  <2> HIDE DEF Below, N
  <2> QED BY <2>1
<1>5. \A a, b \in S : f[a] = f[b] => a = b
  <2> SUFFICES ASSUME NEW a \in S, NEW b \in S, f[a] = f[b] PROVE a = b
    OBVIOUS
  <2>1. Cardinality(Below(a)) = Cardinality(Below(b))
    <3>1. Cardinality(Below(a)) \in Nat /\ Cardinality(Below(b)) \in Nat
      BY <1>2
    <3> HIDE DEF Below
    <3> QED BY <3>1
  <2>2. Cardinality(Below(a)) \in Nat
    BY <1>2
  <2>3. ~ (<<a, b>> \in R) /\ ~ (<<b, a>> \in R)
    <3> HIDE DEF Below
    <3> QED BY <1>3, <2>1, <2>2
  <2> QED BY <2>3 DEF Orders
<1>6. \A i \in 1..N : \E n \in S : f[n] = i
  <2>1. f \in Injection(S, 1..N)
    <3> HIDE DEF f
    <3> QED BY <1>4, <1>5 DEF Injection, IsInjective
  <2>2. IsFiniteSet(1..N) /\ Cardinality(1..N) = N
    <3> HIDE DEF N
    <3> QED BY <1>1, FS_Interval
  <2>3. f \in Surjection(S, 1..N)
    <3> HIDE DEF f
    <3> QED BY <2>1, <2>2, FS_Injection
  <2> HIDE DEF f, N
  <2> QED BY <2>3 DEF Surjection
<1>7. ASSUME NEW i \in 1..N PROVE s[i] \in S /\ f[s[i]] = i
  <2>1. PICK n \in S : f[n] = i
    BY <1>6
  <2>2. Cardinality(Below(n)) = i - 1
    <3>1. Cardinality(Below(n)) \in Nat
      BY <1>2
    <3> HIDE DEF Below
    <3> QED BY <2>1, <3>1
  <2>3. s[i] = CHOOSE m \in S : Cardinality(Below(m)) = i - 1
    BY DEF Ranked
  <2>4. s[i] \in S /\ Cardinality(Below(s[i])) = i - 1
    <3> HIDE DEF Below
    <3> QED BY <2>2, <2>3
  <2> HIDE DEF Below
  <2> QED BY <2>4
<1>8. s \in [1..N -> S]
  <2> DEFINE c(i) == CHOOSE n \in S : Cardinality({m \in S : <<m, n>> \in R}) = i - 1
  <2>0. s = [i \in 1..N |-> c(i)]
    BY DEF Ranked
  <2>1. s = [i \in 1..N |-> s[i]]
    <3> HIDE DEF c, s
    <3> QED BY <2>0
  <2> HIDE DEF s
  <2> QED BY <1>7, <2>1
<1>9. ASSUME NEW n \in S PROVE \E i \in 1..N : s[i] = n
  <2>1. f[n] \in 1..N
    BY <1>4
  <2>2. s[f[n]] \in S /\ f[s[f[n]]] = f[n]
    <3> HIDE DEF f
    <3> QED BY <1>7, <2>1
  <2>3. s[f[n]] = n
    <3> HIDE DEF f
    <3> QED BY <1>5, <2>2
  <2> HIDE DEF f
  <2> QED BY <2>1, <2>3
<1>10. ASSUME NEW i \in 1..N, NEW j \in 1..N, i < j PROVE <<s[i], s[j]>> \in R
  <2>1. s[i] \in S /\ s[j] \in S /\ f[s[i]] = i /\ f[s[j]] = j
    BY <1>7
  <2>2. s[i] # s[j] /\ ~ (<<s[j], s[i]>> \in R)
    <3>1. s[i] # s[j]
      <4> HIDE DEF f
      <4> QED BY <1>10, <2>1
    <3>2. ASSUME <<s[j], s[i]>> \in R PROVE FALSE
      <4>1. Cardinality(Below(s[j])) < Cardinality(Below(s[i]))
        BY <1>3, <2>1, <3>2
      <4>2. Cardinality(Below(s[j])) \in Nat /\ Cardinality(Below(s[i])) \in Nat
        BY <1>2, <2>1
      <4>3. Cardinality(Below(s[i])) + 1 = i /\ Cardinality(Below(s[j])) + 1 = j
        BY <2>1
      <4> HIDE DEF Below, s
      <4> QED BY <1>10, <4>1, <4>2, <4>3
    <3> QED BY <3>1, <3>2
  <2> QED BY <2>1, <2>2 DEF Orders
<1> HIDE DEF s, N
<1> QED BY <1>8, <1>9, <1>10 DEF s, N

-----------------------------------------------------------------------------

(* There are two indices for each of finitely many resolvents.             *)
LEMMA IndicesAreFinite == IsFiniteSet(Indices)
<1> DEFINE P == Resolvents \X {"fetched", "done"}
           f == [p \in P |-> [resolvent |-> p[1], role |-> p[2]]]
<1>1. IsFiniteSet({"fetched", "done"})
  <2>1. IsFiniteSet({"fetched"} \cup {"done"})
    BY FS_Singleton, FS_AddElement
  <2>2. {"fetched"} \cup {"done"} = {"fetched", "done"}
    OBVIOUS
  <2> QED BY <2>1, <2>2
<1>2. IsFiniteSet(P)
  BY <1>1, FS_Product, ResolventsAssumption
<1>3. f \in [P -> Indices]
  BY DEF Indices
<1>4. ASSUME NEW n \in Indices PROVE \E p \in P : f[p] = n
  <2>1. <<n.resolvent, n.role>> \in P /\ n = [resolvent |-> n.resolvent, role |-> n.role]
    BY DEF Indices
  <2>2. f[<<n.resolvent, n.role>>] = n
    BY <2>1
  <2> QED BY <2>1, <2>2
<1>5. f \in Surjection(P, Indices)
  <2> HIDE DEF P, f
  <2> QED BY <1>3, <1>4 DEF Surjection
<1> HIDE DEF P, f
<1> QED BY <1>2, <1>5, FS_Surjection

(* operator< of NAGIndex *)
LEMMA IndexOrder ==
    /\ \A a \in Indices : ~ Precedes(a, a)
    /\ \A a, b, c \in Indices : Precedes(a, b) /\ Precedes(b, c) => Precedes(a, c)
    /\ \A a, b \in Indices : a = b \/ Precedes(a, b) \/ Precedes(b, a)
<1>1. ASSUME NEW a \in Indices
      PROVE  /\ a.resolvent \in Nat
             /\ a.role \in {"fetched", "done"}
             /\ a = [resolvent |-> a.resolvent, role |-> a.role]
  <2>1. a.resolvent \in Resolvents
    BY DEF Indices
  <2>2. a.role \in {"fetched", "done"} /\ a = [resolvent |-> a.resolvent, role |-> a.role]
    BY DEF Indices
  <2> QED BY <2>1, <2>2, ResolventsAssumption
<1>2. \A a \in Indices : ~ Precedes(a, a)
  BY <1>1 DEF Precedes
<1>3. \A a, b, c \in Indices : Precedes(a, b) /\ Precedes(b, c) => Precedes(a, c)
  BY <1>1 DEF Precedes
<1>4. ASSUME NEW a \in Indices, NEW b \in Indices, ~ Precedes(a, b), ~ Precedes(b, a)
      PROVE  a = b
  <2>1. a.resolvent = b.resolvent
    BY <1>1, <1>4 DEF Precedes
  <2>2. a.role = b.role
    BY <1>1, <1>4, <2>1 DEF Precedes
  <2> QED BY <1>1, <2>1, <2>2
<1> QED BY <1>2, <1>3, <1>4

(* Indices in their order, each once.                                      *)
LEMMA InOrderEnumerates ==
    ASSUME NEW S \in SUBSET Indices
    PROVE  /\ IsFiniteSet(S)
           /\ Cardinality(S) \in Nat
           /\ InOrder(S) \in [1..Cardinality(S) -> S]
           /\ \A n \in S : \E i \in 1..Cardinality(S) : InOrder(S)[i] = n
           /\ \A i, j \in 1..Cardinality(S) : i < j => Precedes(InOrder(S)[i], InOrder(S)[j])
<1> DEFINE R == {e \in S \X S : Precedes(e[1], e[2])}
<1>1. IsFiniteSet(S) /\ Cardinality(S) \in Nat
  BY IndicesAreFinite, FS_Subset, FS_CardinalityType
<1>2. \A a, b \in S : <<a, b>> \in R <=> Precedes(a, b)
  OBVIOUS
<1>3. Orders(R, S)
  <2> HIDE DEF R
  <2> QED BY <1>2, IndexOrder DEF Orders
<1>4. InOrder(S) = Ranked(S, R)
  BY DEF InOrder
<1> DEFINE s == Ranked(S, R)
           N == Cardinality(S)
<1>5. /\ s \in [1..N -> S]
      /\ \A n \in S : \E i \in 1..N : s[i] = n
      /\ \A i, j \in 1..N : i < j => <<s[i], s[j]>> \in R
  <2> HIDE DEF R
  <2> QED BY <1>1, <1>3, RankedInOrder
<1>6. \A i, j \in 1..N : i < j => Precedes(s[i], s[j])
  <2> HIDE DEF R, s, N
  <2> QED BY <1>2, <1>5
<1> HIDE DEF R
<1> QED BY <1>1, <1>4, <1>5, <1>6

(* Of some indices, one is first.                                          *)
LEMMA FirstIsFirst ==
    ASSUME NEW S \in SUBSET Indices, S # {}
    PROVE  /\ First(S) \in S
           /\ \A m \in S : m = First(S) \/ Precedes(First(S), m)
<1> DEFINE s == InOrder(S)
           N == Cardinality(S)
<1>1. /\ N \in Nat
      /\ s \in [1..N -> S]
      /\ \A n \in S : \E i \in 1..N : s[i] = n
      /\ \A i, j \in 1..N : i < j => Precedes(s[i], s[j])
  BY InOrderEnumerates
<1>2. 1 \in 1..N
  <2> HIDE DEF s, N
  <2>1. PICK i \in 1..N : TRUE
    BY <1>1
  <2> QED BY <1>1, <2>1
<1>3. s[1] \in S /\ \A m \in S : m = s[1] \/ Precedes(s[1], m)
  <2> HIDE DEF s, N
  <2>1. ASSUME NEW m \in S PROVE m = s[1] \/ Precedes(s[1], m)
    <3>1. PICK i \in 1..N : s[i] = m
      BY <1>1
    <3>2. i = 1 \/ 1 < i
      BY <1>1
    <3> QED BY <1>1, <1>2, <3>1, <3>2
  <2> QED BY <1>1, <1>2, <2>1
<1>4. \E n \in S : \A m \in S : m = n \/ Precedes(n, m)
  BY <1>3
<1> QED BY <1>4 DEF First

(* Components are nonempty sets of nodes, no two of which share a node. *)
Apart(all) ==
    /\ \A c \in all : c # {} /\ c \subseteq Indices
    /\ \A c, d \in all : c = d \/ c \cap d = {}

(* Scores can be compared.                                                 *)
LEMMA ScoresAreNumbers ==
    ASSUME NEW c \in SUBSET Indices, c # {}, NEW early
    PROVE  BestScore(c, early) \in Nat
<1>1. \A n \in c : Score(n, early) \in Nat
  BY DEF Score
<1> DEFINE T == {Score(n, early) : n \in c}
<1>2. T \in SUBSET Nat /\ T # {}
  BY <1>1
<1>3. \E s \in T : \A t \in T : s <= t
  <2> HIDE DEF T
  <2> QED BY <1>2, LeastNatural
<1>4. \E s \in {Score(n, early) : n \in c} : \A n \in c : s <= Score(n, early)
  BY <1>3
<1> QED BY <1>2, <1>4 DEF BestScore

(* Sets that share nothing have different representatives.                 *)
LEMMA FirstsDiffer ==
    ASSUME NEW all, Apart(all), NEW c \in all, NEW d \in all
    PROVE  /\ First(c) \in Indices
           /\ First(c) = First(d) => c = d
<1>1. First(c) \in c /\ First(d) \in d /\ c \subseteq Indices
  BY FirstIsFirst DEF Apart
<1> QED BY <1>1 DEF Apart

(* By score and representative, components are ordered.                    *)
LEMMA ComponentOrder ==
    ASSUME NEW all, Apart(all), NEW early
    PROVE  /\ Orders({e \in all \X all : OrderedBefore(e[1], e[2], early)}, all)
           /\ Orders({e \in all \X all : Precedes(First(e[1]), First(e[2]))}, all)
<1> DEFINE R == {e \in all \X all : OrderedBefore(e[1], e[2], early)}
           Q == {e \in all \X all : Precedes(First(e[1]), First(e[2]))}
<1>1. \A c, d \in all : <<c, d>> \in R <=> OrderedBefore(c, d, early)
  OBVIOUS
<1>2. \A c, d \in all : <<c, d>> \in Q <=> Precedes(First(c), First(d))
  OBVIOUS
<1>3. \A c \in all : BestScore(c, early) \in Nat
  BY ScoresAreNumbers DEF Apart
<1>4. \A c, d \in all : First(c) \in Indices /\ (First(c) = First(d) => c = d)
  BY FirstsDiffer
<1>5. Orders(Q, all)
  <2> HIDE DEF Q
  <2>1. \A c \in all : <<c, c>> \notin Q
    BY <1>2, <1>4, IndexOrder
  <2>2. \A b, c, d \in all : <<b, c>> \in Q /\ <<c, d>> \in Q => <<b, d>> \in Q
    BY <1>2, <1>4, IndexOrder
  <2>3. \A c, d \in all : c = d \/ <<c, d>> \in Q \/ <<d, c>> \in Q
    BY <1>2, <1>4, IndexOrder
  <2> QED BY <2>1, <2>2, <2>3 DEF Orders
<1>6. Orders(R, all)
  <2>0. \A c, d \in all : <<c, d>> \in R <=> 
           \/ BestScore(c, early) < BestScore(d, early)
           \/ BestScore(c, early) = BestScore(d, early) /\ <<c, d>> \in Q
    BY DEF OrderedBefore
  <2> HIDE DEF Q, R
  <2>5. \A c \in all : <<c, c>> \notin Q
    BY <1>5 DEF Orders
  <2>6. \A b, c, d \in all : <<b, c>> \in Q /\ <<c, d>> \in Q => <<b, d>> \in Q
    BY <1>5 DEF Orders
  <2>7. \A c, d \in all : c = d \/ <<c, d>> \in Q \/ <<d, c>> \in Q
    BY <1>5 DEF Orders
  <2>1. ASSUME NEW c \in all PROVE <<c, c>> \notin R
    <3> SUFFICES ASSUME NEW d \in all, <<c, d>> \in R PROVE c # d
      OBVIOUS
    <3>1. BestScore(c, early) \in Nat /\ BestScore(d, early) \in Nat
      BY <1>3
    <3>2. BestScore(c, early) # BestScore(d, early) \/ <<c, d>> \in Q
      BY <2>0, <3>1
    <3> QED BY <2>5, <3>2
  <2>2. ASSUME NEW b \in all, NEW c \in all, NEW d \in all, <<b, c>> \in R, <<c, d>> \in R
        PROVE  <<b, d>> \in R
    <3>1. BestScore(b, early) \in Nat /\ BestScore(c, early) \in Nat /\ BestScore(d, early) \in Nat
      BY <1>3
    <3>2. BestScore(b, early) < BestScore(c, early) \/ (BestScore(b, early) = BestScore(c, early) /\ <<b, c>> \in Q)
      BY <2>0, <2>2
    <3>3. BestScore(c, early) < BestScore(d, early) \/ (BestScore(c, early) = BestScore(d, early) /\ <<c, d>> \in Q)
      BY <2>0, <2>2
    <3>4. BestScore(b, early) < BestScore(d, early)
            \/ (BestScore(b, early) = BestScore(d, early) /\ <<b, c>> \in Q /\ <<c, d>> \in Q)
      BY <3>1, <3>2, <3>3
    <3> QED BY <2>0, <2>6, <3>4
  <2>3. ASSUME NEW c \in all, NEW d \in all PROVE c = d \/ <<c, d>> \in R \/ <<d, c>> \in R
    <3>1. BestScore(c, early) \in Nat /\ BestScore(d, early) \in Nat
      BY <1>3
    <3>2. \/ BestScore(c, early) < BestScore(d, early) \/ BestScore(d, early) < BestScore(c, early)
          \/ BestScore(c, early) = BestScore(d, early)
      BY <3>1
    <3> QED BY <2>0, <2>7, <3>2
  <2> QED BY <2>1, <2>2, <2>3 DEF Orders
<1> QED BY <1>5, <1>6

(* Some of several sets that share nothing.                                *)
LEMMA ApartSubset ==
    ASSUME NEW all, Apart(all), NEW some \in SUBSET all
    PROVE  Apart(some)
BY DEF Apart

(* Of the components that can be ordered, one is the best.                 *)
LEMMA OrderingNowIsOrderable ==
    ASSUME NEW some, Apart(some), IsFiniteSet(some), some # {}, NEW early
    PROVE  OrderingNow(some, early) \in some
<1> DEFINE R == {e \in some \X some : OrderedBefore(e[1], e[2], early)}
           s == Ranked(some, R)
           N == Cardinality(some)
<1>1. Orders(R, some)
  BY ComponentOrder
<1>2. /\ s \in [1..N -> some]
      /\ \A c \in some : \E i \in 1..N : s[i] = c
      /\ \A i, j \in 1..N : i < j => <<s[i], s[j]>> \in R
  <2> HIDE DEF R
  <2> QED BY <1>1, RankedInOrder
<1>3. N \in Nat
  BY FS_CardinalityType
<1>4. \A e \in R : OrderedBefore(e[1], e[2], early)
  OBVIOUS
<1>5. s[1] \in some /\ \A d \in some \ {s[1]} : OrderedBefore(s[1], d, early)
  <2> HIDE DEF s, N, R
  <2>1. 1 \in 1..N
    <3>1. PICK i \in 1..N : TRUE
      BY <1>2
    <3> QED BY <1>3, <3>1
  <2>2. ASSUME NEW d \in some, d # s[1] PROVE OrderedBefore(s[1], d, early)
    <3>1. PICK i \in 1..N : s[i] = d
      BY <1>2
    <3>2. <<s[1], s[i]>> \in R
      <4>1. 1 < i
        BY <1>3, <2>2, <3>1
      <4> QED BY <4>1, <1>2, <2>1
    <3> QED BY <1>4, <3>1, <3>2
  <2> QED BY <1>2, <2>1, <2>2
<1>6. \E c \in some : \A d \in some \ {c} : OrderedBefore(c, d, early)
  BY <1>5
<1> QED BY <1>6 DEF OrderingNow

(* Components by their representatives, each once.                         *)
LEMMA SCCsInOrderEnumerates ==
    ASSUME NEW S, Apart(S), IsFiniteSet(S)
    PROVE  /\ Cardinality(S) \in Nat
           /\ SCCsInOrder(S) \in [1..Cardinality(S) -> S]
           /\ \A n \in S : \E i \in 1..Cardinality(S) : SCCsInOrder(S)[i] = n
           /\ \A i, j \in 1..Cardinality(S) : i # j => SCCsInOrder(S)[i] # SCCsInOrder(S)[j]
<1> DEFINE R == {e \in S \X S : Precedes(First(e[1]), First(e[2]))}
           s == Ranked(S, R)
           N == Cardinality(S)
<1>1. Orders(R, S)
  <2> DEFINE early == {}
  <2> QED BY ComponentOrder
<1>2. N \in Nat
  BY FS_CardinalityType
<1>3. /\ s \in [1..N -> S]
      /\ \A n \in S : \E i \in 1..N : s[i] = n
      /\ \A i, j \in 1..N : i < j => <<s[i], s[j]>> \in R
  <2> HIDE DEF R
  <2> QED BY <1>1, RankedInOrder
<1>4. \A i, j \in 1..N : i # j => s[i] # s[j]
  <2> SUFFICES ASSUME NEW i \in 1..N, NEW j \in 1..N, i < j PROVE s[i] # s[j]
    <3> HIDE DEF s, N
    <3> QED BY <1>2
  <2>1. <<s[i], s[j]>> \in R /\ s[i] \in S
    <3> HIDE DEF s, N, R
    <3> QED BY <1>3
  <2> HIDE DEF s, R
  <2> QED BY <1>1, <2>1 DEF Orders
<1>5. SCCsInOrder(S) = s
  BY DEF SCCsInOrder
<1> HIDE DEF R
<1> QED BY <1>2, <1>3, <1>4, <1>5

-----------------------------------------------------------------------------

Paths(node, pairs) ==
    /\ pairs \subseteq Connected(node, pairs)
    /\ Connected(node, pairs) \subseteq node \X node
    /\ \A a, b, c \in node :
          <<a, b>> \in Connected(node, pairs) /\ <<b, c>> \in Connected(node, pairs) =>
              <<a, c>> \in Connected(node, pairs)

(* Connected, without its enumeration.                                     *)
LEMMA ConnectedMeans ==
    ASSUME NEW node, NEW pairs
    PROVE  \A a, b : <<a, b>> \in Connected(node, pairs) <=>
              /\ a \in node /\ b \in node
              /\ \A S \in ClosedSets(node, pairs) : Direct(a, pairs) \subseteq S => b \in S
<1> DEFINE closed == ClosedSets(node, pairs)
           around(n) == {S \in closed : Direct(n, pairs) \subseteq S}
           reached(n) == {m \in node : \A S \in around(n) : m \in S}
<1>1. Connected(node, pairs) = UNION {{n} \X reached(n) : n \in node}
  BY DEF Connected
<1>2. \A a, b : <<a, b>> \in UNION {{n} \X reached(n) : n \in node} <=> a \in node /\ b \in reached(a)
  <2> HIDE DEF reached
  <2> QED OBVIOUS
<1>3. \A a, b : b \in reached(a) <=>
         b \in node /\ \A S \in closed : Direct(a, pairs) \subseteq S => b \in S
  <2> HIDE DEF closed
  <2> QED OBVIOUS
<1> HIDE DEF reached
<1> QED BY <1>1, <1>2, <1>3

(* Connected has the edges, is between nodes, and is transitive.           *)
LEMMA ConnectedPaths ==
    ASSUME NEW node, NEW pairs \in SUBSET (node \X node)
    PROVE  Paths(node, pairs)
<1> DEFINE C == Connected(node, pairs)
<1>1. ASSUME NEW e \in pairs PROVE e \in C
  <2>1. e = <<e[1], e[2]>> /\ e[1] \in node /\ e[2] \in node /\ e[2] \in Direct(e[1], pairs)
    BY DEF Direct
  <2>2. <<e[1], e[2]>> \in C
    BY <2>1, ConnectedMeans
  <2> QED BY <2>1, <2>2
<1>2. C \subseteq node \X node
  <2> DEFINE closed == ClosedSets(node, pairs)
             around(n) == {S \in closed : Direct(n, pairs) \subseteq S}
             reached(n) == {m \in node : \A S \in around(n) : m \in S}
  <2>1. C = UNION {{n} \X reached(n) : n \in node}
    BY DEF Connected
  <2>2. \A n : reached(n) \subseteq node
    OBVIOUS
  <2> HIDE DEF reached, C
  <2> QED BY <2>1, <2>2
<1>3. ASSUME NEW a \in node, NEW b \in node, NEW c \in node, <<a, b>> \in C, <<b, c>> \in C
      PROVE  <<a, c>> \in C
  <2> SUFFICES ASSUME NEW S \in ClosedSets(node, pairs), Direct(a, pairs) \subseteq S
               PROVE  c \in S
    BY ConnectedMeans
  <2>1. b \in S
    BY <1>3, ConnectedMeans
  <2>2. Direct(b, pairs) \subseteq S
    BY <2>1 DEF Direct, ClosedSets
  <2> QED BY <1>3, <2>2, ConnectedMeans
<1> HIDE DEF C
<1> QED BY <1>1, <1>2, <1>3 DEF Paths, C

(* Whatever has the heads of the edges of a and is closed has what a reaches. *)
LEMMA ConnectedIsLeast ==
    ASSUME NEW node, NEW pairs, NEW S \in SUBSET node,
           \A e \in pairs : e[1] \in S => e[2] \in S,
           NEW a, NEW b, <<a, b>> \in Connected(node, pairs), Direct(a, pairs) \subseteq S
    PROVE  b \in S
<1>1. S \in ClosedSets(node, pairs)
  BY DEF ClosedSets
<1> QED BY <1>1, ConnectedMeans

(* Every path has a last edge.                                             *)
LEMMA LastEdge ==
    ASSUME NEW node, NEW pairs \in SUBSET (node \X node),
           NEW a, NEW b, <<a, b>> \in Connected(node, pairs)
    PROVE  \E e \in pairs : e[2] = b /\ (e[1] = a \/ <<a, e[1]>> \in Connected(node, pairs))
<1> DEFINE C == Connected(node, pairs)
           S == {m \in node : \E e \in pairs : e[2] = m /\ (e[1] = a \/ <<a, e[1]>> \in C)}
<1>0. /\ Paths(node, pairs)
      /\ a \in node
  BY ConnectedPaths, ConnectedMeans
<1>1. Direct(a, pairs) \subseteq S
  BY DEF Direct
<1>2. ASSUME NEW e \in pairs, e[1] \in S PROVE e[2] \in S
  <2>1. PICK f \in pairs : f[2] = e[1] /\ (f[1] = a \/ <<a, f[1]>> \in C)
    BY <1>2
  <2>2. f = <<f[1], f[2]>> /\ f[1] \in node /\ f[2] \in node /\ f \in C /\ e[2] \in node
    BY <1>0 DEF Paths
  <2>3. <<a, e[1]>> \in C
    <3> HIDE DEF C
    <3> QED BY <2>1, <2>2, <1>0 DEF Paths, C
  <2> QED BY <2>2, <2>3
<1>3. b \in S
  <2>1. S \in SUBSET node
    OBVIOUS
  <2> HIDE DEF S
  <2> QED BY <1>1, <1>2, <2>1, ConnectedIsLeast
<1> QED BY <1>3

(* A path in a part of a graph is one in the graph.                        *)
LEMMA ConnectedInPart ==
    ASSUME NEW node, NEW pairs, NEW part \in SUBSET node, NEW some \in SUBSET pairs,
           some \subseteq part \X part
    PROVE  Connected(part, some) \subseteq Connected(node, pairs)
<1>1. ASSUME NEW a, NEW b, <<a, b>> \in Connected(part, some)
      PROVE  <<a, b>> \in Connected(node, pairs)
  <2>0. a \in part /\ b \in part
    BY <1>1, ConnectedMeans
  <2> SUFFICES ASSUME NEW S \in ClosedSets(node, pairs), Direct(a, pairs) \subseteq S
               PROVE  b \in S
    BY <2>0, ConnectedMeans
  <2> DEFINE T == S \cap part
  <2>1. T \in SUBSET part /\ \A e \in some : e[1] \in T => e[2] \in T
    BY DEF ClosedSets
  <2>2. Direct(a, some) \subseteq T
    BY DEF Direct
  <2>3. b \in T
    <3> HIDE DEF T
    <3> QED BY <1>1, <2>1, <2>2, ConnectedIsLeast
  <2> QED BY <2>3
<1>2. Connected(part, some) \subseteq part \X part
  <2>1. some \in SUBSET (part \X part)
    OBVIOUS
  <2> QED BY <2>1, ConnectedPaths DEF Paths
<1>3. \A e \in Connected(part, some) : e = <<e[1], e[2]>>
  BY <1>2
<1> QED BY <1>1, <1>3

IsGraph(g) == g.node \in SUBSET Indices /\ DOMAIN g.edge \in SUBSET (g.node \X g.node)

(* The strongly connected components part the nodes. *)
SCCsPart(g, all, C) ==
    /\ Apart(all)
    /\ IsFiniteSet(all)
    /\ UNION all = g.node
    /\ \A c \in all : \A a, b \in c : a = b \/ <<a, b>> \in C
    /\ \A c, d \in all : \A a \in c, b \in d : <<a, b>> \in C /\ <<b, a>> \in C => c = d

(* Every node is in one component, that of all it needs and is needed by.  *)
LEMMA ComponentsPart ==
    ASSUME NEW g, IsGraph(g)
    PROVE  SCCsPart(g, SCCs(g), Connected(g.node, DOMAIN g.edge))
<1> DEFINE C == Connected(g.node, DOMAIN g.edge)
           of(n) == {n} \cup {m \in g.node : <<n, m>> \in C /\ <<m, n>> \in C}
           all == SCCs(g)
<1>1. all = {of(n) : n \in g.node}
  BY DEF SCCs
<1>2. /\ \A a, b, c \in g.node : <<a, b>> \in C /\ <<b, c>> \in C => <<a, c>> \in C
  BY ConnectedPaths DEF Paths, IsGraph
<1>3. \A n \in g.node : \A m \in of(n) : m \in g.node /\ (m = n \/ (<<n, m>> \in C /\ <<m, n>> \in C))
  <2> HIDE DEF C
  <2> QED OBVIOUS
<1>4. ASSUME NEW n \in g.node, NEW k \in g.node, NEW a \in of(n), NEW b \in of(k),
             a = b \/ (<<a, b>> \in C /\ <<b, a>> \in C)
      PROVE  of(n) = of(k)
  <2> HIDE DEF C
  <2>1. n = k \/ (<<n, k>> \in C /\ <<k, n>> \in C)
    <3>1. a \in g.node /\ b \in g.node
      BY <1>3
    <3>2. a = n \/ (<<n, a>> \in C /\ <<a, n>> \in C)
      BY <1>3
    <3>3. b = k \/ (<<k, b>> \in C /\ <<b, k>> \in C)
      BY <1>3
    <3> HIDE DEF of
    <3>4. a = k \/ (<<a, k>> \in C /\ <<k, a>> \in C)
      BY <1>2, <1>4, <3>1, <3>3
    <3> QED BY <1>2, <3>1, <3>2, <3>4
  <2>2. \A m \in g.node : (<<n, m>> \in C /\ <<m, n>> \in C) \/ m = n <=> 
                            (<<k, m>> \in C /\ <<m, k>> \in C) \/ m = k
    <3> HIDE DEF of
    <3> QED BY <1>2, <2>1
  <2> QED BY <2>2
<1>5. \A c \in all : \A a, b \in c : a = b \/ <<a, b>> \in C
  <2> SUFFICES ASSUME NEW n \in g.node, NEW a \in of(n), NEW b \in of(n) PROVE a = b \/ <<a, b>> \in C
    <3> HIDE DEF C, of, all
    <3> QED BY <1>1
  <2> HIDE DEF C, of
  <2> QED BY <1>2, <1>3
<1>6. ASSUME NEW c \in all, NEW d \in all, NEW a \in c, NEW b \in d,
             a = b \/ (<<a, b>> \in C /\ <<b, a>> \in C)
      PROVE  c = d
  <2>1. PICK n \in g.node : c = of(n)
    BY <1>1
  <2>2. PICK k \in g.node : d = of(k)
    BY <1>1
  <2>3. a \in of(n) /\ b \in of(k)
    BY <2>1, <2>2
  <2> HIDE DEF of, C
  <2> QED BY <1>4, <1>6, <2>1, <2>2, <2>3
<1>7. \A c \in all : c # {} /\ c \subseteq g.node
  <2> SUFFICES ASSUME NEW n \in g.node PROVE of(n) # {} /\ of(n) \subseteq g.node
    <3> HIDE DEF of
    <3> QED BY <1>1
  <2> HIDE DEF C
  <2> QED OBVIOUS
<1>8. Apart(all)
  <2>1. \A c \in all : c # {} /\ c \subseteq Indices
    BY <1>7 DEF IsGraph
  <2>2. \A c, d \in all : c = d \/ c \cap d = {}
    <3> HIDE DEF all, C
    <3> QED BY <1>6
  <2> QED BY <2>1, <2>2 DEF Apart
<1>9. IsFiniteSet(all)
  <2>1. all \in SUBSET (SUBSET Indices)
    BY <1>7 DEF IsGraph
  <2>2. IsFiniteSet(SUBSET Indices)
    BY IndicesAreFinite, FS_SUBSET
  <2> HIDE DEF all
  <2> QED BY <2>1, <2>2, FS_Subset
<1>10. UNION all = g.node
  <2>1. \A n \in g.node : of(n) \in all /\ n \in of(n)
    BY <1>1
  <2> HIDE DEF all, of
  <2> QED BY <1>7, <2>1
<1> HIDE DEF C, of, all
<1> QED BY <1>5, <1>6, <1>8, <1>9, <1>10 DEF SCCsPart, C, all

(* Components do not need one another in circles. *)
LEMMA SomethingIsOrderable ==
    ASSUME NEW g, IsGraph(g), NEW done \in SUBSET SCCs(g), done # SCCs(g)
    PROVE  \E c \in SCCs(g) \ done : Needs(SCCs(g), DOMAIN g.edge)[c] \subseteq done
<1> DEFINE all == SCCs(g)
           C == Connected(g.node, DOMAIN g.edge)
           R(c) == {m \in g.node : m \in c \/ \E n \in c : <<n, m>> \in C}
           T == {Cardinality(R(c)) : c \in all \ done}
<1>1. SCCsPart(g, all, C) /\ Paths(g.node, DOMAIN g.edge)
  BY ComponentsPart, ConnectedPaths DEF IsGraph
<1>2. ASSUME NEW c \in all PROVE IsFiniteSet(R(c)) /\ Cardinality(R(c)) \in Nat
  <2>1. R(c) \in SUBSET Indices
    BY DEF IsGraph
  <2> HIDE DEF R
  <2> QED BY <2>1, IndicesAreFinite, FS_Subset, FS_CardinalityType
<1>3. T \in SUBSET Nat /\ T # {}
  <2> HIDE DEF R, all
  <2> QED BY <1>2 DEF all
<1>4. PICK k \in T : \A m \in T : k <= m
  <2> HIDE DEF T
  <2> QED BY <1>3, LeastNatural
<1>5. PICK c \in all \ done : k = Cardinality(R(c))
  <2> HIDE DEF R, all
  <2> QED BY <1>4
<1>6. \A d \in all \ done : Cardinality(R(c)) <= Cardinality(R(d))
  <2> HIDE DEF R, all
  <2> QED BY <1>4, <1>5
<1>7. ASSUME NEW d \in all, d # c, NEW e \in DOMAIN g.edge, e[1] \in c, e[2] \in d
      PROVE  Cardinality(R(d)) < Cardinality(R(c))
  <2>0. e = <<e[1], e[2]>> /\ e[1] \in g.node /\ e[2] \in g.node /\ e \in C
        /\ \A x \in all : x \subseteq g.node
    <3> HIDE DEF all, C
    <3> QED BY <1>1 DEF IsGraph, SCCsPart, Paths, C
  <2> HIDE DEF C
  <2>t. \A x, y, z \in g.node : <<x, y>> \in C /\ <<y, z>> \in C => <<x, z>> \in C
    BY <1>1 DEF Paths, C
  <2>a. \A n \in d : n = e[2] \/ (<<e[2], n>> \in C /\ <<n, e[2]>> \in C)
    <3>1. \A x, y \in d : x = y \/ <<x, y>> \in C
      <4> HIDE DEF all
      <4> QED BY <1>1 DEF SCCsPart
    <3> QED BY <3>1, <1>7
  <2>b. \A n \in d : <<e[1], n>> \in C /\ n \in g.node
    <3>1. d \subseteq g.node
      <4> HIDE DEF all
      <4> QED BY <2>0, <1>7
    <3>2. <<e[1], e[2]>> \in C /\ e[1] \in g.node /\ e[2] \in g.node
      BY <2>0
    <3> QED BY <3>1, <3>2, <2>a, <2>t
  <2>1. R(d) \subseteq R(c)
    <3> SUFFICES ASSUME NEW m \in g.node, m \in d \/ \E n \in d : <<n, m>> \in C
                 PROVE  <<e[1], m>> \in C
      BY <1>7
    <3> QED BY <2>0, <2>b, <2>t
  <2>2. e[1] \in R(c)
    BY <2>0, <1>7
  <2>3. e[1] \notin R(d)
    <3>1. e[1] \notin d
      BY <1>1, <1>7 DEF SCCsPart, Apart
    <3>2. ASSUME NEW n \in d, <<n, e[1]>> \in C PROVE FALSE
      <4>1. <<e[1], n>> \in C
        BY <2>b
      <4>2. c = d
        <5> HIDE DEF all
        <5> QED BY <1>1, <1>7, <3>2, <4>1 DEF SCCsPart
      <4> QED BY <4>2, <1>7
    <3> QED BY <3>1, <3>2
  <2>4. R(d) \in SUBSET R(c) /\ R(d) # R(c)
    <3> HIDE DEF R
    <3> QED BY <2>1, <2>2, <2>3
  <2>5. IsFiniteSet(R(c)) /\ Cardinality(R(c)) \in Nat /\ Cardinality(R(d)) \in Nat
    <3> HIDE DEF R
    <3> QED BY <1>2
  <2>6. Cardinality(R(d)) <= Cardinality(R(c)) /\ Cardinality(R(d)) # Cardinality(R(c))
    <3> HIDE DEF R
    <3> QED BY <2>4, <2>5, FS_Subset
  <2> HIDE DEF R
  <2> QED BY <2>5, <2>6
<1>8. Needs(all, DOMAIN g.edge)[c] \subseteq done
  <2> SUFFICES ASSUME NEW d \in all \ {c}, NEW e \in DOMAIN g.edge, e[1] \in c, e[2] \in d
               PROVE  d \in done
    BY <1>5 DEF Needs
  <2>1. Cardinality(R(d)) < Cardinality(R(c))
    <3> HIDE DEF R, all
    <3> QED BY <1>7
  <2>2. Cardinality(R(d)) \in Nat /\ Cardinality(R(c)) \in Nat
    <3> HIDE DEF R, all
    <3> QED BY <1>2
  <2> HIDE DEF R, all
  <2> QED BY <1>6, <2>1, <2>2
<1> QED BY <1>5, <1>8

-----------------------------------------------------------------------------

Sortings(all) == [result : Seq(all), done : SUBSET all, pending : SUBSET all]

(* What one component needs of others, without circles. *)
Orderly(all, needs) ==
    /\ Apart(all)
    /\ IsFiniteSet(all)
    /\ needs \in [all -> SUBSET all]
    /\ \A done \in SUBSET all : done # all => \E c \in all \ done : needs[c] \subseteq done

(* A function from 1..n is a sequence.                                     *)
LEMMA FunctionIsSequence ==
    ASSUME NEW S, NEW n \in Nat, NEW f \in [1..n -> S]
    PROVE  f \in Seq(S) /\ Len(f) = n /\ DOMAIN f = 1..n
OBVIOUS

(* What a sequence has after two others were appended.                     *)
LEMMA Spliced ==
    ASSUME NEW S, NEW r \in Seq(S), NEW f \in Seq(S), NEW x \in S
    PROVE  /\ (r \o f) \o <<x>> \in Seq(S)
           /\ Len((r \o f) \o <<x>>) = Len(r) + Len(f) + 1
           /\ \A i \in 1..Len(r) : ((r \o f) \o <<x>>)[i] = r[i]
           /\ \A i \in 1..Len(f) : ((r \o f) \o <<x>>)[Len(r) + i] = f[i]
           /\ ((r \o f) \o <<x>>)[Len(r) + Len(f) + 1] = x
<1>1. /\ r \o f \in Seq(S)
      /\ Len(r \o f) = Len(r) + Len(f)
      /\ \A i \in 1..Len(r) : (r \o f)[i] = r[i]
      /\ \A i \in 1..Len(f) : (r \o f)[Len(r) + i] = f[i]
  OBVIOUS
<1> DEFINE q == r \o f
<1>2. /\ q \o <<x>> \in Seq(S)
      /\ Len(q \o <<x>>) = Len(q) + 1
      /\ \A i \in 1..Len(q) : (q \o <<x>>)[i] = q[i]
      /\ (q \o <<x>>)[Len(q) + 1] = x
  <2>1. q \in Seq(S)
    BY <1>1
  <2> HIDE DEF q
  <2> QED BY <2>1
<1>3. Len(r) \in Nat /\ Len(f) \in Nat
  OBVIOUS
<1> HIDE DEF q
<1>4. /\ Len(q) = Len(r) + Len(f)
      /\ \A i \in 1..Len(r) : q[i] = r[i]
      /\ \A i \in 1..Len(f) : q[Len(r) + i] = f[i]
  BY <1>1 DEF q
<1>5. (r \o f) \o <<x>> = q \o <<x>>
  BY DEF q
<1> QED BY <1>2, <1>3, <1>4, <1>5

(* A sequence of the members of S, each of them once. *)
Enumerates(s, S) ==
    /\ s \in Seq(S)
    /\ \A x \in S : \E i \in DOMAIN s : s[i] = x
    /\ \A i, j \in DOMAIN s : s[i] = s[j] => i = j

(* The fetches that go out together are enumerated.                        *)
LEMMA SCCsEnumerated ==
    ASSUME NEW S, Apart(S), IsFiniteSet(S)
    PROVE  Enumerates(SCCsInOrder(S), S)
<1> DEFINE s == SCCsInOrder(S)
           n == Cardinality(S)
<1>1. /\ n \in Nat
      /\ s \in [1..n -> S]
      /\ \A x \in S : \E i \in 1..n : s[i] = x
      /\ \A i, j \in 1..n : i # j => s[i] # s[j]
  BY SCCsInOrderEnumerates
<1> HIDE DEF n, s
<1>2. s \in Seq(S) /\ DOMAIN s = 1..n
  BY <1>1, FunctionIsSequence
<1> QED BY <1>1, <1>2 DEF Enumerates, s

(* A fetch waits; anything else takes along the fetches that it needs. *)
Waits(s, t, now) ==
    /\ IsFetch(now)
    /\ t = [result |-> s.result, done |-> s.done \cup {now}, pending |-> s.pending \cup {now}]

Goes(s, t, now, fetches, F) ==
    /\ ~ IsFetch(now)
    /\ Enumerates(F, fetches)
    /\ t = [result |-> (s.result \o F) \o <<now>>,
            done |-> s.done \cup {now}, pending |-> s.pending \ fetches]

(* A step of the sort takes one more component that can be ordered. *)
Takes(s, t, needs, now) ==
    Waits(s, t, now) \/ \E F : Goes(s, t, now, needs[now] \cap s.pending, F)

OneStep(all, needs, s, t) ==
    \/ s.done = all /\ t = s
    \/ \E now \in all \ s.done : needs[now] \subseteq s.done /\ Takes(s, t, needs, now)

(* A round of the sort orders one component, or finds none.                *)
LEMMA OneIsOrdered ==
    ASSUME NEW all, NEW needs, NEW early, Orderly(all, needs), NEW s \in Sortings(all)
    PROVE  OneStep(all, needs, s, OrderOne(s, needs, early))
<1> DEFINE orderable == OrderableNow(s, needs)
           now == OrderingNow(orderable, early)
           one == OrderOne(s, needs, early)
           fetches == needs[now] \cap s.pending
<1>1. orderable = {c \in all \ s.done : needs[c] \subseteq s.done}
  BY DEF OrderableNow, Orderly
<1>2. s = [result |-> s.result, done |-> s.done, pending |-> s.pending]
      /\ s.result \in Seq(all) /\ s.done \in SUBSET all /\ s.pending \in SUBSET all
  BY DEF Sortings
<1>3. CASE orderable = {}
  <2>1. s.done = all
    BY <1>1, <1>2, <1>3 DEF Orderly
  <2>2. one = s
    BY <1>3 DEF OrderOne
  <2> HIDE DEF one
  <2> QED BY <2>1, <2>2 DEF OneStep, one
<1>4. CASE orderable # {}
  <2>1. now \in orderable
    <3>1. orderable \in SUBSET all
      BY <1>1
    <3>2. Apart(orderable) /\ IsFiniteSet(orderable)
      <4> HIDE DEF orderable
      <4> QED BY <3>1, ApartSubset, FS_Subset DEF Orderly
    <3> HIDE DEF orderable
    <3> QED BY <3>2, <1>4, OrderingNowIsOrderable
  <2>2. now \in all \ s.done /\ needs[now] \subseteq s.done /\ needs[now] \in SUBSET all
    <3>1. now \in all \ s.done /\ needs[now] \subseteq s.done
      <4> HIDE DEF orderable, now
      <4> QED BY <1>1, <2>1
    <3> HIDE DEF now
    <3> QED BY <3>1 DEF Orderly
  <2> DEFINE ordered == [s EXCEPT !.done = @ \cup {now}]
  <2>3. ordered = [result |-> s.result, done |-> s.done \cup {now}, pending |-> s.pending]
    <3>1. PICK r, d, p : s = [result |-> r, done |-> d, pending |-> p]
      BY <1>2
    <3>2. s.result = r /\ s.done = d /\ s.pending = p
      BY <3>1
    <3>3. [s EXCEPT !.done = d \cup {now}] = [result |-> r, done |-> d \cup {now}, pending |-> p]
      <4> HIDE DEF now
      <4> QED BY <3>1
    <3> QED BY <3>2, <3>3
  <2>4. one = IF IsFetch(now) THEN [ordered EXCEPT !.pending = @ \cup {now}]
              ELSE Push(ordered, now, needs[now])
    BY <1>4 DEF OrderOne
  <2>5. CASE IsFetch(now)
    <3>1. Waits(s, one, now)
      <4> HIDE DEF now, ordered, one
      <4> QED BY <2>3, <2>4, <2>5 DEF Waits
    <3> HIDE DEF now, one
    <3> QED BY <3>1, <2>2 DEF OneStep, Takes, one
  <2>6. CASE ~ IsFetch(now)
    <3>1. one = [result |-> (s.result \o SCCsInOrder(fetches)) \o <<now>>,
                 done |-> s.done \cup {now}, pending |-> s.pending \ fetches]
      <4> HIDE DEF now, ordered, one
      <4> QED BY <2>3, <2>4, <2>6 DEF Push
    <3>2. Enumerates(SCCsInOrder(fetches), fetches)
      <4>1. fetches \in SUBSET all
        <5> HIDE DEF now
        <5> QED BY <2>2
      <4>2. Apart(fetches) /\ IsFiniteSet(fetches)
        <5> HIDE DEF fetches
        <5> QED BY <4>1, ApartSubset, FS_Subset DEF Orderly
      <4> HIDE DEF fetches
      <4> QED BY <4>2, SCCsEnumerated
    <3>3. Goes(s, one, now, fetches, SCCsInOrder(fetches))
      <4> HIDE DEF now, one, fetches
      <4> QED BY <3>1, <3>2, <2>6 DEF Goes
    <3> HIDE DEF now, one
    <3> QED BY <3>3, <2>2 DEF OneStep, Takes, one
  <2> QED BY <2>5, <2>6
<1> QED BY <1>3, <1>4

(* A round leaves sequences and sets of components.                        *)
LEMMA OneKeepsType ==
    ASSUME NEW all, NEW needs, NEW early, Orderly(all, needs), NEW s \in Sortings(all)
    PROVE  OrderOne(s, needs, early) \in Sortings(all)
<1>1. s.result \in Seq(all) /\ s.done \in SUBSET all /\ s.pending \in SUBSET all
  BY DEF Sortings
<1>2. ASSUME NEW one, NEW now \in all, Waits(s, one, now)
      PROVE  one \in Sortings(all)
  BY <1>1, <1>2 DEF Waits, Sortings
<1>3. ASSUME NEW one, NEW now \in all, NEW F, Goes(s, one, now, needs[now] \cap s.pending, F)
      PROVE  one \in Sortings(all)
  <2>1. F \in Seq(needs[now] \cap s.pending) /\ needs[now] \cap s.pending \subseteq all
    BY <1>1, <1>3 DEF Goes, Enumerates
  <2>2. F \in Seq(all)
    BY <2>1
  <2>3. (s.result \o F) \o <<now>> \in Seq(all)
    BY <1>1, <2>2, Spliced
  <2> QED BY <1>1, <1>3, <2>3 DEF Goes, Sortings
<1>4. OneStep(all, needs, s, OrderOne(s, needs, early))
  BY OneIsOrdered
<1> QED BY <1>2, <1>3, <1>4 DEF OneStep, Takes

(* Sort is the rounds of its loop. *)
LEMMA SortRounds ==
    ASSUME NEW all, NEW needs, NEW early, Orderly(all, needs)
    PROVE  /\ Sort(needs, early) \in [Nat -> Sortings(all)]
           /\ Sort(needs, early)[0] = NothingSorted
           /\ \A n \in Nat : Sort(needs, early)[n + 1] = OrderOne(Sort(needs, early)[n], needs, early)
<1> DEFINE S == Sortings(all)
           step == [s \in S |-> OrderOne(s, needs, early)]
           Is(f) == f = [k \in Nat |-> IF k = 0 THEN NothingSorted ELSE OrderOne(f[k - 1], needs, early)]
<1>1. NothingSorted \in S
  BY DEF NothingSorted, Sortings
<1>2. step \in [S -> S]
  BY OneKeepsType
<1>3. PICK g \in [Nat -> S] : g[0] = NothingSorted /\ \A n \in Nat : g[n + 1] = step[g[n]]
  <2> HIDE DEF S, step
  <2> QED BY <1>1, <1>2, Rounds
<1>4. Is(g)
  <2>1. ASSUME NEW k \in Nat
        PROVE  g[k] = IF k = 0 THEN NothingSorted ELSE OrderOne(g[k - 1], needs, early)
    <3>1. CASE k = 0
      BY <3>1, <1>3
    <3>2. CASE k # 0
      <4>1. k - 1 \in Nat /\ (k - 1) + 1 = k
        BY <3>2
      <4>2. g[(k - 1) + 1] = step[g[k - 1]] /\ g[k - 1] \in S
        <5> HIDE DEF S, step
        <5> QED BY <4>1, <1>3
      <4>3. step[g[k - 1]] = OrderOne(g[k - 1], needs, early)
        <5> HIDE DEF S
        <5> QED BY <4>2
      <4> HIDE DEF step, S
      <4> QED BY <4>1, <4>2, <4>3, <3>2
    <3> QED BY <3>1, <3>2
  <2> QED BY <2>1, <1>3
<1>5. Sort(needs, early) = CHOOSE f : Is(f)
  BY DEF Sort
<1> DEFINE f == Sort(needs, early)
<1>6. Is(f)
  <2> HIDE DEF Is
  <2> QED BY <1>4, <1>5
<1> HIDE DEF f
<1>7. f[0] = NothingSorted
  BY <1>6
<1>8. ASSUME NEW n \in Nat PROVE f[n + 1] = OrderOne(f[n], needs, early)
  <2>1. n + 1 \in Nat /\ n + 1 # 0 /\ (n + 1) - 1 = n
    OBVIOUS
  <2> DEFINE m == n + 1
  <2>2. f[m] = IF m = 0 THEN NothingSorted ELSE OrderOne(f[m - 1], needs, early)
    <3> m \in Nat
      OBVIOUS
    <3> HIDE DEF m
    <3> QED BY <1>6
  <2> QED BY <2>1, <2>2
<1>9. f \in [Nat -> S]
  <2> DEFINE T == {n \in Nat : f[n] \in S}
  <2>1. 0 \in T
    BY <1>1, <1>7
  <2>2. ASSUME NEW n \in Nat, n \in T PROVE n + 1 \in T
    BY <2>2, <1>8, OneKeepsType
  <2>3. Nat \subseteq T
    <3> HIDE DEF T
    <3> QED BY <2>1, <2>2, EveryNatural
  <2>4. \A n \in Nat : f[n] \in S
    <3> HIDE DEF S
    <3> QED BY <2>3
  <2>5. DOMAIN f = Nat /\ f = [n \in Nat |-> f[n]]
    <3>1. f = [k \in Nat |-> IF k = 0 THEN NothingSorted ELSE OrderOne(f[k - 1], needs, early)]
      BY <1>6
    <3> DEFINE h(k) == IF k = 0 THEN NothingSorted ELSE OrderOne(f[k - 1], needs, early)
    <3>2. f = [k \in Nat |-> h(k)]
      BY <3>1
    <3> HIDE DEF h
    <3> QED BY <3>2
  <2> HIDE DEF S
  <2> QED BY <2>4, <2>5
<1> QED BY <1>7, <1>8, <1>9 DEF f

-----------------------------------------------------------------------------

(* A component that is only fetched is a single node. *)
LEMMA FetchMeans ==
    ASSUME NEW c \in SUBSET Indices, c # {}
    PROVE  IsFetch(c) <=> \E f \in Indices : c = {f} /\ f.role = "fetched"
<1>1. ASSUME NEW f \in Indices, c = {f}
      PROVE  Cardinality(c) = 1 /\ First(c) = f
  <2>1. Cardinality(c) = 1
    BY <1>1, FS_Singleton
  <2>2. First(c) \in c
    BY FirstIsFirst
  <2> QED BY <1>1, <2>1, <2>2
<1>2. ASSUME IsFetch(c) PROVE \E f \in Indices : c = {f} /\ f.role = "fetched"
  <2>1. Cardinality(c) = 1 /\ First(c).role = "fetched" /\ First(c) \in c
    BY <1>2, FirstIsFirst DEF IsFetch
  <2>2. IsFiniteSet(c)
    BY IndicesAreFinite, FS_Subset
  <2>3. PICK f : c = {f}
    BY <2>1, <2>2, FS_Singleton
  <2> QED BY <2>1, <2>3
<1> QED BY <1>1, <1>2 DEF IsFetch

(* What the sort has done after some rounds. *)
SortInv(all, needs, s) ==
    /\ s \in Sortings(all)
    /\ \A i, j \in DOMAIN s.result : s.result[i] = s.result[j] => i = j
    /\ \A c \in all : c \in s.done <=> c \in s.pending \/ \E i \in DOMAIN s.result : s.result[i] = c
    /\ \A i \in DOMAIN s.result : s.result[i] \notin s.pending
    /\ \A c \in s.pending : IsFetch(c)
    /\ \A c \in s.done : needs[c] \subseteq s.done
    /\ \A i \in DOMAIN s.result : \A c \in needs[s.result[i]] :
          \E j \in DOMAIN s.result : j < i /\ s.result[j] = c

FetchesNeedNoFetch(all, needs) ==
    \A f \in all : \A c \in needs[f] : IsFetch(f) => ~ IsFetch(c)

(* A fetch may be left pending.                                            *)
LEMMA WaitingKeeps ==
    ASSUME NEW all, NEW needs, Orderly(all, needs),
           NEW s, SortInv(all, needs, s), NEW now \in all \ s.done, needs[now] \subseteq s.done,
           NEW t, Waits(s, t, now)
    PROVE  SortInv(all, needs, t)
<1>1. /\ t \in Sortings(all)
      /\ t.result = s.result /\ t.done = s.done \cup {now} /\ t.pending = s.pending \cup {now}
      /\ IsFetch(now)
  BY DEF Waits, SortInv, Sortings
<1> QED BY <1>1 DEF SortInv

(* What goes out, goes out with the fetches that it needs.                 *)
LEMMA GoingKeeps ==
    ASSUME NEW all, NEW needs, Orderly(all, needs), FetchesNeedNoFetch(all, needs),
           NEW s, SortInv(all, needs, s), NEW now \in all \ s.done, needs[now] \subseteq s.done,
           NEW t, NEW F, Goes(s, t, now, needs[now] \cap s.pending, F), t \in Sortings(all)
    PROVE  SortInv(all, needs, t)
<1> DEFINE fetches == needs[now] \cap s.pending
           R == s.result
           Q == (R \o F) \o <<now>>
           n == Len(R)
           m == Len(F)
<1>1. /\ t.result = Q /\ t.done = s.done \cup {now} /\ t.pending = s.pending \ fetches
      /\ ~ IsFetch(now)
      /\ Enumerates(F, fetches)
  BY DEF Goes
<1>2. /\ R \in Seq(all) /\ n \in Nat /\ DOMAIN R = 1..n
      /\ F \in Seq(all) /\ m \in Nat /\ DOMAIN F = 1..m
      /\ \A i \in 1..m : F[i] \in fetches
      /\ \A c \in fetches : \E i \in 1..m : F[i] = c
      /\ \A i, j \in 1..m : F[i] = F[j] => i = j
  <2>1. R \in Seq(all) /\ fetches \in SUBSET all
    BY DEF SortInv, Sortings
  <2>2. F \in Seq(fetches) /\ F \in Seq(all)
    <3> HIDE DEF fetches
    <3> QED BY <2>1, <1>1 DEF Enumerates
  <2> HIDE DEF fetches, R
  <2> QED BY <2>1, <2>2, <1>1 DEF Enumerates
<1>3. /\ Q \in Seq(all) /\ Len(Q) = n + m + 1
      /\ \A i \in 1..n : Q[i] = R[i]
      /\ \A i \in 1..m : Q[n + i] = F[i]
      /\ Q[n + m + 1] = now
  <2> HIDE DEF R
  <2> QED BY <1>2, Spliced
<1>4. DOMAIN Q = 1..(n + m + 1)
  <2> HIDE DEF Q, n, m
  <2> QED BY <1>2, <1>3
<1>5. \A i \in 1..(n + m + 1) : i \in 1..n \/ (\E k \in 1..m : i = n + k) \/ i = n + m + 1
  <2> SUFFICES ASSUME NEW i \in 1..(n + m + 1), ~ (i \in 1..n), i # n + m + 1
               PROVE  \E k \in 1..m : i = n + k
    OBVIOUS
  <2>1. i - n \in 1..m /\ i = n + (i - n)
    <3> HIDE DEF n, m
    <3> QED BY <1>2
  <2> QED BY <2>1
<1>s. /\ \A i, j \in 1..n : R[i] = R[j] => i = j
      /\ \A c \in all : c \in s.done <=> c \in s.pending \/ \E i \in 1..n : R[i] = c
      /\ \A i \in 1..n : R[i] \notin s.pending
      /\ \A c \in s.pending : IsFetch(c)
      /\ \A c \in s.done : needs[c] \subseteq s.done
      /\ \A i \in 1..n : \A c \in needs[R[i]] : \E j \in 1..n : j < i /\ R[j] = c
      /\ s.pending \subseteq all /\ s.done \subseteq all
  <2>1. DOMAIN R = 1..n
    BY <1>2
  <2> QED BY <2>1 DEF SortInv, Sortings
<1>r. \A i \in 1..n : R[i] \in all /\ R[i] \in s.done
  <2>1. \A i \in 1..n : R[i] \in all
    <3> HIDE DEF R, n
    <3> QED BY <1>2
  <2> HIDE DEF R, n
  <2> QED BY <1>s, <2>1
<1>f. \A c \in fetches : c \in s.pending /\ c \in s.done /\ c \in needs[now] /\ c \in all /\ c # now
  <2> HIDE DEF R, n
  <2> QED BY <1>s
<1>6. ASSUME NEW i \in 1..(n + m + 1), NEW j \in 1..(n + m + 1), Q[i] = Q[j] PROVE i = j
  <2> HIDE DEF R, Q, n, m, fetches
  <2>1. CASE i \in 1..n
    <3>1. CASE j \in 1..n
      BY <1>s, <1>3, <2>1, <3>1, <1>6
    <3>2. ASSUME NEW k \in 1..m, j = n + k PROVE FALSE
      <4>1. R[i] = F[k] /\ F[k] \in fetches
        BY <1>3, <1>2, <2>1, <3>2, <1>6
      <4>2. R[i] \in s.pending
        BY <1>f, <4>1
      <4> QED BY <1>s, <2>1, <4>2
    <3>3. CASE j = n + m + 1
      BY <1>3, <1>r, <2>1, <3>3, <1>6
    <3> QED BY <1>5, <3>1, <3>2, <3>3
  <2>2. ASSUME NEW l \in 1..m, i = n + l PROVE i = j
    <3>1. CASE j \in 1..n
      BY <1>s, <1>3, <1>2, <1>f, <2>2, <3>1, <1>6
    <3>2. ASSUME NEW k \in 1..m, j = n + k PROVE i = j
      <4>1. F[l] = F[k]
        BY <1>3, <2>2, <3>2, <1>6
      <4> QED BY <1>2, <2>2, <3>2, <4>1
    <3>3. CASE j = n + m + 1
      BY <1>3, <1>2, <1>f, <2>2, <3>3, <1>6
    <3> QED BY <1>5, <3>1, <3>2, <3>3
  <2>3. CASE i = n + m + 1
    <3>1. CASE j \in 1..n
      BY <1>3, <1>r, <2>3, <3>1, <1>6
    <3>2. ASSUME NEW k \in 1..m, j = n + k PROVE FALSE
      BY <1>3, <1>2, <1>f, <2>3, <3>2, <1>6
    <3> QED BY <1>5, <2>3, <3>1, <3>2
  <2> QED BY <1>5, <2>1, <2>2, <2>3
<1>7. \A c \in all : (\E i \in 1..(n + m + 1) : Q[i] = c) <=>
                        (\E i \in 1..n : R[i] = c) \/ c \in fetches \/ c = now
  <2> SUFFICES ASSUME NEW c \in all
               PROVE  (\E i \in 1..(n + m + 1) : Q[i] = c) <=>
                        (\E i \in 1..n : R[i] = c) \/ c \in fetches \/ c = now
    OBVIOUS
  <2> HIDE DEF R, Q, n, m, fetches
  <2>1. \A i \in 1..n : i \in 1..(n + m + 1)
    BY <1>2
  <2>2. \A i \in 1..m : n + i \in 1..(n + m + 1)
    BY <1>2
  <2>3. n + m + 1 \in 1..(n + m + 1)
    BY <1>2
  <2>4. ASSUME NEW i \in 1..(n + m + 1), Q[i] = c
        PROVE  (\E k \in 1..n : R[k] = c) \/ c \in fetches \/ c = now
    <3>1. CASE i \in 1..n
      BY <1>3, <2>4, <3>1
    <3>2. ASSUME NEW k \in 1..m, i = n + k PROVE c \in fetches
      <4>1. c = F[k]
        BY <1>3, <2>4, <3>2
      <4> QED BY <1>2, <4>1
    <3>3. CASE i = n + m + 1
      BY <1>3, <2>4, <3>3
    <3> QED BY <1>5, <3>1, <3>2, <3>3
  <2>5. ASSUME NEW i \in 1..n, R[i] = c PROVE \E k \in 1..(n + m + 1) : Q[k] = c
    BY <1>3, <2>1, <2>5
  <2>6. ASSUME c \in fetches PROVE \E k \in 1..(n + m + 1) : Q[k] = c
    <3>1. PICK i \in 1..m : F[i] = c
      BY <1>2, <2>6
    <3> QED BY <1>3, <2>2, <3>1
  <2>7. ASSUME c = now PROVE \E k \in 1..(n + m + 1) : Q[k] = c
    BY <1>3, <2>3, <2>7
  <2> QED BY <2>4, <2>5, <2>6, <2>7
<1>8. \A c \in all : c \in t.done <=> c \in t.pending \/ \E i \in 1..(n + m + 1) : Q[i] = c
  <2> SUFFICES ASSUME NEW c \in all
               PROVE  c \in t.done <=> c \in t.pending \/ \E i \in 1..(n + m + 1) : Q[i] = c
    OBVIOUS
  <2> HIDE DEF Q, R, n, m, fetches
  <2> QED BY <1>1, <1>7, <1>s, <1>f
<1>9. \A i \in 1..(n + m + 1) : Q[i] \notin t.pending
  <2> HIDE DEF Q, R, n, m, fetches
  <2>1. \A i \in 1..n : Q[i] \notin t.pending
    BY <1>1, <1>3, <1>s
  <2>2. \A i \in 1..m : Q[n + i] \notin t.pending
    BY <1>1, <1>2, <1>3
  <2>3. now \notin t.pending
    BY <1>1, <1>s
  <2> QED BY <1>3, <1>5, <2>1, <2>2, <2>3
<1>10. \A c \in t.done : needs[c] \subseteq t.done
  BY <1>1, <1>s
<1>11. ASSUME NEW i \in 1..(n + m + 1), NEW c \in needs[Q[i]]
       PROVE  \E j \in 1..(n + m + 1) : j < i /\ Q[j] = c
  <2>a. \A x \in all : needs[x] \subseteq all
    BY DEF Orderly
  <2> HIDE DEF Q, R, n, m, fetches
  <2>0. \A k \in 1..n : k \in 1..(n + m + 1) /\ Q[k] = R[k]
    BY <1>2, <1>3
  <2>1. CASE i \in 1..n
    <3>1. PICK j \in 1..n : j < i /\ R[j] = c
      BY <1>s, <1>11, <2>0, <2>1
    <3> QED BY <2>0, <3>1
  <2>2. ASSUME NEW k \in 1..m, i = n + k PROVE \E j \in 1..(n + m + 1) : j < i /\ Q[j] = c
    <3>1. Q[i] = F[k] /\ F[k] \in fetches
      BY <1>2, <1>3, <2>2
    <3>2. IsFetch(F[k]) /\ F[k] \in all /\ needs[F[k]] \subseteq s.done
      BY <1>f, <1>s, <3>1
    <3>3. c \in all /\ ~ IsFetch(c) /\ c \in s.done
      BY <1>11, <3>1, <3>2, <2>a DEF FetchesNeedNoFetch
    <3>4. PICK j \in 1..n : R[j] = c
      BY <1>s, <3>3
    <3>5. j < i
      BY <1>2, <2>2
    <3> QED BY <2>0, <3>4, <3>5
  <2>3. CASE i = n + m + 1
    <3>1. c \in needs[now] /\ c \in s.done /\ c \in all
      BY <1>3, <1>11, <1>s, <2>3
    <3>2. CASE c \in s.pending
      <4>1. c \in fetches
        BY <3>1, <3>2 DEF fetches
      <4>2. PICK k \in 1..m : F[k] = c
        BY <1>2, <4>1
      <4>3. n + k \in 1..(n + m + 1) /\ n + k < i /\ Q[n + k] = c
        BY <1>2, <1>3, <2>3, <4>2
      <4> QED BY <4>3
    <3>3. CASE c \notin s.pending
      <4>1. PICK j \in 1..n : R[j] = c
        BY <1>s, <3>1, <3>3
      <4>2. j < i
        BY <1>2, <2>3
      <4> QED BY <2>0, <4>1, <4>2
    <3> QED BY <3>2, <3>3
  <2> QED BY <1>5, <2>1, <2>2, <2>3
<1>12. \A c \in t.pending : IsFetch(c)
  BY <1>1, <1>s
<1> DEFINE P == t.result
<1>13. DOMAIN P = 1..(n + m + 1) /\ \A i \in 1..(n + m + 1) : P[i] = Q[i]
  <2> HIDE DEF Q
  <2> QED BY <1>1, <1>4
<1> HIDE DEF Q, R, n, m, fetches
<1>14. \A i, j \in DOMAIN P : P[i] = P[j] => i = j
  BY <1>13, <1>6
<1>15. \A c \in all : c \in t.done <=> c \in t.pending \/ \E i \in DOMAIN P : P[i] = c
  BY <1>13, <1>8
<1>16. \A i \in DOMAIN P : P[i] \notin t.pending
  BY <1>13, <1>9
<1>17. \A i \in DOMAIN P : \A c \in needs[P[i]] : \E j \in DOMAIN P : j < i /\ P[j] = c
  BY <1>13, <1>11
<1> QED BY <1>10, <1>12, <1>14, <1>15, <1>16, <1>17 DEF SortInv

-----------------------------------------------------------------------------

(* After as many rounds, as many components are done. *)
LEMMA RoundsKeep ==
    ASSUME NEW all, NEW needs, NEW early, Orderly(all, needs), FetchesNeedNoFetch(all, needs)
    PROVE  LET s == Sort(needs, early)[Cardinality(all)] IN SortInv(all, needs, s) /\ s.done = all
<1> DEFINE N == Cardinality(all)
           f == Sort(needs, early)
           T == {k \in Nat : SortInv(all, needs, f[k]) /\ (f[k].done = all \/ Cardinality(f[k].done) = k)}
<1>1. N \in Nat
  BY FS_CardinalityType DEF Orderly
<1>2. /\ f[0] = NothingSorted
      /\ \A n \in Nat : f[n] \in Sortings(all) /\ f[n + 1] = OrderOne(f[n], needs, early)
  <2>1. f \in [Nat -> Sortings(all)] /\ f[0] = NothingSorted
        /\ \A n \in Nat : f[n + 1] = OrderOne(f[n], needs, early)
    BY SortRounds
  <2> HIDE DEF f
  <2> QED BY <2>1
<1> HIDE DEF f
<1>3. 0 \in T
  <2>1. SortInv(all, needs, f[0])
    BY <1>2 DEF SortInv, NothingSorted
  <2>2. Cardinality(f[0].done) = 0
    BY <1>2, FS_EmptySet DEF NothingSorted
  <2> QED BY <2>1, <2>2
<1>4. ASSUME NEW k \in Nat, k \in T PROVE k + 1 \in T
  <2> DEFINE s == f[k]
             t == f[k + 1]
  <2>1. s \in Sortings(all) /\ t = OrderOne(s, needs, early) /\ SortInv(all, needs, s)
        /\ t \in Sortings(all) /\ (s.done = all \/ Cardinality(s.done) = k)
    BY <1>2, <1>4
  <2> HIDE DEF s, t
  <2>2. OneStep(all, needs, s, t)
    BY <2>1, OneIsOrdered
  <2>3. CASE s.done = all /\ t = s
    <3>1. SortInv(all, needs, t) /\ t.done = all
      BY <2>1, <2>3
    <3> QED BY <3>1 DEF t
  <2>4. ASSUME NEW now \in all \ s.done, needs[now] \subseteq s.done, Takes(s, t, needs, now)
        PROVE  SortInv(all, needs, t) /\ t.done = s.done \cup {now}
    <3>1. CASE Waits(s, t, now)
      BY <2>1, <2>4, <3>1, WaitingKeeps DEF Waits
    <3>2. ASSUME NEW F, Goes(s, t, now, needs[now] \cap s.pending, F)
          PROVE  SortInv(all, needs, t) /\ t.done = s.done \cup {now}
      <4>1. SortInv(all, needs, t)
        BY <2>1, <2>4, <3>2, GoingKeeps
      <4> QED BY <3>2, <4>1 DEF Goes
    <3> QED BY <2>4, <3>1, <3>2 DEF Takes
  <2>5. ASSUME NEW now \in all \ s.done, t.done = s.done \cup {now}
        PROVE  Cardinality(t.done) = k + 1
    <3>1. s.done \in SUBSET all /\ s.done # all
      BY <2>1, <2>5 DEF Sortings
    <3>2. IsFiniteSet(s.done) /\ Cardinality(s.done) = k
      BY <2>1, <3>1, FS_Subset DEF Orderly
    <3> QED BY <2>5, <3>2, FS_AddElement
  <2>6. SortInv(all, needs, t) /\ (t.done = all \/ Cardinality(t.done) = k + 1)
    BY <2>1, <2>2, <2>4, <2>5 DEF OneStep
  <2> QED BY <2>6 DEF t
<1>5. N \in T
  <2>1. Nat \subseteq T
    <3> HIDE DEF T
    <3> QED BY <1>3, <1>4, EveryNatural
  <2> HIDE DEF T, N
  <2> QED BY <1>1, <2>1
<1> DEFINE s == f[N]
<1>6. SortInv(all, needs, s) /\ (s.done = all \/ Cardinality(s.done) = N)
  BY <1>5
<1> HIDE DEF s, N
<1>7. s.done = all
  <2>1. s.done \in SUBSET all
    BY <1>6 DEF SortInv, Sortings
  <2> QED BY <1>6, <2>1, FS_Subset DEF Orderly, N
<1> QED BY <1>6, <1>7 DEF s, N, f

(* The components, each after those that it has edges to. *)
InDependencyOrder(g, s) ==
    /\ Enumerates(s, SCCs(g))
    /\ \A i, j \in DOMAIN s : \A a \in s[i], b \in s[j] :
          <<a, b>> \in Connected(g.node, DOMAIN g.edge) => j <= i

(* A fetch that nothing needs.                                             *)
Unwanted(g, f) ==
    /\ f \in g.node
    /\ f.role = "fetched"
    /\ \A e \in DOMAIN g.edge : e[2] # f

FetchesNeedDone(g) == \A e \in DOMAIN g.edge : e[2].role = "fetched" => e[1].role = "done"

(* The sort gives all components in order of dependency, or fails, and     *)
(* then nothing in the graph needs some fetch.                             *)
LEMMA SortedInOrder ==
    ASSUME NEW g, IsGraph(g), FetchesNeedDone(g), NEW early
    PROVE  \/ ~ SortedSCCs(g, early).fails /\ InDependencyOrder(g, SortedSCCs(g, early).result)
           \/ SortedSCCs(g, early).fails /\ \E f \in g.node : Unwanted(g, f)
<1> DEFINE all == SCCs(g)
           C == Connected(g.node, DOMAIN g.edge)
           needs == Needs(all, DOMAIN g.edge)
           s == Sort(needs, early)[Cardinality(all)]
           Q == s.result
<1>1. SCCsPart(g, all, C)
  BY ComponentsPart
<1>2. needs \in [all -> SUBSET all]
      /\ \A c, d \in all : d \in needs[c] <=> c # d /\ \E e \in DOMAIN g.edge : e[1] \in c /\ e[2] \in d
  <2> HIDE DEF all
  <2> QED BY DEF Needs
<1>3. Orderly(all, needs)
  <2>1. \A done \in SUBSET all : done # all => \E c \in all \ done : needs[c] \subseteq done
    BY SomethingIsOrderable
  <2> HIDE DEF all, needs, C
  <2> QED BY <1>1, <1>2, <2>1 DEF Orderly, SCCsPart
<1> HIDE DEF all, C, needs
<1>4. \A c \in all : c \in SUBSET Indices /\ c # {}
  BY <1>1 DEF SCCsPart, Apart
<1>5. FetchesNeedNoFetch(all, needs)
  <2> SUFFICES ASSUME NEW f \in all, NEW c \in needs[f], IsFetch(f), IsFetch(c) PROVE FALSE
    BY DEF FetchesNeedNoFetch
  <2>1. c \in all
    BY <1>2
  <2>2. PICK n \in Indices : f = {n} /\ n.role = "fetched"
    BY <1>4, FetchMeans
  <2>3. PICK m \in Indices : c = {m} /\ m.role = "fetched"
    BY <1>4, <2>1, FetchMeans
  <2>4. PICK e \in DOMAIN g.edge : e[1] \in f /\ e[2] \in c
    BY <1>2, <2>1
  <2> QED BY <2>2, <2>3, <2>4 DEF FetchesNeedDone
<1>6. SortInv(all, needs, s) /\ s.done = all
  BY <1>3, <1>5, RoundsKeep
<1>7. SortedSCCs(g, early).result = Q /\ (SortedSCCs(g, early).fails <=> s.pending # {})
  <2>1. Cardinality(s.done) = Cardinality(all)
    BY <1>6
  <2> DEFINE sorted == s
             fails == sorted.pending # {} \/ Cardinality(sorted.done) # Cardinality(all)
  <2>2. SortedSCCs(g, early) = [result |-> sorted.result, fails |-> fails]
    BY DEF SortedSCCs, all, needs
  <2>3. fails <=> s.pending # {}
    <3> HIDE DEF s
    <3> QED BY <2>1
  <2> HIDE DEF s, fails
  <2>4. SortedSCCs(g, early).fails = fails
    BY <2>2
  <2>5. SortedSCCs(g, early).result = sorted.result
    BY <2>2
  <2> QED BY <2>3, <2>4, <2>5
<1> HIDE DEF s
<1>8. CASE s.pending = {}
  <2>1. Enumerates(Q, all)
    <3>1. Q \in Seq(all)
      BY <1>6 DEF SortInv, Sortings
    <3>2. \A c \in all : \E i \in DOMAIN Q : Q[i] = c
      BY <1>6, <1>8 DEF SortInv
    <3>3. \A i, j \in DOMAIN Q : Q[i] = Q[j] => i = j
      BY <1>6 DEF SortInv
    <3> QED BY <3>1, <3>2, <3>3 DEF Enumerates
  <2> HIDE DEF Q
  <2>2. DOMAIN Q \subseteq Nat /\ \A i \in DOMAIN Q : Q[i] \in all
    BY <2>1 DEF Enumerates
  <2>3. \A i \in DOMAIN Q : \A c \in needs[Q[i]] : \E j \in DOMAIN Q : j < i /\ Q[j] = c
    BY <1>6 DEF SortInv, Q
  <2>4. ASSUME NEW i \in DOMAIN Q, NEW j \in DOMAIN Q, NEW e \in DOMAIN g.edge, e[1] \in Q[i], e[2] \in Q[j]
        PROVE  j <= i
    <3>1. CASE Q[i] = Q[j]
      BY <2>1, <2>2, <3>1 DEF Enumerates
    <3>2. CASE Q[i] # Q[j]
      <4>1. Q[j] \in needs[Q[i]]
        BY <1>2, <2>2, <2>4, <3>2
      <4>2. PICK k \in DOMAIN Q : k < i /\ Q[k] = Q[j]
        BY <2>3, <4>1
      <4>3. k = j
        BY <2>1, <4>2 DEF Enumerates
      <4> QED BY <2>2, <4>2, <4>3
    <3> QED BY <3>1, <3>2
  <2>5. ASSUME NEW n \in g.node PROVE \E j \in DOMAIN Q : n \in Q[j]
    <3>1. PICK c \in all : n \in c
      BY <1>1 DEF SCCsPart
    <3> QED BY <2>1, <3>1 DEF Enumerates
  <2>6. ASSUME NEW i \in DOMAIN Q, NEW j \in DOMAIN Q, NEW a \in Q[i], NEW b \in Q[j], <<a, b>> \in C
        PROVE  j <= i
    <3> DEFINE S == {n \in g.node : \E k \in DOMAIN Q : k <= i /\ n \in Q[k]}
    <3>e. \A e \in DOMAIN g.edge : e[1] \in g.node /\ e[2] \in g.node
      BY DEF IsGraph
    <3>1. \A e \in DOMAIN g.edge : e[1] \in S => e[2] \in S
      <4> SUFFICES ASSUME NEW e \in DOMAIN g.edge, NEW k \in DOMAIN Q, k <= i, e[1] \in Q[k]
                   PROVE  e[2] \in S
        OBVIOUS
      <4>1. PICK l \in DOMAIN Q : e[2] \in Q[l]
        BY <2>5, <3>e
      <4>2. l <= k
        BY <2>4, <4>1
      <4>3. l <= i
        BY <2>2, <4>2
      <4> QED BY <3>e, <4>1, <4>3
    <3>2. Direct(a, DOMAIN g.edge) \subseteq S
      <4> SUFFICES ASSUME NEW e \in DOMAIN g.edge, e[1] = a PROVE e[2] \in S
        BY DEF Direct
      <4>1. e[1] \in S
        BY <2>2, <2>6, <3>e
      <4> QED BY <3>1, <4>1
    <3>3. S \in SUBSET g.node
      OBVIOUS
    <3>4. b \in S
      <4> HIDE DEF S
      <4> QED BY <2>6, <3>1, <3>2, <3>3, ConnectedIsLeast DEF C
    <3>5. PICK k \in DOMAIN Q : k <= i /\ b \in Q[k]
      BY <3>4
    <3>6. Q[k] = Q[j]
      BY <1>1, <2>2, <2>6, <3>5 DEF SCCsPart, Apart
    <3>7. k = j
      BY <2>1, <3>6 DEF Enumerates
    <3> QED BY <3>5, <3>7
  <2>7. InDependencyOrder(g, Q)
    BY <2>1, <2>6 DEF InDependencyOrder, all, C
  <2> QED BY <1>7, <1>8, <2>7
<1>9. CASE s.pending # {}
  <2>1. PICK p \in s.pending : TRUE
    BY <1>9
  <2>2. p \in all /\ IsFetch(p)
    BY <1>6 DEF SortInv, Sortings
  <2>3. PICK f \in Indices : p = {f} /\ f.role = "fetched"
    BY <1>4, <2>2, FetchMeans
  <2>4. f \in g.node
    BY <1>1, <2>2, <2>3 DEF SCCsPart
  <2>5. ASSUME NEW e \in DOMAIN g.edge, e[2] = f PROVE FALSE
    <3>1. e[1] \in g.node /\ e[1].role = "done"
      BY <2>3, <2>5 DEF IsGraph, FetchesNeedDone
    <3>2. PICK c \in all : e[1] \in c
      BY <1>1, <3>1 DEF SCCsPart
    <3>3. c # p
      BY <2>3, <3>1, <3>2
    <3>4. p \in needs[c]
      BY <1>2, <2>2, <2>3, <2>5, <3>2, <3>3
    <3>5. ~ IsFetch(c)
      BY <1>5, <2>2, <3>2, <3>4 DEF FetchesNeedNoFetch
    <3>6. c \notin s.pending
      BY <1>6, <3>5 DEF SortInv
    <3>7. PICK i \in DOMAIN Q : Q[i] = c
      BY <1>6, <3>2, <3>6 DEF SortInv
    <3>8. PICK j \in DOMAIN Q : Q[j] = p
      BY <1>6, <3>4, <3>7 DEF SortInv
    <3> QED BY <1>6, <3>8, <2>1 DEF SortInv
  <2>6. Unwanted(g, f)
    BY <2>3, <2>4, <2>5 DEF Unwanted
  <2>7. SortedSCCs(g, early).fails
    BY <1>7, <1>9
  <2> QED BY <2>4, <2>6, <2>7
<1> QED BY <1>8, <1>9

-----------------------------------------------------------------------------

Stages == {"nodes", "edges", "sorting", "ordering", "internal error"}

(* The fetch of a version that is a blocker.                               *)
BlocksFetch(r, f) ==
    \E c \in resolved.reasons[r] : c.kind = "dependency" /\ c.fetch /\ ~ c.normal /\ c.from = f

IsUnmetBuild(e) == nag.edge[e].build /\ ~ nag.edge[e].build_all_met

(* What is decided upon has its nodes, edges are between nodes, a change   *)
(* needs its fetch, and nothing else needs it that is not a blocker.       *)
DecidedNodes ==
    {Done(r) : r \in {r \in Resolvents : decision[r] \in {"change", "remove", "nochange"}}}
        \cup {Fetched(r) : r \in {r \in Resolvents : decision[r] = "change"}}

BuiltGraph ==
    /\ IsGraph(nag)
    /\ \A e \in DOMAIN nag.edge : nag.edge[e] \in Properties
    /\ \A e \in DOMAIN nag.edge : e[2].role = "fetched" =>
          /\ e[1].role = "done"
          /\ e[1] = Done(e[2].resolvent) \/ BlocksFetch(e[1].resolvent, e[2].resolvent)
    /\ \A r \in Resolvents : Fetched(r) \in nag.node =>
          <<Done(r), Fetched(r)>> \in DOMAIN nag.edge /\ IsUnmetBuild(<<Done(r), Fetched(r)>>)

GraphInv ==
    /\ resolved \in Inputs
    /\ stage \in Stages
    /\ stage # "nodes" => nag.node = DecidedNodes
    /\ stage = "edges" =>
          nag.edge = AddEdges({OwnFetch(r) : r \in {r \in Resolvents : decision[r] = "change"}})
    /\ stage \in {"sorting", "ordering", "internal error"} => BuiltGraph

-----------------------------------------------------------------------------

(* Nodes that all need one another.                                        *)
Mutual(S, pairs) == \A a, b \in S : a = b \/ <<a, b>> \in pairs

FetchesHaveChanges(S) ==
    \A f \in S : f.role = "fetched" /\ S # {f} => Done(f.resolvent) \in S

ItemFits(x) ==
    /\ x.node # {} /\ x.node \subseteq nag.node
    /\ x.is = "component" => x.node \in SCCs(nag)
    /\ x.is = "part" =>
          /\ \A n \in x.node : IsChange(n)
          /\ x.node \subseteq x.within
          /\ Mutual(x.node, AllConnected)
          /\ FetchesHaveChanges(x.node) \/ (~ x.again /\ FetchBlocks)
          /\ x.again => Mutual(x.node, Connected(nag.node, UnmetEdges))
    /\ x.is = "alone" => \E n \in x.node : IsChange(n) /\ x.node = {n}

Items ==
    [is : {"component", "alone"}, node : SUBSET Indices]
        \cup [is : {"part"}, node : SUBSET Indices, within : SUBSET Indices, again : BOOLEAN]

(* What a needs, and has to come after.                                    *)
MustFollow(a, b) ==
    \/ <<a, b>> \in AllConnected /\ <<b, a>> \notin AllConnected
    \/ <<a, b>> \in DOMAIN nag.edge /\ IsUnmetBuild(<<a, b>>)

MayPrecede(S, T) == \A a \in S, b \in T : a # b /\ ~ MustFollow(a, b)

InOrderAll(t) == \A i, j \in DOMAIN t : i < j => MayPrecede(t[i].node, t[j].node)

TodoFits(t) ==
    /\ t \in Seq(Items)
    /\ \A i \in DOMAIN t : ItemFits(t[i])
    /\ InOrderAll(t)

JobsFit(j) ==
    /\ \A k, l \in DOMAIN j : k < l => MayPrecede({j[k].index}, {j[l].index})
    /\ \A k \in DOMAIN j : ~ SelfDependent(j[k].index)

JobsGoFirst(j, t) == \A k \in DOMAIN j, i \in DOMAIN t : MayPrecede({j[k].index}, t[i].node)

(* What is reported needs itself, and is neither done nor to be done.      *)
ReportsFit(u, t, j) ==
    /\ u \in Seq(Indices)
    /\ \A k, l \in DOMAIN u : u[k] = u[l] => k = l
    /\ \A k \in DOMAIN u :
          /\ u[k].role = "done"
          /\ <<u[k], u[k]>> \in Connected(nag.node, UnmetEdges)
          /\ \A i \in DOMAIN t : u[k] \notin t[i].node
          /\ \A i \in DOMAIN j : u[k] # j[i].index

IsReported(n, u) == \E k \in DOMAIN u : u[k] = n

NothingForgotten(t, j, u) ==
    \A n \in nag.node : IsChange(n) =>
        \/ \E i \in DOMAIN t : n \in t[i].node
        \/ \E i \in DOMAIN j : j[i].index = n
        \/ IsReported(n, u)
        \/ n.role = "fetched" /\ IsReported(Done(n.resolvent), u)

Ordering(t, j, u) ==
    TodoFits(t) /\ JobsFit(j) /\ JobsGoFirst(j, t) /\ ReportsFit(u, t, j) /\ NothingForgotten(t, j, u)

OrderInv ==
    /\ IInv
    /\ GraphInv
    /\ stage \in {"nodes", "edges", "sorting"} => unorderable = <<>>
    /\ stage = "ordering" => Ordering(todo, jobs, unorderable)
    /\ NoInternalError

-----------------------------------------------------------------------------

(* If something needs to be built first, so does the merged edge.          *)
LEMMA MergedBuild ==
    ASSUME NEW added, NEW a \in added, a.with.build, ~ a.with.build_all_met
    PROVE  /\ <<a.from, a.to>> \in DOMAIN AddEdges(added)
           /\ AddEdges(added)[<<a.from, a.to>>].build
           /\ ~ AddEdges(added)[<<a.from, a.to>>].build_all_met
<1> DEFINE e == <<a.from, a.to>>
           merged == {x.with : x \in {x \in added : <<x.from, x.to>> = e}}
<1>1. e \in {<<x.from, x.to>> : x \in added}
  OBVIOUS
<1>2. e \in DOMAIN AddEdges(added)
  BY <1>1 DEF AddEdges
<1>3. AddEdges(added)[e].build = (\E p \in merged : p.build)
  BY <1>1 DEF AddEdges
<1>4. AddEdges(added)[e].build_all_met = (\A p \in merged : p.build_all_met)
  BY <1>1 DEF AddEdges
<1>5. a.with \in merged
  OBVIOUS
<1> HIDE DEF merged
<1>6. AddEdges(added)[e].build
  BY <1>3, <1>5
<1>7. ~ AddEdges(added)[e].build_all_met
  BY <1>4, <1>5
<1> QED BY <1>2, <1>6, <1>7

(* Merged edges have properties.                                           *)
LEMMA MergedProperties ==
    ASSUME NEW added, NEW e \in DOMAIN AddEdges(added)
    PROVE  AddEdges(added)[e] \in Properties
<1>1. e \in {<<a.from, a.to>> : a \in added}
  BY DEF AddEdges
<1> DEFINE merged == {a.with : a \in {x \in added : <<x.from, x.to>> = e}}
           always == \E p \in merged : p.always
           build == \E p \in merged : p.build
           build_all_met == \A p \in merged : p.build_all_met
           run == \E p \in merged : p.run
           run_all_met == \A p \in merged : p.run_all_met
<1>2. AddEdges(added)[e] = [always |-> always, build |-> build, build_all_met |-> build_all_met,
                            run |-> run, run_all_met |-> run_all_met]
  BY <1>1 DEF AddEdges
<1>3. /\ always \in BOOLEAN /\ build \in BOOLEAN /\ build_all_met \in BOOLEAN
      /\ run \in BOOLEAN /\ run_all_met \in BOOLEAN
  OBVIOUS
<1> HIDE DEF always, build, build_all_met, run, run_all_met
<1> QED BY <1>2, <1>3 DEF Properties

(* Nothing is known of the graph at first.                                 *)
LEMMA InitGraph == Init => GraphInv
BY DEF Init, GraphInv, Stages

(* The decider has left what it may.                                       *)
LEMMA InputIsDecided ==
    ASSUME resolved \in Inputs
    PROVE  Decided(resolved)
BY InputsAssumption

(* Nodes are indices.                                                      *)
LEMMA NodesAreIndices == DecidedNodes \subseteq Indices
BY DEF DecidedNodes, Indices, Done, Fetched

(* What has nodes, by its decision.                                        *)
LEMMA WhatIsANode ==
    ASSUME NEW r \in Resolvents
    PROVE  /\ Done(r) \in DecidedNodes <=> decision[r] \in {"change", "remove", "nochange"}
           /\ Fetched(r) \in DecidedNodes <=> decision[r] = "change"
<1>1. ASSUME NEW q \in Resolvents PROVE Done(r) # Fetched(q) /\ (Done(r) = Done(q) => r = q) /\ (Fetched(r) = Fetched(q) => r = q)
  BY DEF Done, Fetched
<1>2. Done(r) \in DecidedNodes <=> \E q \in Resolvents : decision[q] \in {"change", "remove", "nochange"} /\ Done(r) = Done(q)
  BY <1>1 DEF DecidedNodes
<1>3. Fetched(r) \in DecidedNodes <=> \E q \in Resolvents : decision[q] = "change" /\ Fetched(r) = Fetched(q)
  <2>1. \A q \in Resolvents : Fetched(r) # Done(q)
    BY DEF Done, Fetched
  <2> QED BY <2>1 DEF DecidedNodes
<1> QED BY <1>1, <1>2, <1>3

(* The nodes are those that were decided upon.                             *)
LEMMA NodifyGraph ==
    ASSUME GraphInv, NodifyDecisions
    PROVE  GraphInv'
<1>1. stage' = "edges" /\ UNCHANGED resolved
  BY DEF NodifyDecisions
<1>2. nag'.node = DecidedNodes'
  BY <1>1 DEF NodifyDecisions, DecidedNodes, decision
<1>3. nag'.edge = AddEdges({OwnFetch(r) : r \in {r \in Resolvents : decision[r] = "change"}})
  <2>1. {r \in Resolvents : decision[r] \in {"change"}} = {r \in Resolvents : decision[r] = "change"}
    OBVIOUS
  <2>2. nag'.edge = AddEdges({OwnFetch(r) : r \in {r \in Resolvents : decision[r] \in {"change"}}})
    BY DEF NodifyDecisions
  <2> QED BY <2>1, <2>2
<1> QED BY <1>1, <1>2, <1>3 DEF GraphInv, Stages, decision

(* Where the edges that the reasons of r give come from and go to.         *)
LEMMA ReasonEndpoints ==
    ASSUME Decided(resolved), nag.node = DecidedNodes,
           NEW r \in Resolvents, Done(r) \in nag.node,
           NEW c \in resolved.reasons[r], NEW a \in EdgesFromReason(r, c)
    PROVE  /\ a.from \in nag.node /\ a.to \in nag.node
           /\ a.to.role = "fetched" => a.from = Done(r) /\ BlocksFetch(r, a.to.resolvent)
<1>0. c \in Reasons /\ c.from \in Resolvents /\ decision[c.from] \in DecisionsBehind(c.kind)
  <2>1. c \in Reasons /\ decision[c.from] \in DecisionsBehind(c.kind)
    BY DEF Decided, decision
  <2> QED BY <2>1 DEF Reasons
<1>1. CASE c.kind = "was_used_by"
  <2>1. decision[c.from] \in {"change", "remove"}
    BY <1>0, <1>1 DEF DecisionsBehind
  <2>2. a.from = Done(r) /\ a.to = Done(c.from)
    BY <1>1 DEF EdgesFromReason
  <2>3. Done(c.from) \in nag.node
    BY <1>0, <2>1, WhatIsANode
  <2> QED BY <2>2, <2>3 DEF Done
<1>2. CASE c.kind = "dependent"
  <2>1. decision[c.from] \in {"change", "remove"} /\ a.from = Done(c.from) /\ a.to = Done(r)
    BY <1>0, <1>2 DEF DecisionsBehind, EdgesFromReason
  <2>3. Done(c.from) \in nag.node
    BY <1>0, <2>1, WhatIsANode
  <2> QED BY <2>1, <2>3 DEF Done
<1>3. CASE c.kind = "dependency"
  <2> DEFINE from == IF c.fetch THEN FetchRole(c.from) ELSE Done(c.from)
  <2>1. decision[c.from] \in {"change", "nochange"}
    BY <1>0, <1>3 DEF DecisionsBehind, EdgesFromReason
  <2>2. from \in nag.node
    BY <1>0, <2>1, WhatIsANode DEF FetchRole
  <2>3. CASE c.normal
    <3>1. a = DependencyEdge(r, c)
      BY <1>3, <2>3 DEF EdgesFromReason
    <3>2. a.from = MaybeBinary(from) /\ a.to = Done(r)
      BY <3>1 DEF DependencyEdge
    <3>3. MaybeBinary(from) \in nag.node
      <4> HIDE DEF from
      <4> QED BY <2>2 DEF MaybeBinary
    <3> QED BY <3>2, <3>3 DEF Done
  <2>4. CASE ~ c.normal
    <3>1. a.from = Done(r) /\ a.to = from
      BY <1>3, <2>4 DEF EdgesFromReason
    <3>2. from.role = "fetched" => c.fetch /\ from.resolvent = c.from
      BY DEF FetchRole, Done, Fetched
    <3>3. from.role = "fetched" => BlocksFetch(r, from.resolvent)
      <4> HIDE DEF from
      <4> QED BY <1>3, <2>4, <3>2 DEF BlocksFetch
    <3> QED BY <2>2, <3>1, <3>3
  <2> QED BY <2>3, <2>4
<1> QED BY <1>0, <1>1, <1>2, <1>3 DEF Reasons

(* The edges to new binaries are between nodes.                            *)
LEMMA BinaryEndpoints ==
    ASSUME Decided(resolved), nag.node = DecidedNodes,
           NEW b \in Resolvents, decision[b] = "change", NEW a \in BinaryEdges(b)
    PROVE  a.from \in nag.node /\ a.to \in nag.node /\ a.to.role = "done"
<1>1. PICK p \in resolved.binary : /\ p[2] = b /\ decision[p[1]] \in {"change", "untaken"}
                                   /\ a.from = Fetched(p[1]) /\ a.to = Done(b)
  BY DEF BinaryEdges
<1>2. p[1] \in Resolvents /\ decision[p[1]] = "change"
  BY <1>1 DEF Decided, decision
<1>3. Fetched(p[1]) \in nag.node /\ Done(b) \in nag.node
  BY <1>2, WhatIsANode
<1> QED BY <1>1, <1>3 DEF Done

(* The graph has the edges that the rest relies on, and verify_edges()     *)
(* finds nothing.                                                          *)
LEMMA BuildGraph ==
    ASSUME IInv, GraphInv, BuildEdges
    PROVE  GraphInv' /\ stage' = "sorting"
<1> DEFINE ordered == {r \in Resolvents : Done(r) \in nag.node}
           reasons(r) == UNION {EdgesFromReason(r, c) : c \in resolved.reasons[r]}
           binaries(r) == IF decision[r] = "change" THEN BinaryEdges(r) ELSE {}
           own == {[from |-> e[1], to |-> e[2], with |-> nag.edge[e]] : e \in DOMAIN nag.edge}
           added == own \cup UNION {reasons(r) \cup binaries(r) : r \in ordered}
           fetches == {OwnFetch(r) : r \in {r \in Resolvents : decision[r] = "change"}}
<1>1. nag' = [node |-> nag.node, edge |-> AddEdges(added)]
  BY DEF BuildEdges, IInv, Graph
<1>2. stage = "edges" /\ nag.node = DecidedNodes /\ nag.edge = AddEdges(fetches) /\ UNCHANGED resolved
      /\ Decided(resolved)
  BY InputIsDecided DEF BuildEdges, GraphInv
<1>3. ASSUME NEW r \in Resolvents, decision[r] = "change"
      PROVE  LET e == <<Done(r), Fetched(r)>> IN e \in DOMAIN nag.edge /\ IsUnmetBuild(e)
  <2>1. OwnFetch(r) \in fetches /\ OwnFetch(r).with.build /\ ~ OwnFetch(r).with.build_all_met
        /\ OwnFetch(r).from = Done(r) /\ OwnFetch(r).to = Fetched(r)
    BY <1>3 DEF OwnFetch
  <2> HIDE DEF fetches
  <2> QED BY <1>2, <2>1, MergedBuild DEF IsUnmetBuild
<1>4. ASSUME NEW e \in DOMAIN nag.edge
      PROVE  \E r \in Resolvents : decision[r] = "change" /\ e = <<Done(r), Fetched(r)>>
  <2>1. PICK a \in fetches : <<a.from, a.to>> = e
    <3> HIDE DEF fetches
    <3> QED BY <1>2, EdgesAreAdded
  <2> QED BY <2>1 DEF OwnFetch
<1>5. ASSUME NEW a \in added
      PROVE  /\ a.from \in nag.node /\ a.to \in nag.node
             /\ a.to.role = "fetched" =>
                   /\ a.from.role = "done"
                   /\ a.from = Done(a.to.resolvent) \/ BlocksFetch(a.from.resolvent, a.to.resolvent)
  <2>1. CASE a \in own
    <3>1. PICK e \in DOMAIN nag.edge : a.from = e[1] /\ a.to = e[2]
      BY <2>1
    <3>2. PICK r \in Resolvents : decision[r] = "change" /\ e = <<Done(r), Fetched(r)>>
      BY <1>4
    <3>3. Done(r) \in nag.node /\ Fetched(r) \in nag.node
      BY <1>2, <3>2, WhatIsANode
    <3> QED BY <3>1, <3>2, <3>3 DEF Done, Fetched
  <2>2. ASSUME NEW r \in Resolvents, Done(r) \in nag.node, NEW c \in resolved.reasons[r], a \in EdgesFromReason(r, c)
        PROVE  /\ a.from \in nag.node /\ a.to \in nag.node
               /\ a.to.role = "fetched" => a.from.role = "done" /\ BlocksFetch(a.from.resolvent, a.to.resolvent)
    <3>1. /\ a.from \in nag.node /\ a.to \in nag.node
          /\ a.to.role = "fetched" => a.from = Done(r) /\ BlocksFetch(r, a.to.resolvent)
      BY <1>2, <2>2, ReasonEndpoints
    <3> QED BY <3>1 DEF Done
  <2>3. ASSUME NEW r \in Resolvents, decision[r] = "change", a \in BinaryEdges(r)
        PROVE  a.from \in nag.node /\ a.to \in nag.node /\ a.to.role = "done"
    BY <1>2, <2>3, BinaryEndpoints
  <2>4. a \in own \/ \E r \in ordered : a \in reasons(r) \/ a \in binaries(r)
    OBVIOUS
  <2> QED BY <2>1, <2>2, <2>3, <2>4
<1>6. ASSUME NEW e \in DOMAIN AddEdges(added)
      PROVE  /\ e = <<e[1], e[2]>> /\ e[1] \in nag.node /\ e[2] \in nag.node
             /\ e[2].role = "fetched" =>
                   /\ e[1].role = "done"
                   /\ e[1] = Done(e[2].resolvent) \/ BlocksFetch(e[1].resolvent, e[2].resolvent)
  <2>1. PICK a \in added : <<a.from, a.to>> = e
    <3> HIDE DEF added
    <3> QED BY EdgesAreAdded
  <2> HIDE DEF added
  <2> QED BY <1>5, <2>1
<1>7. ASSUME NEW r \in Resolvents, Fetched(r) \in nag.node
      PROVE  LET e == <<Done(r), Fetched(r)>>
             IN  e \in DOMAIN AddEdges(added) /\ AddEdges(added)[e].build /\ ~ AddEdges(added)[e].build_all_met
  <2> DEFINE e == <<Done(r), Fetched(r)>>
             a == [from |-> Done(r), to |-> Fetched(r), with |-> nag.edge[e]]
  <2>1. decision[r] = "change"
    BY <1>2, <1>7, WhatIsANode
  <2>2. e \in DOMAIN nag.edge /\ IsUnmetBuild(e)
    BY <1>3, <2>1
  <2>3. a \in added
    BY <2>2
  <2>4. a.with.build /\ ~ a.with.build_all_met /\ <<a.from, a.to>> = e
    BY <2>2 DEF IsUnmetBuild
  <2> HIDE DEF a, added
  <2> QED BY <2>3, <2>4, MergedBuild
<1> HIDE DEF added
<1>8. stage' = "sorting"
  <2>1. stage' = IF VerifyEdges(nag') THEN "sorting" ELSE "internal error"
    BY DEF BuildEdges
  <2> QED BY <1>1, <1>6, <2>1 DEF VerifyEdges
<1>9. nag'.node = nag.node /\ nag'.edge = AddEdges(added) /\ DecidedNodes' = DecidedNodes
  BY <1>1, <1>2 DEF DecidedNodes, decision
<1>10. BuiltGraph'
  <2>1. IsGraph(nag')
    <3>1. nag.node \in SUBSET Indices
      BY <1>2, NodesAreIndices
    <3>2. DOMAIN AddEdges(added) \in SUBSET (nag.node \X nag.node)
      BY <1>6
    <3> QED BY <1>9, <3>1, <3>2 DEF IsGraph
  <2>2. \A r, f : BlocksFetch(r, f)' <=> BlocksFetch(r, f)
    BY <1>2 DEF BlocksFetch
  <2>3. \A e \in DOMAIN AddEdges(added) : AddEdges(added)[e] \in Properties
    BY MergedProperties
  <2> QED BY <1>6, <1>7, <1>9, <2>1, <2>2, <2>3 DEF BuiltGraph, IsUnmetBuild, BlocksFetch
<1> QED BY <1>2, <1>8, <1>9, <1>10 DEF GraphInv, Stages

-----------------------------------------------------------------------------

(* What is at the places of the rest of a sequence.                        *)
LEMMA TailFacts ==
    ASSUME NEW T, NEW t \in Seq(T), t # <<>>
    PROVE  /\ Tail(t) \in Seq(T) /\ Head(t) = t[1] /\ 1 \in DOMAIN t
           /\ \A i \in DOMAIN Tail(t) : i \in Nat /\ i + 1 \in DOMAIN t /\ Tail(t)[i] = t[i + 1] /\ 1 < i + 1
           /\ \A k \in DOMAIN t : k = 1 \/ (k - 1 \in DOMAIN Tail(t) /\ Tail(t)[k - 1] = t[k])
OBVIOUS

(* What is at the places of two sequences after each other.                *)
LEMMA JoinFacts ==
    ASSUME NEW T, NEW a \in Seq(T), NEW b \in Seq(T)
    PROVE  /\ a \o b \in Seq(T) /\ Len(a) \in Nat
           /\ \A i \in DOMAIN a : i \in DOMAIN (a \o b) /\ (a \o b)[i] = a[i] /\ i \in Nat /\ i <= Len(a)
           /\ \A k \in DOMAIN b : Len(a) + k \in DOMAIN (a \o b) /\ (a \o b)[Len(a) + k] = b[k] /\ k \in Nat /\ 0 < k
           /\ \A i \in DOMAIN (a \o b) : i \in DOMAIN a \/ \E k \in DOMAIN b : i = Len(a) + k
<1> DEFINE q == a \o b
<1>1. /\ q \in Seq(T) /\ Len(q) = Len(a) + Len(b) /\ Len(a) \in Nat /\ Len(b) \in Nat
      /\ DOMAIN a = 1..Len(a) /\ DOMAIN b = 1..Len(b) /\ DOMAIN q = 1..Len(q)
  OBVIOUS
<1>2. \A i \in 1..(Len(a) + Len(b)) : i \in 1..Len(a) \/ \E k \in 1..Len(b) : i = Len(a) + k
  <2> SUFFICES ASSUME NEW i \in 1..(Len(a) + Len(b)), ~ (i \in 1..Len(a))
               PROVE  \E k \in 1..Len(b) : i = Len(a) + k
    OBVIOUS
  <2>1. i - Len(a) \in 1..Len(b) /\ i = Len(a) + (i - Len(a))
    BY <1>1
  <2> QED BY <2>1
<1>3. \A i \in 1..Len(a) : q[i] = a[i]
  OBVIOUS
<1>4. \A k \in 1..Len(b) : q[Len(a) + k] = b[k]
  OBVIOUS
<1> HIDE DEF q
<1>5. /\ \A i \in DOMAIN a : i \in DOMAIN q /\ q[i] = a[i] /\ i \in Nat /\ i <= Len(a)
      /\ \A k \in DOMAIN b : Len(a) + k \in DOMAIN q /\ q[Len(a) + k] = b[k] /\ k \in Nat /\ 0 < k
      /\ \A i \in DOMAIN q : i \in DOMAIN a \/ \E k \in DOMAIN b : i = Len(a) + k
  <2>1. \A i \in DOMAIN a : i \in DOMAIN q /\ q[i] = a[i] /\ i \in Nat /\ i <= Len(a)
    BY <1>1, <1>3
  <2>2. \A k \in DOMAIN b : Len(a) + k \in DOMAIN q /\ k \in Nat /\ 0 < k
    BY <1>1
  <2>3. \A k \in DOMAIN b : q[Len(a) + k] = b[k]
    BY <1>1, <1>4
  <2>4. \A i \in DOMAIN q : i \in DOMAIN a \/ \E k \in DOMAIN b : i = Len(a) + k
    BY <1>1, <1>2
  <2> QED BY <2>1, <2>2, <2>3, <2>4
<1> QED BY <1>1, <1>5 DEF q

-----------------------------------------------------------------------------

(* A node of a component of several needs a member of it directly.         *)
LEMMA EdgeWithin ==
    ASSUME NEW g, IsGraph(g), NEW P \in SCCs(g), NEW f \in P, P # {f}
    PROVE  \E e \in DOMAIN g.edge : e[2] = f /\ e[1] \in P
<1> DEFINE C == Connected(g.node, DOMAIN g.edge)
           all == SCCs(g)
<1>1. SCCsPart(g, all, C) /\ Paths(g.node, DOMAIN g.edge)
  BY ComponentsPart, ConnectedPaths DEF IsGraph
<1>2. PICK b \in P : b # f
  OBVIOUS
<1>3. P \subseteq g.node
  <2> HIDE DEF all, C
  <2> QED BY <1>1 DEF SCCsPart, all
<1>4. <<b, f>> \in C /\ <<f, b>> \in C
  <2> HIDE DEF all, C
  <2> QED BY <1>1, <1>2 DEF SCCsPart, all
<1>5. PICK e \in DOMAIN g.edge : e[2] = f /\ (e[1] = b \/ <<b, e[1]>> \in C)
  BY <1>4, LastEdge DEF IsGraph
<1>6. e = <<e[1], e[2]>> /\ e[1] \in g.node
  BY DEF IsGraph
<1>7. CASE e[1] = b
  BY <1>5, <1>7
<1>8. CASE <<b, e[1]>> \in C
  <2> HIDE DEF all, C
  <2>1. <<f, e[1]>> \in C
    BY <1>1, <1>3, <1>4, <1>6, <1>8 DEF Paths, C
  <2>2. <<e[1], f>> \in C
    BY <1>1, <1>5, <1>6 DEF Paths, C
  <2>3. PICK d \in all : e[1] \in d
    BY <1>1, <1>6 DEF SCCsPart
  <2>4. P = d
    BY <1>1, <2>1, <2>2, <2>3 DEF SCCsPart, all
  <2> QED BY <1>5, <2>3, <2>4
<1> QED BY <1>5, <1>7, <1>8

(* A part of the graph: its nodes, and all edges that are not met.         *)
SubgraphOn(g, S) ==
    /\ g.node = S
    /\ DOMAIN g.edge \subseteq {e \in DOMAIN nag.edge : e[1] \in S /\ e[2] \in S}
    /\ \A e \in DOMAIN nag.edge :
          e[1] \in S /\ e[2] \in S /\ ~ AllMet(nag.edge[e]) => e \in DOMAIN g.edge

(* Both kinds of subgraphs keep what is not met.                           *)
LEMMA Subgraphs ==
    ASSUME NEW S
    PROVE  /\ SubgraphOn(Subgraph(nag, S, AnyEdge), S)
           /\ SubgraphOn(Subgraph(nag, S, Unmet), S)
           /\ DOMAIN Subgraph(nag, S, Unmet).edge \subseteq UnmetEdges
BY DEF SubgraphOn, Subgraph, AnyEdge, Unmet, UnmetEdges

(* What must be built first is not met.                                    *)
LEMMA UnmetBuildIsUnmet ==
    ASSUME NEW e, IsUnmetBuild(e)
    PROVE  ~ AllMet(nag.edge[e])
BY DEF IsUnmetBuild, AllMet

(* What is a change.                                                       *)
LEMMA FetchedChange ==
    ASSUME nag.node = DecidedNodes, BuiltGraph, NEW f \in nag.node, f.role = "fetched"
    PROVE  /\ f.resolvent \in Resolvents /\ f = Fetched(f.resolvent)
           /\ decision[f.resolvent] = "change"
           /\ Done(f.resolvent) \in nag.node /\ IsChange(Done(f.resolvent)) /\ IsChange(f)
           /\ <<Done(f.resolvent), f>> \in DOMAIN nag.edge
           /\ IsUnmetBuild(<<Done(f.resolvent), f>>)
<1>1. f \in Indices
  BY DEF BuiltGraph, IsGraph
<1>2. f.resolvent \in Resolvents /\ f = Fetched(f.resolvent)
  BY <1>1 DEF Indices, Fetched
<1>3. decision[f.resolvent] = "change" /\ Done(f.resolvent) \in nag.node
  BY <1>2, WhatIsANode
<1>4. IsChange(Done(f.resolvent)) /\ IsChange(f)
  BY <1>3 DEF IsChange, Done
<1>5. Fetched(f.resolvent) \in nag.node
  BY <1>2
<1>6. <<Done(f.resolvent), Fetched(f.resolvent)>> \in DOMAIN nag.edge
      /\ IsUnmetBuild(<<Done(f.resolvent), Fetched(f.resolvent)>>)
  BY <1>2, <1>5 DEF BuiltGraph
<1> QED BY <1>2, <1>3, <1>4, <1>6

(* A part of the graph is a graph, and its fetches need only what is done. *)
LEMMA SubgraphIsGraph ==
    ASSUME BuiltGraph, NEW S \in SUBSET nag.node, NEW g, SubgraphOn(g, S)
    PROVE  IsGraph(g) /\ FetchesNeedDone(g)
<1>1. \A e \in DOMAIN nag.edge : e = <<e[1], e[2]>>
  BY DEF BuiltGraph, IsGraph
<1>2. \A e \in DOMAIN g.edge : e \in DOMAIN nag.edge /\ e[1] \in S /\ e[2] \in S
  BY DEF SubgraphOn
<1>3. DOMAIN g.edge \in SUBSET (S \X S)
  BY <1>1, <1>2
<1>4. IsGraph(g)
  BY <1>3 DEF SubgraphOn, BuiltGraph, IsGraph
<1>5. FetchesNeedDone(g)
  BY <1>2 DEF FetchesNeedDone, BuiltGraph
<1> QED BY <1>4, <1>5

(* The sort of a part of the graph fails only if a fetch blocks what it    *)
(* needs.                                                                  *)
LEMMA SortFails ==
    ASSUME nag.node = DecidedNodes, BuiltGraph, NEW S \in SUBSET nag.node, NEW g, SubgraphOn(g, S),
           FetchesHaveChanges(S), NEW early, \A n : S # {n}
    PROVE  ~ SortedSCCs(g, early).fails
<1> SUFFICES ASSUME NEW f \in g.node, Unwanted(g, f) PROVE FALSE
  BY SubgraphIsGraph, SortedInOrder
<1>1. f \in S /\ f \in nag.node /\ f.role = "fetched" /\ \A e \in DOMAIN g.edge : e[2] # f
  BY DEF Unwanted, SubgraphOn
<1> DEFINE e == <<Done(f.resolvent), f>>
<1>2. e \in DOMAIN nag.edge /\ IsUnmetBuild(e)
  BY <1>1, FetchedChange
<1>3. Done(f.resolvent) \in S
  BY <1>1 DEF FetchesHaveChanges
<1>4. e[1] = Done(f.resolvent) /\ e[2] = f
  OBVIOUS
<1> HIDE DEF e
<1>5. e \in DOMAIN g.edge
  BY <1>1, <1>2, <1>3, <1>4, UnmetBuildIsUnmet DEF SubgraphOn
<1> QED BY <1>1, <1>4, <1>5

(* Every fetch of the whole graph is wanted by its change, so that it can  *)
(* be sorted.                                                              *)
LEMMA NAGSorts ==
    ASSUME nag.node = DecidedNodes, BuiltGraph, NEW early
    PROVE  ~ SortedSCCs(nag, early).fails /\ InDependencyOrder(nag, SortedSCCs(nag, early).result)
<1>1. IsGraph(nag) /\ FetchesNeedDone(nag)
  BY DEF BuiltGraph, FetchesNeedDone
<1>2. ASSUME NEW f \in nag.node, Unwanted(nag, f) PROVE FALSE
  <2>1. f.role = "fetched" /\ \A e \in DOMAIN nag.edge : e[2] # f
    BY <1>2 DEF Unwanted
  <2>2. <<Done(f.resolvent), f>> \in DOMAIN nag.edge
    BY <2>1, FetchedChange
  <2> QED BY <2>1, <2>2
<1> QED BY <1>1, <1>2, SortedInOrder

(* A fetch without its change, in a component of several, is needed by a   *)
(* blocker.                                                                *)
LEMMA LoneFetchBlocks ==
    ASSUME nag.node = DecidedNodes, BuiltGraph, NEW f \in nag.node, f.role = "fetched",
           NEW e \in DOMAIN nag.edge, e[2] = f, e[1] # Done(f.resolvent),
           <<f, e[1]>> \in AllConnected
    PROVE  FetchBlocks
<1>1. e[1] \in nag.node /\ e[1] \in Indices
  BY DEF BuiltGraph, IsGraph
<1>2. e[1].role = "done" /\ BlocksFetch(e[1].resolvent, f.resolvent)
  BY DEF BuiltGraph
<1>3. e[1].resolvent \in Resolvents /\ e[1] = Done(e[1].resolvent)
  BY <1>1, <1>2 DEF Indices, Done
<1>4. PICK c \in resolved.reasons[e[1].resolvent] :
         c.kind = "dependency" /\ c.fetch /\ ~ c.normal /\ c.from = f.resolvent
  BY <1>2 DEF BlocksFetch
<1>5. f = Fetched(c.from)
  BY <1>4, FetchedChange
<1>6. <<Fetched(c.from), Done(e[1].resolvent)>> \in AllConnected
  BY <1>3, <1>5
<1> QED BY <1>3, <1>4, <1>6 DEF FetchBlocks

(* The components of a part are parts again.                               *)
LEMMA PartsFit ==
    ASSUME nag.node = DecidedNodes, BuiltGraph, NEW S \in SUBSET nag.node, NEW g, SubgraphOn(g, S),
           Mutual(S, AllConnected), NEW P \in SCCs(g)
    PROVE  /\ P # {} /\ P \subseteq S
           /\ Mutual(P, AllConnected)
           /\ FetchesHaveChanges(P) \/ FetchBlocks
<1>1. IsGraph(g) /\ SCCsPart(g, SCCs(g), Connected(g.node, DOMAIN g.edge)) /\ g.node = S
  BY SubgraphIsGraph, ComponentsPart DEF SubgraphOn
<1>2. P # {} /\ P \subseteq S
  BY <1>1 DEF SCCsPart, Apart
<1>3. Mutual(P, AllConnected)
  BY <1>2 DEF Mutual
<1>4. ASSUME NEW f \in P, f.role = "fetched", P # {f}, Done(f.resolvent) \notin P
      PROVE  FetchBlocks
  <2>1. PICK e \in DOMAIN g.edge : e[2] = f /\ e[1] \in P
    BY <1>1, <1>4, EdgeWithin
  <2>2. e \in DOMAIN nag.edge
    BY DEF SubgraphOn
  <2>3. e[1] # f
    BY <1>1, <1>4, <2>1, SubgraphIsGraph DEF FetchesNeedDone
  <2>4. <<f, e[1]>> \in AllConnected
    BY <1>3, <2>1, <2>3 DEF Mutual
  <2>5. f \in nag.node /\ e[1] # Done(f.resolvent)
    BY <1>2, <1>4, <2>1
  <2> QED BY <1>4, <2>1, <2>2, <2>4, <2>5, LoneFetchBlocks
<1> QED BY <1>2, <1>3, <1>4 DEF FetchesHaveChanges

(* The second time, a fetch is in the same part as its change.             *)
LEMMA PartsFitAgain ==
    ASSUME nag.node = DecidedNodes, BuiltGraph, OnlyOwnFetches(nag),
           NEW S \in SUBSET nag.node, NEW g, SubgraphOn(g, S),
           DOMAIN g.edge \subseteq UnmetEdges, NEW P \in SCCs(g)
    PROVE  FetchesHaveChanges(P) /\ Mutual(P, Connected(nag.node, UnmetEdges))
<1>1. IsGraph(g) /\ SCCsPart(g, SCCs(g), Connected(g.node, DOMAIN g.edge)) /\ g.node = S
  BY SubgraphIsGraph, ComponentsPart DEF SubgraphOn
<1>2. ASSUME NEW f \in P, f.role = "fetched", P # {f}
      PROVE  Done(f.resolvent) \in P
  <2>1. PICK e \in DOMAIN g.edge : e[2] = f /\ e[1] \in P
    BY <1>1, <1>2, EdgeWithin
  <2>2. e \in DOMAIN nag.edge /\ ~ AllMet(nag.edge[e])
    BY DEF UnmetEdges
  <2> QED BY <1>2, <2>1, <2>2 DEF OnlyOwnFetches
<1>3. Connected(S, DOMAIN g.edge) \subseteq Connected(nag.node, UnmetEdges)
  <2>1. DOMAIN g.edge \subseteq S \X S
    BY <1>1 DEF IsGraph
  <2> QED BY <2>1, ConnectedInPart
<1>4. Mutual(P, Connected(nag.node, UnmetEdges))
  BY <1>1, <1>3 DEF SCCsPart, Mutual
<1> QED BY <1>2, <1>4 DEF FetchesHaveChanges

(* In the order of the sort, no part needs a later one.                    *)
LEMMA PartsInOrder ==
    ASSUME BuiltGraph, NEW S \in SUBSET nag.node, NEW g, SubgraphOn(g, S), Mutual(S, AllConnected),
           NEW s, InDependencyOrder(g, s), NEW i \in DOMAIN s, NEW j \in DOMAIN s, i < j
    PROVE  MayPrecede(s[i], s[j])
<1> SUFFICES ASSUME NEW a \in s[i], NEW b \in s[j] PROVE a # b /\ ~ MustFollow(a, b)
  BY DEF MayPrecede
<1>1. IsGraph(g) /\ SCCsPart(g, SCCs(g), Connected(g.node, DOMAIN g.edge)) /\ g.node = S
  BY SubgraphIsGraph, ComponentsPart DEF SubgraphOn
<1>2. s[i] \in SCCs(g) /\ s[j] \in SCCs(g) /\ i \in Nat /\ j \in Nat /\ i # j /\ s[i] # s[j]
  BY DEF InDependencyOrder, Enumerates
<1>3. a \in S /\ b \in S /\ a # b
  BY <1>1, <1>2 DEF SCCsPart, Apart
<1>4. <<b, a>> \in AllConnected
  BY <1>3 DEF Mutual
<1>5. ASSUME <<a, b>> \in DOMAIN nag.edge, IsUnmetBuild(<<a, b>>) PROVE FALSE
  <2> DEFINE e == <<a, b>>
  <2>1. e[1] = a /\ e[2] = b
    OBVIOUS
  <2>2. e \in DOMAIN g.edge
    <3> HIDE DEF e
    <3>1. ~ AllMet(nag.edge[e])
      BY <1>5, UnmetBuildIsUnmet DEF e
    <3> QED BY <1>3, <1>5, <2>1, <3>1 DEF SubgraphOn, e
  <2>3. e \in Connected(g.node, DOMAIN g.edge)
    BY <1>1, <2>2, ConnectedPaths DEF Paths, IsGraph
  <2>4. j <= i
    BY <2>3 DEF InDependencyOrder
  <2> QED BY <1>2, <2>4
<1> QED BY <1>3, <1>4, <1>5 DEF MustFollow

(* In the order of the sort, no component needs a later one.               *)
LEMMA ComponentsInOrder ==
    ASSUME BuiltGraph, NEW s, InDependencyOrder(nag, s), NEW i \in DOMAIN s, NEW j \in DOMAIN s, i < j
    PROVE  MayPrecede(s[i], s[j])
<1> SUFFICES ASSUME NEW a \in s[i], NEW b \in s[j] PROVE a # b /\ ~ MustFollow(a, b)
  BY DEF MayPrecede
<1>1. IsGraph(nag) /\ SCCsPart(nag, SCCs(nag), AllConnected)
  BY ComponentsPart DEF BuiltGraph, AllConnected
<1>2. s[i] \in SCCs(nag) /\ s[j] \in SCCs(nag) /\ i \in Nat /\ j \in Nat /\ i # j /\ s[i] # s[j]
  BY DEF InDependencyOrder, Enumerates
<1>3. a # b
  BY <1>1, <1>2 DEF SCCsPart, Apart
<1>4. <<a, b>> \notin AllConnected
  <2> SUFFICES ASSUME <<a, b>> \in AllConnected PROVE j <= i
    BY <1>2
  <2> QED BY DEF InDependencyOrder, AllConnected
<1>5. \A e \in DOMAIN nag.edge : e \in AllConnected
  BY <1>1, ConnectedPaths DEF Paths, IsGraph, AllConnected
<1> QED BY <1>3, <1>4, <1>5 DEF MustFollow

-----------------------------------------------------------------------------

(* What is left to do when the first item is gone.                         *)
LEMMA TailFits ==
    ASSUME NEW t, TodoFits(t), t # <<>>
    PROVE  /\ TodoFits(Tail(t))
           /\ \A k \in DOMAIN Tail(t) : MayPrecede(Head(t).node, Tail(t)[k].node)
           /\ ItemFits(Head(t))
           /\ Head(t) \in Items
<1> DEFINE s == Tail(t)
<1>1. /\ s \in Seq(Items) /\ Head(t) = t[1] /\ 1 \in DOMAIN t
      /\ \A i \in DOMAIN s : i \in Nat /\ i + 1 \in DOMAIN t /\ s[i] = t[i + 1] /\ 1 < i + 1
  BY TailFacts DEF TodoFits
<1>2. \A i \in DOMAIN t : ItemFits(t[i]) /\ t[i] \in Items
  BY DEF TodoFits
<1>3. \A i, j \in DOMAIN t : i < j => MayPrecede(t[i].node, t[j].node)
  BY DEF TodoFits, InOrderAll
<1> HIDE DEF s
<1>4. \A i \in DOMAIN s : ItemFits(s[i])
  BY <1>1, <1>2
<1>5. ASSUME NEW i \in DOMAIN s, NEW j \in DOMAIN s, i < j PROVE MayPrecede(s[i].node, s[j].node)
  <2>1. i + 1 < j + 1
    BY <1>1, <1>5
  <2> QED BY <1>1, <1>3, <2>1
<1>6. \A k \in DOMAIN s : MayPrecede(Head(t).node, s[k].node)
  BY <1>1, <1>3
<1>7. TodoFits(s)
  BY <1>1, <1>4, <1>5 DEF TodoFits, InOrderAll
<1> QED BY <1>1, <1>2, <1>6, <1>7 DEF s

(* Some of what may go before.                                             *)
LEMMA PrecedeLess ==
    ASSUME NEW S, NEW T, MayPrecede(S, T), NEW U \in SUBSET S
    PROVE  MayPrecede(U, T)
BY DEF MayPrecede

(* Some of what may come after.                                            *)
LEMMA FollowLess ==
    ASSUME NEW S, NEW T, MayPrecede(S, T), NEW U \in SUBSET T
    PROVE  MayPrecede(S, U)
BY DEF MayPrecede

(* The parts of the first item, before what is still to be done.           *)
Replaces(new, x) ==
    /\ new \in Seq(Items)
    /\ \A i \in DOMAIN new : ItemFits(new[i]) /\ new[i].node \subseteq x.node
    /\ InOrderAll(new)
    /\ \A n \in x.node : IsChange(n) => \E i \in DOMAIN new : n \in new[i].node

(* The first item may be replaced by its parts.                            *)
LEMMA ReplacedFits ==
    ASSUME NEW t, TodoFits(t), t # <<>>, NEW new, Replaces(new, Head(t))
    PROVE  /\ TodoFits(new \o Tail(t))
           /\ \A i \in DOMAIN (new \o Tail(t)) : \E k \in DOMAIN t : (new \o Tail(t))[i].node \subseteq t[k].node
           /\ \A k \in DOMAIN t : \A n \in t[k].node : IsChange(n) =>
                 \E i \in DOMAIN (new \o Tail(t)) : n \in (new \o Tail(t))[i].node
<1> DEFINE s == Tail(t)
           q == new \o s
           x == Head(t)
<1>1. /\ TodoFits(s) /\ s \in Seq(Items)
      /\ \A k \in DOMAIN s : MayPrecede(x.node, s[k].node)
  BY TailFits DEF TodoFits
<1>2. /\ x = t[1] /\ 1 \in DOMAIN t
      /\ \A i \in DOMAIN s : i + 1 \in DOMAIN t /\ s[i] = t[i + 1]
      /\ \A k \in DOMAIN t : k = 1 \/ (k - 1 \in DOMAIN s /\ s[k - 1] = t[k])
  BY TailFacts DEF TodoFits
<1>3. new \in Seq(Items)
  BY DEF Replaces
<1> HIDE DEF s, x
<1>4. /\ q \in Seq(Items) /\ Len(new) \in Nat
      /\ \A i \in DOMAIN new : i \in DOMAIN q /\ q[i] = new[i] /\ i \in Nat /\ i <= Len(new)
      /\ \A k \in DOMAIN s : Len(new) + k \in DOMAIN q /\ q[Len(new) + k] = s[k] /\ k \in Nat /\ 0 < k
      /\ \A i \in DOMAIN q : i \in DOMAIN new \/ \E k \in DOMAIN s : i = Len(new) + k
  BY <1>1, <1>3, JoinFacts
<1> HIDE DEF q
<1>n. \A i \in DOMAIN new : ItemFits(new[i]) /\ new[i].node \in SUBSET x.node
  BY DEF Replaces, x
<1>5. \A i \in DOMAIN q : ItemFits(q[i])
  BY <1>1, <1>4, <1>n DEF TodoFits
<1>6. ASSUME NEW i \in DOMAIN q, NEW j \in DOMAIN q, i < j
      PROVE  MayPrecede(q[i].node, q[j].node)
  <2>1. CASE i \in DOMAIN new /\ j \in DOMAIN new
    BY <1>4, <1>6, <2>1 DEF Replaces, InOrderAll
  <2>2. ASSUME i \in DOMAIN new, NEW k \in DOMAIN s, j = Len(new) + k
        PROVE  MayPrecede(q[i].node, q[j].node)
    <3>1. MayPrecede(x.node, s[k].node)
      BY <1>1
    <3>2. MayPrecede(new[i].node, s[k].node)
      BY <1>n, <2>2, <3>1, PrecedeLess
    <3> QED BY <1>4, <2>2, <3>2
  <2>3. ASSUME NEW l \in DOMAIN s, NEW k \in DOMAIN s, i = Len(new) + l, j = Len(new) + k
        PROVE  MayPrecede(q[i].node, q[j].node)
    <3>1. l < k
      BY <1>4, <1>6, <2>3
    <3>2. MayPrecede(s[l].node, s[k].node)
      BY <1>1, <3>1 DEF TodoFits, InOrderAll
    <3> QED BY <1>4, <2>3, <3>2
  <2>4. ASSUME j \in DOMAIN new, NEW l \in DOMAIN s, i = Len(new) + l PROVE FALSE
    BY <1>4, <1>6, <2>4
  <2> QED BY <1>4, <2>1, <2>2, <2>3, <2>4
<1>7. ASSUME NEW i \in DOMAIN q PROVE \E k \in DOMAIN t : q[i].node \subseteq t[k].node
  <2>1. CASE i \in DOMAIN new
    BY <1>2, <1>4, <1>n, <2>1
  <2>2. ASSUME NEW l \in DOMAIN s, i = Len(new) + l PROVE \E k \in DOMAIN t : q[i].node \subseteq t[k].node
    BY <1>2, <1>4, <2>2
  <2> QED BY <1>4, <2>1, <2>2
<1>8. ASSUME NEW k \in DOMAIN t, NEW n \in t[k].node, IsChange(n)
      PROVE  \E i \in DOMAIN q : n \in q[i].node
  <2>1. CASE k = 1
    <3>1. PICK i \in DOMAIN new : n \in new[i].node
      BY <1>2, <1>8, <2>1 DEF Replaces, x
    <3> QED BY <1>4, <3>1
  <2>2. CASE k # 1
    <3>1. k - 1 \in DOMAIN s /\ s[k - 1] = t[k]
      BY <1>2, <2>2
    <3>2. Len(new) + (k - 1) \in DOMAIN q /\ q[Len(new) + (k - 1)] = t[k]
      BY <1>4, <3>1
    <3> QED BY <3>2
  <2> QED BY <2>1, <2>2
<1>9. TodoFits(q)
  BY <1>4, <1>5, <1>6 DEF TodoFits, InOrderAll
<1> QED BY <1>7, <1>8, <1>9 DEF q, s

(* And nothing of it is forgotten.                                         *)
LEMMA ReplacedOrdering ==
    ASSUME NEW t, NEW j, NEW u, Ordering(t, j, u), t # <<>>, NEW new, Replaces(new, Head(t))
    PROVE  Ordering(new \o Tail(t), j, u)
<1> DEFINE q == new \o Tail(t)
<1>1. /\ TodoFits(q)
      /\ \A i \in DOMAIN q : \E k \in DOMAIN t : q[i].node \subseteq t[k].node
      /\ \A k \in DOMAIN t : \A n \in t[k].node : IsChange(n) => \E i \in DOMAIN q : n \in q[i].node
  BY ReplacedFits DEF Ordering
<1> HIDE DEF q
<1>2. JobsGoFirst(j, q)
  <2> SUFFICES ASSUME NEW k \in DOMAIN j, NEW i \in DOMAIN q PROVE MayPrecede({j[k].index}, q[i].node)
    BY DEF JobsGoFirst
  <2>1. PICK l \in DOMAIN t : q[i].node \in SUBSET t[l].node
    BY <1>1
  <2>2. MayPrecede({j[k].index}, t[l].node)
    BY DEF Ordering, JobsGoFirst
  <2> QED BY <2>1, <2>2, FollowLess
<1>3. ReportsFit(u, q, j)
  <2>1. \A k \in DOMAIN u, i \in DOMAIN q : u[k] \notin q[i].node
    BY <1>1 DEF Ordering, ReportsFit
  <2> QED BY <2>1 DEF Ordering, ReportsFit
<1>4. NothingForgotten(q, j, u)
  BY <1>1 DEF Ordering, NothingForgotten
<1> QED BY <1>1, <1>2, <1>3, <1>4 DEF Ordering, q

(* Where the nodes are when the first item is gone.                        *)
LEMMA TailNodes ==
    ASSUME NEW t, TodoFits(t), t # <<>>
    PROVE  /\ \A i \in DOMAIN Tail(t) : \E k \in DOMAIN t : Tail(t)[i].node = t[k].node
           /\ \A k \in DOMAIN t : \A n \in t[k].node : n \in Head(t).node \/ \E i \in DOMAIN Tail(t) : n \in Tail(t)[i].node
           /\ \A i \in DOMAIN Tail(t), n \in Head(t).node : n \notin Tail(t)[i].node
           /\ \E k \in DOMAIN t : Head(t) = t[k]
<1>1. \A k \in DOMAIN Tail(t) : MayPrecede(Head(t).node, Tail(t)[k].node)
  BY TailFits
<1>2. /\ Head(t) = t[1] /\ 1 \in DOMAIN t
      /\ \A i \in DOMAIN Tail(t) : i + 1 \in DOMAIN t /\ Tail(t)[i] = t[i + 1]
      /\ \A k \in DOMAIN t : k = 1 \/ (k - 1 \in DOMAIN Tail(t) /\ Tail(t)[k - 1] = t[k])
  BY TailFacts DEF TodoFits
<1>3. ASSUME NEW k \in DOMAIN t, NEW n \in t[k].node
      PROVE  n \in Head(t).node \/ \E i \in DOMAIN Tail(t) : n \in Tail(t)[i].node
  BY <1>2
<1>4. \A i \in DOMAIN Tail(t), n \in Head(t).node : n \notin Tail(t)[i].node
  BY <1>1 DEF MayPrecede
<1> QED BY <1>2, <1>3, <1>4

(* The first item is reported as unorderable.                              *)
LEMMA ReportedOrdering ==
    ASSUME NEW t, NEW j, NEW u, Ordering(t, j, u), t # <<>>,
           NEW q \in Seq(Indices), \A k, l \in DOMAIN q : q[k] = q[l] => k = l,
           \A k \in DOMAIN q : /\ q[k] \in Head(t).node /\ q[k].role = "done"
                               /\ <<q[k], q[k]>> \in Connected(nag.node, UnmetEdges),
           \A n \in Head(t).node : \/ IsReported(n, q)
                                   \/ n.role = "fetched" /\ IsReported(Done(n.resolvent), q)
    PROVE  Ordering(Tail(t), j, u \o q)
<1> DEFINE s == Tail(t)
           v == u \o q
<1>1. /\ TodoFits(s)
      /\ \A i \in DOMAIN s : \E k \in DOMAIN t : s[i].node = t[k].node
      /\ \A k \in DOMAIN t : \A n \in t[k].node : n \in Head(t).node \/ \E i \in DOMAIN s : n \in s[i].node
      /\ \A i \in DOMAIN s, n \in Head(t).node : n \notin s[i].node
      /\ \E k \in DOMAIN t : Head(t) = t[k]
  BY TailFits, TailNodes DEF Ordering
<1>2. u \in Seq(Indices)
  BY DEF Ordering, ReportsFit
<1> HIDE DEF s
<1>3. /\ v \in Seq(Indices) /\ Len(u) \in Nat
      /\ \A i \in DOMAIN u : i \in DOMAIN v /\ v[i] = u[i]
      /\ \A k \in DOMAIN q : Len(u) + k \in DOMAIN v /\ v[Len(u) + k] = q[k]
      /\ \A i \in DOMAIN v : i \in DOMAIN u \/ \E k \in DOMAIN q : i = Len(u) + k
  BY <1>2, JoinFacts
<1> HIDE DEF v
<1>r. /\ \A k, l \in DOMAIN u : u[k] = u[l] => k = l
      /\ \A k \in DOMAIN u :
            /\ u[k].role = "done"
            /\ <<u[k], u[k]>> \in Connected(nag.node, UnmetEdges)
            /\ \A i \in DOMAIN t : u[k] \notin t[i].node
            /\ \A i \in DOMAIN j : u[k] # j[i].index
  BY DEF Ordering, ReportsFit
<1>j. \A i \in DOMAIN j, k \in DOMAIN t : j[i].index \notin t[k].node
  BY DEF Ordering, JobsGoFirst, MayPrecede
<1>4. JobsGoFirst(j, s)
  BY <1>1 DEF Ordering, JobsGoFirst
<1>5. \A k \in DOMAIN u, l \in DOMAIN q : u[k] # q[l]
  BY <1>1, <1>r
<1>6. ASSUME NEW k \in DOMAIN v, NEW l \in DOMAIN v, v[k] = v[l] PROVE k = l
  <2>1. CASE k \in DOMAIN u /\ l \in DOMAIN u
    BY <1>3, <1>6, <1>r, <2>1
  <2>2. ASSUME NEW a \in DOMAIN q, NEW b \in DOMAIN q, k = Len(u) + a, l = Len(u) + b PROVE k = l
    <3>1. q[a] = q[b]
      BY <1>3, <1>6, <2>2
    <3>2. a = b
      BY <3>1
    <3> QED BY <2>2, <3>2
  <2>3. ASSUME k \in DOMAIN u, NEW b \in DOMAIN q, l = Len(u) + b PROVE FALSE
    BY <1>3, <1>5, <1>6, <2>3
  <2>4. ASSUME l \in DOMAIN u, NEW b \in DOMAIN q, k = Len(u) + b PROVE FALSE
    BY <1>3, <1>5, <1>6, <2>4
  <2> QED BY <1>3, <2>1, <2>2, <2>3, <2>4
<1>7. ASSUME NEW k \in DOMAIN v
      PROVE  /\ v[k].role = "done"
             /\ <<v[k], v[k]>> \in Connected(nag.node, UnmetEdges)
             /\ \A i \in DOMAIN s : v[k] \notin s[i].node
             /\ \A i \in DOMAIN j : v[k] # j[i].index
  <2>1. CASE k \in DOMAIN u
    <3>1. v[k] = u[k]
      BY <1>3, <2>1
    <3>2. \A i \in DOMAIN s : u[k] \notin s[i].node
      BY <1>1, <1>r, <2>1
    <3> QED BY <1>r, <2>1, <3>1, <3>2
  <2>2. ASSUME NEW a \in DOMAIN q, k = Len(u) + a
        PROVE  /\ v[k].role = "done"
               /\ <<v[k], v[k]>> \in Connected(nag.node, UnmetEdges)
               /\ \A i \in DOMAIN s : v[k] \notin s[i].node
               /\ \A i \in DOMAIN j : v[k] # j[i].index
    <3>1. v[k] = q[a]
      BY <1>3, <2>2
    <3> QED BY <1>1, <1>j, <3>1
  <2> QED BY <1>3, <2>1, <2>2
<1>8. ReportsFit(v, s, j)
  BY <1>3, <1>6, <1>7 DEF ReportsFit
<1>9. \A n : IsReported(n, u) \/ IsReported(n, q) => IsReported(n, v)
  BY <1>3 DEF IsReported
<1>10. NothingForgotten(s, j, v)
  BY <1>1, <1>9 DEF Ordering, NothingForgotten
<1> QED BY <1>1, <1>4, <1>8, <1>10 DEF Ordering, s, v

(* The first item is a single node, and becomes a job.                     *)
LEMMA ScheduledOrdering ==
    ASSUME NEW T, NEW t, NEW j \in Seq(T), NEW u, Ordering(t, j, u), t # <<>>,
           NEW n, Head(t).node = {n}, ~ SelfDependent(n), NEW job \in T, job.index = n
    PROVE  Ordering(Tail(t), Append(j, job), u)
<1> DEFINE s == Tail(t)
           q == Append(j, job)
<1>1. /\ TodoFits(s)
      /\ \A i \in DOMAIN s : \E k \in DOMAIN t : s[i].node = t[k].node
      /\ \A k \in DOMAIN t : \A m \in t[k].node : m = n \/ \E i \in DOMAIN s : m \in s[i].node
      /\ \A i \in DOMAIN s : MayPrecede({n}, s[i].node)
      /\ \E k \in DOMAIN t : n \in t[k].node
  <2> DEFINE x == Head(t).node
  <2>1. /\ TodoFits(s)
        /\ \A k \in DOMAIN s : MayPrecede(x, s[k].node)
    BY TailFits DEF Ordering
  <2>2. /\ \A i \in DOMAIN s : \E k \in DOMAIN t : s[i].node = t[k].node
        /\ \A k \in DOMAIN t : \A m \in t[k].node : m \in x \/ \E i \in DOMAIN s : m \in s[i].node
        /\ \E k \in DOMAIN t : x = t[k].node
    BY TailNodes DEF Ordering
  <2>3. x = {n}
    OBVIOUS
  <2> HIDE DEF x, s
  <2> QED BY <2>1, <2>2, <2>3
<1> HIDE DEF s
<1>2. /\ \A i \in DOMAIN j : i \in DOMAIN q /\ q[i] = j[i] /\ i \in Nat /\ i < Len(j) + 1
      /\ Len(j) + 1 \in DOMAIN q /\ q[Len(j) + 1] = job
      /\ \A i \in DOMAIN q : i \in DOMAIN j \/ i = Len(j) + 1
      /\ Len(j) \in Nat
  OBVIOUS
<1> HIDE DEF q
<1>3. \A i \in DOMAIN j, k \in DOMAIN t : MayPrecede({j[i].index}, t[k].node)
  BY DEF Ordering, JobsGoFirst
<1>4. ASSUME NEW k \in DOMAIN q, NEW l \in DOMAIN q, k < l PROVE MayPrecede({q[k].index}, {q[l].index})
  <2>1. CASE k \in DOMAIN j /\ l \in DOMAIN j
    BY <1>2, <1>4, <2>1 DEF Ordering, JobsFit
  <2>2. CASE k \in DOMAIN j /\ l = Len(j) + 1
    <3>1. PICK i \in DOMAIN t : n \in t[i].node
      BY <1>1
    <3>2. MayPrecede({j[k].index}, t[i].node) /\ {n} \in SUBSET t[i].node
      BY <1>3, <2>2, <3>1
    <3>3. MayPrecede({j[k].index}, {n})
      BY <3>2, FollowLess
    <3>4. q[k] = j[k] /\ q[l] = job
      BY <1>2, <2>2
    <3> QED BY <3>3, <3>4
  <2>3. CASE k = Len(j) + 1
    BY <1>2, <1>4, <2>3
  <2> QED BY <1>2, <2>1, <2>2, <2>3
<1>5. JobsFit(q)
  <2>1. \A k \in DOMAIN q : ~ SelfDependent(q[k].index)
    BY <1>2 DEF Ordering, JobsFit
  <2> QED BY <1>4, <2>1 DEF JobsFit
<1>6. JobsGoFirst(q, s)
  <2> SUFFICES ASSUME NEW k \in DOMAIN q, NEW i \in DOMAIN s PROVE MayPrecede({q[k].index}, s[i].node)
    BY DEF JobsGoFirst
  <2>1. PICK l \in DOMAIN t : s[i].node = t[l].node
    BY <1>1
  <2>2. CASE k \in DOMAIN j
    <3>1. MayPrecede({j[k].index}, t[l].node) /\ q[k] = j[k]
      BY <1>2, <1>3, <2>2
    <3> QED BY <2>1, <3>1
  <2>3. CASE k = Len(j) + 1
    <3>1. q[k].index = n
      BY <1>2, <2>3
    <3> QED BY <1>1, <3>1
  <2> QED BY <1>2, <2>2, <2>3
<1>7. ReportsFit(u, s, q)
  <2>1. \A k \in DOMAIN u : u[k] # n
    <3>1. PICK l \in DOMAIN t : n \in t[l].node
      BY <1>1
    <3> QED BY <3>1 DEF Ordering, ReportsFit
  <2>2. \A k \in DOMAIN u, i \in DOMAIN q : u[k] # q[i].index
    <3> SUFFICES ASSUME NEW k \in DOMAIN u, NEW i \in DOMAIN q PROVE u[k] # q[i].index
      OBVIOUS
    <3>1. CASE i \in DOMAIN j
      <4>1. q[i] = j[i]
        BY <1>2, <3>1
      <4>2. u[k] # j[i].index
        BY <3>1 DEF Ordering, ReportsFit
      <4> QED BY <4>1, <4>2
    <3>2. CASE i = Len(j) + 1
      BY <1>2, <2>1, <3>2
    <3> QED BY <1>2, <3>1, <3>2
  <2>3. \A k \in DOMAIN u, i \in DOMAIN s : u[k] \notin s[i].node
    BY <1>1 DEF Ordering, ReportsFit
  <2> QED BY <2>2, <2>3 DEF Ordering, ReportsFit
<1>8. NothingForgotten(s, q, u)
  <2> SUFFICES ASSUME NEW m \in nag.node, IsChange(m)
               PROVE  \/ \E i \in DOMAIN s : m \in s[i].node
                      \/ \E i \in DOMAIN q : q[i].index = m
                      \/ IsReported(m, u)
                      \/ m.role = "fetched" /\ IsReported(Done(m.resolvent), u)
    BY DEF NothingForgotten
  <2>1. CASE \E i \in DOMAIN t : m \in t[i].node
    BY <1>1, <1>2, <2>1
  <2>2. CASE \E i \in DOMAIN j : j[i].index = m
    BY <1>2, <2>2
  <2> QED BY <2>1, <2>2 DEF Ordering, NothingForgotten
<1> QED BY <1>1, <1>5, <1>6, <1>7, <1>8 DEF Ordering, s, q

-----------------------------------------------------------------------------

(* What was said of the rest depends on the graph only.                    *)
LEMMA OrderingUnchanged ==
    ASSUME UNCHANGED <<resolved, nag>>, NEW t, NEW j, NEW u
    PROVE  /\ Ordering(t, j, u)' <=> Ordering(t, j, u)
           /\ FetchBlocks' <=> FetchBlocks
           /\ GraphInv /\ stage \in {"sorting", "ordering"} /\ stage' \in {"ordering", "internal error"} => GraphInv'
<1>1. FetchBlocks' <=> FetchBlocks
  BY DEF FetchBlocks, AllConnected
<1>2. \A x : ItemFits(x)' <=> ItemFits(x)
  BY DEF ItemFits, IsChange, decision, Mutual, AllConnected, FetchesHaveChanges, FetchBlocks, UnmetEdges
<1>3. TodoFits(t)' <=> TodoFits(t)
  BY DEF TodoFits, ItemFits, IsChange, decision, Mutual, AllConnected, FetchesHaveChanges, FetchBlocks,
         UnmetEdges, InOrderAll, MayPrecede, MustFollow, IsUnmetBuild
<1>4. JobsFit(j)' <=> JobsFit(j)
  BY DEF JobsFit, MayPrecede, MustFollow, IsUnmetBuild, AllConnected, SelfDependent
<1>5. JobsGoFirst(j, t)' <=> JobsGoFirst(j, t)
  BY DEF JobsGoFirst, MayPrecede, MustFollow, IsUnmetBuild, AllConnected
<1>6. ReportsFit(u, t, j)' <=> ReportsFit(u, t, j)
  BY DEF ReportsFit, UnmetEdges
<1>7. NothingForgotten(t, j, u)' <=> NothingForgotten(t, j, u)
  BY DEF NothingForgotten, IsChange, decision, IsReported
<1>8. Ordering(t, j, u)' <=> Ordering(t, j, u)
  BY <1>3, <1>4, <1>5, <1>6, <1>7 DEF Ordering
<1>9. GraphInv /\ stage \in {"sorting", "ordering"} /\ stage' \in {"ordering", "internal error"} => GraphInv'
  BY DEF GraphInv, Stages, DecidedNodes, decision, BuiltGraph, BlocksFetch, IsUnmetBuild
<1> QED BY <1>1, <1>8, <1>9

(* The components of the graph, in the order of the sort.                  *)
LEMMA SortedOrdering ==
    ASSUME nag.node = DecidedNodes, BuiltGraph, NEW sorted, InDependencyOrder(nag, sorted.result)
    PROVE  Ordering(Components(sorted), <<>>, <<>>)
<1> DEFINE s == sorted.result
           c == Components(sorted)
<1>1. /\ s \in Seq(SCCs(nag)) /\ DOMAIN s = 1..Len(s) /\ Len(s) \in Nat
      /\ \A i \in DOMAIN s : s[i] \in SCCs(nag)
      /\ \A x \in SCCs(nag) : \E i \in DOMAIN s : s[i] = x
  BY DEF InDependencyOrder, Enumerates
<1>2. SCCsPart(nag, SCCs(nag), AllConnected)
  BY ComponentsPart DEF BuiltGraph, AllConnected
<1>3. \A P \in SCCs(nag) : P # {} /\ P \subseteq nag.node /\ P \in SUBSET Indices
  BY <1>2 DEF SCCsPart, Apart
<1>4. c = [i \in 1..Len(s) |-> [is |-> "component", node |-> s[i]]]
  BY <1>1 DEF Components
<1> HIDE DEF s, c
<1>5. /\ DOMAIN c = 1..Len(s)
      /\ \A i \in 1..Len(s) : c[i].is = "component" /\ c[i].node = s[i] /\ c[i] \in Items
  BY <1>1, <1>3, <1>4 DEF Items
<1>6. c \in Seq(Items)
  <2>1. c \in [1..Len(s) -> Items]
    BY <1>4, <1>5
  <2> QED BY <1>1, <2>1, FunctionIsSequence
<1>7. \A i \in DOMAIN c : ItemFits(c[i])
  BY <1>1, <1>3, <1>5 DEF ItemFits
<1>8. InOrderAll(c)
  <2> SUFFICES ASSUME NEW i \in DOMAIN c, NEW j \in DOMAIN c, i < j PROVE MayPrecede(c[i].node, c[j].node)
    BY DEF InOrderAll
  <2>1. MayPrecede(s[i], s[j])
    BY <1>1, <1>5, ComponentsInOrder DEF s
  <2> QED BY <1>5, <2>1
<1>9. TodoFits(c)
  BY <1>6, <1>7, <1>8 DEF TodoFits
<1>10. \A n \in nag.node : \E i \in DOMAIN c : n \in c[i].node
  <2> SUFFICES ASSUME NEW n \in nag.node PROVE \E i \in DOMAIN c : n \in c[i].node
    OBVIOUS
  <2>1. PICK P \in SCCs(nag) : n \in P
    BY <1>2 DEF SCCsPart
  <2>2. PICK i \in DOMAIN s : s[i] = P
    BY <1>1
  <2> QED BY <1>1, <1>5, <2>1, <2>2
<1>11. NothingForgotten(c, <<>>, <<>>)
  BY <1>10 DEF NothingForgotten
<1>12. JobsFit(<<>>) /\ JobsGoFirst(<<>>, c) /\ ReportsFit(<<>>, c, <<>>)
  BY DEF JobsFit, JobsGoFirst, ReportsFit
<1> QED BY <1>9, <1>11, <1>12 DEF Ordering, c

(* A set of changes is broken up into parts of it.                         *)
LEMMA PartsReplace ==
    ASSUME nag.node = DecidedNodes, BuiltGraph,
           NEW S \in SUBSET nag.node, \A n \in S : IsChange(n), Mutual(S, AllConnected),
           NEW g, SubgraphOn(g, S), NEW sorted, InDependencyOrder(g, sorted.result),
           NEW again \in BOOLEAN,
           \A P \in SCCs(g) : /\ FetchesHaveChanges(P) \/ (~ again /\ FetchBlocks)
                              /\ again => Mutual(P, Connected(nag.node, UnmetEdges)),
           NEW x, S \subseteq x.node, \A n \in x.node : IsChange(n) => n \in S
    PROVE  Replaces(Parts(sorted, g.node, again), x)
<1> DEFINE s == sorted.result
           new == Parts(sorted, g.node, again)
<1>1. /\ s \in Seq(SCCs(g)) /\ DOMAIN s = 1..Len(s) /\ Len(s) \in Nat
      /\ \A i \in DOMAIN s : s[i] \in SCCs(g)
      /\ \A P \in SCCs(g) : \E i \in DOMAIN s : s[i] = P
  BY DEF InDependencyOrder, Enumerates
<1>2. SCCsPart(g, SCCs(g), Connected(g.node, DOMAIN g.edge)) /\ g.node = S
  BY SubgraphIsGraph, ComponentsPart DEF SubgraphOn
<1>3. ASSUME NEW P \in SCCs(g) PROVE P # {} /\ P \subseteq S /\ P \in SUBSET Indices /\ Mutual(P, AllConnected)
  <2>1. P # {} /\ P \subseteq S /\ Mutual(P, AllConnected)
    BY PartsFit
  <2>2. P \in SUBSET Indices
    BY <1>2 DEF SCCsPart, Apart
  <2> QED BY <2>1, <2>2
<1>4. new = [i \in 1..Len(s) |-> [is |-> "part", node |-> s[i], within |-> S, again |-> again]]
  BY <1>1, <1>2 DEF Parts
<1>s. S \in SUBSET Indices
  BY DEF BuiltGraph, IsGraph
<1> HIDE DEF s, new
<1>5. ASSUME NEW i \in 1..Len(s)
      PROVE  /\ new[i] \in Items
             /\ new[i].is = "part" /\ new[i].node = s[i] /\ new[i].within = S /\ new[i].again = again
  <2>1. new[i] = [is |-> "part", node |-> s[i], within |-> S, again |-> again]
    BY <1>4
  <2>2. s[i] \in SUBSET Indices
    BY <1>1, <1>3
  <2>3. new[i] \in [is : {"part"}, node : SUBSET Indices, within : SUBSET Indices, again : BOOLEAN]
    BY <1>s, <2>1, <2>2
  <2> QED BY <2>1, <2>3 DEF Items
<1>d. DOMAIN new = 1..Len(s)
  BY <1>4
<1>6. new \in Seq(Items)
  <2>1. new \in [1..Len(s) -> Items]
    BY <1>4, <1>5
  <2> QED BY <1>1, <2>1, FunctionIsSequence
<1>7. ASSUME NEW i \in DOMAIN new PROVE ItemFits(new[i]) /\ new[i].node \subseteq x.node
  <2>1. s[i] \in SCCs(g)
    BY <1>1, <1>d
  <2>2. /\ s[i] # {} /\ s[i] \subseteq S /\ Mutual(s[i], AllConnected)
        /\ FetchesHaveChanges(s[i]) \/ (~ again /\ FetchBlocks)
        /\ again => Mutual(s[i], Connected(nag.node, UnmetEdges))
    BY <1>3, <2>1
  <2>3. /\ new[i].is = "part" /\ new[i].node = s[i] /\ new[i].within = S /\ new[i].again = again
    BY <1>5, <1>d
  <2>4. s[i] \subseteq nag.node /\ s[i] \subseteq x.node /\ \A n \in s[i] : IsChange(n)
    BY <2>2
  <2> QED BY <2>2, <2>3, <2>4 DEF ItemFits
<1>8. InOrderAll(new)
  <2> SUFFICES ASSUME NEW i \in DOMAIN new, NEW j \in DOMAIN new, i < j PROVE MayPrecede(new[i].node, new[j].node)
    BY DEF InOrderAll
  <2>1. MayPrecede(s[i], s[j])
    BY <1>1, <1>d, PartsInOrder DEF s
  <2> QED BY <1>5, <1>d, <2>1
<1>9. ASSUME NEW n \in x.node, IsChange(n) PROVE \E i \in DOMAIN new : n \in new[i].node
  <2>1. PICK P \in SCCs(g) : n \in P
    BY <1>2, <1>9 DEF SCCsPart
  <2>2. PICK i \in DOMAIN s : s[i] = P
    BY <1>1
  <2> QED BY <1>1, <1>5, <1>d, <2>1, <2>2
<1> QED BY <1>6, <1>7, <1>8, <1>9 DEF Replaces, new

(* Single nodes in some order.                                             *)
LEMMA AloneReplace ==
    ASSUME NEW x, NEW N \in Nat, NEW f,
           \A i \in 1..N : f[i] \in x.node /\ f[i] \in Indices /\ f[i] \in nag.node /\ IsChange(f[i]),
           \A i, j \in 1..N : i < j => f[i] # f[j] /\ ~ MustFollow(f[i], f[j]),
           \A n \in x.node : IsChange(n) => \E i \in 1..N : f[i] = n
    PROVE  Replaces([i \in 1..N |-> Alone(f[i])], x)
<1> DEFINE h(i) == Alone(f[i])
           new == [i \in 1..N |-> h(i)]
<1>0. ASSUME NEW i \in 1..N PROVE h(i).is = "alone" /\ h(i).node = {f[i]} /\ h(i) \in Items
  BY DEF Alone, Items
<1> HIDE DEF h
<1>1. \A i \in 1..N : new[i].is = "alone" /\ new[i].node = {f[i]}
  BY <1>0
<1>2. DOMAIN new = 1..N
  OBVIOUS
<1>3. new \in [1..N -> Items]
  BY <1>0
<1> HIDE DEF new
<1>4. new \in Seq(Items)
  BY <1>3, FunctionIsSequence
<1>5. ASSUME NEW i \in DOMAIN new PROVE ItemFits(new[i]) /\ new[i].node \subseteq x.node
  <2>1. new[i].is = "alone" /\ new[i].node = {f[i]} /\ f[i] \in x.node /\ f[i] \in nag.node /\ IsChange(f[i])
    BY <1>1, <1>2
  <2> QED BY <2>1 DEF ItemFits
<1>6. InOrderAll(new)
  BY <1>1, <1>2 DEF InOrderAll, MayPrecede
<1>7. \A n \in x.node : IsChange(n) => \E i \in DOMAIN new : n \in new[i].node
  BY <1>1, <1>2
<1> QED BY <1>4, <1>5, <1>6, <1>7 DEF Replaces, new, h

-----------------------------------------------------------------------------

(* A component has no change, one, or several.                             *)
LEMMA NoneOneOrSeveral ==
    ASSUME NEW S \in SUBSET Indices
    PROVE  /\ Cardinality(S) \in Nat
           /\ Cardinality(S) <= 1 => \/ Cardinality(S) = 0 /\ S = {}
                                     \/ Cardinality(S) = 1 /\ S = {First(S)}
           /\ Cardinality(S) = 1 <=> \E n : S = {n}
<1>1. IsFiniteSet(S)
  BY IndicesAreFinite, FS_Subset
<1>2. /\ Cardinality(S) \in Nat
      /\ Cardinality(S) = 0 <=> S = {}
      /\ Cardinality(S) = 1 <=> \E n : S = {n}
  BY <1>1, FS_CardinalityType, FS_EmptySet, FS_Singleton
<1>3. ASSUME NEW n, S = {n} PROVE S = {First(S)}
  <2>1. First(S) \in S
    BY <1>3, FirstIsFirst
  <2> QED BY <1>3, <2>1
<1>4. Cardinality(S) <= 1 => Cardinality(S) = 0 \/ Cardinality(S) = 1
  BY <1>2
<1> QED BY <1>2, <1>3, <1>4

(* The changes of a component need each other.                             *)
LEMMA ChangesOfComponent ==
    ASSUME nag.node = DecidedNodes, BuiltGraph, NEW P \in SCCs(nag),
           NEW S, S = {n \in P : IsChange(n)}
    PROVE  Mutual(S, AllConnected) /\ (FetchesHaveChanges(S) \/ FetchBlocks)
<1>1. IsGraph(nag) /\ SCCsPart(nag, SCCs(nag), AllConnected)
  BY ComponentsPart DEF BuiltGraph, AllConnected
<1>2. Mutual(P, AllConnected) /\ P \subseteq nag.node
  BY <1>1 DEF SCCsPart, Mutual
<1>3. ASSUME NEW f \in S, f.role = "fetched", S # {f}, Done(f.resolvent) \notin S
      PROVE  FetchBlocks
  <2>1. PICK e \in DOMAIN nag.edge : e[2] = f /\ e[1] \in P
    <3>1. P # {f} /\ f \in P
      BY <1>3
    <3> QED BY <1>1, <3>1, EdgeWithin
  <2>2. f \in nag.node
    BY <1>2, <1>3
  <2>3. e[1] # Done(f.resolvent)
    BY <1>3, <2>1, <2>2, FetchedChange
  <2>4. e[1] # f
    BY <1>3, <2>1 DEF BuiltGraph
  <2>5. <<f, e[1]>> \in AllConnected
    BY <1>2, <1>3, <2>1, <2>4 DEF Mutual
  <2> QED BY <1>3, <2>1, <2>2, <2>3, <2>5, LoneFetchBlocks
<1> QED BY <1>2, <1>3 DEF Mutual, FetchesHaveChanges

(* What must be built first is in the graph of the part, either time.      *)
LEMMA PartGraphKeeps ==
    ASSUME BuiltGraph, NEW part, part.node \subseteq part.within, part.again \in BOOLEAN,
           NEW e \in DOMAIN nag.edge, e[1] \in part.node, e[2] \in part.node, IsUnmetBuild(e)
    PROVE  e \in DOMAIN PartGraph(part).edge /\ PartGraph(part).edge[e].build
<1>1. e[1] \in part.within /\ e[2] \in part.within /\ Unmet(nag.edge[e])
  BY UnmetBuildIsUnmet DEF Unmet
<1>2. nag.edge[e] \in Properties
  BY DEF BuiltGraph
<1>3. CASE ~ part.again
  <2>1. PartGraph(part) = Subgraph(nag, part.within, AnyEdge)
    BY <1>3 DEF PartGraph
  <2> QED BY <1>1, <2>1 DEF Subgraph, AnyEdge, IsUnmetBuild
<1>4. CASE part.again
  <2> DEFINE g == Subgraph(nag, part.within, Unmet)
  <2>1. g = [node |-> part.within, edge |-> g.edge] /\ e \in DOMAIN g.edge /\ g.edge[e] = nag.edge[e]
    BY <1>1 DEF Subgraph
  <2> DEFINE h == [f \in DOMAIN g.edge |-> WithoutMet(g.edge[f])]
  <2>2. PartGraph(part) = [g EXCEPT !.edge = h]
    BY <1>4 DEF PartGraph
  <2>3. WithoutMet(nag.edge[e]).build
    BY <1>2 DEF WithoutMet, Properties, IsUnmetBuild
  <2>4. e \in DOMAIN h /\ h[e].build
    BY <2>1, <2>3
  <2> HIDE DEF g, h
  <2> QED BY <2>1, <2>2, <2>4
<1> QED BY <1>3, <1>4

(* What the invariant says when a component or a part comes first.         *)
Ready ==
    /\ IInv
    /\ GraphInv
    /\ stage = "ordering"
    /\ Ordering(todo, jobs, unorderable)

(* What is known of the first item.                                        *)
LEMMA FirstItem ==
    ASSUME Ready, todo # <<>>
    PROVE  /\ nag.node = DecidedNodes /\ BuiltGraph /\ OnlyOwnFetches(nag)
           /\ ItemFits(Head(todo)) /\ Head(todo) \in Items /\ TodoFits(todo)
           /\ Head(todo).node \in SUBSET Indices /\ Head(todo).node \in SUBSET nag.node
           /\ nag.node \in SUBSET Indices
<1>1. nag.node = DecidedNodes /\ BuiltGraph /\ OnlyOwnFetches(nag) /\ nag.node \in SUBSET Indices
  BY DEF Ready, GraphInv, IInv, Graph, BuiltGraph, IsGraph
<1>2. ItemFits(Head(todo)) /\ Head(todo) \in Items /\ TodoFits(todo)
  BY TailFits DEF Ready, Ordering
<1>3. Head(todo).node \in SUBSET nag.node
  BY <1>2 DEF ItemFits
<1> QED BY <1>1, <1>2, <1>3

(* A component is replaced by its changes, alone or in parts.              *)
LEMMA StepOrderComponent ==
    ASSUME Ready, OrderComponent
    PROVE  \/ stage' = "ordering" /\ Ordering(todo', jobs', unorderable')
           \/ stage' = "internal error" /\ FetchBlocks
<1> DEFINE x == Head(todo)
           changes == {n \in x.node : IsChange(n)}
           g == Subgraph(nag, changes, AnyEdge)
           sorted == SortedSCCs(g, resolved.early)
           N == Cardinality(changes)
<1>1. /\ stage = "ordering" /\ todo # <<>> /\ x.is = "component"
      /\ UNCHANGED <<resolved, nag, jobs, unorderable>>
  BY DEF OrderComponent, Now
<1>2. /\ nag.node = DecidedNodes /\ BuiltGraph /\ x.node \in SCCs(nag)
      /\ x.node \in SUBSET nag.node /\ x.node \in SUBSET Indices
  BY <1>1, FirstItem DEF ItemFits
<1>3. changes \in SUBSET Indices /\ changes \in SUBSET nag.node /\ (\A n \in changes : IsChange(n))
  BY <1>2
<1>4. Mutual(changes, AllConnected) /\ (FetchesHaveChanges(changes) \/ FetchBlocks)
  <2> HIDE DEF changes
  <2>1. changes = {n \in x.node : IsChange(n)}
    BY DEF changes
  <2> QED BY <1>2, <2>1, ChangesOfComponent
<1>5. CASE N <= 1
  <2> DEFINE f == [i \in 1..N |-> First(changes)]
             new == [i \in 1..N |-> Alone(First(changes))]
  <2>1. todo' = new \o Tail(todo) /\ stage' = stage
    BY <1>5 DEF OrderComponent
  <2>2. (N = 0 /\ changes = {}) \/ (N = 1 /\ changes = {First(changes)})
    <3> HIDE DEF changes
    <3> QED BY <1>3, <1>5, NoneOneOrSeveral
  <2>3. Replaces(new, x)
    <3>1. \A n \in x.node : IsChange(n) => n \in changes
      OBVIOUS
    <3>2. changes \subseteq x.node
      OBVIOUS
    <3> HIDE DEF changes, x
    <3>3. \A i \in 1..N : f[i] = First(changes)
      OBVIOUS
    <3>4. N \in Nat /\ \A i, j \in 1..N : ~ (i < j)
      BY <2>2
    <3>5. \A i \in 1..N : f[i] \in changes
      BY <2>2, <3>3
    <3>6. \A n \in x.node : IsChange(n) => \E i \in 1..N : f[i] = n
      BY <2>2, <3>1, <3>3
    <3>7. \A i \in 1..N : f[i] \in x.node /\ f[i] \in Indices /\ f[i] \in nag.node /\ IsChange(f[i])
      BY <1>3, <3>2, <3>5
    <3>8. new = [i \in 1..N |-> Alone(f[i])]
      BY <3>3
    <3> HIDE DEF f, N
    <3>9. Replaces([i \in 1..N |-> Alone(f[i])], x)
      BY <3>4, <3>6, <3>7, AloneReplace
    <3> QED BY <3>8, <3>9
  <2> HIDE DEF new
  <2>4. Ordering(new \o Tail(todo), jobs, unorderable)
    BY <1>1, <2>3, ReplacedOrdering DEF Ready
  <2> QED BY <1>1, <2>1, <2>4
<1>6. CASE ~ (N <= 1)
  <2>1. IF sorted.fails
        THEN stage' = "internal error" /\ UNCHANGED todo
        ELSE UNCHANGED stage /\ todo' = Parts(sorted, g.node, FALSE) \o Tail(todo)
    BY <1>6 DEF OrderComponent, BreakUp
  <2>2. SubgraphOn(g, changes)
    <3> HIDE DEF changes
    <3> QED BY Subgraphs
  <2>3. \A n : changes # {n}
    <3> HIDE DEF changes
    <3>1. N # 1 /\ N \in Nat
      BY <1>3, <1>6, NoneOneOrSeveral
    <3> QED BY <1>3, <3>1, NoneOneOrSeveral
  <2>0. changes \subseteq x.node /\ \A n \in x.node : IsChange(n) => n \in changes
    OBVIOUS
  <2> HIDE DEF changes, g, x
  <2>4. CASE sorted.fails
    <3>1. ~ FetchesHaveChanges(changes)
      BY <1>2, <1>3, <2>2, <2>3, <2>4, SortFails
    <3> QED BY <1>4, <2>1, <2>4, <3>1
  <2>5. CASE ~ sorted.fails
    <3>1. InDependencyOrder(g, sorted.result)
      BY <1>2, <1>3, <2>2, <2>5, SubgraphIsGraph, SortedInOrder
    <3>2. \A P \in SCCs(g) : /\ FetchesHaveChanges(P) \/ (~ FALSE /\ FetchBlocks)
                             /\ FALSE => Mutual(P, Connected(nag.node, UnmetEdges))
      BY <1>2, <1>3, <1>4, <2>2, PartsFit
    <3> HIDE DEF sorted
    <3>3. Replaces(Parts(sorted, g.node, FALSE), x)
      BY <1>2, <1>3, <1>4, <2>2, <2>0, <3>1, <3>2, PartsReplace
    <3>4. Ordering(Parts(sorted, g.node, FALSE) \o Tail(todo), jobs, unorderable)
      BY <1>1, <3>3, ReplacedOrdering DEF Ready, x
    <3> QED BY <1>1, <2>1, <2>5, <3>4
  <2> QED BY <2>4, <2>5
<1> QED BY <1>5, <1>6

-----------------------------------------------------------------------------

(* A part that is ordered needs no order.                                  *)
LEMMA StepOrderPart ==
    ASSUME Ready, OrderPart
    PROVE  stage' = "ordering" /\ Ordering(todo', jobs', unorderable')
<1> DEFINE x == Head(todo)
           nodes == InOrder(x.node)
           N == Cardinality(x.node)
           new == [i \in 1..N |-> Alone(nodes[i])]
<1>1. /\ stage' = "ordering" /\ todo # <<>> /\ x.is = "part" /\ Orderable(x)
      /\ UNCHANGED <<jobs, unorderable>>
      /\ todo' = [i \in DOMAIN nodes |-> Alone(nodes[i])] \o Tail(todo)
  BY DEF OrderPart, Now
<1>2. /\ nag.node = DecidedNodes /\ BuiltGraph /\ ItemFits(x) /\ x \in Items
      /\ x.node \in SUBSET Indices /\ x.node \in SUBSET nag.node
  BY <1>1, FirstItem
<1>3. /\ x.again \in BOOLEAN /\ x.node \subseteq x.within
      /\ Mutual(x.node, AllConnected) /\ \A n \in x.node : IsChange(n)
  BY <1>1, <1>2 DEF ItemFits, Items
<1> HIDE DEF x
<1>4. /\ N \in Nat /\ nodes \in [1..N -> x.node]
      /\ \A n \in x.node : \E i \in 1..N : nodes[i] = n
      /\ \A i, j \in 1..N : i < j => Precedes(nodes[i], nodes[j])
  BY <1>2, InOrderEnumerates
<1> HIDE DEF nodes
<1>5. todo' = new \o Tail(todo)
  BY <1>1, <1>4
<1>6. ASSUME NEW i \in 1..N, NEW j \in 1..N, i < j
      PROVE  nodes[i] # nodes[j] /\ ~ MustFollow(nodes[i], nodes[j])
  <2> DEFINE a == nodes[i]
             b == nodes[j]
  <2>1. a \in x.node /\ b \in x.node /\ a \in Indices /\ Precedes(a, b)
    BY <1>2, <1>4, <1>6
  <2> HIDE DEF a, b
  <2>2. a # b
    BY <2>1, IndexOrder
  <2>3. <<b, a>> \in AllConnected
    BY <1>3, <2>1, <2>2 DEF Mutual
  <2>4. N # 1
    BY <1>6
  <2>5. NoBuildDependencies(x.node, PartGraph(x))
    BY <1>1, <2>4 DEF Orderable
  <2>6. ASSUME <<a, b>> \in DOMAIN nag.edge, IsUnmetBuild(<<a, b>>) PROVE FALSE
    <3> DEFINE e == <<a, b>>
    <3>1. e[1] = a /\ e[2] = b
      OBVIOUS
    <3> HIDE DEF e
    <3>2. e \in DOMAIN PartGraph(x).edge /\ PartGraph(x).edge[e].build
      BY <1>2, <1>3, <2>1, <2>6, <3>1, PartGraphKeeps DEF e
    <3>3. e \in EdgesFrom(PartGraph(x), a)
      BY <3>1, <3>2 DEF EdgesFrom
    <3> QED BY <2>1, <2>5, <3>2, <3>3 DEF NoBuildDependencies
  <2>7. ~ MustFollow(a, b)
    BY <2>3, <2>6 DEF MustFollow
  <2> QED BY <2>2, <2>7 DEF a, b
<1>7. \A i \in 1..N : nodes[i] \in x.node /\ nodes[i] \in Indices /\ nodes[i] \in nag.node /\ IsChange(nodes[i])
  BY <1>2, <1>3, <1>4
<1> HIDE DEF N
<1>n. /\ N \in Nat
      /\ \A i, j \in 1..N : i < j => nodes[i] # nodes[j] /\ ~ MustFollow(nodes[i], nodes[j])
      /\ \A n \in x.node : IsChange(n) => \E i \in 1..N : nodes[i] = n
  BY <1>4, <1>6
<1> HIDE DEF new
<1>r. Replaces([i \in 1..N |-> Alone(nodes[i])], x)
  BY <1>7, <1>n, AloneReplace
<1>8. Replaces(new, x)
  BY <1>r DEF new
<1>9. Ordering(new \o Tail(todo), jobs, unorderable)
  BY <1>1, <1>8, ReplacedOrdering DEF Ready, x
<1> QED BY <1>1, <1>5, <1>9

(* A part of several that is not ordered, with its first try or its second. *)
LEMMA NotOrderable ==
    ASSUME Ready, todo # <<>>, Head(todo).is = "part", ~ Orderable(Head(todo))
    PROVE  /\ Head(todo).node # {} /\ \A n : Head(todo).node # {n}
           /\ \A n \in Head(todo).node : \E m \in Head(todo).node : m # n
<1> DEFINE S == Head(todo).node
<1>1. S \in SUBSET Indices /\ S # {}
  BY FirstItem DEF ItemFits
<1>2. Cardinality(S) # 1
  BY DEF Orderable
<1> HIDE DEF S
<1>3. \A n : S # {n}
  BY <1>1, <1>2, NoneOneOrSeveral
<1>4. ASSUME NEW n \in S PROVE \E m \in S : m # n
  BY <1>3
<1> QED BY <1>1, <1>3, <1>4 DEF S

(* A part is replaced by its parts without what is met.                    *)
LEMMA StepTryAgain ==
    ASSUME Ready, TryAgain
    PROVE  \/ stage' = "ordering" /\ Ordering(todo', jobs', unorderable')
           \/ stage' = "internal error" /\ FetchBlocks
<1> DEFINE x == Head(todo)
           S == x.node
           g == Subgraph(nag, S, Unmet)
           sorted == SortedSCCs(g, resolved.early)
<1>1. /\ stage = "ordering" /\ todo # <<>> /\ x.is = "part" /\ ~ Orderable(x)
      /\ UNCHANGED <<jobs, unorderable>>
      /\ IF sorted.fails
         THEN stage' = "internal error" /\ UNCHANGED todo
         ELSE UNCHANGED stage /\ todo' = Parts(sorted, g.node, TRUE) \o Tail(todo)
  BY DEF TryAgain, Now, BreakUp
<1>2. /\ nag.node = DecidedNodes /\ BuiltGraph /\ OnlyOwnFetches(nag) /\ ItemFits(x)
      /\ S \in SUBSET Indices /\ S \in SUBSET nag.node
  BY <1>1, FirstItem
<1>3. /\ Mutual(S, AllConnected) /\ (\A n \in S : IsChange(n))
      /\ FetchesHaveChanges(S) \/ FetchBlocks
  BY <1>1, <1>2 DEF ItemFits
<1>4. \A n : S # {n}
  BY <1>1, NotOrderable
<1>5. SubgraphOn(g, S) /\ DOMAIN g.edge \subseteq UnmetEdges
  <2> HIDE DEF S
  <2> QED BY Subgraphs
<1>6. S \subseteq x.node /\ \A n \in x.node : IsChange(n) => n \in S
  OBVIOUS
<1> HIDE DEF x, S, g
<1>7. CASE sorted.fails
  <2>1. ~ FetchesHaveChanges(S)
    BY <1>2, <1>4, <1>5, <1>7, SortFails
  <2> QED BY <1>1, <1>3, <1>7, <2>1
<1>8. CASE ~ sorted.fails
  <2>1. InDependencyOrder(g, sorted.result)
    BY <1>2, <1>5, <1>8, SubgraphIsGraph, SortedInOrder
  <2>2. \A P \in SCCs(g) : /\ FetchesHaveChanges(P) \/ (~ TRUE /\ FetchBlocks)
                           /\ TRUE => Mutual(P, Connected(nag.node, UnmetEdges))
    BY <1>2, <1>5, PartsFitAgain
  <2> HIDE DEF sorted
  <2>3. Replaces(Parts(sorted, g.node, TRUE), x)
    BY <1>2, <1>3, <1>5, <1>6, <2>1, <2>2, PartsReplace
  <2>4. Ordering(Parts(sorted, g.node, TRUE) \o Tail(todo), jobs, unorderable)
    BY <1>1, <2>3, ReplacedOrdering DEF Ready, x
  <2> QED BY <1>1, <1>8, <2>4
<1> QED BY <1>7, <1>8

(* Edges that are not met are between nodes.                               *)
LEMMA UnmetPaths ==
    ASSUME BuiltGraph
    PROVE  Paths(nag.node, UnmetEdges)
<1>1. UnmetEdges \in SUBSET (nag.node \X nag.node)
  BY DEF BuiltGraph, IsGraph, UnmetEdges
<1> QED BY <1>1, ConnectedPaths

(* What is given up needs itself.                                          *)
LEMMA StepGiveUp ==
    ASSUME Ready, GiveUp
    PROVE  stage' = "ordering" /\ Ordering(todo', jobs', unorderable')
<1> DEFINE x == Head(todo)
           S == x.node
           R == Reported(S)
           N == Cardinality(R)
           q == InOrder(R)
           C == Connected(nag.node, UnmetEdges)
<1>1. /\ stage' = "ordering" /\ todo # <<>> /\ x.is = "part" /\ ~ Orderable(x) /\ x.again
      /\ UNCHANGED jobs /\ unorderable' = unorderable \o q /\ todo' = Tail(todo)
  BY DEF GiveUp, Now, Ready
<1>2. /\ BuiltGraph /\ ItemFits(x) /\ S \in SUBSET Indices /\ S \in SUBSET nag.node
  BY <1>1, FirstItem
<1>3. Mutual(S, C) /\ FetchesHaveChanges(S)
  BY <1>1, <1>2 DEF ItemFits
<1>4. (\A n : S # {n}) /\ \A n \in S : \E m \in S : m # n
  BY <1>1, NotOrderable
<1>5. Paths(nag.node, UnmetEdges)
  BY <1>2, UnmetPaths
<1> HIDE DEF x, C
<1>6. R \in SUBSET S /\ R \in SUBSET Indices
  BY <1>2 DEF Reported
<1>7. ASSUME NEW n \in R PROVE n \in S /\ n.role = "done" /\ <<n, n>> \in C
  <2>1. n \in S /\ n \in Indices
    BY <1>2, <1>6
  <2>2. n.role = "done"
    <3>1. n.role \in {"fetched", "done"}
      BY <2>1 DEF Indices
    <3>2. n.role = "fetched" => Done(n.resolvent) \in S
      BY <1>3, <1>4, <2>1 DEF FetchesHaveChanges
    <3> QED BY <1>7, <3>1, <3>2 DEF Reported
  <2>3. PICK m \in S : m # n
    BY <1>4, <2>1
  <2>4. <<n, m>> \in C /\ <<m, n>> \in C
    BY <1>3, <2>1, <2>3 DEF Mutual
  <2>5. <<n, n>> \in C
    BY <1>2, <1>5, <2>1, <2>3, <2>4 DEF Paths, C
  <2> QED BY <2>1, <2>2, <2>5
<1>8. /\ N \in Nat /\ q \in [1..N -> R]
      /\ \A n \in R : \E i \in 1..N : q[i] = n
      /\ \A i, j \in 1..N : i < j => Precedes(q[i], q[j])
  BY <1>6, InOrderEnumerates
<1> HIDE DEF q, N
<1>9. q \in Seq(Indices) /\ DOMAIN q = 1..N
  <2>1. q \in [1..N -> Indices]
    BY <1>6, <1>8
  <2> QED BY <1>8, <2>1, FunctionIsSequence
<1>10. \A k, l \in DOMAIN q : q[k] = q[l] => k = l
  <2>1. \A k, l \in 1..N : k < l => q[k] # q[l]
    BY <1>6, <1>8, IndexOrder
  <2> QED BY <1>8, <1>9, <2>1
<1>11. \A k \in DOMAIN q : q[k] \in S /\ q[k].role = "done" /\ <<q[k], q[k]>> \in C
  BY <1>7, <1>8, <1>9
<1>12. \A n \in R : IsReported(n, q)
  BY <1>8, <1>9 DEF IsReported
<1>13. ASSUME NEW n \in S PROVE IsReported(n, q) \/ (n.role = "fetched" /\ IsReported(Done(n.resolvent), q))
  <2>1. CASE n \in R
    BY <1>12, <2>1
  <2>2. CASE n \notin R
    <3>1. n.role = "fetched" /\ Done(n.resolvent) \in S
      BY <2>2 DEF Reported
    <3>2. Done(n.resolvent) \in R
      BY <3>1 DEF Reported, Done
    <3> QED BY <1>12, <3>1, <3>2
  <2> QED BY <2>1, <2>2
<1> HIDE DEF R
<1>14. Ordering(Tail(todo), jobs, unorderable \o q)
  <2>1. Ordering(todo, jobs, unorderable) /\ todo # <<>>
    BY <1>1 DEF Ready
  <2>2. \A k \in DOMAIN q : /\ q[k] \in Head(todo).node /\ q[k].role = "done"
                            /\ <<q[k], q[k]>> \in Connected(nag.node, UnmetEdges)
    BY <1>11 DEF x, C
  <2>3. \A n \in Head(todo).node : \/ IsReported(n, q)
                                   \/ n.role = "fetched" /\ IsReported(Done(n.resolvent), q)
    BY <1>13 DEF x
  <2> QED BY <1>9, <1>10, <2>1, <2>2, <2>3, ReportedOrdering
<1> QED BY <1>1, <1>14

-----------------------------------------------------------------------------

(* The node that is next is the only one of the first item.                *)
LEMMA NextAlone ==
    ASSUME Ready, Now("alone"), NEW n \in nag.node, n \in Head(todo).node
    PROVE  /\ stage = "ordering" /\ todo # <<>> /\ Head(todo).node = {n}
           /\ IsChange(n) /\ n \in Indices
<1>1. todo # <<>> /\ stage = "ordering" /\ Head(todo).is = "alone"
  BY DEF Now
<1>2. ItemFits(Head(todo)) /\ Head(todo).node \in SUBSET Indices
  BY <1>1, FirstItem
<1>3. PICK m \in Head(todo).node : IsChange(m) /\ Head(todo).node = {m}
  BY <1>1, <1>2 DEF ItemFits
<1> QED BY <1>1, <1>2, <1>3

(* What needs itself to be built is reported.                              *)
LEMMA StepSelfDependency ==
    ASSUME Ready, NEW n \in nag.node, SelfDependency(n)
    PROVE  stage' = "ordering" /\ Ordering(todo', jobs', unorderable')
<1>1. /\ stage' = "ordering" /\ todo # <<>> /\ Head(todo).node = {n} /\ n \in Indices
      /\ UNCHANGED jobs /\ unorderable' = Append(unorderable, n) /\ todo' = Tail(todo)
      /\ <<n, n>> \in UnmetEdges
  <2>1. stage = "ordering" /\ todo # <<>> /\ Head(todo).node = {n} /\ n \in Indices
    BY NextAlone DEF SelfDependency
  <2> QED BY <2>1 DEF SelfDependency, SelfDependent, UnmetEdges
<1>2. BuiltGraph /\ OnlyOwnFetches(nag)
  BY <1>1, FirstItem
<1>3. n.role = "done"
  <2> DEFINE e == <<n, n>>
  <2>1. e[1] = n /\ e[2] = n /\ e \in DOMAIN nag.edge /\ ~ AllMet(nag.edge[e])
    BY <1>1 DEF UnmetEdges
  <2> HIDE DEF e
  <2>2. n.role = "fetched" => n = Done(n.resolvent)
    BY <1>2, <2>1 DEF OnlyOwnFetches
  <2> QED BY <1>1, <2>2 DEF Indices, Done
<1>4. <<n, n>> \in Connected(nag.node, UnmetEdges)
  BY <1>1, <1>2, UnmetPaths DEF Paths
<1>5. Ordering(todo, jobs, unorderable) /\ unorderable \in Seq(Indices)
  BY DEF Ready, Ordering, ReportsFit
<1> DEFINE q == <<n>>
<1>6. q \in Seq(Indices) /\ DOMAIN q = {1} /\ q[1] = n
  BY <1>1
<1>7. unorderable' = unorderable \o q
  BY <1>1, <1>5
<1> HIDE DEF q
<1>8. /\ \A k, l \in DOMAIN q : q[k] = q[l] => k = l
      /\ \A k \in DOMAIN q : /\ q[k] \in Head(todo).node /\ q[k].role = "done"
                             /\ <<q[k], q[k]>> \in Connected(nag.node, UnmetEdges)
      /\ \A m \in Head(todo).node : \/ IsReported(m, q)
                                    \/ m.role = "fetched" /\ IsReported(Done(m.resolvent), q)
  BY <1>1, <1>3, <1>4, <1>6 DEF IsReported
<1>9. Ordering(Tail(todo), jobs, unorderable \o q)
  BY <1>1, <1>5, <1>6, <1>8, ReportedOrdering
<1> QED BY <1>1, <1>7, <1>9

(* The node becomes a job.                                                 *)
LEMMA JobScheduled ==
    ASSUME Ready, NEW n \in nag.node, Now("alone"), n \in Head(todo).node, ~ SelfDependent(n),
           NEW kind, NEW requirements, AppendJob(n, kind, requirements),
           todo' = Tail(todo), UNCHANGED <<stage, unorderable>>
    PROVE  stage' = "ordering" /\ Ordering(todo', jobs', unorderable')
<1> DEFINE job == [index |-> n, kind |-> kind, requirements |-> requirements]
           T == JobRecords \cup {job}
<1>1. stage = "ordering" /\ todo # <<>> /\ Head(todo).node = {n}
  BY NextAlone
<1>2. jobs' = Append(jobs, job) /\ job.index = n /\ job \in T
  BY DEF AppendJob
<1>3. jobs \in Seq(T)
  <2>1. jobs \in Seq(JobRecords)
    BY DEF Ready, IInv, JobsAreOfNodes
  <2>2. jobs \in [1..Len(jobs) -> T] /\ Len(jobs) \in Nat
    <3> HIDE DEF job
    <3> QED BY <2>1
  <2> HIDE DEF T
  <2> QED BY <2>2, FunctionIsSequence
<1>4. Ordering(todo, jobs, unorderable)
  BY DEF Ready
<1> HIDE DEF job, T
<1>5. Ordering(Tail(todo), Append(jobs, job), unorderable)
  BY <1>1, <1>2, <1>3, <1>4, ScheduledOrdering
<1> QED BY <1>1, <1>2, <1>5

(* The fetch of a change is scheduled before it.                           *)
LEMMA FetchIsScheduled ==
    ASSUME Ready, NEW n \in nag.node, Now("alone"), n \in Head(todo).node,
           n.role = "done", decision[n.resolvent] = "change"
    PROVE  FetchJobNumbers(n.resolvent) # {}
<1> DEFINE r == n.resolvent
           f == Fetched(r)
           e == <<n, f>>
<1>1. stage = "ordering" /\ todo # <<>> /\ Head(todo).node = {n} /\ n \in Indices
  BY NextAlone
<1>2. nag.node = DecidedNodes /\ BuiltGraph /\ TodoFits(todo)
  BY <1>1, FirstItem
<1>3. r \in Resolvents /\ n = Done(r) /\ f.role = "fetched" /\ f # n
  BY <1>1 DEF Indices, Done, Fetched
<1>4. f \in nag.node /\ IsChange(f)
  <2>1. f \in nag.node
    BY <1>2, <1>3, WhatIsANode
  <2> QED BY <2>1 DEF IsChange, Fetched
<1>5. MustFollow(n, f)
  BY <1>2, <1>3, <1>4 DEF BuiltGraph, MustFollow
<1> HIDE DEF f, r
<1>6. Head(todo) = todo[1] /\ 1 \in DOMAIN todo
  BY <1>1, <1>2, TailFacts DEF TodoFits
<1>7. ASSUME NEW i \in DOMAIN todo, f \in todo[i].node PROVE FALSE
  <2>1. i # 1
    BY <1>1, <1>3, <1>6, <1>7
  <2>2. 1 < i
    BY <1>2, <2>1 DEF TodoFits
  <2>3. MayPrecede(todo[1].node, todo[i].node)
    BY <1>2, <1>6, <2>2 DEF TodoFits, InOrderAll
  <2>4. n \in todo[1].node
    BY <1>1, <1>6
  <2> QED BY <1>5, <1>7, <2>3, <2>4 DEF MayPrecede
<1>8. Ordering(todo, jobs, unorderable)
  BY DEF Ready
<1>9. ~ IsReported(f, unorderable) /\ ~ IsReported(n, unorderable)
  BY <1>1, <1>3, <1>6, <1>8 DEF Ordering, ReportsFit, IsReported
<1>10. f.resolvent = r
  BY DEF f, Fetched
<1>11. \E i \in DOMAIN jobs : jobs[i].index = f
  BY <1>3, <1>4, <1>7, <1>8, <1>9, <1>10 DEF Ordering, NothingForgotten
<1> QED BY <1>11 DEF FetchJobNumbers, JobNumbers, f, r

(* What is next becomes a job.                                             *)
LEMMA StepSchedule ==
    ASSUME Ready, NEW n \in nag.node, ScheduleFetch(n) \/ ScheduleInstall(n) \/ ScheduleUninstall(n)
    PROVE  stage' = "ordering" /\ Ordering(todo', jobs', unorderable')
<1>1. Now("alone") /\ n \in Head(todo).node /\ ~ SelfDependent(n)
  BY DEF ScheduleFetch, ScheduleInstall, ScheduleUninstall, IsNext
<1>2. CASE ScheduleFetch(n)
  BY <1>1, <1>2, JobScheduled DEF ScheduleFetch
<1>3. CASE ScheduleUninstall(n)
  BY <1>1, <1>3, JobScheduled DEF ScheduleUninstall
<1>4. CASE ScheduleInstall(n)
  <2>1. n.role = "done" /\ decision[n.resolvent] = "change"
    BY <1>4 DEF ScheduleInstall, IsNext
  <2>2. FetchJobNumbers(n.resolvent) # {}
    BY <1>1, <2>1, FetchIsScheduled
  <2> QED BY <1>1, <1>4, <2>2, JobScheduled DEF ScheduleInstall
<1> QED BY <1>2, <1>3, <1>4

-----------------------------------------------------------------------------

(* The sort of the whole graph succeeds.                                   *)
LEMMA StepSort ==
    ASSUME OrderInv, SortNAG
    PROVE  stage' = "ordering" /\ Ordering(todo', jobs', unorderable')
<1> DEFINE sorted == SortedSCCs(nag, resolved.early)
<1>1. nag.node = DecidedNodes /\ BuiltGraph /\ jobs = <<>> /\ unorderable = <<>>
  BY DEF SortNAG, OrderInv, GraphInv, IInv, NoJobsYet
<1>2. ~ sorted.fails /\ InDependencyOrder(nag, sorted.result)
  BY <1>1, NAGSorts
<1>3. stage' = "ordering" /\ todo' = Components(sorted) /\ UNCHANGED <<jobs, unorderable>>
  BY <1>2 DEF SortNAG
<1> HIDE DEF sorted
<1>4. Ordering(Components(sorted), <<>>, <<>>)
  BY <1>1, <1>2, SortedOrdering
<1> QED BY <1>1, <1>3, <1>4

(* A step that leaves the graph alone, and what it has to keep.            *)
LEMMA StepOrdering ==
    ASSUME OrderInv, IInv', UNCHANGED <<resolved, nag>>, stage \in {"sorting", "ordering"},
           \/ stage' = "ordering" /\ Ordering(todo', jobs', unorderable')
           \/ stage' = "internal error" /\ FetchBlocks
    PROVE  OrderInv'
<1>1. GraphInv'
  BY OrderingUnchanged DEF OrderInv
<1>2. stage' = "ordering" => Ordering(todo, jobs, unorderable)'
  <2>1. ASSUME NEW t, NEW j, NEW u, Ordering(t, j, u)
        PROVE  /\ TodoFits(t)' /\ JobsFit(j)' /\ JobsGoFirst(j, t)'
               /\ ReportsFit(u, t, j)' /\ NothingForgotten(t, j, u)'
    BY <2>1, OrderingUnchanged DEF Ordering
  <2> QED BY <2>1 DEF Ordering
<1>3. FetchBlocks => FetchBlocks'
  BY DEF FetchBlocks, AllConnected
<1>4. stage' # "ordering" => stage' = "internal error" /\ FetchBlocks
  OBVIOUS
<1> QED BY <1>1, <1>2, <1>3, <1>4 DEF OrderInv, NoInternalError

(* The invariant holds at first.                                           *)
LEMMA InitOrderInv == Init => OrderInv
<1> SUFFICES ASSUME Init PROVE OrderInv
  OBVIOUS
<1>1. IInv /\ GraphInv
  BY InitInvariant, InitGraph
<1>2. stage = "nodes" /\ unorderable = <<>>
  BY DEF Init
<1> QED BY <1>1, <1>2 DEF OrderInv, NoInternalError

(* Every step keeps the invariant.                                         *)
LEMMA StepOrderInv == OrderInv /\ [Next]_vars => OrderInv'
<1> SUFFICES ASSUME OrderInv, [Next]_vars PROVE OrderInv'
  OBVIOUS
<1>i. IInv /\ GraphInv /\ IInv'
  BY StepInvariant DEF OrderInv
<1>1. CASE NodifyDecisions
  <2>1. GraphInv'
    BY <1>1, <1>i, NodifyGraph
  <2>2. stage' = "edges" /\ unorderable' = <<>>
    BY <1>1 DEF NodifyDecisions, OrderInv
  <2> QED BY <1>i, <2>1, <2>2 DEF OrderInv, NoInternalError
<1>2. CASE BuildEdges
  <2>1. GraphInv' /\ stage' = "sorting"
    BY <1>2, <1>i, BuildGraph
  <2>2. unorderable' = <<>>
    BY <1>2 DEF BuildEdges, OrderInv
  <2> QED BY <1>i, <2>1, <2>2 DEF OrderInv, NoInternalError
<1>3. CASE SortNAG
  <2>1. stage' = "ordering" /\ Ordering(todo', jobs', unorderable')
    BY <1>3, StepSort
  <2>2. UNCHANGED <<resolved, nag>> /\ stage = "sorting"
    BY <1>3 DEF SortNAG
  <2> QED BY <1>i, <2>1, <2>2, StepOrdering
<1>r. stage = "ordering" => Ready
  BY <1>i DEF OrderInv, Ready
<1>4. CASE OrderComponent \/ OrderPart \/ TryAgain \/ GiveUp
  <2>1. UNCHANGED <<resolved, nag>> /\ stage = "ordering"
    BY <1>4 DEF OrderComponent, OrderPart, TryAgain, GiveUp, Now
  <2>2. \/ stage' = "ordering" /\ Ordering(todo', jobs', unorderable')
        \/ stage' = "internal error" /\ FetchBlocks
    BY <1>4, <1>r, <2>1, StepOrderComponent, StepOrderPart, StepTryAgain, StepGiveUp
  <2> QED BY <1>i, <2>1, <2>2, StepOrdering
<1>5. ASSUME NEW n \in nag.node,
             SelfDependency(n) \/ ScheduleFetch(n) \/ ScheduleInstall(n) \/ ScheduleUninstall(n)
      PROVE  OrderInv'
  <2>1. UNCHANGED <<resolved, nag>> /\ stage = "ordering"
    BY <1>5 DEF SelfDependency, ScheduleFetch, ScheduleInstall, ScheduleUninstall, IsNext, Now
  <2>2. stage' = "ordering" /\ Ordering(todo', jobs', unorderable')
    BY <1>5, <1>r, <2>1, StepSelfDependency, StepSchedule
  <2> QED BY <1>i, <2>1, <2>2, StepOrdering
<1>6. CASE UNCHANGED vars
  <2>1. UNCHANGED <<resolved, stage, nag, todo, jobs, unorderable>>
    BY <1>6 DEF vars
  <2>2. CASE stage = "ordering"
    <3>1. Ordering(todo', jobs', unorderable')
      BY <1>r, <2>1, <2>2 DEF Ready
    <3> QED BY <1>i, <2>1, <2>2, <3>1, StepOrdering
  <2>3. CASE stage # "ordering"
    <3>1. FetchBlocks => FetchBlocks'
      BY <2>1 DEF FetchBlocks, AllConnected
    <3>2. GraphInv'
      BY <1>i, <2>1 DEF GraphInv, DecidedNodes, decision, BuiltGraph, BlocksFetch, IsUnmetBuild
    <3> QED BY <1>i, <2>1, <2>3, <3>1, <3>2 DEF OrderInv, NoInternalError
  <2> QED BY <2>2, <2>3
<1> QED BY <1>1, <1>2, <1>3, <1>4, <1>5, <1>6 DEF Next

-----------------------------------------------------------------------------

(* No two jobs are of the same node.                                       *)
LEMMA OneJobEach ==
    ASSUME JobsFit(jobs), NEW i \in DOMAIN jobs, NEW k \in DOMAIN jobs, jobs \in Seq(JobRecords),
           jobs[i].index = jobs[k].index
    PROVE  i = k
<1>1. i \in Nat /\ k \in Nat
  OBVIOUS
<1>2. ~ (i < k) /\ ~ (k < i)
  BY DEF JobsFit, MayPrecede
<1> QED BY <1>1, <1>2

(* At the end, the order of the jobs is that of what had to follow.        *)
LEMMA OrderingMeansFirst == OrderInv => DependenciesFirst
<1> SUFFICES ASSUME OrderInv, Finished PROVE DependenciesFirst
  BY DEF DependenciesFirst
<1>1. JobsFit(jobs) /\ jobs \in Seq(JobRecords) /\ BuiltGraph
  BY DEF OrderInv, Finished, Ordering, IInv, JobsAreOfNodes, GraphInv
<1>2. ASSUME NEW a, NEW b, a # b, MustFollow(a, b), NEW i \in JobNumbers(a), NEW j \in JobNumbers(b)
      PROVE  j < i
  <2>1. /\ i \in DOMAIN jobs /\ j \in DOMAIN jobs /\ i \in Nat /\ j \in Nat
        /\ jobs[i].index = a /\ jobs[j].index = b
    BY <1>1 DEF JobNumbers
  <2>2. i # j
    BY <1>2, <2>1
  <2>3. ~ (i < j)
    BY <1>1, <1>2, <2>1 DEF JobsFit, MayPrecede
  <2> QED BY <2>1, <2>2, <2>3
<1>3. ASSUME NEW a \in nag.node, NEW b \in nag.node, <<a, b>> \in AllConnected, <<b, a>> \notin AllConnected,
             NEW i \in JobNumbers(a), NEW j \in JobNumbers(b)
      PROVE  j < i
  <2>1. MustFollow(a, b) /\ a # b
    BY <1>3 DEF MustFollow
  <2> QED BY <1>2, <2>1
<1>4. ASSUME NEW e \in DOMAIN nag.edge, nag.edge[e].build, ~ nag.edge[e].build_all_met,
             NEW i \in JobNumbers(e[1]), NEW j \in JobNumbers(e[2])
      PROVE  j < i
  <2>1. e = <<e[1], e[2]>>
    BY <1>1 DEF BuiltGraph, IsGraph
  <2>2. CASE e[1] # e[2]
    <3>1. MustFollow(e[1], e[2])
      BY <1>4, <2>1 DEF MustFollow, IsUnmetBuild
    <3> QED BY <1>2, <2>2, <3>1
  <2>3. CASE e[1] = e[2]
    <3>1. SelfDependent(e[1])
      BY <1>4, <2>1, <2>3 DEF SelfDependent, AllMet
    <3>2. i \in DOMAIN jobs /\ jobs[i].index = e[1]
      BY DEF JobNumbers
    <3> QED BY <1>1, <3>1, <3>2 DEF JobsFit
  <2> QED BY <2>2, <2>3
<1> QED BY <1>3, <1>4 DEF DependenciesFirst

(* One number is that of a job, or there is none.                          *)
LEMMA OneNumber ==
    ASSUME JobsFit(jobs), jobs \in Seq(JobRecords), NEW n, NEW i \in DOMAIN jobs, jobs[i].index = n
    PROVE  Cardinality(JobNumbers(n)) = 1
<1>1. JobNumbers(n) = {i}
  BY OneJobEach DEF JobNumbers
<1> QED BY <1>1, FS_Singleton

(* At the end, what is not forgotten is a job or is reported.              *)
LEMMA OrderingAccounts == OrderInv => EveryChangeAccountedFor
<1> SUFFICES ASSUME OrderInv, Finished, NEW n \in nag.node, IsChange(n), n.role = "done"
             PROVE  \/ /\ Cardinality(JobNumbers(n)) = 1
                       /\ Reports(n.resolvent) = {}
                       /\ decision[n.resolvent] = "change" => Cardinality(FetchJobNumbers(n.resolvent)) = 1
                    \/ /\ JobNumbers(n) = {}
                       /\ Cardinality(Reports(n.resolvent)) = 1
                       /\ <<n, n>> \in Connected(nag.node, UnmetEdges)
  BY DEF EveryChangeAccountedFor
<1>1. /\ JobsFit(jobs) /\ jobs \in Seq(JobRecords) /\ BuiltGraph /\ nag.node = DecidedNodes
      /\ todo = <<>> /\ ReportsFit(unorderable, todo, jobs) /\ NothingForgotten(todo, jobs, unorderable)
  BY DEF OrderInv, Finished, Ordering, IInv, JobsAreOfNodes, GraphInv
<1> DEFINE r == n.resolvent
           f == Fetched(r)
<1>2. n \in Indices /\ r \in Resolvents /\ n = Done(r) /\ f # n /\ f.role = "fetched" /\ f.resolvent = r
  BY <1>1 DEF BuiltGraph, IsGraph, Indices, Done, Fetched
<1>3. \A k \in DOMAIN unorderable : unorderable[k].resolvent = r <=> unorderable[k] = n
  <2> SUFFICES ASSUME NEW k \in DOMAIN unorderable, unorderable[k].resolvent = r PROVE unorderable[k] = n
    BY <1>2
  <2>1. unorderable[k].role = "done"
    BY <1>1 DEF ReportsFit
  <2>2. unorderable \in Seq(Indices)
    BY <1>1 DEF ReportsFit
  <2>3. unorderable[k] \in Indices
    BY <2>2
  <2> QED BY <1>2, <2>1, <2>3 DEF Indices, Done
<1>4. IsChange(n) /\ DOMAIN todo = {}
  BY <1>1
<1>5. \/ \E i \in DOMAIN jobs : jobs[i].index = n
      \/ IsReported(n, unorderable)
  BY <1>1, <1>2, <1>4 DEF NothingForgotten
<1> HIDE DEF f, r
<1>6. ASSUME NEW k \in DOMAIN unorderable, unorderable[k] = n
      PROVE  /\ JobNumbers(n) = {}
             /\ Cardinality(Reports(r)) = 1
             /\ <<n, n>> \in Connected(nag.node, UnmetEdges)
  <2>1. Reports(r) = {k}
    BY <1>1, <1>3, <1>6 DEF Reports, ReportsFit
  <2>2. JobNumbers(n) = {}
    BY <1>1, <1>6 DEF JobNumbers, ReportsFit
  <2> QED BY <1>1, <1>6, <2>1, <2>2, FS_Singleton DEF ReportsFit
<1>7. ASSUME ~ IsReported(n, unorderable), decision[r] = "change"
      PROVE  Cardinality(FetchJobNumbers(r)) = 1
  <2>1. f \in nag.node /\ IsChange(f)
    <3>1. f \in nag.node
      BY <1>1, <1>2, <1>7, WhatIsANode DEF f
    <3> QED BY <1>2, <1>7, <3>1 DEF IsChange
  <2>2. ~ IsReported(f, unorderable)
    BY <1>1, <1>2 DEF IsReported, ReportsFit
  <2>3. ~ IsReported(Done(f.resolvent), unorderable)
    BY <1>2, <1>7
  <2>4. PICK i \in DOMAIN jobs : jobs[i].index = f
    BY <1>1, <1>4, <2>1, <2>2, <2>3 DEF NothingForgotten
  <2>5. Cardinality(JobNumbers(f)) = 1
    BY <1>1, <2>4, OneNumber
  <2> QED BY <2>5 DEF FetchJobNumbers, f
<1>8. CASE IsReported(n, unorderable)
  BY <1>6, <1>8 DEF IsReported, r
<1>9. CASE ~ IsReported(n, unorderable)
  <2>1. PICK i \in DOMAIN jobs : jobs[i].index = n
    BY <1>5, <1>9
  <2>2. Cardinality(JobNumbers(n)) = 1
    BY <1>1, <2>1, OneNumber
  <2>3. Reports(r) = {}
    BY <1>3, <1>9 DEF Reports, IsReported
  <2> QED BY <1>7, <1>9, <2>2, <2>3 DEF r
<1> QED BY <1>8, <1>9

-----------------------------------------------------------------------------

(***************************************************************************)
(* Whatever was decided, the job list is one that execute_executions() can *)
(* work with: jobs require earlier ones, requirements between a fetch and  *)
(* another kind of job say so, an install requires its own fetch, and what *)
(* a job needs of an earlier one it says (populate_requirements() and the  *)
(* scheduling of Orderer::resolve(), in resolver/orderer.cc).              *)
(***************************************************************************)
THEOREM JobListIsFitForExecution == Spec => []FitForExecution
<1>1. Init => IInv
  BY InitInvariant
<1>2. IInv /\ [Next]_vars => IInv'
  BY StepInvariant
<1>3. IInv => FitForExecution
  BY InvariantMeans
<1> QED BY <1>1, <1>2, <1>3, PTL DEF Spec

(***************************************************************************)
(* None of the internal errors of the orderer and of the sort can happen,  *)
(* whatever was decided: edges have their nodes (verify_edges()), the      *)
(* components of the whole graph can be sorted, an install finds its       *)
(* fetch, and a component can be broken up with no fetch left pending      *)
(* ("still have pending fetches", nag.cc:371), unless a version that is    *)
(* needed for a fetch is blocked for that fetch as well.                   *)
(***************************************************************************)
THEOREM ErrorsOnlyIfFetchBlocks == Spec => []NoInternalError
<1>1. OrderInv => NoInternalError
  BY DEF OrderInv
<1> QED BY InitOrderInv, StepOrderInv, <1>1, PTL DEF Spec

(***************************************************************************)
(* Whatever was decided, jobs are in the order of what they need: what a   *)
(* package needs and is not needed by, directly or not, comes before it,   *)
(* and what it has to be built or fetched with in any case                 *)
(* (sorted_strongly_connected_components() in nag.cc, and what             *)
(* Orderer::resolve() makes of components and cycles in                    *)
(* resolver/orderer.cc).                                                   *)
(***************************************************************************)
THEOREM DependenciesComeFirst == Spec => []DependenciesFirst
BY InitOrderInv, StepOrderInv, OrderingMeansFirst, PTL DEF Spec

(***************************************************************************)
(* Whatever was decided, every change ends as one job, after one fetch, or *)
(* is reported once as unorderable, and then it needs itself in a way that *)
(* is not met: breaking up a component loses and repeats nothing           *)
(* (Orderer::resolve()).                                                   *)
(***************************************************************************)
THEOREM ChangesAreAccountedFor == Spec => []EveryChangeAccountedFor
BY InitOrderInv, StepOrderInv, OrderingAccounts, PTL DEF Spec
==============================================================================
