------------------------------- MODULE Decider -------------------------------
(***************************************************************************)
(* src/paludis/resolver/decider.cc: from targets to a decision for every   *)
(* resolvent, of which a package has one here.  A decision is made for the *)
(* constraints that are known; one that does not meet a later constraint   *)
(* is replaced, or the resolution starts over with a preset (the loop of   *)
(* resolve_common.cc) which the helper for initial constraints keeps.      *)
(***************************************************************************)
EXTENDS Naturals, FiniteSets, FiniteSetsExt, SequencesExt, DecidedReasons

CONSTANTS
    Names,        \* packages
    Versions,     \* a set of numbers
    Families,     \* sets of systems: what is installed, can be installed, is asked for
    MaxRestarts   \* nine thousand

Nothing == 0

Kinds == {"needs", "builds", "suggests", "blocks", "blocks_uninstall", "blocks_manual", "blocks_upgrade"}

Blocks(dep) == dep.kind \notin {"needs", "builds", "suggests"}

(* A dependency of a version, or a target, accepts some versions of a      *)
(* package; a blocker accepts those that it does not block.                *)
Dependencies == [on : Names, accepts : SUBSET Versions, kind : Kinds]

(***************************************************************************)
(* The environment and the options of cave resolve, as sets of packages.   *)
(***************************************************************************)
IsSystem(s) ==
    /\ s.installed \in [Names -> Versions \cup {Nothing}]
    /\ s.installable \in [Names -> SUBSET Versions]
    /\ s.masked \in [Names -> SUBSET Versions]
    /\ s.depends \in [Names \X Versions -> SUBSET Dependencies]
    /\ s.targets \in Seq(Dependencies)
    /\ s.purge \in BOOLEAN                              \* cave purge, which has no targets
    /\ s.keepTargets \in {"never", "if_same"}           \* ue_if_same: targets of a set
    /\ s.world \subseteq Names
    /\ s.purgeable \subseteq Names                      \* --purge
    /\ s.removeIfDependent \subseteq Names              \* --uninstalls-may-break
    /\ s.lessRestrictive \subseteq Names                \* --less-restrictive-remove-blockers
    /\ s.allowedToRemove \subseteq Names                \* --permit-uninstall
    /\ s.noRestarts \subseteq Names                     \* --no-restarts-for

ASSUME FamiliesAssumption == \A family \in Families : \A s \in family : IsSystem(s)

(* Versions are totally ordered: of some of them, one is the highest.      *)
ASSUME VersionsAssumption ==
    /\ Versions \subseteq Nat \ {Nothing}
    /\ \A vs \in (SUBSET Versions) \ {{}} : \E v \in vs : \A w \in vs : v >= w

VARIABLES
    system,
    stage,         \* of Resolver::resolve(), and what it has come to
    resolutions,   \* the resolutions by resolvent, and the restart that is suggested
    at,            \* where in the list of resolutions the loop is
    changed,
    pending,       \* packages that the loop over dependents or purges has still to look at
    changing,      \* what goes away and what is newly available, when that loop began
    adding,        \* what is left of the dependencies of a decision, or of the reasons
                   \* of a dependent, that the loop over them has still to add
    initial,       \* GetInitialConstraintsForHelper: what it has for packages with a preset
    restarts

vars == <<system, stage, resolutions, at, changed, pending, changing, adding, initial,
          restarts>>

Undecided == [kind |-> "undecided"]

NoResolutions ==
    [list |-> <<>>, constraints |-> [n \in Names |-> {}], decision |-> [n \in Names |-> Undecided],
     fromNothing |-> {}, restart |-> {}]

NothingLeft == [of |-> "nothing", left |-> {}]

Left(kind, n, left) == IF left = {} THEN NothingLeft ELSE [of |-> kind, name |-> n, left |-> left]

Init ==
    /\ \E family \in Families : system \in family
    /\ stage = "targets"
    /\ resolutions = NoResolutions
    /\ at = 1
    /\ changed = FALSE
    /\ pending = {}
    /\ changing = [away |-> {}, new |-> {}]
    /\ adding = NothingLeft
    /\ initial = [n \in {} |-> {}]
    /\ restarts = 0

-----------------------------------------------------------------------------
(* Packages.                                                               *)

Installed == {[name |-> n, version |-> system.installed[n]] : n \in {n \in Names : system.installed[n] # Nothing}}

IsInstalled(n) == system.installed[n] # Nothing

DependsOn(id, other) ==
    \E d \in system.depends[<<id.name, id.version>>] :
        ~ Blocks(d) /\ d.on = other.name /\ other.version \in d.accepts

(* collect_depped_upon(): what of some packages another one depends on.    *)
DeppedUpon(id, candidates) == {c \in candidates : DependsOn(id, c)}

(* dependent_upon(): what goes away although a package depends on it, and  *)
(* nothing that is newly available will do instead.                        *)
DependentUpon(id, away, new) ==
    {a \in away : \E d \in system.depends[<<id.name, id.version>>] :
        /\ ~ Blocks(d) /\ d.on = a.name /\ a.version \in d.accepts
        /\ ~ \E i \in new : d.on = i.name /\ i.version \in d.accepts}

(* accumulate_deps(), without recursion.                                   *)
WithDeps(ids, candidates) == ids \cup UNION {DeppedUpon(i, candidates) : i \in ids}

-----------------------------------------------------------------------------
(* Constraints.                                                            *)

NothingIsFineToo(cs) == \A c \in cs : c.nothing_is_fine_too

AllUntaken(cs) == \A c \in cs : c.untaken

AnyForceUnable(cs) == \E c \in cs : c.force_unable

StrictestUseExisting(cs) ==
    CASE \E c \in cs : c.use_existing = "never" -> "never"
      [] \A c \in cs : c.use_existing = "if_possible" -> "if_possible"
      [] OTHER -> "if_same"

(* _block_dep_spec_has_nothing_installed()                                 *)
NothingInstalled(block) ==
    IsInstalled(block.on) => system.installed[block.on] \in block.accepts

(***************************************************************************)
(* A constraint from a blocker; whatever blocks a package in its slot      *)
(* accepts no version, and a less restrictive one only not what is there.  *)
(***************************************************************************)
FromBlocker(block, reason, from) ==
    [reason |-> reason, from |-> from, accepts |-> block.accepts, not_installed |-> FALSE,
     nothing_is_fine_too |-> block.kind = "blocks_upgrade" => NothingInstalled(block),
     force_unable |-> block.kind = "blocks_manual" /\ ~ NothingInstalled(block),
     untaken |-> FALSE, use_existing |-> "if_possible",
     uninstalls |-> reason = "dependency" /\ block.kind = "blocks_uninstall"]

FromSpec(spec, reason, from, useExisting, untaken) ==
    [reason |-> reason, from |-> from, accepts |-> spec.accepts, not_installed |-> FALSE,
     nothing_is_fine_too |-> FALSE, force_unable |-> FALSE,
     untaken |-> untaken, use_existing |-> useExisting, uninstalls |-> FALSE]

FromTarget(target) ==
    IF Blocks(target) THEN FromBlocker(target, "target", {})
    ELSE FromSpec(target, "target", {}, system.keepTargets, FALSE)

FromDependency(dep, n, interest) ==
    IF Blocks(dep) THEN FromBlocker(dep, "dependency", {n})
    ELSE FromSpec(dep, "dependency", {n}, "if_possible", interest = "untaken")

FromDependent(n, from) ==
    [FromBlocker([on |-> n, accepts |-> {}, kind |-> "blocks"], "dependent", from)
        EXCEPT !.not_installed = n \in system.lessRestrictive,
               !.accepts = IF n \in system.lessRestrictive THEN Versions ELSE {}]

FromPurge(n, from) ==
    [FromBlocker([on |-> n, accepts |-> {}, kind |-> "blocks"], "was_used_by", from)
        EXCEPT !.untaken = n \notin system.purgeable]

(* _make_constraint_for_preloading()                                       *)
PresetWithReason(c) == c

Preset(c) == [c EXCEPT !.reason = "preset", !.from = {}, !.uninstalls = FALSE]

-----------------------------------------------------------------------------
(* Decisions.                                                              *)

Change(v, cs) == [kind |-> "change", version |-> v, taken |-> ~ AllUntaken(cs)]

Existing(v, same, cs) == [kind |-> "nochange", version |-> v, same |-> same, taken |-> ~ AllUntaken(cs)]

Without(kind, cs) == [kind |-> kind, taken |-> ~ AllUntaken(cs)]

AllowedToRemove(n, cs) ==
    \/ \E c \in cs : c.reason \in {"target", "dependent", "was_used_by"}
    \/ n \in system.allowedToRemove
    \/ cs # {} /\ \A c \in cs : c.uninstalls   \* with a confirmation

ExistingFor(n, cs) ==
    {v \in {system.installed[n]} \ {Nothing} : \A c \in cs : v \in c.accepts /\ ~ c.not_installed}

InstallableFor(n, cs, tryMasked) ==
    {v \in system.installable[n] \ (IF tryMasked THEN {} ELSE system.masked[n]) : \A c \in cs : v \in c.accepts}

(***************************************************************************)
(* _try_to_find_decision_for(), as the set of the decision that it finds.  *)
(***************************************************************************)
Attempt(n, cs, tryMasked, tryRemoves) ==
    LET existing == ExistingFor(n, cs)
        installable == InstallableFor(n, cs, tryMasked)
        use == StrictestUseExisting(cs)
        best == Max(installable)
        Stay(same) == {Existing(v, same, cs) : v \in existing}
    IN  IF NothingIsFineToo(cs) /\ ~ IsInstalled(n) THEN {Without("nothing", cs)}
        ELSE CASE existing = {} /\ installable # {} -> {Change(best, cs)}
               [] existing # {} /\ installable = {} -> IF use = "if_possible" THEN Stay(TRUE) ELSE {}
               [] existing # {} /\ installable # {} ->
                     IF use = "if_possible" \/ (use = "if_same" /\ best \in existing)
                     THEN Stay(best \in existing) ELSE {Change(best, cs)}
               [] OTHER -> IF tryRemoves /\ NothingIsFineToo(cs) /\ AllowedToRemove(n, cs)
                           THEN {Without("remove", cs)} ELSE {}

TryToFindDecision(n, cs, alsoTryMasked, tryRemoves) ==
    LET unmasked == Attempt(n, cs, FALSE, tryRemoves)
        nothingFits == ExistingFor(n, cs) = {} /\ InstallableFor(n, cs, FALSE) = {}
    IN  IF AnyForceUnable(cs) THEN {}
        ELSE IF unmasked = {} /\ nothingFits /\ alsoTryMasked THEN Attempt(n, cs, TRUE, tryRemoves)
        ELSE unmasked

(* _decide(): a decision, or that there is none.                           *)
BestDecision(n, cs) ==
    LET found == TryToFindDecision(n, cs, TRUE, TRUE)
    IN  IF found = {} THEN Without("unable", cs) ELSE CHOOSE d \in found : TRUE

(* _check_constraint(): does a decision do for another constraint?         *)
CheckConstraint(c, d) ==
    /\ CASE d.kind = "change" -> ~ c.force_unable /\ d.version \in c.accepts
         [] d.kind = "nochange" -> /\ ~ c.force_unable /\ d.version \in c.accepts /\ ~ c.not_installed
                                   /\ c.use_existing = "never" => FALSE
                                   /\ c.use_existing = "if_same" => d.same
         [] d.kind = "nothing" -> c.nothing_is_fine_too
         [] d.kind = "remove" -> c.nothing_is_fine_too /\ ~ c.force_unable
         [] d.kind \in {"unable", "break"} -> TRUE
    /\ c.untaken \/ d.taken

-----------------------------------------------------------------------------
(* Resolutions.                                                            *)

Resolved(r) == Range(r.list)

(* _resolution_for_resolvent(): the constraints of a new one are those     *)
(* that the helper has, the same object.                                   *)
ResolutionFor(r, n) ==
    IF n \in Resolved(r) THEN r
    ELSE [r EXCEPT !.list = Append(@, n),
                   !.constraints[n] = IF n \in DOMAIN initial THEN initial[n] ELSE {}]

AllowedToRestart(n, d) == d.kind \in {"change", "nochange"} => n \notin system.noRestarts

ApplyConstraintUnverified(r, n, c) ==
    LET was == ResolutionFor(r, n)
    IN  [was EXCEPT !.constraints[n] = @ \cup {c}]

(***************************************************************************)
(* _apply_resolution_constraint() and _made_wrong_decision(): "going from  *)
(* nothing to something is fine", everything else is a restart.            *)
(***************************************************************************)
ApplyConstraint(r, n, c) ==
    LET was == ResolutionFor(r, n)
        d == was.decision[n]
        added == [was EXCEPT !.constraints[n] = @ \cup {c}]
        cs == added.constraints[n]
        found == IF AllowedToRestart(n, d) THEN TryToFindDecision(n, cs, TRUE, TRUE) ELSE {}
    IN  IF d = Undecided \/ (d # Undecided /\ CheckConstraint(c, d)) THEN added
        ELSE IF found = {} THEN [added EXCEPT !.decision[n] = Without("unable", cs)]
        ELSE IF d.kind = "nothing"
        THEN [added EXCEPT !.decision[n] = BestDecision(n, cs), !.fromNothing = @ \cup {n}]
        ELSE [added EXCEPT !.restart = {[on |-> n, preset |-> Preset(c)]}]

(* InterestInSpecHelper, with --suggestions display.                       *)
InterestInSpec(dep, d) ==
    LET there == IsInstalled(dep.on) /\ system.installed[dep.on] \in dep.accepts
    IN  IF d.kind = "unable" \/ (d.kind = "nochange" /\ dep.kind = "builds") THEN "ignore"
        ELSE IF dep.kind # "suggests" \/ there THEN "take"
        ELSE IF d.kind = "change" THEN "untaken" ELSE "ignore"

(* A blocker of a package that there is nowhere has no resolvents.         *)
HasResolvent(dep) == Blocks(dep) => IsInstalled(dep.on) \/ system.installable[dep.on] # {}

(* The dependencies that a decision has to take into account.              *)
DependenciesOf(n, d) ==
    IF d.kind \in {"change", "nochange"} /\ d.taken
    THEN {dep \in system.depends[<<n, d.version>>] : HasResolvent(dep)} ELSE {}

WithDependency(r, n, dep) ==
    LET interest == InterestInSpec(dep, r.decision[n])
    IN  IF interest = "ignore" THEN r ELSE ApplyConstraint(r, dep.on, FromDependency(dep, n, interest))

Decide(r, n) == [r EXCEPT !.decision[n] = BestDecision(n, r.constraints[n])]

(***************************************************************************)
(* A step leaves its resolutions behind, unless it has thrown              *)
(* SuggestRestart: then the helper is told, which keeps what has been      *)
(* added to the constraints that it has given out, and the targets are     *)
(* added to a new resolver; after too many restarts, it is given up.       *)
(***************************************************************************)
Kept(r, n) ==
    CASE n \notin DOMAIN initial -> {}
      [] n \in DOMAIN initial /\ n \in Resolved(r) -> r.constraints[n]
      [] OTHER -> initial[n]

RestartWithoutPreset(r) ==
    /\ r.restart # {}
    /\ initial' = [n \in DOMAIN initial |-> Kept(r, n)]
    /\ resolutions' = NoResolutions
    /\ restarts' = restarts + 1
    /\ stage' = IF restarts' > MaxRestarts THEN "given up" ELSE "targets"
    /\ at' = 1 /\ changed' = FALSE /\ pending' = {} /\ changing' = [away |-> {}, new |-> {}]
    /\ adding' = NothingLeft

Restart(r) ==
    /\ r.restart # {}
    /\ LET e == CHOOSE e \in r.restart : TRUE
       IN  initial' = [n \in DOMAIN initial \cup {e.on} |->
                          Kept(r, n) \cup (IF n = e.on THEN {e.preset} ELSE {})]
    /\ resolutions' = NoResolutions
    /\ restarts' = restarts + 1
    /\ stage' = IF restarts' > MaxRestarts THEN "given up" ELSE "targets"
    /\ at' = 1 /\ changed' = FALSE /\ pending' = {} /\ changing' = [away |-> {}, new |-> {}]
    /\ adding' = NothingLeft

-----------------------------------------------------------------------------
(* Targets, and purge() which has none.                                    *)

AddTarget ==
    /\ stage = "targets" /\ ~ system.purge /\ at <= Len(system.targets)
    /\ LET target == system.targets[at]
       IN  resolutions' = IF HasResolvent(target)
                          THEN ApplyConstraint(resolutions, target.on, FromTarget(target)) ELSE resolutions
    /\ at' = at + 1
    /\ UNCHANGED <<system, stage, changed, pending, changing, adding, initial, restarts>>

TargetsAdded ==
    /\ stage = "targets" /\ ~ system.purge /\ at > Len(system.targets)
    /\ stage' = "non_suggestions"
    /\ at' = 1
    /\ UNCHANGED <<system, resolutions, changed, pending, changing, adding, initial, restarts>>

(***************************************************************************)
(* accumulate_deps(), recursively: the least set that has these packages,  *)
(* and whatever of what is installed its members depend on.                *)
(***************************************************************************)
Closure(ids) ==
    {i \in Installed : \A closed \in SUBSET Installed :
        ids \subseteq closed /\ (\A j \in closed : DeppedUpon(j, Installed) \subseteq closed) => i \in closed}

(* collect_purges(): all that no package of world needs in any way.        *)
Purge ==
    /\ stage = "targets" /\ system.purge
    /\ LET unused == Installed \ Closure({i \in Installed : i.name \in system.world})
       IN  /\ pending' = unused
           /\ changing' = [away |-> unused, new |-> {}]
    /\ stage' = "purging all"
    /\ UNCHANGED <<system, resolutions, at, changed, adding, initial, restarts>>

-----------------------------------------------------------------------------
(* _resolve_decide_with_dependencies()                                     *)

NextPass == [non_suggestions |-> "nothings", nothings |-> "suggestions", suggestions |-> "dependents"]

(* What is to be decided in a pass over the list, which grows meanwhile.   *)
DecidedIn(n, pass) ==
    LET cs == resolutions.constraints[n]
    IN  /\ resolutions.decision[n] = Undecided
        /\ pass = "suggestions" \/ ~ AllUntaken(cs)
        /\ pass # "non_suggestions" \/ ~ NothingIsFineToo(cs)

ToDecide == {i \in at..Len(resolutions.list) : DecidedIn(resolutions.list[i], stage)}

Deciding == stage \in {"non_suggestions", "nothings", "suggestions"}

DecideNext ==
    /\ Deciding /\ adding = NothingLeft
    /\ \E i \in ToDecide :
          /\ \A j \in ToDecide : i <= j
          /\ LET n == resolutions.list[i]
             IN  /\ resolutions' = Decide(resolutions, n)
                 /\ adding' = Left("dependencies", n, DependenciesOf(n, resolutions'.decision[n]))
          /\ at' = i + 1
    /\ changed' = TRUE
    /\ UNCHANGED <<system, stage, pending, changing, initial, restarts>>

(* The loop of _add_dependencies_if_necessary()                            *)
AddDependency(dep) ==
    /\ adding.of = "dependencies" /\ dep \in adding.left
    /\ LET r == WithDependency(resolutions, adding.name, dep)
       IN  \/ Restart(r)
           \/ /\ r.restart = {}
              /\ resolutions' = r
              /\ adding' = Left("dependencies", adding.name, adding.left \ {dep})
              /\ UNCHANGED <<stage, at, changed, pending, changing, initial, restarts>>
    /\ UNCHANGED system

EndPass ==
    /\ Deciding /\ adding = NothingLeft /\ ToDecide = {}
    /\ at' = 1
    /\ changed' = FALSE
    /\ stage' = IF changed THEN stage ELSE NextPass[stage]
    /\ UNCHANGED <<system, resolutions, pending, changing, adding, initial, restarts>>

-----------------------------------------------------------------------------
(* _resolve_dependents()                                                   *)

TakenOf(kind) == {n \in Names : resolutions.decision[n].kind = kind /\ resolutions.decision[n].taken}

(* _collect_changing(): a change replaces what is installed.               *)
CollectChanging ==
    [away |-> {i \in Installed : i.name \in TakenOf("change") \cup TakenOf("remove")},
     new |-> {[name |-> n, version |-> resolutions.decision[n].version] : n \in TakenOf("change")}]

FindDependentsUndecided ==
    /\ stage = "dependents" /\ pending = {}
    /\ LET all == CollectChanging
       IN  /\ changing' = all
           /\ pending' = {i \in Installed \ all.away : i.name \notin Resolved(resolutions)
                                                     /\ DependentUpon(i, all.away, all.new) # {}}
    /\ stage' = IF pending' = {} THEN "purges" ELSE "dependents found"
    /\ changed' = FALSE
    /\ UNCHANGED <<system, resolutions, at, adding, initial, restarts>>

FindDependents ==
    /\ stage = "dependents" /\ pending = {}
    /\ LET all == CollectChanging
       IN  /\ changing' = all
           /\ pending' = {i \in Installed \ all.away : DependentUpon(i, all.away, all.new) # {}}
    /\ stage' = IF pending' = {} THEN "purges" ELSE "dependents found"
    /\ changed' = FALSE
    /\ UNCHANGED <<system, resolutions, at, adding, initial, restarts>>

(* A dependent is to be removed or changed, for every reason that it has.  *)
ResolveDependent(id) ==
    /\ stage = "dependents found" /\ adding = NothingLeft /\ id \in pending
    /\ pending' = pending \ {id}
    /\ changed' = (changed \/ (id.name \in system.removeIfDependent /\ id.name \notin Resolved(resolutions)))
    /\ adding' = Left("dependent", id.name, DependentUpon(id, changing.away, changing.new))
    /\ UNCHANGED <<system, stage, resolutions, at, changing, initial, restarts>>

(* In the end, if nothing else can be done, it is broken without further   *)
(* ado; otherwise it is to be decided upon.                                *)
AddDependent(away) ==
    /\ adding.of = "dependent" /\ away \in adding.left
    /\ LET n == adding.name
           r == ApplyConstraint(resolutions, n, FromDependent(n, {away.name}))
           open == adding.left = {away} /\ n \notin system.removeIfDependent /\ r.decision[n] = Undecided
           found == TryToFindDecision(n, r.constraints[n], FALSE, FALSE)
       IN  \/ Restart(r)
           \/ /\ r.restart = {}
              /\ resolutions' = IF open /\ found = {}
                                THEN [r EXCEPT !.decision[n] = [kind |-> "break", taken |-> TRUE]] ELSE r
              /\ changed' = (changed \/ (open /\ found # {}))
              /\ adding' = Left("dependent", n, adding.left \ {away})
              /\ UNCHANGED <<stage, at, pending, changing, initial, restarts>>
    /\ UNCHANGED system

DependentsResolvedOnce ==
    /\ stage = "dependents found" /\ adding = NothingLeft /\ pending = {}
    /\ stage' = "purges"
    /\ changed' = FALSE
    /\ UNCHANGED <<system, resolutions, at, pending, changing, adding, initial, restarts>>

DependentsResolved ==
    /\ stage = "dependents found" /\ adding = NothingLeft /\ pending = {}
    /\ stage' = IF changed THEN "non_suggestions" ELSE "purges"
    /\ changed' = FALSE
    /\ UNCHANGED <<system, resolutions, at, pending, changing, adding, initial, restarts>>

-----------------------------------------------------------------------------
(* _resolve_purges()                                                       *)

NewlyUnused(all) ==
    LET eventually == (Installed \ all.away) \cup all.new
    IN  (WithDeps(all.away, eventually) \ all.away) \ WithDeps(all.new, eventually)

(* What was used by what goes away, and is not used by anything any more.  *)
NewlyReallyUnused(all) ==
    LET staying == Installed \ all.away
        eventually == staying \cup all.new
        unused == (WithDeps(all.away, eventually) \ all.away) \ WithDeps(all.new, eventually)
    IN  unused \ UNION {DeppedUpon(i, unused) : i \in staying}

FindPurges ==
    /\ stage = "purges"
    /\ changing' = CollectChanging
    /\ pending' = {i \in NewlyReallyUnused(CollectChanging) : i.name \notin system.world}
    /\ stage' = "purges found"
    /\ changed' = FALSE
    /\ UNCHANGED <<system, resolutions, at, adding, initial, restarts>>

ResolvePurge(id) ==
    LET n == id.name
        users == {a \in changing.away : DependsOn(a, id)}
    IN  /\ stage \in {"purges found", "purging all"} /\ id \in pending
        /\ \E r \in {ResolutionFor(resolutions, n)} :
           \E decided \in {Decide(ApplyConstraint(r, n, FromPurge(n, {u.name : u \in users})), n)} :
              IF r.decision[n] = Undecided
              THEN /\ resolutions' = decided
                   /\ changed' = (changed \/ decided.decision[n].taken)
              ELSE /\ resolutions' = r
                   /\ UNCHANGED changed
        /\ pending' = pending \ {id}
        /\ UNCHANGED <<system, stage, at, changing, adding, initial, restarts>>

PurgesResolved ==
    /\ stage \in {"purges found", "purging all"} /\ pending = {}
    /\ stage' = IF changed \/ stage = "purging all" THEN "non_suggestions" ELSE "done"
    /\ changed' = FALSE
    /\ UNCHANGED <<system, resolutions, at, pending, changing, adding, initial, restarts>>

Next ==
    \/ AddTarget \/ TargetsAdded \/ Purge
    \/ DecideNext \/ (\E dep \in adding.left : AddDependency(dep)) \/ EndPass
    \/ FindDependents \/ (\E id \in Installed : ResolveDependent(id))
    \/ (\E id \in adding.left : AddDependent(id)) \/ DependentsResolved
    \/ FindPurges \/ (\E id \in Installed : ResolvePurge(id)) \/ PurgesResolved

Spec == Init /\ [][Next]_vars /\ WF_vars(Next)

-----------------------------------------------------------------------------

Done == stage = "done"

Decision(n) == resolutions.decision[n]

Constraints(n) == resolutions.constraints[n]

(***************************************************************************)
(* Whatever order constraints come in, before or after a decision, from    *)
(* targets, dependencies, dependents, purges or earlier attempts: what has *)
(* been decided meets all of them, and it is only said to be impossible    *)
(* when nothing that exists or can be installed would meet them.  (What is *)
(* masked, or being removed, may do for later constraints, and is not      *)
(* tried again.)                                                           *)
(***************************************************************************)
DecisionsMeetConstraints ==
    \A n \in {n \in Names : Decision(n) # Undecided} :
        /\ \A c \in Constraints(n) : CheckConstraint(c, Decision(n))
        /\ Decision(n).kind = "unable" /\ n \notin system.noRestarts =>
              TryToFindDecision(n, Constraints(n), FALSE, FALSE) = {}

(***************************************************************************)
(* In the end everything is decided, and whatever is installed or stays as *)
(* it is has had all its dependencies taken into account: not if it was to *)
(* be nothing at first and a later constraint has made something of it.    *)
(***************************************************************************)
DependenciesTakenIntoAccount ==
    Done => \A n \in Resolved(resolutions) :
        /\ Decision(n) # Undecided
        /\ n \notin resolutions.fromNothing =>
              \A dep \in DependenciesOf(n, Decision(n)) :
                  \/ InterestInSpec(dep, Decision(n)) = "ignore"
                  \/ \E c \in Constraints(dep.on) : c.from = {n} /\ c.accepts = dep.accepts

(***************************************************************************)
(* The orderer draws an edge from the package that a reason names, so that *)
(* package must be there, and something that has dependencies, dependents  *)
(* or that used something must have been decided for it.  It holds up to   *)
(* the first restart; later the helper gives out what it was given in an   *)
(* attempt that was abandoned.                                             *)
(***************************************************************************)
FitForOrdering ==
    Done /\ restarts <= 1 =>
        \A n \in Resolved(resolutions) : \A c \in Constraints(n) : \A f \in c.from :
            /\ f \in Resolved(resolutions)
            /\ Decision(f).kind \in DecisionsBehind(c.reason)

(***************************************************************************)
(* A package that stays although what it depends on goes away, and nothing *)
(* comes that will do instead, is never left without a word: it is said to *)
(* be broken, or that nothing can be done.                                 *)
(***************************************************************************)
DependentsAccountedFor ==
    Done => LET all == CollectChanging
            IN  \A i \in Installed \ all.away :
                    DependentUpon(i, all.away, all.new) # {} => Decision(i.name).kind \in {"break", "unable"}

(***************************************************************************)
(* Packages that go because nothing uses them any more are not used by     *)
(* anything that stays or comes, in whatever round they were found.        *)
(***************************************************************************)
NothingUsedIsPurged ==
    Done => LET all == CollectChanging
                purged == {i \in all.away : /\ Decision(i.name).kind = "remove"
                                            /\ \A c \in Constraints(i.name) : c.reason = "was_used_by"}
            IN  \A i \in (Installed \ all.away) \cup all.new :
                    DeppedUpon(i, purged) = {}

(***************************************************************************)
(* However often the resolution starts over, it comes to an end, long      *)
(* before it would be given up.                                            *)
(***************************************************************************)
ResolutionEnds == <>Done
==============================================================================
