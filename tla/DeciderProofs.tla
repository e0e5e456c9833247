---------------------------- MODULE DeciderProofs ----------------------------
(***************************************************************************)
(* The resolver's decider, for any packages, versions and dependencies,    *)
(* whatever is asked for, in whatever order constraints come and however   *)
(* often the resolution starts over: decisions meet their constraints,     *)
(* their dependencies are taken into account, no dependent is left behind  *)
(* without a word, what is purged is not used, and the reasons that are    *)
(* left to the orderer are what it assumes.                                *)
(*                                                                         *)
(* IInv says that all decisions that have been made hold (Good), and that  *)
(* a package that is not in the list yet has not been decided upon, for    *)
(* the constraints of one that comes into it replace what it had.  Rest1   *)
(* is about the loops: what they have still to do, and what is decided and *)
(* taken into account apart from that.  Rest2 is about the loops over      *)
(* dependents and over purges, the latter of which must not undo what the  *)
(* former has established.  Rounds says that once it has begun to purge,   *)
(* no more than purges is decided upon, and PurgesOnly that cave purge     *)
(* decides only upon what is unused.  ReasonsFit is about what reasons     *)
(* name, as long as the helper has nothing but presets to give.            *)
(***************************************************************************)
EXTENDS Decider, TLAPS

MeetsAll(d, cs) == \A c \in cs : CheckConstraint(c, d)

Hopeless(n, cs) == TryToFindDecision(n, cs, FALSE, FALSE) = {}

(* A decision for the package n under the constraints cs.                  *)
Holds(n, d, cs) ==
    d # Undecided => /\ MeetsAll(d, cs)
                     /\ d.kind = "unable" /\ n \notin system.noRestarts => Hopeless(n, cs)

Shaped(r) ==
    /\ r = [list |-> r.list, constraints |-> r.constraints, decision |-> r.decision,
            fromNothing |-> r.fromNothing, restart |-> r.restart]
    /\ r.list \in Seq(Names)
    /\ r.constraints = [n \in Names |-> r.constraints[n]]
    /\ r.decision = [n \in Names |-> r.decision[n]]

Good(r) ==
    /\ Shaped(r)
    /\ r.restart = {}
    /\ \A n \in Names : n \notin Resolved(r) => r.decision[n] = Undecided
    /\ \A n \in Names : Holds(n, r.decision[n], r.constraints[n])

Adds ==
    /\ adding.of = "dependencies" => adding.name \in Names /\ adding.left \subseteq Dependencies
    /\ adding.of = "dependent" => adding.name \in Names
    /\ stage = "targets" => adding.of = "nothing"

IInv ==
    /\ IsSystem(system)
    /\ at \in Nat \ {0}
    /\ Adds
    /\ Good(resolutions)
    /\ stage = "targets" => \A n \in Names : resolutions.decision[n] = Undecided

-----------------------------------------------------------------------------
(* Decisions and the constraints that they are made for.                   *)

(* What is chosen among what can be installed is one of it.                *)
LEMMA BestIsInstallable ==
    ASSUME IsSystem(system), NEW n \in Names, NEW cs, NEW tryMasked,
           InstallableFor(n, cs, tryMasked) # {}
    PROVE  /\ Max(InstallableFor(n, cs, tryMasked)) \in InstallableFor(n, cs, tryMasked)
           /\ InstallableFor(n, cs, tryMasked) \subseteq Versions
<1> DEFINE S == InstallableFor(n, cs, tryMasked)
<1>1. system.installable[n] \subseteq Versions
  BY DEF IsSystem
<1>2. S \subseteq system.installable[n]
  BY DEF InstallableFor
<1>3. S \in (SUBSET Versions) \ {{}}
  BY <1>1, <1>2
<1>4. \E v \in S : \A w \in S : v >= w
  BY <1>3, VersionsAssumption
<1> QED BY <1>3, <1>4 DEF Max

(* Every kind of decision meets the constraints that it is made for.       *)
LEMMA AttemptMeets ==
    ASSUME IsSystem(system), NEW n \in Names, NEW cs, NEW tryMasked, NEW tryRemoves,
           ~ AnyForceUnable(cs), NEW d \in Attempt(n, cs, tryMasked, tryRemoves)
    PROVE  /\ MeetsAll(d, cs)
           /\ d.kind \in {"nothing", "change", "nochange", "remove"}
           /\ d.kind \in {"change", "nochange"} => d.version \in Versions
<1> DEFINE existing == ExistingFor(n, cs)
           installable == InstallableFor(n, cs, tryMasked)
           use == StrictestUseExisting(cs)
           best == Max(installable)
<1>1. \A c \in cs : ~ c.force_unable
  BY DEF AnyForceUnable
<1>2. ASSUME d.taken = ~ AllUntaken(cs), NEW c \in cs
      PROVE  c.untaken \/ d.taken
  BY <1>2 DEF AllUntaken
<1>3. CASE d = Without("nothing", cs) /\ NothingIsFineToo(cs)
  BY <1>1, <1>2, <1>3 DEF Without, NothingIsFineToo, MeetsAll, CheckConstraint
<1>4. CASE d = Without("remove", cs) /\ NothingIsFineToo(cs)
  BY <1>1, <1>2, <1>4 DEF Without, NothingIsFineToo, MeetsAll, CheckConstraint
<1>5. CASE d = Change(best, cs) /\ installable # {}
  <2>1. best \in installable /\ best \in Versions
    BY <1>5, BestIsInstallable
  <2>2. \A c \in cs : best \in c.accepts
    BY <2>1 DEF InstallableFor
  <2>3. d.kind = "change" /\ d.version = best /\ d.taken = ~ AllUntaken(cs)
    BY <1>5 DEF Change
  <2> QED BY <1>1, <1>2, <2>1, <2>2, <2>3 DEF MeetsAll, CheckConstraint
<1>6. ASSUME NEW v \in existing, NEW same, d = Existing(v, same, cs),
             use = "if_possible" \/ (use = "if_same" /\ same)
      PROVE  /\ MeetsAll(d, cs)
             /\ d.kind = "nochange" /\ d.version \in Versions
  <2>1. \A c \in cs : v \in c.accepts /\ ~ c.not_installed
    BY DEF ExistingFor
  <2>2. v \in Versions
    BY DEF ExistingFor, IsSystem
  <2>3. \A c \in cs : c.use_existing # "never" /\ (c.use_existing = "if_same" => same)
    BY <1>6 DEF StrictestUseExisting
  <2>4. d.kind = "nochange" /\ d.version = v /\ d.same = same /\ d.taken = ~ AllUntaken(cs)
    BY <1>6 DEF Existing
  <2> QED BY <1>1, <1>2, <2>1, <2>2, <2>3, <2>4 DEF MeetsAll, CheckConstraint
<1>7. \/ d = Without("nothing", cs) /\ NothingIsFineToo(cs)
      \/ d = Without("remove", cs) /\ NothingIsFineToo(cs)
      \/ d = Change(best, cs) /\ installable # {}
      \/ \E v \in existing : \E same \in {TRUE, (best \in existing)} :
            /\ d = Existing(v, same, cs)
            /\ use = "if_possible" \/ (use = "if_same" /\ same)
  <2> HIDE DEF existing, installable, use, best
  <2>1. CASE NothingIsFineToo(cs) /\ ~ IsInstalled(n)
    BY <2>1 DEF Attempt
  <2>2. CASE ~ (NothingIsFineToo(cs) /\ ~ IsInstalled(n)) /\ existing = {} /\ installable # {}
    BY <2>2 DEF Attempt, existing, installable, best
  <2>3. CASE ~ (NothingIsFineToo(cs) /\ ~ IsInstalled(n)) /\ existing # {} /\ installable = {}
    <3>1. use = "if_possible" /\ \E v \in existing : d = Existing(v, TRUE, cs)
      BY <2>3 DEF Attempt, existing, installable, use
    <3> QED BY <3>1
  <2>4. CASE ~ (NothingIsFineToo(cs) /\ ~ IsInstalled(n)) /\ existing # {} /\ installable # {}
    <3>1. CASE use = "if_possible" \/ (use = "if_same" /\ best \in existing)
      <4>1. \E v \in existing : d = Existing(v, best \in existing, cs)
        BY <2>4, <3>1 DEF Attempt, existing, installable, use, best
      <4> QED BY <3>1, <4>1
    <3>2. CASE ~ (use = "if_possible" \/ (use = "if_same" /\ best \in existing))
      BY <2>4, <3>2 DEF Attempt, existing, installable, use, best
    <3> QED BY <3>1, <3>2
  <2>5. CASE ~ (NothingIsFineToo(cs) /\ ~ IsInstalled(n)) /\ existing = {} /\ installable = {}
    BY <2>5 DEF Attempt, existing, installable
  <2> QED BY <2>1, <2>2, <2>3, <2>4, <2>5
<1>8. CASE \E v \in existing : \E same \in {TRUE, (best \in existing)} :
              /\ d = Existing(v, same, cs)
              /\ use = "if_possible" \/ (use = "if_same" /\ same)
  BY <1>6, <1>8
<1>9. \A k : Without(k, cs).kind = k
  BY DEF Without
<1>10. Change(best, cs).kind = "change"
  BY DEF Change
<1> QED BY <1>3, <1>4, <1>5, <1>7, <1>8, <1>9, <1>10

LEMMA FoundMeets ==
    ASSUME IsSystem(system), NEW n \in Names, NEW cs, NEW alsoTryMasked, NEW tryRemoves,
           NEW d \in TryToFindDecision(n, cs, alsoTryMasked, tryRemoves)
    PROVE  /\ MeetsAll(d, cs)
           /\ d.kind \in {"nothing", "change", "nochange", "remove"}
           /\ d.kind \in {"change", "nochange"} => d.version \in Versions
<1>1. ~ AnyForceUnable(cs)
  BY DEF TryToFindDecision
<1>2. d \in Attempt(n, cs, FALSE, tryRemoves) \/ d \in Attempt(n, cs, TRUE, tryRemoves)
  BY <1>1 DEF TryToFindDecision
<1> QED BY <1>1, <1>2, AttemptMeets

(* When is there nothing that exists or can be installed?                  *)
LEMMA HopelessMeans ==
    ASSUME NEW n \in Names, NEW cs
    PROVE  Hopeless(n, cs) <=>
              \/ AnyForceUnable(cs)
              \/ /\ ~ (NothingIsFineToo(cs) /\ ~ IsInstalled(n))
                 /\ InstallableFor(n, cs, FALSE) = {}
                 /\ ExistingFor(n, cs) # {} => StrictestUseExisting(cs) # "if_possible"
<1> DEFINE existing == ExistingFor(n, cs)
           installable == InstallableFor(n, cs, FALSE)
           use == StrictestUseExisting(cs)
           fine == NothingIsFineToo(cs) /\ ~ IsInstalled(n)
<1>1. Hopeless(n, cs) <=> AnyForceUnable(cs) \/ Attempt(n, cs, FALSE, FALSE) = {}
  BY DEF Hopeless, TryToFindDecision
<1>2. CASE fine
  BY <1>1, <1>2 DEF Attempt
<1>3. CASE ~ fine /\ existing = {} /\ installable # {}
  BY <1>1, <1>3 DEF Attempt
<1>4. CASE ~ fine /\ existing # {} /\ installable = {}
  BY <1>1, <1>4 DEF Attempt
<1>5. CASE ~ fine /\ existing # {} /\ installable # {}
  BY <1>1, <1>5 DEF Attempt
<1>6. CASE ~ fine /\ existing = {} /\ installable = {}
  BY <1>1, <1>6 DEF Attempt
<1> QED BY <1>2, <1>3, <1>4, <1>5, <1>6

(* One constraint more does not make it better.                            *)
LEMMA StaysHopeless ==
    ASSUME NEW n \in Names, NEW cs, NEW c, Hopeless(n, cs)
    PROVE  Hopeless(n, cs \cup {c})
<1> DEFINE more == cs \cup {c}
<1>1. AnyForceUnable(cs) => AnyForceUnable(more)
  BY DEF AnyForceUnable
<1>2. NothingIsFineToo(more) => NothingIsFineToo(cs)
  BY DEF NothingIsFineToo
<1>3. /\ InstallableFor(n, more, FALSE) \subseteq InstallableFor(n, cs, FALSE)
      /\ ExistingFor(n, more) \subseteq ExistingFor(n, cs)
  BY DEF InstallableFor, ExistingFor
<1>4. StrictestUseExisting(more) = "if_possible" => StrictestUseExisting(cs) = "if_possible"
  BY DEF StrictestUseExisting
<1> HIDE DEF more
<1>5. Hopeless(n, more)
  BY <1>1, <1>2, <1>3, <1>4, HopelessMeans
<1> QED BY <1>5 DEF more

(* If nothing is found at all, there is none of these.                     *)
LEMMA NothingFoundIsHopeless ==
    ASSUME NEW n \in Names, NEW cs, TryToFindDecision(n, cs, TRUE, TRUE) = {}
    PROVE  Hopeless(n, cs)
<1>1. CASE AnyForceUnable(cs)
  BY <1>1, HopelessMeans
<1>2. CASE ~ AnyForceUnable(cs)
  <2> DEFINE existing == ExistingFor(n, cs)
             installable == InstallableFor(n, cs, FALSE)
             use == StrictestUseExisting(cs)
             fine == NothingIsFineToo(cs) /\ ~ IsInstalled(n)
  <2>1. Attempt(n, cs, FALSE, TRUE) = {}
    BY <1>2 DEF TryToFindDecision
  <2>2. ~ fine
    BY <2>1 DEF Attempt
  <2>3. CASE existing = {} /\ installable # {}
    BY <2>1, <2>2, <2>3 DEF Attempt
  <2>4. CASE existing # {} /\ installable = {}
    <3>1. use # "if_possible"
      BY <2>1, <2>2, <2>4 DEF Attempt
    <3> QED BY <2>2, <2>4, <3>1, HopelessMeans
  <2>5. CASE existing # {} /\ installable # {}
    BY <2>1, <2>2, <2>5 DEF Attempt
  <2>6. CASE existing = {} /\ installable = {}
    BY <2>2, <2>6, HopelessMeans
  <2> QED BY <2>3, <2>4, <2>5, <2>6
<1> QED BY <1>1, <1>2

(* That there is no decision meets all constraints.                        *)
LEMMA UnableMeets ==
    ASSUME NEW cs
    PROVE  MeetsAll(Without("unable", cs), cs) /\ Without("unable", cs).kind = "unable"
BY DEF MeetsAll, CheckConstraint, Without, AllUntaken

(* _decide() makes a decision that holds.                                  *)
LEMMA BestDecisionHolds ==
    ASSUME IsSystem(system), NEW n \in Names, NEW cs
    PROVE  /\ Holds(n, BestDecision(n, cs), cs)
           /\ DependenciesOf(n, BestDecision(n, cs)) \subseteq Dependencies
<1> DEFINE found == TryToFindDecision(n, cs, TRUE, TRUE)
           d == BestDecision(n, cs)
<1>1. CASE found = {}
  <2>1. d = Without("unable", cs)
    BY <1>1 DEF BestDecision
  <2>2. Hopeless(n, cs)
    BY <1>1, NothingFoundIsHopeless
  <2> QED BY <2>1, <2>2, UnableMeets DEF Holds, DependenciesOf
<1>2. CASE found # {}
  <2>1. d \in found
    BY <1>2 DEF BestDecision
  <2>2. /\ MeetsAll(d, cs)
        /\ d.kind \in {"nothing", "change", "nochange", "remove"}
        /\ d.kind \in {"change", "nochange"} => d.version \in Versions
    BY <2>1, FoundMeets
  <2>3. DependenciesOf(n, d) \subseteq Dependencies
    <3>1. CASE d.kind \in {"change", "nochange"}
      <4>1. system.depends[<<n, d.version>>] \subseteq Dependencies
        BY <2>2, <3>1 DEF IsSystem
      <4> QED BY <4>1 DEF DependenciesOf
    <3>2. CASE d.kind \notin {"change", "nochange"}
      BY <3>2 DEF DependenciesOf
    <3> QED BY <3>1, <3>2
  <2> QED BY <2>2, <2>3 DEF Holds
<1> QED BY <1>1, <1>2

-----------------------------------------------------------------------------
(* Resolutions.                                                            *)

LEMMA RangeOfAppend ==
    ASSUME NEW S, NEW q \in Seq(S), NEW e \in S
    PROVE  Append(q, e) \in Seq(S) /\ Range(Append(q, e)) = Range(q) \cup {e}
<1> DEFINE p == Append(q, e)
<1>1. /\ p \in Seq(S) /\ DOMAIN p = 1..(Len(q) + 1) /\ DOMAIN q = 1..Len(q) /\ Len(q) \in Nat
      /\ p[Len(q) + 1] = e /\ \A i \in 1..Len(q) : p[i] = q[i]
  OBVIOUS
<1> HIDE DEF p
<1>2. Range(p) \subseteq Range(q) \cup {e}
  BY <1>1 DEF Range
<1>3. e \in Range(p) /\ Range(q) \subseteq Range(p)
  BY <1>1 DEF Range
<1> QED BY <1>1, <1>2, <1>3 DEF p

LEMMA UpdateOfFunction ==
    ASSUME NEW S, NEW f, f = [x \in S |-> f[x]], NEW n \in S, NEW e,
           NEW g, g = [f EXCEPT ![n] = e]
    PROVE  /\ g = [x \in S |-> g[x]]
           /\ g[n] = e
           /\ \A x \in S \ {n} : g[x] = f[x]
<1>1. DOMAIN f = S
  OBVIOUS
<1>2. g = [x \in S |-> IF x = n THEN e ELSE f[x]]
  BY <1>1
<1> QED BY <1>2

LEMMA UpdateOfConstraints ==
    ASSUME NEW r, Shaped(r), NEW n \in Names, NEW cs
    PROVE  [r EXCEPT !.constraints[n] = cs]
               = [list |-> r.list, constraints |-> [r.constraints EXCEPT ![n] = cs],
                  decision |-> r.decision, fromNothing |-> r.fromNothing, restart |-> r.restart]
<1>1. \A C : [r EXCEPT !.constraints = C]
               = [list |-> r.list, constraints |-> C, decision |-> r.decision,
                  fromNothing |-> r.fromNothing, restart |-> r.restart]
  BY DEF Shaped
<1>2. [r EXCEPT !.constraints[n] = cs] = [r EXCEPT !.constraints = [r.constraints EXCEPT ![n] = cs]]
  BY DEF Shaped
<1> QED BY <1>1, <1>2

LEMMA UpdateOfDecision ==
    ASSUME NEW r, Shaped(r), NEW n \in Names, NEW e
    PROVE  [r EXCEPT !.decision[n] = e]
               = [list |-> r.list, constraints |-> r.constraints, decision |-> [r.decision EXCEPT ![n] = e],
                  fromNothing |-> r.fromNothing, restart |-> r.restart]
<1>1. \A D : [r EXCEPT !.decision = D]
               = [list |-> r.list, constraints |-> r.constraints, decision |-> D,
                  fromNothing |-> r.fromNothing, restart |-> r.restart]
  BY DEF Shaped
<1>2. [r EXCEPT !.decision[n] = e] = [r EXCEPT !.decision = [r.decision EXCEPT ![n] = e]]
  BY DEF Shaped
<1> QED BY <1>1, <1>2

LEMMA ResolutionIsGood ==
    ASSUME NEW r, Good(r), NEW n \in Names
    PROVE  /\ Good(ResolutionFor(r, n))
           /\ n \in Resolved(ResolutionFor(r, n))
           /\ ResolutionFor(r, n).decision = r.decision
<1>1. CASE n \in Resolved(r)
  BY <1>1 DEF ResolutionFor
<1>2. CASE n \notin Resolved(r)
  <2> DEFINE new == ResolutionFor(r, n)
             cs == IF n \in DOMAIN initial THEN initial[n] ELSE {}
  <2>1. Shaped(r)
    BY DEF Good
  <2>2. /\ new = [list |-> Append(r.list, n), constraints |-> [r.constraints EXCEPT ![n] = cs],
                  decision |-> r.decision, fromNothing |-> r.fromNothing, restart |-> r.restart]
    BY <1>2, <2>1 DEF ResolutionFor, Shaped
  <2>3. new.list \in Seq(Names) /\ Resolved(new) = Resolved(r) \cup {n}
    <3>1. r.list \in Seq(Names) /\ new.list = Append(r.list, n)
      BY <2>1, <2>2 DEF Shaped
    <3> QED BY <3>1, RangeOfAppend DEF Resolved
  <2>4. /\ new.constraints = [m \in Names |-> new.constraints[m]]
        /\ \A m \in Names \ {n} : new.constraints[m] = r.constraints[m]
    <3>1. new.constraints = [r.constraints EXCEPT ![n] = cs]
      BY <2>2
    <3>2. r.constraints = [m \in Names |-> r.constraints[m]]
      BY <2>1 DEF Shaped
    <3> HIDE DEF new, cs
    <3> QED BY <3>1, <3>2, UpdateOfFunction
  <2>5. Shaped(new)
    BY <2>1, <2>2, <2>3, <2>4 DEF Shaped
  <2>6. r.decision[n] = Undecided
    BY <1>2 DEF Good
  <2>7. \A m \in Names : Holds(m, new.decision[m], new.constraints[m])
    BY <2>2, <2>4, <2>6 DEF Good, Holds
  <2>8. new.decision = r.decision /\ new.restart = {}
    BY <2>2 DEF Good
  <2> HIDE DEF new
  <2>9. Good(new)
    BY <2>3, <2>5, <2>7, <2>8 DEF Good
  <2> QED BY <2>3, <2>8, <2>9 DEF new
<1> QED BY <1>1, <1>2

(* What becomes of resolutions of which one is replaced.                   *)
LEMMA ReplacedIsGood ==
    ASSUME NEW r, NEW s, Good(r), Shaped(s), s.restart = {}, s.list = r.list,
           NEW n \in Resolved(r),
           \A m \in Names \ {n} : s.decision[m] = r.decision[m] /\ s.constraints[m] = r.constraints[m],
           n \in Names => Holds(n, s.decision[n], s.constraints[n])
    PROVE  Good(s)
BY DEF Good, Resolved

(* _apply_resolution_constraint() keeps what was decided right, or has the *)
(* resolution start over.                                                  *)
LEMMA AppliedIsGood ==
    ASSUME IsSystem(system), NEW r, Good(r), NEW n \in Names, NEW c,
           ApplyConstraint(r, n, c).restart = {}
    PROVE  Good(ApplyConstraint(r, n, c))
<1> DEFINE was == ResolutionFor(r, n)
           d == was.decision[n]
           added == [was EXCEPT !.constraints[n] = @ \cup {c}]
           cs == added.constraints[n]
           found == IF AllowedToRestart(n, d) THEN TryToFindDecision(n, cs, TRUE, TRUE) ELSE {}
           new == ApplyConstraint(r, n, c)
<1>1. Good(was) /\ n \in Resolved(was) /\ Shaped(was)
  BY ResolutionIsGood DEF Good
<1>2. /\ Shaped(added) /\ added.list = was.list /\ added.decision = was.decision
      /\ added.restart = {} /\ added.fromNothing = was.fromNothing
      /\ \A m \in Names \ {n} : added.constraints[m] = was.constraints[m]
      /\ cs = was.constraints[n] \cup {c}
  <2>1. was.restart = {}
    BY <1>1 DEF Good
  <2> HIDE DEF was
  <2>2. added = [list |-> was.list, constraints |-> [was.constraints EXCEPT ![n] = @ \cup {c}],
                 decision |-> was.decision, fromNothing |-> was.fromNothing, restart |-> was.restart]
    BY <1>1, UpdateOfConstraints
  <2> HIDE DEF added
  <2>3. /\ added.constraints = [was.constraints EXCEPT ![n] = @ \cup {c}]
        /\ added.list = was.list /\ added.decision = was.decision
        /\ added.restart = {} /\ added.fromNothing = was.fromNothing
    BY <2>1, <2>2
  <2>4. /\ \A m \in Names \ {n} : added.constraints[m] = was.constraints[m]
        /\ added.constraints[n] = was.constraints[n] \cup {c}
        /\ added.constraints = [m \in Names |-> added.constraints[m]]
    <3>1. was.constraints = [m \in Names |-> was.constraints[m]]
      BY <1>1 DEF Shaped
    <3> QED BY <2>3, <3>1, UpdateOfFunction
  <2>5. Shaped(added)
    BY <1>1, <2>1, <2>2, <2>3, <2>4 DEF Shaped
  <2> QED BY <2>3, <2>4, <2>5
<1>3. Holds(n, d, was.constraints[n])
  BY <1>1 DEF Good
<1> HIDE DEF was
<1>4. CASE d = Undecided \/ (d # Undecided /\ CheckConstraint(c, d))
  <2>1. new = added
    BY <1>4 DEF ApplyConstraint, was
  <2>2. Holds(n, d, cs)
    <3> DEFINE old == was.constraints[n]
    <3> HIDE DEF d, cs, old
    <3>1. cs = old \cup {c}
      BY <1>2 DEF cs, old
    <3>2. Holds(n, d, old)
      BY <1>3 DEF old
    <3>3. Hopeless(n, old) => Hopeless(n, cs)
      BY <3>1, StaysHopeless
    <3> QED BY <1>4, <3>1, <3>2, <3>3 DEF Holds, MeetsAll
  <2> HIDE DEF added, new
  <2>3. Holds(n, added.decision[n], added.constraints[n])
    BY <1>2, <2>2
  <2>4. \A m \in Names \ {n} : added.decision[m] = was.decision[m] /\ added.constraints[m] = was.constraints[m]
    BY <1>2
  <2>5. Good(new)
    BY <1>1, <1>2, <2>1, <2>3, <2>4, ReplacedIsGood
  <2> QED BY <2>5 DEF new
<1>5. ASSUME NEW e, Holds(n, e, cs), NEW fromNothing,
             new = [added EXCEPT !.decision[n] = e, !.fromNothing = fromNothing]
      PROVE  Good(new)
  <2> HIDE DEF added, new
  <2>1. /\ Shaped(new) /\ new.list = was.list /\ new.restart = {}
        /\ new.constraints = added.constraints
        /\ new.decision[n] = e
        /\ \A m \in Names \ {n} : new.decision[m] = was.decision[m]
    BY <1>2, <1>5 DEF Shaped
  <2> QED BY <1>1, <1>2, <1>5, <2>1, ReplacedIsGood
<1>6. CASE ~ (d = Undecided \/ (d # Undecided /\ CheckConstraint(c, d))) /\ found = {}
  <2> DEFINE e == Without("unable", cs)
  <2>1. new = [added EXCEPT !.decision[n] = e]
    BY <1>6 DEF ApplyConstraint, was
  <2>2. new = [added EXCEPT !.decision[n] = e, !.fromNothing = added.fromNothing]
    <3> HIDE DEF added, new, e
    <3> QED BY <1>2, <2>1 DEF Shaped
  <2>3. n \notin system.noRestarts => Hopeless(n, cs)
    BY <1>6, NothingFoundIsHopeless DEF AllowedToRestart
  <2>4. Holds(n, e, cs)
    BY <2>3, UnableMeets DEF Holds
  <2> HIDE DEF added, new, e
  <2>5. Good(new)
    BY <1>5, <2>2, <2>4
  <2> QED BY <2>5 DEF new
<1>7. CASE /\ ~ (d = Undecided \/ (d # Undecided /\ CheckConstraint(c, d))) /\ found # {}
           /\ d.kind = "nothing"
  <2>1. new = [added EXCEPT !.decision[n] = BestDecision(n, cs), !.fromNothing = @ \cup {n}]
    BY <1>7 DEF ApplyConstraint, was
  <2>2. Holds(n, BestDecision(n, cs), cs)
    BY BestDecisionHolds
  <2> HIDE DEF added, new
  <2>3. Good(new)
    BY <1>5, <2>1, <2>2
  <2> QED BY <2>3 DEF new
<1>8. CASE /\ ~ (d = Undecided \/ (d # Undecided /\ CheckConstraint(c, d))) /\ found # {}
           /\ d.kind # "nothing"
  <2>1. new = [added EXCEPT !.restart = {[on |-> n, preset |-> Preset(c)]}]
    BY <1>8 DEF ApplyConstraint, was
  <2>2. new.restart # {}
    <3> HIDE DEF added, new
    <3> QED BY <1>2, <2>1 DEF Shaped
  <2> QED BY <2>2
<1> QED BY <1>4, <1>6, <1>7, <1>8

(* A package to which a constraint is applied is in the list, and what has *)
(* not been decided upon stays so.                                         *)
LEMMA AppliedIsInTheList ==
    ASSUME NEW r, Good(r), NEW n \in Names, NEW c
    PROVE  /\ n \in Resolved(ApplyConstraint(r, n, c))
           /\ r.decision[n] = Undecided => /\ ApplyConstraint(r, n, c).restart = {}
                                          /\ ApplyConstraint(r, n, c).decision = r.decision
<1> DEFINE was == ResolutionFor(r, n)
           new == ApplyConstraint(r, n, c)
<1>1. Good(was) /\ n \in Resolved(was) /\ Shaped(was) /\ was.restart = {} /\ was.decision = r.decision
  BY ResolutionIsGood DEF Good
<1>2. new.list = was.list
  <2> DEFINE d == was.decision[n]
             added == [was EXCEPT !.constraints[n] = @ \cup {c}]
             cs == added.constraints[n]
  <2>1. \/ new = added
        \/ \E e : new = [added EXCEPT !.decision[n] = e]
        \/ \E e, f : new = [added EXCEPT !.decision[n] = e, !.fromNothing = f]
        \/ \E e : new = [added EXCEPT !.restart = e]
    BY DEF ApplyConstraint
  <2>2. added = [list |-> was.list, constraints |-> [was.constraints EXCEPT ![n] = @ \cup {c}],
                 decision |-> was.decision, fromNothing |-> was.fromNothing, restart |-> was.restart]
    BY <1>1, UpdateOfConstraints
  <2> HIDE DEF was, new, added
  <2>3. \A e, f : /\ [added EXCEPT !.decision[n] = e].list = was.list
                 /\ [added EXCEPT !.decision[n] = e, !.fromNothing = f].list = was.list
                 /\ [added EXCEPT !.restart = e].list = was.list
    BY <2>2
  <2>4. added.list = was.list
    BY <2>2
  <2>5. ASSUME NEW e, new = [added EXCEPT !.decision[n] = e]
        PROVE  new.list = was.list
    BY <2>3, <2>5
  <2>6. ASSUME NEW e, NEW f, new = [added EXCEPT !.decision[n] = e, !.fromNothing = f]
        PROVE  new.list = was.list
    BY <2>3, <2>6
  <2>7. ASSUME NEW e, new = [added EXCEPT !.restart = e]
        PROVE  new.list = was.list
    BY <2>3, <2>7
  <2>8. CASE new = added
    BY <2>4, <2>8
  <2> QED BY <2>1, <2>5, <2>6, <2>7, <2>8
<1>3. ASSUME r.decision[n] = Undecided
      PROVE  new.restart = {} /\ new.decision = r.decision
  <2>1. new = [was EXCEPT !.constraints[n] = @ \cup {c}]
    BY <1>1, <1>3 DEF ApplyConstraint
  <2>2. new = [list |-> was.list, constraints |-> [was.constraints EXCEPT ![n] = @ \cup {c}],
                 decision |-> was.decision, fromNothing |-> was.fromNothing, restart |-> was.restart]
    BY <1>1, <2>1, UpdateOfConstraints
  <2> HIDE DEF was, new
  <2> QED BY <1>1, <2>2
<1> QED BY <1>1, <1>2, <1>3 DEF Resolved

(* A new decision for a package in the list.                               *)
LEMMA NewDecisionIsGood ==
    ASSUME NEW r, Good(r), NEW n \in Names, n \in Resolved(r), NEW e, Holds(n, e, r.constraints[n])
    PROVE  /\ Good([r EXCEPT !.decision[n] = e])
           /\ [r EXCEPT !.decision[n] = e].decision[n] = e
<1> DEFINE new == [r EXCEPT !.decision[n] = e]
<1>1. Shaped(r) /\ r.restart = {}
  BY DEF Good
<1>4. new = [list |-> r.list, constraints |-> r.constraints, decision |-> [r.decision EXCEPT ![n] = e],
             fromNothing |-> r.fromNothing, restart |-> r.restart]
  BY <1>1, UpdateOfDecision
<1> HIDE DEF new
<1>5. r.decision = [m \in Names |-> r.decision[m]]
  BY <1>1 DEF Shaped
<1>6. new.decision = [r.decision EXCEPT ![n] = e]
  BY <1>4
<1>7. /\ new.decision = [m \in Names |-> new.decision[m]] /\ new.decision[n] = e
      /\ \A m \in Names \ {n} : new.decision[m] = r.decision[m]
  BY <1>5, <1>6, UpdateOfFunction
<1>8. Shaped(new) /\ new.restart = {} /\ new.list = r.list /\ new.constraints = r.constraints
  BY <1>1, <1>4, <1>7 DEF Shaped
<1>9. Good(new)
  BY <1>7, <1>8, ReplacedIsGood
<1> QED BY <1>7, <1>9 DEF new

LEMMA DecidedIsGood ==
    ASSUME IsSystem(system), NEW r, Good(r), NEW n \in Names, n \in Resolved(r)
    PROVE  /\ Good(Decide(r, n))
           /\ DependenciesOf(n, Decide(r, n).decision[n]) \subseteq Dependencies
<1> DEFINE e == BestDecision(n, r.constraints[n])
<1>1. Holds(n, e, r.constraints[n]) /\ DependenciesOf(n, e) \subseteq Dependencies
  BY BestDecisionHolds
<1>2. Decide(r, n) = [r EXCEPT !.decision[n] = e]
  BY DEF Decide
<1> HIDE DEF e
<1> QED BY <1>1, <1>2, NewDecisionIsGood

LEMMA NoResolutionsAreGood ==
    /\ Good(NoResolutions)
    /\ \A n \in Names : NoResolutions.decision[n] = Undecided
<1>1. Shaped(NoResolutions) /\ NoResolutions.restart = {}
  BY DEF Shaped, NoResolutions
<1>2. \A n \in Names : NoResolutions.decision[n] = Undecided
  BY DEF NoResolutions
<1> QED BY <1>1, <1>2 DEF Good, Holds

-----------------------------------------------------------------------------
(* The invariant.                                                          *)

LEMMA InitInvariant == Init => IInv
<1> SUFFICES ASSUME Init PROVE IInv
  OBVIOUS
<1>1. IsSystem(system)
  BY FamiliesAssumption DEF Init
<1>2. Adds
  BY DEF Init, Adds, NothingLeft
<1>3. at \in Nat \ {0} /\ resolutions = NoResolutions
  BY DEF Init
<1> QED BY <1>1, <1>2, <1>3, NoResolutionsAreGood DEF IInv

LEMMA LeftAdds ==
    ASSUME NEW kind, NEW n \in Names, NEW left, kind = "dependencies" => left \subseteq Dependencies,
           kind \in {"dependencies", "dependent"}
    PROVE  /\ Left(kind, n, left).of = "dependencies" =>
                 Left(kind, n, left).name \in Names /\ Left(kind, n, left).left \subseteq Dependencies
           /\ Left(kind, n, left).of = "dependent" => Left(kind, n, left).name \in Names
BY DEF Left, NothingLeft

(* A resolution that starts over has nothing decided.                      *)
LEMMA RestartStep ==
    ASSUME IInv, NEW r, Restart(r), system' = system
    PROVE  IInv'
<1>1. /\ resolutions' = NoResolutions
      /\ at' = 1
      /\ adding' = NothingLeft
  BY DEF Restart
<1>2. Adds'
  BY <1>1 DEF Adds, NothingLeft
<1>3. IsSystem(system)'
  BY DEF IInv, IsSystem
<1>4. Good(resolutions)' /\ \A n \in Names : resolutions.decision[n]' = Undecided
  BY <1>1, NoResolutionsAreGood DEF Good, Shaped, Holds, MeetsAll, Hopeless, Resolved, NoResolutions, Undecided
<1> QED BY <1>1, <1>2, <1>3, <1>4 DEF IInv

(* What is right stays so, for the system does not change.                 *)
LEMMA GoodStep ==
    ASSUME system' = system, NEW r, Good(r), resolutions' = r
    PROVE  Good(resolutions)'
<1>1. /\ Shaped(resolutions)' /\ resolutions'.restart = {}
      /\ \A n \in Names : n \notin Resolved(resolutions)' => resolutions'.decision[n] = Undecided
  BY DEF Good, Shaped, Resolved, Undecided
<1>2. ASSUME NEW n \in Names, NEW cs, Hopeless(n, cs)
      PROVE  Hopeless(n, cs)'
  <2>1. ExistingFor(n, cs)' = ExistingFor(n, cs)
    BY DEF ExistingFor
  <2>2. InstallableFor(n, cs, FALSE)' = InstallableFor(n, cs, FALSE)
    BY DEF InstallableFor
  <2>3. IsInstalled(n)' <=> IsInstalled(n)
    BY DEF IsInstalled
  <2>4. Attempt(n, cs, FALSE, FALSE) = {} => Attempt(n, cs, FALSE, FALSE)' = {}
    BY <2>1, <2>2, <2>3 DEF Attempt
  <2> QED BY <1>2, <2>4 DEF Hopeless, TryToFindDecision
<1>3. SUFFICES ASSUME NEW n \in Names, NEW d, d = r.decision[n], NEW cs, cs = r.constraints[n],
                      (d # Undecided)'
               PROVE  MeetsAll(d, cs)' /\ (d.kind = "unable" /\ n \notin system'.noRestarts => Hopeless(n, cs)')
  BY <1>1 DEF Good, Holds
<1>4. MeetsAll(d, cs) /\ (d.kind = "unable" /\ n \notin system'.noRestarts => Hopeless(n, cs))
  BY <1>3 DEF Good, Holds, Undecided
<1>5. MeetsAll(d, cs)'
  BY <1>4 DEF MeetsAll
<1> QED BY <1>2, <1>4, <1>5

LEMMA StageStep ==
    ASSUME IInv, system' = system, Good(resolutions)', Adds', at' \in Nat \ {0},
           stage' = "targets" => \A n \in Names : resolutions'.decision[n] = Undecided
    PROVE  IInv'
<1>1. IsSystem(system)'
  BY DEF IInv, IsSystem
<1> QED BY <1>1 DEF IInv, Undecided

(* Targets come first, when nothing has been decided.                      *)
LEMMA AddTargetStep == IInv /\ AddTarget => IInv'
<1> SUFFICES ASSUME IInv, AddTarget PROVE IInv'
  OBVIOUS
<1> DEFINE target == system.targets[at]
           r == ApplyConstraint(resolutions, target.on, FromTarget(target))
<1>1. /\ IsSystem(system) /\ system' = system /\ Good(resolutions) /\ adding' = adding
      /\ at \in Nat \ {0} /\ at <= Len(system.targets) /\ at' = at + 1 /\ stage' = stage
      /\ \A n \in Names : resolutions.decision[n] = Undecided
  BY DEF IInv, AddTarget
<1>2. target.on \in Names
  <2>1. system.targets \in Seq(Dependencies)
    BY <1>1 DEF IsSystem
  <2>2. target \in Dependencies
    BY <1>1, <2>1
  <2> QED BY <2>2 DEF Dependencies
<1>3. r.restart = {} /\ r.decision = resolutions.decision
  BY <1>1, <1>2, AppliedIsInTheList
<1>4. Good(r)
  BY <1>1, <1>2, <1>3, AppliedIsGood
<1>5. resolutions' = r \/ resolutions' = resolutions
  BY DEF AddTarget
<1>6. Good(resolutions)'
  BY <1>1, <1>4, <1>5, GoodStep
<1>7. resolutions'.decision = resolutions.decision
  BY <1>3, <1>5
<1>8. Adds' /\ at' \in Nat \ {0}
  BY <1>1 DEF IInv, Adds
<1> QED BY <1>1, <1>6, <1>7, <1>8, StageStep

(* These only find out what is to be looked at next.                       *)
LEMMA FindingStep ==
    IInv /\ (TargetsAdded \/ Purge \/ EndPass \/ FindDependents \/ DependentsResolved
                \/ FindPurges \/ PurgesResolved) => IInv'
<1> SUFFICES ASSUME IInv, \/ TargetsAdded \/ Purge \/ EndPass \/ FindDependents
                          \/ DependentsResolved \/ FindPurges \/ PurgesResolved
             PROVE  IInv'
  OBVIOUS
<1>1. /\ system' = system /\ resolutions' = resolutions /\ adding' = adding
      /\ at' = at \/ at' = 1
  BY DEF TargetsAdded, Purge, EndPass, FindDependents, DependentsResolved, FindPurges, PurgesResolved
<1>2. stage' # "targets"
  <2>1. CASE EndPass
    <3>1. stage \in {"non_suggestions", "nothings", "suggestions"}
      BY <2>1 DEF EndPass, Deciding
    <3>2. NextPass[stage] # "targets"
      BY <3>1 DEF NextPass
    <3> QED BY <2>1, <3>1, <3>2 DEF EndPass
  <2>2. CASE TargetsAdded \/ Purge \/ FindDependents \/ DependentsResolved \/ FindPurges \/ PurgesResolved
    BY <2>2 DEF TargetsAdded, Purge, FindDependents, DependentsResolved, FindPurges, PurgesResolved
  <2> QED BY <2>1, <2>2
<1>3. Good(resolutions)'
  BY <1>1, GoodStep DEF IInv
<1>4. Adds' /\ at' \in Nat \ {0}
  BY <1>1, <1>2 DEF IInv, Adds
<1> QED BY <1>1, <1>2, <1>3, <1>4, StageStep

(* What is decided is in the list.                                         *)
LEMMA DecideNextStep == IInv /\ DecideNext => IInv'
<1> SUFFICES ASSUME IInv, DecideNext PROVE IInv'
  OBVIOUS
<1>1. PICK i \in ToDecide :
        /\ resolutions' = Decide(resolutions, resolutions.list[i])
        /\ adding' = Left("dependencies", resolutions.list[i],
                          DependenciesOf(resolutions.list[i], resolutions'.decision[resolutions.list[i]]))
        /\ at' = i + 1
  BY DEF DecideNext
<1> DEFINE n == resolutions.list[i]
<1>2. /\ IsSystem(system) /\ Good(resolutions) /\ at \in Nat \ {0}
      /\ system' = system /\ stage' = stage /\ stage # "targets"
  BY DEF IInv, DecideNext, Deciding
<1>3. i \in Nat \ {0} /\ n \in Names /\ n \in Resolved(resolutions)
  <2>1. resolutions.list \in Seq(Names)
    BY <1>2 DEF Good, Shaped
  <2>2. i \in at..Len(resolutions.list)
    BY DEF ToDecide
  <2>3. i \in 1..Len(resolutions.list)
    BY <1>2, <2>1, <2>2
  <2> QED BY <2>1, <2>3 DEF Resolved, Range
<1> HIDE DEF n
<1>4. /\ Good(Decide(resolutions, n))
      /\ DependenciesOf(n, Decide(resolutions, n).decision[n]) \subseteq Dependencies
  BY <1>2, <1>3, DecidedIsGood
<1>5. Good(resolutions)'
  BY <1>1, <1>2, <1>4, GoodStep DEF n
<1>6. Adds'
  <2>1. adding' = Left("dependencies", n, DependenciesOf(n, Decide(resolutions, n).decision[n]))
    BY <1>1 DEF n
  <2> QED BY <1>2, <1>3, <1>4, <2>1, LeftAdds DEF Adds
<1> QED BY <1>1, <1>2, <1>3, <1>5, <1>6, StageStep

(* A constraint that a decision, or a dependent, brings with it.           *)
LEMMA AddDependencyStep == ASSUME IInv, NEW dep, AddDependency(dep) PROVE IInv'
<1> DEFINE n == adding.name
           r == WithDependency(resolutions, n, dep)
<1>1. /\ IsSystem(system) /\ Good(resolutions) /\ at \in Nat \ {0} /\ Adds
      /\ system' = system /\ adding.of = "dependencies" /\ dep \in adding.left
  BY DEF IInv, AddDependency
<1>2. n \in Names /\ adding.left \subseteq Dependencies /\ stage # "targets"
  BY <1>1 DEF Adds
<1>3. dep.on \in Names
  BY <1>1, <1>2 DEF Dependencies
<1>4. r.restart = {} => Good(r)
  BY <1>1, <1>3, AppliedIsGood DEF WithDependency
<1>5. CASE Restart(r)
  BY <1>1, <1>5, RestartStep
<1>6. CASE /\ r.restart = {} /\ resolutions' = r
           /\ adding' = Left("dependencies", n, adding.left \ {dep})
           /\ stage' = stage /\ at' = at
  <2>1. Good(resolutions)'
    BY <1>1, <1>4, <1>6, GoodStep
  <2>2. Adds'
    <3>1. adding.left \ {dep} \subseteq Dependencies
      BY <1>2
    <3> QED BY <1>2, <1>6, <3>1, LeftAdds DEF Adds
  <2> QED BY <1>1, <1>2, <1>6, <2>1, <2>2, StageStep
<1>7. \/ Restart(r)
      \/ /\ r.restart = {} /\ resolutions' = r
         /\ adding' = Left("dependencies", n, adding.left \ {dep})
         /\ stage' = stage /\ at' = at
  BY DEF AddDependency
<1> QED BY <1>5, <1>6, <1>7

LEMMA InstalledNames == \A id \in Installed : id.name \in Names
BY DEF Installed

LEMMA ResolveDependentStep == ASSUME IInv, NEW id \in Installed, ResolveDependent(id) PROVE IInv'
<1>1. /\ Good(resolutions) /\ at \in Nat \ {0} /\ id.name \in Names
      /\ system' = system /\ resolutions' = resolutions /\ at' = at
      /\ stage' = stage /\ stage # "targets"
      /\ adding' = Left("dependent", id.name, DependentUpon(id, changing.away, changing.new))
  BY InstalledNames DEF IInv, ResolveDependent
<1>2. Good(resolutions)'
  BY <1>1, GoodStep
<1>3. Adds'
  BY <1>1, LeftAdds DEF Adds
<1> QED BY <1>1, <1>2, <1>3, StageStep

(* To be broken without further ado meets whatever is asked.               *)
LEMMA AddDependentStep == ASSUME IInv, NEW away, AddDependent(away) PROVE IInv'
<1> DEFINE n == adding.name
           r == ApplyConstraint(resolutions, n, FromDependent(n, {away.name}))
           open == adding.left = {away} /\ n \notin system.removeIfDependent /\ r.decision[n] = Undecided
           found == TryToFindDecision(n, r.constraints[n], FALSE, FALSE)
           break == [kind |-> "break", taken |-> TRUE]
           new == [r EXCEPT !.decision[n] = break]
<1>1. /\ IsSystem(system) /\ Good(resolutions) /\ at \in Nat \ {0} /\ Adds
      /\ system' = system /\ adding.of = "dependent"
  BY DEF IInv, AddDependent
<1>2. n \in Names /\ stage # "targets"
  BY <1>1 DEF Adds
<1>3. n \in Resolved(r) /\ (r.restart = {} => Good(r))
  BY <1>1, <1>2, AppliedIsGood, AppliedIsInTheList
<1>4. r.restart = {} => Good(new)
  <2>1. Holds(n, break, r.constraints[n])
    BY DEF Holds, MeetsAll, CheckConstraint
  <2> HIDE DEF r, break
  <2> QED BY <1>2, <1>3, <2>1, NewDecisionIsGood
<1> HIDE DEF r, open, found, new
<1>5. CASE Restart(r)
  BY <1>1, <1>5, RestartStep
<1>6. CASE /\ r.restart = {} /\ resolutions' \in {r, new}
           /\ adding' = Left("dependent", n, adding.left \ {away})
           /\ stage' = stage /\ at' = at
  <2>1. Good(resolutions)'
    BY <1>1, <1>3, <1>4, <1>6, GoodStep
  <2>2. Adds'
    BY <1>2, <1>6, LeftAdds DEF Adds
  <2> QED BY <1>1, <1>2, <1>6, <2>1, <2>2, StageStep
<1>7. \/ Restart(r)
      \/ /\ r.restart = {} /\ resolutions' \in {r, new}
         /\ adding' = Left("dependent", n, adding.left \ {away})
         /\ stage' = stage /\ at' = at
  BY DEF AddDependent, r, new, open, found
<1> QED BY <1>5, <1>6, <1>7

(* What is purged is decided at once.                                      *)
LEMMA ResolvePurgeStep == ASSUME IInv, NEW id \in Installed, ResolvePurge(id) PROVE IInv'
<1> DEFINE n == id.name
           users == {a \in changing.away : DependsOn(a, id)}
           r == ResolutionFor(resolutions, n)
           applied == ApplyConstraint(r, n, FromPurge(n, {u.name : u \in users}))
           decided == Decide(applied, n)
<1>1. /\ IsSystem(system) /\ Good(resolutions) /\ at \in Nat \ {0} /\ Adds /\ n \in Names
      /\ system' = system /\ adding' = adding /\ at' = at
      /\ stage' = stage /\ stage # "targets"
  BY InstalledNames DEF IInv, ResolvePurge
<1>2. Good(r)
  BY <1>1, ResolutionIsGood
<1>3. ASSUME r.decision[n] = Undecided
      PROVE  Good(resolutions)'
  <2>1. applied.restart = {} /\ n \in Resolved(applied)
    BY <1>1, <1>2, <1>3, AppliedIsInTheList
  <2>2. Good(applied)
    BY <1>1, <1>2, <2>1, AppliedIsGood
  <2>3. Good(decided)
    BY <1>1, <2>1, <2>2, DecidedIsGood
  <2>4. resolutions' = decided
    BY <1>3 DEF ResolvePurge
  <2> QED BY <1>1, <2>3, <2>4, GoodStep
<1>4. ASSUME r.decision[n] # Undecided
      PROVE  Good(resolutions)'
  <2>1. resolutions' = r
    BY <1>4 DEF ResolvePurge
  <2> QED BY <1>1, <1>2, <2>1, GoodStep
<1>5. Adds'
  BY <1>1 DEF Adds
<1>6. Good(resolutions)'
  BY <1>3, <1>4
<1> QED BY <1>1, <1>5, <1>6, StageStep

LEMMA NextInvariant == IInv /\ [Next]_vars => IInv'
<1> SUFFICES ASSUME IInv, [Next]_vars PROVE IInv'
  OBVIOUS
<1>1. CASE AddTarget
  BY <1>1, AddTargetStep
<1>2. CASE TargetsAdded \/ Purge \/ EndPass \/ FindDependents \/ DependentsResolved
              \/ FindPurges \/ PurgesResolved
  BY <1>2, FindingStep
<1>3. CASE DecideNext
  BY <1>3, DecideNextStep
<1>4. CASE \E dep \in adding.left : AddDependency(dep)
  BY <1>4, AddDependencyStep
<1>5. CASE \E id \in Installed : ResolveDependent(id)
  BY <1>5, ResolveDependentStep
<1>6. CASE \E away \in adding.left : AddDependent(away)
  BY <1>6, AddDependentStep
<1>7. CASE \E id \in Installed : ResolvePurge(id)
  BY <1>7, ResolvePurgeStep
<1>8. CASE UNCHANGED vars
  <2>1. /\ system' = system /\ resolutions' = resolutions /\ adding' = adding /\ at' = at /\ stage' = stage
    BY <1>8 DEF vars
  <2>2. Good(resolutions)'
    BY <2>1, GoodStep DEF IInv
  <2>3. Adds' /\ at' \in Nat \ {0}
    BY <2>1 DEF IInv, Adds
  <2>4. stage' = "targets" => \A n \in Names : resolutions'.decision[n] = Undecided
    BY <2>1 DEF IInv
  <2> QED BY <2>1, <2>2, <2>3, <2>4, StageStep
<1> QED BY <1>1, <1>2, <1>3, <1>4, <1>5, <1>6, <1>7, <1>8 DEF Next

LEMMA InvariantMeans == IInv => DecisionsMeetConstraints
BY DEF IInv, Good, Holds, MeetsAll, Hopeless, DecisionsMeetConstraints, Decision, Constraints

(***************************************************************************)
(* Whatever is decided, in whatever order constraints come and however     *)
(* often it starts over: each decision meets all the constraints that are  *)
(* known, and is only said to be impossible when nothing would meet them.  *)
(***************************************************************************)
THEOREM DecisionsAreRight == Spec => []DecisionsMeetConstraints
<1>1. Init => IInv
  BY InitInvariant
<1>2. IInv /\ [Next]_vars => IInv'
  BY NextInvariant
<1>3. IInv => DecisionsMeetConstraints
  BY InvariantMeans
<1> QED BY <1>1, <1>2, <1>3, PTL DEF Spec

-----------------------------------------------------------------------------
(* What a step does to the resolutions.                                    *)

Given(n) == IF n \in DOMAIN initial THEN initial[n] ELSE {}

(* The constraints of a package, once it is in the list.                   *)
Had(n) == IF n \in Resolved(resolutions) THEN Constraints(n) ELSE Given(n)

Updated(n, cs, d) ==
    /\ Resolved(resolutions)' = Resolved(resolutions) \cup {n}
    /\ \A m \in Names \ {n} : Constraints(m)' = Constraints(m) /\ Decision(m)' = Decision(m)
    /\ Constraints(n)' = cs /\ Decision(n)' = d
    /\ resolutions'.fromNothing \in {resolutions.fromNothing, resolutions.fromNothing \cup {n}}

(* Those of _apply_resolution_constraint() that are no restart.            *)
Outcome(n, c, d) ==
    \/ d = Decision(n) /\ (Decision(n) = Undecided \/ CheckConstraint(c, Decision(n)))
    \/ /\ Decision(n) # Undecided /\ ~ CheckConstraint(c, Decision(n))
       /\ d = Without("unable", Had(n) \cup {c})
    \/ /\ Decision(n).kind = "nothing" /\ ~ CheckConstraint(c, Decision(n))
       /\ d = BestDecision(n, Had(n) \cup {c}) /\ n \in resolutions'.fromNothing

(* _resolution_for_resolvent(), and what is then done with it.             *)
LEMMA ResolutionForMeans ==
    ASSUME NEW r, Good(r), NEW n \in Names
    PROVE  LET was == ResolutionFor(r, n)
           IN  /\ Shaped(was) /\ was.restart = {} /\ was.decision = r.decision
               /\ was.fromNothing = r.fromNothing
               /\ Resolved(was) = Resolved(r) \cup {n}
               /\ \A m \in Names \ {n} : was.constraints[m] = r.constraints[m]
               /\ was.constraints[n] = IF n \in Resolved(r) THEN r.constraints[n] ELSE Given(n)
               /\ n \in Resolved(r) => was = r
<1> DEFINE was == ResolutionFor(r, n)
<1>1. Shaped(was) /\ was.restart = {} /\ was.decision = r.decision /\ n \in Resolved(was) /\ Shaped(r)
  BY ResolutionIsGood DEF Good
<1>2. CASE n \in Resolved(r)
  <2>1. was = r
    BY <1>2 DEF ResolutionFor
  <2> HIDE DEF was
  <2>2. Resolved(was) = Resolved(r) \cup {n}
    BY <1>2, <2>1
  <2> QED BY <1>1, <1>2, <2>1, <2>2 DEF was
<1>3. CASE n \notin Resolved(r)
  <2>1. was = [r EXCEPT !.list = Append(r.list, n), !.constraints[n] = Given(n)]
    BY <1>3 DEF ResolutionFor, Given
  <2>2. was = [list |-> Append(r.list, n), constraints |-> [r.constraints EXCEPT ![n] = Given(n)],
               decision |-> r.decision, fromNothing |-> r.fromNothing, restart |-> r.restart]
    BY <1>1, <2>1 DEF Shaped
  <2> HIDE DEF was
  <2>3. /\ was.list = Append(r.list, n) /\ was.constraints = [r.constraints EXCEPT ![n] = Given(n)]
        /\ was.fromNothing = r.fromNothing
    BY <2>2
  <2>4. Resolved(was) = Resolved(r) \cup {n}
    <3>1. r.list \in Seq(Names)
      BY <1>1 DEF Shaped
    <3> QED BY <2>3, <3>1, RangeOfAppend DEF Resolved
  <2>5. /\ was.constraints[n] = Given(n)
        /\ \A m \in Names \ {n} : was.constraints[m] = r.constraints[m]
    <3>1. r.constraints = [m \in Names |-> r.constraints[m]]
      BY <1>1 DEF Shaped
    <3> HIDE DEF Given
    <3> QED BY <2>3, <3>1, UpdateOfFunction
  <2>6. was.constraints[n] = IF n \in Resolved(r) THEN r.constraints[n] ELSE Given(n)
    BY <1>3, <2>5
  <2> QED BY <1>1, <1>3, <2>3, <2>4, <2>5, <2>6 DEF was
<1> QED BY <1>2, <1>3

(* What a constraint may make of resolutions r.                            *)
Applies(r, n, c, s) ==
    LET d == r.decision[n]
        cs == (IF n \in Resolved(r) THEN r.constraints[n] ELSE Given(n)) \cup {c}
    IN  /\ Resolved(s) = Resolved(r) \cup {n}
        /\ \A m \in Names \ {n} : s.constraints[m] = r.constraints[m] /\ s.decision[m] = r.decision[m]
        /\ s.constraints[n] = cs
        /\ \/ /\ d = Undecided \/ CheckConstraint(c, d)
              /\ s.decision[n] = d /\ s.fromNothing = r.fromNothing /\ s.restart = {}
           \/ /\ d # Undecided /\ ~ CheckConstraint(c, d)
              /\ s.decision[n] = Without("unable", cs) /\ s.fromNothing = r.fromNothing /\ s.restart = {}
              /\ AllowedToRestart(n, d) => TryToFindDecision(n, cs, TRUE, TRUE) = {}
           \/ /\ d.kind = "nothing" /\ ~ CheckConstraint(c, d)
              /\ s.decision[n] = BestDecision(n, cs) /\ s.fromNothing = r.fromNothing \cup {n} /\ s.restart = {}
           \/ /\ d # Undecided /\ d.kind # "nothing" /\ ~ CheckConstraint(c, d)
              /\ s.restart = {[on |-> n, preset |-> Preset(c)]} /\ s.restart # {}

LEMMA ApplyMeans ==
    ASSUME NEW r, Good(r), NEW n \in Names, NEW c
    PROVE  Applies(r, n, c, ApplyConstraint(r, n, c))
<1> DEFINE was == ResolutionFor(r, n)
           d == r.decision[n]
           cs == (IF n \in Resolved(r) THEN r.constraints[n] ELSE Given(n)) \cup {c}
           added == [was EXCEPT !.constraints[n] = @ \cup {c}]
           found == IF AllowedToRestart(n, d) THEN TryToFindDecision(n, cs, TRUE, TRUE) ELSE {}
           s == ApplyConstraint(r, n, c)
<1>1. /\ Shaped(was) /\ was.restart = {} /\ was.decision = r.decision
      /\ was.fromNothing = r.fromNothing
      /\ Resolved(was) = Resolved(r) \cup {n}
      /\ \A m \in Names \ {n} : was.constraints[m] = r.constraints[m]
      /\ was.constraints[n] \cup {c} = cs
  BY ResolutionForMeans
<1>2. added = [list |-> was.list, constraints |-> [was.constraints EXCEPT ![n] = was.constraints[n] \cup {c}],
               decision |-> was.decision, fromNothing |-> was.fromNothing, restart |-> was.restart]
  <2> HIDE DEF was
  <2> QED BY <1>1, UpdateOfConstraints
<1>3. /\ added.list = was.list /\ added.decision = r.decision /\ added.fromNothing = r.fromNothing
      /\ added.restart = {} /\ added.constraints[n] = cs
      /\ \A m \in Names \ {n} : added.constraints[m] = r.constraints[m]
      /\ added.constraints = [m \in Names |-> added.constraints[m]]
  <2> HIDE DEF was, cs
  <2>1. /\ added.constraints = [was.constraints EXCEPT ![n] = was.constraints[n] \cup {c}]
        /\ added.list = was.list /\ added.decision = was.decision
        /\ added.fromNothing = was.fromNothing /\ added.restart = was.restart
    BY <1>2
  <2>2. was.constraints = [m \in Names |-> was.constraints[m]]
    BY <1>1 DEF Shaped
  <2> HIDE DEF added
  <2>3. /\ added.constraints[n] = was.constraints[n] \cup {c}
        /\ added.constraints = [m \in Names |-> added.constraints[m]]
        /\ \A m \in Names \ {n} : added.constraints[m] = was.constraints[m]
    BY <2>1, <2>2, UpdateOfFunction
  <2> QED BY <1>1, <2>1, <2>3
<1>4. Shaped(added)
  <2> HIDE DEF was
  <2>1. /\ added = [list |-> added.list, constraints |-> added.constraints,
               decision |-> added.decision, fromNothing |-> added.fromNothing, restart |-> added.restart]
    BY <1>2
  <2> HIDE DEF added
  <2> QED BY <1>1, <1>3, <2>1 DEF Shaped
<1>5. s = IF d = Undecided \/ (d # Undecided /\ CheckConstraint(c, d)) THEN added
          ELSE IF found = {} THEN [added EXCEPT !.decision[n] = Without("unable", cs)]
          ELSE IF d.kind = "nothing"
          THEN [added EXCEPT !.decision[n] = BestDecision(n, cs), !.fromNothing = @ \cup {n}]
          ELSE [added EXCEPT !.restart = {[on |-> n, preset |-> Preset(c)]}]
  <2> DEFINE d0 == was.decision[n]
             cs0 == added.constraints[n]
             found0 == IF AllowedToRestart(n, d0) THEN TryToFindDecision(n, cs0, TRUE, TRUE) ELSE {}
  <2>1. d0 = d
    BY <1>1
  <2>2. cs0 = cs
    BY <1>3
  <2>3. s = IF d0 = Undecided \/ (d0 # Undecided /\ CheckConstraint(c, d0)) THEN added
            ELSE IF found0 = {} THEN [added EXCEPT !.decision[n] = Without("unable", cs0)]
            ELSE IF d0.kind = "nothing"
            THEN [added EXCEPT !.decision[n] = BestDecision(n, cs0), !.fromNothing = @ \cup {n}]
            ELSE [added EXCEPT !.restart = {[on |-> n, preset |-> Preset(c)]}]
    BY DEF ApplyConstraint
  <2> HIDE DEF s, added, d, cs, d0, cs0
  <2> QED BY <2>1, <2>2, <2>3
<1> HIDE DEF was, added, s, d, cs
<1>6. ASSUME NEW e, s = [added EXCEPT !.decision[n] = e]
      PROVE  /\ s.list = added.list /\ s.constraints = added.constraints /\ s.restart = {}
             /\ s.fromNothing = r.fromNothing /\ s.decision[n] = e
             /\ \A m \in Names \ {n} : s.decision[m] = added.decision[m]
  <2>1. s = [list |-> added.list, constraints |-> added.constraints, decision |-> [added.decision EXCEPT ![n] = e],
             fromNothing |-> added.fromNothing, restart |-> added.restart]
    BY <1>4, <1>6, UpdateOfDecision
  <2>2. added.decision = [m \in Names |-> added.decision[m]]
    BY <1>4 DEF Shaped
  <2>3. s.decision = [added.decision EXCEPT ![n] = e]
    BY <2>1
  <2>4. s.decision[n] = e /\ \A m \in Names \ {n} : s.decision[m] = added.decision[m]
    BY <2>2, <2>3, UpdateOfFunction
  <2> QED BY <1>3, <2>1, <2>4
<1>7. ASSUME NEW e, s = [added EXCEPT !.decision[n] = e, !.fromNothing = @ \cup {n}]
      PROVE  /\ s.list = added.list /\ s.constraints = added.constraints /\ s.restart = {}
             /\ s.fromNothing = r.fromNothing \cup {n} /\ s.decision[n] = e
             /\ \A m \in Names \ {n} : s.decision[m] = added.decision[m]
  <2>1. s = [list |-> added.list, constraints |-> added.constraints, decision |-> [added.decision EXCEPT ![n] = e],
             fromNothing |-> added.fromNothing \cup {n}, restart |-> added.restart]
    BY <1>4, <1>7 DEF Shaped
  <2>2. added.decision = [m \in Names |-> added.decision[m]]
    BY <1>4 DEF Shaped
  <2>3. s.decision = [added.decision EXCEPT ![n] = e]
    BY <2>1
  <2>4. s.decision[n] = e /\ \A m \in Names \ {n} : s.decision[m] = added.decision[m]
    BY <2>2, <2>3, UpdateOfFunction
  <2> QED BY <1>3, <2>1, <2>4
<1>8. ASSUME NEW e, s = [added EXCEPT !.restart = e]
      PROVE  /\ s.list = added.list /\ s.constraints = added.constraints /\ s.restart = e
             /\ s.decision = added.decision
  BY <1>4, <1>8 DEF Shaped
<1>9. ASSUME s.list = added.list, s.constraints = added.constraints,
             \A m \in Names \ {n} : s.decision[m] = added.decision[m]
      PROVE  /\ Resolved(s) = Resolved(r) \cup {n}
             /\ \A m \in Names \ {n} : s.constraints[m] = r.constraints[m] /\ s.decision[m] = r.decision[m]
             /\ s.constraints[n] = cs
  BY <1>1, <1>3, <1>9 DEF Resolved
<1>10. CASE d = Undecided \/ (d # Undecided /\ CheckConstraint(c, d))
  <2>1. s = added
    BY <1>5, <1>10
  <2>2. s.decision[n] = d /\ s.fromNothing = r.fromNothing /\ s.restart = {}
    BY <1>3, <2>1 DEF d
  <2> QED BY <1>9, <1>10, <2>1, <2>2 DEF Applies, s, d, cs
<1>11. CASE ~ (d = Undecided \/ (d # Undecided /\ CheckConstraint(c, d))) /\ found = {}
  <2>1. s = [added EXCEPT !.decision[n] = Without("unable", cs)]
    BY <1>5, <1>11
  <2>2. /\ s.list = added.list /\ s.constraints = added.constraints /\ s.restart = {}
        /\ s.fromNothing = r.fromNothing /\ s.decision[n] = Without("unable", cs)
        /\ \A m \in Names \ {n} : s.decision[m] = added.decision[m]
    BY <1>6, <2>1
  <2>3. AllowedToRestart(n, d) => TryToFindDecision(n, cs, TRUE, TRUE) = {}
    BY <1>11
  <2> QED BY <1>9, <1>11, <2>2, <2>3 DEF Applies, s, d, cs
<1>12. CASE /\ ~ (d = Undecided \/ (d # Undecided /\ CheckConstraint(c, d))) /\ found # {}
            /\ d.kind = "nothing"
  <2>1. s = [added EXCEPT !.decision[n] = BestDecision(n, cs), !.fromNothing = @ \cup {n}]
    BY <1>5, <1>12
  <2>2. /\ s.list = added.list /\ s.constraints = added.constraints /\ s.restart = {}
        /\ s.fromNothing = r.fromNothing \cup {n} /\ s.decision[n] = BestDecision(n, cs)
        /\ \A m \in Names \ {n} : s.decision[m] = added.decision[m]
    BY <1>7, <2>1
  <2> QED BY <1>9, <1>12, <2>2 DEF Applies, s, d, cs
<1>13. CASE /\ ~ (d = Undecided \/ (d # Undecided /\ CheckConstraint(c, d))) /\ found # {}
            /\ d.kind # "nothing"
  <2>1. s = [added EXCEPT !.restart = {[on |-> n, preset |-> Preset(c)]}]
    BY <1>5, <1>13
  <2>2. /\ s.list = added.list /\ s.constraints = added.constraints
        /\ s.restart = {[on |-> n, preset |-> Preset(c)]} /\ s.decision = added.decision
    BY <1>8, <2>1
  <2>3. s.restart # {}
    BY <2>2
  <2> QED BY <1>9, <1>13, <2>2, <2>3 DEF Applies, s, d, cs
<1> QED BY <1>10, <1>11, <1>12, <1>13

Kinded(n, d) ==
    d # Undecided => /\ d.kind \in {"nothing", "change", "nochange", "remove", "unable", "break"}
                     /\ d.taken \in BOOLEAN
                     /\ d.kind = "nothing" => ~ IsInstalled(n)
                     /\ DependenciesOf(n, d) \subseteq Dependencies

(* What can be found, and that it is decided.                              *)
LEMMA AttemptKinds ==
    ASSUME NEW n \in Names, NEW cs, NEW tryMasked, NEW tryRemoves, NEW d \in Attempt(n, cs, tryMasked, tryRemoves)
    PROVE  /\ d.kind \in {"nothing", "change", "nochange", "remove"} /\ d.taken = ~ AllUntaken(cs)
           /\ d.kind = "nothing" => ~ IsInstalled(n)
<1> DEFINE existing == ExistingFor(n, cs)
           installable == InstallableFor(n, cs, tryMasked)
           use == StrictestUseExisting(cs)
           best == Max(installable)
<1>1. \/ d = Without("nothing", cs) /\ ~ IsInstalled(n)
      \/ d = Without("remove", cs)
      \/ d = Change(best, cs)
      \/ \E v, same : d = Existing(v, same, cs)
  <2> HIDE DEF existing, installable, use, best
  <2>1. CASE NothingIsFineToo(cs) /\ ~ IsInstalled(n)
    BY <2>1 DEF Attempt
  <2>2. CASE ~ (NothingIsFineToo(cs) /\ ~ IsInstalled(n)) /\ existing = {} /\ installable # {}
    BY <2>2 DEF Attempt, existing, installable, best
  <2>3. CASE ~ (NothingIsFineToo(cs) /\ ~ IsInstalled(n)) /\ existing # {} /\ installable = {}
    <3>1. \E v \in existing : d = Existing(v, TRUE, cs)
      BY <2>3 DEF Attempt, existing, installable, use
    <3> QED BY <3>1
  <2>4. CASE ~ (NothingIsFineToo(cs) /\ ~ IsInstalled(n)) /\ existing # {} /\ installable # {}
    <3>1. CASE use = "if_possible" \/ (use = "if_same" /\ best \in existing)
      <4>1. \E v \in existing : d = Existing(v, best \in existing, cs)
        BY <2>4, <3>1 DEF Attempt, existing, installable, use, best
      <4> QED BY <4>1
    <3>2. CASE ~ (use = "if_possible" \/ (use = "if_same" /\ best \in existing))
      BY <2>4, <3>2 DEF Attempt, existing, installable, use, best
    <3> QED BY <3>1, <3>2
  <2>5. CASE ~ (NothingIsFineToo(cs) /\ ~ IsInstalled(n)) /\ existing = {} /\ installable = {}
    BY <2>5 DEF Attempt, existing, installable
  <2> QED BY <2>1, <2>2, <2>3, <2>4, <2>5
<1>2. CASE d = Without("nothing", cs) /\ ~ IsInstalled(n)
  BY <1>2 DEF Without
<1>3. CASE d = Without("remove", cs)
  BY <1>3 DEF Without
<1>4. CASE d = Change(best, cs)
  BY <1>4 DEF Change
<1>5. CASE \E v, same : d = Existing(v, same, cs)
  BY <1>5 DEF Existing
<1> QED BY <1>1, <1>2, <1>3, <1>4, <1>5

LEMMA BestDecisionKinds ==
    ASSUME NEW n \in Names, NEW cs
    PROVE  LET d == BestDecision(n, cs)
           IN  /\ d # Undecided /\ d.kind \in {"nothing", "change", "nochange", "remove", "unable"}
               /\ d.taken = ~ AllUntaken(cs)
               /\ d.kind = "nothing" => ~ IsInstalled(n)
<1> DEFINE found == TryToFindDecision(n, cs, TRUE, TRUE)
           d == BestDecision(n, cs)
<1>1. CASE found = {}
  <2>1. d = Without("unable", cs)
    BY <1>1 DEF BestDecision
  <2> QED BY <2>1 DEF Without, Undecided
<1>2. CASE found # {}
  <2>1. d \in found
    BY <1>2 DEF BestDecision
  <2>2. d \in Attempt(n, cs, FALSE, TRUE) \/ d \in Attempt(n, cs, TRUE, TRUE)
    BY <2>1 DEF TryToFindDecision
  <2> HIDE DEF d
  <2>3. /\ d.kind \in {"nothing", "change", "nochange", "remove"} /\ d.taken = ~ AllUntaken(cs)
        /\ d.kind = "nothing" => ~ IsInstalled(n)
    BY <2>2, AttemptKinds
  <2>4. d # Undecided
    BY <2>3 DEF Undecided
  <2> QED BY <2>3, <2>4 DEF d
<1> QED BY <1>1, <1>2

(* A decision for whose package nothing would do is not to be one.         *)
LEMMA WithoutIsDecided ==
    ASSUME NEW cs
    PROVE  /\ Without("unable", cs) # Undecided
           /\ Without("unable", cs).kind = "unable"
           /\ Without("unable", cs).taken = ~ AllUntaken(cs)
BY DEF Without, Undecided

LEMMA AppliedEffect ==
    ASSUME IInv, NEW n \in Names, NEW c, resolutions' = ApplyConstraint(resolutions, n, c),
           ApplyConstraint(resolutions, n, c).restart = {}
    PROVE  \E d : Updated(n, Had(n) \cup {c}, d) /\ Outcome(n, c, d)
<1> DEFINE s == ApplyConstraint(resolutions, n, c)
           cs == (IF n \in Resolved(resolutions) THEN resolutions.constraints[n] ELSE Given(n)) \cup {c}
           d == resolutions.decision[n]
<1>1. Good(resolutions)
  BY DEF IInv
<1>2. /\ Resolved(s) = Resolved(resolutions) \cup {n}
      /\ \A m \in Names \ {n} : s.constraints[m] = resolutions.constraints[m] /\ s.decision[m] = resolutions.decision[m]
      /\ s.constraints[n] = cs
      /\ \/ /\ d = Undecided \/ CheckConstraint(c, d)
            /\ s.decision[n] = d /\ s.fromNothing = resolutions.fromNothing
         \/ /\ d # Undecided /\ ~ CheckConstraint(c, d)
            /\ s.decision[n] = Without("unable", cs) /\ s.fromNothing = resolutions.fromNothing
         \/ /\ d.kind = "nothing" /\ ~ CheckConstraint(c, d)
            /\ s.decision[n] = BestDecision(n, cs) /\ s.fromNothing = resolutions.fromNothing \cup {n}
  <2>1. Applies(resolutions, n, c, s)
    BY <1>1, ApplyMeans
  <2>2. s.restart = {}
    OBVIOUS
  <2> HIDE DEF s
  <2> QED BY <2>1, <2>2 DEF Applies
<1>3. cs = Had(n) \cup {c}
  BY DEF Had, Constraints
<1> HIDE DEF cs, s
<1>4. resolutions' = s
  BY DEF s
<1>5. Updated(n, cs, s.decision[n])
  BY <1>2, <1>4 DEF Updated, Constraints, Decision, Resolved
<1>6. Outcome(n, c, s.decision[n])
  BY <1>2, <1>3, <1>4 DEF Outcome, Decision
<1> QED BY <1>3, <1>5, <1>6

(* A restart keeps what the helper has, and a preset more.                 *)
LEMMA RestartEffect ==
    ASSUME IInv, NEW n \in Names, NEW c, Restart(ApplyConstraint(resolutions, n, c))
    PROVE  /\ Decision(n) # Undecided /\ Decision(n).kind # "nothing" /\ ~ CheckConstraint(c, Decision(n))
           /\ resolutions' = NoResolutions /\ adding' = NothingLeft /\ at' = 1 /\ changed' = FALSE
           /\ stage' \in {"targets", "given up"} /\ restarts' = restarts + 1
           /\ pending' = {}
           /\ DOMAIN initial' = DOMAIN initial \cup {n}
           /\ initial'[n] = (IF n \in DOMAIN initial THEN Had(n) \cup {c} ELSE {}) \cup {Preset(c)}
           /\ \A m \in DOMAIN initial \ {n} : m \in Names => initial'[m] = Had(m)
<1> DEFINE s == ApplyConstraint(resolutions, n, c)
           cs == (IF n \in Resolved(resolutions) THEN resolutions.constraints[n] ELSE Given(n)) \cup {c}
           d == resolutions.decision[n]
<1>1. Good(resolutions)
  BY DEF IInv
<1>2. s.restart # {}
  BY DEF Restart
<1>3. /\ Resolved(s) = Resolved(resolutions) \cup {n}
      /\ \A m \in Names \ {n} : s.constraints[m] = resolutions.constraints[m]
      /\ s.constraints[n] = cs
      /\ d # Undecided /\ d.kind # "nothing" /\ ~ CheckConstraint(c, d)
      /\ s.restart = {[on |-> n, preset |-> Preset(c)]}
  <2>1. Applies(resolutions, n, c, s)
    BY <1>1, ApplyMeans
  <2> HIDE DEF s
  <2> QED BY <1>2, <2>1 DEF Applies
<1>4. cs = Had(n) \cup {c}
  BY DEF Had, Constraints
<1> HIDE DEF cs, s
<1>5. PICK e \in s.restart :
        /\ initial' = [m \in DOMAIN initial \cup {e.on} |-> Kept(s, m) \cup (IF m = e.on THEN {e.preset} ELSE {})]
        /\ resolutions' = NoResolutions /\ adding' = NothingLeft /\ at' = 1 /\ changed' = FALSE
        /\ stage' \in {"targets", "given up"} /\ restarts' = restarts + 1
        /\ pending' = {}
  <2>1. (CHOOSE e \in s.restart : TRUE) \in s.restart
    BY <1>2, <1>3
  <2> QED BY <2>1 DEF Restart, s
<1>6. e.on = n /\ e.preset = Preset(c)
  BY <1>3
<1>7. initial' = [m \in DOMAIN initial \cup {n} |-> Kept(s, m) \cup (IF m = n THEN {Preset(c)} ELSE {})]
  BY <1>5, <1>6
<1>8. Kept(s, n) = IF n \in DOMAIN initial THEN Had(n) \cup {c} ELSE {}
  BY <1>3, <1>4 DEF Kept
<1>9. ASSUME NEW m \in DOMAIN initial \ {n}, m \in Names
      PROVE  Kept(s, m) = Had(m)
  BY <1>3, <1>9 DEF Kept, Had, Given, Constraints
<1>10. /\ DOMAIN initial' = DOMAIN initial \cup {n}
       /\ initial'[n] = (IF n \in DOMAIN initial THEN Had(n) \cup {c} ELSE {}) \cup {Preset(c)}
  BY <1>7, <1>8
<1>11. \A m \in DOMAIN initial \ {n} : m \in Names => initial'[m] = Had(m)
  BY <1>7, <1>9
<1> QED BY <1>3, <1>5, <1>10, <1>11 DEF Decision

LEMMA NewDecisionMeans ==
    ASSUME NEW r, Good(r), NEW n \in Names, n \in Resolved(r), NEW e
    PROVE  LET s == [r EXCEPT !.decision[n] = e]
           IN  /\ Resolved(s) = Resolved(r) /\ s.constraints = r.constraints /\ s.fromNothing = r.fromNothing
               /\ s.decision[n] = e /\ \A m \in Names \ {n} : s.decision[m] = r.decision[m]
<1> DEFINE s == [r EXCEPT !.decision[n] = e]
<1>1. Shaped(r)
  BY DEF Good
<1>2. s = [list |-> r.list, constraints |-> r.constraints, decision |-> [r.decision EXCEPT ![n] = e],
           fromNothing |-> r.fromNothing, restart |-> r.restart]
  BY <1>1, UpdateOfDecision
<1> HIDE DEF s
<1>3. r.decision = [m \in Names |-> r.decision[m]]
  BY <1>1 DEF Shaped
<1>4. s.decision = [r.decision EXCEPT ![n] = e]
  BY <1>2
<1>5. s.decision[n] = e /\ \A m \in Names \ {n} : s.decision[m] = r.decision[m]
  BY <1>3, <1>4, UpdateOfFunction
<1>6. s.list = r.list /\ s.constraints = r.constraints /\ s.fromNothing = r.fromNothing
  BY <1>2
<1> QED BY <1>5, <1>6 DEF s, Resolved

(* What DecideNext decides upon.                                           *)
LEMMA DecideEffect ==
    ASSUME IInv, DecideNext
    PROVE  \E n \in Resolved(resolutions) :
              /\ n \in Names /\ Decision(n) = Undecided
              /\ Updated(n, Constraints(n), BestDecision(n, Constraints(n)))
              /\ adding' = Left("dependencies", n, DependenciesOf(n, BestDecision(n, Constraints(n))))
<1>1. PICK i \in ToDecide :
        /\ resolutions' = Decide(resolutions, resolutions.list[i])
        /\ adding' = Left("dependencies", resolutions.list[i],
                          DependenciesOf(resolutions.list[i], resolutions'.decision[resolutions.list[i]]))
  BY DEF DecideNext
<1> DEFINE n == resolutions.list[i]
           e == BestDecision(n, resolutions.constraints[n])
<1>2. Good(resolutions) /\ at \in Nat \ {0}
  BY DEF IInv
<1>3. n \in Names /\ n \in Resolved(resolutions)
  <2>1. resolutions.list \in Seq(Names)
    BY <1>2 DEF Good, Shaped
  <2>2. i \in at..Len(resolutions.list)
    BY DEF ToDecide
  <2>3. i \in 1..Len(resolutions.list)
    BY <1>2, <2>1, <2>2
  <2> QED BY <2>1, <2>3 DEF Resolved, Range
<1>4. resolutions.decision[n] = Undecided
  BY DEF ToDecide, DecidedIn
<1>5. PICK m \in Names : m = n
  BY <1>3
<1> DEFINE em == BestDecision(m, resolutions.constraints[m])
<1>6. /\ m \in Resolved(resolutions) /\ resolutions.decision[m] = Undecided
      /\ resolutions' = [resolutions EXCEPT !.decision[m] = em]
      /\ adding' = Left("dependencies", m, DependenciesOf(m, resolutions'.decision[m]))
  BY <1>1, <1>3, <1>4, <1>5 DEF Decide
<1> HIDE DEF em
<1>7. /\ Resolved(resolutions') = Resolved(resolutions) /\ resolutions'.constraints = resolutions.constraints
      /\ resolutions'.fromNothing = resolutions.fromNothing
      /\ resolutions'.decision[m] = em
      /\ \A k \in Names \ {m} : resolutions'.decision[k] = resolutions.decision[k]
  BY <1>2, <1>6, NewDecisionMeans
<1>8. Updated(m, resolutions.constraints[m], em)
  <2>1. Resolved(resolutions)' = Resolved(resolutions) \cup {m}
    BY <1>6, <1>7 DEF Resolved
  <2> QED BY <1>7, <2>1 DEF Updated, Constraints, Decision
<1>9. adding' = Left("dependencies", m, DependenciesOf(m, em))
  BY <1>6, <1>7
<1>10. /\ m \in Resolved(resolutions) /\ m \in Names /\ Decision(m) = Undecided
       /\ Updated(m, Constraints(m), BestDecision(m, Constraints(m)))
       /\ adding' = Left("dependencies", m, DependenciesOf(m, BestDecision(m, Constraints(m))))
  BY <1>6, <1>8, <1>9 DEF Decision, Constraints, em
<1> HIDE DEF n
<1> QED BY <1>10

(* What is broken without further ado.                                     *)
LEMMA BreakEffect ==
    ASSUME IInv, NEW n \in Names, NEW c, NEW e,
           ApplyConstraint(resolutions, n, c).restart = {},
           ApplyConstraint(resolutions, n, c).decision[n] = Undecided,
           resolutions' = [ApplyConstraint(resolutions, n, c) EXCEPT !.decision[n] = e]
    PROVE  Decision(n) = Undecided /\ Updated(n, Had(n) \cup {c}, e)
<1> DEFINE s == ApplyConstraint(resolutions, n, c)
           cs == (IF n \in Resolved(resolutions) THEN resolutions.constraints[n] ELSE Given(n)) \cup {c}
           d == resolutions.decision[n]
<1>1. Good(resolutions) /\ IsSystem(system)
  BY DEF IInv
<1>2. Good(s) /\ n \in Resolved(s)
  BY <1>1, AppliedIsGood, AppliedIsInTheList
<1>3. Without("unable", cs) # Undecided /\ BestDecision(n, cs) # Undecided
  BY BestDecisionKinds, WithoutIsDecided
<1>4. /\ Resolved(s) = Resolved(resolutions) \cup {n}
      /\ \A m \in Names \ {n} : s.constraints[m] = resolutions.constraints[m] /\ s.decision[m] = resolutions.decision[m]
      /\ s.constraints[n] = cs
      /\ s.decision[n] = Undecided => d = Undecided /\ s.fromNothing = resolutions.fromNothing
  <2>1. Applies(resolutions, n, c, s)
    BY <1>1, ApplyMeans
  <2>2. s.restart = {}
    OBVIOUS
  <2> HIDE DEF s
  <2> QED BY <1>3, <2>1, <2>2 DEF Applies
<1>5. s.decision[n] = Undecided
  OBVIOUS
<1>6. cs = Had(n) \cup {c}
  BY DEF Had, Constraints
<1> HIDE DEF cs, s
<1>7. d = Undecided /\ s.fromNothing \in {resolutions.fromNothing, resolutions.fromNothing \cup {n}}
  BY <1>4, <1>5
<1>8. resolutions' = [s EXCEPT !.decision[n] = e]
  BY DEF s
<1>9. /\ Resolved(resolutions') = Resolved(s) /\ resolutions'.constraints = s.constraints
      /\ resolutions'.fromNothing = s.fromNothing
      /\ resolutions'.decision[n] = e
      /\ \A m \in Names \ {n} : resolutions'.decision[m] = s.decision[m]
  <2> DEFINE t == [s EXCEPT !.decision[n] = e]
  <2>1. Good(s) /\ n \in Resolved(s)
    BY <1>2 DEF s
  <2>2. /\ Resolved(t) = Resolved(s) /\ t.constraints = s.constraints /\ t.fromNothing = s.fromNothing
        /\ t.decision[n] = e /\ \A m \in Names \ {n} : t.decision[m] = s.decision[m]
    BY <2>1, NewDecisionMeans
  <2> HIDE DEF t
  <2>3. resolutions' = t
    BY <1>8 DEF t
  <2> QED BY <2>2, <2>3
<1>10. Updated(n, cs, e)
  <2>1. Resolved(resolutions)' = Resolved(resolutions) \cup {n}
    BY <1>4, <1>9 DEF Resolved
  <2> QED BY <1>4, <1>7, <1>9, <2>1 DEF Updated, Constraints, Decision
<1> QED BY <1>6, <1>7, <1>10 DEF Decision

(* What is unused is decided upon at once, unless it has been.             *)
LEMMA PurgeEffect ==
    ASSUME IInv, NEW id \in Installed, ResolvePurge(id)
    PROVE  \/ Decision(id.name) # Undecided /\ resolutions' = resolutions /\ changed' = changed
           \/ \E cs : /\ Decision(id.name) = Undecided
                      /\ cs = Had(id.name) \cup {FromPurge(id.name, {u.name : u \in {a \in changing.away : DependsOn(a, id)}})}
                      /\ Updated(id.name, cs, BestDecision(id.name, cs))
                      /\ changed' = (changed \/ BestDecision(id.name, cs).taken)
<1> DEFINE n == id.name
           c == FromPurge(n, {u.name : u \in {a \in changing.away : DependsOn(a, id)}})
           r == ResolutionFor(resolutions, n)
           s == ApplyConstraint(r, n, c)
           e == BestDecision(n, s.constraints[n])
           cs == Had(n) \cup {c}
<1>1. Good(resolutions) /\ IsSystem(system) /\ n \in Names
  BY InstalledNames DEF IInv
<1>2. /\ Good(r) /\ r.decision = resolutions.decision /\ r.fromNothing = resolutions.fromNothing
      /\ Resolved(r) = Resolved(resolutions) \cup {n}
      /\ \A m \in Names \ {n} : r.constraints[m] = resolutions.constraints[m]
      /\ r.constraints[n] = Had(n)
      /\ n \in Resolved(resolutions) => r = resolutions
  BY <1>1, ResolutionForMeans, ResolutionIsGood DEF Had, Constraints
<1>3. CASE r.decision[n] # Undecided
  <2>1. resolutions' = r /\ changed' = changed
    BY <1>3 DEF ResolvePurge
  <2>2. n \in Resolved(resolutions)
    BY <1>1, <1>2, <1>3 DEF Good
  <2> QED BY <1>2, <1>3, <2>1, <2>2 DEF Decision
<1>4. CASE r.decision[n] = Undecided
  <2>1. s.restart = {} /\ s.decision = r.decision /\ n \in Resolved(s)
    BY <1>1, <1>2, <1>4, AppliedIsInTheList
  <2>2. Good(s)
    BY <1>1, <1>2, <2>1, AppliedIsGood
  <2>3. /\ Resolved(s) = Resolved(resolutions) \cup {n}
        /\ \A m \in Names \ {n} : s.constraints[m] = resolutions.constraints[m]
        /\ s.constraints[n] = cs
        /\ s.fromNothing \in {resolutions.fromNothing, resolutions.fromNothing \cup {n}}
    <3> HIDE DEF r, c
    <3>1. n \in Resolved(r)
      BY <1>2
    <3>2. /\ Resolved(s) = Resolved(r) \cup {n}
          /\ \A m \in Names \ {n} : s.constraints[m] = r.constraints[m]
          /\ s.constraints[n] = (IF n \in Resolved(r) THEN r.constraints[n] ELSE Given(n)) \cup {c}
          /\ s.restart = {} => s.fromNothing \in {r.fromNothing, r.fromNothing \cup {n}}
      <4>1. Applies(r, n, c, s)
        BY <1>1, <1>2, ApplyMeans
      <4> HIDE DEF s
      <4> QED BY <4>1 DEF Applies
    <3> HIDE DEF s
    <3> QED BY <1>2, <2>1, <3>1, <3>2
  <2>4. resolutions' = [s EXCEPT !.decision[n] = e]
    BY <1>4 DEF ResolvePurge, Decide
  <2>5. changed' = (changed \/ resolutions'.decision[n].taken)
    BY <1>4 DEF ResolvePurge
  <2> HIDE DEF s, e, cs, r, c, n
  <2>6. /\ Resolved(resolutions') = Resolved(s) /\ resolutions'.constraints = s.constraints
        /\ resolutions'.fromNothing = s.fromNothing
        /\ resolutions'.decision[n] = e
        /\ \A m \in Names \ {n} : resolutions'.decision[m] = s.decision[m]
    BY <1>1, <2>1, <2>2, <2>4, NewDecisionMeans
  <2>7. e = BestDecision(n, cs)
    BY <2>3 DEF e
  <2>8. Updated(n, cs, e)
    <3>1. Resolved(resolutions)' = Resolved(resolutions) \cup {n}
      BY <2>3, <2>6 DEF Resolved
    <3>2. \A m \in Names \ {n} : resolutions'.constraints[m] = resolutions.constraints[m]
                                /\ resolutions'.decision[m] = resolutions.decision[m]
      BY <1>2, <2>1, <2>3, <2>6
    <3>3. resolutions'.constraints[n] = cs /\ resolutions'.decision[n] = e
      BY <2>3, <2>6
    <3> QED BY <2>3, <2>6, <3>1, <3>2, <3>3 DEF Updated, Constraints, Decision, n
  <2>9. Decision(n) = Undecided
    BY <1>2, <1>4 DEF Decision
  <2>10. changed' = (changed \/ e.taken)
    BY <2>5, <2>6
  <2> QED BY <2>7, <2>8, <2>9, <2>10 DEF n, cs, c
<1> QED BY <1>3, <1>4

-----------------------------------------------------------------------------
(* Everything is decided upon, and dependencies are taken into account.    *)

Later == {"dependents", "dependents found", "purges", "purges found", "purging all", "done"}

(* Where the loops are.                                                    *)
Phases ==
    /\ stage \in {"targets", "non_suggestions", "nothings", "suggestions", "given up"} \cup Later
    /\ changed \in BOOLEAN /\ restarts \in Nat
    /\ \/ adding = NothingLeft
       \/ adding.of = "dependencies" /\ Deciding
       \/ /\ adding.of = "dependent" /\ stage = "dependents found"
          /\ adding.name \in system.removeIfDependent => changed \/ adding.name \in Resolved(resolutions)
    /\ Deciding /\ ~ changed => at = 1
    /\ stage \in Later \/ (stage = "targets" /\ system.purge) => at = 1

(* A dependent that has to go or to change is decided upon in the next     *)
(* round, for which changed is set.                                        *)
DecidedUpon ==
    /\ stage \in {"dependents", "purges", "purges found", "done"} =>
          \A n \in Resolved(resolutions) : Decision(n) # Undecided
    /\ stage = "dependents found" /\ ~ changed =>
          \A n \in Resolved(resolutions) :
              \/ Decision(n) # Undecided
              \/ adding.of = "dependent" /\ adding.name = n /\ n \notin system.removeIfDependent

(* What the helper has is in the list of constraints, and is no accident.  *)
Listed ==
    /\ \A n \in Names : n \notin Resolved(resolutions) => Constraints(n) = {}
    /\ \A n \in Names : n \in Resolved(resolutions) => Constraints(n) # {} /\ Given(n) \subseteq Constraints(n)
    /\ DOMAIN initial \subseteq Names
    /\ \A n \in DOMAIN initial : \E c \in initial[n] : c.reason = "preset"

AllKinded == \A n \in Names : Kinded(n, Decision(n))

IsAccounted(n, dep) ==
    \/ InterestInSpec(dep, Decision(n)) = "ignore"
    \/ \E c \in Constraints(dep.on) : c.from = {n} /\ c.accepts = dep.accepts

StillToAdd(n, dep) == adding.of = "dependencies" /\ adding.name = n /\ dep \in adding.left

AllAccounted ==
    \A n \in Names \ resolutions.fromNothing : \A dep \in DependenciesOf(n, Decision(n)) :
        IsAccounted(n, dep) \/ StillToAdd(n, dep)

Inv1 == IInv /\ Phases /\ DecidedUpon /\ Listed /\ AllKinded /\ AllAccounted

LEMMA SystemIsFixed ==
    ASSUME system' = system
    PROVE  /\ Installed' = Installed
           /\ \A n : IsInstalled(n)' <=> IsInstalled(n)
           /\ \A n, d : DependenciesOf(n, d)' = DependenciesOf(n, d)
           /\ \A dep, d : InterestInSpec(dep, d)' = InterestInSpec(dep, d)
           /\ \A i, j : DependsOn(i, j)' <=> DependsOn(i, j)
           /\ \A i, away, new : DependentUpon(i, away, new)' = DependentUpon(i, away, new)
<1>1. Installed' = Installed
  BY DEF Installed
<1>2. \A n : IsInstalled(n)' <=> IsInstalled(n)
  BY DEF IsInstalled
<1>3. \A n, d : DependenciesOf(n, d)' = DependenciesOf(n, d)
  BY DEF DependenciesOf, HasResolvent, IsInstalled
<1>4. \A dep, d : InterestInSpec(dep, d)' = InterestInSpec(dep, d)
  BY DEF InterestInSpec, IsInstalled
<1>5. \A i, j : DependsOn(i, j)' <=> DependsOn(i, j)
  BY DEF DependsOn
<1>6. \A i, away, new : DependentUpon(i, away, new)' = DependentUpon(i, away, new)
  BY DEF DependentUpon
<1> QED BY <1>1, <1>2, <1>3, <1>4, <1>5, <1>6

LEMMA KindedIsFixed ==
    ASSUME system' = system, NEW n, NEW d
    PROVE  Kinded(n, d)' <=> Kinded(n, d)
BY SystemIsFixed DEF Kinded

LEMMA SameResolutions ==
    ASSUME resolutions' = resolutions
    PROVE  /\ Resolved(resolutions)' = Resolved(resolutions)
           /\ \A n : Decision(n)' = Decision(n) /\ Constraints(n)' = Constraints(n)
           /\ resolutions'.fromNothing = resolutions.fromNothing
BY DEF Resolved, Decision, Constraints

LEMMA NothingResolved ==
    ASSUME resolutions' = NoResolutions
    PROVE  /\ Resolved(resolutions)' = {}
           /\ \A n \in Names : Decision(n)' = Undecided /\ Constraints(n)' = {}
<1>1. Resolved(resolutions)' = {}
  BY DEF Resolved, NoResolutions, Range
<1>2. \A n \in Names : Decision(n)' = Undecided /\ Constraints(n)' = {}
  BY DEF Decision, Constraints, NoResolutions
<1> QED BY <1>1, <1>2

LEMMA ResolvedNames ==
    ASSUME IInv
    PROVE  Resolved(resolutions) \subseteq Names
<1>1. resolutions.list \in Seq(Names)
  BY DEF IInv, Good, Shaped
<1> QED BY <1>1 DEF Resolved, Range

LEMMA UndecidedOutside ==
    ASSUME IInv
    PROVE  \A n \in Names : Decision(n) # Undecided => n \in Resolved(resolutions)
BY DEF IInv, Good, Decision

LEMMA UndecidedHasNoDependencies == \A n : DependenciesOf(n, Undecided) = {}
BY DEF DependenciesOf, Undecided

LEMMA BestDecisionIsKinded ==
    ASSUME IsSystem(system), NEW n \in Names, NEW cs
    PROVE  Kinded(n, BestDecision(n, cs))
<1> DEFINE d == BestDecision(n, cs)
<1>1. /\ d # Undecided /\ d.kind \in {"nothing", "change", "nochange", "remove", "unable"}
      /\ d.taken = ~ AllUntaken(cs)
      /\ d.kind = "nothing" => ~ IsInstalled(n)
  BY BestDecisionKinds
<1>2. DependenciesOf(n, d) \subseteq Dependencies
  BY BestDecisionHolds
<1> HIDE DEF d
<1>3. d.taken \in BOOLEAN
  BY <1>1
<1>4. Kinded(n, d)
  BY <1>1, <1>2, <1>3 DEF Kinded
<1> QED BY <1>4 DEF d

LEMMA UnableIsKinded ==
    ASSUME NEW n, NEW cs
    PROVE  Kinded(n, Without("unable", cs)) /\ DependenciesOf(n, Without("unable", cs)) = {}
<1> DEFINE d == Without("unable", cs)
<1>1. d # Undecided /\ d.kind = "unable" /\ d.taken = ~ AllUntaken(cs)
  BY WithoutIsDecided
<1> HIDE DEF d
<1>2. DependenciesOf(n, d) = {}
  BY <1>1 DEF DependenciesOf
<1>3. Kinded(n, d)
  BY <1>1, <1>2 DEF Kinded
<1> QED BY <1>2, <1>3 DEF d

Broken == [kind |-> "break", taken |-> TRUE]

LEMMA BrokenIsKinded == \A n : Broken # Undecided /\ Broken.kind = "break" /\ Kinded(n, Broken) /\ DependenciesOf(n, Broken) = {}
BY DEF Broken, Kinded, DependenciesOf, Undecided

(* The kinds of what becomes of a decision.                                *)
LEMMA OutcomeIsKinded ==
    ASSUME IInv, AllKinded, NEW n \in Names, NEW c, NEW d, Outcome(n, c, d)
    PROVE  Kinded(n, d) /\ (Decision(n) # Undecided => d # Undecided)
<1>1. Kinded(n, Decision(n)) /\ IsSystem(system)
  BY DEF AllKinded, IInv
<1>2. BestDecision(n, Had(n) \cup {c}) # Undecided /\ Kinded(n, BestDecision(n, Had(n) \cup {c}))
  BY <1>1, BestDecisionKinds, BestDecisionIsKinded
<1>3. Without("unable", Had(n) \cup {c}) # Undecided /\ Kinded(n, Without("unable", Had(n) \cup {c}))
  BY WithoutIsDecided, UnableIsKinded
<1> QED BY <1>1, <1>2, <1>3 DEF Outcome

LEMMA ListedStep ==
    ASSUME IInv, Listed, initial' = initial,
           \/ resolutions' = resolutions
           \/ \E n \in Names : \E cs, d : Updated(n, cs, d) /\ Had(n) \subseteq cs /\ cs # {}
    PROVE  Listed'
<1>1. \A m : Given(m)' = Given(m)
  BY DEF Given
<1>2. CASE resolutions' = resolutions
  BY <1>1, <1>2, SameResolutions DEF Listed
<1>3. ASSUME NEW n \in Names, NEW cs, NEW d, Updated(n, cs, d), Had(n) \subseteq cs, cs # {}
      PROVE  Listed'
  <2>1. \A m \in Names : m \notin Resolved(resolutions)' => Constraints(m)' = {}
    BY <1>3 DEF Updated, Listed
  <2>2. Given(n) \subseteq cs
    BY <1>3 DEF Listed, Had
  <2>3. \A m \in Names : m \in Resolved(resolutions)' => Constraints(m)' # {} /\ Given(m)' \subseteq Constraints(m)'
    BY <1>1, <1>3, <2>2 DEF Updated, Listed
  <2> QED BY <2>1, <2>3 DEF Listed
<1> QED BY <1>2, <1>3

LEMMA ListedRestart ==
    ASSUME IInv, Listed, NEW n \in Names, NEW c, Restart(ApplyConstraint(resolutions, n, c))
    PROVE  Listed'
<1>1. /\ resolutions' = NoResolutions
      /\ DOMAIN initial' = DOMAIN initial \cup {n}
      /\ initial'[n] = (IF n \in DOMAIN initial THEN Had(n) \cup {c} ELSE {}) \cup {Preset(c)}
      /\ \A m \in DOMAIN initial \ {n} : m \in Names => initial'[m] = Had(m)
  BY RestartEffect
<1>2. Preset(c).reason = "preset"
  BY DEF Preset
<1>3. ASSUME NEW m \in DOMAIN initial' PROVE \E x \in initial'[m] : x.reason = "preset"
  <2>1. CASE m = n
    BY <1>1, <1>2, <2>1
  <2>2. CASE m # n
    <3>1. m \in DOMAIN initial \ {n} /\ m \in Names
      BY <1>1, <2>2 DEF Listed
    <3>2. initial[m] \subseteq Had(m)
      BY <3>1 DEF Had, Listed, Given
    <3> QED BY <1>1, <3>1, <3>2 DEF Listed
  <2> QED BY <2>1, <2>2
<1>4. DOMAIN initial' \subseteq Names
  BY <1>1 DEF Listed
<1> QED BY <1>1, <1>3, <1>4, NothingResolved DEF Listed

LEMMA KindedStep ==
    ASSUME AllKinded, system' = system,
           \/ resolutions' = resolutions
           \/ resolutions' = NoResolutions
           \/ \E n \in Names : \E cs, d : Updated(n, cs, d) /\ Kinded(n, d)
    PROVE  AllKinded'
<1>1. \A n, d : Kinded(n, d)' <=> Kinded(n, d)
  BY KindedIsFixed
<1>2. CASE resolutions' = resolutions
  BY <1>1, <1>2, SameResolutions DEF AllKinded
<1>3. CASE resolutions' = NoResolutions
  <2>1. \A n : Kinded(n, Undecided)
    BY DEF Kinded
  <2>2. \A n \in Names : Decision(n)' = Undecided
    BY <1>3, NothingResolved
  <2> SUFFICES ASSUME NEW n \in Names PROVE Kinded(n, Decision(n))'
    BY DEF AllKinded
  <2>3. PICK d : d = Decision(n)'
    OBVIOUS
  <2> QED BY <1>1, <2>1, <2>2, <2>3 DEF Kinded
<1>4. ASSUME NEW n \in Names, NEW cs, NEW d, Updated(n, cs, d), Kinded(n, d)
      PROVE  AllKinded'
  <2> SUFFICES ASSUME NEW m \in Names PROVE Kinded(m, Decision(m))'
    BY DEF AllKinded
  <2>1. PICK e : e = Decision(m)'
    OBVIOUS
  <2>2. Kinded(m, e)
    BY <1>4, <2>1 DEF Updated, AllKinded
  <2>3. Kinded(m, e)'
    BY <1>1, <2>2
  <2> QED BY <2>1, <2>3 DEF Kinded
<1> QED BY <1>2, <1>3, <1>4

Rest1 == Phases /\ DecidedUpon /\ Listed /\ AllKinded /\ AllAccounted

LEMMA ConstraintsGrow ==
    ASSUME Listed, NEW n \in Names, NEW cs, NEW d, Updated(n, cs, d), Had(n) \subseteq cs
    PROVE  \A m \in Names : Constraints(m) \subseteq Constraints(m)'
<1> SUFFICES ASSUME NEW m \in Names PROVE Constraints(m) \subseteq Constraints(m)'
  OBVIOUS
<1>1. CASE m # n
  BY <1>1 DEF Updated
<1>2. CASE m = n
  <2>1. Constraints(n) \subseteq Had(n)
    BY DEF Had, Listed
  <2> QED BY <1>2, <2>1 DEF Updated
<1> QED BY <1>1, <1>2

(* What has been taken into account stays so.                              *)
LEMMA AccountedStep ==
    ASSUME AllKinded, AllAccounted, system' = system,
           resolutions.fromNothing \subseteq resolutions'.fromNothing,
           \A m \in Names : Constraints(m) \subseteq Constraints(m)',
           \A m \in Names : \A dep : Decision(m)' = Decision(m) /\ StillToAdd(m, dep) =>
                                        StillToAdd(m, dep)' \/ IsAccounted(m, dep)',
           \A m \in Names \ resolutions'.fromNothing :
               \/ Decision(m)' = Decision(m)
               \/ \A dep \in DependenciesOf(m, Decision(m))' : StillToAdd(m, dep)'
    PROVE  AllAccounted'
<1> SUFFICES ASSUME NEW m \in Names \ resolutions'.fromNothing, NEW dep \in DependenciesOf(m, Decision(m))'
             PROVE  IsAccounted(m, dep)' \/ StillToAdd(m, dep)'
  BY DEF AllAccounted
<1>1. CASE Decision(m)' = Decision(m)
  <2>1. PICK e : e = Decision(m)
    OBVIOUS
  <2>2. DependenciesOf(m, Decision(m))' = DependenciesOf(m, e)
    <3>1. DependenciesOf(m, Decision(m))' = DependenciesOf(m, e)'
      BY <1>1, <2>1 DEF DependenciesOf
    <3> QED BY <3>1, SystemIsFixed
  <2>3. dep \in DependenciesOf(m, Decision(m))
    BY <2>1, <2>2
  <2>4. dep.on \in Names
    <3>1. dep \in Dependencies
      <4>1. Decision(m) # Undecided
        BY <2>3, UndecidedHasNoDependencies
      <4> QED BY <2>3, <4>1 DEF AllKinded, Kinded
    <3> QED BY <3>1 DEF Dependencies
  <2>5. IsAccounted(m, dep) \/ StillToAdd(m, dep)
    BY <2>3 DEF AllAccounted
  <2>6. CASE StillToAdd(m, dep)
    BY <1>1, <2>6
  <2>7. CASE IsAccounted(m, dep)
    <3>1. CASE InterestInSpec(dep, Decision(m)) = "ignore"
      <4>1. InterestInSpec(dep, e)' = "ignore"
        BY <2>1, <3>1, SystemIsFixed
      <4>2. InterestInSpec(dep, Decision(m))' = "ignore"
        BY <1>1, <2>1, <4>1 DEF InterestInSpec
      <4> QED BY <4>2 DEF IsAccounted
    <3>2. CASE \E c \in Constraints(dep.on) : c.from = {m} /\ c.accepts = dep.accepts
      <4>1. Constraints(dep.on) \subseteq Constraints(dep.on)'
        BY <2>4
      <4> QED BY <3>2, <4>1 DEF IsAccounted
    <3> QED BY <2>7, <3>1, <3>2 DEF IsAccounted
  <2> QED BY <2>5, <2>6, <2>7
<1>2. CASE \A x \in DependenciesOf(m, Decision(m))' : StillToAdd(m, x)'
  BY <1>2
<1> QED BY <1>1, <1>2

LEMMA SameRest ==
    ASSUME IInv, Rest1, system' = system, resolutions' = resolutions, initial' = initial,
           \A m \in Names : \A dep : StillToAdd(m, dep) => StillToAdd(m, dep)' \/ IsAccounted(m, dep)'
    PROVE  Listed' /\ AllKinded' /\ AllAccounted'
<1>1. Listed' /\ AllKinded'
  BY ListedStep, KindedStep DEF Rest1
<1>2. AllAccounted'
  <2>1. /\ resolutions.fromNothing \subseteq resolutions'.fromNothing
        /\ \A m \in Names : Constraints(m) \subseteq Constraints(m)' /\ Decision(m)' = Decision(m)
    BY SameResolutions
  <2> QED BY <2>1, AccountedStep DEF Rest1
<1> QED BY <1>1, <1>2

LEMMA AppliedParts ==
    ASSUME IInv, Rest1, system' = system, initial' = initial, NEW n \in Names, NEW c,
           resolutions' = ApplyConstraint(resolutions, n, c), ApplyConstraint(resolutions, n, c).restart = {}
    PROVE  /\ Listed' /\ AllKinded'
           /\ Resolved(resolutions)' = Resolved(resolutions) \cup {n}
           /\ resolutions.fromNothing \subseteq resolutions'.fromNothing
           /\ \A m \in Names : Constraints(m) \subseteq Constraints(m)'
           /\ c \in Constraints(n)'
           /\ \A m \in Names \ {n} : Decision(m)' = Decision(m) /\ Constraints(m)' = Constraints(m)
           /\ Decision(n) # Undecided => Decision(n)' # Undecided
           /\ Decision(n) = Undecided => Decision(n)' = Undecided
           /\ \/ Decision(n)' = Decision(n)
              \/ n \in resolutions'.fromNothing
              \/ DependenciesOf(n, Decision(n))' = {}
<1>1. PICK d : Updated(n, Had(n) \cup {c}, d) /\ Outcome(n, c, d)
  BY AppliedEffect
<1>2. Kinded(n, d) /\ (Decision(n) # Undecided => d # Undecided)
  BY <1>1, OutcomeIsKinded DEF Rest1
<1> DEFINE cs == Had(n) \cup {c}
<1>3. Updated(n, cs, d) /\ Had(n) \subseteq cs /\ cs # {} /\ c \in cs
  BY <1>1
<1> HIDE DEF cs
<1>4. Listed' /\ AllKinded'
  BY <1>2, <1>3, ListedStep, KindedStep DEF Rest1
<1>5. \A m \in Names : Constraints(m) \subseteq Constraints(m)'
  BY <1>3, ConstraintsGrow DEF Rest1
<1>6. Decision(n) = Undecided => d = Undecided
  BY <1>1 DEF Outcome, Undecided
<1>7. \/ d = Decision(n)
      \/ n \in resolutions'.fromNothing
      \/ DependenciesOf(n, d) = {}
  BY <1>1, UnableIsKinded DEF Outcome
<1>8. DependenciesOf(n, d) = {} => DependenciesOf(n, Decision(n))' = {}
  <2>1. DependenciesOf(n, Decision(n))' = DependenciesOf(n, d)'
    BY <1>1 DEF Updated, DependenciesOf
  <2> QED BY <2>1, SystemIsFixed
<1>9. /\ Resolved(resolutions)' = Resolved(resolutions) \cup {n}
      /\ resolutions.fromNothing \subseteq resolutions'.fromNothing
      /\ c \in Constraints(n)' /\ Decision(n)' = d
      /\ \A m \in Names \ {n} : Decision(m)' = Decision(m) /\ Constraints(m)' = Constraints(m)
  BY <1>3 DEF Updated
<1> QED BY <1>2, <1>4, <1>5, <1>6, <1>7, <1>8, <1>9

LEMMA AppliedAccounts ==
    ASSUME IInv, Rest1, system' = system, initial' = initial, NEW n \in Names, NEW c,
           resolutions' = ApplyConstraint(resolutions, n, c), ApplyConstraint(resolutions, n, c).restart = {},
           \A m \in Names : \A dep : Decision(m)' = Decision(m) /\ StillToAdd(m, dep) =>
                                        StillToAdd(m, dep)' \/ IsAccounted(m, dep)'
    PROVE  AllAccounted'
<1>1. /\ resolutions.fromNothing \subseteq resolutions'.fromNothing
      /\ \A m \in Names : Constraints(m) \subseteq Constraints(m)'
      /\ \A m \in Names \ {n} : Decision(m)' = Decision(m)
      /\ \/ Decision(n)' = Decision(n)
         \/ n \in resolutions'.fromNothing
         \/ DependenciesOf(n, Decision(n))' = {}
  BY AppliedParts
<1>2. ASSUME NEW m \in Names \ resolutions'.fromNothing
      PROVE  \/ Decision(m)' = Decision(m)
             \/ \A dep \in DependenciesOf(m, Decision(m))' : StillToAdd(m, dep)'
  BY <1>1
<1> QED BY <1>1, <1>2, AccountedStep DEF Rest1

(* A resolution that starts over.                                          *)
LEMMA RestartRest ==
    ASSUME IInv, Rest1, system' = system, NEW n \in Names, NEW c, Restart(ApplyConstraint(resolutions, n, c))
    PROVE  Rest1'
<1>1. /\ resolutions' = NoResolutions /\ adding' = NothingLeft /\ at' = 1 /\ changed' = FALSE
      /\ stage' \in {"targets", "given up"} /\ restarts' = restarts + 1
  BY RestartEffect
<1>2. Listed'
  BY ListedRestart DEF Rest1
<1>3. AllKinded'
  BY <1>1, KindedStep DEF Rest1
<1>4. Phases' /\ DecidedUpon'
  <2>1. restarts' \in Nat
    <3>1. restarts \in Nat
      BY DEF Rest1, Phases
    <3>2. restarts' = restarts + 1
      BY <1>1
    <3> QED BY <3>1, <3>2
  <2> QED BY <1>1, <2>1 DEF Phases, DecidedUpon, Later, Deciding
<1>5. AllAccounted'
  <2> SUFFICES ASSUME NEW m \in Names PROVE DependenciesOf(m, Decision(m))' = {}
    BY DEF AllAccounted
  <2>1. Decision(m)' = Undecided
    BY <1>1, NothingResolved
  <2> QED BY <2>1 DEF DependenciesOf, Undecided
<1> QED BY <1>2, <1>3, <1>4, <1>5 DEF Rest1

LEMMA AddTargetRest == IInv /\ Rest1 /\ AddTarget => Rest1'
<1> SUFFICES ASSUME IInv, Rest1, AddTarget PROVE Rest1'
  OBVIOUS
<1> DEFINE target == system.targets[at]
<1>1. /\ IsSystem(system) /\ system' = system /\ adding' = adding /\ initial' = initial
      /\ restarts' = restarts /\ changed' = changed
      /\ at \in Nat \ {0} /\ at <= Len(system.targets) /\ stage' = stage /\ stage = "targets"
      /\ ~ system.purge
  BY DEF IInv, AddTarget
<1>2. PICK n \in Names : n = target.on
  <2>1. system.targets \in Seq(Dependencies)
    BY <1>1 DEF IsSystem
  <2>2. target \in Dependencies
    BY <1>1, <2>1
  <2> QED BY <2>2 DEF Dependencies
<1>3. PICK c : c = FromTarget(target)
  OBVIOUS
<1>4. resolutions' = ApplyConstraint(resolutions, n, c) \/ resolutions' = resolutions
  BY <1>2, <1>3 DEF AddTarget
<1>5. ApplyConstraint(resolutions, n, c).restart = {}
  <2>1. Good(resolutions) /\ resolutions.decision[n] = Undecided
    BY <1>1 DEF IInv
  <2> QED BY <2>1, AppliedIsInTheList
<1>6. \A m, dep : StillToAdd(m, dep)' <=> StillToAdd(m, dep)
  BY <1>1 DEF StillToAdd
<1>7. Listed' /\ AllKinded' /\ AllAccounted'
  <2>1. CASE resolutions' = resolutions
    BY <1>1, <1>6, <2>1, SameRest
  <2>2. CASE resolutions' = ApplyConstraint(resolutions, n, c)
    BY <1>1, <1>5, <1>6, <2>2, AppliedParts, AppliedAccounts
  <2> QED BY <1>4, <2>1, <2>2
<1>8. Phases'
  <2>1. adding = NothingLeft
    BY <1>1 DEF Rest1, Phases, Deciding
  <2> QED BY <1>1, <2>1 DEF Rest1, Phases, Deciding, Later
<1>9. DecidedUpon'
  BY <1>1 DEF DecidedUpon
<1> QED BY <1>7, <1>8, <1>9 DEF Rest1

(* What a pass has left undecided is for the next.                         *)
LEMMA EndPassDecides ==
    ASSUME IInv, Rest1, EndPass, stage' = "dependents"
    PROVE  \A n \in Resolved(resolutions) : Decision(n) # Undecided
<1>1. stage = "suggestions" /\ ~ changed
  <2>1. stage \in {"non_suggestions", "nothings", "suggestions"}
    BY DEF EndPass, Deciding
  <2>2. stage' = IF changed THEN stage ELSE NextPass[stage]
    BY DEF EndPass
  <2> QED BY <2>1, <2>2 DEF NextPass
<1>2. at = 1 /\ ToDecide = {}
  BY <1>1 DEF Rest1, Phases, Deciding, EndPass
<1> SUFFICES ASSUME NEW n \in Resolved(resolutions), Decision(n) = Undecided PROVE FALSE
  OBVIOUS
<1>3. resolutions.list \in Seq(Names)
  BY DEF IInv, Good, Shaped
<1>4. PICK i \in 1..Len(resolutions.list) : resolutions.list[i] = n
  BY <1>3 DEF Resolved, Range
<1>5. DecidedIn(resolutions.list[i], stage)
  BY <1>1, <1>4 DEF DecidedIn, Decision
<1> QED BY <1>2, <1>4, <1>5 DEF ToDecide

LEMMA EndPassRest == IInv /\ Rest1 /\ EndPass => Rest1'
<1> SUFFICES ASSUME IInv, Rest1, EndPass PROVE Rest1'
  OBVIOUS
<1>1. /\ system' = system /\ resolutions' = resolutions /\ initial' = initial /\ restarts' = restarts
      /\ adding = NothingLeft /\ adding' = adding /\ at' = 1 /\ changed' = FALSE
      /\ stage \in {"non_suggestions", "nothings", "suggestions"}
      /\ stage' = IF changed THEN stage ELSE NextPass[stage]
  BY DEF EndPass, Deciding
<1>2. stage' \in {"non_suggestions", "nothings", "suggestions", "dependents"}
  BY <1>1 DEF NextPass
<1>3. Listed' /\ AllKinded' /\ AllAccounted'
  <2>1. \A m, dep : StillToAdd(m, dep)' <=> StillToAdd(m, dep)
    BY <1>1 DEF StillToAdd
  <2> QED BY <1>1, <2>1, SameRest
<1>4. Phases'
  BY <1>1, <1>2 DEF Rest1, Phases, Deciding, Later
<1>5. DecidedUpon'
  <2>1. stage' = "dependents" => \A n \in Resolved(resolutions) : Decision(n) # Undecided
    BY EndPassDecides
  <2> QED BY <1>1, <1>2, <2>1, SameResolutions DEF DecidedUpon
<1> QED BY <1>3, <1>4, <1>5 DEF Rest1

LEMMA FindingRest ==
    IInv /\ Rest1 /\ (TargetsAdded \/ Purge \/ FindDependents \/ DependentsResolved \/ FindPurges \/ PurgesResolved) => Rest1'
<1> SUFFICES ASSUME IInv, Rest1,
                    TargetsAdded \/ Purge \/ FindDependents \/ DependentsResolved \/ FindPurges \/ PurgesResolved
             PROVE  Rest1'
  OBVIOUS
<1>1. /\ system' = system /\ resolutions' = resolutions /\ initial' = initial /\ restarts' = restarts
      /\ adding' = adding
  BY DEF TargetsAdded, Purge, FindDependents, DependentsResolved, FindPurges, PurgesResolved
<1>2. adding = NothingLeft
  <2>1. CASE DependentsResolved
    BY <2>1 DEF DependentsResolved
  <2>2. CASE TargetsAdded \/ Purge \/ FindDependents \/ FindPurges \/ PurgesResolved
    <3>1. stage \in {"targets", "dependents", "purges", "purges found", "purging all"}
      BY <2>2 DEF TargetsAdded, Purge, FindDependents, FindPurges, PurgesResolved
    <3> QED BY <3>1 DEF Rest1, Phases, Deciding
  <2> QED BY <2>1, <2>2
<1>3. Listed' /\ AllKinded' /\ AllAccounted'
  <2>1. \A m, dep : StillToAdd(m, dep)' <=> StillToAdd(m, dep)
    BY <1>1 DEF StillToAdd
  <2> QED BY <1>1, <2>1, SameRest
<1>4. NothingLeft.of = "nothing"
  BY DEF NothingLeft
<1>5. \/ stage' = "non_suggestions" /\ at' = 1
      \/ stage = "targets" /\ stage' = "purging all" /\ at' = at /\ at = 1 /\ changed' = changed
      \/ /\ at' = at /\ at = 1 /\ changed' = FALSE /\ stage' \in {"dependents found", "purges", "purges found", "done"}
         /\ \A n \in Resolved(resolutions) : Decision(n) # Undecided
  <2>1. CASE TargetsAdded
    BY <2>1 DEF TargetsAdded
  <2>2. CASE Purge
    BY <2>2 DEF Purge, Rest1, Phases
  <2>3. CASE FindDependents \/ FindPurges
    BY <2>3 DEF FindDependents, FindPurges, Rest1, Phases, DecidedUpon, Later
  <2>4. CASE DependentsResolved
    <3>1. stage = "dependents found" /\ at' = at /\ at = 1 /\ changed' = FALSE
      BY <2>4 DEF DependentsResolved, Rest1, Phases, Later
    <3>2. CASE changed
      BY <2>4, <3>1, <3>2 DEF DependentsResolved
    <3>3. CASE ~ changed
      <4>1. \A n \in Resolved(resolutions) : Decision(n) # Undecided
        BY <1>2, <1>4, <3>1, <3>3 DEF Rest1, DecidedUpon
      <4> QED BY <2>4, <3>1, <3>3, <4>1 DEF DependentsResolved
    <3> QED BY <3>2, <3>3
  <2>5. CASE PurgesResolved
    <3>1. stage \in {"purges found", "purging all"} /\ at' = at /\ at = 1 /\ changed' = FALSE
      BY <2>5 DEF PurgesResolved, Rest1, Phases, Later
    <3>2. CASE changed \/ stage = "purging all"
      BY <2>5, <3>1, <3>2 DEF PurgesResolved
    <3>3. CASE ~ (changed \/ stage = "purging all")
      <4>1. \A n \in Resolved(resolutions) : Decision(n) # Undecided
        BY <3>1, <3>3 DEF Rest1, DecidedUpon
      <4> QED BY <2>5, <3>1, <3>3, <4>1 DEF PurgesResolved
    <3> QED BY <3>2, <3>3
  <2> QED BY <2>1, <2>2, <2>3, <2>4, <2>5
<1>6. changed' \in BOOLEAN /\ restarts \in Nat
  BY DEF TargetsAdded, Purge, FindDependents, DependentsResolved, FindPurges, PurgesResolved, Rest1, Phases
<1>7. Phases'
  BY <1>1, <1>2, <1>5, <1>6 DEF Phases, Deciding, Later
<1>8. DecidedUpon'
  BY <1>1, <1>5, SameResolutions DEF DecidedUpon
<1> QED BY <1>3, <1>7, <1>8 DEF Rest1

LEMMA LeftMeans ==
    ASSUME NEW kind, NEW n, NEW left
    PROVE  /\ left = {} => Left(kind, n, left) = NothingLeft
           /\ left # {} => Left(kind, n, left) = [of |-> kind, name |-> n, left |-> left]
           /\ Left(kind, n, left) = NothingLeft \/ (/\ Left(kind, n, left).of = kind
                                                    /\ Left(kind, n, left).name = n
                                                    /\ Left(kind, n, left).left = left)
           /\ NothingLeft.of = "nothing"
BY DEF Left, NothingLeft

LEMMA DecideNextRest == IInv /\ Rest1 /\ DecideNext => Rest1'
<1> SUFFICES ASSUME IInv, Rest1, DecideNext PROVE Rest1'
  OBVIOUS
<1>1. /\ system' = system /\ initial' = initial /\ restarts' = restarts /\ stage' = stage
      /\ changed' = TRUE /\ Deciding /\ adding = NothingLeft /\ IsSystem(system)
  BY DEF DecideNext, IInv
<1>2. PICK n \in Resolved(resolutions) :
         /\ n \in Names /\ Decision(n) = Undecided
         /\ Updated(n, Constraints(n), BestDecision(n, Constraints(n)))
         /\ adding' = Left("dependencies", n, DependenciesOf(n, BestDecision(n, Constraints(n))))
  BY DecideEffect
<1>3. PICK cs, d : cs = Constraints(n) /\ d = BestDecision(n, Constraints(n))
  OBVIOUS
<1>4. Updated(n, cs, d) /\ Had(n) = cs /\ cs # {}
  <2>1. Constraints(n) # {}
    BY <1>2 DEF Rest1, Listed
  <2> QED BY <1>2, <1>3, <2>1 DEF Had
<1>5. Kinded(n, d)
  BY <1>1, <1>2, <1>3, BestDecisionIsKinded
<1>6. Listed' /\ AllKinded'
  BY <1>1, <1>2, <1>4, <1>5, ListedStep, KindedStep DEF Rest1
<1>7. AllAccounted'
  <2>1. resolutions.fromNothing \subseteq resolutions'.fromNothing
    BY <1>4 DEF Updated
  <2>2. \A m \in Names : Constraints(m) \subseteq Constraints(m)'
    BY <1>2, <1>4, ConstraintsGrow DEF Rest1
  <2>3. \A m, dep : ~ StillToAdd(m, dep)
    BY <1>1 DEF StillToAdd, NothingLeft
  <2>4. \A m \in Names \ {n} : Decision(m)' = Decision(m)
    BY <1>4 DEF Updated
  <2>5. \A dep \in DependenciesOf(n, Decision(n))' : StillToAdd(n, dep)'
    <3>1. DependenciesOf(n, Decision(n))' = DependenciesOf(n, d)'
      BY <1>4 DEF Updated, DependenciesOf
    <3>2. DependenciesOf(n, d)' = DependenciesOf(n, d)
      BY <1>1, SystemIsFixed
    <3> SUFFICES ASSUME NEW dep \in DependenciesOf(n, d) PROVE StillToAdd(n, dep)'
      BY <3>1, <3>2
    <3>3. adding' = [of |-> "dependencies", name |-> n, left |-> DependenciesOf(n, d)]
      BY <1>2, <1>3, LeftMeans
    <3> QED BY <3>3 DEF StillToAdd
  <2> QED BY <1>1, <2>1, <2>2, <2>3, <2>4, <2>5, AccountedStep DEF Rest1
<1>8. Phases'
  <2>1. adding' = NothingLeft \/ adding'.of = "dependencies"
    BY <1>2, LeftMeans
  <2>2. stage \in {"non_suggestions", "nothings", "suggestions"}
    BY <1>1 DEF Deciding
  <2>3. restarts \in Nat
    BY DEF Rest1, Phases
  <2> QED BY <1>1, <2>1, <2>2, <2>3 DEF Phases, Deciding, Later
<1>9. DecidedUpon'
  <2>1. stage' \in {"non_suggestions", "nothings", "suggestions"}
    BY <1>1 DEF Deciding
  <2> QED BY <2>1 DEF DecidedUpon
<1> QED BY <1>6, <1>7, <1>8, <1>9 DEF Rest1

LEMMA FromDependencyMeans ==
    ASSUME NEW dep, NEW n, NEW interest
    PROVE  LET c == FromDependency(dep, n, interest)
           IN  c.from = {n} /\ c.accepts = dep.accepts /\ c.reason = "dependency"
BY DEF FromDependency, FromBlocker, FromSpec

LEMMA AddDependencyRest == ASSUME IInv, Rest1, NEW dep, AddDependency(dep) PROVE Rest1'
<1> DEFINE r == WithDependency(resolutions, adding.name, dep)
<1>1. /\ IsSystem(system) /\ system' = system /\ adding.of = "dependencies" /\ dep \in adding.left
      /\ adding.name \in Names /\ dep \in Dependencies
  BY DEF IInv, AddDependency, Adds
<1>2. PICK n \in Names, m \in Names, left \in {adding.left} : n = adding.name /\ m = dep.on /\ left = adding.left
  BY <1>1 DEF Dependencies
<1>3. PICK interest : interest = InterestInSpec(dep, resolutions.decision[n])
  OBVIOUS
<1>4. PICK c : c = FromDependency(dep, n, interest)
  OBVIOUS
<1>5. r = IF interest = "ignore" THEN resolutions ELSE ApplyConstraint(resolutions, m, c)
  BY <1>2, <1>3, <1>4 DEF WithDependency
<1>6. \/ Restart(r)
      \/ /\ r.restart = {} /\ resolutions' = r
         /\ adding' = Left("dependencies", n, left \ {dep})
         /\ stage' = stage /\ at' = at /\ changed' = changed /\ initial' = initial /\ restarts' = restarts
  BY <1>2 DEF AddDependency
<1> HIDE DEF r
<1>7. CASE Restart(r)
  <2>1. r.restart # {}
    BY <1>7 DEF Restart
  <2>2. resolutions.restart = {}
    BY DEF IInv, Good
  <2>3. r = ApplyConstraint(resolutions, m, c)
    BY <1>5, <2>1, <2>2
  <2>4. Restart(ApplyConstraint(resolutions, m, c))
    BY <1>7, <2>3
  <2> QED BY <1>1, <2>4, RestartRest
<1>8. CASE /\ r.restart = {} /\ resolutions' = r
           /\ adding' = Left("dependencies", n, left \ {dep})
           /\ stage' = stage /\ at' = at /\ changed' = changed /\ initial' = initial /\ restarts' = restarts
  <2>1. \A k, x : StillToAdd(k, x) <=> k = n /\ x \in left
    BY <1>1, <1>2 DEF StillToAdd
  <2>2. \A k, x : StillToAdd(k, x) => StillToAdd(k, x)' \/ (k = n /\ x = dep)
    <3> SUFFICES ASSUME NEW x \in left, x # dep PROVE StillToAdd(n, x)'
      BY <2>1
    <3>1. adding' = [of |-> "dependencies", name |-> n, left |-> left \ {dep}]
      BY <1>8, LeftMeans
    <3> QED BY <3>1 DEF StillToAdd
  <2>3. Listed' /\ AllKinded' /\ AllAccounted' /\ Resolved(resolutions)' \in {Resolved(resolutions), Resolved(resolutions) \cup {m}}
    <3>1. CASE interest = "ignore"
      <4>1. resolutions' = resolutions
        BY <1>5, <1>8, <3>1
      <4>2. IsAccounted(n, dep)'
        <5>1. InterestInSpec(dep, resolutions.decision[n]) = "ignore"
          BY <1>3, <3>1
        <5>2. InterestInSpec(dep, Decision(n))' = InterestInSpec(dep, resolutions.decision[n])
          BY <1>1, <4>1 DEF InterestInSpec, Decision, IsInstalled
        <5> QED BY <5>1, <5>2 DEF IsAccounted
      <4> QED BY <1>1, <1>8, <2>2, <4>1, <4>2, SameRest, SameResolutions
    <3>2. CASE interest # "ignore"
      <4>1. resolutions' = ApplyConstraint(resolutions, m, c) /\ ApplyConstraint(resolutions, m, c).restart = {}
        BY <1>5, <1>8, <3>2
      <4>2. /\ Listed' /\ AllKinded' /\ c \in Constraints(m)'
            /\ Resolved(resolutions)' = Resolved(resolutions) \cup {m}
        BY <1>1, <1>8, <4>1, AppliedParts
      <4>3. IsAccounted(n, dep)'
        <5>1. c.from = {n} /\ c.accepts = dep.accepts
          BY <1>4, FromDependencyMeans
        <5>2. c \in Constraints(dep.on)'
          BY <1>2, <4>2 DEF Constraints
        <5> QED BY <5>1, <5>2 DEF IsAccounted
      <4>4. AllAccounted'
        BY <1>1, <1>8, <2>2, <4>1, <4>3, AppliedAccounts
      <4> QED BY <4>2, <4>4
    <3> QED BY <3>1, <3>2
  <2>4. Deciding
    <3>1. adding = NothingLeft \/ (adding.of = "dependencies" /\ Deciding) \/ adding.of = "dependent"
      BY DEF Rest1, Phases
    <3>2. NothingLeft.of = "nothing"
      BY DEF NothingLeft
    <3> QED BY <1>1, <3>1, <3>2
  <2>5. Phases'
    <3>1. adding' = NothingLeft \/ adding'.of = "dependencies"
      BY <1>8, LeftMeans
    <3> QED BY <1>1, <1>8, <2>4, <3>1 DEF Rest1, Phases, Deciding, Later
  <2>6. DecidedUpon'
    BY <1>8, <2>4 DEF DecidedUpon, Deciding
  <2> QED BY <2>3, <2>5, <2>6 DEF Rest1
<1> QED BY <1>6, <1>7, <1>8

LEMMA ResolveDependentRest == ASSUME IInv, Rest1, NEW id \in Installed, ResolveDependent(id) PROVE Rest1'
<1>1. PICK n \in Names : n = id.name
  BY InstalledNames
<1>2. /\ system' = system /\ resolutions' = resolutions /\ initial' = initial /\ restarts' = restarts
      /\ at' = at /\ stage' = stage /\ stage = "dependents found" /\ adding = NothingLeft
      /\ changed' = (changed \/ (n \in system.removeIfDependent /\ n \notin Resolved(resolutions)))
      /\ adding' = Left("dependent", n, DependentUpon(id, changing.away, changing.new))
  BY <1>1 DEF ResolveDependent
<1>3. \A m, dep : ~ StillToAdd(m, dep)
  BY <1>2 DEF StillToAdd, NothingLeft
<1>4. Listed' /\ AllKinded' /\ AllAccounted'
  BY <1>2, <1>3, SameRest
<1>5. adding' = NothingLeft \/ (adding'.of = "dependent" /\ adding'.name = n)
  BY <1>2, LeftMeans
<1>6. changed \in BOOLEAN /\ restarts \in Nat /\ at = 1
  BY <1>2 DEF Rest1, Phases, Later
<1>7. Phases'
  <2>1. changed' \in BOOLEAN
    BY <1>2, <1>6
  <2>2. adding'.of = "dependent" /\ adding'.name \in system'.removeIfDependent => changed' \/ adding'.name \in Resolved(resolutions)'
    BY <1>2, <1>5, SameResolutions, LeftMeans
  <2> QED BY <1>2, <1>5, <1>6, <2>1, <2>2 DEF Phases, Later, Deciding
<1>8. DecidedUpon'
  <2>1. ~ changed' => \A m \in Resolved(resolutions) : Decision(m) # Undecided
    <3>1. NothingLeft.of # "dependent"
      BY DEF NothingLeft
    <3> QED BY <1>2, <3>1 DEF Rest1, DecidedUpon
  <2> QED BY <1>2, <2>1, SameResolutions DEF DecidedUpon
<1> QED BY <1>4, <1>7, <1>8 DEF Rest1

(* What a dependent n comes to, for one of its reasons.                    *)
AddsDependent(away, n, c) ==
    /\ n = adding.name /\ c = FromDependent(n, {away.name}) /\ system' = system
    /\ adding.of = "dependent" /\ away \in adding.left
    /\ \/ Restart(ApplyConstraint(resolutions, n, c))
       \/ /\ stage' = stage /\ at' = at /\ pending' = pending /\ changing' = changing
          /\ initial' = initial /\ restarts' = restarts
          /\ adding' = Left("dependent", n, adding.left \ {away})
          /\ ApplyConstraint(resolutions, n, c).restart = {}
          /\ \/ /\ resolutions' = ApplyConstraint(resolutions, n, c)
                /\ \/ changed' = TRUE /\ Decision(n)' = Undecided
                   \/ changed' = changed /\ Decision(n)' # Undecided
                   \/ changed' = changed /\ adding.left # {away}
                   \/ changed' = changed /\ n \in system.removeIfDependent
             \/ /\ Decision(n) = Undecided /\ changed' = changed
                /\ ApplyConstraint(resolutions, n, c).decision[n] = Undecided
                /\ resolutions' = [ApplyConstraint(resolutions, n, c) EXCEPT !.decision[n] = Broken]
                /\ Updated(n, Had(n) \cup {c}, Broken)

LEMMA AddDependentMeans ==
    ASSUME IInv, Phases, NEW away, AddDependent(away)
    PROVE  \E n \in Names : \E c : AddsDependent(away, n, c)
<1> USE DEF AddsDependent
<1>1. system' = system /\ adding.of = "dependent" /\ away \in adding.left
  BY DEF AddDependent
<1>2. PICK n \in Names : n = adding.name
  BY <1>1 DEF IInv, Adds
<1>3. PICK c : c = FromDependent(n, {away.name})
  OBVIOUS
<1> DEFINE r == ApplyConstraint(resolutions, n, c)
           open == adding.left = {away} /\ n \notin system.removeIfDependent /\ r.decision[n] = Undecided
           found == TryToFindDecision(n, r.constraints[n], FALSE, FALSE)
<1>4. \/ Restart(r)
      \/ /\ r.restart = {}
         /\ resolutions' = IF open /\ found = {} THEN [r EXCEPT !.decision[n] = Broken] ELSE r
         /\ changed' = (changed \/ (open /\ found # {}))
         /\ adding' = Left("dependent", n, adding.left \ {away})
         /\ stage' = stage /\ at' = at /\ pending' = pending /\ changing' = changing
         /\ initial' = initial /\ restarts' = restarts
  BY <1>2, <1>3 DEF AddDependent, Broken
<1>5. CASE Restart(r)
  BY <1>1, <1>2, <1>3, <1>5
<1>6. CASE /\ r.restart = {}
           /\ resolutions' = IF open /\ found = {} THEN [r EXCEPT !.decision[n] = Broken] ELSE r
           /\ changed' = (changed \/ (open /\ found # {}))
           /\ adding' = Left("dependent", n, adding.left \ {away})
           /\ stage' = stage /\ at' = at /\ pending' = pending /\ changing' = changing
           /\ initial' = initial /\ restarts' = restarts
  <2>1. CASE open /\ found = {}
    <3>1. resolutions' = [r EXCEPT !.decision[n] = Broken] /\ r.decision[n] = Undecided
      BY <1>6, <2>1
    <3>2. Decision(n) = Undecided /\ Updated(n, Had(n) \cup {c}, Broken)
      BY <1>6, <3>1, BreakEffect
    <3>3. changed' = changed
      <4>1. changed' = (changed \/ FALSE)
        BY <1>6, <2>1
      <4>2. changed \in BOOLEAN
        BY DEF Phases
      <4> QED BY <4>1, <4>2
    <3> HIDE DEF r, open, found
    <3>4. /\ resolutions' = [r EXCEPT !.decision[n] = Broken] /\ r.decision[n] = Undecided /\ r.restart = {}
      BY <1>6, <3>1
    <3> QED BY <1>1, <1>2, <1>3, <1>6, <3>2, <3>3, <3>4 DEF r
  <2>2. CASE open /\ found # {}
    <3>1. changed' = TRUE /\ resolutions' = r /\ r.decision[n] = Undecided
      BY <1>6, <2>2
    <3>3. Decision(n)' = Undecided
      BY <3>1 DEF Decision
    <3> HIDE DEF r, open, found
    <3>2. r.restart = {} /\ resolutions' = r
      BY <1>6, <3>1
    <3> QED BY <1>1, <1>2, <1>3, <1>6, <3>1, <3>2, <3>3 DEF r
  <2>3. CASE ~ open
    <3>1. resolutions' = r /\ changed' = (changed \/ FALSE)
      BY <1>6, <2>3
    <3>2. \/ Decision(n)' # Undecided
          \/ adding.left # {away}
          \/ n \in system.removeIfDependent
      BY <2>3, <3>1 DEF Decision
    <3> HIDE DEF r, open, found
    <3>3. r.restart = {} /\ resolutions' = r
      BY <1>6, <3>1
    <3>4. changed' = changed
      <4>1. changed \in BOOLEAN
        BY DEF Phases
      <4> QED BY <3>1, <4>1
    <3> QED BY <1>1, <1>2, <1>3, <1>6, <3>2, <3>3, <3>4 DEF r
  <2> QED BY <2>1, <2>2, <2>3
<1> QED BY <1>4, <1>5, <1>6

LEMMA AddDependentRest == ASSUME IInv, Rest1, NEW away, AddDependent(away) PROVE Rest1'
<1>4. PICK n \in Names : \E c : AddsDependent(away, n, c)
  BY AddDependentMeans DEF Rest1
<1>1. PICK c : AddsDependent(away, n, c)
  BY <1>4
<1> USE DEF AddsDependent
<1>2. CASE Restart(ApplyConstraint(resolutions, n, c))
  BY <1>1, <1>2, RestartRest
<1>3. CASE ~ Restart(ApplyConstraint(resolutions, n, c))
  <2>1. \A m, dep : ~ StillToAdd(m, dep)
    BY <1>1 DEF StillToAdd
  <2>2. stage = "dependents found"
    <3>1. adding = NothingLeft \/ adding.of = "dependencies" \/ stage = "dependents found"
      BY DEF Rest1, Phases
    <3>2. NothingLeft.of = "nothing"
      BY DEF NothingLeft
    <3> QED BY <1>1, <3>1, <3>2
  <2>3. /\ stage' = "dependents found" /\ at' = at /\ initial' = initial /\ restarts' = restarts
        /\ adding' = Left("dependent", n, adding.left \ {away})
    BY <1>1, <1>3, <2>2
  <2>4. changed \in BOOLEAN /\ restarts \in Nat /\ at = 1
    BY <2>2 DEF Rest1, Phases, Later
  <2>5. /\ Listed' /\ AllKinded' /\ AllAccounted'
        /\ Resolved(resolutions)' = Resolved(resolutions) \cup {n}
        /\ \A m \in Names \ {n} : Decision(m)' = Decision(m)
        /\ Decision(n) # Undecided => Decision(n)' # Undecided
        /\ changed' \in BOOLEAN /\ (changed => changed')
        /\ \/ changed'
           \/ Decision(n)' # Undecided
           \/ adding.left # {away}
           \/ n \in system.removeIfDependent
    <3>1. CASE /\ ApplyConstraint(resolutions, n, c).restart = {}
               /\ resolutions' = ApplyConstraint(resolutions, n, c)
               /\ \/ changed' = TRUE /\ Decision(n)' = Undecided
                  \/ changed' = changed /\ Decision(n)' # Undecided
                  \/ changed' = changed /\ adding.left # {away}
                  \/ changed' = changed /\ n \in system.removeIfDependent
      <4>1. /\ Listed' /\ AllKinded'
            /\ Resolved(resolutions)' = Resolved(resolutions) \cup {n}
            /\ \A m \in Names \ {n} : Decision(m)' = Decision(m)
            /\ Decision(n) # Undecided => Decision(n)' # Undecided
        BY <1>1, <2>3, <3>1, AppliedParts
      <4>2. AllAccounted'
        BY <1>1, <2>1, <2>3, <3>1, AppliedAccounts
      <4>3. changed' \in BOOLEAN /\ (changed => changed')
        BY <2>4, <3>1
      <4> QED BY <3>1, <4>1, <4>2, <4>3
    <3>2. CASE Updated(n, Had(n) \cup {c}, Broken) /\ changed' = changed
      <4>1. PICK cs : cs = Had(n) \cup {c} /\ cs # {} /\ Had(n) \subseteq cs
        OBVIOUS
      <4>2. Updated(n, cs, Broken)
        BY <3>2, <4>1
      <4>3. Listed' /\ AllKinded'
        BY <1>1, <2>3, <4>1, <4>2, ListedStep, KindedStep, BrokenIsKinded DEF Rest1
      <4>4. AllAccounted'
        <5>1. resolutions.fromNothing \subseteq resolutions'.fromNothing
          BY <4>2 DEF Updated
        <5>2. \A m \in Names : Constraints(m) \subseteq Constraints(m)'
          BY <4>1, <4>2, ConstraintsGrow DEF Rest1
        <5>3. \A m \in Names \ {n} : Decision(m)' = Decision(m)
          BY <4>2 DEF Updated
        <5>4. DependenciesOf(n, Decision(n))' = {}
          <6>1. DependenciesOf(n, Decision(n))' = DependenciesOf(n, Broken)'
            BY <4>2 DEF Updated, DependenciesOf
          <6> QED BY <1>1, <6>1, SystemIsFixed, BrokenIsKinded
        <5> QED BY <1>1, <2>1, <5>1, <5>2, <5>3, <5>4, AccountedStep DEF Rest1
      <4>5. /\ Resolved(resolutions)' = Resolved(resolutions) \cup {n}
            /\ \A m \in Names \ {n} : Decision(m)' = Decision(m)
            /\ Decision(n)' # Undecided
        BY <4>2, BrokenIsKinded DEF Updated
      <4> QED BY <2>4, <3>2, <4>3, <4>4, <4>5
    <3> QED BY <1>1, <1>3, <3>1, <3>2
  <2>6. adding' = NothingLeft \/ (adding'.of = "dependent" /\ adding'.name = n)
    BY <2>3, LeftMeans
  <2>7. Phases'
    <3>1. adding'.of = "dependent" => adding'.name \in Resolved(resolutions)'
      BY <2>5, <2>6, LeftMeans
    <3> QED BY <2>3, <2>4, <2>5, <2>6, <3>1 DEF Phases, Later, Deciding
  <2>8. DecidedUpon'
    <3> SUFFICES ASSUME ~ changed', NEW m \in Resolved(resolutions)', Decision(m)' = Undecided
                 PROVE  adding'.of = "dependent" /\ adding'.name = m /\ m \notin system'.removeIfDependent
      BY <2>3 DEF DecidedUpon
    <3>1. ~ changed
      BY <2>5
    <3>2. \A k \in Resolved(resolutions) : Decision(k) # Undecided \/ (n = k /\ k \notin system.removeIfDependent)
      BY <1>1, <2>2, <3>1 DEF Rest1, DecidedUpon
    <3>3. Resolved(resolutions) \subseteq Names
      BY ResolvedNames
    <3>4. m = n
      BY <2>5, <3>2, <3>3
    <3>5. Decision(n)' = Undecided
      BY <3>4 DEF Decision
    <3>6. Decision(n) = Undecided
      BY <2>5, <3>5
    <3>7. n \notin system.removeIfDependent
      <4>1. n \in system.removeIfDependent => n \in Resolved(resolutions)
        <5>1. \/ adding = NothingLeft
              \/ adding.of = "dependencies"
              \/ adding.name \in system.removeIfDependent => changed \/ adding.name \in Resolved(resolutions)
          BY DEF Rest1, Phases
        <5>2. NothingLeft.of = "nothing"
          BY DEF NothingLeft
        <5> QED BY <1>1, <3>1, <5>1, <5>2
      <4> QED BY <3>2, <3>6, <4>1
    <3>8. adding.left # {away}
      BY <2>5, <3>5, <3>7
    <3>9. adding.left \ {away} # {}
      BY <1>1, <3>8
    <3>10. adding' = [of |-> "dependent", name |-> n, left |-> adding.left \ {away}]
      BY <2>3, <3>9, LeftMeans
    <3> QED BY <1>1, <3>4, <3>7, <3>10
  <2> QED BY <2>5, <2>7, <2>8 DEF Rest1
<1> QED BY <1>2, <1>3

(* What nothing may be installed for, is not to be installed.              *)
LEMMA NothingAccepted ==
    ASSUME IsSystem(system), NEW n \in Names, NEW cs, NEW c \in cs, c.accepts = {}
    PROVE  /\ BestDecision(n, cs).kind \in {"nothing", "remove", "unable"}
           /\ DependenciesOf(n, BestDecision(n, cs)) = {}
<1> DEFINE d == BestDecision(n, cs)
<1>1. d # Undecided /\ d.kind \in {"nothing", "change", "nochange", "remove", "unable"}
  BY BestDecisionKinds
<1>2. MeetsAll(d, cs)
  BY <1>1, BestDecisionHolds DEF Holds
<1> HIDE DEF d
<1>3. CheckConstraint(c, d)
  BY <1>2 DEF MeetsAll
<1>4. d.kind \notin {"change", "nochange"}
  BY <1>3 DEF CheckConstraint
<1>5. DependenciesOf(n, d) = {}
  BY <1>4 DEF DependenciesOf
<1> QED BY <1>1, <1>4, <1>5 DEF d

LEMMA FromPurgeMeans ==
    ASSUME NEW n, NEW from
    PROVE  LET c == FromPurge(n, from)
           IN  /\ c.from = from /\ c.accepts = {} /\ c.reason = "was_used_by"
               /\ c.nothing_is_fine_too /\ ~ c.force_unable
BY DEF FromPurge, FromBlocker

LEMMA FromDependentMeans ==
    ASSUME NEW n, NEW from
    PROVE  LET c == FromDependent(n, from)
           IN  /\ c.from = from /\ c.reason = "dependent"
               /\ c.nothing_is_fine_too /\ ~ c.force_unable /\ ~ c.untaken
               /\ c.accepts = {} \/ c.not_installed
BY DEF FromDependent, FromBlocker

LEMMA ResolvePurgeRest == ASSUME IInv, Rest1, NEW id \in Installed, ResolvePurge(id) PROVE Rest1'
<1>1. PICK n \in Names : n = id.name
  BY InstalledNames
<1>2. /\ system' = system /\ initial' = initial /\ restarts' = restarts /\ adding' = adding
      /\ at' = at /\ stage' = stage /\ stage \in {"purges found", "purging all"} /\ IsSystem(system)
  BY DEF ResolvePurge, IInv
<1>3. adding = NothingLeft /\ at = 1 /\ changed \in BOOLEAN /\ restarts \in Nat
  BY <1>2 DEF Rest1, Phases, Deciding, Later
<1>4. \A m, dep : ~ StillToAdd(m, dep)
  BY <1>3 DEF StillToAdd, NothingLeft
<1>5. /\ Listed' /\ AllKinded' /\ AllAccounted' /\ changed' \in BOOLEAN
      /\ \/ \A m \in Names : Decision(m)' = Decision(m) /\ (m \in Resolved(resolutions)' => m \in Resolved(resolutions))
         \/ /\ \A m \in Names \ {n} : Decision(m)' = Decision(m) /\ (m \in Resolved(resolutions)' => m \in Resolved(resolutions))
            /\ Decision(n)' # Undecided
  <2>1. CASE resolutions' = resolutions /\ changed' = changed
    BY <1>2, <1>3, <1>4, <2>1, SameRest, SameResolutions
  <2>2. ASSUME NEW cs,
               cs = Had(n) \cup {FromPurge(n, {u.name : u \in {a \in changing.away : DependsOn(a, id)}})},
               Updated(n, cs, BestDecision(n, cs)), changed' = (changed \/ BestDecision(n, cs).taken)
        PROVE  /\ Listed' /\ AllKinded' /\ AllAccounted' /\ changed' \in BOOLEAN
               /\ \A m \in Names \ {n} : Decision(m)' = Decision(m) /\ (m \in Resolved(resolutions)' => m \in Resolved(resolutions))
               /\ Decision(n)' # Undecided
    <3>1. PICK d : d = BestDecision(n, cs)
      OBVIOUS
    <3>2. Kinded(n, d) /\ d # Undecided /\ d.taken \in BOOLEAN
      BY <1>2, <3>1, BestDecisionIsKinded, BestDecisionKinds DEF Kinded
    <3>3. DependenciesOf(n, d) = {}
      <4>1. PICK c \in cs : c.accepts = {}
        BY <2>2, FromPurgeMeans
      <4> QED BY <1>2, <3>1, <4>1, NothingAccepted
    <3>4. Updated(n, cs, d) /\ Had(n) \subseteq cs /\ cs # {}
      BY <2>2, <3>1
    <3>5. Listed' /\ AllKinded'
      BY <1>2, <3>2, <3>4, ListedStep, KindedStep DEF Rest1
    <3>6. AllAccounted'
      <4>1. resolutions.fromNothing \subseteq resolutions'.fromNothing
        BY <3>4 DEF Updated
      <4>2. \A m \in Names : Constraints(m) \subseteq Constraints(m)'
        BY <3>4, ConstraintsGrow DEF Rest1
      <4>3. \A m \in Names \ {n} : Decision(m)' = Decision(m)
        BY <3>4 DEF Updated
      <4>4. DependenciesOf(n, Decision(n))' = {}
        <5>1. DependenciesOf(n, Decision(n))' = DependenciesOf(n, d)'
          BY <3>4 DEF Updated, DependenciesOf
        <5> QED BY <1>2, <3>3, <5>1, SystemIsFixed
      <4> QED BY <1>2, <1>4, <4>1, <4>2, <4>3, <4>4, AccountedStep DEF Rest1
    <3>7. changed' \in BOOLEAN
      BY <1>3, <2>2
    <3>8. \A m \in Names \ {n} : Decision(m)' = Decision(m) /\ (m \in Resolved(resolutions)' => m \in Resolved(resolutions))
      BY <3>4 DEF Updated
    <3>9. Decision(n)' # Undecided
      BY <3>2, <3>4 DEF Updated
    <3> QED BY <3>5, <3>6, <3>7, <3>8, <3>9
  <2> QED BY <1>1, <2>1, <2>2, PurgeEffect
<1>6. Phases'
  BY <1>2, <1>3, <1>5 DEF Phases, Deciding, Later
<1>7. DecidedUpon'
  <2>1. CASE stage = "purging all"
    BY <1>2, <2>1 DEF DecidedUpon
  <2>2. CASE stage = "purges found"
    <3>1. \A m \in Resolved(resolutions) : Decision(m) # Undecided
      BY <2>2 DEF Rest1, DecidedUpon
    <3>2. Resolved(resolutions)' \subseteq Names
      <4>1. IInv'
        BY ResolvePurgeStep
      <4>2. resolutions'.list \in Seq(Names)
        BY <4>1 DEF IInv, Good, Shaped
      <4> QED BY <4>2 DEF Resolved, Range
    <3>3. \A m \in Resolved(resolutions)' : Decision(m)' # Undecided
      BY <1>5, <3>1, <3>2
    <3> QED BY <1>2, <2>2, <3>3 DEF DecidedUpon
  <2> QED BY <1>2, <2>1, <2>2
<1> QED BY <1>5, <1>6, <1>7 DEF Rest1

LEMMA StutteringRest == IInv /\ Rest1 /\ UNCHANGED vars => Rest1'
<1> SUFFICES ASSUME IInv, Rest1, UNCHANGED vars PROVE Rest1'
  OBVIOUS
<1>1. /\ system' = system /\ resolutions' = resolutions /\ adding' = adding /\ at' = at /\ stage' = stage
      /\ changed' = changed /\ initial' = initial /\ restarts' = restarts
  BY DEF vars
<1>2. \A m, dep : StillToAdd(m, dep)' <=> StillToAdd(m, dep)
  BY <1>1 DEF StillToAdd
<1>3. Listed' /\ AllKinded' /\ AllAccounted'
  BY <1>1, <1>2, SameRest
<1>4. Phases' /\ DecidedUpon'
  BY <1>1, SameResolutions DEF Rest1, Phases, DecidedUpon, Deciding, NothingLeft, Later
<1> QED BY <1>3, <1>4 DEF Rest1

LEMMA InitRest == Init => Rest1
<1> SUFFICES ASSUME Init PROVE Rest1
  OBVIOUS
<1>1. /\ stage = "targets" /\ at = 1 /\ changed = FALSE /\ adding = NothingLeft /\ restarts = 0
      /\ resolutions = NoResolutions /\ initial = [n \in {} |-> {}]
  BY DEF Init
<1>2. Resolved(resolutions) = {}
  BY <1>1 DEF Resolved, NoResolutions, Range
<1>3. \A n \in Names : Decision(n) = Undecided /\ Constraints(n) = {}
  BY <1>1 DEF Decision, Constraints, NoResolutions
<1>4. Listed
  BY <1>1, <1>2, <1>3 DEF Listed
<1>5. AllKinded
  BY <1>3 DEF AllKinded, Kinded
<1>6. AllAccounted
  BY <1>3, UndecidedHasNoDependencies DEF AllAccounted
<1>7. Phases /\ DecidedUpon
  BY <1>1 DEF Phases, DecidedUpon, Deciding, Later
<1> QED BY <1>4, <1>5, <1>6, <1>7 DEF Rest1

LEMMA NextRest == IInv /\ Rest1 /\ [Next]_vars => Rest1'
<1> SUFFICES ASSUME IInv, Rest1, [Next]_vars PROVE Rest1'
  OBVIOUS
<1>1. CASE AddTarget
  BY <1>1, AddTargetRest
<1>2. CASE TargetsAdded \/ Purge \/ FindDependents \/ DependentsResolved \/ FindPurges \/ PurgesResolved
  BY <1>2, FindingRest
<1>3. CASE EndPass
  BY <1>3, EndPassRest
<1>4. CASE DecideNext
  BY <1>4, DecideNextRest
<1>5. CASE \E dep \in adding.left : AddDependency(dep)
  BY <1>5, AddDependencyRest
<1>6. CASE \E id \in Installed : ResolveDependent(id)
  BY <1>6, ResolveDependentRest
<1>7. CASE \E away \in adding.left : AddDependent(away)
  BY <1>7, AddDependentRest
<1>8. CASE \E id \in Installed : ResolvePurge(id)
  BY <1>8, ResolvePurgeRest
<1>9. CASE UNCHANGED vars
  BY <1>9, StutteringRest
<1> QED BY <1>1, <1>2, <1>3, <1>4, <1>5, <1>6, <1>7, <1>8, <1>9 DEF Next

LEMMA AccountedInTheEnd == IInv /\ Rest1 => DependenciesTakenIntoAccount
<1> SUFFICES ASSUME IInv, Rest1, Done, NEW n \in Resolved(resolutions)
             PROVE  /\ Decision(n) # Undecided
                    /\ n \notin resolutions.fromNothing =>
                          \A dep \in DependenciesOf(n, Decision(n)) :
                              \/ InterestInSpec(dep, Decision(n)) = "ignore"
                              \/ \E c \in Constraints(dep.on) : c.from = {n} /\ c.accepts = dep.accepts
  BY DEF DependenciesTakenIntoAccount
<1>1. stage = "done"
  BY DEF Done
<1>2. Decision(n) # Undecided
  BY <1>1 DEF Rest1, DecidedUpon
<1>3. adding = NothingLeft
  BY <1>1 DEF Rest1, Phases, Deciding
<1>4. \A m, dep : ~ StillToAdd(m, dep)
  BY <1>3 DEF StillToAdd, NothingLeft
<1>5. n \in Names
  BY ResolvedNames
<1> QED BY <1>2, <1>4, <1>5 DEF Rest1, AllAccounted, IsAccounted

(***************************************************************************)
(* When the resolution is done, everything in it is decided, and every     *)
(* dependency of what is changed or kept has become a constraint, for any  *)
(* packages and dependencies, targets, dependents and purges, and however  *)
(* often it has started over: the loop that stops at what is not decided,  *)
(* the rounds after a dependent and the decisions that a later constraint  *)
(* replaces lose none of them.                                             *)
(***************************************************************************)
THEOREM DependenciesAreTakenIntoAccount == Spec => []DependenciesTakenIntoAccount
<1>1. Init => IInv /\ Rest1
  BY InitInvariant, InitRest
<1>2. IInv /\ Rest1 /\ [Next]_vars => IInv' /\ Rest1'
  BY NextInvariant, NextRest
<1>3. IInv /\ Rest1 => DependenciesTakenIntoAccount
  BY AccountedInTheEnd
<1> QED BY <1>1, <1>2, <1>3, PTL DEF Spec

-----------------------------------------------------------------------------
(* What stays although what it depends on goes away.                       *)

(* What a package depends on goes away, and nothing comes instead.         *)
Bereft(i, all) == i \in Installed \ all.away /\ DependentUpon(i, all.away, all.new) # {}

LeftBehind(n) == Decision(n).kind \in {"break", "unable"}

Going(n) == Decision(n).kind \in {"change", "remove"} /\ Decision(n).taken

(* The loop over dependents: each is to come, being dealt with, or said to *)
(* be left behind, unless there is to be another round.                    *)
Dependents ==
    /\ stage = "dependents found" =>
          /\ \A i \in pending : Bereft(i, changing)
          /\ adding.of = "dependent" => /\ \E i \in Installed : i.name = adding.name /\ Bereft(i, changing)
                                        /\ adding.left \subseteq changing.away
    /\ stage = "dependents found" /\ ~ changed =>
          /\ changing = CollectChanging
          /\ \A i : Bereft(i, changing) => \/ i \in pending
                                           \/ adding.of = "dependent" /\ adding.name = i.name
                                           \/ LeftBehind(i.name)

AllLeftBehind == \A i : Bereft(i, CollectChanging) => LeftBehind(i.name)

(* What is to be purged is not used by what stays or comes.                *)
Purges ==
    stage = "purges found" =>
        /\ changing.new = CollectChanging.new /\ changing.away \subseteq CollectChanging.away
        /\ \A p \in pending : /\ p \in Installed \ changing.away
                              /\ \A i \in (Installed \ changing.away) \cup changing.new : ~ DependsOn(i, p)

Rest2 ==
    /\ Dependents
    /\ stage \in {"purges", "purges found", "done"} => AllLeftBehind
    /\ Purges

LEMMA OneVersionInstalled == \A i, j \in Installed : i.name = j.name => i = j
BY DEF Installed

LEMMA InstalledIsInstalled == \A i \in Installed : i.name \in Names /\ IsInstalled(i.name)
BY DEF Installed, IsInstalled

LEMMA AwayMeans == CollectChanging.away = {i \in Installed : Going(i.name)}
<1>1. CollectChanging.away = {i \in Installed : i.name \in TakenOf("change") \cup TakenOf("remove")}
  BY DEF CollectChanging
<1>2. \A i \in Installed : i.name \in TakenOf("change") \cup TakenOf("remove") <=> Going(i.name)
  BY InstalledNames DEF TakenOf, Going, Decision
<1> QED BY <1>1, <1>2

LEMMA SameChanging ==
    ASSUME system' = system, resolutions' = resolutions
    PROVE  CollectChanging' = CollectChanging
BY DEF CollectChanging, TakenOf, Installed

(* A decision that is neither to change nor to remove, and will not be.    *)
LEMMA StillSameChanging ==
    ASSUME system' = system, NEW n \in Names, \A m \in Names \ {n} : Decision(m)' = Decision(m),
           ~ Going(n), NEW d, Decision(n)' = d, ~ (d.kind \in {"change", "remove"} /\ d.taken)
    PROVE  CollectChanging' = CollectChanging
<1>1. \A m \in Names \ {n} : resolutions'.decision[m] = resolutions.decision[m]
  BY DEF Decision
<1>2. /\ ~ (resolutions.decision[n].kind \in {"change", "remove"} /\ resolutions.decision[n].taken)
      /\ ~ (resolutions'.decision[n].kind \in {"change", "remove"} /\ resolutions'.decision[n].taken)
  BY DEF Decision, Going
<1>3. TakenOf("change")' = TakenOf("change") /\ TakenOf("remove")' = TakenOf("remove")
  BY <1>1, <1>2 DEF TakenOf
<1>4. n \notin TakenOf("change")
  BY <1>2 DEF TakenOf
<1>5. \A m \in TakenOf("change") : m \in Names \ {n}
  BY <1>4 DEF TakenOf
<1>6. CollectChanging'.new = CollectChanging.new
  <2>1. CollectChanging.new = {[name |-> m, version |-> resolutions.decision[m].version] : m \in TakenOf("change")}
    BY DEF CollectChanging
  <2>2. CollectChanging'.new = {[name |-> m, version |-> resolutions'.decision[m].version] : m \in TakenOf("change")'}
    BY DEF CollectChanging
  <2>3. \A m \in TakenOf("change") : resolutions'.decision[m] = resolutions.decision[m]
    BY <1>1, <1>5
  <2> HIDE DEF TakenOf
  <2> QED BY <1>3, <2>1, <2>2, <2>3
<1>7. CollectChanging'.away = CollectChanging.away
  BY <1>3 DEF CollectChanging, Installed
<1>8. CollectChanging = [away |-> CollectChanging.away, new |-> CollectChanging.new]
  BY DEF CollectChanging
<1>9. CollectChanging' = [away |-> CollectChanging'.away, new |-> CollectChanging'.new]
  BY DEF CollectChanging
<1> QED BY <1>6, <1>7, <1>8, <1>9

(* One package more that is removed, or none.                              *)
LEMMA OneMoreRemoved ==
    ASSUME system' = system, NEW n \in Names, \A m \in Names \ {n} : Decision(m)' = Decision(m),
           Decision(n) = Undecided, NEW d, Decision(n)' = d, d.kind # "change"
    PROVE  /\ CollectChanging'.new = CollectChanging.new
           /\ CollectChanging'.away = CollectChanging.away \cup {i \in Installed : i.name = n /\ d.kind = "remove" /\ d.taken}
<1>1. \A m \in Names \ {n} : resolutions'.decision[m] = resolutions.decision[m]
  BY DEF Decision
<1>2. resolutions.decision[n].kind = "undecided" /\ resolutions'.decision[n] = d
  BY DEF Decision, Undecided
<1>3. /\ TakenOf("change")' = TakenOf("change") /\ n \notin TakenOf("change")
      /\ TakenOf("remove")' = TakenOf("remove") \cup {m \in {n} : d.kind = "remove" /\ d.taken}
  BY <1>1, <1>2 DEF TakenOf
<1>4. \A m \in TakenOf("change") : m \in Names \ {n}
  BY <1>3 DEF TakenOf
<1>5. CollectChanging'.new = CollectChanging.new
  <2>1. CollectChanging.new = {[name |-> m, version |-> resolutions.decision[m].version] : m \in TakenOf("change")}
    BY DEF CollectChanging
  <2>2. CollectChanging'.new = {[name |-> m, version |-> resolutions'.decision[m].version] : m \in TakenOf("change")'}
    BY DEF CollectChanging
  <2>3. \A m \in TakenOf("change") : resolutions'.decision[m] = resolutions.decision[m]
    BY <1>1, <1>4
  <2> HIDE DEF TakenOf
  <2> QED BY <1>3, <2>1, <2>2, <2>3
<1>6. CollectChanging'.away = CollectChanging.away \cup {i \in Installed : i.name = n /\ d.kind = "remove" /\ d.taken}
  <2>1. CollectChanging.away = {i \in Installed : i.name \in TakenOf("change") \cup TakenOf("remove")}
    BY DEF CollectChanging
  <2>2. CollectChanging'.away = {i \in Installed : i.name \in TakenOf("change")' \cup TakenOf("remove")'}
    BY DEF CollectChanging, Installed
  <2> HIDE DEF TakenOf
  <2> QED BY <1>3, <2>1, <2>2
<1> QED BY <1>5, <1>6

LEMMA BereftMeans ==
    ASSUME NEW i, NEW all
    PROVE  \A a \in DependentUpon(i, all.away, all.new) : a \in all.away /\ DependsOn(i, a)
BY DEF DependentUpon, DependsOn

(* What is more removed leaves nothing behind that does not use it.        *)
LEMMA BereftOfLess ==
    ASSUME NEW i, NEW all, NEW more, NEW gone, more.new = all.new, more.away = all.away \cup gone,
           \A p \in gone : ~ DependsOn(i, p), Bereft(i, more)
    PROVE  Bereft(i, all)
<1>1. PICK a : a \in DependentUpon(i, more.away, more.new)
  BY DEF Bereft
<1>2. a \in more.away /\ DependsOn(i, a)
  BY <1>1, BereftMeans
<1>3. a \in all.away
  BY <1>2
<1>4. a \in DependentUpon(i, all.away, all.new)
  BY <1>1, <1>3 DEF DependentUpon
<1> QED BY <1>4 DEF Bereft

(* What a constraint makes of a dependent that stays.                      *)
LEMMA DependentOutcome ==
    ASSUME IInv, AllKinded, NEW n \in Names, NEW c, NEW d, Outcome(n, c, d),
           NEW from, c = FromDependent(n, from), IsInstalled(n), ~ Going(n)
    PROVE  d = Undecided \/ d.kind \in {"break", "unable"}
<1>1. c.nothing_is_fine_too /\ ~ c.force_unable /\ ~ c.untaken /\ (c.accepts = {} \/ c.not_installed)
  BY FromDependentMeans
<1>2. Kinded(n, Decision(n))
  BY DEF AllKinded
<1>3. CASE d = Decision(n) /\ (Decision(n) = Undecided \/ CheckConstraint(c, Decision(n)))
  <2>1. CASE Decision(n) = Undecided
    BY <1>3, <2>1
  <2>2. CASE Decision(n) # Undecided
    <3>1. d # Undecided /\ CheckConstraint(c, d) /\ Kinded(n, d) /\ ~ (d.kind \in {"change", "remove"} /\ d.taken)
      BY <1>2, <1>3, <2>2 DEF Going
    <3>2. d.kind \in {"nothing", "change", "nochange", "remove", "unable", "break"} /\ d.kind # "nothing"
      BY <3>1 DEF Kinded
    <3>3. d.taken
      BY <1>1, <3>1 DEF CheckConstraint
    <3>4. d.kind # "nochange"
      BY <1>1, <3>1 DEF CheckConstraint
    <3> QED BY <3>1, <3>2, <3>3, <3>4
  <2> QED BY <2>1, <2>2
<1>4. CASE d = Without("unable", Had(n) \cup {c})
  BY <1>4, WithoutIsDecided
<1>5. Decision(n).kind # "nothing"
  <2>1. Undecided.kind # "nothing"
    BY DEF Undecided
  <2> QED BY <1>2, <2>1 DEF Kinded
<1> QED BY <1>3, <1>4, <1>5 DEF Outcome

(* Steps after which neither dependents nor purges are looked for.         *)
LEMMA OtherStages ==
    ASSUME stage' \notin {"dependents found", "purges", "purges found", "done"}
    PROVE  Rest2'
BY DEF Rest2, Dependents, Purges

LEMMA FindDependentsMore == IInv /\ Rest1 /\ FindDependents => Rest2'
<1> SUFFICES ASSUME IInv, Rest1, FindDependents PROVE Rest2'
  OBVIOUS
<1>1. PICK all : all = CollectChanging
  OBVIOUS
<1>2. /\ stage = "dependents" /\ changing' = all /\ system' = system /\ resolutions' = resolutions
      /\ pending' = {i \in Installed \ all.away : DependentUpon(i, all.away, all.new) # {}}
      /\ stage' = IF pending' = {} THEN "purges" ELSE "dependents found"
      /\ adding' = adding
  BY <1>1 DEF FindDependents
<1>3. CollectChanging' = all
  BY <1>1, <1>2, SameChanging
<1>4. \A i : Bereft(i, all)' <=> Bereft(i, all)
  BY <1>2, SystemIsFixed DEF Bereft
<1>5. \A i : Bereft(i, all) <=> i \in pending'
  BY <1>2 DEF Bereft
<1>6. adding'.of # "dependent"
  <2>1. adding = NothingLeft
    BY <1>2 DEF Rest1, Phases, Deciding
  <2> QED BY <1>2, <2>1 DEF NothingLeft
<1>7. CASE pending' = {}
  <2>1. \A i : ~ Bereft(i, all)'
    BY <1>4, <1>5, <1>7
  <2>2. AllLeftBehind'
    BY <1>3, <2>1 DEF AllLeftBehind, Bereft
  <2> QED BY <1>2, <1>7, <2>2 DEF Rest2, Dependents, Purges
<1>8. CASE pending' # {}
  <2>1. stage' = "dependents found"
    BY <1>2, <1>8
  <2>2. \A i : Bereft(i, changing)' <=> i \in pending'
    <3>1. \A i : Bereft(i, changing)' <=> Bereft(i, all)'
      BY <1>2 DEF Bereft
    <3> QED BY <1>4, <1>5, <3>1
  <2>3. Dependents'
    BY <1>2, <1>3, <1>6, <2>1, <2>2 DEF Dependents
  <2> QED BY <2>1, <2>3 DEF Rest2, Purges
<1> QED BY <1>7, <1>8

LEMMA BereftIsFixed ==
    ASSUME system' = system, NEW i, NEW all
    PROVE  Bereft(i, all)' <=> Bereft(i, all)
BY SystemIsFixed DEF Bereft

LEMMA SameLeftBehind ==
    ASSUME system' = system, resolutions' = resolutions, AllLeftBehind
    PROVE  AllLeftBehind'
<1>1. PICK all : all = CollectChanging
  OBVIOUS
<1>2. CollectChanging' = all
  BY <1>1, SameChanging
<1>3. \A i : Bereft(i, all)' <=> Bereft(i, all)
  BY BereftIsFixed
<1>4. \A n : LeftBehind(n)' <=> LeftBehind(n)
  BY SameResolutions DEF LeftBehind
<1> SUFFICES ASSUME NEW i, Bereft(i, CollectChanging)' PROVE LeftBehind(i.name)'
  BY DEF AllLeftBehind
<1>5. Bereft(i, all)'
  BY <1>2 DEF Bereft
<1> QED BY <1>1, <1>3, <1>4, <1>5 DEF AllLeftBehind

LEMMA ResolveDependentMore ==
    ASSUME IInv, Rest1, Rest2, NEW id \in Installed, ResolveDependent(id)
    PROVE  Rest2'
<1>1. PICK n \in Names : n = id.name
  BY InstalledNames
<1>2. PICK left : left = DependentUpon(id, changing.away, changing.new)
  OBVIOUS
<1>3. /\ system' = system /\ resolutions' = resolutions /\ stage' = stage /\ stage = "dependents found"
      /\ adding = NothingLeft /\ changing' = changing /\ id \in pending /\ pending' = pending \ {id}
      /\ changed' = (changed \/ (n \in system.removeIfDependent /\ n \notin Resolved(resolutions)))
      /\ adding' = Left("dependent", n, left)
  BY <1>1, <1>2 DEF ResolveDependent
<1>4. NothingLeft.of = "nothing"
  BY DEF NothingLeft
<1>5. PICK all : all = changing
  OBVIOUS
<1>6. /\ \A i \in pending : Bereft(i, all)
      /\ ~ changed => /\ all = CollectChanging
                      /\ \A i : Bereft(i, all) => i \in pending \/ LeftBehind(i.name)
  BY <1>3, <1>4, <1>5 DEF Rest2, Dependents
<1>7. \A i : Bereft(i, changing)' <=> Bereft(i, all)
  <2>1. \A i : Bereft(i, changing)' <=> Bereft(i, all)'
    BY <1>3, <1>5 DEF Bereft
  <2> QED BY <1>3, <2>1, BereftIsFixed
<1>8. left # {} /\ left \subseteq all.away
  BY <1>2, <1>3, <1>5, <1>6 DEF Bereft, DependentUpon
<1>9. adding' = [of |-> "dependent", name |-> n, left |-> left]
  BY <1>3, <1>8, LeftMeans
<1>10. adding'.of = "dependent" /\ adding'.name = n /\ adding'.left = left
  BY <1>9
<1>11. \E i \in Installed' : i.name = adding'.name /\ Bereft(i, changing)'
  BY <1>1, <1>3, <1>6, <1>7, <1>10, SystemIsFixed
<1>12. ASSUME ~ changed'
       PROVE  /\ changing' = CollectChanging'
              /\ \A i : Bereft(i, changing)' => \/ i \in pending'
                                                \/ adding'.of = "dependent" /\ adding'.name = i.name
                                                \/ LeftBehind(i.name)'
  <2>1. ~ changed
    BY <1>3, <1>12
  <2>2. changing' = CollectChanging'
    BY <1>3, <1>5, <1>6, <2>1, SameChanging
  <2>3. \A m : LeftBehind(m)' <=> LeftBehind(m)
    BY <1>3, SameResolutions DEF LeftBehind
  <2>4. ASSUME NEW i, Bereft(i, changing)'
        PROVE  \/ i \in pending'
               \/ adding'.of = "dependent" /\ adding'.name = i.name
               \/ LeftBehind(i.name)'
    <3>1. Bereft(i, all)
      BY <1>7, <2>4
    <3>2. CASE i = id
      BY <1>1, <1>10, <3>2
    <3>3. CASE i \in pending /\ i # id
      BY <1>3, <3>3
    <3>4. CASE LeftBehind(i.name)
      BY <2>3, <3>4
    <3> QED BY <1>6, <2>1, <3>1, <3>2, <3>3, <3>4
  <2> QED BY <2>2, <2>4
<1>13. Dependents'
  <2>1. \A i \in pending' : Bereft(i, changing)'
    BY <1>3, <1>6, <1>7
  <2>2. adding'.left \subseteq changing'.away
    BY <1>3, <1>5, <1>8, <1>10
  <2> QED BY <1>11, <1>12, <2>1, <2>2 DEF Dependents
<1>14. stage' = "dependents found"
  BY <1>3
<1> QED BY <1>13, <1>14 DEF Rest2, Purges

LEMMA AddDependentMore ==
    ASSUME IInv, Rest1, Rest2, NEW away, AddDependent(away)
    PROVE  Rest2'
<1>4. PICK n \in Names : \E c : AddsDependent(away, n, c)
  BY AddDependentMeans DEF Rest1
<1>1. PICK c : AddsDependent(away, n, c)
  BY <1>4
<1> USE DEF AddsDependent
<1>2. CASE Restart(ApplyConstraint(resolutions, n, c))
  <2>1. stage' \in {"targets", "given up"}
    BY <1>2, RestartEffect
  <2> QED BY <2>1, OtherStages
<1>3. CASE ~ Restart(ApplyConstraint(resolutions, n, c))
  <2>1. NothingLeft.of = "nothing"
    BY DEF NothingLeft
  <2>2. stage = "dependents found" /\ (n \in system.removeIfDependent => changed \/ n \in Resolved(resolutions))
    BY <1>1, <2>1 DEF Rest1, Phases
  <2>3. PICK all, left : all = changing /\ left = adding.left \ {away}
    OBVIOUS
  <2>4. /\ \A i \in pending : Bereft(i, all)
        /\ \E i \in Installed : i.name = n /\ Bereft(i, all)
        /\ adding.left \subseteq all.away
        /\ ~ changed => /\ all = CollectChanging
                        /\ \A i : Bereft(i, all) => i \in pending \/ i.name = n \/ LeftBehind(i.name)
    BY <1>1, <2>2, <2>3 DEF Rest2, Dependents
  <2>5. /\ stage' = "dependents found" /\ pending' = pending /\ changing' = all
        /\ adding' = Left("dependent", n, left)
    BY <1>1, <1>3, <2>2, <2>3
  <2>6. \A i : Bereft(i, changing)' <=> Bereft(i, all)
    <3>1. \A i : Bereft(i, changing)' <=> Bereft(i, all)'
      BY <2>5 DEF Bereft
    <3> QED BY <1>1, <3>1, BereftIsFixed
  <2>7. Installed' = Installed
    BY <1>1, SystemIsFixed
  <2>8. \A i \in pending' : Bereft(i, changing)'
    BY <2>4, <2>5, <2>6
  <2>9. adding'.of = "dependent" => /\ \E i \in Installed' : i.name = adding'.name /\ Bereft(i, changing)'
                                    /\ adding'.left \subseteq changing'.away
    <3> SUFFICES ASSUME adding'.of = "dependent"
                 PROVE  /\ \E i \in Installed' : i.name = adding'.name /\ Bereft(i, changing)'
                        /\ adding'.left \subseteq changing'.away
      OBVIOUS
    <3>1. adding' # NothingLeft
      BY <2>1
    <3>2. adding'.name = n /\ adding'.left = left
      BY <2>5, <3>1, LeftMeans
    <3> QED BY <2>3, <2>4, <2>5, <2>6, <2>7, <3>2
  <2>10. ASSUME ~ changed'
         PROVE  /\ changing' = CollectChanging'
                /\ \A i : Bereft(i, changing)' => \/ i \in pending'
                                                  \/ adding'.of = "dependent" /\ adding'.name = i.name
                                                  \/ LeftBehind(i.name)'
    <3>1. ~ changed
      <4>1. changed' = TRUE \/ changed' = changed
        BY <1>1, <1>3
      <4> QED BY <2>10, <4>1
    <3>2. PICK i0 \in Installed : i0.name = n /\ Bereft(i0, all)
      BY <2>4
    <3>3. IsInstalled(n) /\ ~ Going(n)
      <4>1. i0 \notin CollectChanging.away
        BY <2>4, <3>1, <3>2 DEF Bereft
      <4> QED BY <3>2, <4>1, AwayMeans, InstalledIsInstalled
    <3>4. PICK d : /\ Decision(n)' = d /\ (d = Undecided \/ d.kind \in {"break", "unable"})
                   /\ \A m \in Names \ {n} : Decision(m)' = Decision(m)
                   /\ d = Undecided => left # {}
      <4>1. CASE /\ ApplyConstraint(resolutions, n, c).restart = {}
                 /\ resolutions' = ApplyConstraint(resolutions, n, c)
                 /\ \/ changed' = TRUE /\ Decision(n)' = Undecided
                    \/ changed' = changed /\ Decision(n)' # Undecided
                    \/ changed' = changed /\ adding.left # {away}
                    \/ changed' = changed /\ n \in system.removeIfDependent
        <5>1. PICK d : Updated(n, Had(n) \cup {c}, d) /\ Outcome(n, c, d)
          BY <4>1, AppliedEffect
        <5>2. Decision(n)' = d /\ \A m \in Names \ {n} : Decision(m)' = Decision(m)
          BY <5>1 DEF Updated
        <5>3. d = Undecided \/ d.kind \in {"break", "unable"}
          BY <1>1, <3>3, <5>1, DependentOutcome DEF Rest1
        <5>4. d = Undecided => left # {}
          <6> SUFFICES ASSUME d = Undecided PROVE left # {}
            OBVIOUS
          <6>1. n \notin system.removeIfDependent
            <7> SUFFICES ASSUME n \in system.removeIfDependent PROVE FALSE
              OBVIOUS
            <7>1. n \in Resolved(resolutions)
              BY <2>2, <3>1
            <7>2. Decision(n) # Undecided
              BY <1>1, <2>2, <3>1, <7>1 DEF Rest1, DecidedUpon
            <7>3. d # Undecided
              BY <5>1, <7>2, OutcomeIsKinded DEF Rest1
            <7> QED BY <7>3
          <6>2. adding.left # {away}
            BY <2>10, <4>1, <5>2, <6>1
          <6> QED BY <1>1, <2>3, <6>2
        <5> QED BY <5>2, <5>3, <5>4
      <4>2. CASE Updated(n, Had(n) \cup {c}, Broken)
        <5>1. Decision(n)' = Broken /\ \A m \in Names \ {n} : Decision(m)' = Decision(m)
          BY <4>2 DEF Updated
        <5> QED BY <5>1, BrokenIsKinded
      <4> QED BY <1>1, <1>3, <4>1, <4>2
    <3>5. changing' = CollectChanging'
      <4>1. ~ (d.kind \in {"change", "remove"} /\ d.taken)
        <5>1. Undecided.kind = "undecided"
          BY DEF Undecided
        <5> QED BY <3>4, <5>1
      <4>2. CollectChanging' = CollectChanging
        BY <1>1, <3>3, <3>4, <4>1, StillSameChanging
      <4> QED BY <2>4, <2>5, <3>1, <4>2
    <3>6. ASSUME NEW i, Bereft(i, changing)'
          PROVE  \/ i \in pending'
                 \/ adding'.of = "dependent" /\ adding'.name = i.name
                 \/ LeftBehind(i.name)'
      <4>1. Bereft(i, all)
        BY <2>6, <3>6
      <4>6. i \in Installed /\ i.name \in Names
        BY <4>1, InstalledNames DEF Bereft
      <4>2. CASE i \in pending
        BY <2>5, <4>2
      <4>3. CASE i.name = n /\ d = Undecided
        <5>1. left # {}
          BY <3>4, <4>3
        <5>2. Left("dependent", n, left) = [of |-> "dependent", name |-> n, left |-> left]
          BY <5>1, LeftMeans
        <5>3. adding' = [of |-> "dependent", name |-> n, left |-> left]
          BY <2>5, <5>2
        <5> QED BY <4>3, <5>3
      <4>4. CASE i.name = n /\ d.kind \in {"break", "unable"}
        BY <3>4, <4>4 DEF LeftBehind
      <4>5. CASE i.name # n /\ LeftBehind(i.name)
        <5>1. PICK m \in Names \ {n} : m = i.name
          BY <4>6, <4>5
        <5>2. Decision(m)' = Decision(m)
          BY <3>4, <5>1
        <5>3. LeftBehind(m)
          BY <4>5, <5>1
        <5>4. LeftBehind(m)'
          BY <5>2, <5>3 DEF LeftBehind
        <5> QED BY <5>1, <5>4
      <4> QED BY <2>4, <3>1, <3>4, <4>1, <4>2, <4>3, <4>4, <4>5
    <3> QED BY <3>5, <3>6
  <2>11. Dependents'
    BY <2>8, <2>9, <2>10 DEF Dependents
  <2> QED BY <2>5, <2>11 DEF Rest2, Purges
<1> QED BY <1>2, <1>3

LEMMA DependentsResolvedMore == IInv /\ Rest1 /\ Rest2 /\ DependentsResolved => Rest2'
<1> SUFFICES ASSUME IInv, Rest1, Rest2, DependentsResolved PROVE Rest2'
  OBVIOUS
<1>1. /\ stage = "dependents found" /\ adding = NothingLeft /\ pending = {}
      /\ stage' = IF changed THEN "non_suggestions" ELSE "purges"
      /\ system' = system /\ resolutions' = resolutions
  BY DEF DependentsResolved
<1>2. CASE changed
  <2>1. stage' = "non_suggestions"
    BY <1>1, <1>2
  <2> QED BY <2>1, OtherStages
<1>3. CASE ~ changed
  <2>1. NothingLeft.of = "nothing"
    BY DEF NothingLeft
  <2>2. changing = CollectChanging /\ \A i : Bereft(i, changing) => LeftBehind(i.name)
    BY <1>1, <1>3, <2>1 DEF Rest2, Dependents
  <2>3. AllLeftBehind
    BY <2>2 DEF AllLeftBehind
  <2>4. AllLeftBehind'
    BY <1>1, <2>3, SameLeftBehind
  <2>5. stage' = "purges"
    BY <1>1, <1>3
  <2> QED BY <2>4, <2>5 DEF Rest2, Dependents, Purges
<1> QED BY <1>2, <1>3

(* What is newly unused is installed, stays, and is used by nothing.       *)
LEMMA ReallyUnused ==
    ASSUME NEW all, NEW p \in NewlyReallyUnused(all)
    PROVE  /\ p \in Installed \ all.away
           /\ \A i \in (Installed \ all.away) \cup all.new : ~ DependsOn(i, p)
<1> DEFINE staying == Installed \ all.away
           eventually == staying \cup all.new
           unused == (WithDeps(all.away, eventually) \ all.away) \ WithDeps(all.new, eventually)
<1>1. p \in unused \ UNION {DeppedUpon(i, unused) : i \in staying}
  BY DEF NewlyReallyUnused
<1>2. \A i \in staying : ~ DependsOn(i, p)
  <2> SUFFICES ASSUME NEW i \in staying, DependsOn(i, p) PROVE FALSE
    OBVIOUS
  <2> HIDE DEF staying, unused
  <2>1. p \in DeppedUpon(i, unused)
    BY <1>1 DEF DeppedUpon
  <2> QED BY <1>1, <2>1
<1>3. /\ p \in WithDeps(all.away, eventually) /\ p \notin all.away
      /\ p \notin WithDeps(all.new, eventually)
  BY <1>1
<1> HIDE DEF eventually
<1>4. p \in eventually
  BY <1>3 DEF WithDeps, DeppedUpon
<1>5. p \notin all.new /\ \A i \in all.new : ~ DependsOn(i, p)
  BY <1>3, <1>4 DEF WithDeps, DeppedUpon
<1> QED BY <1>2, <1>3, <1>4, <1>5 DEF eventually

LEMMA FindPurgesMore == IInv /\ Rest1 /\ Rest2 /\ FindPurges => Rest2'
<1> SUFFICES ASSUME IInv, Rest1, Rest2, FindPurges PROVE Rest2'
  OBVIOUS
<1>1. PICK all : all = CollectChanging
  OBVIOUS
<1>2. /\ stage = "purges" /\ stage' = "purges found" /\ changing' = all
      /\ system' = system /\ resolutions' = resolutions
      /\ pending' \subseteq NewlyReallyUnused(all)
  BY <1>1 DEF FindPurges
<1>3. AllLeftBehind'
  <2>1. AllLeftBehind
    BY <1>2 DEF Rest2
  <2> QED BY <1>2, <2>1, SameLeftBehind
<1>4. CollectChanging' = all
  BY <1>1, <1>2, SameChanging
<1>5. \A p \in pending' : /\ p \in Installed' \ all.away
                          /\ \A i \in (Installed' \ all.away) \cup all.new : ~ DependsOn(i, p)'
  BY <1>2, ReallyUnused, SystemIsFixed
<1>6. Purges'
  BY <1>2, <1>4, <1>5 DEF Purges
<1> QED BY <1>2, <1>3, <1>6 DEF Rest2, Dependents

LEMMA ResolvePurgeMore ==
    ASSUME IInv, Rest1, Rest2, NEW id \in Installed, ResolvePurge(id)
    PROVE  Rest2'
<1>1. PICK n \in Names : n = id.name
  BY InstalledNames
<1>2. /\ system' = system /\ stage' = stage /\ stage \in {"purges found", "purging all"}
      /\ changing' = changing /\ pending' \subseteq pending /\ id \in pending /\ IsSystem(system)
  BY DEF ResolvePurge, IInv
<1>3. CASE stage = "purging all"
  BY <1>2, <1>3, OtherStages
<1>4. CASE stage = "purges found"
  <2>1. PICK was, kept : was = CollectChanging /\ kept = changing
    OBVIOUS
  <2>2. /\ kept.new = was.new /\ kept.away \subseteq was.away
        /\ \A p \in pending : /\ p \in Installed \ kept.away
                              /\ \A i \in (Installed \ kept.away) \cup kept.new : ~ DependsOn(i, p)
        /\ \A i : Bereft(i, was) => LeftBehind(i.name)
    BY <1>4, <2>1 DEF Rest2, Purges, AllLeftBehind
  <2>3. PICK gone :
          /\ gone \subseteq {id}
          /\ CollectChanging'.new = was.new /\ CollectChanging'.away = was.away \cup gone
          /\ \A m \in Names : LeftBehind(m) => LeftBehind(m)'
    <3>1. CASE resolutions' = resolutions
      <4>1. CollectChanging' = was
        BY <1>2, <2>1, <3>1, SameChanging
      <4>2. \A m : LeftBehind(m) => LeftBehind(m)'
        BY <3>1, SameResolutions DEF LeftBehind
      <4>3. CollectChanging'.new = was.new /\ CollectChanging'.away = was.away \cup {}
        BY <4>1
      <4>4. PICK none : none = {}
        OBVIOUS
      <4>5. none \subseteq {id} /\ CollectChanging'.away = was.away \cup none
        BY <4>3, <4>4
      <4> QED BY <4>2, <4>3, <4>5
    <3>2. ASSUME NEW cs, Decision(n) = Undecided,
                 cs = Had(n) \cup {FromPurge(n, {u.name : u \in {a \in changing.away : DependsOn(a, id)}})},
                 Updated(n, cs, BestDecision(n, cs))
          PROVE  \E gone :
                    /\ gone \subseteq {id}
                    /\ CollectChanging'.new = was.new /\ CollectChanging'.away = was.away \cup gone
                    /\ \A m \in Names : LeftBehind(m) => LeftBehind(m)'
      <4>1. PICK d : d = BestDecision(n, cs)
        OBVIOUS
      <4>2. d.kind \in {"nothing", "remove", "unable"}
        <5>1. PICK c \in cs : c.accepts = {}
          BY <3>2, FromPurgeMeans
        <5> QED BY <1>2, <4>1, <5>1, NothingAccepted
      <4>3. Decision(n)' = d /\ \A m \in Names \ {n} : Decision(m)' = Decision(m)
        BY <3>2, <4>1 DEF Updated
      <4>4. PICK gone : gone = {i \in Installed : i.name = n /\ d.kind = "remove" /\ d.taken}
        OBVIOUS
      <4>5. CollectChanging'.new = was.new /\ CollectChanging'.away = was.away \cup gone
        BY <1>2, <2>1, <3>2, <4>2, <4>3, <4>4, OneMoreRemoved
      <4>6. gone \subseteq {id}
        BY <1>1, <4>4, OneVersionInstalled
      <4>7. ~ LeftBehind(n)
        BY <3>2 DEF LeftBehind, Undecided
      <4>8. \A m \in Names : LeftBehind(m) => LeftBehind(m)'
        BY <4>3, <4>7 DEF LeftBehind
      <4> QED BY <4>5, <4>6, <4>8
    <3> QED BY <1>1, <3>1, <3>2, PurgeEffect
  <2>4. PICK all : all = CollectChanging'
    OBVIOUS
  <2>5. ASSUME NEW i, Bereft(i, all)'
        PROVE  LeftBehind(i.name)'
    <3>1. Bereft(i, all)
      BY <1>2, <2>5, BereftIsFixed
    <3>2. i \in Installed \ kept.away
      BY <2>2, <2>3, <2>4, <3>1 DEF Bereft
    <3>3. \A p \in gone : ~ DependsOn(i, p)
      BY <1>2, <2>2, <2>3, <3>2
    <3>4. Bereft(i, was)
      BY <2>3, <2>4, <3>1, <3>3, BereftOfLess
    <3>5. PICK m \in Names : m = i.name
      BY <3>2, InstalledNames
    <3>6. LeftBehind(m)'
      BY <2>2, <2>3, <3>4, <3>5
    <3> QED BY <3>5, <3>6
  <2>6. AllLeftBehind'
    <3>1. \A i : Bereft(i, CollectChanging)' <=> Bereft(i, all)'
      BY <2>4 DEF Bereft
    <3> QED BY <2>5, <3>1 DEF AllLeftBehind
  <2>7. Purges'
    <3>1. /\ changing'.new = CollectChanging'.new /\ changing'.away \subseteq CollectChanging'.away
      BY <1>2, <2>1, <2>2, <2>3
    <3>2. \A p \in pending' : /\ p \in Installed' \ changing'.away
                              /\ \A i \in (Installed' \ changing'.away) \cup changing'.new : ~ DependsOn(i, p)'
      BY <1>2, <2>1, <2>2, SystemIsFixed
    <3> QED BY <3>1, <3>2 DEF Purges
  <2> QED BY <1>2, <1>4, <2>6, <2>7 DEF Rest2, Dependents
<1> QED BY <1>2, <1>3, <1>4

LEMMA PurgesResolvedMore == IInv /\ Rest1 /\ Rest2 /\ PurgesResolved => Rest2'
<1> SUFFICES ASSUME IInv, Rest1, Rest2, PurgesResolved PROVE Rest2'
  OBVIOUS
<1>1. /\ stage \in {"purges found", "purging all"}
      /\ stage' = IF changed \/ stage = "purging all" THEN "non_suggestions" ELSE "done"
      /\ system' = system /\ resolutions' = resolutions
  BY DEF PurgesResolved
<1>2. CASE changed \/ stage = "purging all"
  <2>1. stage' = "non_suggestions"
    BY <1>1, <1>2
  <2> QED BY <2>1, OtherStages
<1>3. CASE ~ (changed \/ stage = "purging all")
  <2>1. stage = "purges found" /\ stage' = "done"
    BY <1>1, <1>3
  <2>2. AllLeftBehind
    BY <2>1 DEF Rest2
  <2>3. AllLeftBehind'
    BY <1>1, <2>2, SameLeftBehind
  <2> QED BY <2>1, <2>3 DEF Rest2, Dependents, Purges
<1> QED BY <1>2, <1>3

LEMMA OtherSteps ==
    ASSUME IInv, Rest1,
           AddTarget \/ TargetsAdded \/ Purge \/ DecideNext \/ EndPass \/ (\E dep \in adding.left : AddDependency(dep))
    PROVE  stage' \notin {"dependents found", "purges", "purges found", "done"}
<1>1. CASE AddTarget \/ TargetsAdded \/ Purge
  BY <1>1 DEF AddTarget, TargetsAdded, Purge
<1>2. CASE DecideNext
  BY <1>2 DEF DecideNext, Deciding
<1>3. CASE EndPass
  <2>1. /\ stage \in {"non_suggestions", "nothings", "suggestions"}
        /\ stage' = IF changed THEN stage ELSE NextPass[stage]
    BY <1>3 DEF EndPass, Deciding
  <2>2. NextPass.non_suggestions = "nothings" /\ NextPass.nothings = "suggestions" /\ NextPass.suggestions = "dependents"
    BY DEF NextPass
  <2>3. stage' \in {"non_suggestions", "nothings", "suggestions", "dependents"}
    <3>1. CASE changed
      BY <2>1, <3>1
    <3>2. CASE ~ changed
      <4>1. stage' = NextPass[stage]
        BY <2>1, <3>2
      <4> QED BY <2>1, <2>2, <4>1
    <3> QED BY <3>1, <3>2
  <2> QED BY <2>3
<1>4. CASE \E dep \in adding.left : AddDependency(dep)
  <2>1. PICK dep \in adding.left : AddDependency(dep)
    BY <1>4
  <2>2. adding.of = "dependencies"
    BY <2>1 DEF AddDependency
  <2>3. Deciding
    <3>1. NothingLeft.of = "nothing"
      BY DEF NothingLeft
    <3>2. adding = NothingLeft \/ Deciding \/ adding.of = "dependent"
      BY DEF Rest1, Phases
    <3> QED BY <2>2, <3>1, <3>2
  <2>4. stage' = stage \/ stage' \in {"targets", "given up"}
    <3>1. stage' = stage \/ \E r : Restart(r)
      BY <2>1 DEF AddDependency
    <3> QED BY <3>1 DEF Restart
  <2> QED BY <2>3, <2>4 DEF Deciding
<1> QED BY <1>1, <1>2, <1>3, <1>4

LEMMA StutteringMore == Rest2 /\ UNCHANGED vars => Rest2'
<1> SUFFICES ASSUME Rest2, UNCHANGED vars PROVE Rest2'
  OBVIOUS
<1>1. /\ system' = system /\ resolutions' = resolutions /\ adding' = adding /\ stage' = stage
      /\ changed' = changed /\ pending' = pending /\ changing' = changing
  BY DEF vars
<1>2. CollectChanging' = CollectChanging
  BY <1>1, SameChanging
<1>3. \A n : LeftBehind(n)' <=> LeftBehind(n)
  BY <1>1, SameResolutions DEF LeftBehind
<1>4. \A i : Bereft(i, changing)' <=> Bereft(i, changing)
  <2>1. PICK all : all = changing
    OBVIOUS
  <2>2. \A i : (Bereft(i, changing)' <=> Bereft(i, all)') /\ (Bereft(i, changing) <=> Bereft(i, all))
    BY <1>1, <2>1 DEF Bereft
  <2> QED BY <1>1, <2>2, BereftIsFixed
<1>5. Installed' = Installed /\ \A i, j : DependsOn(i, j)' <=> DependsOn(i, j)
  BY <1>1, SystemIsFixed
<1>6. Dependents'
  BY <1>1, <1>2, <1>3, <1>4, <1>5 DEF Rest2, Dependents
<1>7. stage' \in {"purges", "purges found", "done"} => AllLeftBehind'
  BY <1>1, SameLeftBehind DEF Rest2
<1>8. Purges'
  BY <1>1, <1>2, <1>5 DEF Rest2, Purges
<1> QED BY <1>6, <1>7, <1>8 DEF Rest2

LEMMA NextMore == IInv /\ Rest1 /\ Rest2 /\ [Next]_vars => Rest2'
<1> SUFFICES ASSUME IInv, Rest1, Rest2, [Next]_vars PROVE Rest2'
  OBVIOUS
<1>1. CASE AddTarget \/ TargetsAdded \/ Purge \/ DecideNext \/ EndPass \/ (\E dep \in adding.left : AddDependency(dep))
  BY <1>1, OtherSteps, OtherStages
<1>2. CASE FindDependents
  BY <1>2, FindDependentsMore
<1>3. CASE \E id \in Installed : ResolveDependent(id)
  BY <1>3, ResolveDependentMore
<1>4. CASE \E away \in adding.left : AddDependent(away)
  BY <1>4, AddDependentMore
<1>5. CASE DependentsResolved \/ FindPurges \/ PurgesResolved
  BY <1>5, DependentsResolvedMore, FindPurgesMore, PurgesResolvedMore
<1>6. CASE \E id \in Installed : ResolvePurge(id)
  BY <1>6, ResolvePurgeMore
<1>7. CASE UNCHANGED vars
  BY <1>7, StutteringMore
<1> QED BY <1>1, <1>2, <1>3, <1>4, <1>5, <1>6, <1>7 DEF Next

LEMMA InitMore == Init => Rest2
<1> SUFFICES ASSUME Init PROVE Rest2
  OBVIOUS
<1>1. stage = "targets"
  BY DEF Init
<1> QED BY <1>1 DEF Rest2, Dependents, Purges

(***************************************************************************)
(* Whatever goes away: in the end, a package that stays and depends on it, *)
(* for which nothing else comes, is said to be broken, or impossible.      *)
(***************************************************************************)
THEOREM DependentsAreAccountedFor == Spec => []DependentsAccountedFor
<1>1. Init => IInv /\ Rest1 /\ Rest2
  BY InitInvariant, InitRest, InitMore
<1>2. IInv /\ Rest1 /\ Rest2 /\ [Next]_vars => IInv' /\ Rest1' /\ Rest2'
  BY NextInvariant, NextRest, NextMore
<1>3. Rest2 => DependentsAccountedFor
  BY DEF Rest2, AllLeftBehind, Bereft, LeftBehind, DependentsAccountedFor, Done
<1> QED BY <1>1, <1>2, <1>3, PTL DEF Spec

-----------------------------------------------------------------------------
(* What is purged is not used.                                             *)

WasUsed(c) == c.reason = "was_used_by"

(* Something has been purged since the resolution last started.            *)
Started == \E n \in Names : \E c \in Constraints(n) \ Given(n) : WasUsed(c)

Purged ==
    {i \in CollectChanging.away : /\ Decision(i.name).kind = "remove"
                                  /\ \A c \in Constraints(i.name) : WasUsed(c)}

Unneeded ==
    \A i \in (Installed \ CollectChanging.away) \cup CollectChanging.new : \A p \in Purged : ~ DependsOn(i, p)

AllDecided == \A n \in Resolved(resolutions) : Decision(n) # Undecided

(* Once it has begun to purge, only purges are still decided upon.         *)
Purging ==
    /\ AllDecided /\ AllLeftBehind /\ Unneeded
    /\ adding.of # "dependencies"
    /\ stage = "dependents found" => ~ changed

Rounds ==
    /\ stage = "targets" => ~ Started
    /\ ~ system.purge => stage # "purging all"
    /\ ~ system.purge /\ Started => Purging

(* What has been purged has not only been so in an attempt that was        *)
(* abandoned: a preset would be there too.                                 *)
LEMMA NothingPurgedYet ==
    ASSUME IInv, Rest1, ~ Started
    PROVE  Purged = {}
<1> SUFFICES ASSUME NEW i \in Purged PROVE FALSE
  OBVIOUS
<1>1. /\ i \in CollectChanging.away /\ Decision(i.name).kind = "remove"
      /\ \A c \in Constraints(i.name) : WasUsed(c)
  BY DEF Purged
<1>2. i \in Installed
  BY <1>1, AwayMeans
<1>3. PICK n \in Names : n = i.name
  BY <1>2, InstalledNames
<1>4. Decision(n) # Undecided
  BY <1>1, <1>3 DEF Undecided
<1>5. n \in Resolved(resolutions)
  BY <1>4, UndecidedOutside
<1>6. Constraints(n) # {} /\ Given(n) \subseteq Constraints(n)
  BY <1>5 DEF Rest1, Listed
<1>7. PICK c \in Constraints(n) : WasUsed(c)
  BY <1>1, <1>3, <1>6
<1>8. c \in Given(n)
  BY <1>7 DEF Started
<1>9. n \in DOMAIN initial
  BY <1>8 DEF Given
<1>10. PICK x \in initial[n] : x.reason = "preset"
  BY <1>9 DEF Rest1, Listed
<1>11. x \in Constraints(n)
  BY <1>6, <1>9, <1>10 DEF Given
<1> QED BY <1>1, <1>3, <1>10, <1>11 DEF WasUsed

(* Another constraint is no purge.                                         *)
LEMMA NotStarted ==
    ASSUME Rest1, ~ Started, initial' = initial, NEW n \in Names, NEW c, NEW d,
           Updated(n, Had(n) \cup {c}, d), ~ WasUsed(c)
    PROVE  ~ Started'
<1> SUFFICES ASSUME NEW m \in Names, NEW x, x \in Constraints(m)', x \notin Given(m)', WasUsed(x)
             PROVE  FALSE
  BY DEF Started
<1>1. Given(m)' = Given(m)
  BY DEF Given
<1>2. CASE m = n
  <2>1. x \in Had(n) \cup {c}
    BY <1>2 DEF Updated
  <2>2. x \in Had(n)
    BY <2>1
  <2>3. x \in Constraints(n)
    BY <1>1, <1>2, <2>2 DEF Had
  <2> QED BY <1>1, <1>2, <2>3 DEF Started
<1>3. CASE m # n
  <2>1. x \in Constraints(m)
    BY <1>3 DEF Updated
  <2> QED BY <1>1, <2>1 DEF Started
<1> QED BY <1>2, <1>3

LEMMA NothingStarted ==
    ASSUME resolutions' = NoResolutions
    PROVE  ~ Started'
<1>1. \A n \in Names : Constraints(n)' = {}
  BY NothingResolved
<1> QED BY <1>1 DEF Started

LEMMA SameStarted ==
    ASSUME system' = system, resolutions' = resolutions, initial' = initial
    PROVE  /\ Started' <=> Started
           /\ AllDecided' <=> AllDecided
           /\ Purged' = Purged
           /\ Unneeded' <=> Unneeded
<1>1. \A n : Constraints(n)' = Constraints(n) /\ Decision(n)' = Decision(n) /\ Given(n)' = Given(n)
  BY SameResolutions DEF Given
<1>2. Resolved(resolutions)' = Resolved(resolutions)
  BY SameResolutions
<1>3. CollectChanging' = CollectChanging
  BY SameChanging
<1>4. Started' <=> Started
  BY <1>1 DEF Started, WasUsed
<1>5. AllDecided' <=> AllDecided
  BY <1>1, <1>2 DEF AllDecided, Undecided
<1>6. Purged' = Purged
  BY <1>1, <1>3 DEF Purged
<1>7. Unneeded' <=> Unneeded
  BY <1>3, <1>6, SystemIsFixed DEF Unneeded
<1> QED BY <1>4, <1>5, <1>6, <1>7

(* Steps of the loops that leave the resolutions as they are.              *)
LEMMA LoopRounds ==
    ASSUME IInv, Rest1, Rest2, Rounds, system' = system, resolutions' = resolutions, initial' = initial,
           stage' = "targets" => stage = "targets",
           ~ system.purge => stage' # "purging all" \/ stage = "purging all",
           adding'.of = "dependencies" => adding.of = "dependencies",
           Purging /\ stage' = "dependents found" => ~ changed'
    PROVE  Rounds'
<1>1. Started' <=> Started
  BY SameStarted
<1>2. Purging => Purging'
  <2> SUFFICES ASSUME Purging PROVE Purging'
    OBVIOUS
  <2>1. AllDecided' /\ Unneeded'
    BY SameStarted DEF Purging
  <2>2. AllLeftBehind'
    BY SameLeftBehind DEF Purging
  <2>3. adding'.of # "dependencies" /\ (stage' = "dependents found" => ~ changed')
    BY DEF Purging
  <2> QED BY <2>1, <2>2, <2>3 DEF Purging
<1> QED BY <1>1, <1>2 DEF Rounds

LEMMA FromTargetMeans ==
    ASSUME NEW target
    PROVE  ~ WasUsed(FromTarget(target))
BY DEF WasUsed, FromTarget, FromBlocker, FromSpec

LEMMA AddTargetRounds == IInv /\ Rest1 /\ Rest2 /\ Rounds /\ AddTarget => Rounds'
<1> SUFFICES ASSUME IInv, Rest1, Rest2, Rounds, AddTarget PROVE Rounds'
  OBVIOUS
<1> DEFINE target == system.targets[at]
<1>1. /\ IsSystem(system) /\ system' = system /\ adding' = adding /\ initial' = initial
      /\ at \in Nat \ {0} /\ at <= Len(system.targets) /\ stage' = stage /\ stage = "targets"
  BY DEF IInv, AddTarget
<1>2. PICK n \in Names : n = target.on
  <2>1. system.targets \in Seq(Dependencies)
    BY <1>1 DEF IsSystem
  <2>2. target \in Dependencies
    BY <1>1, <2>1
  <2> QED BY <2>2 DEF Dependencies
<1>3. PICK c : c = FromTarget(target)
  OBVIOUS
<1>4. resolutions' = ApplyConstraint(resolutions, n, c) \/ resolutions' = resolutions
  BY <1>2, <1>3 DEF AddTarget
<1>5. ~ Started
  BY <1>1 DEF Rounds
<1>6. ~ Started'
  <2>1. CASE resolutions' = resolutions
    BY <1>1, <1>5, <2>1, SameStarted
  <2>2. CASE resolutions' = ApplyConstraint(resolutions, n, c)
    <3>1. ApplyConstraint(resolutions, n, c).restart = {}
      <4>1. Good(resolutions) /\ resolutions.decision[n] = Undecided
        BY <1>1 DEF IInv
      <4> QED BY <4>1, AppliedIsInTheList
    <3>2. PICK d : Updated(n, Had(n) \cup {c}, d)
      BY <2>2, <3>1, AppliedEffect
    <3>3. ~ WasUsed(c)
      BY <1>3, FromTargetMeans
    <3> QED BY <1>1, <1>5, <3>2, <3>3, NotStarted
  <2> QED BY <1>4, <2>1, <2>2
<1> QED BY <1>1, <1>6 DEF Rounds

LEMMA DecideNextRounds == IInv /\ Rest1 /\ Rest2 /\ Rounds /\ ~ system.purge /\ DecideNext => Rounds'
<1> SUFFICES ASSUME IInv, Rest1, Rest2, Rounds, ~ system.purge, DecideNext PROVE Rounds'
  OBVIOUS
<1>1. /\ system' = system /\ initial' = initial /\ stage' = stage /\ stage \notin {"targets", "purging all"}
  BY DEF DecideNext, Deciding
<1>2. PICK n \in Resolved(resolutions) :
         /\ n \in Names /\ Decision(n) = Undecided
         /\ Updated(n, Constraints(n), BestDecision(n, Constraints(n)))
  BY DecideEffect
<1>3. ~ Started
  BY <1>2 DEF Rounds, Purging, AllDecided
<1>4. ~ Started'
  <2>1. \A m \in Names : Constraints(m)' = Constraints(m) /\ Given(m)' = Given(m)
    BY <1>1, <1>2 DEF Updated, Given
  <2> QED BY <1>3, <2>1 DEF Started
<1> QED BY <1>1, <1>4 DEF Rounds

LEMMA AddDependencyRounds ==
    ASSUME IInv, Rest1, Rest2, Rounds, ~ system.purge, NEW dep, AddDependency(dep)
    PROVE  Rounds'
<1> DEFINE r == WithDependency(resolutions, adding.name, dep)
<1>1. /\ system' = system /\ adding.of = "dependencies" /\ dep \in adding.left
      /\ adding.name \in Names /\ dep \in Dependencies
  BY DEF IInv, AddDependency, Adds
<1>2. PICK n \in Names, m \in Names : n = adding.name /\ m = dep.on
  BY <1>1 DEF Dependencies
<1>3. PICK interest : interest = InterestInSpec(dep, resolutions.decision[n])
  OBVIOUS
<1>4. PICK c : c = FromDependency(dep, n, interest)
  OBVIOUS
<1>5. r = resolutions \/ r = ApplyConstraint(resolutions, m, c)
  BY <1>2, <1>3, <1>4 DEF WithDependency
<1>6. \/ Restart(r)
      \/ r.restart = {} /\ resolutions' = r /\ stage' = stage /\ initial' = initial
  BY DEF AddDependency
<1> HIDE DEF r
<1>7. ~ Started
  BY <1>1 DEF Rounds, Purging
<1>8. stage \notin {"targets", "purging all"}
  <2>1. NothingLeft.of = "nothing"
    BY DEF NothingLeft
  <2>2. adding = NothingLeft \/ Deciding \/ adding.of = "dependent"
    BY DEF Rest1, Phases
  <2> QED BY <1>1, <2>1, <2>2 DEF Deciding
<1>9. CASE Restart(r)
  <2>1. resolutions' = NoResolutions /\ stage' \in {"targets", "given up"}
    BY <1>9 DEF Restart
  <2>2. ~ Started'
    BY <2>1, NothingStarted
  <2> QED BY <2>1, <2>2 DEF Rounds
<1>10. CASE r.restart = {} /\ resolutions' = r /\ stage' = stage /\ initial' = initial
  <2>1. CASE r = resolutions
    <3>1. ~ Started'
      BY <1>1, <1>7, <1>10, <2>1, SameStarted
    <3> QED BY <1>8, <1>10, <3>1 DEF Rounds
  <2>2. CASE r = ApplyConstraint(resolutions, m, c)
    <3>1. PICK d : Updated(m, Had(m) \cup {c}, d)
      BY <1>10, <2>2, AppliedEffect
    <3>2. ~ WasUsed(c)
      BY <1>4, FromDependencyMeans DEF WasUsed
    <3>3. ~ Started'
      BY <1>7, <1>10, <3>1, <3>2, NotStarted
    <3> QED BY <1>8, <1>10, <3>3 DEF Rounds
  <2> QED BY <1>5, <2>1, <2>2
<1> QED BY <1>6, <1>9, <1>10

(* A dependent that is left behind stays so: nothing else changes.         *)
LEMMA AddDependentRounds ==
    ASSUME IInv, Rest1, Rest2, Rounds, ~ system.purge, NEW away, AddDependent(away)
    PROVE  Rounds'
<1>1. PICK n \in Names : \E c : AddsDependent(away, n, c)
  BY AddDependentMeans DEF Rest1
<1>2. PICK c : AddsDependent(away, n, c)
  BY <1>1
<1>3. CASE Restart(ApplyConstraint(resolutions, n, c))
  <2>1. resolutions' = NoResolutions /\ stage' \in {"targets", "given up"}
    BY <1>3, RestartEffect
  <2>2. ~ Started'
    BY <2>1, NothingStarted
  <2> QED BY <2>1, <2>2 DEF Rounds
<1>4. CASE ~ Restart(ApplyConstraint(resolutions, n, c))
  <2>1. /\ system' = system /\ initial' = initial /\ stage' = stage /\ changing' = changing
        /\ n = adding.name /\ c = FromDependent(n, {away.name}) /\ adding.of = "dependent"
        /\ adding' = Left("dependent", n, adding.left \ {away})
    BY <1>2, <1>4 DEF AddsDependent
  <2>2. stage = "dependents found"
    <3>1. adding = NothingLeft \/ adding.of = "dependencies" \/ stage = "dependents found"
      BY DEF Rest1, Phases
    <3>2. NothingLeft.of = "nothing"
      BY DEF NothingLeft
    <3> QED BY <2>1, <3>1, <3>2
  <2>3. PICK d : /\ Updated(n, Had(n) \cup {c}, d)
                 /\ Outcome(n, c, d) \/ (d = Broken /\ Decision(n) = Undecided)
                 /\ changed' = changed \/ d = Undecided
    <3>1. CASE /\ ApplyConstraint(resolutions, n, c).restart = {}
               /\ resolutions' = ApplyConstraint(resolutions, n, c)
               /\ changed' = changed \/ Decision(n)' = Undecided
      <4>1. PICK d : Updated(n, Had(n) \cup {c}, d) /\ Outcome(n, c, d)
        BY <3>1, AppliedEffect
      <4>2. Decision(n)' = d
        BY <4>1 DEF Updated
      <4> QED BY <3>1, <4>1, <4>2
    <3>2. CASE Updated(n, Had(n) \cup {c}, Broken) /\ Decision(n) = Undecided /\ changed' = changed
      BY <3>2
    <3> QED BY <1>2, <1>4, <3>1, <3>2 DEF AddsDependent
  <2>4. ~ WasUsed(c)
    BY <2>1, FromDependentMeans DEF WasUsed
  <2>5. CASE ~ Started
    <3>1. ~ Started'
      BY <2>1, <2>3, <2>4, <2>5, NotStarted
    <3> QED BY <2>1, <2>2, <3>1 DEF Rounds
  <2>6. CASE Started
    <3>1. Purging /\ ~ changed
      BY <2>2, <2>6 DEF Rounds, Purging
    <3>2. changing = CollectChanging /\ \E i \in Installed : i.name = n /\ Bereft(i, changing)
      BY <2>1, <2>2, <3>1 DEF Rest2, Dependents
    <3>3. PICK i0 \in Installed : i0.name = n /\ Bereft(i0, CollectChanging)
      BY <3>2
    <3>4. LeftBehind(n)
      BY <3>1, <3>3 DEF Purging, AllLeftBehind
    <3>5. IsInstalled(n) /\ ~ Going(n) /\ Decision(n) # Undecided
      BY <3>3, <3>4, InstalledIsInstalled DEF LeftBehind, Going, Undecided
    <3>6. d.kind \in {"break", "unable"}
      <4>1. Outcome(n, c, d)
        BY <2>3, <3>5
      <4>2. d = Undecided \/ d.kind \in {"break", "unable"}
        BY <2>1, <3>5, <4>1, DependentOutcome DEF Rest1
      <4>3. d # Undecided
        BY <3>5, <4>1, OutcomeIsKinded DEF Rest1
      <4> QED BY <4>2, <4>3
    <3>7. d # Undecided
      BY <3>6 DEF Undecided
    <3>8. /\ Resolved(resolutions)' = Resolved(resolutions) \cup {n}
          /\ Decision(n)' = d
          /\ \A m \in Names \ {n} : Decision(m)' = Decision(m) /\ Constraints(m)' = Constraints(m)
      BY <2>3 DEF Updated
    <3>9. CollectChanging' = CollectChanging
      BY <2>1, <3>5, <3>6, <3>8, StillSameChanging
    <3>10. AllDecided'
      <4>1. \A m \in Resolved(resolutions)' : m = n \/ (m \in Names \ {n} /\ Decision(m) # Undecided)
        BY <3>1, <3>8, ResolvedNames DEF Purging, AllDecided
      <4>2. \A m \in Resolved(resolutions)' : Decision(m)' # Undecided
        BY <3>7, <3>8, <4>1
      <4>3. Undecided' = Undecided
        BY DEF Undecided
      <4> QED BY <4>2, <4>3 DEF AllDecided
    <3>11. AllLeftBehind'
      <4> SUFFICES ASSUME NEW i, Bereft(i, CollectChanging)' PROVE LeftBehind(i.name)'
        BY DEF AllLeftBehind
      <4>1. PICK all : all = CollectChanging
        OBVIOUS
      <4>2. Bereft(i, all)'
        BY <3>9, <4>1 DEF Bereft
      <4>3. Bereft(i, all)
        BY <2>1, <4>2, BereftIsFixed
      <4>4. LeftBehind(i.name) /\ i \in Installed
        BY <3>1, <4>1, <4>3 DEF Purging, AllLeftBehind, Bereft
      <4>5. PICK m \in Names : m = i.name
        BY <4>4, InstalledNames
      <4>6. CASE m = n
        BY <3>6, <3>8, <4>5, <4>6 DEF LeftBehind
      <4>7. CASE m # n
        <5>1. Decision(m)' = Decision(m) /\ LeftBehind(m)
          BY <3>8, <4>4, <4>5, <4>7
        <5>2. LeftBehind(m)'
          BY <5>1 DEF LeftBehind
        <5> QED BY <4>5, <5>2
      <4> QED BY <4>6, <4>7
    <3>12. Purged' \subseteq Purged
      <4> SUFFICES ASSUME NEW i \in Purged' PROVE i \in Purged
        OBVIOUS
      <4>1. i \in CollectChanging.away
        BY <3>9 DEF Purged
      <4>2. PICK m \in Names : m = i.name
        BY <4>1, AwayMeans, InstalledNames
      <4>3. Decision(m)'.kind = "remove" /\ \A x \in Constraints(m)' : WasUsed(x)
        BY <4>2 DEF Purged, WasUsed
      <4>4. m # n
        BY <3>6, <3>8, <4>3
      <4>5. Decision(m)' = Decision(m) /\ Constraints(m)' = Constraints(m)
        BY <3>8, <4>4
      <4> QED BY <4>1, <4>2, <4>3, <4>5 DEF Purged
    <3>13. Unneeded'
      <4>1. Unneeded
        BY <3>1 DEF Purging
      <4> QED BY <2>1, <3>9, <3>12, <4>1, SystemIsFixed DEF Unneeded
    <3>14. ~ changed'
      BY <2>3, <3>1, <3>7
    <3>15. adding'.of # "dependencies"
      BY <2>1, LeftMeans
    <3>16. Purging'
      BY <3>10, <3>11, <3>13, <3>14, <3>15 DEF Purging
    <3> QED BY <2>1, <2>2, <3>16 DEF Rounds
  <2> QED BY <2>5, <2>6
<1> QED BY <1>3, <1>4

LEMMA ResolvePurgeRounds ==
    ASSUME IInv, Rest1, Rest2, Rounds, ~ system.purge, NEW id \in Installed, ResolvePurge(id)
    PROVE  Rounds'
<1>1. PICK n \in Names : n = id.name
  BY InstalledNames
<1>2. /\ system' = system /\ initial' = initial /\ adding' = adding /\ stage' = stage
      /\ stage \in {"purges found", "purging all"} /\ id \in pending /\ IsSystem(system)
  BY DEF ResolvePurge, IInv
<1>3. stage = "purges found" /\ stage' = "purges found"
  BY <1>2 DEF Rounds
<1>4. adding.of # "dependencies"
  <2>1. adding = NothingLeft
    BY <1>3 DEF Rest1, Phases, Deciding
  <2> QED BY <2>1 DEF NothingLeft
<1>5. CASE resolutions' = resolutions
  BY <1>2, <1>3, <1>5, LoopRounds
<1>6. ASSUME NEW cs, Decision(n) = Undecided,
             cs = Had(n) \cup {FromPurge(n, {u.name : u \in {a \in changing.away : DependsOn(a, id)}})},
             Updated(n, cs, BestDecision(n, cs))
      PROVE  Rounds'
  <2>1. AllDecided /\ Unneeded
    <3>1. AllDecided
      BY <1>3 DEF Rest1, DecidedUpon, AllDecided
    <3>2. CASE Started
      BY <3>1, <3>2 DEF Rounds, Purging
    <3>3. CASE ~ Started
      <4>1. Purged = {}
        BY <3>3, NothingPurgedYet
      <4> QED BY <3>1, <4>1 DEF Unneeded
    <3> QED BY <3>2, <3>3
  <2>2. PICK d : d = BestDecision(n, cs)
    OBVIOUS
  <2>3. d.kind \in {"nothing", "remove", "unable"}
    <3>1. PICK c \in cs : c.accepts = {}
      BY <1>6, FromPurgeMeans
    <3> QED BY <1>2, <2>2, <3>1, NothingAccepted
  <2>4. /\ Decision(n)' = d
        /\ Resolved(resolutions)' = Resolved(resolutions) \cup {n}
        /\ \A m \in Names \ {n} : Decision(m)' = Decision(m) /\ Constraints(m)' = Constraints(m)
    BY <1>6, <2>2 DEF Updated
  <2>5. PICK was, gone : was = CollectChanging /\ gone = {i \in Installed : i.name = n /\ d.kind = "remove" /\ d.taken}
    OBVIOUS
  <2>6. CollectChanging'.new = was.new /\ CollectChanging'.away = was.away \cup gone
    BY <1>2, <1>6, <2>3, <2>4, <2>5, OneMoreRemoved
  <2>7. gone \subseteq {id}
    BY <1>1, <2>5, OneVersionInstalled
  <2>8. AllDecided'
    <3>1. \A m \in Resolved(resolutions)' : m = n \/ (m \in Names \ {n} /\ Decision(m) # Undecided)
      BY <2>1, <2>4, ResolvedNames DEF AllDecided
    <3>2. d # Undecided
      BY <2>3 DEF Undecided
    <3>3. \A m \in Resolved(resolutions)' : Decision(m)' # Undecided
      BY <2>4, <3>1, <3>2
    <3>4. Undecided' = Undecided
      BY DEF Undecided
    <3> QED BY <3>3, <3>4 DEF AllDecided
  <2>9. AllLeftBehind'
    BY <1>3, ResolvePurgeMore DEF Rest2
  <2>10. Purged' \subseteq Purged \cup {id}
    <3> SUFFICES ASSUME NEW i \in Purged', i # id PROVE i \in Purged
      OBVIOUS
    <3>1. i \in CollectChanging.away
      BY <2>5, <2>6, <2>7 DEF Purged
    <3>2. i \in Installed /\ Going(i.name)
      BY <3>1, AwayMeans
    <3>3. PICK m \in Names : m = i.name
      BY <3>2, InstalledNames
    <3>4. Decision(m)'.kind = "remove" /\ \A x \in Constraints(m)' : WasUsed(x)
      BY <3>3 DEF Purged, WasUsed
    <3>5. m # n
      BY <1>6, <3>2, <3>3 DEF Going, Undecided
    <3>6. Decision(m)' = Decision(m) /\ Constraints(m)' = Constraints(m)
      BY <2>4, <3>5
    <3> QED BY <3>1, <3>3, <3>4, <3>6 DEF Purged
  <2>11. \A i \in (Installed \ was.away) \cup was.new : ~ DependsOn(i, id)
    <3>1. /\ changing.new = was.new /\ changing.away \subseteq was.away
          /\ \A i \in (Installed \ changing.away) \cup changing.new : ~ DependsOn(i, id)
      BY <1>2, <1>3, <2>5 DEF Rest2, Purges
    <3> QED BY <3>1
  <2>12. Unneeded'
    <3>1. \A i \in (Installed \ was.away) \cup was.new : \A p \in Purged : ~ DependsOn(i, p)
      BY <2>1, <2>5 DEF Unneeded
    <3>2. \A i \in (Installed \ was.away) \cup was.new : \A p \in Purged' : ~ DependsOn(i, p)
      BY <2>10, <2>11, <3>1
    <3>3. (Installed' \ CollectChanging'.away) \cup CollectChanging'.new \subseteq (Installed \ was.away) \cup was.new
      BY <1>2, <2>6, SystemIsFixed
    <3> QED BY <1>2, <3>2, <3>3, SystemIsFixed DEF Unneeded
  <2>13. Purging'
    BY <1>2, <1>3, <1>4, <2>8, <2>9, <2>12 DEF Purging
  <2> QED BY <1>3, <2>13 DEF Rounds
<1> QED BY <1>1, <1>5, <1>6, PurgeEffect

LEMMA ResolveDependentRounds ==
    ASSUME IInv, Rest1, Rest2, Rounds, NEW id \in Installed, ResolveDependent(id)
    PROVE  Rounds'
<1>1. PICK n \in Names : n = id.name
  BY InstalledNames
<1>2. /\ system' = system /\ resolutions' = resolutions /\ initial' = initial
      /\ stage' = stage /\ stage = "dependents found" /\ id \in pending
      /\ changed' = (changed \/ (n \in system.removeIfDependent /\ n \notin Resolved(resolutions)))
      /\ adding' = Left("dependent", n, DependentUpon(id, changing.away, changing.new))
  BY <1>1 DEF ResolveDependent
<1>3. adding'.of # "dependencies"
  BY <1>2, LeftMeans
<1>4. ASSUME Purging PROVE ~ changed'
  <2>1. ~ changed
    BY <1>2, <1>4 DEF Purging
  <2>2. Bereft(id, CollectChanging)
    BY <1>2, <2>1 DEF Rest2, Dependents
  <2>3. LeftBehind(n)
    BY <1>1, <1>4, <2>2 DEF Purging, AllLeftBehind
  <2>4. n \in Resolved(resolutions)
    <3>1. Decision(n) # Undecided
      BY <2>3 DEF LeftBehind, Undecided
    <3> QED BY <3>1, UndecidedOutside
  <2> QED BY <1>2, <2>1, <2>4
<1> QED BY <1>2, <1>3, <1>4, LoopRounds

LEMMA OtherRounds ==
    ASSUME IInv, Rest1, Rest2, Rounds,
           \/ TargetsAdded \/ Purge \/ EndPass \/ FindDependents \/ DependentsResolved \/ FindPurges
           \/ PurgesResolved \/ UNCHANGED vars
    PROVE  Rounds'
<1>1. /\ system' = system /\ resolutions' = resolutions /\ initial' = initial /\ adding' = adding
  BY DEF TargetsAdded, Purge, EndPass, FindDependents, DependentsResolved, FindPurges, PurgesResolved, vars
<1>2. \/ stage' \notin {"targets", "purging all", "dependents found"}
      \/ stage' = "purging all" /\ system.purge
      \/ stage' = "dependents found" /\ ~ changed'
      \/ stage' = stage /\ changed' = changed
  <2>1. CASE TargetsAdded \/ FindPurges
    BY <2>1 DEF TargetsAdded, FindPurges
  <2>2. CASE Purge
    BY <2>2 DEF Purge
  <2>3. CASE EndPass
    <3>1. /\ stage \in {"non_suggestions", "nothings", "suggestions"}
          /\ stage' = IF changed THEN stage ELSE NextPass[stage]
      BY <2>3 DEF EndPass, Deciding
    <3>2. NextPass.non_suggestions = "nothings" /\ NextPass.nothings = "suggestions" /\ NextPass.suggestions = "dependents"
      BY DEF NextPass
    <3>3. CASE changed
      BY <3>1, <3>3
    <3>4. CASE ~ changed
      <4>1. stage' = NextPass[stage]
        BY <3>1, <3>4
      <4>2. stage' \in {"nothings", "suggestions", "dependents"}
        BY <3>1, <3>2, <4>1
      <4> QED BY <4>2
    <3> QED BY <3>3, <3>4
  <2>4. CASE FindDependents
    <3>1. stage' = (IF pending' = {} THEN "purges" ELSE "dependents found") /\ changed' = FALSE
      BY <2>4 DEF FindDependents
    <3> QED BY <3>1
  <2>5. CASE DependentsResolved
    <3>1. stage' = IF changed THEN "non_suggestions" ELSE "purges"
      BY <2>5 DEF DependentsResolved
    <3> QED BY <3>1
  <2>6. CASE PurgesResolved
    <3>1. stage' = IF changed \/ stage = "purging all" THEN "non_suggestions" ELSE "done"
      BY <2>6 DEF PurgesResolved
    <3> QED BY <3>1
  <2>7. CASE UNCHANGED vars
    BY <2>7 DEF vars
  <2> QED BY <2>1, <2>2, <2>3, <2>4, <2>5, <2>6, <2>7
<1>3. Purging /\ stage' = "dependents found" => ~ changed'
  BY <1>2 DEF Purging
<1> QED BY <1>1, <1>2, <1>3, LoopRounds

(* cave purge: all that nothing in world needs.                            *)
Unused == Installed \ Closure({i \in Installed : i.name \in system.world})

IsFine(c) == c.nothing_is_fine_too /\ ~ c.force_unable

ToBePurged(n) ==
    /\ Decision(n).kind = "remove"
    /\ \E c \in Constraints(n) : c.accepts = {} /\ WasUsed(c)

(* A purge decides upon nothing but what is unused, and nothing but that   *)
(* it is to be removed.                                                    *)
PurgesOnly ==
    system.purge =>
        /\ \A n \in Names : \A c \in Constraints(n) \cup Given(n) : IsFine(c)
        /\ \A n \in Resolved(resolutions) : ToBePurged(n) /\ \E i \in Unused : i.name = n
        /\ adding.of # "dependencies"
        /\ stage = "dependents found" => ~ changed
        /\ stage \notin {"targets", "given up"} =>
              \A i \in Unused : i.name \in Resolved(resolutions) \/ (stage = "purging all" /\ i \in pending)
        /\ stage \in {"purging all", "purges found"} => pending \subseteq Unused

LEMMA ClosureMeans ==
    ASSUME NEW ids
    PROVE  /\ Closure(ids) \subseteq Installed
           /\ \A j \in Closure(ids) : DeppedUpon(j, Installed) \subseteq Closure(ids)
           /\ \A closed \in SUBSET Installed :
                 ids \subseteq closed /\ (\A j \in closed : DeppedUpon(j, Installed) \subseteq closed)
                     => Closure(ids) \subseteq closed
           /\ ids \subseteq Installed => ids \subseteq Closure(ids)
<1>1. \A i : i \in Closure(ids) <=>
                /\ i \in Installed
                /\ \A closed \in SUBSET Installed :
                      ids \subseteq closed /\ (\A j \in closed : DeppedUpon(j, Installed) \subseteq closed) => i \in closed
  BY DEF Closure
<1>2. \A j : DeppedUpon(j, Installed) \subseteq Installed
  BY DEF DeppedUpon
<1>3. ASSUME NEW j \in Closure(ids), NEW x \in DeppedUpon(j, Installed)
      PROVE  x \in Closure(ids)
  <2>1. x \in Installed
    BY <1>2
  <2>2. ASSUME NEW closed \in SUBSET Installed, ids \subseteq closed,
               \A k \in closed : DeppedUpon(k, Installed) \subseteq closed
        PROVE  x \in closed
    <3>1. j \in closed
      BY <1>1, <2>2
    <3> QED BY <2>2, <3>1
  <2> QED BY <1>1, <2>1, <2>2
<1>4. \A closed \in SUBSET Installed :
         ids \subseteq closed /\ (\A j \in closed : DeppedUpon(j, Installed) \subseteq closed)
             => Closure(ids) \subseteq closed
  BY <1>1
<1> QED BY <1>1, <1>3, <1>4

LEMMA UnusedIsFixed ==
    ASSUME system' = system
    PROVE  Unused' = Unused
<1>1. Installed' = Installed /\ \A j : DeppedUpon(j, Installed)' = DeppedUpon(j, Installed)
  BY SystemIsFixed DEF DeppedUpon
<1>2. PICK ids : ids = {i \in Installed : i.name \in system.world}
  OBVIOUS
<1>3. {i \in Installed : i.name \in system.world}' = ids
  BY <1>1, <1>2
<1>4. Closure(ids)' = Closure(ids)
  <2> HIDE DEF Installed, DeppedUpon
  <2> QED BY <1>1 DEF Closure
<1>5. Unused = Installed \ Closure(ids)
  BY <1>2 DEF Unused
<1>6. Unused' = Installed' \ Closure(ids)'
  BY <1>3 DEF Unused, Closure
<1> QED BY <1>1, <1>4, <1>5, <1>6

(* What may go may be removed.                                             *)
LEMMA RemovalIsFound ==
    ASSUME NEW n \in Names, IsInstalled(n), NEW cs, \A c \in cs : IsFine(c),
           \E c \in cs : c.accepts = {}, \E c \in cs : WasUsed(c)
    PROVE  /\ TryToFindDecision(n, cs, TRUE, TRUE) # {}
           /\ BestDecision(n, cs) = Without("remove", cs)
<1>1. NothingIsFineToo(cs) /\ ~ AnyForceUnable(cs)
  BY DEF IsFine, NothingIsFineToo, AnyForceUnable
<1>2. ExistingFor(n, cs) = {} /\ InstallableFor(n, cs, FALSE) = {}
  BY DEF ExistingFor, InstallableFor
<1>3. AllowedToRemove(n, cs)
  BY DEF AllowedToRemove, WasUsed
<1>4. Attempt(n, cs, FALSE, TRUE) = {Without("remove", cs)}
  BY <1>1, <1>2, <1>3 DEF Attempt
<1>5. TryToFindDecision(n, cs, TRUE, TRUE) = {Without("remove", cs)}
  <2>1. TryToFindDecision(n, cs, TRUE, TRUE) = Attempt(n, cs, FALSE, TRUE)
    BY <1>1, <1>4 DEF TryToFindDecision
  <2> QED BY <1>4, <2>1
<1>6. BestDecision(n, cs) = Without("remove", cs)
  BY <1>5 DEF BestDecision
<1> QED BY <1>5, <1>6

LEMMA WithoutMeans == \A kind, cs : Without(kind, cs).kind = kind
BY DEF Without

(* Only what is unused goes, and nothing comes.                            *)
LEMMA AwayIsUnused ==
    ASSUME IInv, PurgesOnly, system.purge
    PROVE  CollectChanging.away \subseteq Unused /\ CollectChanging.new = {}
<1>1. \A n \in Names : Decision(n).kind # "undecided" => ToBePurged(n) /\ \E i \in Unused : i.name = n
  <2> SUFFICES ASSUME NEW n \in Names, Decision(n).kind # "undecided" PROVE n \in Resolved(resolutions)
    BY DEF PurgesOnly
  <2>1. Decision(n) # Undecided
    BY DEF Undecided
  <2> QED BY <2>1, UndecidedOutside
<1>2. TakenOf("change") = {}
  BY <1>1 DEF TakenOf, ToBePurged, Decision
<1>3. CollectChanging.new = {}
  BY <1>2 DEF CollectChanging
<1>4. ASSUME NEW i \in CollectChanging.away PROVE i \in Unused
  <2>1. i \in Installed /\ Going(i.name) /\ i.name \in Names
    BY AwayMeans, InstalledNames
  <2>2. PICK j \in Unused : j.name = i.name
    BY <1>1, <2>1 DEF Going
  <2>3. j \in Installed
    BY DEF Unused
  <2> QED BY <2>1, <2>2, <2>3, OneVersionInstalled
<1> QED BY <1>3, <1>4

(* What world needs is not left behind, since what it needs is needed too. *)
LEMMA NothingNeededIsBereft ==
    ASSUME IInv, PurgesOnly, system.purge, NEW i, Bereft(i, CollectChanging)
    PROVE  i \in Unused
<1>1. PICK a : a \in CollectChanging.away /\ DependsOn(i, a) /\ i \in Installed
  BY BereftMeans DEF Bereft
<1>2. a \in Unused /\ a \in Installed
  BY <1>1, AwayIsUnused DEF Unused
<1>3. a \in DeppedUpon(i, Installed)
  BY <1>1, <1>2 DEF DeppedUpon
<1> QED BY <1>1, <1>2, <1>3, ClosureMeans DEF Unused

LEMMA PurgeOnly == IInv /\ Rest1 /\ PurgesOnly /\ system.purge /\ Purge => PurgesOnly'
<1> SUFFICES ASSUME IInv, Rest1, PurgesOnly, system.purge, Purge PROVE PurgesOnly'
  OBVIOUS
<1>1. /\ system' = system /\ resolutions' = resolutions /\ initial' = initial /\ adding' = adding
      /\ stage' = "purging all" /\ pending' = Unused
  BY DEF Purge, Unused
<1>2. Unused' = Unused
  BY <1>1, UnusedIsFixed
<1>3. \A n : Constraints(n)' = Constraints(n) /\ Given(n)' = Given(n) /\ (ToBePurged(n)' <=> ToBePurged(n))
  BY <1>1, SameResolutions DEF Given, ToBePurged, WasUsed
<1>4. Resolved(resolutions)' = Resolved(resolutions)
  BY <1>1, SameResolutions
<1>5. \A n \in Names : \A c \in Constraints(n)' \cup Given(n)' : IsFine(c)'
  BY <1>3 DEF PurgesOnly, IsFine
<1> QED BY <1>1, <1>2, <1>3, <1>4, <1>5 DEF PurgesOnly

(* Steps of the loops that leave the resolutions as they are.              *)
LEMMA LoopPurgesOnly ==
    ASSUME IInv, PurgesOnly, system.purge, system' = system, resolutions' = resolutions, initial' = initial,
           adding'.of = "dependencies" => adding.of = "dependencies",
           stage' = "dependents found" => ~ changed',
           stage \in {"targets", "given up"} => stage' \in {"targets", "given up"},
           stage = "purging all" => pending = {} \/ (stage' = stage /\ pending' = pending),
           stage' \in {"purging all", "purges found"} => pending' \subseteq Unused
    PROVE  PurgesOnly'
<1>1. Unused' = Unused
  BY UnusedIsFixed
<1>2. \A n : Constraints(n)' = Constraints(n) /\ Given(n)' = Given(n) /\ (ToBePurged(n)' <=> ToBePurged(n))
  BY SameResolutions DEF Given, ToBePurged, WasUsed
<1>3. Resolved(resolutions)' = Resolved(resolutions)
  BY SameResolutions
<1>4. \A n \in Names : \A c \in Constraints(n)' \cup Given(n)' : IsFine(c)'
  BY <1>2 DEF PurgesOnly, IsFine
<1>5. \A n \in Resolved(resolutions)' : ToBePurged(n)' /\ \E i \in Unused' : i.name = n
  BY <1>1, <1>2, <1>3 DEF PurgesOnly
<1>6. stage' \notin {"targets", "given up"} =>
         \A i \in Unused' : i.name \in Resolved(resolutions)' \/ (stage' = "purging all" /\ i \in pending')
  <2> SUFFICES ASSUME stage' \notin {"targets", "given up"}, NEW i \in Unused
               PROVE  i.name \in Resolved(resolutions) \/ (stage' = "purging all" /\ i \in pending')
    BY <1>1, <1>3
  <2>1. i.name \in Resolved(resolutions) \/ (stage = "purging all" /\ i \in pending)
    BY DEF PurgesOnly
  <2> QED BY <2>1
<1>7. adding'.of # "dependencies" /\ (stage' \in {"purging all", "purges found"} => pending' \subseteq Unused')
  BY <1>1 DEF PurgesOnly
<1> QED BY <1>4, <1>5, <1>6, <1>7 DEF PurgesOnly

(* What is newly unused, and not in world, is not needed by world: without *)
(* it, what world needs would still be all that world needs.               *)
LEMMA NewlyUnusedIsUnused ==
    ASSUME IInv, PurgesOnly, system.purge, NEW p \in NewlyReallyUnused(CollectChanging), p.name \notin system.world
    PROVE  p \in Unused
<1>1. PICK ids : ids = {i \in Installed : i.name \in system.world}
  OBVIOUS
<1>2. PICK needed : needed = Closure(ids)
  OBVIOUS
<1>3. p \in Installed /\ \A i \in Installed \ CollectChanging.away : ~ DependsOn(i, p)
  BY ReallyUnused
<1>4. Unused = Installed \ needed
  BY <1>1, <1>2 DEF Unused
<1>5. \A i \in needed : ~ DependsOn(i, p)
  <2>1. needed \subseteq Installed
    BY <1>2, ClosureMeans
  <2> QED BY <1>3, <1>4, <2>1, AwayIsUnused
<1>6. \A j \in needed \ {p} : DeppedUpon(j, Installed) \subseteq needed \ {p}
  <2> SUFFICES ASSUME NEW j \in needed \ {p}, NEW x \in DeppedUpon(j, Installed) PROVE x \in needed \ {p}
    OBVIOUS
  <2>1. x \in needed
    BY <1>2, ClosureMeans
  <2>2. DependsOn(j, x)
    BY DEF DeppedUpon
  <2> QED BY <1>5, <2>1, <2>2
<1>7. ids \subseteq needed \ {p} /\ needed \ {p} \in SUBSET Installed
  <2>1. ids \subseteq Installed /\ p \notin ids
    BY <1>1
  <2> QED BY <1>2, <2>1, ClosureMeans
<1>8. needed \subseteq needed \ {p}
  BY <1>2, <1>6, <1>7, ClosureMeans
<1> QED BY <1>3, <1>4, <1>8

LEMMA OtherPurgesOnly ==
    ASSUME IInv, Rest1, PurgesOnly, system.purge,
           \/ EndPass \/ FindDependents \/ DependentsResolved \/ FindPurges \/ PurgesResolved \/ UNCHANGED vars
    PROVE  PurgesOnly'
<1>1. /\ system' = system /\ resolutions' = resolutions /\ initial' = initial /\ adding' = adding
  BY DEF EndPass, FindDependents, DependentsResolved, FindPurges, PurgesResolved, vars
<1>2. CASE EndPass
  <2>1. /\ stage \in {"non_suggestions", "nothings", "suggestions"}
        /\ stage' = IF changed THEN stage ELSE NextPass[stage]
    BY <1>2 DEF EndPass, Deciding
  <2>2. NextPass.non_suggestions = "nothings" /\ NextPass.nothings = "suggestions" /\ NextPass.suggestions = "dependents"
    BY DEF NextPass
  <2>3. stage' \in {"non_suggestions", "nothings", "suggestions", "dependents"}
    <3>1. CASE changed
      BY <2>1, <3>1
    <3>2. CASE ~ changed
      <4>1. stage' = NextPass[stage]
        BY <2>1, <3>2
      <4> QED BY <2>1, <2>2, <4>1
    <3> QED BY <3>1, <3>2
  <2> QED BY <1>1, <2>1, <2>3, LoopPurgesOnly
<1>3. CASE FindDependents
  <2>1. /\ stage = "dependents" /\ changed' = FALSE
        /\ stage' = IF pending' = {} THEN "purges" ELSE "dependents found"
    BY <1>3 DEF FindDependents
  <2>2. stage' \in {"purges", "dependents found"} /\ ~ changed'
    BY <2>1
  <2> QED BY <1>1, <2>1, <2>2, LoopPurgesOnly
<1>4. CASE DependentsResolved
  <2>1. stage = "dependents found" /\ stage' = IF changed THEN "non_suggestions" ELSE "purges"
    BY <1>4 DEF DependentsResolved
  <2>2. stage' \in {"non_suggestions", "purges"}
    BY <2>1
  <2> QED BY <1>1, <2>1, <2>2, LoopPurgesOnly
<1>5. CASE FindPurges
  <2>1. stage = "purges" /\ stage' = "purges found"
    BY <1>5 DEF FindPurges
  <2>2. pending' \subseteq Unused
    <3>1. \A p \in pending' : p \in NewlyReallyUnused(CollectChanging) /\ p.name \notin system.world
      BY <1>5 DEF FindPurges
    <3> QED BY <3>1, NewlyUnusedIsUnused
  <2> QED BY <1>1, <2>1, <2>2, LoopPurgesOnly
<1>6. CASE PurgesResolved
  <2>1. /\ stage \in {"purges found", "purging all"} /\ pending = {}
        /\ stage' = IF changed \/ stage = "purging all" THEN "non_suggestions" ELSE "done"
    BY <1>6 DEF PurgesResolved
  <2>2. stage' \in {"non_suggestions", "done"}
    BY <2>1
  <2> QED BY <1>1, <2>1, <2>2, LoopPurgesOnly
<1>7. CASE UNCHANGED vars
  <2>1. stage' = stage /\ changed' = changed /\ pending' = pending
    BY <1>7 DEF vars
  <2>2. stage' = "dependents found" => ~ changed'
    BY <2>1 DEF PurgesOnly
  <2>3. stage' \in {"purging all", "purges found"} => pending' \subseteq Unused
    BY <2>1 DEF PurgesOnly
  <2> QED BY <1>1, <2>1, <2>2, <2>3, LoopPurgesOnly
<1> QED BY <1>2, <1>3, <1>4, <1>5, <1>6, <1>7

LEMMA ResolveDependentPurgesOnly ==
    ASSUME IInv, Rest1, Rest2, PurgesOnly, system.purge, NEW id \in Installed, ResolveDependent(id)
    PROVE  PurgesOnly'
<1>1. PICK n \in Names : n = id.name
  BY InstalledNames
<1>2. /\ system' = system /\ resolutions' = resolutions /\ initial' = initial
      /\ stage' = stage /\ stage = "dependents found" /\ id \in pending
      /\ changed' = (changed \/ (n \in system.removeIfDependent /\ n \notin Resolved(resolutions)))
      /\ adding' = Left("dependent", n, DependentUpon(id, changing.away, changing.new))
  BY <1>1 DEF ResolveDependent
<1>3. adding'.of # "dependencies"
  BY <1>2, LeftMeans
<1>4. ~ changed'
  <2>1. ~ changed
    BY <1>2 DEF PurgesOnly
  <2>2. Bereft(id, CollectChanging)
    BY <1>2, <2>1 DEF Rest2, Dependents
  <2>3. n \in Resolved(resolutions)
    BY <1>1, <1>2, <2>2, NothingNeededIsBereft DEF PurgesOnly
  <2> QED BY <1>2, <2>1, <2>3
<1> QED BY <1>2, <1>3, <1>4, LoopPurgesOnly

LEMMA PresetIsFine == \A n, from : IsFine(Preset(FromDependent(n, from)))
BY DEF IsFine, Preset, FromDependent, FromBlocker

(* A package that uses what is purged is unused, and was decided upon.  If *)
(* it is not to go, it is now asked to go for good: that is a restart.     *)
LEMMA AddDependentStartsOver ==
    ASSUME IInv, Rest1, Rest2, PurgesOnly, system.purge, NEW away, AddDependent(away)
    PROVE  \E n \in Names : \E c : /\ system' = system /\ c = FromDependent(n, {away.name}) /\ IsFine(c)
                                  /\ Restart(ApplyConstraint(resolutions, n, c))
<1>1. PICK n \in Names : \E c : AddsDependent(away, n, c)
  BY AddDependentMeans DEF Rest1
<1>2. PICK c : AddsDependent(away, n, c)
  BY <1>1
<1>3. /\ system' = system /\ n = adding.name /\ c = FromDependent(n, {away.name}) /\ adding.of = "dependent"
      /\ Restart(ApplyConstraint(resolutions, n, c)) \/ ApplyConstraint(resolutions, n, c).restart = {}
  BY <1>2 DEF AddsDependent
<1>4. stage = "dependents found" /\ ~ changed
  <2>1. adding = NothingLeft \/ adding.of = "dependencies" \/ stage = "dependents found"
    BY DEF Rest1, Phases
  <2>2. NothingLeft.of = "nothing"
    BY DEF NothingLeft
  <2> QED BY <1>3, <2>1, <2>2 DEF PurgesOnly
<1>5. PICK i \in Installed : i.name = n /\ Bereft(i, CollectChanging)
  BY <1>3, <1>4 DEF Rest2, Dependents
<1>6. n \in Resolved(resolutions) /\ ToBePurged(n)
  <2>1. i \in Unused
    BY <1>5, NothingNeededIsBereft
  <2>2. i.name \in Resolved(resolutions)
    BY <1>4, <2>1 DEF PurgesOnly
  <2> QED BY <1>5, <2>2 DEF PurgesOnly
<1>7. IsInstalled(n) /\ ~ Going(n)
  BY <1>5, AwayMeans, InstalledIsInstalled DEF Bereft
<1>8. PICK d : d = Decision(n)
  OBVIOUS
<1>9. d # Undecided /\ d.kind = "remove" /\ ~ d.taken
  BY <1>6, <1>7, <1>8 DEF ToBePurged, Undecided, Going
<1>10. IsFine(c) /\ ~ c.untaken
  BY <1>3, FromDependentMeans DEF IsFine
<1>11. ~ CheckConstraint(c, d)
  BY <1>9, <1>10 DEF CheckConstraint
<1>12. Restart(ApplyConstraint(resolutions, n, c))
  <2> SUFFICES ASSUME ApplyConstraint(resolutions, n, c).restart = {} PROVE FALSE
    BY <1>3
  <2>1. PICK s, cs : s = ApplyConstraint(resolutions, n, c) /\ cs = Constraints(n) \cup {c}
    OBVIOUS
  <2>2. Applies(resolutions, n, c, s)
    BY <2>1, ApplyMeans DEF IInv
  <2>3. AllowedToRestart(n, d)
    BY <1>9 DEF AllowedToRestart
  <2>4. TryToFindDecision(n, cs, TRUE, TRUE) # {}
    <3>1. \A x \in cs : IsFine(x)
      BY <1>10, <2>1 DEF PurgesOnly
    <3>2. (\E x \in cs : x.accepts = {}) /\ (\E x \in cs : WasUsed(x))
      BY <1>6, <2>1 DEF ToBePurged
    <3> QED BY <1>7, <3>1, <3>2, RemovalIsFound
  <2>5. resolutions.decision[n] = d /\ resolutions.constraints[n] \cup {c} = cs
    BY <1>8, <2>1 DEF Decision, Constraints
  <2> QED BY <1>6, <1>9, <1>11, <2>1, <2>2, <2>3, <2>4, <2>5 DEF Applies
<1> QED BY <1>3, <1>10, <1>12

(* A restart adds a preset that a removal meets.                           *)
LEMMA AddDependentPurgesOnly ==
    ASSUME IInv, Rest1, Rest2, PurgesOnly, system.purge, NEW away, AddDependent(away)
    PROVE  PurgesOnly'
<1>1. PICK n \in Names : \E c : /\ system' = system /\ c = FromDependent(n, {away.name}) /\ IsFine(c)
                               /\ Restart(ApplyConstraint(resolutions, n, c))
  BY AddDependentStartsOver
<1>2. PICK c : /\ system' = system /\ c = FromDependent(n, {away.name}) /\ IsFine(c)
               /\ Restart(ApplyConstraint(resolutions, n, c))
  BY <1>1
<1>3. /\ resolutions' = NoResolutions /\ adding' = NothingLeft /\ changed' = FALSE
      /\ stage' \in {"targets", "given up"}
      /\ DOMAIN initial' = DOMAIN initial \cup {n}
      /\ initial'[n] = (IF n \in DOMAIN initial THEN Had(n) \cup {c} ELSE {}) \cup {Preset(c)}
      /\ \A m \in DOMAIN initial \ {n} : m \in Names => initial'[m] = Had(m)
  BY <1>2, RestartEffect
<1>4. \A m \in Names : Constraints(m)' = {}
  BY <1>3, NothingResolved
<1>5. Resolved(resolutions)' = {}
  BY <1>3, NothingResolved
<1>6. \A m \in Names : \A x \in Given(m)' : IsFine(x)
  <2> SUFFICES ASSUME NEW m \in Names, NEW x \in Given(m)' PROVE IsFine(x)
    OBVIOUS
  <2>1. m \in DOMAIN initial' /\ x \in initial'[m]
    BY DEF Given
  <2>2. x = c \/ x = Preset(c) \/ x \in Had(m)
    <3>1. CASE m = n
      BY <1>3, <2>1, <3>1
    <3>2. CASE m # n
      BY <1>3, <2>1, <3>2
    <3> QED BY <3>1, <3>2
  <2>3. IsFine(Preset(c))
    BY <1>2, PresetIsFine
  <2>4. \A y \in Had(m) : IsFine(y)
    BY DEF PurgesOnly, Had
  <2> QED BY <1>2, <2>2, <2>3, <2>4
<1>7. \A m \in Names : \A x \in Constraints(m)' \cup Given(m)' : IsFine(x)'
  BY <1>4, <1>6 DEF IsFine
<1>8. adding'.of = "nothing"
  BY <1>3 DEF NothingLeft
<1> QED BY <1>3, <1>5, <1>7, <1>8 DEF PurgesOnly

(* What is unused is found to be removable, unless it has been before.     *)
LEMMA ResolvePurgePurgesOnly ==
    ASSUME IInv, Rest1, PurgesOnly, system.purge, NEW id \in Installed, ResolvePurge(id)
    PROVE  PurgesOnly'
<1>1. PICK n \in Names : n = id.name
  BY InstalledNames
<1>2. /\ system' = system /\ initial' = initial /\ adding' = adding /\ stage' = stage
      /\ stage \in {"purges found", "purging all"} /\ id \in pending /\ pending' = pending \ {id}
  BY DEF ResolvePurge
<1>3. pending \subseteq Unused /\ id \in Unused /\ Unused' = Unused
  BY <1>2, UnusedIsFixed DEF PurgesOnly
<1>4. \A i \in Unused : i = id \/ i.name \in Resolved(resolutions) \/ (stage' = "purging all" /\ i \in pending')
  BY <1>2 DEF PurgesOnly
<1>5. ASSUME Resolved(resolutions)' = Resolved(resolutions) \cup {n},
             \A m \in Names : \A x \in Constraints(m)' : IsFine(x),
             \A m \in Resolved(resolutions)' : ToBePurged(m)'
      PROVE  PurgesOnly'
  <2>1. \A m \in Names : \A x \in Constraints(m)' \cup Given(m)' : IsFine(x)'
    <3>1. \A m : Given(m)' = Given(m)
      BY <1>2 DEF Given
    <3> QED BY <1>5, <3>1 DEF PurgesOnly, IsFine
  <2>2. \A m \in Resolved(resolutions)' : \E i \in Unused : i.name = m
    BY <1>1, <1>3, <1>5 DEF PurgesOnly
  <2>3. \A i \in Unused : i.name \in Resolved(resolutions)' \/ (stage' = "purging all" /\ i \in pending')
    BY <1>1, <1>4, <1>5
  <2>4. /\ adding'.of # "dependencies" /\ stage' # "dependents found"
        /\ pending' \subseteq Unused
    BY <1>2, <1>3 DEF PurgesOnly
  <2> QED BY <1>3, <1>5, <2>1, <2>2, <2>3, <2>4 DEF PurgesOnly
<1>6. CASE Decision(n) # Undecided /\ resolutions' = resolutions
  <2>1. n \in Resolved(resolutions)
    BY <1>6, UndecidedOutside
  <2>2. /\ Resolved(resolutions)' = Resolved(resolutions)
        /\ \A m : Constraints(m)' = Constraints(m) /\ Decision(m)' = Decision(m)
    BY <1>6, SameResolutions
  <2>3. \A m : ToBePurged(m)' <=> ToBePurged(m)
    BY <2>2 DEF ToBePurged, WasUsed
  <2>4. \A m \in Resolved(resolutions)' : ToBePurged(m)'
    BY <2>2, <2>3 DEF PurgesOnly
  <2>5. \A m \in Names : \A x \in Constraints(m)' : IsFine(x)
    BY <2>2 DEF PurgesOnly
  <2>6. Resolved(resolutions)' = Resolved(resolutions) \cup {n}
    BY <2>1, <2>2
  <2> QED BY <1>5, <2>4, <2>5, <2>6
<1>7. ASSUME NEW cs, Decision(n) = Undecided,
             cs = Had(n) \cup {FromPurge(n, {u.name : u \in {a \in changing.away : DependsOn(a, id)}})},
             Updated(n, cs, BestDecision(n, cs))
      PROVE  PurgesOnly'
  <2>1. n \notin Resolved(resolutions)
    <3>1. ~ ToBePurged(n)
      BY <1>7 DEF ToBePurged, Undecided
    <3> QED BY <3>1 DEF PurgesOnly
  <2>2. PICK from : from = {u.name : u \in {a \in changing.away : DependsOn(a, id)}}
    OBVIOUS
  <2>3. PICK c : c = FromPurge(n, from)
    OBVIOUS
  <2>4. cs = Given(n) \cup {c} /\ IsFine(c) /\ c.accepts = {} /\ WasUsed(c)
    BY <1>7, <2>1, <2>2, <2>3, FromPurgeMeans DEF Had, IsFine, WasUsed
  <2>5. \A x \in cs : IsFine(x)
    BY <2>4 DEF PurgesOnly
  <2>6. IsInstalled(n)
    BY <1>1, InstalledIsInstalled
  <2>7. BestDecision(n, cs) = Without("remove", cs)
    BY <2>4, <2>5, <2>6, RemovalIsFound
  <2>8. /\ Resolved(resolutions)' = Resolved(resolutions) \cup {n}
        /\ \A m \in Names \ {n} : Constraints(m)' = Constraints(m) /\ Decision(m)' = Decision(m)
        /\ Constraints(n)' = cs /\ Decision(n)'.kind = "remove"
    BY <1>7, <2>7, WithoutMeans DEF Updated
  <2>9. \A m \in Names : \A x \in Constraints(m)' : IsFine(x)
    BY <2>5, <2>8 DEF PurgesOnly
  <2>10. ToBePurged(n)'
    BY <2>4, <2>8 DEF ToBePurged, WasUsed
  <2>11. ASSUME NEW m \in Resolved(resolutions), m # n
         PROVE  ToBePurged(m)'
    <3>1. ToBePurged(m) /\ m \in Names
      BY ResolvedNames DEF PurgesOnly
    <3>2. Constraints(m)' = Constraints(m) /\ Decision(m)' = Decision(m)
      BY <2>8, <2>11, <3>1
    <3> QED BY <3>1, <3>2 DEF ToBePurged, WasUsed
  <2>12. \A m \in Resolved(resolutions)' : ToBePurged(m)'
    BY <2>8, <2>10, <2>11
  <2> QED BY <1>5, <2>8, <2>9, <2>12
<1> QED BY <1>1, <1>6, <1>7, PurgeEffect

LEMMA NextPurgesOnly == IInv /\ Rest1 /\ Rest2 /\ PurgesOnly /\ [Next]_vars => PurgesOnly'
<1> SUFFICES ASSUME IInv, Rest1, Rest2, PurgesOnly, [Next]_vars PROVE PurgesOnly'
  OBVIOUS
<1>1. CASE ~ system.purge
  <2>1. system' = system
    BY DEF Next, vars, AddTarget, TargetsAdded, Purge, DecideNext, AddDependency, EndPass, FindDependents,
           ResolveDependent, AddDependent, DependentsResolved, FindPurges, ResolvePurge, PurgesResolved
  <2> QED BY <1>1, <2>1 DEF PurgesOnly
<1>2. CASE system.purge
  <2>1. ~ AddTarget /\ ~ TargetsAdded
    BY <1>2 DEF AddTarget, TargetsAdded
  <2>2. ~ DecideNext
    <3> SUFFICES ASSUME DecideNext PROVE FALSE
      OBVIOUS
    <3>1. PICK n \in Resolved(resolutions) : Decision(n) = Undecided
      BY DecideEffect
    <3>2. ~ ToBePurged(n)
      BY <3>1 DEF ToBePurged, Undecided
    <3> QED BY <1>2, <3>2 DEF PurgesOnly
  <2>3. \A dep : ~ AddDependency(dep)
    BY <1>2 DEF AddDependency, PurgesOnly
  <2>4. CASE Purge
    BY <1>2, <2>4, PurgeOnly
  <2>5. CASE EndPass \/ FindDependents \/ DependentsResolved \/ FindPurges \/ PurgesResolved \/ UNCHANGED vars
    BY <1>2, <2>5, OtherPurgesOnly
  <2>6. CASE \E id \in Installed : ResolveDependent(id)
    BY <1>2, <2>6, ResolveDependentPurgesOnly
  <2>7. CASE \E away \in adding.left : AddDependent(away)
    BY <1>2, <2>7, AddDependentPurgesOnly
  <2>8. CASE \E id \in Installed : ResolvePurge(id)
    BY <1>2, <2>8, ResolvePurgePurgesOnly
  <2> QED BY <2>1, <2>2, <2>3, <2>4, <2>5, <2>6, <2>7, <2>8 DEF Next
<1> QED BY <1>1, <1>2

(* A purge has no targets, so that nothing has been purged before them.    *)
LEMMA PurgeRounds ==
    ASSUME IInv, Rest1, Rest2, Rounds, PurgesOnly, system.purge, [Next]_vars
    PROVE  Rounds'
<1>1. ~ AddTarget /\ ~ TargetsAdded
  BY DEF AddTarget, TargetsAdded
<1>2. ~ DecideNext
  <2> SUFFICES ASSUME DecideNext PROVE FALSE
    OBVIOUS
  <2>1. PICK n \in Resolved(resolutions) : Decision(n) = Undecided
    BY DecideEffect
  <2>2. ~ ToBePurged(n)
    BY <2>1 DEF ToBePurged, Undecided
  <2> QED BY <2>2 DEF PurgesOnly
<1>3. \A dep : ~ AddDependency(dep)
  BY DEF AddDependency, PurgesOnly
<1>4. CASE \/ Purge \/ EndPass \/ FindDependents \/ DependentsResolved \/ FindPurges \/ PurgesResolved
           \/ UNCHANGED vars
  BY <1>4, OtherRounds
<1>5. CASE \E id \in Installed : ResolveDependent(id)
  BY <1>5, ResolveDependentRounds
<1>6. CASE \E away \in adding.left : AddDependent(away)
  <2>1. PICK away \in adding.left : AddDependent(away)
    BY <1>6
  <2>2. PICK n \in Names : \E c : AddsDependent(away, n, c)
    BY <2>1, AddDependentMeans DEF Rest1
  <2>3. PICK c : AddsDependent(away, n, c)
    BY <2>2
  <2>4. system' = system /\ adding.of = "dependent"
    BY <2>3 DEF AddsDependent
  <2>5. stage # "targets"
    BY <2>4 DEF IInv, Adds
  <2>6. CASE Restart(ApplyConstraint(resolutions, n, c))
    <3>1. resolutions' = NoResolutions
      BY <2>6, RestartEffect
    <3>2. ~ Started'
      BY <3>1, NothingStarted
    <3> QED BY <2>4, <3>2 DEF Rounds
  <2>7. CASE stage' = stage
    BY <2>4, <2>5, <2>7 DEF Rounds
  <2> QED BY <2>3, <2>6, <2>7 DEF AddsDependent
<1>7. CASE \E id \in Installed : ResolvePurge(id)
  <2>1. system' = system /\ stage' = stage /\ stage # "targets"
    BY <1>7 DEF ResolvePurge
  <2> QED BY <2>1 DEF Rounds
<1> QED BY <1>1, <1>2, <1>3, <1>4, <1>5, <1>6, <1>7 DEF Next

LEMMA NextRounds == IInv /\ Rest1 /\ Rest2 /\ Rounds /\ PurgesOnly /\ [Next]_vars => Rounds'
<1> SUFFICES ASSUME IInv, Rest1, Rest2, Rounds, PurgesOnly, [Next]_vars PROVE Rounds'
  OBVIOUS
<1>1. CASE system.purge
  BY <1>1, PurgeRounds
<1>2. CASE ~ system.purge
  <2>1. CASE AddTarget
    BY <2>1, AddTargetRounds
  <2>2. CASE DecideNext
    BY <1>2, <2>2, DecideNextRounds
  <2>3. CASE \E dep \in adding.left : AddDependency(dep)
    BY <1>2, <2>3, AddDependencyRounds
  <2>4. CASE \/ TargetsAdded \/ Purge \/ EndPass \/ FindDependents \/ DependentsResolved \/ FindPurges
             \/ PurgesResolved \/ UNCHANGED vars
    BY <2>4, OtherRounds
  <2>5. CASE \E id \in Installed : ResolveDependent(id)
    BY <2>5, ResolveDependentRounds
  <2>6. CASE \E away \in adding.left : AddDependent(away)
    BY <1>2, <2>6, AddDependentRounds
  <2>7. CASE \E id \in Installed : ResolvePurge(id)
    BY <1>2, <2>7, ResolvePurgeRounds
  <2> QED BY <2>1, <2>2, <2>3, <2>4, <2>5, <2>6, <2>7 DEF Next
<1> QED BY <1>1, <1>2

LEMMA InitPurges == Init => Rounds /\ PurgesOnly
<1> SUFFICES ASSUME Init PROVE Rounds /\ PurgesOnly
  OBVIOUS
<1>1. /\ stage = "targets" /\ resolutions = NoResolutions /\ adding = NothingLeft
      /\ initial = [n \in {} |-> {}]
  BY DEF Init
<1>2. Resolved(resolutions) = {} /\ \A n \in Names : Constraints(n) = {} /\ Given(n) = {}
  BY <1>1 DEF Resolved, NoResolutions, Range, Constraints, Given
<1>3. ~ Started
  BY <1>2 DEF Started
<1>4. adding.of = "nothing"
  BY <1>1 DEF NothingLeft
<1>5. Rounds
  BY <1>1, <1>3 DEF Rounds
<1>6. PurgesOnly
  BY <1>1, <1>2, <1>4 DEF PurgesOnly
<1> QED BY <1>5, <1>6

(* In the end, what has been purged is not used.                           *)
LEMMA NothingUsedInTheEnd == IInv /\ Rest1 /\ Rest2 /\ Rounds /\ PurgesOnly => NothingUsedIsPurged
<1> SUFFICES ASSUME IInv, Rest1, Rest2, Rounds, PurgesOnly, Done PROVE NothingUsedIsPurged
  BY DEF NothingUsedIsPurged
<1>1. Unneeded
  <2>1. CASE ~ Started
    <3>1. Purged = {}
      BY <2>1, NothingPurgedYet
    <3> QED BY <3>1 DEF Unneeded
  <2>2. CASE Started /\ ~ system.purge
    BY <2>2 DEF Rounds, Purging
  <2>3. CASE system.purge
    <3>1. CollectChanging.new = {}
      BY <2>3, AwayIsUnused
    <3> SUFFICES ASSUME NEW i \in Installed \ CollectChanging.away, NEW p \in Purged, DependsOn(i, p)
                 PROVE  FALSE
      BY <3>1 DEF Unneeded
    <3>2. p \in CollectChanging.away /\ p \in Installed
      BY AwayMeans DEF Purged
    <3>3. p \in DependentUpon(i, CollectChanging.away, CollectChanging.new)
      BY <3>1, <3>2 DEF DependentUpon, DependsOn
    <3>4. Bereft(i, CollectChanging)
      BY <3>3 DEF Bereft
    <3>5. LeftBehind(i.name)
      BY <3>4 DEF Rest2, AllLeftBehind, Done
    <3>6. i \in Unused
      BY <2>3, <3>4, NothingNeededIsBereft
    <3>7. i.name \in Resolved(resolutions)
      BY <2>3, <3>6 DEF PurgesOnly, Done
    <3>8. ToBePurged(i.name)
      BY <2>3, <3>7 DEF PurgesOnly
    <3> QED BY <3>5, <3>8 DEF LeftBehind, ToBePurged
  <2> QED BY <2>1, <2>2, <2>3
<1>2. PICK purged : purged = {i \in CollectChanging.away : /\ Decision(i.name).kind = "remove"
                                                          /\ \A c \in Constraints(i.name) : c.reason = "was_used_by"}
  OBVIOUS
<1>3. purged = Purged
  BY <1>2 DEF Purged, WasUsed
<1>4. \A i \in (Installed \ CollectChanging.away) \cup CollectChanging.new : DeppedUpon(i, purged) = {}
  BY <1>1, <1>3 DEF Unneeded, DeppedUpon
<1> QED BY <1>2, <1>4 DEF NothingUsedIsPurged

(***************************************************************************)
(* In the end nothing that stays or comes uses what is purged, whatever    *)
(* the packages, in whatever round each was found unused, and whether      *)
(* purges follow from a resolution or are all that cave purge is about.    *)
(***************************************************************************)
THEOREM NothingUsedIsEverPurged == Spec => []NothingUsedIsPurged
<1>1. Init => IInv /\ Rest1 /\ Rest2 /\ Rounds /\ PurgesOnly
  BY InitInvariant, InitRest, InitMore, InitPurges
<1>2. IInv /\ Rest1 /\ Rest2 /\ Rounds /\ PurgesOnly /\ [Next]_vars
         => IInv' /\ Rest1' /\ Rest2' /\ Rounds' /\ PurgesOnly'
  BY NextInvariant, NextRest, NextMore, NextRounds, NextPurgesOnly
<1>3. IInv /\ Rest1 /\ Rest2 /\ Rounds /\ PurgesOnly => NothingUsedIsPurged
  BY NothingUsedInTheEnd
<1> QED BY <1>1, <1>2, <1>3, PTL DEF Spec

-----------------------------------------------------------------------------
(* What reasons name has been decided upon.                                *)

Reasons == {"dependency", "dependent", "was_used_by"}

(* The package f, which a reason names, was decided upon as it has to be.  *)
Behind(f, reason) ==
    f \in Resolved(resolutions) /\ reason \in Reasons /\ Decision(f).kind \in DecisionsBehind(reason)

AllBehind == \A n \in Names : \A c \in Constraints(n) : \A f \in c.from : Behind(f, c.reason)

LoopsBehind ==
    /\ adding.of = "dependencies" => Behind(adding.name, "dependency")
    /\ stage = "dependents found" => \A a \in changing.away : Behind(a.name, "dependent")

(* Up to the first restart the helper has nothing but presets to give.     *)
PlainGiven ==
    /\ restarts = 0 => DOMAIN initial = {}
    /\ restarts <= 1 => \A n \in Names : \A c \in Given(n) : c.from = {}

(* cave purge may name what it comes to only later.                        *)
Coming(f) == f \in Resolved(resolutions) \/ (stage = "purging all" /\ \E i \in pending : i.name = f)

UsersComing == \A n \in Names : \A c \in Constraints(n) : \A f \in c.from : WasUsed(c) /\ Coming(f)

ReasonsFit ==
    /\ PlainGiven
    /\ ~ system.purge /\ restarts <= 1 => AllBehind /\ LoopsBehind
    /\ system.purge /\ stage = "purging all" => changing.away \subseteq Unused
    /\ system.purge /\ restarts <= 1 => UsersComing

LEMMA BehindMeans ==
    /\ DecisionsBehind("dependency") = {"change", "nochange", "unable"}
    /\ DecisionsBehind("dependent") = {"change", "remove", "unable"}
    /\ DecisionsBehind("was_used_by") = {"change", "remove"}
BY DEF DecisionsBehind

LEMMA BehindIsDecided ==
    ASSUME NEW f, NEW reason, Behind(f, reason)
    PROVE  /\ Decision(f) # Undecided /\ Decision(f).kind \notin {"nothing", "break", "undecided"}
           /\ Decision(f).kind = "unable" => reason # "was_used_by"
BY BehindMeans DEF Behind, Reasons, Undecided

LEMMA SameBehind ==
    ASSUME resolutions' = resolutions
    PROVE  /\ \A f, reason : Behind(f, reason)' <=> Behind(f, reason)
           /\ AllBehind' <=> AllBehind
<1>1. /\ Resolved(resolutions)' = Resolved(resolutions)
      /\ \A n : Decision(n)' = Decision(n) /\ Constraints(n)' = Constraints(n)
  BY SameResolutions
<1>2. \A f, reason : Behind(f, reason)' <=> Behind(f, reason)
  BY <1>1 DEF Behind
<1>3. AllBehind' <=> AllBehind
  BY <1>1, <1>2 DEF AllBehind
<1> QED BY <1>2, <1>3

(* What a constraint makes of a decision leaves it fit for reasons, except *)
(* for that of a purge.                                                    *)
LEMMA OutcomeStaysBehind ==
    ASSUME NEW n \in Names, NEW c, NEW d, Outcome(n, c, d), NEW reason, Behind(n, reason), reason # "was_used_by"
    PROVE  d.kind \in DecisionsBehind(reason)
<1>1. Decision(n) # Undecided /\ Decision(n).kind # "nothing"
  BY BehindIsDecided
<1>2. d = Decision(n) \/ d.kind = "unable"
  BY <1>1, WithoutIsDecided DEF Outcome
<1>3. reason \in {"dependency", "dependent"}
  BY DEF Behind, Reasons
<1> QED BY <1>2, <1>3, BehindMeans DEF Behind

LEMMA StaysBehind ==
    ASSUME IInv, NEW n \in Names, NEW cs, NEW d, Updated(n, cs, d), NEW f, NEW reason, Behind(f, reason),
           f = n => d.kind \in DecisionsBehind(reason)
    PROVE  Behind(f, reason)'
<1>1. f \in Names /\ f \in Resolved(resolutions)'
  BY ResolvedNames DEF Behind, Updated
<1>2. CASE f = n
  BY <1>1, <1>2 DEF Behind, Updated
<1>3. CASE f # n
  BY <1>1, <1>3 DEF Behind, Updated
<1> QED BY <1>2, <1>3

LEMMA BehindStep ==
    ASSUME IInv, AllBehind, NEW n \in Names, NEW cs, NEW d, Updated(n, cs, d),
           \A c \in cs : \A f \in c.from : Behind(f, c.reason),
           \A m \in Names : \A c \in Constraints(m) \cup cs : n \in c.from => d.kind \in DecisionsBehind(c.reason)
    PROVE  AllBehind'
<1> SUFFICES ASSUME NEW m \in Names, NEW c \in Constraints(m)', NEW f \in c.from PROVE Behind(f, c.reason)'
  BY DEF AllBehind
<1>1. c \in Constraints(m) \cup cs /\ Behind(f, c.reason)
  <2>1. CASE m = n
    BY <2>1 DEF Updated
  <2>2. CASE m # n
    BY <2>2 DEF Updated, AllBehind
  <2> QED BY <2>1, <2>2
<1>2. PICK reason : reason = c.reason
  OBVIOUS
<1>3. f = n => d.kind \in DecisionsBehind(reason)
  BY <1>1, <1>2
<1> QED BY <1>1, <1>2, <1>3, StaysBehind

LEMMA HadBehind ==
    ASSUME PlainGiven, restarts <= 1, AllBehind, NEW n \in Names, NEW c \in Had(n), NEW f \in c.from
    PROVE  Behind(f, c.reason)
BY DEF PlainGiven, AllBehind, Had

(* As long as nothing has been purged, no reason is that of a purge.       *)
LEMMA NotStartedMeans ==
    ASSUME PlainGiven, restarts <= 1, ~ Started, NEW n \in Names, NEW c \in Constraints(n), NEW f \in c.from
    PROVE  ~ WasUsed(c)
BY DEF PlainGiven, Started

(* A resolution that starts over has, the first time, but one preset.      *)
LEMMA RestartReasons ==
    ASSUME IInv, Rest1, ReasonsFit, system' = system, NEW n \in Names, NEW c,
           Restart(ApplyConstraint(resolutions, n, c)), Preset(c).from = {}
    PROVE  ReasonsFit'
<1>1. /\ resolutions' = NoResolutions /\ adding' = NothingLeft
      /\ stage' \in {"targets", "given up"} /\ restarts' = restarts + 1
      /\ DOMAIN initial' = DOMAIN initial \cup {n}
      /\ initial'[n] = (IF n \in DOMAIN initial THEN Had(n) \cup {c} ELSE {}) \cup {Preset(c)}
  BY RestartEffect
<1>2. restarts \in Nat
  BY DEF Rest1, Phases
<1>3. \A m \in Names : Constraints(m)' = {}
  BY <1>1, NothingResolved
<1>4. AllBehind' /\ UsersComing'
  BY <1>3 DEF AllBehind, UsersComing
<1>5. adding'.of = "nothing"
  BY <1>1 DEF NothingLeft
<1>6. LoopsBehind'
  BY <1>1, <1>5 DEF LoopsBehind
<1>7. restarts' # 0 /\ (restarts' <= 1 => restarts = 0)
  <2>1. restarts' = restarts + 1
    BY <1>1
  <2> QED BY <1>2, <2>1
<1>8. restarts' <= 1 => \A m \in Names : \A x \in Given(m)' : x.from = {}
  <2> SUFFICES ASSUME restarts' <= 1, NEW m \in Names, NEW x \in Given(m)' PROVE x.from = {}
    OBVIOUS
  <2>1. DOMAIN initial = {}
    BY <1>7 DEF ReasonsFit, PlainGiven
  <2>2. m = n /\ x \in initial'[n]
    BY <1>1, <2>1 DEF Given
  <2>3. x = Preset(c)
    BY <1>1, <2>1, <2>2
  <2> QED BY <2>3
<1>9. PlainGiven'
  BY <1>7, <1>8 DEF PlainGiven
<1> QED BY <1>1, <1>4, <1>6, <1>9 DEF ReasonsFit

LEMMA GoingIsDecided == \A n : Going(n) => Decision(n) # Undecided
BY DEF Going, Undecided

(* Steps of the loops that leave the resolutions as they are.              *)
LEMMA LoopReasons ==
    ASSUME IInv, ReasonsFit,
           system' = system, resolutions' = resolutions, initial' = initial, restarts' = restarts,
           adding'.of = "dependencies" => adding' = adding,
           stage' = "dependents found" => \/ changing'.away = CollectChanging.away
                                          \/ stage = "dependents found" /\ changing' = changing,
           stage = "purging all" => pending = {} \/ (stage' = stage /\ pending' = pending),
           stage' = "purging all" => stage' = stage /\ changing' = changing
    PROVE  ReasonsFit'
<1>1. PlainGiven'
  BY DEF ReasonsFit, PlainGiven, Given
<1>2. \A f, reason : Behind(f, reason)' <=> Behind(f, reason)
  BY SameBehind
<1>3. AllBehind => AllBehind'
  BY SameBehind
<1>4. LoopsBehind => LoopsBehind'
  <2> SUFFICES ASSUME LoopsBehind PROVE LoopsBehind'
    OBVIOUS
  <2>1. adding'.of = "dependencies" => Behind(adding'.name, "dependency")
    BY DEF LoopsBehind
  <2>2. ASSUME stage' = "dependents found", NEW a \in changing'.away
        PROVE  Behind(a.name, "dependent")
    <3>1. CASE changing'.away = CollectChanging.away
      <4>1. Going(a.name) /\ a.name \in Names
        BY <2>2, <3>1, AwayMeans, InstalledNames
      <4>2. a.name \in Resolved(resolutions)
        BY <4>1, GoingIsDecided, UndecidedOutside
      <4> QED BY <4>1, <4>2, BehindMeans DEF Behind, Going, Reasons
    <3>2. CASE stage = "dependents found" /\ changing' = changing
      BY <2>2, <3>2 DEF LoopsBehind
    <3> QED BY <2>2, <3>1, <3>2
  <2>3. adding'.of = "dependencies" => Behind(adding.name, "dependency")' /\ adding'.name = adding.name
    BY <1>2, <2>1
  <2>4. stage' = "dependents found" => \A a \in changing'.away : Behind(a.name, "dependent")'
    BY <1>2, <2>2
  <2>5. adding'.of = "dependencies" => Behind(adding.name, "dependency")'
    BY <2>3
  <2> QED BY <2>4, <2>5 DEF LoopsBehind
<1>5. Unused' = Unused
  BY UnusedIsFixed
<1>6. UsersComing => UsersComing'
  <2>1. \A f : Coming(f) => Coming(f)'
    BY SameResolutions DEF Coming
  <2>2. \A n : Constraints(n)' = Constraints(n)
    BY SameResolutions
  <2> QED BY <2>1, <2>2 DEF UsersComing, WasUsed
<1> QED BY <1>1, <1>3, <1>4, <1>5, <1>6 DEF ReasonsFit

LEMMA OtherReasons ==
    ASSUME IInv, ReasonsFit,
           \/ TargetsAdded \/ EndPass \/ FindDependents \/ DependentsResolved \/ FindPurges
           \/ PurgesResolved \/ UNCHANGED vars
    PROVE  ReasonsFit'
<1>1. /\ system' = system /\ resolutions' = resolutions /\ initial' = initial /\ restarts' = restarts
      /\ adding' = adding
  BY DEF TargetsAdded, EndPass, FindDependents, DependentsResolved, FindPurges, PurgesResolved, vars
<1>2. CASE TargetsAdded
  BY <1>1, <1>2, LoopReasons DEF TargetsAdded
<1>3. CASE EndPass
  <2>1. /\ stage \in {"non_suggestions", "nothings", "suggestions"}
        /\ stage' = IF changed THEN stage ELSE NextPass[stage]
    BY <1>3 DEF EndPass, Deciding
  <2>2. NextPass.non_suggestions = "nothings" /\ NextPass.nothings = "suggestions" /\ NextPass.suggestions = "dependents"
    BY DEF NextPass
  <2>3. stage' \in {"non_suggestions", "nothings", "suggestions", "dependents"}
    <3>1. CASE changed
      BY <2>1, <3>1
    <3>2. CASE ~ changed
      <4>1. stage' = NextPass[stage]
        BY <2>1, <3>2
      <4> QED BY <2>1, <2>2, <4>1
    <3> QED BY <3>1, <3>2
  <2> QED BY <1>1, <2>1, <2>3, LoopReasons
<1>4. CASE FindDependents
  <2>1. /\ stage = "dependents" /\ changing' = CollectChanging
        /\ stage' = IF pending' = {} THEN "purges" ELSE "dependents found"
    BY <1>4 DEF FindDependents
  <2>2. stage' \in {"purges", "dependents found"}
    BY <2>1
  <2> QED BY <1>1, <2>1, <2>2, LoopReasons
<1>5. CASE DependentsResolved
  <2>1. stage = "dependents found" /\ stage' = IF changed THEN "non_suggestions" ELSE "purges"
    BY <1>5 DEF DependentsResolved
  <2>2. stage' \in {"non_suggestions", "purges"}
    BY <2>1
  <2> QED BY <1>1, <2>1, <2>2, LoopReasons
<1>6. CASE FindPurges
  <2>1. stage = "purges" /\ stage' = "purges found"
    BY <1>6 DEF FindPurges
  <2> QED BY <1>1, <2>1, LoopReasons
<1>7. CASE PurgesResolved
  <2>1. /\ pending = {}
        /\ stage' = IF changed \/ stage = "purging all" THEN "non_suggestions" ELSE "done"
    BY <1>7 DEF PurgesResolved
  <2>2. stage' \in {"non_suggestions", "done"}
    BY <2>1
  <2> QED BY <1>1, <2>1, <2>2, LoopReasons
<1>8. CASE UNCHANGED vars
  <2>1. stage' = stage /\ pending' = pending /\ changing' = changing
    BY <1>8 DEF vars
  <2> QED BY <1>1, <2>1, LoopReasons
<1> QED BY <1>2, <1>3, <1>4, <1>5, <1>6, <1>7, <1>8

LEMMA ResolveDependentReasons ==
    ASSUME IInv, ReasonsFit, NEW id \in Installed, ResolveDependent(id)
    PROVE  ReasonsFit'
<1>1. /\ system' = system /\ resolutions' = resolutions /\ initial' = initial /\ restarts' = restarts
      /\ stage' = stage /\ stage = "dependents found" /\ changing' = changing
      /\ adding' = Left("dependent", id.name, DependentUpon(id, changing.away, changing.new))
  BY DEF ResolveDependent
<1>2. adding'.of # "dependencies"
  BY <1>1, LeftMeans
<1> QED BY <1>1, <1>2, LoopReasons

(* Nothing has been decided upon before a purge.                           *)
LEMMA PurgeReasons == IInv /\ Rest1 /\ PurgesOnly /\ ReasonsFit /\ Purge => ReasonsFit'
<1> SUFFICES ASSUME IInv, Rest1, PurgesOnly, ReasonsFit, Purge PROVE ReasonsFit'
  OBVIOUS
<1>1. /\ system' = system /\ resolutions' = resolutions /\ initial' = initial /\ restarts' = restarts
      /\ system.purge /\ stage = "targets" /\ stage' = "purging all" /\ changing'.away = Unused
  BY DEF Purge, Unused
<1>2. PlainGiven'
  BY <1>1 DEF ReasonsFit, PlainGiven, Given
<1>3. \A n \in Names : Constraints(n) = {}
  <2> SUFFICES ASSUME NEW n \in Names, n \in Resolved(resolutions) PROVE FALSE
    BY DEF Rest1, Listed
  <2>1. ToBePurged(n)
    BY <1>1 DEF PurgesOnly
  <2>2. Decision(n) = Undecided
    BY <1>1 DEF IInv, Decision
  <2> QED BY <2>1, <2>2 DEF ToBePurged, Undecided
<1>4. UsersComing'
  <2>1. \A n \in Names : Constraints(n)' = {}
    BY <1>1, <1>3, SameResolutions
  <2> QED BY <2>1 DEF UsersComing
<1>5. Unused' = Unused
  BY <1>1, UnusedIsFixed
<1> QED BY <1>1, <1>2, <1>4, <1>5 DEF ReasonsFit

(* Steps of a resolution that has targets.                                 *)
LEMMA FitStep ==
    ASSUME ReasonsFit, ~ system.purge, system' = system, initial' = initial, restarts' = restarts,
           restarts <= 1 => AllBehind' /\ LoopsBehind'
    PROVE  ReasonsFit'
<1>1. PlainGiven'
  BY DEF ReasonsFit, PlainGiven, Given
<1> QED BY <1>1 DEF ReasonsFit

LEMMA AddTargetReasons == IInv /\ Rest1 /\ ReasonsFit /\ AddTarget => ReasonsFit'
<1> SUFFICES ASSUME IInv, Rest1, ReasonsFit, AddTarget PROVE ReasonsFit'
  OBVIOUS
<1> DEFINE target == system.targets[at]
<1>1. /\ IsSystem(system) /\ system' = system /\ adding' = adding /\ initial' = initial /\ restarts' = restarts
      /\ at \in Nat \ {0} /\ at <= Len(system.targets) /\ stage' = stage /\ stage = "targets" /\ ~ system.purge
  BY DEF IInv, AddTarget
<1>2. PICK n \in Names : n = target.on
  <2>1. system.targets \in Seq(Dependencies)
    BY <1>1 DEF IsSystem
  <2>2. target \in Dependencies
    BY <1>1, <2>1
  <2> QED BY <2>2 DEF Dependencies
<1>3. PICK c : c = FromTarget(target)
  OBVIOUS
<1>4. resolutions' = ApplyConstraint(resolutions, n, c) \/ resolutions' = resolutions
  BY <1>2, <1>3 DEF AddTarget
<1>5. adding.of = "nothing"
  BY <1>1 DEF IInv, Adds
<1> HIDE DEF target
<1>6. CASE resolutions' = resolutions
  BY <1>1, <1>5, <1>6, LoopReasons
<1>7. CASE resolutions' = ApplyConstraint(resolutions, n, c)
  <2> SUFFICES ASSUME restarts <= 1 PROVE AllBehind' /\ LoopsBehind'
    BY <1>1, FitStep
  <2>1. ApplyConstraint(resolutions, n, c).restart = {}
    <3>1. Good(resolutions) /\ resolutions.decision[n] = Undecided
      BY <1>1 DEF IInv
    <3> QED BY <3>1, AppliedIsInTheList
  <2>2. PICK d : Updated(n, Had(n) \cup {c}, d)
    BY <1>7, <2>1, AppliedEffect
  <2>3. c.from = {}
    BY <1>3 DEF FromTarget, FromBlocker, FromSpec
  <2>4. AllBehind /\ PlainGiven
    BY <1>1 DEF ReasonsFit
  <2>5. PICK cs : cs = Had(n) \cup {c}
    OBVIOUS
  <2>6. \A x \in cs : \A f \in x.from : Behind(f, x.reason)
    BY <2>3, <2>4, <2>5, HadBehind
  <2>7. \A reason : ~ Behind(n, reason)
    <3>1. Decision(n) = Undecided
      BY <1>1 DEF IInv, Decision
    <3> QED BY <3>1, BehindIsDecided
  <2>8. \A m \in Names : \A x \in Constraints(m) \cup cs : n \notin x.from
    BY <2>4, <2>6, <2>7 DEF AllBehind
  <2>9. AllBehind'
    BY <2>2, <2>4, <2>5, <2>6, <2>8, BehindStep
  <2>10. LoopsBehind'
    BY <1>1, <1>5 DEF LoopsBehind
  <2> QED BY <2>9, <2>10
<1> QED BY <1>4, <1>6, <1>7

(* Only a decision to change or to keep what exists has dependencies.      *)
LEMMA DecideNextReasons == IInv /\ Rest1 /\ ReasonsFit /\ ~ system.purge /\ DecideNext => ReasonsFit'
<1> SUFFICES ASSUME IInv, Rest1, ReasonsFit, ~ system.purge, DecideNext PROVE ReasonsFit'
  OBVIOUS
<1>1. /\ system' = system /\ initial' = initial /\ restarts' = restarts /\ stage' = stage
      /\ stage # "dependents found"
  BY DEF DecideNext, Deciding
<1>2. PICK n \in Resolved(resolutions) :
         /\ n \in Names /\ Decision(n) = Undecided
         /\ Updated(n, Constraints(n), BestDecision(n, Constraints(n)))
         /\ adding' = Left("dependencies", n, DependenciesOf(n, BestDecision(n, Constraints(n))))
  BY DecideEffect
<1>3. PICK d, cs : d = BestDecision(n, Constraints(n)) /\ cs = Constraints(n)
  OBVIOUS
<1> SUFFICES ASSUME restarts <= 1 PROVE AllBehind' /\ LoopsBehind'
  BY <1>1, FitStep
<1>4. AllBehind
  BY DEF ReasonsFit
<1>5. \A reason : ~ Behind(n, reason)
  BY <1>2, BehindIsDecided
<1>6. \A m \in Names : \A x \in Constraints(m) \cup cs : n \notin x.from
  BY <1>2, <1>3, <1>4, <1>5 DEF AllBehind
<1>7. AllBehind'
  <2>1. Updated(n, cs, d)
    BY <1>2, <1>3
  <2>2. \A x \in cs : \A f \in x.from : Behind(f, x.reason)
    BY <1>2, <1>3, <1>4 DEF AllBehind
  <2> QED BY <1>2, <1>4, <1>6, <2>1, <2>2, BehindStep
<1>8. adding'.of = "dependencies" => adding'.name = n /\ Behind(n, "dependency")'
  <2> SUFFICES ASSUME adding'.of = "dependencies" PROVE adding'.name = n /\ Behind(n, "dependency")'
    OBVIOUS
  <2>1. adding' = Left("dependencies", n, DependenciesOf(n, d))
    BY <1>2, <1>3
  <2>2. DependenciesOf(n, d) # {} /\ adding'.name = n
    BY <2>1, LeftMeans
  <2>3. d.kind \in {"change", "nochange"}
    BY <2>2 DEF DependenciesOf
  <2>4. n \in Resolved(resolutions)' /\ Decision(n)' = d
    BY <1>2, <1>3 DEF Updated
  <2>5. Behind(n, "dependency")'
    BY <2>3, <2>4, BehindMeans DEF Behind, Reasons
  <2> QED BY <2>2, <2>5
<1>9. LoopsBehind'
  BY <1>1, <1>8 DEF LoopsBehind
<1> QED BY <1>7, <1>9

LEMMA PresetIsPlain ==
    /\ \A dep, n, interest : Preset(FromDependency(dep, n, interest)).from = {}
    /\ \A n, from : Preset(FromDependent(n, from)).from = {}
<1>1. ASSUME NEW dep, NEW n, NEW interest PROVE Preset(FromDependency(dep, n, interest)).from = {}
  BY DEF Preset, FromDependency, FromBlocker, FromSpec
<1>2. ASSUME NEW n, NEW from PROVE Preset(FromDependent(n, from)).from = {}
  BY DEF Preset, FromDependent, FromBlocker
<1> QED BY <1>1, <1>2

(* A constraint is applied to a package for reasons of another one.        *)
LEMMA AppliedBehind ==
    ASSUME IInv, ReasonsFit, ~ system.purge, restarts <= 1, NEW n \in Names, NEW c, NEW d,
           Updated(n, Had(n) \cup {c}, d), \A f \in c.from : Behind(f, c.reason), ~ WasUsed(c),
           Outcome(n, c, d) \/ Decision(n) = Undecided,
           ~ Started \/ ~ Behind(n, "was_used_by")
    PROVE  /\ AllBehind'
           /\ \A f, reason : Behind(f, reason) /\ reason # "was_used_by" => Behind(f, reason)'
<1>1. AllBehind /\ PlainGiven
  BY DEF ReasonsFit
<1>2. PICK cs : cs = Had(n) \cup {c}
  OBVIOUS
<1>3. \A x \in cs : \A f \in x.from : Behind(f, x.reason)
  BY <1>1, <1>2, HadBehind
<1>4. ASSUME NEW reason, Behind(n, reason), reason # "was_used_by"
      PROVE  d.kind \in DecisionsBehind(reason)
  <2>1. Outcome(n, c, d)
    BY <1>4, BehindIsDecided
  <2> QED BY <1>4, <2>1, OutcomeStaysBehind
<1>5. ASSUME NEW m \in Names, NEW x \in Constraints(m) \cup cs, n \in x.from
      PROVE  d.kind \in DecisionsBehind(x.reason)
  <2>1. Behind(n, x.reason)
    BY <1>1, <1>3, <1>5 DEF AllBehind
  <2>2. x.reason # "was_used_by"
    <3>1. CASE ~ Behind(n, "was_used_by")
      BY <2>1, <3>1
    <3>2. CASE ~ Started
      <4>1. x \in Constraints(m) \/ x \in Constraints(n) \/ x \in Given(n) \/ x = c
        BY <1>2, <1>5 DEF Had
      <4>2. x \notin Given(n)
        BY <1>1, <1>5 DEF PlainGiven
      <4>3. ~ WasUsed(x)
        BY <1>1, <1>5, <3>2, <4>1, <4>2, NotStartedMeans
      <4> QED BY <4>3 DEF WasUsed
    <3> QED BY <3>1, <3>2
  <2> QED BY <1>4, <2>1, <2>2
<1>6. AllBehind'
  BY <1>1, <1>2, <1>3, <1>5, BehindStep
<1>7. \A f, reason : Behind(f, reason) /\ reason # "was_used_by" => Behind(f, reason)'
  <2> SUFFICES ASSUME NEW f, NEW reason, Behind(f, reason), reason # "was_used_by" PROVE Behind(f, reason)'
    OBVIOUS
  <2>1. f = n => d.kind \in DecisionsBehind(reason)
    BY <1>4
  <2> QED BY <1>2, <2>1, StaysBehind
<1> QED BY <1>6, <1>7

LEMMA AddDependencyReasons ==
    ASSUME IInv, Rest1, Rest2, Rounds, ReasonsFit, ~ system.purge, NEW dep, AddDependency(dep)
    PROVE  ReasonsFit'
<1> DEFINE r == WithDependency(resolutions, adding.name, dep)
<1>1. /\ system' = system /\ adding.of = "dependencies" /\ dep \in adding.left
      /\ adding.name \in Names /\ dep \in Dependencies
  BY DEF IInv, AddDependency, Adds
<1>2. PICK n \in Names, m \in Names : n = adding.name /\ m = dep.on
  BY <1>1 DEF Dependencies
<1>3. PICK interest : interest = InterestInSpec(dep, resolutions.decision[n])
  OBVIOUS
<1>4. PICK c : c = FromDependency(dep, n, interest)
  OBVIOUS
<1>5. r = resolutions \/ r = ApplyConstraint(resolutions, m, c)
  BY <1>2, <1>3, <1>4 DEF WithDependency
<1>6. \/ Restart(r)
      \/ /\ r.restart = {} /\ resolutions' = r /\ stage' = stage /\ initial' = initial /\ restarts' = restarts
         /\ adding' = Left("dependencies", n, adding.left \ {dep})
  BY <1>2 DEF AddDependency
<1> HIDE DEF r
<1>7. ~ Started
  BY <1>1 DEF Rounds, Purging
<1>8. stage # "dependents found"
  <2>1. NothingLeft.of = "nothing"
    BY DEF NothingLeft
  <2>2. adding = NothingLeft \/ Deciding \/ adding.of = "dependent"
    BY DEF Rest1, Phases
  <2> QED BY <1>1, <2>1, <2>2 DEF Deciding
<1>9. CASE Restart(r)
  <2>1. r # resolutions
    BY <1>9 DEF Restart, IInv, Good
  <2>2. Preset(c).from = {}
    BY <1>4, PresetIsPlain
  <2> QED BY <1>1, <1>5, <1>9, <2>1, <2>2, RestartReasons
<1>10. CASE /\ r.restart = {} /\ resolutions' = r /\ stage' = stage /\ initial' = initial /\ restarts' = restarts
            /\ adding' = Left("dependencies", n, adding.left \ {dep})
  <2> SUFFICES ASSUME restarts <= 1 PROVE AllBehind' /\ LoopsBehind'
    BY <1>1, <1>10, FitStep
  <2>1. Behind(n, "dependency")
    BY <1>1, <1>2 DEF ReasonsFit, LoopsBehind
  <2>2. AllBehind' /\ Behind(n, "dependency")'
    <3>1. CASE r = resolutions
      <4>1. AllBehind
        BY DEF ReasonsFit
      <4> QED BY <1>10, <2>1, <3>1, <4>1, SameBehind
    <3>2. CASE r = ApplyConstraint(resolutions, m, c)
      <4>1. PICK d : Updated(m, Had(m) \cup {c}, d) /\ Outcome(m, c, d)
        BY <1>10, <3>2, AppliedEffect
      <4>2. c.from = {n} /\ c.reason = "dependency"
        BY <1>4, FromDependencyMeans
      <4>3. ~ WasUsed(c) /\ \A f \in c.from : Behind(f, c.reason)
        BY <2>1, <4>2 DEF WasUsed
      <4> QED BY <1>7, <2>1, <4>1, <4>3, AppliedBehind
    <3> QED BY <1>5, <3>1, <3>2
  <2>3. adding'.of = "dependencies" => adding'.name = n
    BY <1>10, LeftMeans
  <2>4. adding'.of = "dependencies" => Behind(adding.name, "dependency")'
    BY <2>2, <2>3
  <2>5. stage' # "dependents found"
    BY <1>8, <1>10
  <2> QED BY <2>2, <2>4, <2>5 DEF LoopsBehind
<1> QED BY <1>6, <1>9, <1>10

(* What goes away is decided upon; a dependent that has been left behind   *)
(* did not use what has been purged.                                       *)
LEMMA AddDependentReasons ==
    ASSUME IInv, Rest1, Rest2, Rounds, ReasonsFit, ~ system.purge, NEW away, AddDependent(away)
    PROVE  ReasonsFit'
<1>1. PICK n \in Names : \E c : AddsDependent(away, n, c)
  BY AddDependentMeans DEF Rest1
<1>2. PICK c : AddsDependent(away, n, c)
  BY <1>1
<1>3. /\ system' = system /\ n = adding.name /\ c = FromDependent(n, {away.name})
      /\ adding.of = "dependent" /\ away \in adding.left
  BY <1>2 DEF AddsDependent
<1>4. stage = "dependents found"
  <2>1. adding = NothingLeft \/ adding.of = "dependencies" \/ stage = "dependents found"
    BY DEF Rest1, Phases
  <2>2. NothingLeft.of = "nothing"
    BY DEF NothingLeft
  <2> QED BY <1>3, <2>1, <2>2
<1>5. CASE Restart(ApplyConstraint(resolutions, n, c))
  <2>1. Preset(c).from = {}
    BY <1>3, PresetIsPlain
  <2> QED BY <1>3, <1>5, <2>1, RestartReasons
<1>6. CASE ~ Restart(ApplyConstraint(resolutions, n, c))
  <2>1. /\ initial' = initial /\ restarts' = restarts /\ stage' = stage /\ changing' = changing
        /\ adding' = Left("dependent", n, adding.left \ {away})
    BY <1>2, <1>6 DEF AddsDependent
  <2> SUFFICES ASSUME restarts <= 1 PROVE AllBehind' /\ LoopsBehind'
    BY <1>3, <2>1, FitStep
  <2>2. PICK d : Updated(n, Had(n) \cup {c}, d) /\ (Outcome(n, c, d) \/ Decision(n) = Undecided)
    <3>1. CASE /\ ApplyConstraint(resolutions, n, c).restart = {}
               /\ resolutions' = ApplyConstraint(resolutions, n, c)
      BY <3>1, AppliedEffect
    <3>2. CASE Updated(n, Had(n) \cup {c}, Broken) /\ Decision(n) = Undecided
      BY <3>2
    <3> QED BY <1>2, <1>6, <3>1, <3>2 DEF AddsDependent
  <2>3. c.from = {away.name} /\ c.reason = "dependent"
    BY <1>3, FromDependentMeans
  <2>4. /\ adding.left \subseteq changing.away
        /\ \A a \in changing.away : Behind(a.name, "dependent")
    BY <1>3, <1>4 DEF Rest2, Dependents, ReasonsFit, LoopsBehind
  <2>5. ~ WasUsed(c) /\ \A f \in c.from : Behind(f, c.reason)
    BY <1>3, <2>3, <2>4 DEF WasUsed
  <2>6. ~ Started \/ ~ Behind(n, "was_used_by")
    <3> SUFFICES ASSUME Started PROVE ~ Behind(n, "was_used_by")
      OBVIOUS
    <3>1. Purging /\ ~ changed
      BY <1>4 DEF Rounds, Purging
    <3>2. \E i \in Installed : i.name = n /\ Bereft(i, CollectChanging)
      BY <1>3, <1>4, <3>1 DEF Rest2, Dependents
    <3>3. LeftBehind(n)
      BY <3>1, <3>2 DEF Purging, AllLeftBehind
    <3> QED BY <3>3, BehindMeans DEF LeftBehind, Behind
  <2>7. AllBehind' /\ \A f, reason : Behind(f, reason) /\ reason # "was_used_by" => Behind(f, reason)'
    BY <2>2, <2>5, <2>6, AppliedBehind
  <2>8. \A a \in changing'.away : Behind(a.name, "dependent")'
    BY <2>1, <2>4, <2>7
  <2>9. adding'.of # "dependencies"
    BY <2>1, LeftMeans
  <2> QED BY <2>7, <2>8, <2>9 DEF LoopsBehind
<1> QED BY <1>5, <1>6

(* What used a package that is now unused goes away.                       *)
LEMMA ResolvePurgeReasons ==
    ASSUME IInv, Rest1, Rest2, Rounds, PurgesOnly, ReasonsFit, NEW id \in Installed, ResolvePurge(id)
    PROVE  ReasonsFit'
<1>1. PICK n \in Names : n = id.name
  BY InstalledNames
<1>2. /\ system' = system /\ initial' = initial /\ restarts' = restarts /\ adding' = adding
      /\ stage' = stage /\ changing' = changing
      /\ stage \in {"purges found", "purging all"} /\ id \in pending /\ pending' = pending \ {id}
  BY DEF ResolvePurge
<1>3. adding.of # "dependencies"
  <2>1. adding = NothingLeft
    BY <1>2 DEF Rest1, Phases, Deciding
  <2> QED BY <2>1 DEF NothingLeft
<1>4. LoopsBehind'
  BY <1>2, <1>3 DEF LoopsBehind
<1>5. PlainGiven'
  BY <1>2 DEF ReasonsFit, PlainGiven, Given
<1>6. PICK from : from = {u.name : u \in {a \in changing.away : DependsOn(a, id)}}
  OBVIOUS
<1>7. PICK c : c = FromPurge(n, from)
  OBVIOUS
<1>8. c.from = from /\ WasUsed(c) /\ c.reason = "was_used_by" /\ c.accepts = {}
  BY <1>7, FromPurgeMeans DEF WasUsed
<1>9. \/ Decision(n) # Undecided /\ resolutions' = resolutions
      \/ /\ Decision(n) = Undecided
         /\ Updated(n, Had(n) \cup {c}, BestDecision(n, Had(n) \cup {c}))
  BY <1>1, <1>6, <1>7, PurgeEffect
<1>10. CASE ~ system.purge
  <2> SUFFICES ASSUME restarts <= 1 PROVE AllBehind'
    BY <1>2, <1>4, <1>10, FitStep
  <2>1. AllBehind /\ PlainGiven
    BY <1>10 DEF ReasonsFit
  <2>2. CASE resolutions' = resolutions
    BY <2>1, <2>2, SameBehind
  <2>3. CASE Decision(n) = Undecided /\ Updated(n, Had(n) \cup {c}, BestDecision(n, Had(n) \cup {c}))
    <3>1. changing.away \subseteq CollectChanging.away
      BY <1>2, <1>10 DEF Rounds, Rest2, Purges
    <3>2. \A f \in from : Behind(f, "was_used_by")
      <4> SUFFICES ASSUME NEW u \in changing.away PROVE Behind(u.name, "was_used_by")
        BY <1>6
      <4>1. Going(u.name) /\ u.name \in Names
        BY <3>1, AwayMeans, InstalledNames
      <4>2. u.name \in Resolved(resolutions)
        BY <4>1, GoingIsDecided, UndecidedOutside
      <4> QED BY <4>1, <4>2, BehindMeans DEF Behind, Going, Reasons
    <3>3. PICK cs, d : cs = Had(n) \cup {c} /\ d = BestDecision(n, cs)
      OBVIOUS
    <3>4. \A x \in cs : \A f \in x.from : Behind(f, x.reason)
      BY <1>8, <2>1, <3>2, <3>3, HadBehind
    <3>5. \A reason : ~ Behind(n, reason)
      BY <2>3, BehindIsDecided
    <3>6. \A m \in Names : \A x \in Constraints(m) \cup cs : n \notin x.from
      BY <2>1, <3>4, <3>5 DEF AllBehind
    <3> QED BY <2>1, <2>3, <3>3, <3>4, <3>6, BehindStep
  <2> QED BY <1>9, <2>2, <2>3
<1>11. CASE system.purge
  <2>1. stage' = "purging all" => changing'.away \subseteq Unused'
    <3>1. Unused' = Unused
      BY <1>2, UnusedIsFixed
    <3> QED BY <1>2, <1>11, <3>1 DEF ReasonsFit
  <2>2. n \in Resolved(resolutions)'
    <3>1. CASE Decision(n) # Undecided /\ resolutions' = resolutions
      BY <3>1, UndecidedOutside, SameResolutions
    <3>2. CASE Updated(n, Had(n) \cup {c}, BestDecision(n, Had(n) \cup {c}))
      BY <3>2 DEF Updated
    <3> QED BY <1>9, <3>1, <3>2
  <2>3. Resolved(resolutions) \subseteq Resolved(resolutions)'
    <3>1. CASE resolutions' = resolutions
      BY <3>1, SameResolutions
    <3>2. CASE Updated(n, Had(n) \cup {c}, BestDecision(n, Had(n) \cup {c}))
      BY <3>2 DEF Updated
    <3> QED BY <1>9, <3>1, <3>2
  <2>4. \A f : Coming(f) => Coming(f)'
    <3> SUFFICES ASSUME NEW f, Coming(f), f \notin Resolved(resolutions)' PROVE Coming(f)'
      BY DEF Coming
    <3>1. PICK i \in pending : i.name = f /\ stage = "purging all"
      BY <2>3 DEF Coming
    <3>2. i # id
      BY <1>1, <2>2, <3>1
    <3> QED BY <1>2, <3>1, <3>2 DEF Coming
  <2>5. \A f \in from : Coming(f)
    <3> SUFFICES ASSUME NEW u \in changing.away PROVE Coming(u.name)
      BY <1>6
    <3>1. CASE stage = "purging all"
      <4>1. u \in Unused
        BY <1>11, <3>1 DEF ReasonsFit
      <4> QED BY <1>11, <3>1, <4>1 DEF PurgesOnly, Coming
    <3>2. CASE stage = "purges found"
      <4>1. u \in CollectChanging.away
        BY <3>2 DEF Rest2, Purges
      <4>2. Going(u.name) /\ u.name \in Names
        BY <4>1, AwayMeans, InstalledNames
      <4>3. Decision(u.name) # Undecided
        BY <4>2, GoingIsDecided
      <4> QED BY <4>2, <4>3, UndecidedOutside DEF Coming
    <3> QED BY <1>2, <3>1, <3>2
  <2>6. ASSUME restarts <= 1 PROVE UsersComing'
    <3>1. UsersComing /\ PlainGiven
      BY <1>11, <2>6 DEF ReasonsFit
    <3> SUFFICES ASSUME NEW m \in Names, NEW x \in Constraints(m)', NEW f \in x.from PROVE WasUsed(x) /\ Coming(f)
      BY <2>4 DEF UsersComing, WasUsed
    <3>2. x \in Constraints(m) \/ x \in Given(m) \/ x = c
      <4>1. CASE resolutions' = resolutions
        BY <4>1, SameResolutions
      <4>2. CASE Updated(n, Had(n) \cup {c}, BestDecision(n, Had(n) \cup {c}))
        <5>1. CASE m = n
          BY <4>2, <5>1 DEF Updated, Had
        <5>2. CASE m # n
          BY <4>2, <5>2 DEF Updated
        <5> QED BY <5>1, <5>2
      <4> QED BY <1>9, <4>1, <4>2
    <3>3. x \notin Given(m)
      BY <2>6, <3>1 DEF PlainGiven
    <3> QED BY <1>8, <2>5, <3>1, <3>2, <3>3 DEF UsersComing
  <2> QED BY <1>2, <1>5, <1>11, <2>1, <2>6 DEF ReasonsFit
<1> QED BY <1>10, <1>11

LEMMA NextReasons == IInv /\ Rest1 /\ Rest2 /\ Rounds /\ PurgesOnly /\ ReasonsFit /\ [Next]_vars => ReasonsFit'
<1> SUFFICES ASSUME IInv, Rest1, Rest2, Rounds, PurgesOnly, ReasonsFit, [Next]_vars PROVE ReasonsFit'
  OBVIOUS
<1>1. CASE AddTarget
  BY <1>1, AddTargetReasons
<1>2. CASE TargetsAdded \/ EndPass \/ FindDependents \/ DependentsResolved \/ FindPurges \/ PurgesResolved \/ UNCHANGED vars
  BY <1>2, OtherReasons
<1>3. CASE Purge
  BY <1>3, PurgeReasons
<1>4. CASE DecideNext
  <2>1. ~ system.purge
    <3>1. PICK n \in Resolved(resolutions) : Decision(n) = Undecided
      BY <1>4, DecideEffect
    <3>2. ~ ToBePurged(n)
      BY <3>1 DEF ToBePurged, Undecided
    <3> QED BY <3>2 DEF PurgesOnly
  <2> QED BY <1>4, <2>1, DecideNextReasons
<1>5. CASE \E dep \in adding.left : AddDependency(dep)
  <2>1. ~ system.purge
    BY <1>5 DEF AddDependency, PurgesOnly
  <2> QED BY <1>5, <2>1, AddDependencyReasons
<1>6. CASE \E id \in Installed : ResolveDependent(id)
  BY <1>6, ResolveDependentReasons
<1>7. CASE \E away \in adding.left : AddDependent(away)
  <2>1. PICK away \in adding.left : AddDependent(away)
    BY <1>7
  <2>2. CASE system.purge
    <3>1. PICK n \in Names : \E c : /\ system' = system /\ c = FromDependent(n, {away.name}) /\ IsFine(c)
                                   /\ Restart(ApplyConstraint(resolutions, n, c))
      BY <2>1, <2>2, AddDependentStartsOver
    <3>2. PICK c : /\ system' = system /\ c = FromDependent(n, {away.name})
                   /\ Restart(ApplyConstraint(resolutions, n, c))
      BY <3>1
    <3>3. Preset(c).from = {}
      BY <3>2, PresetIsPlain
    <3> QED BY <3>2, <3>3, RestartReasons
  <2>3. CASE ~ system.purge
    BY <2>1, <2>3, AddDependentReasons
  <2> QED BY <2>2, <2>3
<1>8. CASE \E id \in Installed : ResolvePurge(id)
  BY <1>8, ResolvePurgeReasons
<1> QED BY <1>1, <1>2, <1>3, <1>4, <1>5, <1>6, <1>7, <1>8 DEF Next

LEMMA InitReasons == Init => ReasonsFit
<1> SUFFICES ASSUME Init PROVE ReasonsFit
  OBVIOUS
<1>1. /\ stage = "targets" /\ resolutions = NoResolutions /\ adding = NothingLeft
      /\ initial = [n \in {} |-> {}]
  BY DEF Init
<1>2. \A n \in Names : Constraints(n) = {} /\ Given(n) = {}
  BY <1>1 DEF NoResolutions, Constraints, Given
<1>3. adding.of = "nothing"
  BY <1>1 DEF NothingLeft
<1>4. PlainGiven
  BY <1>1, <1>2 DEF PlainGiven
<1>5. AllBehind /\ LoopsBehind /\ UsersComing
  BY <1>1, <1>2, <1>3 DEF AllBehind, LoopsBehind, UsersComing
<1> QED BY <1>1, <1>4, <1>5 DEF ReasonsFit

LEMMA FitInTheEnd == IInv /\ Rest1 /\ PurgesOnly /\ ReasonsFit => FitForOrdering
<1> SUFFICES ASSUME IInv, Rest1, PurgesOnly, ReasonsFit, Done, restarts <= 1,
                    NEW n \in Resolved(resolutions), NEW c \in Constraints(n), NEW f \in c.from
             PROVE  f \in Resolved(resolutions) /\ Decision(f).kind \in DecisionsBehind(c.reason)
  BY DEF FitForOrdering
<1>1. n \in Names
  BY ResolvedNames
<1>2. CASE ~ system.purge
  BY <1>1, <1>2 DEF ReasonsFit, AllBehind, Behind
<1>3. CASE system.purge
  <2>1. c.reason = "was_used_by" /\ Coming(f)
    BY <1>1, <1>3 DEF ReasonsFit, UsersComing, WasUsed
  <2>2. f \in Resolved(resolutions)
    BY <2>1 DEF Coming, Done
  <2>3. Decision(f).kind = "remove"
    BY <1>3, <2>2 DEF PurgesOnly, ToBePurged
  <2> QED BY <2>1, <2>2, <2>3, BehindMeans
<1> QED BY <1>2, <1>3

(***************************************************************************)
(* Up to the first restart, each reason names a package that is there, and *)
(* for which has been decided what the orderer assumes of such a reason:   *)
(* for any system, and whatever goes away or is purged.                    *)
(***************************************************************************)
THEOREM DecisionsAreFitForOrdering == Spec => []FitForOrdering
<1>1. Init => IInv /\ Rest1 /\ Rest2 /\ Rounds /\ PurgesOnly /\ ReasonsFit
  BY InitInvariant, InitRest, InitMore, InitPurges, InitReasons
<1>2. IInv /\ Rest1 /\ Rest2 /\ Rounds /\ PurgesOnly /\ ReasonsFit /\ [Next]_vars
         => IInv' /\ Rest1' /\ Rest2' /\ Rounds' /\ PurgesOnly' /\ ReasonsFit'
  BY NextInvariant, NextRest, NextMore, NextRounds, NextPurgesOnly, NextReasons
<1>3. IInv /\ Rest1 /\ PurgesOnly /\ ReasonsFit => FitForOrdering
  BY FitInTheEnd
<1> QED BY <1>1, <1>2, <1>3, PTL DEF Spec
==============================================================================
