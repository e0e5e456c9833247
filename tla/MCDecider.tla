------------------------------ MODULE MCDecider ------------------------------
(***************************************************************************)
(* Three packages with two versions each, and few links between them.  Each*)
(* family of systems lets go of what makes one part of the decider work.   *)
(***************************************************************************)
EXTENDS Decider

CONSTANT MaxLinks   \* how many links a family varies

MCNames == {"a", "b", "c"}
MCVersions == {1, 2}

Dep(on, kind, accepts) == [on |-> on, accepts |-> accepts, kind |-> kind]

Link(n, v, dep) == [of |-> <<n, v>>, dep |-> dep]

(* Dependencies of some kinds upon other packages, that accept some versions. *)
Links(from, kinds, accepts) ==
    {Link(n, v, Dep(m, k, acc)) : n \in from, v \in MCVersions, m \in MCNames \ from, k \in kinds, acc \in accepts}

LinkSets(links, k) == {Range(f) : f \in [1..k -> links]}

Is(a, b, c) == [n \in MCNames |-> CASE n = "a" -> a [] n = "b" -> b [] n = "c" -> c]

Want(n) == Dep(n, "needs", {1, 2})

System(installed, target, links) ==
    [installed |-> installed, installable |-> Is({1, 2}, {1, 2}, {1, 2}), masked |-> Is({}, {}, {}),
     depends |-> [id \in MCNames \X MCVersions |-> {l.dep : l \in {l \in links : l.of = id}}],
     targets |-> <<target>>, purge |-> FALSE, keepTargets |-> "never", world |-> {}, purgeable |-> {},
     removeIfDependent |-> {}, lessRestrictive |-> {}, allowedToRemove |-> {}, noRestarts |-> {}]

AnyLinks(kinds, accepts) == UNION {Links({n}, kinds, accepts) : n \in MCNames}

(***************************************************************************)
(* Later constraints upon what has been decided, also in circles, upon a   *)
(* package that may not restart, and for more than one attempt.            *)
(***************************************************************************)
Circle ==
    {Link("a", v, Want("b")) : v \in MCVersions} \cup {Link("a", 2, Want("c"))}

Restarting ==
    {[System(installed, Want("a"), Circle \cup links) EXCEPT !.noRestarts = no] :
        installed \in {Is(0, 0, 0), Is(0, 1, 1)}, no \in {{}, {"b"}},
        links \in LinkSets(AnyLinks({"needs"}, {{1}}) \cup AnyLinks({"blocks"}, {{}, {1}}), MaxLinks)}

(***************************************************************************)
(* Something that was to be nothing, as it is blocked, until a dependent   *)
(* of what changes, which has to change too, turns out to need it.         *)
(***************************************************************************)
Reviving ==
    {[System(Is(1, 0, 1), Want("a"), {Link("a", 2, Dep("b", "blocks", acc)), Link("c", 1, Dep("a", "needs", {1}))} \cup links)
        EXCEPT !.lessRestrictive = less, !.removeIfDependent = remove] :
        acc \in {{}, {1}}, less \in {{}, {"c"}}, remove \in {{}, {"c"}},
        links \in LinkSets(Links({"c"}, {"needs"}, {{1, 2}}) \cup Links({"b"}, {"needs"}, {{2}}), MaxLinks)}

(***************************************************************************)
(* Blockers, as a target and as a dependency of one, of a package that     *)
(* others may depend upon.                                                 *)
(***************************************************************************)
BlockKinds == {"blocks", "blocks_uninstall", "blocks_manual", "blocks_upgrade"}

Blockers == {Dep("b", k, acc) : k \in BlockKinds, acc \in {{}, {2}}}

Removing ==
    {[System(Is(0, 1, 1), IF asTarget THEN block ELSE Want("a"), {Link("a", 2, block)} \cup links)
        EXCEPT !.installable["c"] = new, !.installable["b"] = {2},
               !.removeIfDependent = remove, !.lessRestrictive = less, !.allowedToRemove = allowed] :
        asTarget \in BOOLEAN, block \in Blockers,
        links \in SUBSET {Link("c", 1, Dep("b", "needs", {1})), Link("c", 1, Dep("b", "builds", {1})),
                         Link("c", 2, Want("b")), Link("a", 2, Want("c"))},
        new \in {{}, {1, 2}}, remove \in {{}, {"c"}}, less \in {{}, {"c"}}, allowed \in {{}, {"b"}}}

(***************************************************************************)
(* An upgrade that may need less than before, and what it has needed.      *)
(***************************************************************************)
Purging ==
    {[System(Is(1, 1, 1), Want("a"), links)
        EXCEPT !.purge = purge, !.world = world, !.purgeable = purgeable] :
        purge \in BOOLEAN, world \in {{"a"}, {"a", "b"}}, purgeable \in {{}, {"b", "c"}},
        links \in LinkSets(AnyLinks({"needs"}, {{1}, {1, 2}}), MaxLinks)}

(***************************************************************************)
(* Suggestions, dependencies for building, and what is masked or kept.     *)
(***************************************************************************)
Suggesting ==
    {[System(installed, Want("a"), links)
        EXCEPT !.keepTargets = keep, !.masked["b"] = masked, !.installable["a"] = new] :
        installed \in {Is(0, 0, 0), Is(1, 1, 0)}, keep \in {"never", "if_same"},
        masked \in {{}, {2}, {1, 2}}, new \in {{1}, {1, 2}},
        links \in LinkSets(Links({"a"}, {"needs", "builds", "suggests"}, {{1, 2}}) \cup
                           Links({"b"}, {"needs"}, {{2}}), MaxLinks)}

(***************************************************************************)
(* What cannot be at first, and may be removed, or installed from what is  *)
(* masked, when more is known.                                             *)
(***************************************************************************)
Hopeless ==
    {[System(Is(1, 1, 0), Want("a"), {Link("a", 2, block)} \cup links)
        EXCEPT !.installable["b"] = new, !.masked["b"] = masked, !.keepTargets = "if_same",
               !.removeIfDependent = remove, !.noRestarts = no] :
        block \in {Dep("b", "blocks", {}), Dep("b", "blocks", {2}), Dep("b", "blocks_manual", {})},
        links \in SUBSET {Link("b", 1, Dep("a", "needs", {1})), Link("a", 2, Dep("b", "needs", {1})),
                         Link("a", 2, Want("c")), Link("c", 2, Dep("b", "needs", {2}))},
        new \in {{}, {2}}, masked \in {{}, {2}}, remove \in {{}, {"b"}}, no \in {{}, {"b"}}}

MCFamilies == {Restarting, Reviving, Removing, Purging, Suggesting, Hopeless}
==============================================================================
