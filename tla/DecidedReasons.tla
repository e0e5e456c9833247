------------------------------- MODULE DecidedReasons -------------------------------
(***************************************************************************)
(* What the decider and the orderer agree upon: what may have been decided *)
(* for the package from which a reason comes.  Dependencies are added for  *)
(* taken decisions to change or to keep what exists, dependents are those  *)
(* of what changes or goes, and a change or something that exists may      *)
(* become unable to be made when its dependencies have been added.         *)
(***************************************************************************)
DecisionsBehind(reason) ==
    CASE reason = "dependency" -> {"change", "nochange", "unable"}
      [] reason = "dependent" -> {"change", "remove", "unable"}
      [] reason = "was_used_by" -> {"change", "remove"}
==============================================================================
