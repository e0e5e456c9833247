------------------------------- MODULE WorldSet -------------------------------
(***************************************************************************)
(* What the world file promises to the threads of one process: it is a     *)
(* list of lines which adds and removals change one at a time, and only    *)
(* an update that is cut short (the process dies, or a write fails) can    *)
(* lose lines, and then only the last ones.                                *)
(***************************************************************************)
EXTENDS SequencesExt

CONSTANT Lines

VARIABLE world

WithLine(s, l) == IF Contains(s, l) THEN s ELSE Append(s, l)

Update == \E l \in Lines : world' = WithLine(world, l) \/ world' = Remove(world, l)

CutShort == world' = <<>> \/ \E n \in 1..Len(world) : world' = SubSeq(world, 1, n)

Init == world \in Seq(Lines)

Spec == Init /\ [][Update \/ CutShort]_world
===============================================================================
