--------------------------- MODULE MCManagedOutput ---------------------------
(* Standard output comes in any pieces, standard error in whole lines.     *)
EXTENDS ManagedOutput

MCEnds == [stdout |-> BOOLEAN, stderr |-> {TRUE}]
==============================================================================
