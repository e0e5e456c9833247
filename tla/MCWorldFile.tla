----------------------------- MODULE MCWorldFile -----------------------------
(* Two threads, two package names, and a comment; at first there may be up  *)
(* to two lines, equal ones among them.                                     *)
EXTENDS WorldFile

CONSTANTS t1, t2, a, b, comment

MCThreads == {t1, t2}
MCNames == {a, b}
MCLines == {a, b, comment}

FewLines == UNION {[1..n -> Lines] : n \in 0..2}

MCInit == file \in FewLines /\ Init
MCSpec == MCInit /\ [][Next]_vars
MCFairSpec == MCSpec /\ \A t \in Threads : WF_vars(Progress(t))
===============================================================================
