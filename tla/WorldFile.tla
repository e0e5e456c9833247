------------------------------ MODULE WorldFile ------------------------------
(***************************************************************************)
(* paludis/environments/paludis/world.cc over the SimpleHandler of         *)
(* paludis/set_file.cc: the threads of one process add names to the world  *)
(* file and remove them from it.  Every update locks a mutex, reads the    *)
(* file, changes the lines in memory, and writes all of them again, to the *)
(* same file, which it truncates first.  The process may die at any point. *)
(* (Two processes share no lock, and are not modelled.)                    *)
(***************************************************************************)
EXTENDS SequencesExt

CONSTANTS
    Threads,
    Lines,      \* what may stand on a line: package names, set names, comments
    Names,      \* those of them that may be added, removed and moved
    NoThread,   \* not a thread
    NoLine      \* not a line

WorldFileOK ==
    /\ Names \subseteq Lines
    /\ NoThread \notin Threads
    /\ NoLine \notin Lines

ASSUME WorldFileAssumption == WorldFileOK

VARIABLES
    exists,   \* is there a world file?
    file,     \* its lines, <<>> if there is none
    mutex,    \* the thread that holds Imp<World>::mutex, or NoThread
    pc,       \* where every thread is in its update
    op,       \* what it does: "add" or "remove", and to which line
    moveTo,   \* the line that a package move adds after a remove, or NoLine
    lines,    \* _lines of the thread's SetFile
    result    \* what add() or remove() returned: was anything changed?

vars == <<exists, file, mutex, pc, op, moveTo, lines, result>>

Operations == [kind : {"add", "remove"}, line : Names]
NoOperation == [kind |-> "none", line |-> NoLine]

Init ==
    /\ exists \in BOOLEAN
    /\ file \in Seq(Lines)
    /\ ~ exists => file = <<>>
    /\ mutex = NoThread
    /\ pc = [t \in Threads |-> "idle"]
    /\ op = [t \in Threads |-> NoOperation]
    /\ moveTo = [t \in Threads |-> NoLine]
    /\ lines = [t \in Threads |-> <<>>]
    /\ result = [t \in Threads |-> FALSE]

-----------------------------------------------------------------------------

(***************************************************************************)
(* add_to_world(), remove_from_world(), and                                *)
(* update_config_files_for_package_move(), which starts with a remove.     *)
(***************************************************************************)
Call(t, o, m) ==
    /\ pc[t] = "idle"
    /\ m # NoLine => o.kind = "remove"
    /\ pc' = [pc EXCEPT ![t] = "called"]
    /\ op' = [op EXCEPT ![t] = o]
    /\ moveTo' = [moveTo EXCEPT ![t] = m]
    /\ UNCHANGED <<exists, file, mutex, lines, result>>

Lock(t) ==
    /\ pc[t] = "called"
    /\ mutex = NoThread
    /\ mutex' = t
    /\ pc' = [pc EXCEPT ![t] = "locked"]
    /\ UNCHANGED <<exists, file, op, moveTo, lines, result>>

(***************************************************************************)
(* The update is over, one way or another: its lock and its SetFile go out *)
(* of scope.                                                               *)
(***************************************************************************)
Return(t) ==
    /\ mutex' = NoThread
    /\ pc' = [pc EXCEPT ![t] = "idle"]
    /\ op' = [op EXCEPT ![t] = NoOperation]
    /\ moveTo' = [moveTo EXCEPT ![t] = NoLine]
    /\ lines' = [lines EXCEPT ![t] = <<>>]
    /\ result' = [result EXCEPT ![t] = FALSE]

(***************************************************************************)
(* There is no file: nothing can be removed, and creating one may fail.    *)
(***************************************************************************)
NoFile(t) ==
    /\ pc[t] = "locked"
    /\ ~ exists
    /\ Return(t)
    /\ UNCHANGED <<exists, file>>

CreateFile(t) ==
    /\ pc[t] = "locked"
    /\ ~ exists
    /\ op[t].kind = "add"
    /\ exists' = TRUE
    /\ UNCHANGED <<file, mutex, pc, op, moveTo, lines, result>>

(***************************************************************************)
(* The constructor of SimpleHandler reads the file, comments and blank     *)
(* lines included.                                                         *)
(***************************************************************************)
Load(t) ==
    /\ pc[t] = "locked"
    /\ exists
    /\ lines' = [lines EXCEPT ![t] = file]
    /\ pc' = [pc EXCEPT ![t] = "loaded"]
    /\ UNCHANGED <<exists, file, mutex, op, moveTo, result>>

(***************************************************************************)
(* SimpleHandler::add and remove: a line that is there is not added again, *)
(* and every line that equals the name is removed.                         *)
(***************************************************************************)
Added(s, l) == IF Contains(s, l) THEN s ELSE Append(s, l)

(* Mutant of Changed: of equal lines only the first is removed.            *)
FirstRemoved(s, o) == IF o.kind = "add" THEN Added(s, o.line) ELSE RemoveFirst(s, o.line)

Changed(s, o) == IF o.kind = "add" THEN Added(s, o.line) ELSE Remove(s, o.line)

(***************************************************************************)
(* SimpleHandler::rewrite(), after the change: opening the file truncates  *)
(* it; if it cannot be opened the exception leaves it as it was.           *)
(***************************************************************************)
ChangeAndOpen(t) ==
    /\ pc[t] = "loaded"
    /\ lines' = [lines EXCEPT ![t] = Changed(@, op[t])]
    /\ result' = [result EXCEPT ![t] = (Contains(lines[t], op[t].line) <=> op[t].kind = "remove")]
    /\ file' = <<>>
    /\ pc' = [pc EXCEPT ![t] = "writing"]
    /\ UNCHANGED <<exists, mutex, op, moveTo>>

OpenFails(t) ==
    /\ pc[t] = "loaded"
    /\ Return(t)
    /\ UNCHANGED <<exists, file>>

(***************************************************************************)
(* The stream's buffer is written out whenever it holds 4096 characters,   *)
(* which is checked after every line, and when the stream is destroyed.    *)
(***************************************************************************)
WriteSome(t) ==
    /\ pc[t] = "writing"
    /\ \E n \in 1..Len(lines[t]) :
          /\ Len(file) < n /\ n < Len(lines[t])
          /\ file' = SubSeq(lines[t], 1, n)
    /\ UNCHANGED <<exists, mutex, pc, op, moveTo, lines, result>>

GoesOn(t) == result[t] /\ moveTo[t] # NoLine

AddMoved(t) ==
    /\ pc' = [pc EXCEPT ![t] = "called"]
    /\ op' = [op EXCEPT ![t] = [kind |-> "add", line |-> moveTo[t]]]
    /\ moveTo' = [moveTo EXCEPT ![t] = NoLine]
    /\ lines' = [lines EXCEPT ![t] = <<>>]
    /\ result' = [result EXCEPT ![t] = FALSE]

(* Mutant of WriteLast: a move keeps the mutex for its second half.        *)
KeepsMutex(t) ==
    /\ pc[t] = "writing"
    /\ file' = lines[t]
    /\ \/ GoesOn(t) /\ AddMoved(t) /\ UNCHANGED mutex
       \/ ~ GoesOn(t) /\ Return(t)
    /\ UNCHANGED exists

(***************************************************************************)
(* Everything is written.  A package move, if it has removed anything,     *)
(* goes on to add the new name, for which it has to lock the mutex again.  *)
(***************************************************************************)
WriteLast(t) ==
    /\ pc[t] = "writing"
    /\ file' = lines[t]
    /\ \/ GoesOn(t) /\ AddMoved(t) /\ mutex' = NoThread
       \/ ~ GoesOn(t) /\ Return(t)
    /\ UNCHANGED exists

(***************************************************************************)
(* A write fails (the disk is full): the exception leaves the file as far  *)
(* as it was written, and ends a package move, too.                        *)
(***************************************************************************)
WriteFails(t) ==
    /\ pc[t] = "writing"
    /\ Return(t)
    /\ UNCHANGED <<exists, file>>

(***************************************************************************)
(* The process dies, and another one is started.                           *)
(***************************************************************************)
Crash ==
    /\ mutex' = NoThread
    /\ pc' = [t \in Threads |-> "idle"]
    /\ op' = [t \in Threads |-> NoOperation]
    /\ moveTo' = [t \in Threads |-> NoLine]
    /\ lines' = [t \in Threads |-> <<>>]
    /\ result' = [t \in Threads |-> FALSE]
    /\ UNCHANGED <<exists, file>>

Progress(t) ==
    \/ NoFile(t) \/ CreateFile(t) \/ Load(t)
    \/ ChangeAndOpen(t) \/ OpenFails(t)
    \/ WriteSome(t) \/ WriteLast(t) \/ WriteFails(t)

Next ==
    \/ \E t \in Threads :
          \/ \E o \in Operations, m \in Names \cup {NoLine} : Call(t, o, m)
          \/ Lock(t)
          \/ Progress(t)
    \/ Crash

(***************************************************************************)
(* A thread that holds the mutex runs.                                     *)
(***************************************************************************)
Spec == Init /\ [][Next]_vars
FairSpec == Spec /\ \A t \in Threads : WF_vars(Progress(t))

-----------------------------------------------------------------------------

InUpdate(t) == pc[t] \in {"locked", "loaded", "writing"}

(***************************************************************************)
(* Only the thread that holds the mutex is between reading the file and    *)
(* having written it, and no way out of an update keeps the mutex.         *)
(***************************************************************************)
MutexHeldInUpdate == \A t \in Threads : InUpdate(t) <=> mutex = t

(***************************************************************************)
(* The world as the updates see it: while the file is being written, what  *)
(* is going to be in it.                                                   *)
(***************************************************************************)
World ==
    IF mutex # NoThread /\ pc[mutex] = "writing" THEN lines[mutex] ELSE file

Promised == INSTANCE WorldSet WITH world <- World

(***************************************************************************)
(* Updates take effect one at a time, none is lost, and none brings back   *)
(* what another removed; only a crash or a failing write loses lines, and  *)
(* then the last ones.                                                     *)
(***************************************************************************)
ImplementsWorldSet == Promised!Spec

(***************************************************************************)
(* Once a thread has locked the mutex, it is unlocked again, whatever      *)
(* fails.                                                                  *)
(***************************************************************************)
MutexReleased == \A t \in Threads : mutex = t ~> mutex # t
===============================================================================
