----------------------------- MODULE WorldProofs -----------------------------
(***************************************************************************)
(* Proofs about world: what the threads of one process make of the file    *)
(* (WorldFile, here WF), and what the processes of a resolution make of    *)
(* the names in it (UpdateWorld): the names that WorldFile adds and        *)
(* removes are those that UpdateWorld asks for.                            *)
(*                                                                         *)
(* The file, for any number of threads and any lines: the mutex is held    *)
(* exactly during updates, and the file, read, truncated and rewritten     *)
(* piece by piece, implements WorldSet, whose updates are atomic.  What    *)
(* Remove() leaves of a sequence is the same on both levels and is not     *)
(* looked into.                                                            *)
(*                                                                         *)
(* The names, for any packages, sets and requests, and any number of       *)
(* invocations: nothing else is added or removed, and an update that was   *)
(* not cut short leaves world as it was asked to be.  Both hold of the     *)
(* default --update-world-program only; that it is not so with another is  *)
(* a finding (see README).  The inductive invariant, IInv, has three       *)
(* parts.  Derived says what a request that has gone through resume files  *)
(* still shares with the one that was asked: dependents may have become    *)
(* targets to be removed, and nothing else is different.  Parameters says  *)
(* what each update-world process is given.  Done says what the ones that  *)
(* are over have done to world, and what the running one has.              *)
(***************************************************************************)
EXTENDS UpdateWorld, Sequences, TLAPS

Typed ==
    /\ world \subseteq Names
    /\ installed \subseteq Packages
    /\ asked \in Requests
    /\ request \in AllRequests
    /\ program \in Programs
    /\ step \in Steps
    /\ todo \subseteq Specs
    /\ resumeFile \subseteq AllRequests
    /\ invocations \in Nat \ {0}

AsRemoval(n) == [name |-> n, blocks |-> TRUE, plain |-> TRUE]
AsDependent(n) == [name |-> n, blocks |-> FALSE, plain |-> TRUE]

(* What a request that was saved and read back shares with what was asked. *)
ComesFromAsked(r) ==
    /\ r.set = asked.set
    /\ asked.preserveWorld => r.preserveWorld
    /\ asked.specs \subseteq r.specs
    /\ \A s \in r.specs \ asked.specs : s.blocks /\ s.plain /\ s.name \in asked.dependents
    /\ r.dependents \subseteq asked.dependents
    /\ \A n \in asked.dependents \ r.dependents : AsRemoval(n) \in r.specs

Derived ==
    /\ ComesFromAsked(request)
    /\ \A r \in resumeFile : ComesFromAsked(r)
    /\ invocations = 1 => request = asked

Updating == {"removes", "adds", "dependents"}

Parameters ==
    /\ step \in Updating => ~ request.preserveWorld
    /\ step = "removes" => todo \subseteq ToRemove
    /\ step = "adds" => todo \subseteq ToAdd
    /\ step = "dependents" => todo \subseteq ToRemoveIfUnused

(* A name that has been removed is in world only if it is to be added.     *)
RemovalsDone ==
    \A s \in ToRemove : s.name \in world => \E a \in ToAdd : a.name = s.name

(* A name that was added is not in world only if it is that of a dependent *)
(* of which nothing is left.  In set mode a package to be removed would    *)
(* have made the process fail.                                             *)
AddsDone ==
    /\ \A s \in ToAdd : s.name \in world \/ s.name \in request.dependents \ installed
    /\ request.set => \A s \in request.specs : s.blocks => s.name \in SpecialSets

DependentsDone(left) ==
    \A n \in request.dependents \ installed : n \in world => AsDependent(n) \in left

Done ==
    /\ step = "removes" => \A s \in ToRemove : s \in todo \/ s.name \notin world
    /\ step = "adds" =>
          /\ RemovalsDone
          /\ \A s \in ToAdd : s \in todo \/ (s.name \in world /\ (request.set => ~ s.blocks))
    /\ step = "dependents" => RemovalsDone /\ AddsDone /\ DependentsDone(todo)
    /\ updated /\ step = "closing" => RemovalsDone /\ AddsDone /\ DependentsDone({})
    /\ updated => step \in {"closing", "exited"}

IInv == Typed /\ Derived /\ Parameters /\ Done

-----------------------------------------------------------------------------

(* The requests that are saved are requests, and come from what was asked  *)
(* if the one that is saved does.                                          *)
LEMMA SavedComesFromAsked ==
    ASSUME Typed, NEW r \in AllRequests, ComesFromAsked(r)
    PROVE  Saved(r) \in AllRequests /\ ComesFromAsked(Saved(r))
<1> DEFINE removals == {[name |-> n, blocks |-> TRUE, plain |-> TRUE] : n \in r.dependents}
<1>1. removals \subseteq Specs
  <2> SUFFICES ASSUME NEW n \in r.dependents
               PROVE  [name |-> n, blocks |-> TRUE, plain |-> TRUE] \in Specs
    OBVIOUS
  <2> n \in Packages
    BY DEF AllRequests
  <2> QED BY DEF Specs, Names
<1>2. Saved(r) = [specs |-> r.specs \cup removals, dependents |-> {}, set |-> r.set,
                  preserveWorld |-> r.preserveWorld]
  BY DEF Saved
<1>3. Saved(r) \in AllRequests
  BY <1>1, <1>2 DEF AllRequests
<1>4. \A s \in removals : s.blocks /\ s.plain /\ s.name \in r.dependents
  OBVIOUS
<1>5. \A n \in r.dependents : AsRemoval(n) \in removals
  BY DEF AsRemoval
<1>6. ComesFromAsked(Saved(r))
  <2> HIDE DEF removals
  <2> QED BY <1>2, <1>4, <1>5 DEF ComesFromAsked
<1> QED BY <1>3, <1>6

(* What the processes are given are specs.                                 *)
LEMMA ParametersAreSpecs ==
    ASSUME Typed
    PROVE  /\ ToRemove \subseteq Specs
           /\ ToAdd \subseteq Specs
           /\ ToRemoveIfUnused \subseteq Specs
<1>1. request.specs \subseteq Specs /\ request.dependents \subseteq Packages
  BY DEF Typed, AllRequests
<1>2. ToRemove \subseteq request.specs /\ ToAdd \subseteq request.specs
  BY DEF ToRemove, ToAdd
<1>3. ASSUME NEW s \in ToRemoveIfUnused
      PROVE  s \in Specs
  <2> PICK n \in request.dependents : s = [name |-> n, blocks |-> FALSE, plain |-> TRUE]
    BY DEF ToRemoveIfUnused
  <2> n \in Names
    BY <1>1 DEF Names
  <2> QED BY DEF Specs
<1> QED BY <1>1, <1>2, <1>3

LEMMA InitInvariant == Init => IInv
<1> SUFFICES ASSUME Init PROVE IInv
  OBVIOUS
<1>1. Typed
  <2>1. request \in AllRequests /\ asked \in Requests
    BY UpdateWorldAssumption DEF Init
  <2> QED BY <2>1 DEF Init, Typed, Steps
<1>2. Derived
  BY DEF Init, Derived, ComesFromAsked
<1> QED BY <1>1, <1>2 DEF Init, IInv, Parameters, Updating, Done

-----------------------------------------------------------------------------

(* The types are kept.                                                     *)
LEMMA StepTyped == Typed /\ Derived /\ [Next]_vars => Typed'
<1> SUFFICES ASSUME Typed, Derived, [Next]_vars PROVE Typed'
  OBVIOUS
<1> USE DEF Typed
<1>1. CASE RunJob
  <2>1. Saved(request) \in AllRequests
    BY SavedComesFromAsked DEF Derived
  <2> QED BY <1>1, <2>1 DEF RunJob
<1>2. ASSUME NEW ok \in BOOLEAN, NEW fetch \in BOOLEAN, ExecutionsReturn(ok, fetch)
      PROVE  Typed'
  BY <1>2, ParametersAreSpecs DEF ExecutionsReturn, Steps
<1>3. CASE RemoveOne
  BY <1>3 DEF RemoveOne
<1>4. CASE AddOne
  <2> PICK s \in todo : world' = world \cup {s.name} /\ todo' = todo \ {s}
    BY <1>4 DEF AddOne
  <2> s.name \in Names
    BY DEF Specs
  <2> QED BY <1>4 DEF AddOne
<1>5. CASE DependentOne
  <2> PICK s \in todo : /\ world' \in {world, world \cup {s.name}, world \ {s.name}}
                        /\ todo' = todo \ {s}
    BY <1>5 DEF DependentOne
  <2> s.name \in Names
    BY DEF Specs
  <2> QED BY <1>5 DEF DependentOne
<1>6. CASE NextProcess
  BY <1>6, ParametersAreSpecs DEF NextProcess, Steps
<1>7. CASE ProcessFails
  BY <1>7 DEF ProcessFails, Steps
<1>8. CASE Close
  <2>1. Saved(request) \in AllRequests
    BY SavedComesFromAsked DEF Derived
  <2> QED BY <1>8, <2>1 DEF Close, Steps
<1>9. CASE Crash
  BY <1>9 DEF Crash, Steps
<1>10. ASSUME NEW keep \in BOOLEAN, Resume(keep)
       PROVE  Typed'
  <2> PICK r \in resumeFile : request' = [r EXCEPT !.preserveWorld = @ \/ keep]
    BY <1>10 DEF Resume
  <2>1. request' \in AllRequests
    BY DEF AllRequests
  <2> QED BY <1>10, <2>1 DEF Resume, Steps
<1>11. CASE UNCHANGED vars
  BY <1>11 DEF vars
<1> QED BY <1>1, <1>2, <1>3, <1>4, <1>5, <1>6, <1>7, <1>8, <1>9, <1>10, <1>11 DEF Next

(* Requests come from what was asked: the resume file says what the        *)
(* request says, and the next request what the resume file does.           *)
LEMMA StepDerived == Typed /\ Derived /\ [Next]_vars => Derived'
<1> SUFFICES ASSUME Typed, Derived, [Next]_vars PROVE Derived'
  OBVIOUS
<1>1. request \in AllRequests /\ ComesFromAsked(Saved(request))
  BY SavedComesFromAsked DEF Derived, Typed
<1>2. CASE UNCHANGED <<asked, request, resumeFile, invocations>>
  BY <1>2 DEF Derived, ComesFromAsked
<1>3. CASE /\ UNCHANGED <<asked, request, invocations>>
           /\ resumeFile' \subseteq {Saved(request)}
  BY <1>1, <1>3 DEF Derived, ComesFromAsked
<1>4. ASSUME NEW keep \in BOOLEAN, Resume(keep)
      PROVE  Derived'
  <2> PICK r \in resumeFile : request' = [r EXCEPT !.preserveWorld = @ \/ keep]
    BY <1>4 DEF Resume
  <2>1. /\ r \in AllRequests
        /\ ComesFromAsked(r)
    BY DEF Typed, Derived
  <2>2. /\ request'.specs = r.specs
        /\ request'.dependents = r.dependents
        /\ request'.set = r.set
        /\ r.preserveWorld => request'.preserveWorld
    BY <2>1 DEF AllRequests
  <2>3. asked' = asked /\ resumeFile' = resumeFile /\ invocations' # 1
    BY <1>4 DEF Resume, Typed
  <2>4. ComesFromAsked(request)'
    BY <2>1, <2>2, <2>3 DEF ComesFromAsked
  <2>5. \A f \in resumeFile' : ComesFromAsked(f)'
    BY <2>3 DEF Derived, ComesFromAsked
  <2> QED BY <2>3, <2>4, <2>5 DEF Derived
<1>5. CASE RunJob
  BY <1>3, <1>5 DEF RunJob
<1>6. CASE Close
  BY <1>3, <1>6 DEF Close
<1>7. CASE \/ RemoveOne \/ AddOne \/ DependentOne \/ NextProcess \/ ProcessFails \/ Crash
           \/ \E ok, fetch \in BOOLEAN : ExecutionsReturn(ok, fetch)
  BY <1>2, <1>7 DEF RemoveOne, AddOne, DependentOne, NextProcess, ProcessFails, Crash,
     ExecutionsReturn
<1>8. CASE UNCHANGED vars
  BY <1>2, <1>8 DEF vars
<1> QED BY <1>4, <1>5, <1>6, <1>7, <1>8 DEF Next

(* Each process is given its own parameters.                               *)
LEMMA StepParameters == Parameters /\ [Next]_vars => Parameters'
<1> SUFFICES ASSUME Parameters, [Next]_vars PROVE Parameters'
  OBVIOUS
<1> USE DEF Parameters, Updating
<1>1. CASE UNCHANGED <<request, step>> /\ todo' \subseteq todo
  BY <1>1 DEF ToRemove, ToAdd, ToRemoveIfUnused
<1>2. ASSUME NEW ok \in BOOLEAN, NEW fetch \in BOOLEAN, ExecutionsReturn(ok, fetch)
      PROVE  Parameters'
  BY <1>2 DEF ExecutionsReturn, ToRemove
<1>3. CASE NextProcess
  BY <1>3 DEF NextProcess, ToRemove, ToAdd, ToRemoveIfUnused
<1>4. CASE ProcessFails
  BY <1>4 DEF ProcessFails
<1>5. CASE Close
  BY <1>5 DEF Close
<1>6. CASE Crash
  BY <1>6 DEF Crash
<1>7. ASSUME NEW keep \in BOOLEAN, Resume(keep)
      PROVE  Parameters'
  BY <1>7 DEF Resume
<1>8. CASE RunJob \/ RemoveOne \/ AddOne \/ DependentOne \/ UNCHANGED vars
  BY <1>1, <1>8 DEF RunJob, RemoveOne, AddOne, DependentOne, vars
<1> QED BY <1>2, <1>3, <1>4, <1>5, <1>6, <1>7, <1>8 DEF Next

(* The default program does what the processes have to do, one parameter   *)
(* at a time.                                                              *)
LEMMA StepDone ==
    ASSUME Programs = {"cave"}, IInv, [Next]_vars
    PROVE  Done'
<1> USE DEF Done
<1>1. \/ ~ updated /\ step \notin {"closing", "exited"}
      \/ step \in {"closing", "exited"}
  BY DEF IInv, Typed, Steps
<1>2. CASE RunJob
  BY <1>1, <1>2 DEF RunJob, IInv
<1>3. ASSUME NEW ok \in BOOLEAN, NEW fetch \in BOOLEAN, ExecutionsReturn(ok, fetch)
      PROVE  Done'
  BY <1>3 DEF ExecutionsReturn, IInv, ToRemove
<1>4. CASE RemoveOne
  <2>1. ~ updated' /\ step' = "removes" /\ request' = request
    BY <1>4 DEF RemoveOne, IInv
  <2>2. ToRemove' = ToRemove
    BY <2>1 DEF ToRemove
  <2>3. \A s \in ToRemove : s \in todo' \/ s.name \notin world'
    BY <1>4 DEF RemoveOne, IInv
  <2> QED BY <2>1, <2>2, <2>3
<1>5. CASE AddOne
  <2>1. ~ updated' /\ step' = "adds" /\ request' = request
    BY <1>5 DEF AddOne, IInv
  <2>2. ToRemove' = ToRemove /\ ToAdd' = ToAdd
    BY <2>1 DEF ToRemove, ToAdd
  <2>3. PICK s \in todo : /\ request.set => ~ s.blocks
                          /\ world' = world \cup {s.name}
                          /\ todo' = todo \ {s}
    BY <1>5 DEF AddOne
  <2>4. s \in ToAdd
    BY <1>5, <2>3 DEF AddOne, IInv, Parameters
  <2>5. RemovalsDone'
    BY <1>5, <2>2, <2>3, <2>4 DEF AddOne, IInv, RemovalsDone
  <2>6. \A a \in ToAdd : a \in todo' \/ (a.name \in world' /\ (request.set => ~ a.blocks))
    BY <1>5, <2>3 DEF AddOne, IInv
  <2> QED BY <2>1, <2>2, <2>5, <2>6
<1>6. CASE DependentOne
  <2>1. ~ updated' /\ step' = "dependents" /\ UNCHANGED <<request, installed>>
    BY <1>6 DEF DependentOne, IInv
  <2>2. ToRemove' = ToRemove /\ ToAdd' = ToAdd
    BY <2>1 DEF ToRemove, ToAdd
  <2>3. PICK s \in todo : /\ world' = IF s.name \in installed THEN world ELSE world \ {s.name}
                          /\ todo' = todo \ {s}
    BY <1>6 DEF DependentOne, IInv, Typed
  <2>4. PICK m \in request.dependents : s = AsDependent(m) /\ s.name = m
    BY <1>6 DEF DependentOne, IInv, Parameters, ToRemoveIfUnused, AsDependent
  <2>5. RemovalsDone /\ AddsDone /\ DependentsDone(todo)
    BY <1>6 DEF DependentOne, IInv
  <2>6. RemovalsDone'
    BY <2>2, <2>3, <2>5 DEF RemovalsDone
  <2>7. AddsDone'
    BY <2>1, <2>2, <2>3, <2>4, <2>5 DEF AddsDone
  <2>8. DependentsDone(todo)'
    <3> SUFFICES ASSUME NEW n \in request.dependents \ installed, n \in world'
                 PROVE  AsDependent(n) \in todo'
      BY <2>1 DEF DependentsDone, AsDependent
    <3>1. n # m
      BY <2>3, <2>4
    <3>2. AsDependent(n) # s
      BY <2>4, <3>1 DEF AsDependent
    <3>3. AsDependent(n) \in todo
      BY <2>3, <2>5 DEF DependentsDone
    <3> QED BY <2>3, <3>2, <3>3
  <2> QED BY <2>1, <2>6, <2>7, <2>8
<1>7. CASE NextProcess
  <2>1. UNCHANGED <<world, installed, request>> /\ todo = {}
    BY <1>7 DEF NextProcess
  <2>2. UNCHANGED <<ToRemove, ToAdd, RemovalsDone, AddsDone>>
    BY <2>1 DEF ToRemove, ToAdd, RemovalsDone, AddsDone
  <2>3. CASE step = "removes" /\ step' = "adds" /\ todo' = ToAdd /\ UNCHANGED updated
    BY <1>1, <2>1, <2>2, <2>3 DEF IInv, RemovalsDone
  <2>4. CASE step = "adds" /\ step' = "dependents" /\ todo' = ToRemoveIfUnused /\ UNCHANGED updated
    <3>1. RemovalsDone /\ \A s \in ToAdd : s.name \in world /\ (request.set => ~ s.blocks)
      BY <2>1, <2>4 DEF IInv
    <3>2. request.set => \A s \in request.specs : s.name \notin SpecialSets => s \in ToAdd
      BY DEF ToAdd
    <3>3. AddsDone
      BY <3>1, <3>2 DEF AddsDone
    <3>4. DependentsDone(todo)'
      BY <2>1, <2>4 DEF DependentsDone, ToRemoveIfUnused, AsDependent
    <3> QED BY <1>1, <2>2, <2>4, <3>1, <3>3, <3>4
  <2>5. CASE step = "dependents" /\ step' = "closing" /\ updated' = TRUE /\ UNCHANGED todo
    <3>1. RemovalsDone /\ AddsDone /\ DependentsDone({})
      BY <2>1, <2>5 DEF IInv
    <3>2. DependentsDone({})'
      BY <2>1, <3>1 DEF DependentsDone
    <3> QED BY <2>2, <2>5, <3>1, <3>2
  <2> QED BY <1>7, <2>3, <2>4, <2>5 DEF NextProcess
<1>8. CASE ProcessFails
  BY <1>8 DEF ProcessFails, IInv
<1>9. CASE Close \/ Crash
  BY <1>9 DEF Close, Crash
<1>10. ASSUME NEW keep \in BOOLEAN, Resume(keep)
       PROVE  Done'
  BY <1>10 DEF Resume
<1>11. CASE UNCHANGED vars
  BY <1>11 DEF vars, IInv, ToRemove, ToAdd, RemovalsDone, AddsDone, DependentsDone, AsDependent
<1> QED BY <1>2, <1>3, <1>4, <1>5, <1>6, <1>7, <1>8, <1>9, <1>10, <1>11 DEF Next

LEMMA StepInvariant ==
    ASSUME Programs = {"cave"}
    PROVE  IInv /\ [Next]_vars => IInv'
BY StepTyped, StepDerived, StepParameters, StepDone DEF IInv

-----------------------------------------------------------------------------

(* The invariant says that world is as it was asked to be, where an update *)
(* is over.                                                                *)
LEMMA InvariantMeans == IInv => WorldIsAsAsked
<1> SUFFICES ASSUME IInv, updated, step = "closing" PROVE WorldIsAsAsked
  BY DEF WorldIsAsAsked
<1> DEFINE gone == asked.dependents \ installed
<1>1. RemovalsDone /\ AddsDone /\ DependentsDone({})
  BY DEF IInv, Done
<1>2. ComesFromAsked(request)
  BY DEF IInv, Derived
<1>3. asked \in AllRequests
  BY UpdateWorldAssumption DEF IInv, Typed
<1>4. \A a \in ToAdd : a.plain /\ ~ a.blocks /\ ~ request.set => a.name \in AskedToAdd
  BY <1>2 DEF ComesFromAsked, AskedToAdd, ToAdd
<1>5. ASSUME NEW n \in AskedToAdd, n \notin gone
      PROVE  n \in world
  <2>1. PICK s \in asked.specs : /\ s.name = n /\ s.plain /\ ~ s.blocks
                                 /\ ~ (asked.set /\ s.name \in SpecialSets)
    BY DEF AskedToAdd
  <2>2. s \in ToAdd
    BY <1>2, <2>1 DEF ToAdd, ComesFromAsked
  <2> QED BY <1>1, <1>2, <1>5, <2>1, <2>2 DEF AddsDone, ComesFromAsked
<1>6. ASSUME NEW s \in ToRemove, s.name \in world
      PROVE  s.name \in AskedToAdd
  <2>1. PICK a \in ToAdd : a.name = s.name
    BY <1>1, <1>6 DEF RemovalsDone
  <2>2. ~ request.set
    BY DEF ToRemove
  <2> QED BY <1>4, <2>1, <2>2 DEF ToAdd
<1>7. ASSUME NEW n \in AskedToRemove, n \in world
      PROVE  n \in AskedToAdd
  <2>1. PICK s \in asked.specs : s.name = n /\ s.plain /\ s.blocks
    BY DEF AskedToRemove
  <2>2. ~ asked.set
    BY <2>1, UpdateWorldAssumption DEF IInv, Typed
  <2>3. s \in ToRemove
    BY <1>2, <2>1, <2>2 DEF ToRemove, ComesFromAsked
  <2> QED BY <1>6, <1>7, <2>1, <2>3
<1>8. ASSUME NEW n \in gone, n \in world
      PROVE  n \in AskedToAdd
  <2>1. n \notin request.dependents
    BY <1>1, <1>8 DEF DependentsDone
  <2>2. AsRemoval(n) \in request.specs
    BY <1>2, <2>1 DEF ComesFromAsked
  <2>3. AsRemoval(n).name = n /\ AsRemoval(n).blocks /\ AsRemoval(n).plain
    BY DEF AsRemoval
  <2>4. n \notin SpecialSets
    <3>1. n \in Packages
      BY <1>3 DEF AllRequests
    <3> QED BY <3>1, UpdateWorldAssumption
  <2>5. AsRemoval(n) \in ToRemove
    <3>1. ~ request.set
      BY <1>1, <2>2, <2>3, <2>4 DEF AddsDone
    <3> QED BY <2>2, <2>3, <3>1 DEF ToRemove
  <2> QED BY <1>6, <1>8, <2>3, <2>5
<1> QED BY <1>5, <1>7, <1>8 DEF WorldIsAsAsked

(* A step changes world only as was asked.                                 *)
LEMMA StepChanges ==
    ASSUME Programs = {"cave"}, IInv, [Next]_vars
    PROVE  /\ OnlyAskedAdded
           /\ \A n \in world \ world' :
                 /\ ~ asked.preserveWorld
                 /\ \/ n \in AskedToRemove
                    \/ n \in asked.dependents /\ (invocations = 1 => n \notin installed)
<1>1. ComesFromAsked(request) /\ (invocations = 1 => request = asked)
  BY DEF IInv, Derived
<1>2. step \in Updating => ~ asked.preserveWorld
  BY <1>1 DEF IInv, Parameters, ComesFromAsked
<1>3. CASE RemoveOne
  <2>1. PICK s \in todo : world' = world \ {s.name}
    BY <1>3 DEF RemoveOne
  <2>2. s \in request.specs /\ s.blocks /\ s.plain
    BY <1>3 DEF RemoveOne, IInv, Parameters, ToRemove
  <2>3. \/ s.name \in AskedToRemove
        \/ s.name \in asked.dependents /\ invocations # 1
    BY <1>1, <2>2 DEF ComesFromAsked, AskedToRemove
  <2> QED BY <1>2, <1>3, <2>1, <2>3 DEF RemoveOne, Updating, OnlyAskedAdded
<1>4. CASE AddOne
  <2>1. PICK s \in todo : world' = world \cup {s.name} /\ (request.set => ~ s.blocks)
    BY <1>4 DEF AddOne
  <2>2. s \in ToAdd /\ s \in request.specs /\ ~ s.blocks
    BY <1>4, <2>1 DEF AddOne, IInv, Parameters, ToAdd
  <2>3. s \in asked.specs
    BY <1>1, <2>2 DEF ComesFromAsked
  <2>4. s.plain
    BY <1>1, <2>2, <2>3, UpdateWorldAssumption DEF ToAdd, IInv, Typed, ComesFromAsked
  <2>5. s.name \in AskedToAdd
    BY <1>1, <2>2, <2>3, <2>4 DEF AskedToAdd, ToAdd, ComesFromAsked
  <2> QED BY <1>2, <1>4, <2>1, <2>5 DEF AddOne, Updating, OnlyAskedAdded
<1>5. CASE DependentOne
  <2>1. PICK s \in todo : world' = IF s.name \in installed THEN world ELSE world \ {s.name}
    BY <1>5 DEF DependentOne, IInv, Typed
  <2>2. s.name \in asked.dependents
    BY <1>1, <1>5 DEF DependentOne, IInv, Parameters, ToRemoveIfUnused, ComesFromAsked
  <2> QED BY <1>2, <1>5, <2>1, <2>2 DEF DependentOne, Updating, OnlyAskedAdded
<1>6. CASE UNCHANGED world
  BY <1>6 DEF OnlyAskedAdded
<1> QED BY <1>3, <1>4, <1>5, <1>6 DEF Next, RunJob, ExecutionsReturn, NextProcess, ProcessFails,
        Close, Crash, Resume, vars

(***************************************************************************)
(* With the default program, an update of world that was not cut short     *)
(* leaves world as the user asked for, whatever the request was and        *)
(* however often the jobs were interrupted and resumed                     *)
(* (execute_update_world() of cmd_execute_resolution.cc).                  *)
(***************************************************************************)
THEOREM WorldBecomesAsAsked ==
    ASSUME Programs = {"cave"}
    PROVE  Spec => []WorldIsAsAsked
<1>1. Init => IInv
  BY InitInvariant
<1>2. IInv /\ [Next]_vars => IInv'
  BY StepInvariant
<1>3. IInv => WorldIsAsAsked
  BY InvariantMeans
<1> QED BY <1>1, <1>2, <1>3, PTL DEF Spec

(***************************************************************************)
(* With the default program, a name comes into world only as a target, and *)
(* leaves it only as a target to be removed or as a dependent; a dependent *)
(* leaves it in the first invocation only if nothing of it is installed.   *)
(***************************************************************************)
THEOREM NothingElseHappensToWorld ==
    ASSUME Programs = {"cave"}
    PROVE  Spec => NothingElseChanges
<1>1. Init => IInv
  BY InitInvariant
<1>2. IInv /\ [Next]_vars => IInv'
  BY StepInvariant
<1>3. IInv /\ [Next]_vars =>
         [/\ OnlyAskedAdded
          /\ \A n \in world \ world' :
                /\ ~ asked.preserveWorld
                /\ \/ n \in AskedToRemove
                   \/ n \in asked.dependents /\ (invocations = 1 => n \notin installed)]_vars
  BY StepChanges
<1> QED BY <1>1, <1>2, <1>3, PTL DEF Spec, NothingElseChanges

-----------------------------------------------------------------------------
(***************************************************************************)
(* What threads make of the file.                                          *)
(***************************************************************************)
CONSTANTS Threads, Lines, NoThread, NoLine

VARIABLES exists, file, mutex, pc, op, moveTo, lines, result

WF == INSTANCE WorldFile

Places == {"idle", "called", "locked", "loaded", "writing"}

(***************************************************************************)
(* What the proofs need to know of the variables' types.                   *)
(***************************************************************************)
Shape ==
    /\ mutex \in Threads \cup {NoThread}
    /\ pc \in [Threads -> Places]
    /\ op \in [Threads -> WF!Operations \cup {WF!NoOperation}]
    /\ moveTo \in [Threads -> Names \cup {NoLine}]
    /\ DOMAIN lines = Threads

UpdateInPC == \A t \in Threads : pc[t] # "idle" => op[t] \in WF!Operations

(***************************************************************************)
(* A thread that has loaded the file knows what is in it, and one that     *)
(* writes has written a part of its lines, from the first one on.          *)
(***************************************************************************)
KnowsTheFile == \A t \in Threads : pc[t] = "loaded" => lines[t] = file

HasWrittenAPrefix ==
    \A t \in Threads : pc[t] = "writing" =>
        \/ file = <<>>
        \/ \E n \in 1..Len(lines[t]) : file = SubSeq(lines[t], 1, n)

Inv ==
    /\ WF!WorldFileOK
    /\ Shape
    /\ UpdateInPC
    /\ WF!MutexHeldInUpdate
    /\ KnowsTheFile
    /\ HasWrittenAPrefix

-----------------------------------------------------------------------------

LEMMA InitInv ==
    ASSUME WF!WorldFileOK
    PROVE  WF!Init => Inv
<1> SUFFICES ASSUME WF!Init PROVE Inv
  OBVIOUS
<1>1. \A t \in Threads : pc[t] = "idle" /\ t # NoThread
  BY DEF WF!Init, WF!WorldFileOK
<1>2. Shape
  BY DEF WF!Init, Shape, Places
<1>3. WF!MutexHeldInUpdate
  BY <1>1 DEF WF!Init, WF!MutexHeldInUpdate, WF!InUpdate
<1> QED
  BY <1>1, <1>2, <1>3 DEF Inv, UpdateInPC, KnowsTheFile, HasWrittenAPrefix

(***************************************************************************)
(* The steps of a thread t change what is kept for t, and leave what is    *)
(* kept for the others; the file changes only when t holds the mutex, when *)
(* no other thread is in an update.                                        *)
(***************************************************************************)
LEMMA OnlyOneInUpdate ==
    ASSUME Inv, NEW t \in Threads, WF!InUpdate(t)
    PROVE  mutex = t /\ \A u \in Threads : u # t => ~ WF!InUpdate(u)
BY DEF Inv, WF!MutexHeldInUpdate

LEMMA CallInv ==
    ASSUME Inv, NEW t \in Threads, NEW o \in WF!Operations, NEW m \in Names \cup {NoLine},
           WF!Call(t, o, m)
    PROVE  Inv'
<1> USE DEF Inv, WF!Call
<1>1. Shape'
  BY DEF Shape, Places
<1>2. \A u \in Threads : u # t => pc'[u] = pc[u] /\ op'[u] = op[u]
  BY DEF Shape
<1>3. pc[t] = "idle" /\ pc'[t] = "called" /\ op'[t] = o
  BY DEF Shape
<1>4. UpdateInPC'
  BY <1>2, <1>3 DEF UpdateInPC
<1>5. WF!MutexHeldInUpdate'
  BY <1>2, <1>3 DEF WF!MutexHeldInUpdate, WF!InUpdate
<1>6. KnowsTheFile' /\ HasWrittenAPrefix'
  BY <1>2, <1>3 DEF KnowsTheFile, HasWrittenAPrefix
<1> QED
  BY <1>1, <1>4, <1>5, <1>6

LEMMA LockInv ==
    ASSUME Inv, NEW t \in Threads, WF!Lock(t)
    PROVE  Inv'
<1> USE DEF Inv, WF!Lock
<1>1. Shape'
  BY DEF Shape, Places
<1>2. \A u \in Threads : u # t => pc'[u] = pc[u]
  BY DEF Shape
<1>3. pc[t] = "called" /\ pc'[t] = "locked"
  BY DEF Shape
<1>4. UpdateInPC'
  BY <1>2, <1>3 DEF UpdateInPC
<1>5. WF!MutexHeldInUpdate'
  BY <1>2, <1>3 DEF WF!MutexHeldInUpdate, WF!InUpdate, WF!WorldFileOK
<1>6. KnowsTheFile' /\ HasWrittenAPrefix'
  BY <1>2, <1>3 DEF KnowsTheFile, HasWrittenAPrefix
<1> QED
  BY <1>1, <1>4, <1>5, <1>6

(***************************************************************************)
(* Every way out of an update: t gives the mutex back, and the file is     *)
(* nobody's business any more.                                             *)
(***************************************************************************)
LEMMA LeaveInv ==
    ASSUME Inv, NEW t \in Threads, WF!InUpdate(t),
           mutex' = NoThread,
           \/ WF!Return(t)
           \/ WF!AddMoved(t) /\ moveTo[t] # NoLine
    PROVE  Inv'
<1> USE DEF Inv
<1>1. \A u \in Threads : u # t => pc'[u] = pc[u] /\ op'[u] = op[u] /\ ~ WF!InUpdate(u)
  BY OnlyOneInUpdate DEF WF!Return, WF!AddMoved, Shape
<1>2. \/ pc'[t] = "idle" /\ op'[t] = WF!NoOperation
      \/ pc'[t] = "called" /\ op'[t] = [kind |-> "add", line |-> moveTo[t]]
  BY DEF WF!Return, WF!AddMoved, Shape
<1>3. pc'[t] # "idle" => op'[t] \in WF!Operations
  <2>1. CASE WF!Return(t)
    BY <2>1 DEF WF!Return, Shape
  <2>2. CASE WF!AddMoved(t) /\ moveTo[t] # NoLine
    BY <2>2 DEF WF!AddMoved, Shape, WF!Operations
  <2> QED
    BY <2>1, <2>2
<1>4. Shape'
  <2>1. CASE WF!Return(t)
    BY <2>1 DEF WF!Return, Shape, Places
  <2>2. CASE WF!AddMoved(t) /\ moveTo[t] # NoLine
    BY <2>2 DEF WF!AddMoved, Shape, Places, WF!Operations
  <2> QED
    BY <2>1, <2>2
<1>5. UpdateInPC'
  BY <1>1, <1>3 DEF UpdateInPC
<1>6. \A u \in Threads : ~ WF!InUpdate(u)'
  BY <1>1, <1>2 DEF WF!InUpdate
<1> QED
  BY <1>4, <1>5, <1>6
     DEF WF!MutexHeldInUpdate, KnowsTheFile, HasWrittenAPrefix, WF!InUpdate, WF!WorldFileOK

LEMMA CreateInv ==
    ASSUME Inv, NEW t \in Threads, WF!CreateFile(t)
    PROVE  Inv'
BY DEF Inv, WF!CreateFile, Shape, UpdateInPC, WF!MutexHeldInUpdate, WF!InUpdate, KnowsTheFile,
       HasWrittenAPrefix

LEMMA LoadInv ==
    ASSUME Inv, NEW t \in Threads, WF!Load(t)
    PROVE  Inv'
<1> USE DEF Inv, WF!Load
<1>1. Shape'
  BY DEF Shape, Places
<1>2. \A u \in Threads : u # t => pc'[u] = pc[u] /\ ~ WF!InUpdate(u)
  BY OnlyOneInUpdate DEF Shape, WF!InUpdate
<1>3. pc[t] = "locked" /\ pc'[t] = "loaded" /\ lines'[t] = file
  BY DEF Shape
<1>4. UpdateInPC'
  BY <1>2, <1>3 DEF UpdateInPC
<1>5. WF!MutexHeldInUpdate'
  BY <1>2, <1>3 DEF WF!MutexHeldInUpdate, WF!InUpdate
<1>6. KnowsTheFile' /\ HasWrittenAPrefix'
  BY <1>2, <1>3 DEF KnowsTheFile, HasWrittenAPrefix, WF!InUpdate
<1> QED
  BY <1>1, <1>4, <1>5, <1>6

LEMMA OpenInv ==
    ASSUME Inv, NEW t \in Threads, WF!ChangeAndOpen(t)
    PROVE  Inv'
<1> USE DEF Inv, WF!ChangeAndOpen
<1>1. Shape'
  BY DEF Shape, Places
<1>2. \A u \in Threads : u # t => pc'[u] = pc[u] /\ ~ WF!InUpdate(u)
  BY OnlyOneInUpdate DEF Shape, WF!InUpdate
<1>3. pc[t] = "loaded" /\ pc'[t] = "writing"
  BY DEF Shape
<1>4. UpdateInPC'
  BY <1>2, <1>3 DEF UpdateInPC
<1>5. WF!MutexHeldInUpdate'
  BY <1>2, <1>3 DEF WF!MutexHeldInUpdate, WF!InUpdate
<1>6. KnowsTheFile' /\ HasWrittenAPrefix'
  BY <1>2, <1>3 DEF KnowsTheFile, HasWrittenAPrefix, WF!InUpdate
<1> QED
  BY <1>1, <1>4, <1>5, <1>6

LEMMA WriteInv ==
    ASSUME Inv, NEW t \in Threads, WF!WriteSome(t)
    PROVE  Inv'
<1> USE DEF Inv, WF!WriteSome
<1>1. \A u \in Threads : u # t => ~ WF!InUpdate(u)
  BY OnlyOneInUpdate DEF WF!InUpdate
<1>2. Shape' /\ UpdateInPC' /\ WF!MutexHeldInUpdate'
  BY DEF Shape, UpdateInPC, WF!MutexHeldInUpdate, WF!InUpdate
<1>3. KnowsTheFile' /\ HasWrittenAPrefix'
  BY <1>1 DEF KnowsTheFile, HasWrittenAPrefix, WF!InUpdate
<1> QED
  BY <1>2, <1>3

LEMMA CrashInv ==
    ASSUME Inv, WF!Crash
    PROVE  Inv'
<1>1. Shape'
  BY DEF Inv, WF!Crash, Shape, Places
<1>2. \A t \in Threads : pc'[t] = "idle" /\ t # NoThread
  BY DEF WF!Crash, WF!WorldFileOK, Inv
<1> QED
  BY <1>1, <1>2 DEF Inv, WF!Crash, UpdateInPC, WF!MutexHeldInUpdate, WF!InUpdate, KnowsTheFile,
                    HasWrittenAPrefix

LEMMA NextInv == Inv /\ [WF!Next]_WF!vars => Inv'
<1> SUFFICES ASSUME Inv, [WF!Next]_WF!vars PROVE Inv'
  OBVIOUS
<1>1. ASSUME NEW t \in Threads, WF!NoFile(t) \/ WF!OpenFails(t) \/ WF!WriteLast(t) \/ WF!WriteFails(t)
      PROVE  Inv'
  <2>1. /\ WF!InUpdate(t)
        /\ mutex' = NoThread
        /\ WF!Return(t) \/ (WF!AddMoved(t) /\ moveTo[t] # NoLine)
    BY <1>1 DEF WF!NoFile, WF!OpenFails, WF!WriteLast, WF!WriteFails, WF!Return, WF!GoesOn, WF!InUpdate
  <2> QED
    BY <2>1, LeaveInv
<1>2. ASSUME NEW t \in Threads, WF!Progress(t) PROVE Inv'
  BY <1>1, <1>2, CreateInv, LoadInv, OpenInv, WriteInv DEF WF!Progress
<1>3. CASE UNCHANGED WF!vars
  BY <1>3 DEF WF!vars, Inv, Shape, UpdateInPC, WF!MutexHeldInUpdate, WF!InUpdate, KnowsTheFile,
              HasWrittenAPrefix
<1> QED
  BY <1>2, <1>3, CallInv, LockInv, CrashInv DEF WF!Next

LEMMA InvHolds ==
    ASSUME WF!WorldFileOK
    PROVE  WF!Spec => []Inv
BY InitInv, NextInv, PTL DEF WF!Spec

(***************************************************************************)
(* No matter how many threads update world, the mutex is held by a thread  *)
(* exactly from the time it reads the file to the time it has written it,  *)
(* or has failed to.                                                       *)
(***************************************************************************)
THEOREM MutexIsHeld ==
    ASSUME WF!WorldFileOK
    PROVE  WF!Spec => []WF!MutexHeldInUpdate
<1>1. Inv => WF!MutexHeldInUpdate
  BY DEF Inv
<1> QED
  BY <1>1, InvHolds, PTL

-----------------------------------------------------------------------------

(***************************************************************************)
(* What World is: the lines of the thread that writes, or the file.        *)
(***************************************************************************)
LEMMA WorldWhileWriting ==
    ASSUME Inv, NEW t \in Threads, pc[t] = "writing"
    PROVE  WF!World = lines[t]
BY OnlyOneInUpdate DEF WF!World, WF!InUpdate, Inv, WF!WorldFileOK

LEMMA WorldOtherwise ==
    ASSUME Inv, \A t \in Threads : pc[t] # "writing"
    PROVE  WF!World = file
BY DEF Inv, Shape, WF!World

(***************************************************************************)
(* The change is the step that counts: a thread that has loaded the file   *)
(* turns the world into what it will write.                                *)
(***************************************************************************)
LEMMA ChangeIsAnUpdate ==
    ASSUME Inv, Inv', NEW t \in Threads, WF!ChangeAndOpen(t)
    PROVE  WF!Promised!Update
<1>1. WF!InUpdate(t) /\ lines[t] = file /\ op[t] \in WF!Operations
  BY DEF WF!ChangeAndOpen, WF!InUpdate, Inv, KnowsTheFile, UpdateInPC
<1>2. WF!World = file
  BY <1>1, OnlyOneInUpdate, WorldOtherwise DEF WF!ChangeAndOpen, WF!InUpdate
<1>3. pc'[t] = "writing" /\ lines'[t] = WF!Changed(file, op[t])
  BY <1>1 DEF WF!ChangeAndOpen, Inv, Shape
<1>4. mutex' = t
  BY <1>1, OnlyOneInUpdate DEF WF!ChangeAndOpen
<1>5. WF!World' = WF!Changed(file, op[t])
  BY <1>3, <1>4 DEF WF!World, Inv, WF!WorldFileOK
<1>6. op[t].line \in Lines
  BY <1>1 DEF WF!Operations, Inv, WF!WorldFileOK
<1>7. WF!Added(file, op[t].line) = WF!Promised!WithLine(file, op[t].line)
  BY DEF WF!Added, WF!Promised!WithLine, WF!Contains, WF!Promised!Contains
<1>8. WF!Remove(file, op[t].line) = WF!Promised!Remove(file, op[t].line)
  BY DEF WF!Remove, WF!Promised!Remove
<1>9. \/ WF!World' = WF!Promised!WithLine(WF!World, op[t].line)
      \/ WF!World' = WF!Promised!Remove(WF!World, op[t].line)
  BY <1>2, <1>5, <1>7, <1>8 DEF WF!Changed
<1> QED
  BY <1>6, <1>9 DEF WF!Promised!Update

(***************************************************************************)
(* Stopping early leaves the lines that were written.                      *)
(***************************************************************************)
LEMMA StoppingCutsShort ==
    ASSUME Inv, file' = file, mutex' = NoThread
    PROVE  WF!Promised!CutShort \/ UNCHANGED WF!World
<1>1. WF!World' = file
  BY DEF WF!World
<1>2. CASE \A t \in Threads : pc[t] # "writing"
  BY <1>1, <1>2, WorldOtherwise
<1>3. ASSUME NEW t \in Threads, pc[t] = "writing" PROVE WF!Promised!CutShort
  <2>1. WF!World = lines[t]
    BY <1>3, WorldWhileWriting
  <2>2. file = <<>> \/ \E n \in 1..Len(lines[t]) : file = SubSeq(lines[t], 1, n)
    BY <1>3 DEF Inv, HasWrittenAPrefix
  <2> QED
    BY <1>1, <2>1, <2>2 DEF WF!Promised!CutShort
<1> QED
  BY <1>2, <1>3

LEMMA WorldUnchanged ==
    ASSUME UNCHANGED <<file, mutex, lines>>,
           mutex # NoThread => (pc'[mutex] = "writing" <=> pc[mutex] = "writing")
    PROVE  UNCHANGED WF!World
BY DEF WF!World

LEMMA StepsImplement ==
    ASSUME Inv, Inv', [WF!Next]_WF!vars
    PROVE  [WF!Promised!Update \/ WF!Promised!CutShort]_(WF!World)
<1>1. ASSUME NEW t \in Threads, NEW o \in WF!Operations, NEW m \in Names \cup {NoLine},
             WF!Call(t, o, m)
      PROVE  UNCHANGED WF!World
  BY <1>1, WorldUnchanged DEF WF!Call, Inv, Shape
<1>2. ASSUME NEW t \in Threads, WF!Lock(t) PROVE UNCHANGED WF!World
  <2>1. mutex = NoThread /\ mutex' = t /\ pc'[t] = "locked" /\ file' = file
    BY <1>2 DEF WF!Lock, Inv, Shape
  <2> QED
    BY <2>1 DEF WF!World
<1>3. ASSUME NEW t \in Threads, WF!NoFile(t) \/ WF!OpenFails(t) \/ WF!WriteFails(t)
      PROVE  WF!Promised!CutShort \/ UNCHANGED WF!World
  BY <1>3, StoppingCutsShort DEF WF!NoFile, WF!OpenFails, WF!WriteFails, WF!Return
<1>4. ASSUME NEW t \in Threads, WF!CreateFile(t) PROVE UNCHANGED WF!World
  BY <1>4 DEF WF!CreateFile, WF!World
<1>5. ASSUME NEW t \in Threads, WF!Load(t) PROVE UNCHANGED WF!World
  <2>1. mutex = t /\ mutex' = t /\ pc[t] = "locked" /\ pc'[t] = "loaded" /\ file' = file
    BY <1>5, OnlyOneInUpdate DEF WF!Load, WF!InUpdate, Inv, Shape
  <2> QED
    BY <2>1 DEF WF!World
<1>6. ASSUME NEW t \in Threads, WF!ChangeAndOpen(t) PROVE WF!Promised!Update
  BY <1>6, ChangeIsAnUpdate
<1>7. ASSUME NEW t \in Threads, WF!WriteSome(t) PROVE UNCHANGED WF!World
  <2>1. WF!World = lines[t]
    BY <1>7, WorldWhileWriting DEF WF!WriteSome
  <2>2. (WF!World = lines[t])'
    BY <1>7, OnlyOneInUpdate DEF WF!WriteSome, WF!World, WF!InUpdate, Inv, WF!WorldFileOK
  <2> QED
    BY <1>7, <2>1, <2>2 DEF WF!WriteSome
<1>8. ASSUME NEW t \in Threads, WF!WriteLast(t) PROVE UNCHANGED WF!World
  <2>1. WF!World = lines[t] /\ file' = lines[t] /\ mutex' = NoThread
    BY <1>8, WorldWhileWriting DEF WF!WriteLast, WF!Return
  <2> QED
    BY <2>1 DEF WF!World
<1>9. CASE WF!Crash
  BY <1>9, StoppingCutsShort DEF WF!Crash
<1>10. CASE UNCHANGED WF!vars
  BY <1>10 DEF WF!vars, WF!World
<1>11. ASSUME NEW t \in Threads, WF!Progress(t)
       PROVE  [WF!Promised!Update \/ WF!Promised!CutShort]_(WF!World)
  BY <1>3, <1>4, <1>5, <1>6, <1>7, <1>8, <1>11 DEF WF!Progress
<1> QED
  BY <1>1, <1>2, <1>9, <1>10, <1>11 DEF WF!Next

(***************************************************************************)
(* The world file, with its mutex, its copies in memory and its writes     *)
(* that can be cut short, keeps what WorldSet promises.                    *)
(***************************************************************************)
THEOREM RefinesWorldSet ==
    ASSUME WF!WorldFileOK
    PROVE  WF!Spec => WF!ImplementsWorldSet
<1>1. WF!Init => WF!Promised!Init
  BY DEF WF!Init, WF!World, WF!Promised!Init, WF!WorldFileOK
<1>2. Inv /\ Inv' /\ [WF!Next]_WF!vars => [WF!Promised!Update \/ WF!Promised!CutShort]_(WF!World)
  BY StepsImplement
<1> QED
  BY <1>1, <1>2, InvHolds, PTL DEF WF!Spec, WF!ImplementsWorldSet, WF!Promised!Spec
==============================================================================
