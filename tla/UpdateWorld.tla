----------------------------- MODULE UpdateWorld -----------------------------
(***************************************************************************)
(* How the world set follows a resolution: after every job has succeeded,  *)
(* execute_update_world() of src/clients/cave/cmd_execute_resolution.cc    *)
(* starts up to three `cave update-world` processes (cmd_update_world.cc), *)
(* which remove the targets that were uninstalled, add the ones that were  *)
(* installed, and remove the names that were uninstalled because something *)
(* they depended upon was, if nothing of that name is left.  What to do is *)
(* on the command line, and, should the jobs be interrupted, in the resume *)
(* file, from which `cave resume` (cmd_resume.cc) makes a command line.    *)
(***************************************************************************)
EXTENDS Naturals, FiniteSets

CONSTANTS
    Packages,       \* qualified package names
    SetNames,       \* names of sets
    SpecialSets,    \* "world", "system", "security" and the like
    Requests,       \* the requests that `cave resolve` may make
    Programs,       \* the values of --update-world-program that users give
    MaxInvocations  \* bound: how often the job list is run

(***************************************************************************)
(* A target.  A package target may be a block ("!cat/pkg"), and it is      *)
(* plain if it is a package name and nothing else.                         *)
(***************************************************************************)
Names == Packages \cup SetNames
Specs == [name : Names, blocks : BOOLEAN, plain : BOOLEAN]
AllRequests == [specs : SUBSET Specs, dependents : SUBSET Packages,
                set : BOOLEAN, preserveWorld : BOOLEAN]

(***************************************************************************)
(* "cave" is the program by default; "replaced" is another program with    *)
(* the same interface.                                                     *)
(***************************************************************************)
AllPrograms == {"cave", "replaced"}

ASSUME UpdateWorldAssumption ==
    /\ Packages \cap SetNames = {}
    /\ SpecialSets \subseteq SetNames
    /\ Requests \subseteq AllRequests
    /\ \A r \in Requests : \A s \in r.specs :
          IF r.set THEN s.name \in SetNames /\ ~ s.blocks /\ s.plain
          ELSE s.name \in Packages
    /\ Programs \subseteq AllPrograms
    /\ MaxInvocations \in Nat \ {0}

VARIABLES
    world,        \* the names in the world file
    installed,    \* the packages of which some version is installed
    asked,        \* what `cave resolve` asked for
    request,      \* what the command line of this invocation says
    program,
    step,         \* where execute_resolution() is
    allSucceeded, \* have all jobs succeeded?
    updated,      \* execute_update_world() has returned, in this invocation
    todo,         \* the parameters that the running update-world has left
    resumeFile,   \* the requests in the resume file: one, or none
    invocations

vars == <<world, installed, asked, request, program, step, allSucceeded, updated,
          todo, resumeFile, invocations>>

Steps == {"executing", "removes", "adds", "dependents", "closing", "exited"}

Init ==
    /\ world \in SUBSET Names
    /\ installed \in SUBSET Packages
    /\ request \in Requests
    /\ asked = request
    /\ program \in Programs
    /\ step = "executing"
    /\ allSucceeded = FALSE
    /\ updated = FALSE
    /\ todo = {}
    /\ resumeFile = {}
    /\ invocations = 1

-----------------------------------------------------------------------------

(* Mutant of Saved: the targets are not saved.                             *)
SavedWithoutTargets(r) ==
    [specs |-> {[name |-> n, blocks |-> TRUE, plain |-> TRUE] : n \in r.dependents},
     dependents |-> {}, set |-> r.set, preserveWorld |-> r.preserveWorld]

(***************************************************************************)
(* write_resume_file(): the names of dependents are saved as targets to be *)
(* removed, and not as what they are.                                      *)
(***************************************************************************)
Saved(r) ==
    [specs |-> r.specs \cup {[name |-> n, blocks |-> TRUE, plain |-> TRUE] : n \in r.dependents},
     dependents |-> {}, set |-> r.set, preserveWorld |-> r.preserveWorld]

(***************************************************************************)
(* Jobs install and uninstall; after each the resume file is written.      *)
(***************************************************************************)
RunJob ==
    /\ step = "executing"
    /\ installed' \in SUBSET Packages
    /\ resumeFile' = {Saved(request)}
    /\ UNCHANGED <<world, asked, request, program, step, allSucceeded, updated, todo, invocations>>

(***************************************************************************)
(* The parameters of the three update-world processes.  In set mode there  *)
(* are no removals, and everything is taken for the name of a set.         *)
(***************************************************************************)
ToRemove == {s \in request.specs : ~ request.set /\ s.blocks /\ s.plain}

ToAdd ==
    {s \in request.specs :
        IF request.set THEN s.name \notin SpecialSets ELSE ~ s.blocks /\ s.plain}

ToRemoveIfUnused == {[name |-> n, blocks |-> FALSE, plain |-> TRUE] : n \in request.dependents}

(***************************************************************************)
(* execute_executions() returns, or a hook throws.  (--fetch is like       *)
(* --preserve-world here, but is not kept in the resume file.)             *)
(***************************************************************************)
ExecutionsReturn(ok, fetch) ==
    /\ step = "executing"
    /\ allSucceeded' = ok
    /\ IF ok /\ ~ request.preserveWorld /\ ~ fetch
       THEN step' = "removes" /\ todo' = ToRemove
       ELSE step' = "closing" /\ UNCHANGED todo
    /\ UNCHANGED <<world, installed, asked, request, program, updated, resumeFile, invocations>>

(***************************************************************************)
(* UpdateWorldCommand::run, for one parameter.  A name with a "!" is not   *)
(* the name of a set, and makes the process fail.                          *)
(***************************************************************************)
RemoveOne ==
    /\ step = "removes"
    /\ \E s \in todo : world' = world \ {s.name} /\ todo' = todo \ {s}
    /\ UNCHANGED <<installed, asked, request, program, step, allSucceeded, updated,
                   resumeFile, invocations>>

AddOne ==
    /\ step = "adds"
    /\ \E s \in todo :
          /\ request.set => ~ s.blocks
          /\ world' = world \cup {s.name}
          /\ todo' = todo \ {s}
    /\ UNCHANGED <<installed, asked, request, program, step, allSucceeded, updated,
                   resumeFile, invocations>>

(* Mutant of DependentOne: --if-nothing-left is forgotten.                 *)
DependentInAnyCase ==
    /\ step = "dependents"
    /\ \E s \in todo :
          /\ world' = IF program = "replaced" THEN world \cup {s.name} ELSE world \ {s.name}
          /\ todo' = todo \ {s}
    /\ UNCHANGED <<installed, asked, request, program, step, allSucceeded, updated,
                   resumeFile, invocations>>

(***************************************************************************)
(* --remove --if-nothing-left are part of the command that is used by      *)
(* default, and are not given to a program that replaces it.               *)
(***************************************************************************)
DependentOne ==
    /\ step = "dependents"
    /\ \E s \in todo :
          /\ world' = IF program = "replaced" THEN world \cup {s.name}
                      ELSE IF s.name \in installed THEN world
                      ELSE world \ {s.name}
          /\ todo' = todo \ {s}
    /\ UNCHANGED <<installed, asked, request, program, step, allSucceeded, updated,
                   resumeFile, invocations>>

(***************************************************************************)
(* A process returns, and the next one is started; a process that has      *)
(* nothing to do is not started.                                           *)
(***************************************************************************)
NextProcess ==
    /\ todo = {}
    /\ \/ step = "removes" /\ step' = "adds" /\ todo' = ToAdd /\ UNCHANGED updated
       \/ step = "adds" /\ step' = "dependents" /\ todo' = ToRemoveIfUnused /\ UNCHANGED updated
       \/ step = "dependents" /\ step' = "closing" /\ updated' = TRUE /\ UNCHANGED todo
    /\ UNCHANGED <<world, installed, asked, request, program, allSucceeded, resumeFile, invocations>>

(***************************************************************************)
(* A process fails: "Updating world failed".                               *)
(***************************************************************************)
ProcessFails ==
    /\ step \in {"removes", "adds", "dependents"}
    /\ todo # {}
    /\ step' = "closing"
    /\ todo' = {}
    /\ UNCHANGED <<world, installed, asked, request, program, allSucceeded, updated,
                   resumeFile, invocations>>

Close ==
    /\ step = "closing"
    /\ resumeFile' = IF allSucceeded THEN {} ELSE {Saved(request)}
    /\ step' = "exited"
    /\ UNCHANGED <<world, installed, asked, request, program, allSucceeded, updated,
                   todo, invocations>>

Crash ==
    /\ step # "exited"
    /\ step' = "exited"
    /\ todo' = {}
    /\ UNCHANGED <<world, installed, asked, request, program, allSucceeded, updated,
                   resumeFile, invocations>>

(***************************************************************************)
(* `cave resume`; other packages may have come and gone in the meantime.   *)
(***************************************************************************)
Resume(preserveWorld) ==
    /\ step = "exited"
    /\ invocations < MaxInvocations
    /\ \E r \in resumeFile : request' = [r EXCEPT !.preserveWorld = @ \/ preserveWorld]
    /\ installed' \in SUBSET Packages
    /\ program' \in Programs
    /\ step' = "executing"
    /\ allSucceeded' = FALSE
    /\ updated' = FALSE
    /\ todo' = {}
    /\ invocations' = invocations + 1
    /\ UNCHANGED <<world, asked, resumeFile>>

Next ==
    \/ RunJob
    \/ \E ok, fetch \in BOOLEAN : ExecutionsReturn(ok, fetch)
    \/ RemoveOne \/ AddOne \/ DependentOne
    \/ NextProcess \/ ProcessFails
    \/ Close
    \/ Crash
    \/ \E preserveWorld \in BOOLEAN : Resume(preserveWorld)

Spec == Init /\ [][Next]_vars

-----------------------------------------------------------------------------

AskedToAdd ==
    {s.name : s \in {s \in asked.specs : s.plain /\ ~ s.blocks /\ ~ (asked.set /\ s.name \in SpecialSets)}}
AskedToRemove == {s.name : s \in {s \in asked.specs : s.plain /\ s.blocks}}

(***************************************************************************)
(* Only what the user has named, and as a plain name that was not blocked, *)
(* comes into world, in whatever invocation.                               *)
(***************************************************************************)
OnlyAskedAdded == world' \ world \subseteq IF asked.preserveWorld THEN {} ELSE AskedToAdd

(***************************************************************************)
(* Neither does anything else leave it: what does was a target to be       *)
(* removed or a dependent of one, and a dependent, unless the list was     *)
(* resumed, leaves it only if nothing of that name is left.                *)
(***************************************************************************)
NothingElseChanges ==
    [][/\ OnlyAskedAdded
       /\ \A n \in world \ world' :
             /\ ~ asked.preserveWorld
             /\ \/ n \in AskedToRemove
                \/ n \in asked.dependents /\ (invocations = 1 => n \notin installed)]_vars

(***************************************************************************)
(* "If nothing is left with the specified name, also remove it from        *)
(* world", says the help text of --removed-if-dependent-names.             *)
(***************************************************************************)
OnlyIfNothingIsLeft ==
    [][\A n \in (world \ world') \ AskedToRemove : n \notin installed]_vars

(***************************************************************************)
(* When an update of world was not cut short, world says what was asked,   *)
(* however often the jobs were resumed: targets are in it, and blocked     *)
(* targets and dependents of which nothing is left are not.  (A name that  *)
(* is a target and blocked is in it; one that is a target and a dependent, *)
(* and not installed, may be either.)                                      *)
(***************************************************************************)
WorldIsAsAsked ==
    updated /\ step = "closing" =>
        LET gone == asked.dependents \ installed IN
            /\ AskedToAdd \ gone \subseteq world
            /\ ((AskedToRemove \cup gone) \ AskedToAdd) \cap world = {}
===============================================================================
