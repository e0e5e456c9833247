------------------------------ MODULE CaveResume ------------------------------
(***************************************************************************)
(* The life of a job list over several invocations: execute_resolution()   *)
(* of cmd_execute_resolution.cc runs it, updates world if everything went  *)
(* well, and erases or writes the resume file; the process may be killed   *)
(* at any point; and `cave resume` (cmd_resume.cc) starts again from the   *)
(* resume file, which is all that is left of the invocations before it.    *)
(***************************************************************************)
EXTENDS ExecuteJobs

CONSTANTS
    MaxInvocations,  \* bound: how often the job list is run, the first time included
    UsedOptions      \* the execution options that the user gives to some invocation

ASSUME CaveResumeAssumption ==
    /\ MaxInvocations \in Nat \ {0}
    /\ UsedOptions \subseteq Options

VARIABLES
    step,           \* where execute_resolution() is
    invocations,    \* how many invocations there have been
    crashes,        \* how many of them were killed
    timesDone,      \* how often the work of every job was done with success
    worldUpdated    \* execute_update_world() has succeeded

resumeVars == <<step, invocations, crashes, timesDone, worldUpdated>>
caveVars == <<vars, resumeVars>>

Steps == {"executing",  \* in execute_executions()
          "world",      \* in execute_update_world()
          "closing",    \* about to call write_resume_file(..., true)
          "writing",    \* in it, the file truncated
          "exited"}     \* no process

CaveInit ==
    /\ StartExecutions
    /\ opts \in UsedOptions
    /\ state = [j \in Jobs |-> "pending"]
    /\ resumeFile = Absent
    /\ step = "executing"
    /\ invocations = 1
    /\ crashes = 0
    /\ timesDone = [j \in Jobs |-> 0]
    /\ worldUpdated = FALSE

-----------------------------------------------------------------------------

ExecuteStep ==
    /\ step = "executing"
    /\ Next
    /\ timesDone' = [j \in Jobs |->
                        IF state[j] = "active" /\ state'[j] = "succeeded"
                        THEN timesDone[j] + 1 ELSE timesDone[j]]
    /\ UNCHANGED <<step, invocations, crashes, worldUpdated>>

(***************************************************************************)
(* The install_all_pre or the install_all_post hook asks to abort, or, at  *)
(* the beginning, a pretend phase has failed or was all that was asked     *)
(* for: execute_resolution() goes straight to the resume file.             *)
(***************************************************************************)
HookAborts ==
    /\ step = "executing"
    /\ \/ mainPC = "finished"
       \/ mainPC = "add" /\ \A j \in Jobs : phase[j] = "unadded"
    /\ step' = "closing"
    /\ UNCHANGED <<vars, invocations, crashes, timesDone, worldUpdated>>

(* Mutant of ExecutionsReturn: world is updated after --fetch too.         *)
FetchesReturn ==
    /\ step = "executing"
    /\ mainPC = "finished"
    /\ step' = IF globalRetcode = 0 THEN "world" ELSE "closing"
    /\ UNCHANGED <<vars, invocations, crashes, timesDone, worldUpdated>>

ExecutionsReturn ==
    /\ step = "executing"
    /\ mainPC = "finished"
    /\ step' = IF globalRetcode = 0 /\ ~ opts.fetch THEN "world" ELSE "closing"
    /\ UNCHANGED <<vars, invocations, crashes, timesDone, worldUpdated>>

(***************************************************************************)
(* One of the update-world processes may fail, which throws to the same    *)
(* catch block.                                                            *)
(***************************************************************************)
UpdateWorld(ok) ==
    /\ step = "world"
    /\ step' = "closing"
    /\ worldUpdated' = (worldUpdated \/ ok)
    /\ UNCHANGED <<vars, invocations, crashes, timesDone>>

(***************************************************************************)
(* write_resume_file() with erase, on the normal and on the exceptional    *)
(* path.                                                                   *)
(***************************************************************************)
EraseResumeFile ==
    /\ step = "closing"
    /\ ~ \E j \in Jobs : NotASuccess(j)
    /\ resumeFile' = Absent
    /\ step' = "exited"
    /\ UNCHANGED <<executorVars, state, want, localRetcode, globalRetcode, opts, saving,
                   invocations, crashes, timesDone, worldUpdated>>

OpenResumeFile ==
    /\ step = "closing"
    /\ \E j \in Jobs : NotASuccess(j)
    /\ resumeFile' = Truncated
    /\ step' = "writing"
    /\ UNCHANGED <<executorVars, state, want, localRetcode, globalRetcode, opts, saving,
                   invocations, crashes, timesDone, worldUpdated>>

FinishResumeFile ==
    /\ step = "writing"
    /\ resumeFile' = Whole(state)
    /\ step' = "exited"
    /\ UNCHANGED <<executorVars, state, want, localRetcode, globalRetcode, opts, saving,
                   invocations, crashes, timesDone, worldUpdated>>

(***************************************************************************)
(* The process is killed, or dies of an exception in a job's thread.       *)
(***************************************************************************)
Crash ==
    /\ step # "exited"
    /\ step' = "exited"
    /\ crashes' = crashes + 1
    /\ UNCHANGED <<vars, invocations, timesDone, worldUpdated>>

(* Mutants of FixedState: a failure that is to be skipped counts as done,  *)
(* or --retry-failed retries everything.                                   *)
SkipsToSuccess(s, retryFailed, skipFailed, retrySkipped) ==
    IF s = "active" \/ (s = "failed" /\ retryFailed) \/ (s = "skipped" /\ retrySkipped)
    THEN "pending"
    ELSE IF s = "failed" /\ skipFailed THEN "succeeded"
    ELSE s

RetriesAll(s, retryFailed, skipFailed, retrySkipped) ==
    IF s = "active" \/ retryFailed \/ (s = "skipped" /\ retrySkipped) THEN "pending"
    ELSE IF s = "failed" /\ skipFailed THEN "skipped"
    ELSE s

(***************************************************************************)
(* fix_lists(): what becomes of a job's saved state, given the retry and   *)
(* skip options of `cave resume`.                                          *)
(***************************************************************************)
FixedState(s, retryFailed, skipFailed, retrySkipped) ==
    IF s = "active" \/ (s = "failed" /\ retryFailed) \/ (s = "skipped" /\ retrySkipped)
    THEN "pending"
    ELSE IF s = "failed" /\ skipFailed THEN "skipped"
    ELSE s

(***************************************************************************)
(* ResumeCommand::run: a file that is missing, or that cannot be           *)
(* deserialised, is an error, and leaves nothing to be resumed.            *)
(***************************************************************************)
Resume(retryFailed, skipFailed, retrySkipped) ==
    /\ step = "exited"
    /\ invocations < MaxInvocations
    /\ resumeFile.kind = "whole"
    /\ state' = [j \in Jobs |->
                    FixedState(resumeFile.states[j], retryFailed, skipFailed, retrySkipped)]
    /\ queues' = [q \in QueueNames |-> <<>>]
    /\ running' = [q \in QueueNames |-> NoJob]
    /\ readyForPost' = <<>>
    /\ pending' = 0 /\ active' = 0 /\ done' = 0
    /\ any' = FALSE
    /\ visiting' = 1
    /\ mainPC' = "add"
    /\ phase' = [j \in Jobs |-> "unadded"]
    /\ want' = [j \in Jobs |-> TRUE]
    /\ localRetcode' = [j \in Jobs |-> 0]
    /\ globalRetcode' = 0
    /\ saving' = FALSE
    /\ opts' \in UsedOptions
    /\ step' = "executing"
    /\ invocations' = invocations + 1
    /\ UNCHANGED <<resumeFile, crashes, timesDone, worldUpdated>>

CaveNext ==
    \/ ExecuteStep
    \/ HookAborts
    \/ ExecutionsReturn
    \/ \E ok \in BOOLEAN : UpdateWorld(ok)
    \/ EraseResumeFile \/ OpenResumeFile \/ FinishResumeFile
    \/ Crash
    \/ \E retryFailed, skipFailed, retrySkipped \in BOOLEAN :
          Resume(retryFailed, skipFailed, retrySkipped)

CaveSpec == CaveInit /\ [][CaveNext]_caveVars

-----------------------------------------------------------------------------

(***************************************************************************)
(* Only a crash makes a job's work be done again: without one, what        *)
(* succeeded is not repeated, however often and with whatever options the  *)
(* list is resumed.                                                        *)
(***************************************************************************)
RepeatsNeedCrashes == \A j \in Jobs : timesDone[j] <= 1 + crashes

(***************************************************************************)
(* The resume file never claims work that was not done.                    *)
(***************************************************************************)
FileNeverOverclaims ==
    resumeFile.kind = "whole" =>
        \A j \in Jobs : resumeFile.states[j] = "succeeded" => timesDone[j] > 0

(***************************************************************************)
(* A job that is active has a thread: a crash leaves active jobs in the    *)
(* file, and one that stayed active would keep the jobs that require it    *)
(* before fetching from ever starting.                                     *)
(***************************************************************************)
ActiveHasThread ==
    step = "executing" => \A j \in Jobs : state[j] = "active" => phase[j] = "running"

(***************************************************************************)
(* If an invocation that was not killed leaves no resume file behind, the  *)
(* work of every job was done in it or in an earlier one.                  *)
(***************************************************************************)
NothingLost ==
    [][(/\ step = "closing"
        /\ step' = "exited"
        /\ crashes' = crashes
        /\ resumeFile' = Absent)
           => \A j \in Jobs : timesDone[j] > 0]_caveVars

(***************************************************************************)
(* World is updated only when the work of every job has been done, counted *)
(* over all invocations.                                                   *)
(***************************************************************************)
WorldAfterEverything ==
    [][(~ worldUpdated /\ worldUpdated') => \A j \in Jobs : timesDone[j] > 0]_caveVars
===============================================================================
