------------------------------ MODULE ExecuteJobs ------------------------------
(***************************************************************************)
(* src/clients/cave/cmd_execute_resolution.cc: execute_executions() hands  *)
(* every job of the execute job list to an Executor as an                  *)
(* ExecuteJobExecutive, in list order.  This module composes the executor  *)
(* with those executives: which job may begin, which is skipped because    *)
(* something failed, what a job's thread does to the job's state, and the  *)
(* resume file that is rewritten after every job.                          *)
(***************************************************************************)
EXTENDS Naturals, Sequences, FiniteSets, JobLists

CONSTANTS
    N,             \* the length of the execute job list
    Kind,          \* "fetch", "install" or "uninstall", for every job
    Requirements,  \* JobRequirements of every job
    NFetchJobs     \* --fetch-jobs

Jobs == 1..N

(***************************************************************************)
(* The argument of --continue-on-failure: a flag of the requirements that  *)
(* then decide, or "never" (last_jri).                                     *)
(***************************************************************************)
ContinueOnFailure == {"satisfied", "independent", "always", "never"}

QueueOrder == <<"execute", "fetch">>
QueueNames == {"execute", "fetch"}
QueueName ==
    [j \in Jobs |-> IF NFetchJobs # 0 /\ Kind[j] = "fetch" THEN "fetch" ELSE "execute"]

ASSUME JobListAssumption ==
    /\ N \in Nat
    /\ NFetchJobs \in Nat
    /\ IsJobList(N, Kind, Requirements)

NoJob == 0

States == {"pending", "active", "succeeded", "failed", "skipped"}
Settled == {"succeeded", "failed", "skipped"}
JobStates == [Jobs -> States]

(***************************************************************************)
(* The resume file: not there, truncated but not yet rewritten, or whole.  *)
(***************************************************************************)
Absent == [kind |-> "absent"]
Truncated == [kind |-> "truncated"]
Whole(states) == [kind |-> "whole", states |-> states]
ResumeFiles == {Absent, Truncated} \cup [kind : {"whole"}, states : JobStates]

VARIABLES
    queues, running, readyForPost, pending, active, done, any, visiting, mainPC, phase,
    state,          \* state() of every job
    want,           \* ExecuteJobExecutive::want
    localRetcode,   \* ExecuteJobExecutive::local_retcode
    globalRetcode,  \* the retcode of execute_executions()
    opts,           \* --fetch and --continue-on-failure of this invocation
    saving,         \* inside write_resume_file(), with the file truncated
    resumeFile      \* the resume file on disk

executorVars == <<queues, running, readyForPost, pending, active, done,
                  any, visiting, mainPC, phase>>
jobVars == <<state, want, localRetcode, globalRetcode, opts, saving, resumeFile>>

Ex == INSTANCE Executor WITH Executives <- Jobs, NoExecutive <- NoJob

vars == <<executorVars, jobVars>>

Options == [fetch : BOOLEAN, requireIf : ContinueOnFailure]

(***************************************************************************)
(* execute_executions() builds new executives over the states that the job *)
(* list came with.  A list that was resumed may hold any state but active. *)
(***************************************************************************)
StartExecutions ==
    /\ Ex!ExecutorInit
    /\ want = [j \in Jobs |-> TRUE]
    /\ localRetcode = [j \in Jobs |-> 0]
    /\ globalRetcode = 0
    /\ saving = FALSE

Init ==
    /\ StartExecutions
    /\ opts \in Options
    /\ state \in [Jobs -> States \ {"active"}]
    /\ resumeFile = Absent

-----------------------------------------------------------------------------

(***************************************************************************)
(* The for loop of execute_executions().                                   *)
(***************************************************************************)
AddJob ==
    /\ \E j \in Jobs :
          /\ \A k \in Jobs : k < j => phase[k] # "unadded"
          /\ Ex!Add(j)
    /\ UNCHANGED jobVars

Execute ==
    /\ \A j \in Jobs : phase[j] # "unadded"
    /\ Ex!Execute
    /\ UNCHANGED jobVars

IsSettled(j) == state[j] \in Settled

(* Mutants of CanRun: a requirement has to succeed, or is not looked at.   *)
CanRunOnSuccess(j) ==
    \A r \in Requirements[j] : "fetching" \in r.required_if => state[r.job] = "succeeded"

CanAlwaysRun(j) == TRUE

CanRun(j) ==
    \A r \in Requirements[j] : "fetching" \in r.required_if => IsSettled(r.job)

FirstWaiting == Head(queues[Ex!VisitedQueue])

PassQueue ==
    /\ Ex!PassQueue(Ex!HasWaiting(Ex!VisitedQueue) /\ CanRun(FirstWaiting))
    /\ UNCHANGED jobVars

ChooseQueue ==
    /\ Ex!ChooseQueue(Ex!HasWaiting(Ex!VisitedQueue) /\ CanRun(FirstWaiting))
    /\ UNCHANGED jobVars

(* Mutant of CameFailed: a job that was skipped before counts as fine.     *)
CameFailedOnly(j) == state[j] = "failed"

(***************************************************************************)
(* pre_execute_exclusive(), in its order: a job that came settled is not   *)
(* run, and counts as an error unless it succeeded; with --fetch only      *)
(* fetches are run; and once something has failed, the requirements that   *)
(* --continue-on-failure asks about decide.                                *)
(***************************************************************************)
CameFailed(j) == state[j] \in {"failed", "skipped"}

WantedAtFirst(j) == ~ IsSettled(j) /\ (opts.fetch => Kind[j] = "fetch")

(* Mutant of SomethingFailed: failures of other jobs are forgotten.        *)
ItselfFailed(j) == CameFailed(j)

SomethingFailed(j) == globalRetcode # 0 \/ CameFailed(j)

DecidingRequirements(j) == {r \in Requirements[j] : opts.requireIf \in r.required_if}

RequirementsAllow(j) ==
    /\ opts.requireIf # "never"
    /\ \A r \in DecidingRequirements(j) : state[r.job] \in {"pending", "succeeded"}

Wanted(j) == WantedAtFirst(j) /\ (SomethingFailed(j) => RequirementsAllow(j))

(***************************************************************************)
(* "still active? how did that happen?"  (The code throws this only if it  *)
(* meets the active requirement before one that was failed or skipped;     *)
(* here any active requirement throws.)                                    *)
(***************************************************************************)
MeetsActive(j) ==
    /\ WantedAtFirst(j)
    /\ SomethingFailed(j)
    /\ opts.requireIf # "never"
    /\ \E r \in DecidingRequirements(j) : state[r.job] = "active"

PreExecute ==
    \E j \in Jobs :
        /\ mainPC = "pre"
        /\ j = FirstWaiting
        /\ IF MeetsActive(j)
           THEN /\ Ex!PreExecuteThrows
                /\ UNCHANGED <<want, localRetcode>>
           ELSE /\ Ex!StartThread(j)
                /\ want' = [want EXCEPT ![j] = Wanted(j)]
                /\ localRetcode' = [localRetcode EXCEPT ![j] = IF CameFailed(j) THEN 1 ELSE 0]
        /\ UNCHANGED <<state, globalRetcode, opts, saving, resumeFile>>

EndRound == Ex!EndRound /\ UNCHANGED jobVars

Wake == Ex!Wake /\ UNCHANGED jobVars

(* Mutant of NotASuccess: skipped and pending jobs are forgotten.          *)
Failed(j) == state[j] = "failed"

NotASuccess(j) == state[j] # "succeeded"

(* Mutant of PostExecute: the resume file is written only after a failure. *)
PostSavesFailures ==
    /\ ~ saving
    /\ \E j \in Jobs :
          /\ Ex!Post(j)
          /\ globalRetcode' = IF localRetcode[j] # 0 THEN 1 ELSE globalRetcode
          /\ saving' = (want[j] /\ localRetcode[j] # 0)
    /\ resumeFile' = IF saving' THEN Truncated ELSE resumeFile
    /\ UNCHANGED <<state, want, localRetcode, opts>>

(***************************************************************************)
(* post_execute_exclusive().  A job that was wanted writes the resume      *)
(* file, unless every job has succeeded: opening the file truncates it.    *)
(***************************************************************************)
PostExecute ==
    /\ ~ saving
    /\ \E j \in Jobs :
          /\ Ex!Post(j)
          /\ globalRetcode' = IF localRetcode[j] # 0 THEN 1 ELSE globalRetcode
          /\ saving' = (want[j] /\ \E k \in Jobs : NotASuccess(k))
    /\ resumeFile' = IF saving' THEN Truncated ELSE resumeFile
    /\ UNCHANGED <<state, want, localRetcode, opts>>

(***************************************************************************)
(* The serialised job list is complete on disk.  Jobs are serialised one   *)
(* after another, but while main does so only the one job that the other   *)
(* queue is running can change its state, so that what is written is the   *)
(* list as it was at some moment.                                          *)
(***************************************************************************)
SaveResumeFile ==
    /\ saving
    /\ saving' = FALSE
    /\ resumeFile' = Whole(state)
    /\ UNCHANGED <<executorVars, state, want, localRetcode, globalRetcode, opts>>

NextRound ==
    /\ ~ saving
    /\ Ex!NextRound
    /\ UNCHANGED jobVars

(***************************************************************************)
(* execute_threaded(), in the thread of j: x1_main makes the job active,   *)
(* does its work, and makes it succeeded or failed.  An unwanted job is    *)
(* skipped, unless it came settled.                                        *)
(***************************************************************************)
Activate(j) ==
    /\ phase[j] = "running"
    /\ want[j]
    /\ state[j] = "pending"
    /\ state' = [state EXCEPT ![j] = "active"]
    /\ UNCHANGED <<executorVars, want, localRetcode, globalRetcode, opts, saving, resumeFile>>

Work(j, ok) ==
    /\ state[j] = "active"
    /\ Ex!ThreadReturns(j)
    /\ state' = [state EXCEPT ![j] = IF ok THEN "succeeded" ELSE "failed"]
    /\ localRetcode' = [localRetcode EXCEPT ![j] = IF ok THEN @ ELSE 1]
    /\ UNCHANGED <<want, globalRetcode, opts, saving, resumeFile>>

SkipUnwanted(j) ==
    /\ ~ want[j]
    /\ Ex!ThreadReturns(j)
    /\ state' = IF IsSettled(j) THEN state ELSE [state EXCEPT ![j] = "skipped"]
    /\ UNCHANGED <<want, localRetcode, globalRetcode, opts, saving, resumeFile>>

PushReady(j) == Ex!PushReady(j) /\ UNCHANGED jobVars

Main ==
    \/ AddJob \/ Execute
    \/ PassQueue \/ ChooseQueue \/ PreExecute \/ EndRound
    \/ Wake \/ PostExecute \/ SaveResumeFile \/ NextRound

Thread(j) ==
    \/ Activate(j)
    \/ \E ok \in BOOLEAN : Work(j, ok)
    \/ SkipUnwanted(j)

Next == Main \/ \E j \in Jobs : Thread(j) \/ PushReady(j)

(***************************************************************************)
(* Main is never blocked for ever: wait_for() has a timeout.  A job's work *)
(* ends.  A thread that wants the mutex gets it in the end, because main   *)
(* gives it up for up to 100ms in every round.                             *)
(***************************************************************************)
Fairness ==
    /\ WF_vars(Main)
    /\ \A j \in Jobs : WF_vars(Thread(j)) /\ SF_vars(PushReady(j))

Spec == Init /\ [][Next]_vars

FairSpec == Spec /\ Fairness
-----------------------------------------------------------------------------

TypeOK ==
    /\ Ex!ExecutorTypeOK
    /\ state \in JobStates
    /\ want \in [Jobs -> BOOLEAN]
    /\ localRetcode \in [Jobs -> 0..1]
    /\ globalRetcode \in 0..1
    /\ opts \in Options
    /\ saving \in BOOLEAN
    /\ resumeFile \in ResumeFiles

(***************************************************************************)
(* Neither internal error can happen: execute() never finds itself with    *)
(* waiting jobs of which none can start and none is running, and           *)
(* pre_execute_exclusive() never meets an active requirement.              *)
(***************************************************************************)
NeverGivesUp == mainPC \notin {"stuck", "aborted"}

(***************************************************************************)
(* When main has started a job, everything the job requires, under any     *)
(* flag, is settled, although can_run() asks only about the fetching flag. *)
(***************************************************************************)
RequirementsSettled ==
    \A j \in Jobs : phase[j] \notin {"unadded", "queued"} =>
        \A r \in Requirements[j] : IsSettled(r.job)

(***************************************************************************)
(* --continue-on-failure as its help text puts it: nothing is run after a  *)
(* failure ("never"), or nothing whose deciding requirements were not met. *)
(* (A job skipped because of --fetch is not a failure.)                    *)
(***************************************************************************)
MustSucceedFirst(k, j) ==
    /\ k < j
    /\ opts.requireIf = "never" \/ \E r \in DecidingRequirements(j) : r.job = k

SucceededOrNotFetch(k) == state[k] = "succeeded" \/ (opts.fetch /\ state[k] = "skipped")

(***************************************************************************)
(* Within a queue that is what happens: a job runs only after what has to  *)
(* succeed first did, because an executive's post, which records the       *)
(* failure, precedes the start of the next one of its queue.               *)
(***************************************************************************)
FailureStopsQueue ==
    \A j, k \in Jobs :
        state[j] = "active" /\ QueueName[k] = QueueName[j] /\ MustSucceedFirst(k, j) =>
            SucceededOrNotFetch(k)

(***************************************************************************)
(* Across queues it is what the option says ("If remaining packages'       *)
(* dependencies are satisfied"): a job is not run when a requirement that  *)
(* decides has failed.                                                     *)
(***************************************************************************)
DependenciesSatisfied ==
    \A j \in Jobs : \A r \in DecidingRequirements(j) :
        state[j] = "active" => SucceededOrNotFetch(r.job)

(***************************************************************************)
(* A job is not skipped without a reason: --fetch, or a failure or skip    *)
(* that has to count for it under --continue-on-failure.                   *)
(***************************************************************************)
SkippedForAReason ==
    \A j \in Jobs :
        phase[j] \notin {"unadded", "queued"} /\ state[j] = "skipped" /\ localRetcode[j] = 0 =>
            \/ opts.fetch /\ Kind[j] # "fetch"
            \/ \E k \in Jobs \ {j} :
                  /\ state[k] \in {"failed", "skipped"}
                  /\ opts.requireIf = "never" \/ \E r \in DecidingRequirements(j) : r.job = k

(***************************************************************************)
(* The retcode of execute_executions(), on which updating world depends,   *)
(* is 0 exactly if every job succeeded, those aside that --fetch skipped.  *)
(***************************************************************************)
ExitStatus ==
    mainPC = "finished" =>
        (globalRetcode = 0 <=>
            \A j \in Jobs :
                \/ state[j] = "succeeded"
                \/ opts.fetch /\ Kind[j] # "fetch" /\ state[j] = "skipped" /\ localRetcode[j] = 0)

(***************************************************************************)
(* Unless everything has succeeded, a complete resume file knows the       *)
(* outcome of every job that was run and is over.                          *)
(***************************************************************************)
ResumeFileCurrent ==
    resumeFile.kind = "whole" /\ (\E k \in Jobs : NotASuccess(k)) =>
        \A j \in Jobs : phase[j] = "done" /\ want[j] => resumeFile.states[j] = state[j]

(***************************************************************************)
(* The executor runs the job list the way JobSchedule says.                *)
(***************************************************************************)
Sched ==
    INSTANCE JobSchedule WITH
        QueueOfJob <- QueueName,
        FetchingNeeds <- [j \in Jobs |->
            {r.job : r \in {r \in Requirements[j] : "fetching" \in r.required_if}}],
        status <- [j \in Jobs |-> IF IsSettled(j) THEN "settled"
                                  ELSE IF state[j] = "active" THEN "running"
                                  ELSE "waiting"]

ImplementsSchedule == Sched!Spec

(***************************************************************************)
(* execute() returns, with every job settled.                              *)
(***************************************************************************)
Terminates == <>(mainPC = "finished" /\ \A j \in Jobs : IsSettled(j))

(* What the executor promises, of the executives that are jobs.            *)

(***************************************************************************)
(* No two threads of one queue are ever alive together: of the jobs that   *)
(* install or remove something, one is at work at a time.                  *)
(***************************************************************************)
OneThreadPerQueue == Ex!OneThreadPerQueue

(***************************************************************************)
(* Main joins a thread while it holds the mutex that a thread needs to     *)
(* finish: what is on ready_for_post has given it back, and is there once. *)
(***************************************************************************)
JoinNeverBlocks == Ex!JoinNeverBlocks

(***************************************************************************)
(* execute() returns only when every job that was added has had its        *)
(* post_execute_exclusive().                                               *)
(***************************************************************************)
ReturnsWhenAllDone == Ex!ReturnsWhenAllDone
================================================================================
