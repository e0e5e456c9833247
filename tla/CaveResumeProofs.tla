---------------------------- MODULE CaveResumeProofs ----------------------------
(***************************************************************************)
(* Proofs about ExecuteJobs and CaveResume, for every job list that        *)
(* satisfies JobListAssumption, any number of fetch jobs, any number of    *)
(* invocations and any options.                                            *)
(*                                                                         *)
(* One invocation: the executor's own invariant comes from ExecutorProofs; *)
(* what is added is that the queues are in list order, that a job has been *)
(* started only after the jobs before it in its queue were done, and what  *)
(* a round of the main loop has learnt about the queues it passed over.    *)
(*                                                                         *)
(* Several of them: every invocation begins Fresh, so that all that is     *)
(* shown of one holds in each; what passes from one to the next is bound   *)
(* to the work that was really done by relating timesDone and crashes to   *)
(* the states of the jobs, in memory and in the resume file.               *)
(***************************************************************************)
EXTENDS CaveResume, FiniteSetTheorems, TLAPS

(***************************************************************************)
(* One invocation.                                                         *)
(***************************************************************************)
EP == INSTANCE ExecutorProofs WITH Executives <- Jobs, NoExecutive <- NoJob

Started(j) == phase[j] \notin {"unadded", "queued"}

JobTypeOK ==
    /\ state \in JobStates
    /\ want \in [Jobs -> BOOLEAN]
    /\ localRetcode \in [Jobs -> 0..1]
    /\ globalRetcode \in 0..1
    /\ opts \in Options
    /\ saving \in BOOLEAN
    /\ resumeFile \in ResumeFiles

(***************************************************************************)
(* A job is active only while its thread is inside execute_threaded(), and *)
(* is settled when its thread leaves it.                                   *)
(***************************************************************************)
StateFollowsThread ==
    \A j \in Jobs :
        /\ state[j] = "active" => phase[j] = "running" /\ want[j]
        /\ phase[j] \in {"returned", "exited", "done"} => IsSettled(j)

(***************************************************************************)
(* The jobs are added in list order, all of them before execute().         *)
(***************************************************************************)
AddedInOrder ==
    /\ \A j, k \in Jobs : k < j /\ phase[j] # "unadded" => phase[k] # "unadded"
    /\ mainPC = "add" => \A j \in Jobs : ~ Started(j)
    /\ mainPC # "add" => \A j \in Jobs : phase[j] # "unadded"

QueuesInListOrder ==
    \A q \in QueueNames : \A i, k \in 1..Len(queues[q]) : i < k => queues[q][i] < queues[q][k]

StartedAfterEarlier ==
    \A j, k \in Jobs :
        Started(j) /\ k < j /\ QueueName[k] = QueueName[j] => phase[k] = "done"

ChosenCanRun == mainPC = "pre" => CanRun(FirstWaiting)

(***************************************************************************)
(* While nothing runs, the queues that a round has passed over are empty   *)
(* or begin with a job that cannot run.                                    *)
(***************************************************************************)
PassedCannotRun ==
    mainPC = "scan" /\ Ex!NothingRunning =>
        \A i \in 1..Len(QueueOrder) :
            i < visiting /\ Ex!HasWaiting(QueueOrder[i]) => ~ CanRun(Head(queues[QueueOrder[i]]))

Scheduled ==
    /\ EP!Placed
    /\ JobTypeOK
    /\ StateFollowsThread
    /\ AddedInOrder
    /\ QueuesInListOrder
    /\ StartedAfterEarlier
    /\ RequirementsSettled
    /\ ChosenCanRun
    /\ PassedCannotRun
    /\ NeverGivesUp

-----------------------------------------------------------------------------

LEMMA QueueBasics ==
    /\ Ex!QueueNames = QueueNames
    /\ EP!QueueNames = QueueNames
    /\ Len(QueueOrder) = 2
    /\ QueueOrder[1] = "execute" /\ QueueOrder[2] = "fetch"
    /\ \A j \in Jobs : QueueName[j] \in QueueNames
BY DEF Ex!QueueNames, EP!QueueNames, QueueNames, QueueOrder, QueueName

LEMMA JobsFinite == IsFiniteSet(Jobs)
BY FS_Interval, JobListAssumption DEF Jobs

LEMMA JobNumbers == Jobs \subseteq Nat /\ NoJob \notin Jobs
BY JobListAssumption DEF Jobs, NoJob

LEMMA RequirementFacts ==
    ASSUME NEW j \in Jobs, NEW r \in Requirements[j]
    PROVE  /\ r.job \in Jobs
           /\ r.job < j
           /\ QueueName[r.job] # QueueName[j] => "fetching" \in r.required_if
<1>1. r \in [job : Jobs, required_if : SUBSET RequiredIf]
  BY JobListAssumption DEF IsJobList, Jobs
<1>2. r.job \in Jobs
  BY <1>1
<1>3. r.job < j /\ (Kind[j] = "fetch" \/ Kind[r.job] = "fetch" => "fetching" \in r.required_if)
  BY JobListAssumption DEF IsJobList, Jobs
<1>4. QueueName[r.job] # QueueName[j] => Kind[j] = "fetch" \/ Kind[r.job] = "fetch"
  BY <1>2 DEF QueueName
<1> QED
  BY <1>2, <1>3, <1>4

LEMMA ExecutivesAreJobs == EP!ExecutivesOK
<1>1. QueueOrder \in Seq(EP!QueueNames)
  BY QueueBasics DEF QueueNames, QueueOrder
<1>2. QueueName \in [Jobs -> EP!QueueNames]
  BY QueueBasics DEF QueueNames, QueueName
<1>3. \A i, k \in 1..Len(QueueOrder) : QueueOrder[i] = QueueOrder[k] => i = k
  BY QueueBasics
<1> QED
  BY <1>1, <1>2, <1>3, JobNumbers, JobsFinite DEF EP!ExecutivesOK, IsFiniteSet, EP!IsFiniteSet

(***************************************************************************)
(* The executor's invariant, in the terms of this module.                  *)
(***************************************************************************)
LEMMA PlacedMeans ==
    ASSUME EP!Placed
    PROVE  /\ queues \in [QueueNames -> Seq(Jobs)]
           /\ running \in [QueueNames -> Jobs \cup {NoJob}]
           /\ readyForPost \in Seq(Jobs)
           /\ visiting \in 1..3
           /\ any \in BOOLEAN
           /\ mainPC \in Ex!MainPCs
           /\ phase \in [Jobs -> Ex!Phases]
           /\ \A q \in QueueNames : \A i \in 1..Len(queues[q]) :
                 phase[queues[q][i]] = "queued" /\ QueueName[queues[q][i]] = q
           /\ \A j \in Jobs : phase[j] = "queued" =>
                 \E i \in 1..Len(queues[QueueName[j]]) : queues[QueueName[j]][i] = j
           /\ \A j \in Jobs : phase[j] \in {"running", "returned", "exited"}
                                <=> running[QueueName[j]] = j
           /\ mainPC = "pre" =>
                 /\ Ex!VisitedQueue \in QueueNames
                 /\ Ex!HasWaiting(Ex!VisitedQueue)
                 /\ running[Ex!VisitedQueue] = NoJob
<1> USE QueueBasics DEF EP!Placed
<1>1. /\ queues \in [QueueNames -> Seq(Jobs)]
      /\ running \in [QueueNames -> Jobs \cup {NoJob}]
      /\ readyForPost \in Seq(Jobs)
      /\ visiting \in 1..3
      /\ any \in BOOLEAN
  BY DEF EP!ShapeOK
<1>2. mainPC \in Ex!MainPCs /\ phase \in [Jobs -> Ex!Phases]
  BY DEF EP!ShapeOK, EP!MainPCs, Ex!MainPCs, EP!Phases, Ex!Phases
<1>3. /\ \A q \in QueueNames : \A i \in 1..Len(queues[q]) :
            phase[queues[q][i]] = "queued" /\ QueueName[queues[q][i]] = q
      /\ \A j \in Jobs : phase[j] = "queued" =>
            \E i \in 1..Len(queues[QueueName[j]]) : queues[QueueName[j]][i] = j
  BY DEF EP!QueuesHoldTheQueued
<1>4. \A j \in Jobs : phase[j] \in {"running", "returned", "exited"} <=> running[QueueName[j]] = j
  BY DEF EP!RunningIsLive, EP!Live
<1>5. mainPC = "pre" =>
          /\ Ex!VisitedQueue \in QueueNames
          /\ Ex!HasWaiting(Ex!VisitedQueue)
          /\ running[Ex!VisitedQueue] = NoJob
  <2>1. mainPC = "pre" => visiting \in 1..2 /\ EP!HasWaiting(EP!VisitedQueue)
                            /\ running[EP!VisitedQueue] = NoJob
    BY <1>1 DEF EP!MainPosition
  <2>2. visiting \in 1..2 => QueueOrder[visiting] \in QueueNames
    BY DEF QueueNames
  <2> QED
    BY <2>1, <2>2 DEF Ex!VisitedQueue, EP!VisitedQueue, Ex!HasWaiting, EP!HasWaiting
<1> QED
  BY <1>1, <1>2, <1>3, <1>4, <1>5

LEMMA ExecutorInitIs == Ex!ExecutorInit => EP!ExecutorInit
BY DEF Ex!ExecutorInit, EP!ExecutorInit, Ex!QueueNames, EP!QueueNames

(***************************************************************************)
(* Every step is a step of the executor, or leaves it alone.               *)
(***************************************************************************)
LEMMA StepOfExecutor == [Next]_vars => [EP!ExecutorNext]_(EP!executorVars)
<1> SUFFICES ASSUME [Next]_vars PROVE [EP!ExecutorNext]_(EP!executorVars)
  OBVIOUS
<1> USE DEF EP!ExecutorNext
<1>1. CASE AddJob
  BY <1>1 DEF AddJob, Ex!Add, EP!Add
<1>2. CASE Execute
  BY <1>2 DEF Execute, Ex!Execute, EP!Execute, Ex!StartRound, EP!StartRound
<1>3. CASE PassQueue
  <2> DEFINE c == Ex!HasWaiting(Ex!VisitedQueue) /\ CanRun(FirstWaiting)
  <2>1. EP!PassQueue(c)
    BY <1>3 DEF PassQueue, Ex!PassQueue, EP!PassQueue, Ex!HasWaiting, EP!HasWaiting,
                Ex!VisitedQueue, EP!VisitedQueue
  <2>2. c \in BOOLEAN
    OBVIOUS
  <2> HIDE DEF c
  <2> QED
    BY <2>1, <2>2
<1>4. CASE ChooseQueue
  <2> DEFINE c == Ex!HasWaiting(Ex!VisitedQueue) /\ CanRun(FirstWaiting)
  <2>1. EP!ChooseQueue(c)
    BY <1>4 DEF ChooseQueue, Ex!ChooseQueue, EP!ChooseQueue, Ex!HasWaiting, EP!HasWaiting,
                Ex!VisitedQueue, EP!VisitedQueue
  <2>2. c \in BOOLEAN
    OBVIOUS
  <2> HIDE DEF c
  <2> QED
    BY <2>1, <2>2
<1>5. CASE PreExecute
  BY <1>5 DEF PreExecute, Ex!StartThread, EP!StartThread, Ex!PreExecuteThrows,
              EP!PreExecuteThrows, Ex!VisitedQueue, EP!VisitedQueue
<1>6. CASE EndRound
  <2>1. EP!EndRound
    BY <1>6 DEF EndRound, Ex!EndRound, EP!EndRound, Ex!NothingRunning, EP!NothingRunning,
                Ex!HasWaiting, EP!HasWaiting, Ex!QueueNames, EP!QueueNames
  <2> QED
    BY <2>1
<1>7. CASE Wake
  BY <1>7 DEF Wake, Ex!Wake, EP!Wake
<1>8. CASE PostExecute
  BY <1>8 DEF PostExecute, Ex!Post, EP!Post
<1>9. CASE SaveResumeFile
  BY <1>9 DEF SaveResumeFile, executorVars, EP!executorVars
<1>10. CASE NextRound
  BY <1>10 DEF NextRound, Ex!NextRound, EP!NextRound, Ex!StartRound, EP!StartRound
<1>11. ASSUME NEW j \in Jobs, Thread(j) PROVE [EP!ExecutorNext]_(EP!executorVars)
  <2>1. EP!ThreadReturns(j) \/ UNCHANGED executorVars
    BY <1>11 DEF Thread, Activate, Work, SkipUnwanted, Ex!ThreadReturns, EP!ThreadReturns
  <2> QED
    BY <2>1 DEF executorVars, EP!executorVars
<1>12. ASSUME NEW j \in Jobs, PushReady(j) PROVE [EP!ExecutorNext]_(EP!executorVars)
  BY <1>12 DEF PushReady, Ex!PushReady, EP!PushReady, Ex!MutexFree, EP!MutexFree
<1>13. CASE UNCHANGED vars
  BY <1>13 DEF vars, executorVars, EP!executorVars
<1> QED
  BY <1>1, <1>2, <1>3, <1>4, <1>5, <1>6, <1>7, <1>8, <1>9, <1>10, <1>11, <1>12, <1>13
     DEF Next, Main

LEMMA StepPlaced == EP!Placed /\ [Next]_vars => EP!Placed'
BY StepOfExecutor, EP!StepPlaced, ExecutivesAreJobs

(***************************************************************************)
(* What a step of a thread, and what a step of main, does to the jobs.     *)
(***************************************************************************)
LEMMA ThreadSteps ==
    ASSUME JobTypeOK, EP!Placed, NEW j \in Jobs, Thread(j)
    PROVE  /\ phase[j] = "running"
           /\ UNCHANGED <<queues, running, readyForPost, any, visiting, mainPC>>
           /\ UNCHANGED <<want, globalRetcode, opts, saving, resumeFile>>
           /\ \/ /\ want[j] /\ state[j] = "pending"
                 /\ state' = [state EXCEPT ![j] = "active"]
                 /\ UNCHANGED <<phase, localRetcode>>
              \/ /\ state[j] = "active"
                 /\ state' = [state EXCEPT ![j] = "succeeded"]
                 /\ phase' = [phase EXCEPT ![j] = "returned"]
                 /\ UNCHANGED localRetcode
              \/ /\ state[j] = "active"
                 /\ state' = [state EXCEPT ![j] = "failed"]
                 /\ phase' = [phase EXCEPT ![j] = "returned"]
                 /\ localRetcode' = [localRetcode EXCEPT ![j] = 1]
              \/ /\ ~ want[j]
                 /\ state' = IF IsSettled(j) THEN state ELSE [state EXCEPT ![j] = "skipped"]
                 /\ phase' = [phase EXCEPT ![j] = "returned"]
                 /\ UNCHANGED localRetcode
<1>5. Activate(j) \/ Work(j, TRUE) \/ Work(j, FALSE) \/ SkipUnwanted(j)
  <2>1. \A ok \in BOOLEAN : ok = TRUE \/ ok = FALSE
    OBVIOUS
  <2> QED
    BY <2>1, Zenon DEF Thread
<1> USE PlacedMeans DEF JobTypeOK, JobStates
<1>1. CASE Activate(j)
  BY <1>1 DEF Activate, executorVars
<1>2. CASE Work(j, TRUE)
  <2>1. localRetcode' = localRetcode
    BY <1>2 DEF Work
  <2> QED
    BY <1>2, <2>1 DEF Work, Ex!ThreadReturns
<1>3. CASE Work(j, FALSE)
  BY <1>3 DEF Work, Ex!ThreadReturns
<1>4. CASE SkipUnwanted(j)
  BY <1>4 DEF SkipUnwanted, Ex!ThreadReturns
<1> QED
  BY <1>1, <1>2, <1>3, <1>4, <1>5, Zenon

LEMMA MainSteps ==
    ASSUME Main \/ UNCHANGED vars \/ \E j \in Jobs : PushReady(j)
    PROVE  UNCHANGED <<state, opts>>
<1>1. CASE UNCHANGED vars
  BY <1>1 DEF vars, jobVars
<1>2. CASE Main
  BY <1>2 DEF Main, AddJob, Execute, PassQueue, ChooseQueue, PreExecute, EndRound, Wake,
              PostExecute, SaveResumeFile, NextRound, jobVars
<1>3. CASE \E j \in Jobs : PushReady(j)
  BY <1>3 DEF PushReady, jobVars
<1> QED
  BY <1>1, <1>2, <1>3

(***************************************************************************)
(* The only step of main that touches want and local_retcode is the start  *)
(* of the job that begins the visited queue.                               *)
(***************************************************************************)
LEMMA OtherMainSteps ==
    ASSUME Main \/ UNCHANGED vars \/ \E j \in Jobs : PushReady(j), ~ PreExecute
    PROVE  UNCHANGED <<want, localRetcode>>
<1>1. CASE UNCHANGED vars
  BY <1>1 DEF vars, jobVars
<1>2. CASE Main
  BY <1>2 DEF Main, AddJob, Execute, PassQueue, ChooseQueue, EndRound, Wake,
              PostExecute, SaveResumeFile, NextRound, jobVars
<1>3. CASE \E j \in Jobs : PushReady(j)
  BY <1>3 DEF PushReady, jobVars
<1> QED
  BY <1>1, <1>2, <1>3

LEMMA SettledStays ==
    ASSUME EP!Placed, JobTypeOK, [Next]_vars, NEW j \in Jobs, IsSettled(j)
    PROVE  IsSettled(j)' /\ state'[j] = state[j]
<1>1. ASSUME NEW k \in Jobs, Thread(k)
      PROVE  IsSettled(j)' /\ state'[j] = state[j]
  BY <1>1, ThreadSteps DEF IsSettled, Settled, JobTypeOK, JobStates
<1>2. CASE Main \/ UNCHANGED vars \/ \E k \in Jobs : PushReady(k)
  BY <1>2, MainSteps DEF IsSettled
<1> QED
  BY <1>1, <1>2 DEF Next

LEMMA StepJobTypes ==
    ASSUME EP!Placed, JobTypeOK, [Next]_vars
    PROVE  JobTypeOK'
<1> USE DEF JobTypeOK
<1>1. ASSUME NEW j \in Jobs, Thread(j) PROVE JobTypeOK'
  <2>1. state' \in JobStates
    BY <1>1, ThreadSteps DEF JobStates, States
  <2>2. localRetcode' \in [Jobs -> 0..1]
    BY <1>1, ThreadSteps
  <2> QED
    BY <1>1, <2>1, <2>2, ThreadSteps
<1>2. CASE PreExecute
  <2>1. want' \in [Jobs -> BOOLEAN]
    <3>1. \A j \in Jobs : Wanted(j) \in BOOLEAN
      BY DEF Wanted, WantedAtFirst
    <3> QED
      BY <1>2, <3>1 DEF PreExecute
  <2>2. localRetcode' \in [Jobs -> 0..1]
    BY <1>2 DEF PreExecute
  <2> QED
    BY <1>2, <2>1, <2>2 DEF PreExecute
<1>3. CASE PostExecute
  <2>1. saving' \in BOOLEAN
    BY <1>3, Zenon DEF PostExecute
  <2>2. globalRetcode' \in 0..1
    BY <1>3 DEF PostExecute
  <2>3. resumeFile' \in ResumeFiles
    BY <1>3 DEF PostExecute, ResumeFiles, Truncated
  <2> QED
    BY <1>3, <2>1, <2>2, <2>3 DEF PostExecute
<1>4. CASE SaveResumeFile
  BY <1>4 DEF SaveResumeFile, ResumeFiles, Whole
<1>5. CASE UNCHANGED jobVars
  BY <1>5 DEF jobVars
<1> QED
  BY <1>1, <1>2, <1>3, <1>4, <1>5
     DEF Next, Main, AddJob, Execute, PassQueue, ChooseQueue, EndRound, Wake, NextRound,
         PushReady, vars

(***************************************************************************)
(* The steps that move no job.                                             *)
(***************************************************************************)
Elsewhere ==
    \/ Execute \/ PassQueue \/ ChooseQueue \/ EndRound \/ Wake \/ SaveResumeFile \/ NextRound
    \/ UNCHANGED vars

LEMMA StepCases ==
    [Next]_vars => \/ AddJob \/ PreExecute \/ PostExecute \/ Elsewhere
                   \/ \E j \in Jobs : PushReady(j)
                   \/ \E j \in Jobs : Thread(j)
BY DEF Next, Main, Elsewhere

LEMMA ElsewhereSteps ==
    Elsewhere => UNCHANGED <<queues, running, phase, state, want, localRetcode, globalRetcode, opts>>
BY DEF Elsewhere, Execute, PassQueue, ChooseQueue, EndRound, Wake, SaveResumeFile, NextRound,
       Ex!Execute, Ex!PassQueue, Ex!ChooseQueue, Ex!EndRound, Ex!Wake, Ex!NextRound,
       vars, executorVars, jobVars

(***************************************************************************)
(* The job with which the visited queue begins may start: the jobs before  *)
(* it in its queue are done, and what it requires is settled, either for   *)
(* that reason or because can_run() has asked.                             *)
(***************************************************************************)
LEMMA HeadOfQueue ==
    ASSUME Scheduled, NEW q \in QueueNames, queues[q] # <<>>
    PROVE  /\ Head(queues[q]) \in Jobs
           /\ phase[Head(queues[q])] = "queued"
           /\ QueueName[Head(queues[q])] = q
           /\ \A k \in Jobs : phase[k] = "queued" /\ QueueName[k] = q => Head(queues[q]) <= k
<1>0. /\ queues \in [QueueNames -> Seq(Jobs)]
      /\ \A i \in 1..Len(queues[q]) :
            phase[queues[q][i]] = "queued" /\ QueueName[queues[q][i]] = q
      /\ \A k \in Jobs : phase[k] = "queued" /\ QueueName[k] = q =>
            \E i \in 1..Len(queues[q]) : queues[q][i] = k
  <2>1. EP!Placed
    BY DEF Scheduled
  <2>2. /\ queues \in [QueueNames -> Seq(Jobs)]
        /\ \A p \in QueueNames : \A i \in 1..Len(queues[p]) :
              phase[queues[p][i]] = "queued" /\ QueueName[queues[p][i]] = p
        /\ \A k \in Jobs : phase[k] = "queued" =>
              \E i \in 1..Len(queues[QueueName[k]]) : queues[QueueName[k]][i] = k
    BY <2>1, PlacedMeans, Zenon
  <2> QED
    BY <2>2, Zenon
<1>1. /\ queues[q] \in Seq(Jobs)
      /\ Len(queues[q]) >= 1
      /\ Head(queues[q]) = queues[q][1]
      /\ 1 \in 1..Len(queues[q])
  BY <1>0
<1>2. ASSUME NEW k \in Jobs, phase[k] = "queued", QueueName[k] = q
      PROVE  Head(queues[q]) <= k
  <2>1. PICK i \in 1..Len(queues[q]) : queues[q][i] = k
    BY <1>0, <1>2
  <2>2. \A m \in 1..Len(queues[q]) : 1 < m => queues[q][1] < queues[q][m]
    <3>1. \A n, m \in 1..Len(queues[q]) : n < m => queues[q][n] < queues[q][m]
      BY DEF QueuesInListOrder, Scheduled
    <3>2. 1 \in 1..Len(queues[q])
      BY <1>1
    <3> QED
      BY <3>1, <3>2
  <2>3. queues[q][1] \in Nat /\ k \in Nat
    <3>1. queues[q][1] \in Jobs
      BY <1>1
    <3> QED
      BY <3>1, JobNumbers
  <2>4. i = 1 \/ 1 < i
    BY <1>1
  <2>5. CASE i = 1
    BY <1>1, <2>1, <2>3, <2>5
  <2>6. CASE 1 < i
    BY <1>1, <2>1, <2>2, <2>3, <2>6
  <2> QED
    BY <2>4, <2>5, <2>6
<1>3. Head(queues[q]) \in Jobs
  BY <1>1
<1> QED
  BY <1>0, <1>1, <1>2, <1>3

LEMMA MayStart ==
    ASSUME Scheduled, mainPC = "pre"
    PROVE  /\ FirstWaiting \in Jobs
           /\ phase[FirstWaiting] = "queued"
           /\ QueueName[FirstWaiting] = Ex!VisitedQueue
           /\ Ex!VisitedQueue \in QueueNames
           /\ \A k \in Jobs : k < FirstWaiting /\ QueueName[k] = QueueName[FirstWaiting]
                                => phase[k] = "done"
           /\ \A r \in Requirements[FirstWaiting] : IsSettled(r.job)
           /\ ~ MeetsActive(FirstWaiting)
<1> USE PlacedMeans, JobNumbers DEF Scheduled
<1> DEFINE q == Ex!VisitedQueue
           j == FirstWaiting
<1>1. /\ q \in QueueNames
      /\ queues[q] # <<>>
      /\ running[q] = NoJob
      /\ j = Head(queues[q])
  BY DEF Ex!HasWaiting, FirstWaiting
<1> HIDE DEF q, j
<1>2. /\ j \in Jobs
      /\ phase[j] = "queued"
      /\ QueueName[j] = q
      /\ \A k \in Jobs : phase[k] = "queued" /\ QueueName[k] = q => j <= k
  BY <1>1, HeadOfQueue
<1>3. ASSUME NEW k \in Jobs, k < j, QueueName[k] = QueueName[j] PROVE phase[k] = "done"
  <2>1. phase[k] # "unadded"
    BY DEF AddedInOrder
  <2>2. phase[k] # "queued"
    BY <1>2, <1>3
  <2>3. phase[k] \notin {"running", "returned", "exited"}
    BY <1>1, <1>2, <1>3
  <2> QED
    BY <2>1, <2>2, <2>3 DEF Ex!Phases
<1>4. ASSUME NEW r \in Requirements[j] PROVE IsSettled(r.job)
  <2>1. r.job \in Jobs /\ r.job < j
    BY <1>2, RequirementFacts
  <2>2. CASE QueueName[r.job] = QueueName[j]
    BY <1>3, <2>1, <2>2 DEF StateFollowsThread
  <2>3. CASE QueueName[r.job] # QueueName[j]
    <3>1. "fetching" \in r.required_if
      BY <1>2, <2>3, RequirementFacts
    <3> QED
      BY <3>1 DEF ChosenCanRun, CanRun, j
  <2> QED
    BY <2>2, <2>3
<1>5. ~ MeetsActive(j)
  BY <1>4 DEF MeetsActive, DecidingRequirements, IsSettled, Settled
<1> QED
  BY <1>1, <1>2, <1>3, <1>4, <1>5 DEF q, j

LEMMA StartStep ==
    ASSUME Scheduled, PreExecute
    PROVE  \E j \in Jobs :
           /\ mainPC = "pre" /\ j = FirstWaiting
           /\ phase[j] = "queued"
           /\ queues[QueueName[j]] # <<>>
           /\ \A k \in Jobs : k < j /\ QueueName[k] = QueueName[j] => phase[k] = "done"
           /\ \A r \in Requirements[j] : IsSettled(r.job)
           /\ queues' = [queues EXCEPT ![QueueName[j]] = Tail(@)]
           /\ running' = [running EXCEPT ![QueueName[j]] = j]
           /\ phase' = [phase EXCEPT ![j] = "running"]
           /\ any' = TRUE
           /\ mainPC' = "scan"
           /\ want' = [want EXCEPT ![j] = Wanted(j)]
           /\ localRetcode' = [localRetcode EXCEPT ![j] = IF CameFailed(j) THEN 1 ELSE 0]
           /\ UNCHANGED <<state, globalRetcode, opts>>
<1> DEFINE j == FirstWaiting
<1>1. mainPC = "pre"
  BY DEF PreExecute
<1>2. /\ j \in Jobs
      /\ ~ MeetsActive(j)
      /\ phase[j] = "queued"
      /\ QueueName[j] = Ex!VisitedQueue
      /\ \A k \in Jobs : k < j /\ QueueName[k] = QueueName[j] => phase[k] = "done"
      /\ \A r \in Requirements[j] : IsSettled(r.job)
  BY <1>1, MayStart
<1>3. queues[QueueName[j]] # <<>>
  BY <1>1, <1>2, PlacedMeans DEF Scheduled, Ex!HasWaiting
<1>4. /\ queues' = [queues EXCEPT ![QueueName[j]] = Tail(@)]
      /\ running' = [running EXCEPT ![QueueName[j]] = j]
      /\ phase' = [phase EXCEPT ![j] = "running"]
      /\ any' = TRUE
      /\ mainPC' = "scan"
      /\ want' = [want EXCEPT ![j] = Wanted(j)]
      /\ localRetcode' = [localRetcode EXCEPT ![j] = IF CameFailed(j) THEN 1 ELSE 0]
      /\ UNCHANGED <<state, globalRetcode, opts>>
  BY <1>1, <1>2 DEF PreExecute, Ex!StartThread
<1> HIDE DEF j
<1> QED
  BY <1>1, <1>2, <1>3, <1>4 DEF j

LEMMA AddStep ==
    ASSUME Scheduled, AddJob
    PROVE  \E j \in Jobs :
           /\ mainPC = "add"
           /\ phase[j] = "unadded"
           /\ \A k \in Jobs : k < j => phase[k] # "unadded"
           /\ queues' = [queues EXCEPT ![QueueName[j]] = Append(@, j)]
           /\ phase' = [phase EXCEPT ![j] = "queued"]
           /\ UNCHANGED <<mainPC, running, state, want, localRetcode, globalRetcode, opts>>
BY DEF AddJob, Ex!Add, jobVars

LEMMA PostStep ==
    ASSUME Scheduled, PostExecute
    PROVE  \E j \in Jobs :
           /\ mainPC = "drain" /\ UNCHANGED <<mainPC, queues>>
           /\ phase[j] = "exited"
           /\ phase' = [phase EXCEPT ![j] = "done"]
           /\ running' = [running EXCEPT ![QueueName[j]] = NoJob]
           /\ globalRetcode' = IF localRetcode[j] # 0 THEN 1 ELSE globalRetcode
           /\ UNCHANGED <<state, want, localRetcode, opts>>
BY DEF PostExecute, Ex!Post

LEMMA PushStep ==
    ASSUME NEW j \in Jobs, PushReady(j)
    PROVE  /\ phase[j] = "returned"
           /\ phase' = [phase EXCEPT ![j] = "exited"]
           /\ mainPC = "waiting"
           /\ UNCHANGED <<queues, running, any, visiting, mainPC>>
           /\ UNCHANGED <<state, want, localRetcode, globalRetcode, opts>>
BY DEF PushReady, Ex!PushReady, Ex!MutexFree, jobVars

LEMMA StepFollowsThread == Scheduled /\ [Next]_vars => StateFollowsThread'
<1> SUFFICES ASSUME Scheduled, [Next]_vars PROVE StateFollowsThread'
  OBVIOUS
<1> USE PlacedMeans DEF Scheduled, StateFollowsThread, IsSettled
<1>1. CASE AddJob
  BY <1>1, AddStep
<1>2. CASE PreExecute
  <2>1. PICK j \in Jobs :
            /\ phase[j] = "queued"
            /\ phase' = [phase EXCEPT ![j] = "running"]
            /\ want' = [want EXCEPT ![j] = Wanted(j)]
            /\ state' = state
    BY <1>2, StartStep
  <2>2. \A k \in Jobs : k # j => phase'[k] = phase[k] /\ want'[k] = want[k]
    BY <2>1 DEF JobTypeOK
  <2>3. state[j] # "active" /\ phase'[j] = "running"
    BY <2>1
  <2> QED
    BY <2>1, <2>2, <2>3
<1>3. CASE PostExecute
  BY <1>3, PostStep
<1>4. CASE Elsewhere
  BY <1>4, ElsewhereSteps
<1>5. ASSUME NEW j \in Jobs, PushReady(j) PROVE StateFollowsThread'
  BY <1>5, PushStep
<1>6. ASSUME NEW j \in Jobs, Thread(j) PROVE StateFollowsThread'
  <2>1. state \in [Jobs -> States] /\ want' = want /\ phase[j] = "running"
    BY <1>6, ThreadSteps DEF JobTypeOK, JobStates
  <2>2. \A k \in Jobs : k # j => state'[k] = state[k] /\ phase'[k] = phase[k]
    BY <1>6, <2>1, ThreadSteps
  <2>3. \/ want[j] /\ state'[j] = "active" /\ phase'[j] = "running"
        \/ state'[j] \in Settled /\ phase'[j] = "returned"
    BY <1>6, <2>1, ThreadSteps DEF Settled
  <2>4. /\ state'[j] = "active" => phase'[j] = "running" /\ want'[j]
        /\ phase'[j] \in {"returned", "exited", "done"} => state'[j] \in Settled
    BY <2>1, <2>3 DEF Settled
  <2> QED
    BY <2>1, <2>2, <2>4
<1> QED
  BY <1>1, <1>2, <1>3, <1>4, <1>5, <1>6, StepCases

LEMMA StepAddedInOrder == Scheduled /\ [Next]_vars => AddedInOrder'
<1> SUFFICES ASSUME Scheduled, [Next]_vars PROVE AddedInOrder'
  OBVIOUS
<1> USE PlacedMeans DEF Scheduled, AddedInOrder, Started
<1>1. CASE AddJob
  <2>1. PICK j \in Jobs :
            /\ mainPC = "add" /\ mainPC' = mainPC
            /\ \A k \in Jobs : k < j => phase[k] # "unadded"
            /\ phase' = [phase EXCEPT ![j] = "queued"]
    BY <1>1, AddStep
  <2>2. phase'[j] = "queued" /\ \A k \in Jobs : k # j => phase'[k] = phase[k]
    BY <2>1
  <2> QED
    BY <2>1, <2>2
<1>2. CASE PreExecute
  <2>1. PICK j \in Jobs :
            /\ mainPC = "pre" /\ mainPC' = "scan"
            /\ phase' = [phase EXCEPT ![j] = "running"]
    BY <1>2, StartStep
  <2>2. phase'[j] = "running" /\ \A k \in Jobs : k # j => phase'[k] = phase[k]
    BY <2>1
  <2> QED
    BY <2>1, <2>2
<1>3. CASE PostExecute
  BY <1>3, PostStep
<1>4. CASE Elsewhere
  <2>1. UNCHANGED phase
    BY <1>4, ElsewhereSteps
  <2>2. CASE Execute
    <3>1. mainPC' = "scan" /\ \A j \in Jobs : phase[j] # "unadded"
      BY <2>2 DEF Execute, Ex!Execute, Ex!StartRound
    <3> QED
      BY <2>1, <3>1
  <2>3. ~ Execute => (mainPC' = "add" <=> mainPC = "add")
    BY <1>4 DEF Elsewhere, PassQueue, ChooseQueue, EndRound, Wake, SaveResumeFile, NextRound,
       Ex!PassQueue, Ex!ChooseQueue, Ex!EndRound, Ex!Wake, Ex!NextRound, Ex!StartRound,
       vars, executorVars
  <2> QED
    BY <2>1, <2>2, <2>3
<1>5. ASSUME NEW j \in Jobs, PushReady(j) PROVE AddedInOrder'
  BY <1>5, PushStep
<1>6. ASSUME NEW j \in Jobs, Thread(j) PROVE AddedInOrder'
  BY <1>6, ThreadSteps
<1> QED
  BY <1>1, <1>2, <1>3, <1>4, <1>5, <1>6, StepCases

LEMMA StepQueuesInListOrder == Scheduled /\ [Next]_vars => QueuesInListOrder'
<1> SUFFICES ASSUME Scheduled, [Next]_vars PROVE QueuesInListOrder'
  OBVIOUS
<1>1. CASE AddJob
  <2>1. PICK j \in Jobs :
            /\ phase[j] = "unadded"
            /\ queues' = [queues EXCEPT ![QueueName[j]] = Append(@, j)]
    BY <1>1, AddStep
  <2>2. \A k \in Jobs : phase[k] = "queued" => k < j
    BY <2>1, JobNumbers DEF AddedInOrder, Scheduled
  <2> SUFFICES ASSUME NEW q \in QueueNames, NEW i \in 1..Len(queues'[q]),
                      NEW k \in 1..Len(queues'[q]), i < k
               PROVE  queues'[q][i] < queues'[q][k]
    BY DEF QueuesInListOrder
  <2>3. queues[q] \in Seq(Jobs) /\ queues \in [QueueNames -> Seq(Jobs)]
    BY PlacedMeans DEF Scheduled
  <2>4. \A m, n \in 1..Len(queues[q]) : m < n => queues[q][m] < queues[q][n]
    BY DEF Scheduled, QueuesInListOrder
  <2>5. \A m \in 1..Len(queues[q]) : queues[q][m] \in Jobs /\ phase[queues[q][m]] = "queued"
    BY <2>3, PlacedMeans DEF Scheduled
  <2>6. CASE q # QueueName[j]
    BY <2>1, <2>3, <2>4, <2>6
  <2>7. CASE q = QueueName[j]
    <3>1. queues'[q] = Append(queues[q], j)
      BY <2>1, <2>3, <2>7
    <3>2. CASE k = Len(queues[q]) + 1
      <4>1. i \in 1..Len(queues[q]) /\ queues'[q][i] = queues[q][i] /\ queues'[q][k] = j
        BY <2>3, <3>1, <3>2
      <4> QED
        BY <4>1, <2>2, <2>5
    <3>3. CASE k # Len(queues[q]) + 1
      <4>1. /\ i \in 1..Len(queues[q]) /\ queues'[q][i] = queues[q][i]
            /\ k \in 1..Len(queues[q]) /\ queues'[q][k] = queues[q][k]
        BY <2>3, <3>1, <3>3
      <4> QED
        BY <4>1, <2>4
    <3> QED
      BY <3>2, <3>3
  <2> QED
    BY <2>6, <2>7
<1>2. CASE PreExecute
  <2> SUFFICES ASSUME NEW q \in QueueNames, NEW i \in 1..Len(queues'[q]),
                      NEW k \in 1..Len(queues'[q]), i < k
               PROVE  queues'[q][i] < queues'[q][k]
    BY DEF QueuesInListOrder
  <2>1. queues[q] \in Seq(Jobs) /\ queues \in [QueueNames -> Seq(Jobs)]
    BY PlacedMeans DEF Scheduled
  <2>2. \A m, n \in 1..Len(queues[q]) : m < n => queues[q][m] < queues[q][n]
    BY DEF Scheduled, QueuesInListOrder
  <2>3. queues'[q] = queues[q] \/ (queues[q] # <<>> /\ queues'[q] = Tail(queues[q]))
    <3>1. queues' = [queues EXCEPT ![QueueName[FirstWaiting]] = Tail(@)] /\ mainPC = "pre"
      BY <1>2, StartStep
    <3>2. Ex!HasWaiting(Ex!VisitedQueue) /\ QueueName[FirstWaiting] = Ex!VisitedQueue
      BY <3>1, MayStart, PlacedMeans DEF Scheduled
    <3> QED
      BY <2>1, <3>1, <3>2 DEF Ex!HasWaiting
  <2>4. CASE queues[q] # <<>> /\ queues'[q] = Tail(queues[q])
    <3>1. /\ i + 1 \in 1..Len(queues[q]) /\ queues'[q][i] = queues[q][i + 1]
          /\ k + 1 \in 1..Len(queues[q]) /\ queues'[q][k] = queues[q][k + 1]
          /\ i + 1 < k + 1
      BY <2>1, <2>4
    <3> QED
      BY <3>1, <2>2
  <2> QED
    BY <2>2, <2>3, <2>4
<1>3. CASE UNCHANGED queues
  BY <1>3 DEF QueuesInListOrder, Scheduled
<1> QED
  BY <1>1, <1>2, <1>3, StepCases, PostStep, ElsewhereSteps, PushStep, ThreadSteps DEF Scheduled

LEMMA StepStartedAfter == Scheduled /\ [Next]_vars => StartedAfterEarlier'
<1> SUFFICES ASSUME Scheduled, [Next]_vars PROVE StartedAfterEarlier'
  OBVIOUS
<1> USE PlacedMeans DEF Scheduled, StartedAfterEarlier, Started
<1>1. CASE AddJob
  BY <1>1, AddStep
<1>2. CASE PreExecute
  <2>1. PICK j \in Jobs :
            /\ phase[j] = "queued"
            /\ \A k \in Jobs : k < j /\ QueueName[k] = QueueName[j] => phase[k] = "done"
            /\ phase' = [phase EXCEPT ![j] = "running"]
    BY <1>2, StartStep
  <2>2. phase'[j] = "running" /\ \A k \in Jobs : k # j => phase'[k] = phase[k]
    BY <2>1
  <2> QED
    BY <2>1, <2>2, JobNumbers
<1>3. CASE PostExecute
  BY <1>3, PostStep
<1>4. CASE Elsewhere
  BY <1>4, ElsewhereSteps
<1>5. ASSUME NEW j \in Jobs, PushReady(j) PROVE StartedAfterEarlier'
  BY <1>5, PushStep
<1>6. ASSUME NEW j \in Jobs, Thread(j) PROVE StartedAfterEarlier'
  <2>1. phase[j] = "running" /\ \A k \in Jobs : k # j => phase'[k] = phase[k]
    BY <1>6, ThreadSteps
  <2>2. phase'[j] \in {"running", "returned"}
    BY <1>6, ThreadSteps
  <2> QED
    BY <2>1, <2>2
<1> QED
  BY <1>1, <1>2, <1>3, <1>4, <1>5, <1>6, StepCases

LEMMA StepRequirements == Scheduled /\ [Next]_vars => RequirementsSettled'
<1> SUFFICES ASSUME Scheduled, [Next]_vars, NEW j \in Jobs, Started(j)', NEW r \in Requirements[j]
             PROVE  IsSettled(r.job)'
  BY DEF RequirementsSettled, Started
<1>1. r.job \in Jobs
  BY RequirementFacts
<1>2. Started(j) \/ (PreExecute /\ j = FirstWaiting)
  <2> USE PlacedMeans DEF Scheduled, Started
  <2>1. CASE AddJob
    BY <2>1, AddStep
  <2>2. CASE PreExecute
    <3>1. PICK k \in Jobs : k = FirstWaiting /\ phase' = [phase EXCEPT ![k] = "running"]
      BY <2>2, StartStep
    <3> QED
      BY <2>2, <3>1
  <2>3. CASE PostExecute
    BY <2>3, PostStep
  <2>4. CASE Elsewhere
    BY <2>4, ElsewhereSteps
  <2>5. ASSUME NEW k \in Jobs, PushReady(k) PROVE Started(j)
    BY <2>5, PushStep
  <2>6. ASSUME NEW k \in Jobs, Thread(k) PROVE Started(j)
    BY <2>6, ThreadSteps
  <2> QED
    BY <2>1, <2>2, <2>3, <2>4, <2>5, <2>6, StepCases
<1>3. IsSettled(r.job)
  <2>1. CASE Started(j)
    BY <2>1 DEF Scheduled, RequirementsSettled, Started
  <2>2. CASE PreExecute /\ j = FirstWaiting
    BY <2>2, StartStep
  <2> QED
    BY <1>2, <2>1, <2>2
<1> QED
  BY <1>1, <1>3, SettledStays DEF Scheduled

LEMMA CanRunStays ==
    ASSUME Scheduled, [Next]_vars, NEW j \in Jobs, CanRun(j)
    PROVE  CanRun(j)'
<1>1. \A r \in Requirements[j] : "fetching" \in r.required_if => IsSettled(r.job)'
  BY SettledStays, RequirementFacts DEF CanRun, Scheduled
<1> QED
  BY <1>1 DEF CanRun

(***************************************************************************)
(* Where main goes: what it may do next is left alone by the threads.      *)
(***************************************************************************)
LEMMA MainMoves ==
    ASSUME Scheduled, [Next]_vars
    PROVE  \/ UNCHANGED <<mainPC, visiting, queues, running>>
           \/ mainPC' = "scan" /\ visiting' = 1
           \/ AddJob \/ PassQueue \/ ChooseQueue \/ PreExecute \/ EndRound
           \/ mainPC' \in {"drain"} /\ (Wake \/ PostExecute)
<1>1. CASE Execute \/ NextRound
  BY <1>1 DEF Execute, NextRound, Ex!Execute, Ex!NextRound, Ex!StartRound
<1>2. CASE Wake \/ PostExecute
  BY <1>2 DEF Wake, PostExecute, Ex!Wake, Ex!Post
<1>3. CASE SaveResumeFile \/ UNCHANGED vars
  BY <1>3 DEF SaveResumeFile, vars, executorVars
<1>4. ASSUME NEW j \in Jobs, PushReady(j) PROVE UNCHANGED <<mainPC, visiting, queues, running>>
  BY <1>4, PushStep
<1>5. ASSUME NEW j \in Jobs, Thread(j) PROVE UNCHANGED <<mainPC, visiting, queues, running>>
  BY <1>5, ThreadSteps DEF Scheduled
<1> QED
  BY <1>1, <1>2, <1>3, <1>4, <1>5 DEF Next, Main

LEMMA StepChosenCanRun == Scheduled /\ [Next]_vars => ChosenCanRun'
<1> SUFFICES ASSUME Scheduled, [Next]_vars, mainPC' = "pre" PROVE CanRun(FirstWaiting)'
  BY DEF ChosenCanRun
<1>1. CASE ChooseQueue
  <2>1. /\ CanRun(FirstWaiting)
        /\ UNCHANGED <<queues, visiting, state>>
    BY <1>1 DEF ChooseQueue, Ex!ChooseQueue, jobVars
  <2> QED
    BY <2>1 DEF CanRun, FirstWaiting, Ex!VisitedQueue, IsSettled
<1>2. CASE UNCHANGED <<mainPC, visiting, queues>>
  <2>1. mainPC = "pre" /\ CanRun(FirstWaiting) /\ FirstWaiting \in Jobs
    BY <1>2, MayStart DEF Scheduled, ChosenCanRun
  <2>2. FirstWaiting' = FirstWaiting
    BY <1>2 DEF FirstWaiting, Ex!VisitedQueue
  <2>3. PICK j \in Jobs : j = FirstWaiting /\ CanRun(j)
    BY <2>1
  <2>4. CanRun(j)'
    BY <2>3, CanRunStays
  <2> QED
    BY <2>2, <2>3, <2>4 DEF CanRun
<1>3. ~ AddJob /\ ~ PassQueue /\ ~ EndRound
  BY DEF AddJob, PassQueue, EndRound, Ex!Add, Ex!PassQueue, Ex!EndRound
<1>4. ~ PreExecute
  BY StartStep
<1> QED
  BY <1>1, <1>2, <1>3, <1>4, MainMoves

LEMMA StepPassedCannotRun == Scheduled /\ [Next]_vars => PassedCannotRun'
<1> SUFFICES ASSUME Scheduled, [Next]_vars, mainPC' = "scan", Ex!NothingRunning',
                    NEW i \in 1..Len(QueueOrder), i < visiting',
                    Ex!HasWaiting(QueueOrder[i])'
             PROVE  ~ CanRun(Head(queues[QueueOrder[i]]))'
  BY DEF PassedCannotRun
<1> USE QueueBasics
<1>1. visiting \in 1..3 /\ QueueOrder[i] \in QueueNames
  BY PlacedMeans DEF Scheduled, QueueNames
<1>2. visiting' # 1
  BY DEF Scheduled
<1>3. ~ AddJob /\ ~ ChooseQueue /\ ~ EndRound
  BY DEF AddJob, ChooseQueue, EndRound, Ex!Add, Ex!ChooseQueue, Ex!EndRound
<1>4. ~ PreExecute
  <2> SUFFICES ASSUME PreExecute PROVE FALSE
    OBVIOUS
  <2>1. PICK j \in Jobs : running' = [running EXCEPT ![QueueName[j]] = j]
    BY StartStep
  <2>2. running'[QueueName[j]] = j /\ QueueName[j] \in QueueNames
    BY <2>1, PlacedMeans DEF Scheduled
  <2> QED
    BY <2>2, JobNumbers DEF Ex!NothingRunning
<1>5. CASE PassQueue
  <2>1. /\ visiting' = visiting + 1
        /\ mainPC = "scan"
        /\ UNCHANGED <<queues, running, state>>
        /\ \/ ~ Ex!HasWaiting(Ex!VisitedQueue)
           \/ running[Ex!VisitedQueue] # NoJob
           \/ ~ CanRun(FirstWaiting)
    BY <1>5 DEF PassQueue, Ex!PassQueue, jobVars
  <2>2. Ex!NothingRunning /\ Ex!HasWaiting(QueueOrder[i])
    BY <2>1 DEF Ex!NothingRunning, Ex!HasWaiting
  <2>3. ~ CanRun(Head(queues[QueueOrder[i]]))
    <3>1. CASE i < visiting
      BY <3>1, <2>1, <2>2 DEF Scheduled, PassedCannotRun
    <3>2. CASE i = visiting
      BY <3>2, <2>1, <2>2, <1>1 DEF Ex!NothingRunning, Ex!VisitedQueue, FirstWaiting
    <3> QED
      BY <3>1, <3>2, <1>1, <2>1
  <2> QED
    BY <2>1, <2>3 DEF CanRun, IsSettled
<1>6. CASE UNCHANGED <<mainPC, visiting, queues, running>>
  <2>1. Ex!NothingRunning /\ Ex!HasWaiting(QueueOrder[i]) /\ ~ CanRun(Head(queues[QueueOrder[i]]))
    BY <1>6 DEF Ex!NothingRunning, Ex!HasWaiting, Scheduled, PassedCannotRun
  <2>2. \A j \in Jobs : ~ Thread(j)
    <3> SUFFICES ASSUME NEW j \in Jobs, Thread(j) PROVE FALSE
      OBVIOUS
    <3>1. phase[j] = "running"
      BY ThreadSteps DEF Scheduled
    <3>2. running[QueueName[j]] = j
      BY <3>1, PlacedMeans DEF Scheduled
    <3> QED
      BY <2>1, <3>2, JobNumbers DEF Ex!NothingRunning
  <2>3. UNCHANGED state
    BY <2>2, MainSteps DEF Next
  <2> QED
    BY <1>6, <2>1, <2>3 DEF CanRun, IsSettled
<1> QED
  BY <1>2, <1>3, <1>4, <1>5, <1>6, MainMoves

(***************************************************************************)
(* If nothing is running, the smallest waiting job begins its queue and    *)
(* requires only jobs that are done, so a round cannot have passed it over.*)
(***************************************************************************)
LEMMA SomethingCanRun ==
    ASSUME Scheduled, mainPC # "add", Ex!NothingRunning, NEW q \in QueueNames, queues[q] # <<>>
    PROVE  \E p \in QueueNames : queues[p] # <<>> /\ CanRun(Head(queues[p]))
<1> DEFINE FirstOf(p) == Head(queues[p])
           Blocked(p) == queues[p] # <<>> /\ ~ CanRun(FirstOf(p))
<1>1. ASSUME NEW p \in QueueNames, Blocked(p)
      PROVE  \E o \in QueueNames : queues[o] # <<>> /\ FirstOf(o) < FirstOf(p)
  <2>1. FirstOf(p) \in Jobs /\ QueueName[FirstOf(p)] = p
    BY <1>1, HeadOfQueue
  <2>2. PICK r \in Requirements[FirstOf(p)] : ~ IsSettled(r.job)
    BY <1>1 DEF CanRun
  <2>3. r.job \in Jobs /\ r.job < FirstOf(p)
    BY <2>1, RequirementFacts
  <2>4. phase[r.job] = "queued"
    <3>1. phase[r.job] # "unadded"
      BY <2>3 DEF Scheduled, AddedInOrder
    <3>2. phase[r.job] \notin {"returned", "exited", "done"}
      BY <2>2, <2>3 DEF Scheduled, StateFollowsThread
    <3>3. ASSUME phase[r.job] = "running" PROVE FALSE
      <4>1. running[QueueName[r.job]] = r.job
        BY <2>3, <3>3, PlacedMeans DEF Scheduled
      <4>2. running[QueueName[r.job]] = NoJob
        BY <2>3, QueueBasics DEF Ex!NothingRunning
      <4> QED
        BY <2>3, <4>1, <4>2, JobNumbers
    <3> QED
      BY <3>1, <3>2, <3>3, <2>3, PlacedMeans DEF Scheduled, Ex!Phases
  <2> DEFINE o == QueueName[r.job]
  <2>5. o \in QueueNames /\ queues[o] # <<>>
    <3>1. \E i \in 1..Len(queues[o]) : queues[o][i] = r.job
      BY <2>3, <2>4, PlacedMeans DEF Scheduled
    <3> QED
      BY <3>1, <2>3, QueueBasics, PlacedMeans DEF Scheduled
  <2>6. FirstOf(o) \in Jobs /\ FirstOf(o) <= r.job
    BY <2>3, <2>4, <2>5, HeadOfQueue
  <2>7. FirstOf(o) < FirstOf(p)
    <3>1. \A i, j, k \in Jobs : i <= j /\ j < k => i < k
      BY JobNumbers
    <3> QED
      BY <2>1, <2>3, <2>6, <3>1
  <2> QED
    BY <2>5, <2>7
<1>2. SUFFICES ASSUME \A p \in QueueNames : queues[p] # <<>> => Blocked(p) PROVE FALSE
  OBVIOUS
<1>3. \A p \in QueueNames : queues[p] # <<>> => FirstOf(p) \in Nat
  BY HeadOfQueue, JobNumbers
<1> HIDE DEF FirstOf, Blocked
<1>4. PICK p \in QueueNames : queues[p] # <<>> /\ FirstOf(p) < FirstOf(q)
  BY <1>1, <1>2
<1>5. PICK o \in QueueNames : queues[o] # <<>> /\ FirstOf(o) < FirstOf(p)
  BY <1>1, <1>2, <1>4
<1>6. o # p /\ p # q /\ o # q
  BY <1>3, <1>4, <1>5
<1> QED
  BY <1>6 DEF QueueNames

LEMMA StepNeverGivesUp == Scheduled /\ [Next]_vars => NeverGivesUp'
<1> SUFFICES ASSUME Scheduled, [Next]_vars PROVE NeverGivesUp'
  OBVIOUS
<1> USE DEF NeverGivesUp
<1>1. CASE EndRound
  <2>1. mainPC = "scan" /\ visiting > Len(QueueOrder)
    BY <1>1 DEF EndRound, Ex!EndRound
  <2>2. ASSUME Ex!NothingRunning, NEW q \in QueueNames, Ex!HasWaiting(q) PROVE FALSE
    <3>1. PICK p \in QueueNames : queues[p] # <<>> /\ CanRun(Head(queues[p]))
      BY <2>1, <2>2, SomethingCanRun DEF Ex!HasWaiting
    <3>2. PICK i \in 1..Len(QueueOrder) : QueueOrder[i] = p
      <4>1. 1 \in 1..Len(QueueOrder) /\ 2 \in 1..Len(QueueOrder)
        BY QueueBasics
      <4>2. p = "execute" \/ p = "fetch"
        BY DEF QueueNames
      <4> QED
        BY <4>1, <4>2, QueueBasics
    <3>3. i < visiting
      BY <2>1, QueueBasics, PlacedMeans DEF Scheduled
    <3> QED
      BY <2>1, <2>2, <3>1, <3>2, <3>3 DEF Scheduled, PassedCannotRun, Ex!HasWaiting
  <2>3. mainPC' # "stuck"
    BY <1>1, <2>2, QueueBasics DEF EndRound, Ex!EndRound
  <2> QED
    BY <1>1, <2>3 DEF EndRound, Ex!EndRound
<1>2. CASE PreExecute
  BY <1>2, StartStep
<1>3. CASE AddJob \/ PassQueue \/ ChooseQueue
  BY <1>3 DEF AddJob, PassQueue, ChooseQueue, Ex!Add, Ex!PassQueue, Ex!ChooseQueue
<1> QED
  BY <1>1, <1>2, <1>3, MainMoves DEF Scheduled

LEMMA StepScheduled == Scheduled /\ [Next]_vars => Scheduled'
BY StepPlaced, StepJobTypes, StepFollowsThread, StepAddedInOrder, StepQueuesInListOrder,
   StepStartedAfter, StepRequirements, StepChosenCanRun, StepPassedCannotRun, StepNeverGivesUp
   DEF Scheduled

(***************************************************************************)
(* Where execute_executions() starts: from a new list, or a resumed one.   *)
(***************************************************************************)
Fresh ==
    /\ StartExecutions
    /\ state \in [Jobs -> States \ {"active"}]
    /\ opts \in Options
    /\ resumeFile \in ResumeFiles

LEMMA InitFresh == Init => Fresh
BY DEF Init, Fresh, ResumeFiles

LEMMA FreshScheduled == Fresh => Scheduled
<1> SUFFICES ASSUME Fresh PROVE Scheduled
  OBVIOUS
<1>1. Ex!ExecutorInit
  BY DEF Fresh, StartExecutions
<1>2. EP!Placed
  BY <1>1, ExecutorInitIs, EP!InitPlaced, ExecutivesAreJobs
<1>3. /\ \A j \in Jobs : phase[j] = "unadded"
      /\ mainPC = "add"
      /\ \A q \in QueueNames : queues[q] = <<>>
  BY <1>1, QueueBasics DEF Ex!ExecutorInit
<1>4. JobTypeOK
  <2>1. state \in JobStates /\ opts \in Options
    BY DEF Fresh, JobStates
  <2>2. resumeFile \in ResumeFiles
    BY DEF Fresh
  <2>3. want \in [Jobs -> BOOLEAN] /\ localRetcode \in [Jobs -> 0..1]
    BY DEF Fresh, StartExecutions
  <2>4. globalRetcode \in 0..1
    BY DEF Fresh, StartExecutions
  <2>5. saving \in BOOLEAN
    BY DEF Fresh, StartExecutions
  <2> QED
    BY <2>1, <2>2, <2>3, <2>4, <2>5 DEF JobTypeOK
<1>5. StateFollowsThread
  <2>1. \A j \in Jobs : state[j] # "active"
    BY DEF Fresh
  <2> QED
    BY <1>3, <2>1 DEF StateFollowsThread
<1>6. AddedInOrder /\ StartedAfterEarlier /\ RequirementsSettled
  BY <1>3 DEF AddedInOrder, StartedAfterEarlier, RequirementsSettled, Started
<1>7. QueuesInListOrder
  BY <1>3 DEF QueuesInListOrder
<1>8. ChosenCanRun /\ PassedCannotRun /\ NeverGivesUp
  BY <1>3 DEF ChosenCanRun, PassedCannotRun, NeverGivesUp
<1> QED
  BY <1>2, <1>4, <1>5, <1>6, <1>7, <1>8 DEF Scheduled

LEMMA AlwaysScheduled == Spec => []Scheduled
BY InitFresh, FreshScheduled, StepScheduled, PTL DEF Spec

-----------------------------------------------------------------------------

(***************************************************************************)
(* Every variable of the composition keeps its type; for the executor's    *)
(* counters this needs that they count something (ExecutorProofs).         *)
(***************************************************************************)
THEOREM TypesOK == Spec => []TypeOK
<1>1. Init => EP!ExecutorInit
  BY ExecutorInitIs DEF Init, StartExecutions
<1>2. Spec => EP!ExecutorSpec
  BY <1>1, StepOfExecutor, PTL DEF Spec, EP!ExecutorSpec
<1>3. Spec => []EP!ExecutorTypeOK
  BY <1>2, EP!TypeCorrect, ExecutivesAreJobs, PTL
<1>4. EP!ExecutorTypeOK => Ex!ExecutorTypeOK
  BY DEF EP!ExecutorTypeOK, Ex!ExecutorTypeOK, EP!QueueNames, Ex!QueueNames,
         EP!MainPCs, Ex!MainPCs, EP!Phases, Ex!Phases
<1>5. EP!ExecutorTypeOK /\ Scheduled => TypeOK
  BY <1>4 DEF Scheduled, JobTypeOK, TypeOK
<1> QED
  BY <1>3, <1>5, AlwaysScheduled, PTL

(***************************************************************************)
(* Whatever the job list, the executor never gives up with "None of our    *)
(* executives can start", and pre_execute_exclusive() never finds a        *)
(* requirement "still active".                                             *)
(***************************************************************************)
THEOREM NeverStuck == Spec => []NeverGivesUp
<1>1. Scheduled => NeverGivesUp
  BY DEF Scheduled
<1> QED
  BY <1>1, AlwaysScheduled, PTL

(***************************************************************************)
(* A job that has been started finds everything it requires settled.       *)
(***************************************************************************)
THEOREM RequirementsComeFirst == Spec => []RequirementsSettled
<1>1. Scheduled => RequirementsSettled
  BY DEF Scheduled
<1> QED
  BY <1>1, AlwaysScheduled, PTL

(***************************************************************************)
(* What ExecutorProofs shows of any executives, of the jobs: a queue has   *)
(* one live thread at most.                                                *)
(***************************************************************************)
THEOREM JobsOfAQueueExclude == Spec => []OneThreadPerQueue
<1>1. EP!Placed => OneThreadPerQueue
  BY DEF EP!Placed, EP!RunningIsLive, EP!Live,
         OneThreadPerQueue, Ex!OneThreadPerQueue, Ex!Live
<1>2. Scheduled => EP!Placed
  BY DEF Scheduled
<1> QED
  BY <1>1, <1>2, AlwaysScheduled, PTL

(***************************************************************************)
(* Joining the thread of a job under the mutex never waits for it.         *)
(***************************************************************************)
THEOREM JoinOfAJobIsSafe == Spec => []JoinNeverBlocks
<1>1. EP!Placed => JoinNeverBlocks
  BY DEF EP!Placed, EP!JoinNeverBlocks, JoinNeverBlocks, Ex!JoinNeverBlocks
<1>2. Scheduled => EP!Placed
  BY DEF Scheduled
<1> QED
  BY <1>1, <1>2, AlwaysScheduled, PTL

(***************************************************************************)
(* execute() does not return before every job has had its post.            *)
(***************************************************************************)
THEOREM ReturnsAfterEveryJob == Spec => []ReturnsWhenAllDone
<1>1. EP!Placed => EP!ReturnsWhenAllDone
  BY EP!FinishedWhenDone, ExecutivesAreJobs
<1>2. EP!ReturnsWhenAllDone => ReturnsWhenAllDone
  BY DEF EP!ReturnsWhenAllDone, ReturnsWhenAllDone, Ex!ReturnsWhenAllDone
<1>3. Scheduled => EP!Placed
  BY DEF Scheduled
<1> QED
  BY <1>1, <1>2, <1>3, AlwaysScheduled, PTL

-----------------------------------------------------------------------------

(***************************************************************************)
(* The step of a thread is the step of JobSchedule that it looks like, and *)
(* every other step leaves the schedule alone.                             *)
(***************************************************************************)
StatusOf(j) == IF IsSettled(j) THEN "settled" ELSE IF state[j] = "active" THEN "running" ELSE "waiting"

Status == [j \in Jobs |-> StatusOf(j)]

LEMMA MayBeginWhenRunning ==
    ASSUME Scheduled, NEW j \in Jobs, phase[j] = "running", state[j] = "pending"
    PROVE  Sched!MayBegin(j)
<1>1. ~ IsSettled(j)
  BY DEF IsSettled, Settled
<1>2. ASSUME NEW k \in Jobs, k < j, QueueName[k] = QueueName[j] PROVE IsSettled(k)
  <2>1. phase[k] = "done"
    BY <1>2 DEF Scheduled, StartedAfterEarlier, Started
  <2> QED
    BY <2>1 DEF Scheduled, StateFollowsThread
<1>3. ASSUME NEW r \in Requirements[j] PROVE IsSettled(r.job)
  BY DEF Scheduled, RequirementsSettled
<1> QED
  BY <1>1, <1>2, <1>3 DEF Sched!MayBegin

LEMMA ThreadStepOfSchedule ==
    ASSUME Scheduled, NEW j \in Jobs, Thread(j)
    PROVE  Sched!Next \/ Status' = Status
<1>1. /\ phase[j] = "running" /\ state \in [Jobs -> States]
      /\ \/ state[j] = "pending" /\ state' = [state EXCEPT ![j] = "active"]
         \/ state[j] = "active" /\ \E s \in Settled : state' = [state EXCEPT ![j] = s]
         \/ state' = state
         \/ state[j] # "active" /\ ~ IsSettled(j) /\ state' = [state EXCEPT ![j] = "skipped"]
  <2>1. state[j] = "active" => want[j]
    BY DEF Scheduled, StateFollowsThread
  <2> QED
    BY <2>1, ThreadSteps DEF Scheduled, JobTypeOK, JobStates, Settled
<1>2. CASE state[j] = "pending" /\ state' = [state EXCEPT ![j] = "active"]
  <2>1. Status' = [Status EXCEPT ![j] = "running"]
    BY <1>1, <1>2 DEF Status, StatusOf, IsSettled, Settled
  <2>2. Sched!Begin(j)
    BY <1>1, <1>2, <2>1, MayBeginWhenRunning DEF Sched!Begin, Status, StatusOf
  <2> QED
    BY <2>2 DEF Sched!Next
<1>3. CASE state[j] = "active" /\ \E s \in Settled : state' = [state EXCEPT ![j] = s]
  <2>1. Status' = [Status EXCEPT ![j] = "settled"] /\ Status[j] = "running"
    BY <1>1, <1>3 DEF Status, StatusOf, IsSettled, Settled
  <2>2. Sched!Finish(j)
    BY <2>1 DEF Sched!Finish, Status, StatusOf
  <2> QED
    BY <2>2 DEF Sched!Next
<1>4. CASE state' = state
  BY <1>4 DEF Status, StatusOf, IsSettled
<1>5. CASE state[j] # "active" /\ ~ IsSettled(j) /\ state' = [state EXCEPT ![j] = "skipped"]
  <2>1. Status' = [Status EXCEPT ![j] = "settled"]
    BY <1>1, <1>5 DEF Status, StatusOf, IsSettled, Settled
  <2>2. state[j] = "pending"
    BY <1>1, <1>5 DEF States, IsSettled, Settled
  <2>3. Sched!Skip(j)
    BY <1>1, <2>1, <2>2, MayBeginWhenRunning DEF Sched!Skip, Status, StatusOf
  <2> QED
    BY <2>3 DEF Sched!Next
<1> QED
  BY <1>1, <1>2, <1>3, <1>4, <1>5

(***************************************************************************)
(* Threads, queues, main's rounds and the resume file implement the plain  *)
(* schedule: jobs of one queue are settled in list order, and a job begins *)
(* only when what it needs is settled.                                     *)
(***************************************************************************)
THEOREM RefinesSchedule == Spec => ImplementsSchedule
<1>1. Init => Sched!Init
  <2> SUFFICES ASSUME Init PROVE \A j \in Jobs : StatusOf(j) \in {"waiting", "settled"}
    BY DEF Sched!Init, StatusOf
  <2> QED
    BY DEF Init, StatusOf
<1>2. Scheduled /\ [Next]_vars => Sched!Next \/ Status' = Status
  <2> SUFFICES ASSUME Scheduled, [Next]_vars PROVE Sched!Next \/ Status' = Status
    OBVIOUS
  <2>1. ASSUME NEW j \in Jobs, Thread(j) PROVE Sched!Next \/ Status' = Status
    BY <2>1, ThreadStepOfSchedule
  <2>2. CASE UNCHANGED state
    BY <2>2 DEF Status, StatusOf, IsSettled
  <2> QED
    BY <2>1, <2>2, MainSteps DEF Next
<1>3. Scheduled /\ [Next]_vars => [Sched!Next]_([j \in Jobs |->
          IF IsSettled(j) THEN "settled" ELSE IF state[j] = "active" THEN "running" ELSE "waiting"])
  BY <1>2 DEF Status, StatusOf
<1> QED
  BY <1>1, <1>3, AlwaysScheduled, PTL DEF Spec, ImplementsSchedule, Sched!Spec

-----------------------------------------------------------------------------

(***************************************************************************)
(* Why a job was skipped, and what the two retcodes remember of it.        *)
(***************************************************************************)
Excused(j) == (opts.fetch /\ Kind[j] # "fetch") \/ globalRetcode # 0

Accounted(j) ==
    /\ localRetcode[j] # 0 => state[j] \in {"failed", "skipped"}
    /\ Started(j) /\ localRetcode[j] = 0 =>
          state[j] # "failed" /\ (state[j] = "skipped" => Excused(j))
    /\ phase[j] = "running" /\ ~ want[j] /\ ~ IsSettled(j) => Excused(j)
    /\ phase[j] = "done" /\ localRetcode[j] # 0 => globalRetcode # 0

RightToRun(j) ==
    phase[j] = "running" /\ want[j] =>
        \A k \in Jobs : QueueName[k] = QueueName[j] /\ MustSucceedFirst(k, j) => SucceededOrNotFetch(k)

Outcomes ==
    /\ \A j \in Jobs : Accounted(j) /\ RightToRun(j)
    /\ globalRetcode # 0 => \E j \in Jobs : phase[j] = "done" /\ localRetcode[j] # 0

LEMMA RightWhenStarted ==
    ASSUME Scheduled, Outcomes, NEW j \in Jobs, Wanted(j),
           \A k \in Jobs : k < j /\ QueueName[k] = QueueName[j] => phase[k] = "done",
           NEW k \in Jobs, QueueName[k] = QueueName[j], MustSucceedFirst(k, j)
    PROVE  SucceededOrNotFetch(k)
<1>1. phase[k] = "done" /\ state[k] \in Settled
  BY DEF MustSucceedFirst, Scheduled, StateFollowsThread, IsSettled
<1>2. CASE globalRetcode # 0
  <2>1. RequirementsAllow(j)
    BY <1>2 DEF Wanted, SomethingFailed
  <2>2. PICK r \in DecidingRequirements(j) : r.job = k
    BY <2>1 DEF MustSucceedFirst, RequirementsAllow
  <2>3. state[k] \in {"pending", "succeeded"}
    BY <2>1, <2>2 DEF RequirementsAllow
  <2> QED
    BY <1>1, <2>3 DEF SucceededOrNotFetch, Settled
<1>3. CASE globalRetcode = 0
  <2>1. Accounted(k) /\ localRetcode[k] = 0
    BY <1>1, <1>3 DEF Outcomes, Accounted
  <2>2. state[k] # "failed" /\ (state[k] = "skipped" => opts.fetch)
    BY <1>1, <1>3, <2>1 DEF Accounted, Started, Excused
  <2> QED
    BY <1>1, <2>2 DEF SucceededOrNotFetch, Settled
<1> QED
  BY <1>2, <1>3

(***************************************************************************)
(* What a step must leave alone to leave Outcomes true.                    *)
(***************************************************************************)
LEMMA RightStays ==
    ASSUME Scheduled, Outcomes, [Next]_vars, UNCHANGED opts, NEW j \in Jobs,
           phase'[j] = "running" => phase[j] = "running", UNCHANGED want
    PROVE  RightToRun(j)'
<1> SUFFICES ASSUME phase[j] = "running", want[j], NEW k \in Jobs, QueueName[k] = QueueName[j],
                    MustSucceedFirst(k, j)
             PROVE  SucceededOrNotFetch(k)'
  BY DEF RightToRun, MustSucceedFirst, DecidingRequirements
<1>1. SucceededOrNotFetch(k)
  BY DEF Outcomes, RightToRun
<1>2. IsSettled(k)
  BY <1>1 DEF SucceededOrNotFetch, IsSettled, Settled
<1>3. state'[k] = state[k]
  BY <1>2, SettledStays DEF Scheduled
<1> QED
  BY <1>1, <1>3 DEF SucceededOrNotFetch

LEMMA StepOutcomes == Scheduled /\ Outcomes /\ [Next]_vars => Outcomes'
<1> SUFFICES ASSUME Scheduled, Outcomes, [Next]_vars PROVE Outcomes'
  OBVIOUS
<1>1. CASE AddJob
  <2>1. PICK j \in Jobs :
            /\ phase[j] = "unadded"
            /\ phase' = [phase EXCEPT ![j] = "queued"]
            /\ UNCHANGED <<state, want, localRetcode, globalRetcode, opts>>
    BY <1>1, AddStep
  <2>2. \A k \in Jobs : phase'[k] = phase[k] \/ (k = j /\ phase[k] = "unadded" /\ phase'[k] = "queued")
    BY <2>1, PlacedMeans DEF Scheduled
  <2>3. \A k \in Jobs : Accounted(k)'
    BY <2>1, <2>2 DEF Outcomes, Accounted, Excused, Started, IsSettled
  <2>4. \A k \in Jobs : RightToRun(k)'
    BY <2>1, <2>2, RightStays
  <2> QED
    BY <2>1, <2>2, <2>3, <2>4 DEF Outcomes
<1>2. CASE PreExecute
  <2>1. PICK j \in Jobs :
            /\ phase[j] = "queued"
            /\ \A k \in Jobs : k < j /\ QueueName[k] = QueueName[j] => phase[k] = "done"
            /\ phase' = [phase EXCEPT ![j] = "running"]
            /\ want' = [want EXCEPT ![j] = Wanted(j)]
            /\ localRetcode' = [localRetcode EXCEPT ![j] = IF CameFailed(j) THEN 1 ELSE 0]
            /\ UNCHANGED <<state, globalRetcode, opts>>
    BY <1>2, StartStep
  <2>2. /\ \A k \in Jobs : k # j => /\ phase'[k] = phase[k]
                                    /\ want'[k] = want[k]
                                    /\ localRetcode'[k] = localRetcode[k]
        /\ phase'[j] = "running" /\ want'[j] = Wanted(j)
        /\ localRetcode'[j] = IF CameFailed(j) THEN 1 ELSE 0
    BY <2>1, PlacedMeans DEF Scheduled, JobTypeOK
  <2>3. ASSUME NEW k \in Jobs, k # j PROVE Accounted(k)' /\ RightToRun(k)'
    <3>1. Accounted(k) /\ RightToRun(k)
      BY DEF Outcomes
    <3>2. Accounted(k)'
      BY <3>1, <2>1, <2>2, <2>3 DEF Accounted, Excused, Started, IsSettled
    <3>3. RightToRun(k)'
      BY <3>1, <2>1, <2>2, <2>3
         DEF RightToRun, MustSucceedFirst, DecidingRequirements, SucceededOrNotFetch
    <3> QED
      BY <3>2, <3>3
  <2>4. Accounted(j)'
    <3>1. ~ Wanted(j) /\ ~ IsSettled(j) => Excused(j)
      BY DEF Wanted, WantedAtFirst, SomethingFailed, Excused, CameFailed, IsSettled, Settled
    <3> QED
      BY <3>1, <2>1, <2>2 DEF Accounted, Excused, CameFailed, IsSettled, Settled
  <2>5. RightToRun(j)'
    <3> SUFFICES ASSUME Wanted(j), NEW k \in Jobs, QueueName[k] = QueueName[j], MustSucceedFirst(k, j)
                 PROVE  SucceededOrNotFetch(k)'
      BY <2>1, <2>2 DEF RightToRun, MustSucceedFirst, DecidingRequirements
    <3>1. SucceededOrNotFetch(k)
      BY <2>1, RightWhenStarted
    <3> QED
      BY <3>1, <2>1 DEF SucceededOrNotFetch
  <2>6. globalRetcode' # 0 => \E k \in Jobs : phase'[k] = "done" /\ localRetcode'[k] # 0
    BY <2>1, <2>2 DEF Outcomes
  <2> QED
    BY <2>3, <2>4, <2>5, <2>6 DEF Outcomes
<1>3. CASE PostExecute
  <2>1. PICK j \in Jobs :
            /\ phase[j] = "exited"
            /\ phase' = [phase EXCEPT ![j] = "done"]
            /\ globalRetcode' = IF localRetcode[j] # 0 THEN 1 ELSE globalRetcode
            /\ UNCHANGED <<state, want, localRetcode, opts>>
    BY <1>3, PostStep
  <2>2. phase'[j] = "done" /\ \A k \in Jobs : k # j => phase'[k] = phase[k]
    BY <2>1, PlacedMeans DEF Scheduled
  <2>3. globalRetcode # 0 => globalRetcode' # 0
    BY <2>1
  <2>4. \A k \in Jobs : Accounted(k)'
    BY <2>1, <2>2, <2>3 DEF Outcomes, Accounted, Excused, Started, IsSettled
  <2>5. \A k \in Jobs : RightToRun(k)'
    BY <2>1, <2>2, RightStays
  <2>6. globalRetcode' # 0 => \E k \in Jobs : phase'[k] = "done" /\ localRetcode'[k] # 0
    BY <2>1, <2>2 DEF Outcomes
  <2> QED
    BY <2>4, <2>5, <2>6 DEF Outcomes
<1>4. CASE Elsewhere
  <2>1. UNCHANGED <<phase, state, want, localRetcode, globalRetcode, opts>>
    BY <1>4, ElsewhereSteps
  <2>2. \A k \in Jobs : Accounted(k)'
    BY <2>1 DEF Outcomes, Accounted, Excused, Started, IsSettled
  <2>3. \A k \in Jobs : RightToRun(k)'
    BY <2>1, RightStays
  <2> QED
    BY <2>1, <2>2, <2>3 DEF Outcomes
<1>5. ASSUME NEW j \in Jobs, PushReady(j) PROVE Outcomes'
  <2>1. /\ phase[j] = "returned"
        /\ phase' = [phase EXCEPT ![j] = "exited"]
        /\ UNCHANGED <<state, want, localRetcode, globalRetcode, opts>>
    BY <1>5, PushStep
  <2>2. phase'[j] = "exited" /\ \A k \in Jobs : k # j => phase'[k] = phase[k]
    BY <2>1, PlacedMeans DEF Scheduled
  <2>3. \A k \in Jobs : Accounted(k)'
    BY <2>1, <2>2 DEF Outcomes, Accounted, Excused, Started, IsSettled
  <2>4. \A k \in Jobs : RightToRun(k)'
    BY <2>1, <2>2, RightStays
  <2> QED
    BY <2>1, <2>2, <2>3, <2>4 DEF Outcomes
<1>6. ASSUME NEW j \in Jobs, Thread(j) PROVE Outcomes'
  <2>1. /\ phase[j] = "running"
        /\ UNCHANGED <<want, globalRetcode>>
        /\ phase'[j] \in {"running", "returned"}
        /\ \A k \in Jobs : k # j => /\ phase'[k] = phase[k]
                                    /\ state'[k] = state[k]
                                    /\ localRetcode'[k] = localRetcode[k]
    BY <1>6, ThreadSteps, PlacedMeans DEF Scheduled, JobTypeOK, JobStates
  <2>2. UNCHANGED opts
    BY <1>6, ThreadSteps DEF Scheduled
  <2>3. ASSUME NEW k \in Jobs, k # j PROVE Accounted(k)'
    BY <2>1, <2>2, <2>3 DEF Outcomes, Accounted, Excused, Started, IsSettled
  <2>4. Accounted(j)'
    <3>1. Accounted(j) /\ (state[j] = "active" => want[j])
      BY DEF Outcomes, Scheduled, StateFollowsThread
    <3>2. state \in [Jobs -> States] /\ phase \in [Jobs -> Ex!Phases] /\ localRetcode \in [Jobs -> 0..1]
      BY PlacedMeans DEF Scheduled, JobTypeOK, JobStates
    <3>3. \/ want[j] /\ state'[j] \in {"active", "succeeded"} /\ ~ IsSettled(j)
             /\ localRetcode'[j] = localRetcode[j]
          \/ want[j] /\ state'[j] = "failed" /\ localRetcode'[j] = 1 /\ phase'[j] = "returned"
          \/ ~ want[j] /\ phase'[j] = "returned" /\ localRetcode'[j] = localRetcode[j]
             /\ (IF IsSettled(j) THEN state'[j] = state[j] ELSE state'[j] = "skipped")
      BY <1>6, <3>1, <3>2, ThreadSteps DEF Scheduled, IsSettled, Settled
    <3>4. localRetcode[j] # 0 => IsSettled(j)
      BY <3>1 DEF Accounted, IsSettled, Settled
    <3> QED
      BY <2>1, <2>2, <3>1, <3>3, <3>4 DEF Accounted, Excused, Started
  <2>5. \A k \in Jobs : RightToRun(k)'
    BY <2>1, <2>2, RightStays
  <2>6. globalRetcode' # 0 => \E k \in Jobs : phase'[k] = "done" /\ localRetcode'[k] # 0
    BY <2>1 DEF Outcomes
  <2> QED
    BY <2>3, <2>4, <2>5, <2>6 DEF Outcomes
<1> QED
  BY <1>1, <1>2, <1>3, <1>4, <1>5, <1>6, StepCases

LEMMA FreshOutcomes == Fresh => Outcomes
BY QueueBasics DEF Fresh, StartExecutions, Ex!ExecutorInit, Outcomes, Accounted, RightToRun, Started

LEMMA AlwaysOutcomes == Spec => []Outcomes
<1>1. Scheduled /\ Outcomes /\ [Next]_vars => (Scheduled /\ Outcomes)'
  BY StepScheduled, StepOutcomes
<1> QED
  BY <1>1, InitFresh, FreshScheduled, FreshOutcomes, PTL DEF Spec

(***************************************************************************)
(* Within a queue, a job runs only after what has to succeed first did.    *)
(***************************************************************************)
THEOREM FailuresStopTheirQueue == Spec => []FailureStopsQueue
<1>1. Scheduled /\ Outcomes => FailureStopsQueue
  BY DEF FailureStopsQueue, Scheduled, StateFollowsThread, Outcomes, RightToRun
<1> QED
  BY <1>1, AlwaysScheduled, AlwaysOutcomes, PTL

LEMMA OutcomesGiveStatus == Scheduled /\ Outcomes => ExitStatus
<1> SUFFICES ASSUME Scheduled, Outcomes, mainPC = "finished"
             PROVE  globalRetcode = 0 <=>
                    \A j \in Jobs :
                        \/ state[j] = "succeeded"
                        \/ opts.fetch /\ Kind[j] # "fetch" /\ state[j] = "skipped"
                           /\ localRetcode[j] = 0
  BY DEF ExitStatus
<1>1. ASSUME NEW j \in Jobs PROVE phase[j] = "done" /\ IsSettled(j)
  <2>1. running[QueueName[j]] = NoJob /\ queues[QueueName[j]] = <<>>
    BY QueueBasics DEF Scheduled, EP!Placed, EP!MainPosition, EP!NothingRunning, EP!HasWaiting
  <2>2. phase[j] # "queued"
    BY <2>1, PlacedMeans DEF Scheduled
  <2>3. phase[j] \notin {"running", "returned", "exited"}
    BY <2>1, PlacedMeans, JobNumbers DEF Scheduled
  <2>4. phase[j] # "unadded"
    BY DEF Scheduled, AddedInOrder
  <2>5. phase[j] = "done"
    BY <2>2, <2>3, <2>4, PlacedMeans DEF Scheduled, Ex!Phases
  <2> QED
    BY <2>5 DEF Scheduled, StateFollowsThread
<1>2. ASSUME globalRetcode = 0, NEW j \in Jobs
      PROVE  \/ state[j] = "succeeded"
             \/ opts.fetch /\ Kind[j] # "fetch" /\ state[j] = "skipped" /\ localRetcode[j] = 0
  BY <1>1, <1>2 DEF Outcomes, Accounted, Excused, Started, IsSettled, Settled
<1>3. ASSUME globalRetcode # 0
      PROVE  \E j \in Jobs : state[j] # "succeeded" /\ localRetcode[j] # 0
  BY <1>3 DEF Outcomes, Accounted
<1> QED
  BY <1>2, <1>3

(***************************************************************************)
(* The retcode of execute_executions() is 0 exactly if every job           *)
(* succeeded, those aside that --fetch skipped.                            *)
(***************************************************************************)
THEOREM ExitStatusIsRight == Spec => []ExitStatus
BY OutcomesGiveStatus, AlwaysScheduled, AlwaysOutcomes, PTL

(***************************************************************************)
(* What makes a job be skipped is there before the job is started, and     *)
(* does not go away.                                                       *)
(***************************************************************************)
ReasonToSkip(j) ==
    \/ opts.fetch /\ Kind[j] # "fetch"
    \/ \E k \in Jobs \ {j} :
          /\ state[k] \in {"failed", "skipped"}
          /\ opts.requireIf = "never" \/ \E r \in DecidingRequirements(j) : r.job = k

SkipsHaveReasons ==
    \A j \in Jobs :
        /\ Started(j) /\ state[j] = "skipped" /\ localRetcode[j] = 0 => ReasonToSkip(j)
        /\ phase[j] = "running" /\ ~ want[j] /\ ~ IsSettled(j) => ReasonToSkip(j)

LEMMA ReasonStays ==
    ASSUME Scheduled, [Next]_vars, NEW j \in Jobs, ReasonToSkip(j)
    PROVE  ReasonToSkip(j)'
<1>1. UNCHANGED opts
  BY MainSteps, ThreadSteps DEF Next, Scheduled
<1>2. ASSUME NEW k \in Jobs, state[k] \in {"failed", "skipped"} PROVE state'[k] = state[k]
  BY <1>2, SettledStays DEF Scheduled, IsSettled, Settled
<1> QED
  BY <1>1, <1>2 DEF ReasonToSkip, DecidingRequirements

LEMMA ReasonWhenStarted ==
    ASSUME Scheduled, Outcomes, NEW j \in Jobs, phase[j] = "queued", ~ Wanted(j), ~ IsSettled(j),
           \A r \in Requirements[j] : IsSettled(r.job)
    PROVE  ReasonToSkip(j)
<1>1. CASE ~ WantedAtFirst(j)
  BY <1>1 DEF WantedAtFirst, ReasonToSkip
<1>2. CASE WantedAtFirst(j)
  <2>1. ~ RequirementsAllow(j) /\ globalRetcode # 0
    BY <1>2 DEF Wanted, SomethingFailed, CameFailed, IsSettled, Settled
  <2>2. CASE opts.requireIf = "never"
    <3>1. PICK k \in Jobs : phase[k] = "done" /\ localRetcode[k] # 0
      BY <2>1 DEF Outcomes
    <3>2. k # j /\ state[k] \in {"failed", "skipped"}
      BY <3>1 DEF Outcomes, Accounted
    <3> QED
      BY <2>2, <3>2 DEF ReasonToSkip
  <2>3. CASE opts.requireIf # "never"
    <3>1. PICK r \in DecidingRequirements(j) : state[r.job] \notin {"pending", "succeeded"}
      BY <2>1, <2>3 DEF RequirementsAllow
    <3>2. r \in Requirements[j] /\ r.job \in Jobs /\ r.job < j
      BY RequirementFacts DEF DecidingRequirements
    <3>3. state[r.job] \in {"failed", "skipped"} /\ r.job \in Jobs \ {j}
      BY <3>1, <3>2, JobNumbers DEF IsSettled, Settled
    <3> QED
      BY <3>3 DEF ReasonToSkip
  <2> QED
    BY <2>2, <2>3
<1> QED
  BY <1>1, <1>2

LEMMA StepSkips == Scheduled /\ Outcomes /\ SkipsHaveReasons /\ [Next]_vars => SkipsHaveReasons'
<1> SUFFICES ASSUME Scheduled, Outcomes, SkipsHaveReasons, [Next]_vars PROVE SkipsHaveReasons'
  OBVIOUS
<1>1. CASE PreExecute
  <2>1. PICK j \in Jobs :
            /\ phase[j] = "queued"
            /\ \A r \in Requirements[j] : IsSettled(r.job)
            /\ phase' = [phase EXCEPT ![j] = "running"]
            /\ want' = [want EXCEPT ![j] = Wanted(j)]
            /\ localRetcode' = [localRetcode EXCEPT ![j] = IF CameFailed(j) THEN 1 ELSE 0]
            /\ UNCHANGED state
    BY <1>1, StartStep
  <2>2. /\ \A k \in Jobs : k # j => /\ phase'[k] = phase[k]
                                    /\ want'[k] = want[k]
                                    /\ localRetcode'[k] = localRetcode[k]
        /\ phase'[j] = "running" /\ want'[j] = Wanted(j)
        /\ localRetcode'[j] = IF CameFailed(j) THEN 1 ELSE 0
    BY <2>1, PlacedMeans DEF Scheduled, JobTypeOK
  <2>3. ~ Wanted(j) /\ ~ IsSettled(j) => ReasonToSkip(j)
    BY <2>1, ReasonWhenStarted
  <2>4. \A k \in Jobs : ReasonToSkip(k) => ReasonToSkip(k)'
    BY ReasonStays
  <2> QED
    BY <2>1, <2>2, <2>3, <2>4 DEF SkipsHaveReasons, Started, IsSettled, CameFailed
<1>2. ASSUME UNCHANGED <<state, want, localRetcode>>,
             \A k \in Jobs : \/ phase'[k] = phase[k]
                             \/ phase'[k] = "queued"
                             \/ phase[k] \in {"returned", "exited"} /\ phase'[k] \in {"exited", "done"}
      PROVE  SkipsHaveReasons'
  BY <1>2, ReasonStays DEF SkipsHaveReasons, Started, IsSettled
<1>3. CASE AddJob
  <2>1. \A k \in Jobs : phase'[k] = phase[k] \/ phase'[k] = "queued"
    BY <1>3, AddStep, PlacedMeans DEF Scheduled
  <2> QED
    BY <1>2, <1>3, <2>1, AddStep
<1>4. CASE PostExecute
  <2>1. \A k \in Jobs : phase'[k] = phase[k] \/ (phase[k] = "exited" /\ phase'[k] = "done")
    BY <1>4, PostStep, PlacedMeans DEF Scheduled
  <2> QED
    BY <1>2, <1>4, <2>1, PostStep
<1>5. CASE Elsewhere
  BY <1>2, <1>5, ElsewhereSteps
<1>6. ASSUME NEW j \in Jobs, PushReady(j) PROVE SkipsHaveReasons'
  <2>1. \A k \in Jobs : phase'[k] = phase[k] \/ (phase[k] = "returned" /\ phase'[k] = "exited")
    BY <1>6, PushStep, PlacedMeans DEF Scheduled
  <2> QED
    BY <1>2, <1>6, <2>1, PushStep
<1>7. ASSUME NEW j \in Jobs, Thread(j) PROVE SkipsHaveReasons'
  <2>1. phase[j] = "running" /\ UNCHANGED want
    BY <1>7, ThreadSteps DEF Scheduled
  <2>2. \A k \in Jobs : k # j => /\ phase'[k] = phase[k]
                                 /\ state'[k] = state[k]
                                 /\ localRetcode'[k] = localRetcode[k]
    BY <1>7, ThreadSteps, PlacedMeans DEF Scheduled, JobTypeOK, JobStates
  <2>3. state'[j] = "skipped" /\ localRetcode'[j] = 0 => ReasonToSkip(j)
    <3>1. \/ state'[j] \in {"active", "succeeded", "failed"}
          \/ /\ ~ want[j] /\ localRetcode'[j] = localRetcode[j]
             /\ IF IsSettled(j) THEN state'[j] = state[j] ELSE state'[j] = "skipped"
      BY <1>7, ThreadSteps DEF Scheduled, JobTypeOK, JobStates
    <3> QED
      BY <2>1, <3>1 DEF SkipsHaveReasons, Started
  <2>4. phase'[j] = "running" => want[j]
    BY <1>7, ThreadSteps, PlacedMeans DEF Scheduled
  <2>5. \A k \in Jobs : ReasonToSkip(k) => ReasonToSkip(k)'
    BY ReasonStays
  <2> QED
    BY <2>1, <2>2, <2>3, <2>4, <2>5 DEF SkipsHaveReasons, Started, IsSettled
<1> QED
  BY <1>1, <1>3, <1>4, <1>5, <1>6, <1>7, StepCases

LEMMA FreshSkips == Fresh => SkipsHaveReasons
BY QueueBasics DEF Fresh, StartExecutions, Ex!ExecutorInit, SkipsHaveReasons, Started

LEMMA SkipsMean == SkipsHaveReasons => SkippedForAReason
BY DEF SkipsHaveReasons, SkippedForAReason, ReasonToSkip, Started

(***************************************************************************)
(* Unless everything has succeeded, a complete resume file knows the       *)
(* outcome of every job that was run and is over.                          *)
(***************************************************************************)
THEOREM ResumeFileIsCurrent == Spec => []ResumeFileCurrent
<1>1. Init => ResumeFileCurrent
  BY DEF Init, Absent, ResumeFileCurrent
<1>2. Scheduled /\ ResumeFileCurrent /\ [Next]_vars => ResumeFileCurrent'
  <2> SUFFICES ASSUME Scheduled, ResumeFileCurrent, [Next]_vars,
                      resumeFile'.kind = "whole", \E k \in Jobs : NotASuccess(k)',
                      NEW j \in Jobs, phase'[j] = "done", want'[j]
               PROVE  resumeFile'.states[j] = state'[j]
    BY DEF ResumeFileCurrent
  <2>1. \E k \in Jobs : NotASuccess(k)
    BY SettledStays DEF Scheduled, NotASuccess, IsSettled, Settled
  <2>2. ASSUME UNCHANGED <<resumeFile, state>>, phase[j] = "done", want[j]
        PROVE  resumeFile'.states[j] = state'[j]
    BY <2>1, <2>2 DEF ResumeFileCurrent
  <2>3. CASE SaveResumeFile
    BY <2>3 DEF SaveResumeFile, Whole
  <2>4. CASE PostExecute
    <3>1. PICK x \in Jobs : /\ phase' = [phase EXCEPT ![x] = "done"]
                            /\ saving' = (want[x] /\ \E k \in Jobs : NotASuccess(k))
      BY <2>4 DEF PostExecute, Ex!Post
    <3>2. resumeFile' = IF saving' THEN Truncated ELSE resumeFile
      BY <2>4 DEF PostExecute
    <3>3. ~ saving' /\ ~ want[x] /\ UNCHANGED resumeFile
      BY <2>1, <3>1, <3>2 DEF Truncated
    <3>4. UNCHANGED <<state, want>>
      BY <2>4 DEF PostExecute
    <3>5. phase[j] = "done"
      BY <3>1, <3>3, <3>4, PlacedMeans DEF Scheduled
    <3> QED
      BY <2>2, <3>3, <3>4, <3>5
  <2>5. CASE PreExecute
    <3>1. PICK x \in Jobs : /\ phase' = [phase EXCEPT ![x] = "running"]
                            /\ want' = [want EXCEPT ![x] = Wanted(x)]
                            /\ UNCHANGED state
      BY <2>5, StartStep
    <3>2. x # j /\ phase[j] = "done" /\ want[j]
      BY <3>1, PlacedMeans DEF Scheduled, JobTypeOK
    <3>3. UNCHANGED resumeFile
      BY <2>5 DEF PreExecute
    <3> QED
      BY <2>2, <3>1, <3>2, <3>3
  <2>6. ASSUME NEW x \in Jobs, Thread(x) PROVE resumeFile'.states[j] = state'[j]
    <3>1. UNCHANGED <<resumeFile, want>> /\ phase[x] = "running"
      BY <2>6, ThreadSteps DEF Scheduled
    <3>2. j # x /\ phase[j] = "done" /\ state'[j] = state[j]
      BY <2>6, <3>1, ThreadSteps, PlacedMeans DEF Scheduled, JobTypeOK, JobStates
    <3> QED
      BY <2>1, <3>1, <3>2 DEF ResumeFileCurrent
  <2>7. CASE AddJob \/ (\E x \in Jobs : PushReady(x))
    <3>1. UNCHANGED <<resumeFile, state, want>> /\ phase[j] = "done"
      BY <2>7, PlacedMeans DEF AddJob, PushReady, Ex!Add, Ex!PushReady, jobVars, Scheduled
    <3> QED
      BY <2>2, <3>1
  <2>8. CASE Execute \/ PassQueue \/ ChooseQueue \/ EndRound \/ Wake \/ NextRound \/ UNCHANGED vars
    <3>1. UNCHANGED <<resumeFile, state, want, phase>>
      BY <2>8 DEF Execute, PassQueue, ChooseQueue, EndRound, Wake, NextRound, vars, jobVars, executorVars,
                  Ex!Execute, Ex!PassQueue, Ex!ChooseQueue, Ex!EndRound, Ex!Wake, Ex!NextRound
    <3> QED
      BY <2>2, <3>1
  <2> QED
    BY <2>3, <2>4, <2>5, <2>6, <2>7, <2>8 DEF Next, Main
<1> QED
  BY <1>1, <1>2, AlwaysScheduled, PTL DEF Spec

(***************************************************************************)
(* Without --fetch-jobs there is one queue, and then --continue-on-failure *)
(* does what its help text says.                                           *)
(***************************************************************************)
THEOREM OneQueueIsSafe ==
    ASSUME NFetchJobs = 0
    PROVE  Spec => []DependenciesSatisfied
<1>1. FailureStopsQueue => DependenciesSatisfied
  <2> SUFFICES ASSUME FailureStopsQueue, NEW j \in Jobs, NEW r \in DecidingRequirements(j),
                      state[j] = "active"
               PROVE  SucceededOrNotFetch(r.job)
    BY DEF DependenciesSatisfied
  <2>1. r \in Requirements[j] /\ r.job \in Jobs /\ r.job < j
    BY RequirementFacts DEF DecidingRequirements
  <2>2. QueueName[r.job] = QueueName[j] /\ MustSucceedFirst(r.job, j)
    BY <2>1 DEF QueueName, MustSucceedFirst
  <2> QED
    BY <2>1, <2>2 DEF FailureStopsQueue
<1> QED
  BY <1>1, FailuresStopTheirQueue, PTL

-----------------------------------------------------------------------------
(***************************************************************************)
(* Several invocations, and the resume file between them.                  *)
(***************************************************************************)
InOneInvocation == Scheduled /\ Outcomes /\ SkipsHaveReasons

CountsOK == timesDone \in [Jobs -> Nat] /\ crashes \in Nat

SuccessWasDone == \A j \in Jobs : state[j] = "succeeded" => timesDone[j] > 0

(***************************************************************************)
(* A job that has not succeeded has been done only in invocations that     *)
(* were killed: for a process by what it knows, for the next one by what   *)
(* is in the file.                                                         *)
(***************************************************************************)
OnlyByCrashes ==
    /\ step # "exited" =>
          \A j \in Jobs : state[j] # "succeeded" => timesDone[j] <= crashes
    /\ step = "exited" /\ resumeFile.kind = "whole" =>
          \A j \in Jobs : resumeFile.states[j] # "succeeded" => timesDone[j] <= crashes

WorldAfterSuccess == step = "world" => \A j \in Jobs : state[j] = "succeeded"

Remembered ==
    /\ CountsOK
    /\ step \in Steps
    /\ SuccessWasDone
    /\ FileNeverOverclaims
    /\ RepeatsNeedCrashes
    /\ OnlyByCrashes
    /\ WorldAfterSuccess

-----------------------------------------------------------------------------
(* Steps other than those of a running job list and those that resume one  *)
(* change the step and the resume file at most.                            *)

Around ==
    \/ HookAborts \/ ExecutionsReturn \/ (\E ok \in BOOLEAN : UpdateWorld(ok))
    \/ EraseResumeFile \/ OpenResumeFile \/ FinishResumeFile
    \/ Crash \/ UNCHANGED caveVars

LEMMA StepKinds ==
    ASSUME [CaveNext]_caveVars
    PROVE  \/ ExecuteStep
           \/ Around
           \/ \E retryFailed, skipFailed, retrySkipped \in BOOLEAN :
                 Resume(retryFailed, skipFailed, retrySkipped)
BY DEF CaveNext, Around

LEMMA AroundChanges ==
    ASSUME InOneInvocation, Around
    PROVE  /\ UNCHANGED <<executorVars, state, want, localRetcode, globalRetcode, opts, saving>>
           /\ resumeFile' \in ResumeFiles
<1>1. resumeFile \in ResumeFiles /\ state \in JobStates
  BY DEF InOneInvocation, Scheduled, JobTypeOK
<1>2. CASE UNCHANGED vars
  BY <1>1, <1>2 DEF vars, jobVars
<1>3. CASE EraseResumeFile
  BY <1>3 DEF EraseResumeFile, ResumeFiles
<1>4. CASE OpenResumeFile
  BY <1>4 DEF OpenResumeFile, ResumeFiles
<1>5. CASE FinishResumeFile
  BY <1>1, <1>5 DEF FinishResumeFile, ResumeFiles, Whole
<1> QED
  BY <1>2, <1>3, <1>4, <1>5 DEF Around, HookAborts, ExecutionsReturn, UpdateWorld, Crash, caveVars

LEMMA FixedStates ==
    ASSUME NEW s \in States, NEW retryFailed \in BOOLEAN, NEW skipFailed \in BOOLEAN,
           NEW retrySkipped \in BOOLEAN
    PROVE  LET t == FixedState(s, retryFailed, skipFailed, retrySkipped)
           IN  t \in States \ {"active"} /\ (t = "succeeded" <=> s = "succeeded")
BY DEF FixedState, States

(***************************************************************************)
(* A resumed list starts like a new one.                                   *)
(***************************************************************************)
LEMMA ResumedIsFresh ==
    ASSUME InOneInvocation, NEW retryFailed \in BOOLEAN, NEW skipFailed \in BOOLEAN,
           NEW retrySkipped \in BOOLEAN, Resume(retryFailed, skipFailed, retrySkipped)
    PROVE  Fresh'
<1>1. resumeFile \in ResumeFiles /\ resumeFile.kind = "whole"
  BY DEF InOneInvocation, Scheduled, JobTypeOK, Resume
<1>2. resumeFile.states \in JobStates
  BY <1>1 DEF ResumeFiles, Absent, Truncated
<1>3. state' \in [Jobs -> States \ {"active"}]
  BY <1>2, FixedStates DEF Resume, JobStates
<1>4. opts' \in Options /\ resumeFile' \in ResumeFiles
  BY <1>1, CaveResumeAssumption DEF Resume
<1>5. StartExecutions'
  BY QueueBasics DEF Resume, StartExecutions, Ex!ExecutorInit
<1> QED
  BY <1>3, <1>4, <1>5 DEF Fresh

LEMMA FreshInvocation == Fresh => InOneInvocation
BY FreshScheduled, FreshOutcomes, FreshSkips DEF InOneInvocation

LEMMA FreshInvocationNext == Fresh' => InOneInvocation'
BY FreshInvocation, PTL

LEMMA AroundKeeps ==
    ASSUME InOneInvocation, Around
    PROVE  InOneInvocation'
<1> USE AroundChanges DEF InOneInvocation, executorVars
<1>1. EP!Placed'
  <2>1. EP!Placed /\ UNCHANGED EP!executorVars
    BY DEF Scheduled, EP!executorVars
  <2> QED
    BY <2>1, EP!StepPlaced, ExecutivesAreJobs
<1>2. JobTypeOK'
  BY DEF Scheduled, JobTypeOK
<1>3. StateFollowsThread' /\ AddedInOrder' /\ QueuesInListOrder' /\ StartedAfterEarlier'
  BY DEF Scheduled, StateFollowsThread, AddedInOrder, QueuesInListOrder, StartedAfterEarlier, Started, IsSettled
<1>4. RequirementsSettled' /\ NeverGivesUp'
  BY DEF Scheduled, RequirementsSettled, NeverGivesUp, IsSettled
<1>5. ChosenCanRun' /\ PassedCannotRun'
  BY DEF Scheduled, ChosenCanRun, PassedCannotRun, CanRun, FirstWaiting, IsSettled,
         Ex!VisitedQueue, Ex!NothingRunning, Ex!HasWaiting
<1>6. Outcomes'
  BY DEF Outcomes, Accounted, RightToRun, Excused, Started, IsSettled, MustSucceedFirst,
         DecidingRequirements, SucceededOrNotFetch
<1>7. SkipsHaveReasons'
  BY DEF SkipsHaveReasons, ReasonToSkip, Started, IsSettled, DecidingRequirements
<1> QED
  BY <1>1, <1>2, <1>3, <1>4, <1>5, <1>6, <1>7 DEF Scheduled

LEMMA StepInvocation == InOneInvocation /\ [CaveNext]_caveVars => InOneInvocation'
<1> SUFFICES ASSUME InOneInvocation, [CaveNext]_caveVars PROVE InOneInvocation'
  OBVIOUS
<1>1. CASE ExecuteStep
  BY <1>1, StepScheduled, StepOutcomes, StepSkips DEF ExecuteStep, InOneInvocation
<1>2. CASE Around
  BY <1>2, AroundKeeps
<1>3. ASSUME NEW retryFailed \in BOOLEAN, NEW skipFailed \in BOOLEAN, NEW retrySkipped \in BOOLEAN,
             Resume(retryFailed, skipFailed, retrySkipped)
      PROVE  InOneInvocation'
  BY <1>3, ResumedIsFresh, FreshInvocationNext
<1> QED
  BY <1>1, <1>2, <1>3, StepKinds

-----------------------------------------------------------------------------

LEMMA CaveInitIs == CaveInit => InOneInvocation /\ Remembered
<1> SUFFICES ASSUME CaveInit PROVE InOneInvocation /\ Remembered
  OBVIOUS
<1>1. Fresh
  BY CaveResumeAssumption DEF CaveInit, Fresh, States, ResumeFiles
<1>2. Remembered
  BY DEF CaveInit, Remembered, CountsOK, Steps, SuccessWasDone, FileNeverOverclaims, RepeatsNeedCrashes,
         OnlyByCrashes, WorldAfterSuccess, Absent
<1> QED
  BY <1>1, <1>2, FreshInvocation

(***************************************************************************)
(* A step of the job list: what is counted is what succeeds.               *)
(***************************************************************************)
LEMMA ExecuteStepRemembers ==
    ASSUME InOneInvocation, Remembered, ExecuteStep
    PROVE  Remembered'
<1>1. /\ step = "executing" /\ UNCHANGED <<step, crashes>>
      /\ Next
      /\ timesDone' = [j \in Jobs |-> IF state[j] = "active" /\ state'[j] = "succeeded"
                                      THEN timesDone[j] + 1 ELSE timesDone[j]]
  BY DEF ExecuteStep
<1>2. ASSUME NEW j \in Jobs
      PROVE  /\ state[j] = "succeeded" => state'[j] = "succeeded" /\ timesDone'[j] = timesDone[j]
             /\ state[j] # "succeeded" /\ state'[j] = "succeeded" => state[j] = "active"
  <2>1. state[j] = "succeeded" => state'[j] = "succeeded" /\ timesDone'[j] = timesDone[j]
    BY <1>1, SettledStays DEF InOneInvocation, Scheduled, IsSettled, Settled
  <2>2. state[j] # "succeeded" /\ state'[j] = "succeeded" => state[j] = "active"
    <3>1. ASSUME NEW k \in Jobs, Thread(k)
          PROVE  state[j] # "succeeded" /\ state'[j] = "succeeded" => state[j] = "active"
      BY <3>1, ThreadSteps DEF InOneInvocation, Scheduled, JobTypeOK, JobStates, IsSettled, Settled
    <3>2. CASE UNCHANGED state
      BY <3>2
    <3> QED
      BY <1>1, <3>1, <3>2, MainSteps DEF Next
  <2> QED
    BY <2>1, <2>2
<1>3. ASSUME NEW j \in Jobs
      PROVE  timesDone'[j] \in Nat /\ timesDone[j] <= timesDone'[j]
             /\ (timesDone'[j] # timesDone[j] =>
                    timesDone'[j] = timesDone[j] + 1 /\ state[j] = "active" /\ state'[j] = "succeeded")
  BY <1>1 DEF Remembered, CountsOK
<1>4. CountsOK' /\ step' \in Steps
  BY <1>1, <1>3 DEF CountsOK, Remembered
<1>5. SuccessWasDone'
  BY <1>1, <1>2, <1>3 DEF SuccessWasDone, Remembered, CountsOK
<1>6. FileNeverOverclaims'
  <2>1. CASE UNCHANGED resumeFile
    BY <1>3, <2>1 DEF Remembered, FileNeverOverclaims, CountsOK
  <2>2. CASE SaveResumeFile
    BY <1>3, <2>2 DEF Remembered, FileNeverOverclaims, SaveResumeFile, Whole, SuccessWasDone, CountsOK
  <2>3. CASE PostExecute
    <3>1. resumeFile' = Truncated \/ UNCHANGED resumeFile
      BY <2>3 DEF PostExecute
    <3> QED
      BY <2>1, <3>1 DEF FileNeverOverclaims, Truncated
  <2>4. Next => UNCHANGED resumeFile \/ SaveResumeFile \/ PostExecute
    BY ThreadSteps DEF Next, Main, AddJob, Execute, PassQueue, ChooseQueue, PreExecute, EndRound, Wake,
                       NextRound, PushReady, jobVars, InOneInvocation, Scheduled
  <2> QED
    BY <1>1, <2>1, <2>2, <2>3, <2>4
<1>7. RepeatsNeedCrashes' /\ OnlyByCrashes'
  <2>1. ASSUME NEW j \in Jobs
        PROVE  timesDone'[j] <= 1 + crashes' /\ (state'[j] # "succeeded" => timesDone'[j] <= crashes')
    <3>1. timesDone[j] <= 1 + crashes /\ (state[j] # "succeeded" => timesDone[j] <= crashes)
      BY <1>1 DEF Remembered, RepeatsNeedCrashes, OnlyByCrashes
    <3>2. timesDone[j] \in Nat /\ crashes \in Nat /\ crashes' = crashes
      BY <1>1 DEF Remembered, CountsOK
    <3> QED
      BY <1>2, <1>3, <3>1, <3>2
  <2> QED
    BY <1>1, <2>1 DEF RepeatsNeedCrashes, OnlyByCrashes
<1>8. WorldAfterSuccess'
  BY <1>1 DEF WorldAfterSuccess
<1> QED
  BY <1>4, <1>5, <1>6, <1>7, <1>8 DEF Remembered

(***************************************************************************)
(* World is next when the return code is 0 and --fetch was not given.      *)
(***************************************************************************)
LEMMA ReturnsAfterSuccess ==
    ASSUME InOneInvocation, mainPC = "finished", globalRetcode = 0, ~ opts.fetch
    PROVE  \A j \in Jobs : state[j] = "succeeded"
BY OutcomesGiveStatus DEF InOneInvocation, ExitStatus

LEMMA AroundRemembers ==
    ASSUME InOneInvocation, Remembered, Around
    PROVE  Remembered'
<1>1. UNCHANGED <<state, timesDone>>
  BY AroundChanges DEF Around, HookAborts, ExecutionsReturn, UpdateWorld, EraseResumeFile, OpenResumeFile,
                       FinishResumeFile, Crash, caveVars, resumeVars
<1>2. /\ timesDone \in [Jobs -> Nat] /\ crashes \in Nat
      /\ crashes' = crashes \/ (step # "exited" /\ crashes' = crashes + 1)
      /\ step' \in Steps
  BY DEF Around, HookAborts, ExecutionsReturn, UpdateWorld, EraseResumeFile, OpenResumeFile,
         FinishResumeFile, Crash, caveVars, resumeVars, Remembered, CountsOK, Steps
<1>3. CountsOK' /\ step' \in Steps /\ SuccessWasDone'
  BY <1>1, <1>2 DEF CountsOK, SuccessWasDone, Remembered
<1>4. RepeatsNeedCrashes'
  BY <1>1, <1>2 DEF RepeatsNeedCrashes, Remembered
<1>5. FileNeverOverclaims'
  <2>1. CASE UNCHANGED resumeFile
    BY <1>1, <2>1 DEF FileNeverOverclaims, Remembered
  <2>2. CASE EraseResumeFile \/ OpenResumeFile
    BY <2>2 DEF EraseResumeFile, OpenResumeFile, FileNeverOverclaims, Absent, Truncated
  <2>3. CASE FinishResumeFile
    BY <1>1, <2>3 DEF FinishResumeFile, FileNeverOverclaims, Whole, Remembered, SuccessWasDone
  <2> QED
    BY <2>1, <2>2, <2>3
       DEF Around, HookAborts, ExecutionsReturn, UpdateWorld, Crash, caveVars, vars, jobVars
<1>6. OnlyByCrashes'
  <2>1. CASE HookAborts \/ ExecutionsReturn \/ \E ok \in BOOLEAN : UpdateWorld(ok)
    <3>1. step # "exited" /\ step' # "exited" /\ crashes' = crashes
      BY <2>1 DEF HookAborts, ExecutionsReturn, UpdateWorld
    <3> QED
      BY <1>1, <3>1 DEF OnlyByCrashes, Remembered
  <2>2. CASE EraseResumeFile
    BY <2>2 DEF EraseResumeFile, OnlyByCrashes, Absent
  <2>3. CASE OpenResumeFile
    BY <1>1, <2>3 DEF OpenResumeFile, OnlyByCrashes, Remembered
  <2>4. CASE FinishResumeFile
    BY <1>1, <2>4 DEF FinishResumeFile, OnlyByCrashes, Whole, Remembered
  <2>5. CASE Crash
    <3>1. crashes' = crashes + 1 /\ step' = "exited"
      BY <2>5 DEF Crash
    <3>2. \A j \in Jobs : timesDone'[j] <= crashes'
      BY <1>1, <1>2, <3>1 DEF Remembered, RepeatsNeedCrashes
    <3> QED
      BY <3>1, <3>2 DEF OnlyByCrashes
  <2>6. CASE UNCHANGED caveVars
    BY <2>6 DEF caveVars, vars, jobVars, resumeVars, OnlyByCrashes, Remembered
  <2> QED
    BY <2>1, <2>2, <2>3, <2>4, <2>5, <2>6 DEF Around
<1>7. WorldAfterSuccess'
  <2>1. CASE ExecutionsReturn
    BY <1>1, <2>1, ReturnsAfterSuccess DEF ExecutionsReturn, WorldAfterSuccess
  <2>2. step' = "world" => ExecutionsReturn \/ step = "world"
    BY DEF Around, HookAborts, UpdateWorld, EraseResumeFile, OpenResumeFile,
           FinishResumeFile, Crash, caveVars, resumeVars
  <2> QED
    BY <1>1, <2>1, <2>2 DEF WorldAfterSuccess, Remembered
<1> QED
  BY <1>3, <1>4, <1>5, <1>6, <1>7 DEF Remembered

LEMMA ResumeRemembers ==
    ASSUME InOneInvocation, Remembered, NEW retryFailed \in BOOLEAN, NEW skipFailed \in BOOLEAN,
           NEW retrySkipped \in BOOLEAN, Resume(retryFailed, skipFailed, retrySkipped)
    PROVE  Remembered'
<1>1. /\ step = "exited" /\ step' = "executing"
      /\ UNCHANGED <<resumeFile, crashes, timesDone>>
      /\ resumeFile.kind = "whole"
  BY DEF Resume
<1>2. resumeFile.states \in JobStates
  BY <1>1 DEF InOneInvocation, Scheduled, JobTypeOK, ResumeFiles, Absent, Truncated
<1>3. \A j \in Jobs : state'[j] = "succeeded" <=> resumeFile.states[j] = "succeeded"
  <2>1. state' = [j \in Jobs |-> FixedState(resumeFile.states[j], retryFailed, skipFailed, retrySkipped)]
    BY DEF Resume
  <2>2. \A j \in Jobs : resumeFile.states[j] \in States
    BY <1>2 DEF JobStates
  <2> QED
    BY <2>1, <2>2, FixedStates
<1>4. CountsOK' /\ step' \in Steps /\ RepeatsNeedCrashes' /\ FileNeverOverclaims'
  BY <1>1 DEF Remembered, CountsOK, Steps, RepeatsNeedCrashes, FileNeverOverclaims
<1>5. SuccessWasDone' /\ OnlyByCrashes' /\ WorldAfterSuccess'
  BY <1>1, <1>3 DEF Remembered, SuccessWasDone, FileNeverOverclaims, OnlyByCrashes, WorldAfterSuccess
<1> QED
  BY <1>4, <1>5 DEF Remembered

LEMMA AlwaysRemembered == CaveSpec => [](InOneInvocation /\ Remembered)
<1>1. InOneInvocation /\ Remembered /\ [CaveNext]_caveVars => (InOneInvocation /\ Remembered)'
  BY StepInvocation, ExecuteStepRemembers, AroundRemembers, ResumeRemembers, StepKinds
<1> QED
  BY <1>1, CaveInitIs, PTL DEF CaveSpec

-----------------------------------------------------------------------------

(***************************************************************************)
(* In every invocation, the first or a resumed one: what a job requires is *)
(* settled before it is started, a job that is skipped has a reason to be, *)
(* the return code is 0 exactly if all is well, and active jobs have       *)
(* threads.                                                                *)
(***************************************************************************)
THEOREM RequirementsComeFirstAgain == CaveSpec => []RequirementsSettled
<1>1. InOneInvocation => RequirementsSettled
  BY DEF InOneInvocation, Scheduled
<1> QED
  BY <1>1, AlwaysRemembered, PTL

(***************************************************************************)
(* No job is skipped without a reason that --continue-on-failure or        *)
(* --fetch makes one.                                                      *)
(***************************************************************************)
THEOREM SkipsAreJustified == CaveSpec => []SkippedForAReason
<1>1. InOneInvocation => SkippedForAReason
  BY SkipsMean DEF InOneInvocation
<1> QED
  BY <1>1, AlwaysRemembered, PTL

(***************************************************************************)
(* The return code of every invocation is right.                           *)
(***************************************************************************)
THEOREM ExitStatusIsRightAgain == CaveSpec => []ExitStatus
<1>1. InOneInvocation => ExitStatus
  BY OutcomesGiveStatus DEF InOneInvocation
<1> QED
  BY <1>1, AlwaysRemembered, PTL

(***************************************************************************)
(* What a killed process has left active is not active in the next.        *)
(***************************************************************************)
THEOREM ActiveJobsRun == CaveSpec => []ActiveHasThread
<1>1. InOneInvocation => ActiveHasThread
  BY DEF InOneInvocation, Scheduled, StateFollowsThread, ActiveHasThread
<1> QED
  BY <1>1, AlwaysRemembered, PTL

(***************************************************************************)
(* However often a list is resumed, work is done again only after crashes. *)
(***************************************************************************)
THEOREM WorkIsNotRepeated == CaveSpec => []RepeatsNeedCrashes
<1>1. Remembered => RepeatsNeedCrashes
  BY DEF Remembered
<1> QED
  BY <1>1, AlwaysRemembered, PTL

(***************************************************************************)
(* The resume file never claims what was not done.                         *)
(***************************************************************************)
THEOREM TheFileIsHonest == CaveSpec => []FileNeverOverclaims
<1>1. Remembered => FileNeverOverclaims
  BY DEF Remembered
<1> QED
  BY <1>1, AlwaysRemembered, PTL

(***************************************************************************)
(* When an invocation ends by itself and there is nothing to resume, there *)
(* is nothing left to do.                                                  *)
(***************************************************************************)
THEOREM NothingIsLost == CaveSpec => NothingLost
<1> DEFINE Closed ==
        /\ step = "closing"
        /\ step' = "exited"
        /\ crashes' = crashes
        /\ resumeFile' = Absent
<1>1. Remembered /\ InOneInvocation /\ [CaveNext]_caveVars => [Closed => \A j \in Jobs : timesDone[j] > 0]_caveVars
  <2> SUFFICES ASSUME Remembered, InOneInvocation, [CaveNext]_caveVars, Closed, NEW j \in Jobs
               PROVE  timesDone[j] > 0
    OBVIOUS
  <2>1. EraseResumeFile
    <3>1. ~ Crash
      BY DEF Crash, Remembered, CountsOK
    <3> QED
      BY <3>1, StepKinds DEF ExecuteStep, Around, HookAborts, ExecutionsReturn, UpdateWorld, OpenResumeFile,
                             FinishResumeFile, Resume, caveVars, resumeVars
  <2> QED
    BY <2>1 DEF EraseResumeFile, NotASuccess, Remembered, SuccessWasDone
<1> QED
  BY <1>1, AlwaysRemembered, PTL DEF NothingLost, CaveSpec

(***************************************************************************)
(* World is updated when all work has been done, and not before.           *)
(***************************************************************************)
THEOREM WorldIsUpdatedLast == CaveSpec => WorldAfterEverything
<1>1. Remembered /\ [CaveNext]_caveVars =>
          [~ worldUpdated /\ worldUpdated' => \A j \in Jobs : timesDone[j] > 0]_caveVars
  <2> SUFFICES ASSUME Remembered, CaveNext, ~ worldUpdated, worldUpdated', NEW j \in Jobs
               PROVE  timesDone[j] > 0
    OBVIOUS
  <2>1. step = "world"
    BY DEF CaveNext, ExecuteStep, HookAborts, ExecutionsReturn, UpdateWorld, EraseResumeFile, OpenResumeFile,
           FinishResumeFile, Crash, Resume
  <2> QED
    BY <2>1 DEF Remembered, WorldAfterSuccess, SuccessWasDone
<1> QED
  BY <1>1, AlwaysRemembered, PTL DEF WorldAfterEverything, CaveSpec
================================================================================
