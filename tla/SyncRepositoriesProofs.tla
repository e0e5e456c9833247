------------------------ MODULE SyncRepositoriesProofs ------------------------
(***************************************************************************)
(* Proofs about SyncRepositories, for any repositories and hosts.  That    *)
(* hosts are synced one at a time is the executor's exclusivity; the rest  *)
(* follows from what the flags of an executive and the hooks that were run *)
(* say of one another in every phase of its life.                          *)
(***************************************************************************)
EXTENDS SyncRepositories, FiniteSetTheorems, TLAPS

EP == INSTANCE ExecutorProofs WITH Executives <- Repositories, NoExecutive <- NoRepository

Hook(name, ok) == [hook |-> name, ok |-> ok]

FlagTypes ==
    /\ abort \in [Repositories -> BOOLEAN]
    /\ success \in [Repositories -> BOOLEAN]
    /\ outcomes \in [Repositories -> Outcomes \cup {"none"}]
    /\ hooks = [r \in Repositories |-> hooks[r]]

(***************************************************************************)
(* What has become of a repository, by the phase of its executive.         *)
(***************************************************************************)
NotBegun(r) == hooks[r] = <<>> /\ outcomes[r] = "none" /\ ~ success[r]

FirstHook(r, ok) == hooks[r] = <<Hook("sync_pre", ok)>>

Begun(r) ==
    /\ outcomes[r] = "none" /\ ~ success[r]
    /\ \E ok \in BOOLEAN : FirstHook(r, ok) /\ (abort[r] \/ ok)

Synced(r) ==
    \/ outcomes[r] = "none" /\ abort[r] /\ ~ success[r] /\ \E ok \in BOOLEAN : FirstHook(r, ok)
    \/ outcomes[r] = "exception" /\ abort[r] /\ ~ success[r] /\ FirstHook(r, TRUE)
    \/ /\ outcomes[r] \in {"synced", "not_needed", "sync_failed"}
       /\ ~ abort[r] /\ FirstHook(r, TRUE)
       /\ success[r] <=> outcomes[r] \in Good

Posted(r) ==
    \/ outcomes[r] = "none" /\ ~ success[r] /\ \E ok \in BOOLEAN : FirstHook(r, ok)
    \/ outcomes[r] = "exception" /\ ~ success[r] /\ FirstHook(r, TRUE)
    \/ /\ outcomes[r] \in {"synced", "not_needed", "sync_failed"}
       /\ \E ok \in BOOLEAN :
             /\ Len(hooks[r]) = 2
             /\ hooks[r][1] = Hook("sync_pre", TRUE)
             /\ hooks[r][2] = Hook(SecondHook(r), ok)
             /\ success[r] <=> outcomes[r] \in Good /\ ok

Told(r) ==
    /\ phase[r] \in {"unadded", "queued"} => NotBegun(r)
    /\ phase[r] = "running" => Begun(r)
    /\ phase[r] \in {"returned", "exited"} => Synced(r)
    /\ phase[r] = "done" => Posted(r)

AllAdded == mainPC # "add" => \A r \in Repositories : phase[r] # "unadded"

Reported ==
    syncPC \in {"sync_all_post", "returned"} =>
        mainPC = "finished" /\ (retcode = 0 <=> \A r \in Repositories : success[r])

Recorded ==
    /\ EP!Placed
    /\ FlagTypes
    /\ \A r \in Repositories : Told(r)
    /\ AllAdded
    /\ Reported

-----------------------------------------------------------------------------

LEMMA SingleQueue ==
    ASSUME NEW s
    PROVE  /\ <<s>> \in Seq({s})
           /\ {<<s>>[i] : i \in 1..Len(<<s>>)} = {s}
           /\ \A i, k \in 1..Len(<<s>>) : i = k
<1>1. <<s>> \in Seq({s})
  OBVIOUS
<1>2. 1..Len(<<s>>) = {1} /\ <<s>>[1] = s
  OBVIOUS
<1> QED
  BY <1>1, <1>2

LEMMA RepositoriesAreExecutives == EP!ExecutivesOK
<1> USE SyncAssumption
<1>1. IsFiniteSet(Repositories) /\ NoRepository \notin Repositories
  BY FS_Interval DEF Repositories, NoRepository
<1>2. CASE OneQueue
  <2>1. QueueOrder = <<"">>
    BY <1>2 DEF QueueOrder
  <2>2. EP!QueueNames = {""} /\ QueueOrder \in Seq({""})
    <3>1. EP!QueueNames = {QueueOrder[i] : i \in 1..Len(QueueOrder)}
      BY DEF EP!QueueNames
    <3>2. {<<"">>[i] : i \in 1..Len(<<"">>)} = {""} /\ <<"">> \in Seq({""})
      BY SingleQueue, Zenon
    <3> QED
      BY <2>1, <3>1, <3>2, Zenon
  <2>3. QueueName \in [Repositories -> {""}]
    BY <1>2 DEF QueueName
  <2>4. \A i, k \in 1..Len(QueueOrder) : QueueOrder[i] = QueueOrder[k] => i = k
    BY <2>1, SingleQueue
  <2> QED
    BY <1>1, <2>2, <2>3, <2>4 DEF EP!ExecutivesOK, IsFiniteSet, EP!IsFiniteSet
<1>3. CASE ~ OneQueue
  <2>1. QueueOrder = HostOrder
    BY <1>3 DEF QueueOrder
  <2>2. EP!QueueNames = Hosts
    BY <2>1 DEF EP!QueueNames, Hosts
  <2>3. QueueName \in [Repositories -> Hosts]
    BY <1>3 DEF QueueName
  <2>4. \A i \in 1..Len(HostOrder) : HostOrder[i] \in Hosts
    BY DEF Hosts
  <2>5. HostOrder \in Seq(Hosts)
    BY <2>4
  <2> QED
    BY <1>1, <2>1, <2>2, <2>3, <2>5 DEF EP!ExecutivesOK, IsFiniteSet, EP!IsFiniteSet
<1> QED
  BY <1>2, <1>3

LEMMA ExecutorInitIs == Ex!ExecutorInit => EP!ExecutorInit
BY DEF Ex!ExecutorInit, EP!ExecutorInit, Ex!QueueNames, EP!QueueNames

(***************************************************************************)
(* Every step is a step of the executor, or leaves it alone.               *)
(***************************************************************************)
LEMMA StepOfExecutor == [Next]_vars => [EP!ExecutorNext]_(EP!executorVars)
<1> SUFFICES ASSUME [Next]_vars PROVE [EP!ExecutorNext]_(EP!executorVars)
  OBVIOUS
<1> USE DEF EP!ExecutorNext
<1>1. ASSUME NEW ok \in BOOLEAN, SyncAllPre(ok) \/ SyncAllPost(ok) PROVE UNCHANGED EP!executorVars
  BY <1>1 DEF SyncAllPre, SyncAllPost, executorVars, EP!executorVars
<1>2. CASE AddRepository
  BY <1>2 DEF AddRepository, Ex!Add, EP!Add
<1>3. CASE Execute
  BY <1>3 DEF Execute, Ex!Execute, EP!Execute, Ex!StartRound, EP!StartRound
<1>4. CASE VisitQueue
  <2>1. EP!PassQueue(TRUE) \/ EP!ChooseQueue(TRUE)
    BY <1>4 DEF VisitQueue, Ex!PassQueue, EP!PassQueue, Ex!ChooseQueue, EP!ChooseQueue,
                Ex!HasWaiting, EP!HasWaiting, Ex!VisitedQueue, EP!VisitedQueue
  <2> QED
    BY <2>1
<1>5. CASE EndRoundOrWake
  BY <1>5 DEF EndRoundOrWake, Ex!EndRound, EP!EndRound, Ex!NothingRunning, EP!NothingRunning,
              Ex!HasWaiting, EP!HasWaiting, Ex!QueueNames, EP!QueueNames, Ex!Wake, EP!Wake,
              Ex!NextRound, EP!NextRound, Ex!StartRound, EP!StartRound
<1>6. CASE SyncResults
  BY <1>6 DEF SyncResults, executorVars, EP!executorVars
<1>7. ASSUME NEW r \in Repositories, NEW ok \in BOOLEAN, NEW prepared \in BOOLEAN, PreExecute(r, ok, prepared)
      PROVE  EP!StartThread(r)
  BY <1>7 DEF PreExecute, Ex!StartThread, EP!StartThread, Ex!VisitedQueue, EP!VisitedQueue
<1>8. ASSUME NEW r \in Repositories, PostAborted(r) \/ \E ok \in BOOLEAN : PostWithHook(r, ok)
      PROVE  EP!Post(r)
  BY <1>8 DEF PostAborted, PostWithHook, Ex!Post, EP!Post
<1>9. ASSUME NEW r \in Repositories, Thread(r) PROVE EP!ThreadReturns(r)
  BY <1>9 DEF Thread, ReturnAtOnce, Sync, Ex!ThreadReturns, EP!ThreadReturns
<1>10. ASSUME NEW r \in Repositories, PushReady(r) PROVE EP!PushReady(r)
  BY <1>10 DEF PushReady, Ex!PushReady, EP!PushReady, Ex!MutexFree, EP!MutexFree
<1>11. CASE UNCHANGED vars
  BY <1>11 DEF vars, executorVars, EP!executorVars
<1> QED
  BY <1>1, <1>2, <1>3, <1>4, <1>5, <1>6, <1>7, <1>8, <1>9, <1>10, <1>11 DEF Next, Main

LEMMA StepPlaced == EP!Placed /\ [Next]_vars => EP!Placed'
BY StepOfExecutor, EP!StepPlaced, RepositoriesAreExecutives

(***************************************************************************)
(* What a step does to the flags, the hooks and the phases of executives:  *)
(* something to one of them, or nothing to any but that one is added.      *)
(***************************************************************************)
Quiet == UNCHANGED <<abort, success, outcomes, hooks>>

QuietSteps ==
    \/ \E ok \in BOOLEAN : SyncAllPre(ok) \/ SyncAllPost(ok)
    \/ AddRepository \/ Execute \/ VisitQueue \/ EndRoundOrWake \/ SyncResults
    \/ UNCHANGED vars
    \/ \E r \in Repositories : PushReady(r)
    \/ \E r \in Repositories : ReturnAtOnce(r)
    \/ \E r \in Repositories : PostAborted(r)

LEMMA StepCases ==
    ASSUME [Next]_vars
    PROVE  \/ QuietSteps
           \/ \E r \in Repositories, ok, prepared \in BOOLEAN : PreExecute(r, ok, prepared)
           \/ \E r \in Repositories, outcome \in Outcomes : Sync(r, outcome)
           \/ \E r \in Repositories, ok \in BOOLEAN : PostWithHook(r, ok)
BY DEF QuietSteps, Next, Main, Thread

LEMMA QuietIsQuiet == QuietSteps => Quiet
<1>1. ASSUME NEW ok \in BOOLEAN, SyncAllPre(ok) \/ SyncAllPost(ok) PROVE Quiet
  BY <1>1 DEF SyncAllPre, SyncAllPost, Quiet, flagVars
<1> QED
  BY <1>1 DEF QuietSteps, AddRepository, Execute, VisitQueue, EndRoundOrWake, SyncResults, vars,
              PushReady, ReturnAtOnce, PostAborted, Quiet, flagVars

LEMMA PlacedMeans ==
    ASSUME EP!Placed
    PROVE  /\ phase \in [Repositories -> {"unadded", "queued", "running", "returned", "exited", "done"}]
           /\ \A r \in Repositories : Ex!StartThread(r) => phase[r] = "queued"
<1>1. phase \in [Repositories -> {"unadded", "queued", "running", "returned", "exited", "done"}]
  BY DEF EP!Placed, EP!ShapeOK, EP!Phases
<1>2. ASSUME NEW r \in Repositories, Ex!StartThread(r) PROVE phase[r] = "queued"
  <2>1. mainPC = "pre" /\ r = Head(queues[EP!VisitedQueue])
    BY <1>2 DEF Ex!StartThread, Ex!VisitedQueue, EP!VisitedQueue
  <2>2. visiting \in 1..Len(QueueOrder) /\ queues[EP!VisitedQueue] # <<>>
    BY <2>1, EP!QueueFacts, RepositoriesAreExecutives
       DEF EP!Placed, EP!ShapeOK, EP!MainPosition, EP!HasWaiting
  <2>3. EP!VisitedQueue \in EP!QueueNames
    BY <2>2, EP!QueueFacts, RepositoriesAreExecutives DEF EP!VisitedQueue
  <2>4. queues[EP!VisitedQueue] \in Seq(Repositories)
    BY <2>3 DEF EP!Placed, EP!ShapeOK
  <2>5. r = queues[EP!VisitedQueue][1] /\ 1 \in 1..Len(queues[EP!VisitedQueue])
    BY <2>1, <2>2, <2>4
  <2> QED
    BY <2>3, <2>5 DEF EP!Placed, EP!QueuesHoldTheQueued
<1> QED
  BY <1>1, <1>2

LEMMA AppendToOne ==
    ASSUME NEW a, NEW b
    PROVE  LET s == Append(<<a>>, b) IN Len(s) = 2 /\ s[1] = a /\ s[2] = b
<1>1. <<a>> \in Seq({a, b}) /\ Len(<<a>>) = 1 /\ <<a>>[1] = a
  OBVIOUS
<1> QED
  BY <1>1

LEMMA StepFlagTypes == Recorded /\ [Next]_vars => FlagTypes'
<1> SUFFICES ASSUME Recorded, [Next]_vars PROVE FlagTypes'
  OBVIOUS
<1> USE DEF Recorded, FlagTypes
<1>1. CASE QuietSteps
  BY <1>1, QuietIsQuiet DEF Quiet
<1>2. ASSUME NEW r \in Repositories, NEW ok \in BOOLEAN, NEW prepared \in BOOLEAN, PreExecute(r, ok, prepared)
      PROVE  FlagTypes'
  BY <1>2 DEF PreExecute, RunHook
<1>3. ASSUME NEW r \in Repositories, NEW outcome \in Outcomes, Sync(r, outcome) PROVE FlagTypes'
  BY <1>3 DEF Sync
<1>4. ASSUME NEW r \in Repositories, NEW ok \in BOOLEAN, PostWithHook(r, ok) PROVE FlagTypes'
  BY <1>4 DEF PostWithHook, RunHook
<1> QED
  BY <1>1, <1>2, <1>3, <1>4, StepCases

(***************************************************************************)
(* The phase of an executive moves on with the flags and hooks of its      *)
(* repository, and those of all others stay as they are.                   *)
(***************************************************************************)
LEMMA StepTold == Recorded /\ [Next]_vars => \A r \in Repositories : Told(r)'
<1> SUFFICES ASSUME Recorded, [Next]_vars, NEW x \in Repositories PROVE Told(x)'
  OBVIOUS
<1> USE PlacedMeans DEF Recorded, FlagTypes
<1>1. CASE QuietSteps
  <2>1. UNCHANGED <<abort, success, outcomes, hooks>>
    BY <1>1, QuietIsQuiet DEF Quiet
  <2>2. \/ phase'[x] = phase[x]
        \/ phase[x] = "unadded" /\ phase'[x] = "queued"
        \/ phase[x] = "running" /\ phase'[x] = "returned" /\ abort[x]
        \/ phase[x] = "returned" /\ phase'[x] = "exited"
        \/ phase[x] = "exited" /\ phase'[x] = "done" /\ abort[x]
    <3>1. ASSUME NEW ok \in BOOLEAN, SyncAllPre(ok) \/ SyncAllPost(ok) PROVE UNCHANGED phase
      BY <3>1 DEF SyncAllPre, SyncAllPost, executorVars
    <3>2. CASE AddRepository
      BY <3>2 DEF AddRepository, Ex!Add
    <3>3. CASE Execute \/ VisitQueue \/ EndRoundOrWake \/ SyncResults \/ UNCHANGED vars
      BY <3>3 DEF Execute, VisitQueue, EndRoundOrWake, SyncResults, vars, executorVars, Ex!Execute,
                  Ex!PassQueue, Ex!ChooseQueue, Ex!EndRound, Ex!Wake, Ex!NextRound
    <3>4. ASSUME NEW r \in Repositories, PushReady(r) \/ ReturnAtOnce(r) \/ PostAborted(r)
          PROVE  \/ phase'[x] = phase[x]
                 \/ phase[x] = "running" /\ phase'[x] = "returned" /\ abort[x]
                 \/ phase[x] = "returned" /\ phase'[x] = "exited"
                 \/ phase[x] = "exited" /\ phase'[x] = "done" /\ abort[x]
      BY <3>4 DEF PushReady, ReturnAtOnce, PostAborted, Ex!PushReady, Ex!ThreadReturns, Ex!Post
    <3> QED
      BY <1>1, <3>1, <3>2, <3>3, <3>4 DEF QuietSteps
  <2>3. (NotBegun(x) <=> NotBegun(x)') /\ (Begun(x) <=> Begun(x)') /\ (Synced(x) <=> Synced(x)')
        /\ (Posted(x) <=> Posted(x)')
    BY <2>1 DEF NotBegun, Begun, Synced, Posted, FirstHook, SecondHook
  <2>4. Begun(x) /\ abort[x] => Synced(x)
    BY DEF Begun, Synced
  <2>5. Synced(x) /\ abort[x] => Posted(x)
    BY DEF Synced, Posted
  <2> QED
    BY <2>2, <2>3, <2>4, <2>5 DEF Told
<1>2. ASSUME NEW r \in Repositories, NEW ok \in BOOLEAN, NEW prepared \in BOOLEAN, PreExecute(r, ok, prepared)
      PROVE  Told(x)'
  <2>1. phase[r] = "queued" /\ phase' = [phase EXCEPT ![r] = "running"]
    BY <1>2 DEF PreExecute, Ex!StartThread
  <2>2. CASE x = r
    <3>1. NotBegun(x)
      BY <2>1, <2>2 DEF Told
    <3>2. hooks'[x] = <<Hook("sync_pre", ok)>>
      BY <1>2, <2>2, <3>1 DEF PreExecute, RunHook, Hook, NotBegun
    <3>3. (abort'[x] \/ ok) /\ outcomes'[x] = "none" /\ ~ success'[x]
      BY <1>2, <2>2, <3>1 DEF PreExecute, NotBegun
    <3>4. Begun(x)'
      BY <3>2, <3>3 DEF Begun, FirstHook
    <3> QED
      BY <2>1, <2>2, <3>4 DEF Told
  <2>3. CASE x # r
    <3>1. phase'[x] = phase[x] /\ abort'[x] = abort[x] /\ success'[x] = success[x]
          /\ outcomes'[x] = outcomes[x] /\ hooks'[x] = hooks[x]
      BY <1>2, <2>1, <2>3 DEF PreExecute, RunHook
    <3> QED
      BY <3>1 DEF Told, NotBegun, Begun, Synced, Posted, FirstHook, SecondHook
  <2> QED
    BY <2>2, <2>3
<1>3. ASSUME NEW r \in Repositories, NEW outcome \in Outcomes, Sync(r, outcome) PROVE Told(x)'
  <2>1. phase[r] = "running" /\ phase' = [phase EXCEPT ![r] = "returned"] /\ ~ abort[r]
    BY <1>3 DEF Sync, Ex!ThreadReturns
  <2>2. CASE x = r
    <3>1. Begun(x)
      BY <2>1, <2>2 DEF Told
    <3>2. FirstHook(x, TRUE)'
      BY <1>3, <2>1, <2>2, <3>1 DEF Begun, FirstHook, Sync
    <3>3. /\ outcomes'[x] = outcome
          /\ success'[x] = (outcome \in Good)
          /\ abort'[x] = (outcome = "exception")
      BY <1>3, <2>2 DEF Sync
    <3>4. Synced(x)'
      BY <3>2, <3>3 DEF Synced, Outcomes, Good
    <3> QED
      BY <2>1, <2>2, <3>4 DEF Told
  <2>3. CASE x # r
    <3>1. phase'[x] = phase[x] /\ abort'[x] = abort[x] /\ success'[x] = success[x]
          /\ outcomes'[x] = outcomes[x] /\ hooks'[x] = hooks[x]
      BY <1>3, <2>1, <2>3 DEF Sync
    <3> QED
      BY <3>1 DEF Told, NotBegun, Begun, Synced, Posted, FirstHook, SecondHook
  <2> QED
    BY <2>2, <2>3
<1>4. ASSUME NEW r \in Repositories, NEW ok \in BOOLEAN, PostWithHook(r, ok) PROVE Told(x)'
  <2>1. phase[r] = "exited" /\ phase' = [phase EXCEPT ![r] = "done"] /\ ~ abort[r]
    BY <1>4 DEF PostWithHook, Ex!Post
  <2>2. CASE x = r
    <3>1. /\ outcomes[x] \in {"synced", "not_needed", "sync_failed"}
          /\ FirstHook(x, TRUE)
          /\ success[x] <=> outcomes[x] \in Good
      BY <2>1, <2>2 DEF Told, Synced
    <3>2. hooks'[x] = Append(hooks[x], Hook(SecondHook(x), ok))
      BY <1>4, <2>2, <3>1 DEF PostWithHook, RunHook, Hook, SecondHook
    <3>3. Len(hooks'[x]) = 2 /\ hooks'[x][1] = Hook("sync_pre", TRUE) /\ hooks'[x][2] = Hook(SecondHook(x), ok)
      BY <3>1, <3>2, AppendToOne DEF FirstHook
    <3>4. outcomes' = outcomes /\ success'[x] = (success[x] /\ ok)
      BY <1>4, <2>2 DEF PostWithHook
    <3>5. Posted(x)'
      BY <3>1, <3>3, <3>4 DEF Posted, SecondHook
    <3> QED
      BY <2>1, <2>2, <3>5 DEF Told
  <2>3. CASE x # r
    <3>1. phase'[x] = phase[x] /\ abort'[x] = abort[x] /\ success'[x] = success[x]
          /\ outcomes'[x] = outcomes[x] /\ hooks'[x] = hooks[x]
      BY <1>4, <2>1, <2>3 DEF PostWithHook, RunHook
    <3> QED
      BY <3>1 DEF Told, NotBegun, Begun, Synced, Posted, FirstHook, SecondHook
  <2> QED
    BY <2>2, <2>3
<1> QED
  BY <1>1, <1>2, <1>3, <1>4, StepCases

LEMMA StepAllAdded == Recorded /\ [Next]_vars => AllAdded'
<1> SUFFICES ASSUME Recorded, [Next]_vars, mainPC' # "add", NEW x \in Repositories PROVE phase'[x] # "unadded"
  BY DEF AllAdded
<1> USE PlacedMeans DEF Recorded, AllAdded
<1>1. CASE Execute
  BY <1>1 DEF Execute, Ex!Execute
<1>2. CASE AddRepository
  BY <1>2 DEF AddRepository, Ex!Add
<1>3. ASSUME UNCHANGED executorVars PROVE phase'[x] # "unadded"
  BY <1>3 DEF executorVars
<1>4. CASE VisitQueue \/ EndRoundOrWake
  BY <1>4 DEF VisitQueue, EndRoundOrWake, Ex!PassQueue, Ex!ChooseQueue, Ex!EndRound, Ex!Wake, Ex!NextRound
<1>5. ASSUME NEW r \in Repositories,
             \/ Ex!StartThread(r) \/ Ex!Post(r) \/ Ex!ThreadReturns(r) \/ Ex!PushReady(r)
      PROVE  phase'[x] # "unadded"
  BY <1>5 DEF Ex!StartThread, Ex!Post, Ex!ThreadReturns, Ex!PushReady
<1>6. \/ Execute \/ AddRepository \/ UNCHANGED executorVars \/ VisitQueue \/ EndRoundOrWake
      \/ \E r \in Repositories :
            Ex!StartThread(r) \/ Ex!Post(r) \/ Ex!ThreadReturns(r) \/ Ex!PushReady(r)
  BY DEF Next, Main, Thread, SyncAllPre, SyncAllPost, SyncResults, PreExecute, PostAborted, PostWithHook,
         ReturnAtOnce, Sync, PushReady, vars
<1> QED
  BY <1>1, <1>2, <1>3, <1>4, <1>5, <1>6

LEMMA FinishedMeansDone ==
    ASSUME EP!Placed, AllAdded, mainPC = "finished"
    PROVE  \A r \in Repositories : phase[r] = "done"
BY EP!FinishedWhenDone, RepositoriesAreExecutives DEF EP!ReturnsWhenAllDone, AllAdded

(***************************************************************************)
(* When the results have been looked at, nothing runs that could change    *)
(* them.                                                                   *)
(***************************************************************************)
LEMMA StepReported == Recorded /\ [Next]_vars => Reported'
<1> SUFFICES ASSUME Recorded, [Next]_vars, syncPC' \in {"sync_all_post", "returned"}
             PROVE  mainPC' = "finished" /\ (retcode' = 0 <=> \A r \in Repositories : success'[r])
  BY DEF Reported
<1>1. CASE SyncResults
  BY <1>1 DEF SyncResults, flagVars, executorVars
<1>2. ASSUME NEW ok \in BOOLEAN, SyncAllPre(ok) \/ SyncAllPost(ok)
      PROVE  mainPC' = "finished" /\ (retcode' = 0 <=> \A r \in Repositories : success'[r])
  BY <1>2 DEF SyncAllPre, SyncAllPost, Recorded, Reported, flagVars, executorVars
<1>3. CASE UNCHANGED vars
  BY <1>3 DEF vars, flagVars, commandVars, executorVars, Recorded, Reported
<1>4. CASE /\ UNCHANGED commandVars
           /\ \/ mainPC # "finished"
              \/ \E r \in Repositories : phase[r] # "done"
  <2>1. syncPC = syncPC'
    BY <1>4 DEF commandVars
  <2>2. mainPC = "finished"
    BY <2>1 DEF Recorded, Reported
  <2> QED
    BY <1>4, <2>2, FinishedMeansDone DEF Recorded
<1>5. ASSUME NEW r \in Repositories, Thread(r) \/ PushReady(r)
      PROVE  UNCHANGED commandVars /\ phase[r] # "done"
  BY <1>5 DEF Thread, ReturnAtOnce, Sync, PushReady, Ex!ThreadReturns, Ex!PushReady
<1>6. CASE \/ AddRepository \/ Execute \/ VisitQueue \/ EndRoundOrWake
           \/ \E r \in Repositories, ok, prepared \in BOOLEAN : PreExecute(r, ok, prepared)
           \/ \E r \in Repositories : PostAborted(r) \/ \E ok \in BOOLEAN : PostWithHook(r, ok)
  <2>1. UNCHANGED commandVars /\ mainPC # "finished"
    BY <1>6 DEF AddRepository, Execute, VisitQueue, EndRoundOrWake, PreExecute, PostAborted, PostWithHook,
                Ex!Add, Ex!Execute, Ex!PassQueue, Ex!ChooseQueue, Ex!EndRound, Ex!Wake, Ex!NextRound,
                Ex!StartThread, Ex!Post
  <2> QED
    BY <2>1, <1>4
<1> QED
  BY <1>1, <1>2, <1>3, <1>4, <1>5, <1>6 DEF Next, Main

LEMMA InitRecorded == Init => Recorded
<1> SUFFICES ASSUME Init PROVE Recorded
  OBVIOUS
<1>1. EP!Placed
  BY ExecutorInitIs, EP!InitPlaced, RepositoriesAreExecutives DEF Init
<1>2. FlagTypes
  BY DEF Init, FlagTypes
<1>3. \A r \in Repositories : Told(r)
  BY DEF Init, Ex!ExecutorInit, Told, NotBegun
<1>4. AllAdded /\ Reported
  BY DEF Init, Ex!ExecutorInit, AllAdded, Reported
<1> QED
  BY <1>1, <1>2, <1>3, <1>4 DEF Recorded

LEMMA AlwaysRecorded == Spec => []Recorded
<1>1. Recorded /\ [Next]_vars => Recorded'
  BY StepPlaced, StepFlagTypes, StepTold, StepAllAdded, StepReported DEF Recorded
<1> QED
  BY <1>1, InitRecorded, PTL DEF Spec

-----------------------------------------------------------------------------

(***************************************************************************)
(* However many repositories there are, the hooks of each come in pairs,   *)
(* the second being the one that fits how the sync ended.                  *)
(***************************************************************************)
THEOREM HooksComeInPairs == Spec => []HooksMatch
<1>1. Recorded => HooksMatch
  <2> SUFFICES ASSUME Recorded, NEW r \in Repositories, phase[r] = "done"
               PROVE  /\ hooks[r][1].hook = "sync_pre"
                      /\ outcomes[r] # "none" => hooks[r][1].ok
                      /\ Len(hooks[r]) = 2 <=> outcomes[r] \notin {"none", "exception"}
                      /\ Len(hooks[r]) = 2 => hooks[r][2].hook = SecondHook(r)
    BY DEF HooksMatch
  <2>1. Posted(r)
    BY DEF Recorded, Told
  <2>2. ASSUME NEW ok \in BOOLEAN, FirstHook(r, ok)
        PROVE  Len(hooks[r]) = 1 /\ hooks[r][1].hook = "sync_pre" /\ hooks[r][1].ok = ok
    BY <2>2 DEF FirstHook, Hook
  <2>3. CASE outcomes[r] \in {"none", "exception"}
    <3>1. PICK ok \in BOOLEAN : FirstHook(r, ok) /\ (outcomes[r] = "exception" => ok)
      BY <2>1, <2>3 DEF Posted
    <3> QED
      BY <2>2, <2>3, <3>1
  <2>4. CASE outcomes[r] \notin {"none", "exception"}
    <3>1. PICK ok \in BOOLEAN :
              /\ Len(hooks[r]) = 2
              /\ hooks[r][1] = Hook("sync_pre", TRUE)
              /\ hooks[r][2] = Hook(SecondHook(r), ok)
      BY <2>1, <2>4 DEF Posted
    <3>2. hooks[r][1].hook = "sync_pre" /\ hooks[r][1].ok /\ hooks[r][2].hook = SecondHook(r)
      BY <3>1 DEF Hook
    <3> QED
      BY <2>4, <3>1, <3>2
  <2> QED
    BY <2>3, <2>4
<1> QED
  BY <1>1, AlwaysRecorded, PTL

(***************************************************************************)
(* The exit status is 0 exactly if every repository was synced or needed   *)
(* no syncing, and none of its hooks failed.                               *)
(***************************************************************************)
THEOREM SyncExitStatusIsHonest == Spec => []ExitStatusHonest
<1>1. Recorded => ExitStatusHonest
  <2> SUFFICES ASSUME Recorded, syncPC = "returned"
               PROVE  retcode = 0 <=>
                        \A r \in Repositories :
                            /\ outcomes[r] \in Good
                            /\ \A i \in 1..Len(hooks[r]) : hooks[r][i].ok
    BY DEF ExitStatusHonest
  <2>1. mainPC = "finished" /\ (retcode = 0 <=> \A r \in Repositories : success[r])
    BY DEF Recorded, Reported
  <2>2. ASSUME NEW r \in Repositories
        PROVE  success[r] <=> outcomes[r] \in Good /\ \A i \in 1..Len(hooks[r]) : hooks[r][i].ok
    <3>1. Posted(r)
      BY <2>1, FinishedMeansDone DEF Recorded, Told
    <3>2. outcomes[r] \in {"none", "exception"} => ~ success[r] /\ outcomes[r] \notin Good
      BY <3>1 DEF Posted, Good
    <3>3. ASSUME outcomes[r] \notin {"none", "exception"}
          PROVE  success[r] <=> outcomes[r] \in Good /\ \A i \in 1..Len(hooks[r]) : hooks[r][i].ok
      <4>1. PICK ok \in BOOLEAN :
                /\ Len(hooks[r]) = 2
                /\ hooks[r][1] = Hook("sync_pre", TRUE)
                /\ hooks[r][2] = Hook(SecondHook(r), ok)
                /\ success[r] <=> outcomes[r] \in Good /\ ok
        BY <3>1, <3>3 DEF Posted
      <4>2. hooks[r][1].ok /\ hooks[r][2].ok = ok
        BY <4>1 DEF Hook
      <4>3. 1..Len(hooks[r]) = {1, 2}
        BY <4>1
      <4> QED
        BY <4>1, <4>2, <4>3
    <3> QED
      BY <3>2, <3>3
  <2> QED
    BY <2>1, <2>2
<1> QED
  BY <1>1, AlwaysRecorded, PTL

(***************************************************************************)
(* Two repositories are never synced from one host at the same time: they  *)
(* are in one queue, whether there is a queue for every host or one for    *)
(* everything, and queues are exclusive.                                   *)
(***************************************************************************)
THEOREM HostsAreSyncedOneAtATime == Spec => []OneSyncPerHost
<1>1. Recorded => OneSyncPerHost
  <2> SUFFICES ASSUME Recorded, NEW r \in Repositories, NEW k \in Repositories,
                      phase[r] = "running", phase[k] = "running", Host[r] = Host[k]
               PROVE  r = k
    BY DEF OneSyncPerHost
  <2>1. QueueName[r] = QueueName[k]
    BY DEF QueueName
  <2>2. running[QueueName[r]] = r /\ running[QueueName[k]] = k
    BY DEF Recorded, EP!Placed, EP!RunningIsLive, EP!Live
  <2> QED
    BY <2>1, <2>2
<1> QED
  BY <1>1, AlwaysRecorded, PTL
===============================================================================
