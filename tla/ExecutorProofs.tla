---------------------------- MODULE ExecutorProofs ----------------------------
(***************************************************************************)
(* Proofs about Executor, for any finite set of executives in any number   *)
(* of queues.  The inductive invariant says where every executive is: the  *)
(* queues hold exactly the queued ones, the map `running` names exactly    *)
(* the live ones, ready_for_post holds exited ones, and the counters count *)
(* them.  Main's position adds what it has checked and not yet used.       *)
(***************************************************************************)
EXTENDS Executor, FiniteSetTheorems, TLAPS

QueuesHoldTheQueued ==
    /\ \A q \in QueueNames : \A i \in 1..Len(queues[q]) :
          /\ phase[queues[q][i]] = "queued"
          /\ QueueName[queues[q][i]] = q
    /\ \A q \in QueueNames : \A i, k \in 1..Len(queues[q]) :
          queues[q][i] = queues[q][k] => i = k
    /\ \A x \in Executives : phase[x] = "queued" =>
          \E i \in 1..Len(queues[QueueName[x]]) : queues[QueueName[x]][i] = x

MainPosition ==
    /\ mainPC \in {"pre", "aborted"} =>
          /\ visiting <= Len(QueueOrder)
          /\ HasWaiting(VisitedQueue)
          /\ running[VisitedQueue] = NoExecutive
    /\ mainPC = "finished" => NothingRunning /\ \A q \in QueueNames : ~ HasWaiting(q)

(***************************************************************************)
(* Type correctness but for the counters, which are integers until         *)
(* CountersAgree shows that they count something.                          *)
(***************************************************************************)
ShapeOK ==
    /\ queues \in [QueueNames -> Seq(Executives)]
    /\ running \in [QueueNames -> Executives \cup {NoExecutive}]
    /\ readyForPost \in Seq(Executives)
    /\ pending \in Int
    /\ active \in Int
    /\ done \in Int
    /\ any \in BOOLEAN
    /\ visiting \in 1..(Len(QueueOrder) + 1)
    /\ mainPC \in MainPCs
    /\ phase \in [Executives -> Phases]

Placed ==
    /\ ShapeOK
    /\ QueuesHoldTheQueued
    /\ RunningIsLive
    /\ JoinNeverBlocks
    /\ MainPosition

-----------------------------------------------------------------------------

LEMMA QueueFacts ==
    ASSUME ExecutivesOK
    PROVE  /\ \A i \in 1..Len(QueueOrder) : QueueOrder[i] \in QueueNames
           /\ Len(QueueOrder) \in Nat
           /\ \A x \in Executives : QueueName[x] \in QueueNames
<1>1. Len(QueueOrder) \in Nat
  BY DEF ExecutivesOK
<1> QED
  BY <1>1 DEF QueueNames, ExecutivesOK

LEMMA InitPlaced ==
    ASSUME ExecutivesOK
    PROVE  ExecutorInit => Placed
<1> SUFFICES ASSUME ExecutorInit PROVE Placed
  OBVIOUS
<1> USE DEF ExecutorInit
<1>1. ShapeOK
  <2>1. queues \in [QueueNames -> Seq(Executives)]
    OBVIOUS
  <2>2. running \in [QueueNames -> Executives \cup {NoExecutive}]
    OBVIOUS
  <2>3. readyForPost \in Seq(Executives)
    OBVIOUS
  <2>4. visiting \in 1..(Len(QueueOrder) + 1)
    BY QueueFacts
  <2>5. phase \in [Executives -> Phases]
    BY DEF Phases
  <2>6. mainPC \in MainPCs
    BY DEF MainPCs
  <2>7. any \in BOOLEAN
    OBVIOUS
  <2>8. pending \in Int /\ active \in Int /\ done \in Int
    OBVIOUS
  <2> QED
    BY <2>1, <2>2, <2>3, <2>4, <2>5, <2>6, <2>7, <2>8, Zenon DEF ShapeOK
<1>2. QueuesHoldTheQueued
  BY DEF QueuesHoldTheQueued
<1>3. RunningIsLive
  BY QueueFacts DEF RunningIsLive, Live, ExecutivesOK
<1>4. JoinNeverBlocks
  BY DEF JoinNeverBlocks
<1>5. MainPosition
  BY DEF MainPosition
<1> QED
  BY <1>1, <1>2, <1>3, <1>4, <1>5 DEF Placed

LEMMA StepShape ==
    ASSUME ExecutivesOK
    PROVE  Placed /\ ExecutorNext => ShapeOK'
<1> SUFFICES ASSUME Placed, ExecutorNext PROVE ShapeOK'
  OBVIOUS
<1> USE QueueFacts DEF Placed, ShapeOK
<1>1. ASSUME NEW x \in Executives, Add(x) PROVE ShapeOK'
  <2>1. queues' \in [QueueNames -> Seq(Executives)]
    BY <1>1 DEF Add
  <2>2. phase' \in [Executives -> Phases]
    BY <1>1 DEF Add, Phases
  <2> QED
    BY <1>1, <2>1, <2>2 DEF Add
<1>2. CASE Execute
  <2>1. any' \in BOOLEAN
    BY <1>2 DEF Execute, StartRound
  <2>2. visiting' \in 1..(Len(QueueOrder) + 1) /\ mainPC' \in MainPCs
    BY <1>2 DEF Execute, StartRound, MainPCs
  <2>3. UNCHANGED <<queues, running, readyForPost, pending, active, done, phase>>
    BY <1>2 DEF Execute
  <2> QED
    BY <2>1, <2>2, <2>3
<1>3. ASSUME NEW canRun \in BOOLEAN, PassQueue(canRun) PROVE ShapeOK'
  BY <1>3 DEF PassQueue
<1>4. ASSUME NEW canRun \in BOOLEAN, ChooseQueue(canRun) PROVE ShapeOK'
  BY <1>4 DEF ChooseQueue, MainPCs
<1>5. ASSUME NEW x \in Executives, StartThread(x) PROVE ShapeOK'
  <2>1. /\ visiting <= Len(QueueOrder)
        /\ VisitedQueue \in QueueNames
        /\ queues[VisitedQueue] # <<>>
    BY <1>5 DEF StartThread, MainPosition, HasWaiting, VisitedQueue
  <2>2. queues' \in [QueueNames -> Seq(Executives)]
    BY <1>5, <2>1 DEF StartThread
  <2>3. running' \in [QueueNames -> Executives \cup {NoExecutive}]
    BY <1>5, <2>1 DEF StartThread
  <2>4. phase' \in [Executives -> Phases]
    BY <1>5 DEF StartThread, Phases
  <2>5. any' \in BOOLEAN /\ mainPC' \in MainPCs
    BY <1>5 DEF StartThread, MainPCs
  <2>6. visiting' \in 1..(Len(QueueOrder) + 1) /\ UNCHANGED <<readyForPost, pending, active, done>>
    BY <1>5, <2>1 DEF StartThread
  <2> QED
    BY <2>2, <2>3, <2>4, <2>5, <2>6
<1>6. CASE PreExecuteThrows
  BY <1>6 DEF PreExecuteThrows, MainPCs
<1>7. CASE EndRound
  BY <1>7 DEF EndRound, MainPCs
<1>8. CASE Wake
  BY <1>8 DEF Wake, MainPCs
<1>9. ASSUME NEW x \in Executives, Post(x) PROVE ShapeOK'
  <2>1. readyForPost' \in Seq(Executives)
    BY <1>9 DEF Post
  <2>2. running' \in [QueueNames -> Executives \cup {NoExecutive}]
    BY <1>9 DEF Post
  <2>3. phase' \in [Executives -> Phases]
    BY <1>9 DEF Post, Phases
  <2>4. active' \in Int /\ done' \in Int
    BY <1>9 DEF Post
  <2> QED
    BY <1>9, <2>1, <2>2, <2>3, <2>4 DEF Post
<1>10. CASE NextRound
  <2>1. any' \in BOOLEAN
    BY <1>10 DEF NextRound, StartRound
  <2>2. visiting' \in 1..(Len(QueueOrder) + 1) /\ mainPC' \in MainPCs
    BY <1>10 DEF NextRound, StartRound, MainPCs
  <2>3. UNCHANGED <<queues, running, readyForPost, pending, active, done, phase>>
    BY <1>10 DEF NextRound
  <2> QED
    BY <2>1, <2>2, <2>3
<1>11. ASSUME NEW x \in Executives, ThreadReturns(x) PROVE ShapeOK'
  <2>1. phase' \in [Executives -> Phases]
    BY <1>11 DEF ThreadReturns, Phases
  <2> QED
    BY <1>11, <2>1 DEF ThreadReturns
<1>12. ASSUME NEW x \in Executives, PushReady(x) PROVE ShapeOK'
  <2>1. phase' \in [Executives -> Phases]
    BY <1>12 DEF PushReady, Phases
  <2>2. readyForPost' \in Seq(Executives)
    BY <1>12 DEF PushReady
  <2> QED
    BY <1>12, <2>1, <2>2 DEF PushReady
<1> QED
  BY <1>1, <1>2, <1>3, <1>4, <1>5, <1>6, <1>7, <1>8, <1>9, <1>10, <1>11, <1>12
     DEF ExecutorNext

(***************************************************************************)
(* A step that leaves the queues and the phases alone leaves               *)
(* QueuesHoldTheQueued true, and so on: what each part depends on.         *)
(***************************************************************************)
LEMMA Frames ==
    /\ QueuesHoldTheQueued /\ UNCHANGED <<queues, phase>> => QueuesHoldTheQueued'
    /\ RunningIsLive /\ UNCHANGED <<running, phase>> => RunningIsLive'
    /\ JoinNeverBlocks /\ UNCHANGED <<readyForPost, phase>> => JoinNeverBlocks'
BY DEF QueuesHoldTheQueued, RunningIsLive, JoinNeverBlocks, Live

LEMMA StepQueues ==
    ASSUME ExecutivesOK
    PROVE  Placed /\ ExecutorNext => QueuesHoldTheQueued'
<1> SUFFICES ASSUME Placed, ExecutorNext PROVE QueuesHoldTheQueued'
  OBVIOUS
<1> USE QueueFacts DEF Placed, ShapeOK
<1>1. ASSUME NEW x \in Executives, Add(x) PROVE QueuesHoldTheQueued'
  <2> DEFINE qx == QueueName[x]
  <2>1. /\ phase[x] = "unadded"
        /\ qx \in QueueNames
        /\ queues' = [queues EXCEPT ![qx] = Append(@, x)]
        /\ phase' = [phase EXCEPT ![x] = "queued"]
    BY <1>1 DEF Add
  <2>2. /\ Len(queues'[qx]) = Len(queues[qx]) + 1
        /\ queues'[qx][Len(queues[qx]) + 1] = x
        /\ \A i \in 1..Len(queues[qx]) : queues'[qx][i] = queues[qx][i]
    BY <2>1
  <2>3. \A q \in QueueNames : q # qx => queues'[q] = queues[q]
    BY <2>1
  <2>4. \A q \in QueueNames : \A i \in 1..Len(queues[q]) : queues[q][i] \in Executives /\ queues[q][i] # x
    BY <2>1 DEF QueuesHoldTheQueued
  <2>5. ASSUME NEW q \in QueueNames, NEW i \in 1..Len(queues'[q])
        PROVE  phase'[queues'[q][i]] = "queued" /\ QueueName[queues'[q][i]] = q
    <3>1. CASE q # qx
      BY <3>1, <2>1, <2>3, <2>4 DEF QueuesHoldTheQueued
    <3>2. CASE q = qx /\ i = Len(queues[qx]) + 1
      BY <3>2, <2>1, <2>2
    <3>3. CASE q = qx /\ i \in 1..Len(queues[qx])
      BY <3>3, <2>1, <2>2, <2>4 DEF QueuesHoldTheQueued
    <3> QED
      BY <3>1, <3>2, <3>3, <2>1, <2>2
  <2>6. ASSUME NEW q \in QueueNames, NEW i \in 1..Len(queues'[q]), NEW k \in 1..Len(queues'[q]),
               queues'[q][i] = queues'[q][k]
        PROVE  i = k
    <3>1. CASE q # qx
      BY <3>1, <2>6, <2>3 DEF QueuesHoldTheQueued
    <3>2. CASE q = qx
      BY <3>2, <2>6, <2>1, <2>2, <2>4 DEF QueuesHoldTheQueued
    <3> QED
      BY <3>1, <3>2
  <2>7. ASSUME NEW y \in Executives, phase'[y] = "queued"
        PROVE  \E i \in 1..Len(queues'[QueueName[y]]) : queues'[QueueName[y]][i] = y
    <3>1. CASE y = x
      <4>1. Len(queues[qx]) + 1 \in 1..Len(queues'[qx])
        BY <2>1, <2>2
      <4> QED
        BY <3>1, <4>1, <2>2
    <3>2. CASE y # x
      <4>0. phase[y] = "queued"
        BY <3>2, <2>1, <2>7
      <4>1. PICK i \in 1..Len(queues[QueueName[y]]) : queues[QueueName[y]][i] = y
        BY <4>0, Zenon DEF QueuesHoldTheQueued
      <4>2. QueueName[y] \in QueueNames
        OBVIOUS
      <4>3. i \in 1..Len(queues'[QueueName[y]]) /\ queues'[QueueName[y]][i] = y
        BY <4>1, <4>2, <2>1, <2>2, <2>3
      <4> QED
        BY <4>3
    <3> QED
      BY <3>1, <3>2
  <2> QED
    BY <2>5, <2>6, <2>7 DEF QueuesHoldTheQueued
<1>5. ASSUME NEW x \in Executives, StartThread(x) PROVE QueuesHoldTheQueued'
  <2> DEFINE v == VisitedQueue
  <2>1. /\ v \in QueueNames
        /\ queues[v] # <<>>
        /\ x = Head(queues[v])
        /\ queues' = [queues EXCEPT ![v] = Tail(@)]
        /\ phase' = [phase EXCEPT ![x] = "running"]
    BY <1>5 DEF StartThread, MainPosition, HasWaiting, VisitedQueue
  <2>2. /\ Len(queues[v]) \in Nat \ {0}
        /\ x = queues[v][1]
        /\ Len(queues'[v]) = Len(queues[v]) - 1
        /\ \A i \in 1..(Len(queues[v]) - 1) : queues'[v][i] = queues[v][i + 1]
    BY <2>1
  <2>3. \A q \in QueueNames : q # v => queues'[q] = queues[q]
    BY <2>1
  <2>4. \A q \in QueueNames : \A i \in 1..Len(queues[q]) : queues[q][i] \in Executives
    OBVIOUS
  <2>5. phase[x] = "queued" /\ QueueName[x] = v
    <3>1. 1 \in 1..Len(queues[v])
      BY <2>2
    <3>2. phase[queues[v][1]] = "queued" /\ QueueName[queues[v][1]] = v
      BY <3>1, <2>1, Zenon DEF QueuesHoldTheQueued
    <3> QED
      BY <3>2, <2>2
  <2>6. \A q \in QueueNames : \A i \in 1..Len(queues[q]) :
           queues[q][i] = x => q = v /\ i = 1
    BY <2>1, <2>2, <2>5 DEF QueuesHoldTheQueued
  <2>7. ASSUME NEW q \in QueueNames, NEW i \in 1..Len(queues'[q])
        PROVE  phase'[queues'[q][i]] = "queued" /\ QueueName[queues'[q][i]] = q
    <3>1. CASE q # v
      BY <3>1, <2>1, <2>3, <2>4, <2>6 DEF QueuesHoldTheQueued
    <3>2. CASE q = v
      <4>1. i + 1 \in 1..Len(queues[v]) /\ queues'[v][i] = queues[v][i + 1] /\ i + 1 # 1
        BY <3>2, <2>2
      <4> QED
        BY <3>2, <4>1, <2>1, <2>4, <2>6 DEF QueuesHoldTheQueued
    <3> QED
      BY <3>1, <3>2
  <2>8. ASSUME NEW q \in QueueNames, NEW i \in 1..Len(queues'[q]), NEW k \in 1..Len(queues'[q]),
               queues'[q][i] = queues'[q][k]
        PROVE  i = k
    <3>1. CASE q # v
      BY <3>1, <2>8, <2>3 DEF QueuesHoldTheQueued
    <3>2. CASE q = v
      <4>1. i + 1 \in 1..Len(queues[v]) /\ k + 1 \in 1..Len(queues[v])
        BY <3>2, <2>2
      <4>2. queues[v][i + 1] = queues[v][k + 1]
        BY <3>2, <2>2, <2>8
      <4>3. i + 1 = k + 1
        BY <4>1, <4>2, <2>1 DEF QueuesHoldTheQueued
      <4> QED
        BY <4>3
    <3> QED
      BY <3>1, <3>2
  <2>9. ASSUME NEW y \in Executives, phase'[y] = "queued"
        PROVE  \E i \in 1..Len(queues'[QueueName[y]]) : queues'[QueueName[y]][i] = y
    <3>1. y # x /\ phase[y] = "queued"
      BY <2>1, <2>9
    <3>2. PICK i \in 1..Len(queues[QueueName[y]]) : queues[QueueName[y]][i] = y
      BY <3>1 DEF QueuesHoldTheQueued
    <3>3. CASE QueueName[y] # v
      BY <3>3, <3>2, <2>3
    <3>4. CASE QueueName[y] = v
      <4>1. i - 1 \in 1..Len(queues'[v]) /\ queues'[v][i - 1] = y
        BY <3>1, <3>2, <3>4, <2>2
      <4> QED
        BY <4>1, <3>4
    <3> QED
      BY <3>3, <3>4
  <2> QED
    BY <2>7, <2>8, <2>9 DEF QueuesHoldTheQueued
<1>9. ASSUME NEW x \in Executives, phase[x] \in {"running", "returned", "exited"},
             NEW p \in {"returned", "exited", "done"},
             phase' = [phase EXCEPT ![x] = p], UNCHANGED queues
      PROVE  QueuesHoldTheQueued'
  BY <1>9 DEF QueuesHoldTheQueued
<1>10. ASSUME NEW x \in Executives, Post(x) \/ ThreadReturns(x) \/ PushReady(x)
       PROVE  QueuesHoldTheQueued'
  BY <1>9, <1>10 DEF Post, ThreadReturns, PushReady
<1>11. ASSUME NEW canRun \in BOOLEAN,
              \/ PassQueue(canRun) \/ ChooseQueue(canRun) \/ Execute \/ PreExecuteThrows
              \/ EndRound \/ Wake \/ NextRound
       PROVE  QueuesHoldTheQueued'
  <2>1. UNCHANGED <<queues, phase>>
    BY <1>11 DEF PassQueue, ChooseQueue, Execute, PreExecuteThrows, EndRound, Wake, NextRound
  <2> QED
    BY <2>1, Frames
<1> QED
  BY <1>1, <1>5, <1>10, <1>11 DEF ExecutorNext

LEMMA StepRunning ==
    ASSUME ExecutivesOK
    PROVE  Placed /\ ExecutorNext => RunningIsLive'
<1> SUFFICES ASSUME Placed, ExecutorNext PROVE RunningIsLive'
  OBVIOUS
<1> USE QueueFacts DEF Placed, ShapeOK
<1>1. ASSUME NEW x \in Executives, Add(x) PROVE RunningIsLive'
  BY <1>1 DEF Add, RunningIsLive, Live
<1>2. ASSUME NEW x \in Executives, StartThread(x) PROVE RunningIsLive'
  <2> DEFINE v == VisitedQueue
  <2>1. /\ v \in QueueNames
        /\ Len(queues[v]) \in Nat \ {0}
        /\ x = queues[v][1]
        /\ running[v] = NoExecutive
    BY <1>2 DEF StartThread, MainPosition, HasWaiting, VisitedQueue
  <2>2. phase[x] = "queued" /\ QueueName[x] = v
    BY <2>1 DEF QueuesHoldTheQueued
  <2>3. ASSUME NEW y \in Executives PROVE (Live(y) <=> running[QueueName[y]] = y)'
    <3>1. CASE y = x
      BY <3>1, <2>1, <2>2, <1>2 DEF StartThread, Live
    <3>2. CASE y # x /\ QueueName[y] = v
      <4>1. ~ Live(y)
        BY <3>2, <2>1 DEF RunningIsLive, ExecutivesOK
      <4>2. running'[v] = x /\ phase'[y] = phase[y]
        BY <3>2, <2>1, <1>2 DEF StartThread
      <4> QED
        BY <4>1, <4>2, <3>2 DEF Live
    <3>3. CASE y # x /\ QueueName[y] # v
      <4>1. running'[QueueName[y]] = running[QueueName[y]] /\ phase'[y] = phase[y]
        BY <3>3, <2>1, <1>2 DEF StartThread
      <4> QED
        BY <4>1 DEF RunningIsLive, Live
    <3> QED
      BY <3>1, <3>2, <3>3
  <2> QED
    BY <2>3 DEF RunningIsLive
<1>3. ASSUME NEW x \in Executives, Post(x) PROVE RunningIsLive'
  <2>1. phase[x] = "exited" /\ running[QueueName[x]] = x
    BY <1>3 DEF Post, RunningIsLive, Live
  <2>2. ASSUME NEW y \in Executives PROVE (Live(y) <=> running[QueueName[y]] = y)'
    <3>1. CASE y = x
      BY <3>1, <1>3 DEF Post, Live, ExecutivesOK
    <3>2. CASE y # x /\ QueueName[y] = QueueName[x]
      <4>1. ~ Live(y)
        BY <3>2, <2>1 DEF RunningIsLive
      <4>2. running'[QueueName[y]] = NoExecutive /\ phase'[y] = phase[y]
        BY <3>2, <1>3 DEF Post
      <4> QED
        BY <4>1, <4>2 DEF Live, ExecutivesOK
    <3>3. CASE y # x /\ QueueName[y] # QueueName[x]
      <4>1. running'[QueueName[y]] = running[QueueName[y]] /\ phase'[y] = phase[y]
        BY <3>3, <1>3 DEF Post
      <4> QED
        BY <4>1 DEF RunningIsLive, Live
    <3> QED
      BY <3>1, <3>2, <3>3
  <2> QED
    BY <2>2 DEF RunningIsLive
<1>4. ASSUME NEW x \in Executives, ThreadReturns(x) \/ PushReady(x) PROVE RunningIsLive'
  BY <1>4 DEF ThreadReturns, PushReady, RunningIsLive, Live
<1>5. ASSUME NEW canRun \in BOOLEAN,
             \/ PassQueue(canRun) \/ ChooseQueue(canRun) \/ Execute \/ PreExecuteThrows
             \/ EndRound \/ Wake \/ NextRound
      PROVE  RunningIsLive'
  <2>1. UNCHANGED <<running, phase>>
    BY <1>5 DEF PassQueue, ChooseQueue, Execute, PreExecuteThrows, EndRound, Wake, NextRound
  <2> QED
    BY <2>1, Frames
<1> QED
  BY <1>1, <1>2, <1>3, <1>4, <1>5 DEF ExecutorNext

LEMMA StepReady ==
    ASSUME ExecutivesOK
    PROVE  Placed /\ ExecutorNext => JoinNeverBlocks'
<1> SUFFICES ASSUME Placed, ExecutorNext PROVE JoinNeverBlocks'
  OBVIOUS
<1> USE QueueFacts DEF Placed, ShapeOK
<1>1. ASSUME NEW x \in Executives, NEW p \in Phases, phase[x] # "exited",
             phase' = [phase EXCEPT ![x] = p], UNCHANGED readyForPost
      PROVE  JoinNeverBlocks'
  BY <1>1 DEF JoinNeverBlocks
<1>2. ASSUME NEW x \in Executives, Add(x) \/ ThreadReturns(x) PROVE JoinNeverBlocks'
  BY <1>1, <1>2 DEF Add, ThreadReturns, Phases
<1>3. ASSUME NEW x \in Executives, StartThread(x) PROVE JoinNeverBlocks'
  <2>1. phase[x] = "queued"
    BY <1>3 DEF StartThread, MainPosition, HasWaiting, VisitedQueue, QueuesHoldTheQueued
  <2> QED
    BY <1>1, <1>3, <2>1 DEF StartThread, Phases
<1>4. ASSUME NEW x \in Executives, Post(x) PROVE JoinNeverBlocks'
  <2>1. /\ x = readyForPost[1]
        /\ Len(readyForPost) \in Nat \ {0}
        /\ Len(readyForPost') = Len(readyForPost) - 1
        /\ \A i \in 1..Len(readyForPost') :
              i + 1 \in 1..Len(readyForPost) /\ readyForPost'[i] = readyForPost[i + 1]
    BY <1>4 DEF Post
  <2>2. ASSUME NEW i \in 1..Len(readyForPost') PROVE phase'[readyForPost'[i]] = "exited"
    <3>1. i + 1 # 1 /\ 1 \in 1..Len(readyForPost)
      BY <2>1
    <3>2. readyForPost[i + 1] # x /\ phase[readyForPost[i + 1]] = "exited"
      BY <2>1, <3>1 DEF JoinNeverBlocks
    <3>3. readyForPost[i + 1] \in Executives
      BY <2>1
    <3> QED
      BY <3>2, <3>3, <2>1, <1>4 DEF Post
  <2>3. ASSUME NEW i \in 1..Len(readyForPost'), NEW k \in 1..Len(readyForPost'),
               readyForPost'[i] = readyForPost'[k]
        PROVE  i = k
    <3>1. i + 1 = k + 1
      BY <2>1, <2>3 DEF JoinNeverBlocks
    <3> QED
      BY <3>1, <2>1
  <2> QED
    BY <2>2, <2>3 DEF JoinNeverBlocks
<1>5. ASSUME NEW x \in Executives, PushReady(x) PROVE JoinNeverBlocks'
  <2> DEFINE n == Len(readyForPost)
  <2>1. /\ n \in Nat
        /\ Len(readyForPost') = n + 1
        /\ readyForPost'[n + 1] = x
        /\ \A i \in 1..n : readyForPost'[i] = readyForPost[i] /\ readyForPost[i] \in Executives
        /\ phase[x] = "returned"
        /\ phase' = [phase EXCEPT ![x] = "exited"]
    BY <1>5 DEF PushReady
  <2>2. \A i \in 1..n : readyForPost[i] # x
    BY <2>1 DEF JoinNeverBlocks
  <2>3. \A i \in 1..(n + 1) : i = n + 1 \/ i \in 1..n
    BY <2>1
  <2>4. \A i \in 1..(n + 1) : phase'[readyForPost'[i]] = "exited"
    BY <2>1, <2>3 DEF JoinNeverBlocks
  <2>5. \A i, k \in 1..(n + 1) : readyForPost'[i] = readyForPost'[k] => i = k
    BY <2>1, <2>2, <2>3 DEF JoinNeverBlocks
  <2> QED
    BY <2>1, <2>4, <2>5 DEF JoinNeverBlocks
<1>6. ASSUME NEW canRun \in BOOLEAN,
             \/ PassQueue(canRun) \/ ChooseQueue(canRun) \/ Execute \/ PreExecuteThrows
             \/ EndRound \/ Wake \/ NextRound
      PROVE  JoinNeverBlocks'
  <2>1. UNCHANGED <<readyForPost, phase>>
    BY <1>6 DEF PassQueue, ChooseQueue, Execute, PreExecuteThrows, EndRound, Wake, NextRound
  <2> QED
    BY <2>1, Frames
<1> QED
  BY <1>2, <1>3, <1>4, <1>5, <1>6 DEF ExecutorNext

LEMMA StepMain ==
    ASSUME ExecutivesOK
    PROVE  Placed /\ ExecutorNext => MainPosition'
<1> SUFFICES ASSUME Placed, ExecutorNext PROVE MainPosition'
  OBVIOUS
<1> USE QueueFacts DEF Placed, ShapeOK
<1>1. ASSUME NEW x \in Executives, Add(x) PROVE MainPosition'
  BY <1>1 DEF Add, MainPosition
<1>2. ASSUME NEW canRun \in BOOLEAN, ChooseQueue(canRun) PROVE MainPosition'
  BY <1>2 DEF ChooseQueue, MainPosition, HasWaiting, VisitedQueue
<1>3. CASE EndRound
  <2>1. mainPC' \notin {"pre", "aborted"}
    BY <1>3 DEF EndRound
  <2>2. mainPC' = "finished" => NothingRunning /\ \A q \in QueueNames : ~ HasWaiting(q)
    BY <1>3 DEF EndRound
  <2>3. (NothingRunning /\ \A q \in QueueNames : ~ HasWaiting(q))' <=>
            NothingRunning /\ \A q \in QueueNames : ~ HasWaiting(q)
    BY <1>3 DEF EndRound, NothingRunning, HasWaiting
  <2>4. (mainPC = "finished" => NothingRunning /\ \A q \in QueueNames : ~ HasWaiting(q))'
    BY <2>2, <2>3
  <2> QED
    BY <2>1, <2>4 DEF MainPosition
<1>4. ASSUME NEW x \in Executives, StartThread(x) \/ Post(x) PROVE MainPosition'
  BY <1>4 DEF StartThread, Post, MainPosition
<1>5. ASSUME NEW x \in Executives, ThreadReturns(x) \/ PushReady(x) PROVE MainPosition'
  BY <1>5 DEF ThreadReturns, PushReady, MainPosition, NothingRunning, HasWaiting, VisitedQueue
<1> QED
  <2>1. ASSUME NEW canRun \in BOOLEAN,
               PassQueue(canRun) \/ Execute \/ Wake \/ NextRound
        PROVE  MainPosition'
    BY <2>1 DEF PassQueue, Execute, StartRound, Wake, NextRound, MainPosition
  <2>2. CASE PreExecuteThrows
    BY <2>2 DEF PreExecuteThrows, MainPosition, HasWaiting, VisitedQueue
  <2> QED
    BY <1>1, <1>2, <1>3, <1>4, <1>5, <2>1, <2>2 DEF ExecutorNext

(***************************************************************************)
(* Placed is inductive.                                                    *)
(***************************************************************************)
LEMMA StepPlaced ==
    ASSUME ExecutivesOK
    PROVE  Placed /\ [ExecutorNext]_executorVars => Placed'
<1>1. Placed /\ ExecutorNext => Placed'
  BY StepShape, StepQueues, StepRunning, StepReady, StepMain DEF Placed
<1>2. ASSUME Placed, UNCHANGED executorVars PROVE Placed'
  <2> USE <1>2 DEF executorVars, Placed
  <2>1. ShapeOK'
    BY DEF ShapeOK
  <2>2. MainPosition'
    BY DEF MainPosition, NothingRunning, HasWaiting, VisitedQueue
  <2> QED
    BY <2>1, <2>2, Frames
<1> QED
  BY <1>1, <1>2

-----------------------------------------------------------------------------

QueuedOnes == {x \in Executives : phase[x] \in {"queued"}}
LiveOnes == {x \in Executives : phase[x] \in {"running", "returned", "exited"}}
DoneOnes == {x \in Executives : phase[x] \in {"done"}}
Starting == IF mainPC \in {"pre", "aborted"} THEN 1 ELSE 0

LEMMA CountersMeaning ==
    CountersAgree <=> /\ pending + Starting = Cardinality(QueuedOnes)
                      /\ active = Starting + Cardinality(LiveOnes)
                      /\ done = Cardinality(DoneOnes)
BY DEF CountersAgree, QueuedOnes, LiveOnes, DoneOnes, Starting

LEMMA FiniteOnes ==
    ASSUME ExecutivesOK
    PROVE  /\ IsFiniteSet(QueuedOnes) /\ Cardinality(QueuedOnes) \in Nat
           /\ IsFiniteSet(LiveOnes) /\ Cardinality(LiveOnes) \in Nat
           /\ IsFiniteSet(DoneOnes) /\ Cardinality(DoneOnes) \in Nat
<1>1. \A S \in SUBSET Executives : IsFiniteSet(S) /\ Cardinality(S) \in Nat
  BY FS_Subset, FS_CardinalityType DEF ExecutivesOK
<1> QED
  BY <1>1 DEF QueuedOnes, LiveOnes, DoneOnes

LEMMA AddOne ==
    ASSUME NEW S, IsFiniteSet(S), NEW x, x \notin S
    PROVE  Cardinality(S \cup {x}) = Cardinality(S) + 1
BY FS_AddElement

LEMMA RemoveOne ==
    ASSUME NEW S, IsFiniteSet(S), NEW x \in S
    PROVE  Cardinality(S \ {x}) = Cardinality(S) - 1
BY FS_RemoveElement

LEMMA StepCounters ==
    ASSUME ExecutivesOK
    PROVE  Placed /\ CountersAgree /\ [ExecutorNext]_executorVars => CountersAgree'
<1> SUFFICES ASSUME Placed, CountersAgree, [ExecutorNext]_executorVars
             PROVE  /\ pending' + Starting' = Cardinality(QueuedOnes')
                    /\ active' = Starting' + Cardinality(LiveOnes')
                    /\ done' = Cardinality(DoneOnes')
  BY DEF CountersAgree, QueuedOnes, LiveOnes, DoneOnes, Starting
<1> USE FiniteOnes, CountersMeaning DEF Placed, ShapeOK
<1>1. ASSUME NEW x \in Executives, Add(x)
      PROVE  /\ pending' + Starting' = Cardinality(QueuedOnes')
             /\ active' = Starting' + Cardinality(LiveOnes')
             /\ done' = Cardinality(DoneOnes')
  <2>1. x \notin QueuedOnes /\ QueuedOnes' = QueuedOnes \cup {x}
    BY <1>1 DEF Add, QueuedOnes
  <2>2. LiveOnes' = LiveOnes /\ DoneOnes' = DoneOnes
    BY <1>1 DEF Add, LiveOnes, DoneOnes
  <2>3. Cardinality(QueuedOnes') = Cardinality(QueuedOnes) + 1
    BY <2>1, AddOne
  <2>4. pending' = pending + 1 /\ active' = active /\ done' = done /\ Starting' = Starting
    BY <1>1 DEF Add, Starting
  <2>5. Starting \in Int
    BY DEF Starting
  <2> QED
    BY <2>2, <2>3, <2>4, <2>5
<1>2. ASSUME NEW canRun \in BOOLEAN, ChooseQueue(canRun)
      PROVE  /\ pending' + Starting' = Cardinality(QueuedOnes')
             /\ active' = Starting' + Cardinality(LiveOnes')
             /\ done' = Cardinality(DoneOnes')
  <2>1. QueuedOnes' = QueuedOnes /\ LiveOnes' = LiveOnes /\ DoneOnes' = DoneOnes
    BY <1>2 DEF ChooseQueue, QueuedOnes, LiveOnes, DoneOnes
  <2>2. Starting = 0 /\ Starting' = 1
    BY <1>2 DEF ChooseQueue, Starting
  <2>3. pending' = pending - 1 /\ active' = active + 1 /\ done' = done
    BY <1>2 DEF ChooseQueue
  <2> QED
    BY <2>1, <2>2, <2>3
<1>3. ASSUME NEW x \in Executives, StartThread(x)
      PROVE  /\ pending' + Starting' = Cardinality(QueuedOnes')
             /\ active' = Starting' + Cardinality(LiveOnes')
             /\ done' = Cardinality(DoneOnes')
  <2>1. phase[x] = "queued"
    BY <1>3, QueueFacts DEF StartThread, MainPosition, HasWaiting, VisitedQueue, QueuesHoldTheQueued
  <2>2. x \in QueuedOnes /\ QueuedOnes' = QueuedOnes \ {x}
    BY <1>3, <2>1 DEF StartThread, QueuedOnes
  <2>3. x \notin LiveOnes /\ LiveOnes' = LiveOnes \cup {x}
    BY <1>3, <2>1 DEF StartThread, LiveOnes
  <2>4. DoneOnes' = DoneOnes
    BY <1>3, <2>1 DEF StartThread, DoneOnes
  <2>5. Cardinality(QueuedOnes') = Cardinality(QueuedOnes) - 1
    BY <2>2, RemoveOne
  <2>6. Cardinality(LiveOnes') = Cardinality(LiveOnes) + 1
    BY <2>3, AddOne
  <2>7. Starting = 1 /\ Starting' = 0
    BY <1>3 DEF StartThread, Starting
  <2>8. UNCHANGED <<pending, active, done>>
    BY <1>3 DEF StartThread
  <2> QED
    BY <2>4, <2>5, <2>6, <2>7, <2>8
<1>4. ASSUME NEW x \in Executives, Post(x)
      PROVE  /\ pending' + Starting' = Cardinality(QueuedOnes')
             /\ active' = Starting' + Cardinality(LiveOnes')
             /\ done' = Cardinality(DoneOnes')
  <2>1. x \in LiveOnes /\ LiveOnes' = LiveOnes \ {x}
    BY <1>4 DEF Post, LiveOnes
  <2>2. x \notin DoneOnes /\ DoneOnes' = DoneOnes \cup {x}
    BY <1>4 DEF Post, DoneOnes
  <2>3. QueuedOnes' = QueuedOnes
    BY <1>4 DEF Post, QueuedOnes
  <2>4. Cardinality(LiveOnes') = Cardinality(LiveOnes) - 1
    BY <2>1, RemoveOne
  <2>5. Cardinality(DoneOnes') = Cardinality(DoneOnes) + 1
    BY <2>2, AddOne
  <2>6. Starting' = 0 /\ Starting = 0
    BY <1>4 DEF Post, Starting
  <2>7. active' = active - 1 /\ done' = done + 1 /\ pending' = pending
    BY <1>4 DEF Post
  <2> QED
    BY <2>3, <2>4, <2>5, <2>6, <2>7
<1>5. ASSUME NEW x \in Executives, ThreadReturns(x) \/ PushReady(x)
      PROVE  /\ pending' + Starting' = Cardinality(QueuedOnes')
             /\ active' = Starting' + Cardinality(LiveOnes')
             /\ done' = Cardinality(DoneOnes')
  <2>1. QueuedOnes' = QueuedOnes /\ LiveOnes' = LiveOnes /\ DoneOnes' = DoneOnes
    BY <1>5 DEF ThreadReturns, PushReady, QueuedOnes, LiveOnes, DoneOnes
  <2>2. UNCHANGED <<mainPC, pending, active, done>>
    BY <1>5 DEF ThreadReturns, PushReady
  <2> QED
    BY <2>1, <2>2 DEF Starting
<1>6. ASSUME NEW canRun \in BOOLEAN,
             \/ PassQueue(canRun) \/ Execute \/ PreExecuteThrows
             \/ EndRound \/ Wake \/ NextRound \/ UNCHANGED executorVars
      PROVE  /\ pending' + Starting' = Cardinality(QueuedOnes')
             /\ active' = Starting' + Cardinality(LiveOnes')
             /\ done' = Cardinality(DoneOnes')
  <2>1. QueuedOnes' = QueuedOnes /\ LiveOnes' = LiveOnes /\ DoneOnes' = DoneOnes
    BY <1>6 DEF PassQueue, Execute, PreExecuteThrows, EndRound, Wake, NextRound, executorVars,
                QueuedOnes, LiveOnes, DoneOnes
  <2>2. UNCHANGED <<pending, active, done>>
    BY <1>6 DEF PassQueue, Execute, PreExecuteThrows, EndRound, Wake, NextRound, executorVars
  <2>3. Starting' = Starting
    BY <1>6 DEF PassQueue, Execute, StartRound, PreExecuteThrows, EndRound, Wake, NextRound,
                executorVars, Starting
  <2> QED
    BY <2>1, <2>2, <2>3
<1> QED
  BY <1>1, <1>2, <1>3, <1>4, <1>5, <1>6 DEF ExecutorNext

LEMMA InitCounters == ExecutorInit => CountersAgree
<1> SUFFICES ASSUME ExecutorInit PROVE CountersAgree
  OBVIOUS
<1>1. QueuedOnes = {} /\ LiveOnes = {} /\ DoneOnes = {}
  BY DEF ExecutorInit, QueuedOnes, LiveOnes, DoneOnes
<1>2. pending = 0 /\ active = 0 /\ done = 0 /\ Starting = 0
  BY DEF ExecutorInit, Starting
<1> QED
  BY <1>1, <1>2, CountersMeaning, FS_EmptySet

-----------------------------------------------------------------------------

LEMMA PlacedAndCounted ==
    ASSUME ExecutivesOK
    PROVE  ExecutorSpec => [](Placed /\ CountersAgree)
<1>1. ExecutorInit => Placed /\ CountersAgree
  BY InitPlaced, InitCounters
<1>2. Placed /\ CountersAgree /\ [ExecutorNext]_executorVars => (Placed /\ CountersAgree)'
  BY StepPlaced, StepCounters
<1> QED
  BY <1>1, <1>2, PTL DEF ExecutorSpec

(***************************************************************************)
(* The counters never run below zero, and everything else has its type,    *)
(* for any executives and queues.                                          *)
(***************************************************************************)
THEOREM TypeCorrect ==
    ASSUME ExecutivesOK
    PROVE  ExecutorSpec => []ExecutorTypeOK
<1>1. Placed /\ CountersAgree => ExecutorTypeOK
  <2> SUFFICES ASSUME Placed, CountersAgree PROVE ExecutorTypeOK
    OBVIOUS
  <2>1. active \in Nat /\ done \in Nat
    BY FiniteOnes, CountersMeaning DEF Starting
  <2>2. pending \in Nat
    <3>1. CASE Starting = 0
      BY <3>1, FiniteOnes, CountersMeaning DEF Placed, ShapeOK
    <3>2. CASE mainPC \in {"pre", "aborted"}
      <4>1. PICK x \in Executives : phase[x] = "queued"
        <5>1. VisitedQueue \in QueueNames /\ Len(queues[VisitedQueue]) \in Nat \ {0}
          BY <3>2, QueueFacts DEF Placed, ShapeOK, MainPosition, HasWaiting, VisitedQueue
        <5>2. queues[VisitedQueue][1] \in Executives /\ 1 \in 1..Len(queues[VisitedQueue])
          BY <5>1 DEF Placed, ShapeOK
        <5> QED
          BY <5>1, <5>2 DEF Placed, QueuesHoldTheQueued
      <4>2. Cardinality(QueuedOnes) # 0
        BY <4>1, FiniteOnes, FS_EmptySet DEF QueuedOnes
      <4> QED
        BY <3>2, <4>2, FiniteOnes, CountersMeaning DEF Placed, ShapeOK, Starting
    <3> QED
      BY <3>1, <3>2 DEF Starting
  <2> QED
    BY <2>1, <2>2 DEF ExecutorTypeOK, Placed, ShapeOK
<1> QED
  BY <1>1, PlacedAndCounted, PTL

(***************************************************************************)
(* Never two live threads of one queue, whatever the executives are.       *)
(***************************************************************************)
THEOREM QueuesAreExclusive ==
    ASSUME ExecutivesOK
    PROVE  ExecutorSpec => []OneThreadPerQueue
<1>1. RunningIsLive => OneThreadPerQueue
  BY DEF RunningIsLive, OneThreadPerQueue
<1> QED
  BY <1>1, PlacedAndCounted, PTL DEF Placed

(***************************************************************************)
(* Joining a thread under the mutex never waits for that thread.           *)
(***************************************************************************)
THEOREM JoinIsSafe ==
    ASSUME ExecutivesOK
    PROVE  ExecutorSpec => []JoinNeverBlocks
BY PlacedAndCounted, PTL DEF Placed

(***************************************************************************)
(* The public counters add up.                                             *)
(***************************************************************************)
THEOREM CountersAreRight ==
    ASSUME ExecutivesOK
    PROVE  ExecutorSpec => []CountersAgree
BY PlacedAndCounted, PTL

LEMMA FinishedWhenDone ==
    ASSUME ExecutivesOK
    PROVE  Placed => ReturnsWhenAllDone
<1> SUFFICES ASSUME Placed, mainPC = "finished", NEW x \in Executives
             PROVE  phase[x] \in {"unadded", "done"}
  BY DEF ReturnsWhenAllDone
<1>1. queues[QueueName[x]] = <<>> /\ running[QueueName[x]] # x
  BY QueueFacts DEF Placed, MainPosition, NothingRunning, HasWaiting, ExecutivesOK
<1>2. phase[x] # "queued"
  BY <1>1 DEF Placed, QueuesHoldTheQueued
<1>3. ~ Live(x)
  BY <1>1 DEF Placed, RunningIsLive
<1> QED
  BY <1>2, <1>3 DEF Placed, ShapeOK, Phases, Live

(***************************************************************************)
(* execute() does not return before every executive has had its post.      *)
(***************************************************************************)
THEOREM ReturnsLast ==
    ASSUME ExecutivesOK
    PROVE  ExecutorSpec => []ReturnsWhenAllDone
BY FinishedWhenDone, PlacedAndCounted, PTL

(***************************************************************************)
(* Executives of a queue start in the order in which they were added.      *)
(***************************************************************************)
THEOREM QueuesAreFIFO ==
    ASSUME ExecutivesOK
    PROVE  ExecutorSpec => StartedInOrder
<1> DEFINE InOrder ==
        \A x \in Executives :
            phase[x] = "queued" /\ phase'[x] # "queued" =>
                queues[QueueName[x]] = <<x>> \o queues'[QueueName[x]]
<1>1. Placed /\ [ExecutorNext]_executorVars => [InOrder]_executorVars
  <2> SUFFICES ASSUME Placed, ExecutorNext, NEW y \in Executives,
                      phase[y] = "queued", phase'[y] # "queued"
               PROVE  queues[QueueName[y]] = <<y>> \o queues'[QueueName[y]]
    OBVIOUS
  <2>1. PICK x \in Executives : StartThread(x)
    BY DEF Placed, ShapeOK, ExecutorNext, Add, Execute, PassQueue, ChooseQueue, PreExecuteThrows,
           EndRound, Wake, Post, NextRound, ThreadReturns, PushReady
  <2>2. y = x
    BY <2>1 DEF StartThread, Placed, ShapeOK
  <2> DEFINE v == VisitedQueue
  <2>3. /\ v \in QueueNames
        /\ queues[v] \in Seq(Executives)
        /\ queues[v] # <<>>
    BY <2>1, QueueFacts DEF StartThread, Placed, ShapeOK, MainPosition, HasWaiting, VisitedQueue
  <2>4. x = queues[v][1] /\ 1 \in 1..Len(queues[v])
    BY <2>1, <2>3 DEF StartThread
  <2>5. QueueName[x] = v
    BY <2>3, <2>4 DEF Placed, QueuesHoldTheQueued
  <2>6. queues'[v] = Tail(queues[v])
    BY <2>1, <2>3 DEF StartThread, Placed, ShapeOK
  <2>7. queues[v] = <<x>> \o Tail(queues[v])
    BY <2>3, <2>4
  <2> QED
    BY <2>2, <2>5, <2>6, <2>7
<1> QED
  BY <1>1, PlacedAndCounted, PTL DEF StartedInOrder, ExecutorSpec
===============================================================================
