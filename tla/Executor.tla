------------------------------- MODULE Executor -------------------------------
(***************************************************************************)
(* paludis/util/executor.cc: a set of executives, each belonging to a      *)
(* named queue, run on threads so that at most one executive of a queue is *)
(* running at any time.                                                    *)
(*                                                                         *)
(* One main thread runs Executor::execute().  It holds the mutex except    *)
(* inside condition.wait_for(), and calls can_run(),                       *)
(* pre_execute_exclusive() and post_execute_exclusive() of the executives  *)
(* while it holds it.  Every running executive has a thread of its own,    *)
(* which runs execute_threaded() without the mutex and then takes the      *)
(* mutex to put itself on ready_for_post.                                  *)
(*                                                                         *)
(* What an executive does in its callbacks is left open here: can_run()    *)
(* may answer anything, and pre_execute_exclusive() may throw.  The        *)
(* modules that compose the executor with executives (ExecuteJobs,         *)
(* SyncRepositories) conjoin their effects to the actions below.           *)
(***************************************************************************)
EXTENDS Naturals, Sequences, FiniteSets

CONSTANTS
    Executives,   \* the executives handed to Executor::add()
    QueueOrder,   \* the queue names, in the iteration order of the std::map
    QueueName,    \* queue_name() of every executive
    NoExecutive   \* not an executive

QueueNames == {QueueOrder[i] : i \in 1..Len(QueueOrder)}

(* What the modules that instantiate this one see to (and prove).          *)
ExecutivesOK ==
    /\ IsFiniteSet(Executives)
    /\ QueueOrder \in Seq(QueueNames)
    /\ \A i, k \in 1..Len(QueueOrder) : QueueOrder[i] = QueueOrder[k] => i = k
    /\ QueueName \in [Executives -> QueueNames]
    /\ NoExecutive \notin Executives

VARIABLES
    queues,        \* the executives waiting in every queue, first added first
    running,       \* the executive running for a queue, or NoExecutive
    readyForPost,  \* executives whose thread is over and that need their post
    pending,       \* the three public counters
    active,
    done,
    any,           \* did this round of execute() start something?
    visiting,      \* the position in QueueOrder that the round has reached
    mainPC,        \* where the thread that calls add() and execute() is
    phase          \* how far every executive has come

executorVars == <<queues, running, readyForPost, pending, active, done,
                  any, visiting, mainPC, phase>>

MainPCs == {"add", "scan", "pre", "waiting", "drain",
            "finished",  \* execute() returned
            "stuck",     \* "None of our executives can start, but queues are not empty"
            "aborted"}   \* pre_execute_exclusive() threw

Phases == {"unadded", "queued",
           "running",    \* its thread is inside execute_threaded()
           "returned",   \* its thread needs the mutex to reach ready_for_post
           "exited",     \* its thread is over
           "done"}       \* joined, post_execute_exclusive() called

(***************************************************************************)
(* A thread other than main can lock the mutex only while main waits.      *)
(***************************************************************************)
MutexFree == mainPC = "waiting"

ExecutorInit ==
    /\ queues = [q \in QueueNames |-> <<>>]
    /\ running = [q \in QueueNames |-> NoExecutive]
    /\ readyForPost = <<>>
    /\ pending = 0
    /\ active = 0
    /\ done = 0
    /\ any = FALSE
    /\ visiting = 1
    /\ mainPC = "add"
    /\ phase = [x \in Executives |-> "unadded"]

Add(x) ==
    /\ mainPC = "add"
    /\ phase[x] = "unadded"
    /\ pending' = pending + 1
    /\ queues' = [queues EXCEPT ![QueueName[x]] = Append(@, x)]
    /\ phase' = [phase EXCEPT ![x] = "queued"]
    /\ UNCHANGED <<running, readyForPost, active, done, any, visiting, mainPC>>

(***************************************************************************)
(* The while loop of execute() starts another round.                       *)
(***************************************************************************)
StartRound ==
    /\ mainPC' = "scan"
    /\ visiting' = 1
    /\ any' = FALSE

Execute ==
    /\ mainPC = "add"
    /\ StartRound
    /\ UNCHANGED <<queues, running, readyForPost, pending, active, done, phase>>

VisitedQueue == QueueOrder[visiting]

HasWaiting(q) == queues[q] # <<>>

(***************************************************************************)
(* The round looks at one queue.  An empty queue has been erased from the  *)
(* map; a queue that is running or whose first executive cannot run is     *)
(* passed over.                                                            *)
(***************************************************************************)
PassQueue(canRun) ==
    /\ mainPC = "scan"
    /\ visiting <= Len(QueueOrder)
    /\ \/ ~ HasWaiting(VisitedQueue)
       \/ running[VisitedQueue] # NoExecutive
       \/ ~ canRun
    /\ visiting' = visiting + 1
    /\ UNCHANGED <<queues, running, readyForPost, pending, active, done, any,
                   mainPC, phase>>

(* Mutant of ChooseQueue: the running map is not consulted.                *)
ChooseBusyQueue(canRun) ==
    /\ mainPC = "scan"
    /\ visiting <= Len(QueueOrder)
    /\ HasWaiting(VisitedQueue)
    /\ canRun
    /\ mainPC' = "pre"
    /\ active' = active + 1
    /\ pending' = pending - 1
    /\ UNCHANGED <<queues, running, readyForPost, done, any, visiting, phase>>

ChooseQueue(canRun) ==
    /\ mainPC = "scan"
    /\ visiting <= Len(QueueOrder)
    /\ HasWaiting(VisitedQueue)
    /\ running[VisitedQueue] = NoExecutive
    /\ canRun
    /\ mainPC' = "pre"
    /\ active' = active + 1
    /\ pending' = pending - 1
    /\ UNCHANGED <<queues, running, readyForPost, done, any, visiting, phase>>

(***************************************************************************)
(* pre_execute_exclusive() of the first executive x of the queue returns,  *)
(* and its thread is started.                                              *)
(***************************************************************************)
StartThread(x) ==
    /\ mainPC = "pre"
    /\ x = Head(queues[VisitedQueue])
    /\ running' = [running EXCEPT ![VisitedQueue] = x]
    /\ queues' = [queues EXCEPT ![VisitedQueue] = Tail(@)]
    /\ phase' = [phase EXCEPT ![x] = "running"]
    /\ any' = TRUE
    /\ visiting' = visiting + 1
    /\ mainPC' = "scan"
    /\ UNCHANGED <<readyForPost, pending, active, done>>

PreExecuteThrows ==
    /\ mainPC = "pre"
    /\ mainPC' = "aborted"
    /\ UNCHANGED <<queues, running, readyForPost, pending, active, done, any,
                   visiting, phase>>

(* Mutant of NothingRunning: an empty round is taken for the last.         *)
NothingStarted == TRUE

NothingRunning == \A q \in QueueNames : running[q] = NoExecutive

EndRound ==
    /\ mainPC = "scan"
    /\ visiting > Len(QueueOrder)
    /\ mainPC' = IF any \/ ~ NothingRunning THEN "waiting"
                 ELSE IF \E q \in QueueNames : HasWaiting(q) THEN "stuck"
                 ELSE "finished"
    /\ UNCHANGED <<queues, running, readyForPost, pending, active, done, any,
                   visiting, phase>>

(***************************************************************************)
(* wait_for() returns: on a notification, on the timeout, or spuriously,   *)
(* so it can return at any moment.                                         *)
(***************************************************************************)
Wake ==
    /\ mainPC = "waiting"
    /\ mainPC' = "drain"
    /\ UNCHANGED <<queues, running, readyForPost, pending, active, done, any,
                   visiting, phase>>

(***************************************************************************)
(* The first executive x of ready_for_post: its thread is joined, it       *)
(* leaves the running map, and its post_execute_exclusive() is called.     *)
(***************************************************************************)
Post(x) ==
    /\ mainPC = "drain"
    /\ readyForPost # <<>>
    /\ x = Head(readyForPost)
    /\ phase[x] = "exited"
    /\ active' = active - 1
    /\ done' = done + 1
    /\ running' = [running EXCEPT ![QueueName[x]] = NoExecutive]
    /\ readyForPost' = Tail(readyForPost)
    /\ phase' = [phase EXCEPT ![x] = "done"]
    /\ UNCHANGED <<queues, pending, any, visiting, mainPC>>

NextRound ==
    /\ mainPC = "drain"
    /\ readyForPost = <<>>
    /\ StartRound
    /\ UNCHANGED <<queues, running, readyForPost, pending, active, done, phase>>

(***************************************************************************)
(* Executor::_one: the thread of x.                                        *)
(***************************************************************************)
ThreadReturns(x) ==
    /\ phase[x] = "running"
    /\ phase' = [phase EXCEPT ![x] = "returned"]
    /\ UNCHANGED <<queues, running, readyForPost, pending, active, done, any,
                   visiting, mainPC>>

(* Mutant of PushReady: ready_for_post is filled before the thread is over.*)
PushEarly(x) ==
    /\ phase[x] = "running"
    /\ MutexFree
    /\ readyForPost' = Append(readyForPost, x)
    /\ phase' = [phase EXCEPT ![x] = "returned"]
    /\ UNCHANGED <<queues, running, pending, active, done, any, visiting, mainPC>>

PushReady(x) ==
    /\ phase[x] = "returned"
    /\ MutexFree
    /\ readyForPost' = Append(readyForPost, x)
    /\ phase' = [phase EXCEPT ![x] = "exited"]
    /\ UNCHANGED <<queues, running, pending, active, done, any, visiting, mainPC>>

ExecutorNext ==
    \/ \E x \in Executives : Add(x)
    \/ Execute
    \/ \E canRun \in BOOLEAN : PassQueue(canRun) \/ ChooseQueue(canRun)
    \/ \E x \in Executives : StartThread(x)
    \/ PreExecuteThrows
    \/ EndRound
    \/ Wake
    \/ \E x \in Executives : Post(x)
    \/ NextRound
    \/ \E x \in Executives : ThreadReturns(x) \/ PushReady(x)

ExecutorSpec == ExecutorInit /\ [][ExecutorNext]_executorVars

-----------------------------------------------------------------------------

ExecutorTypeOK ==
    /\ queues \in [QueueNames -> Seq(Executives)]
    /\ running \in [QueueNames -> Executives \cup {NoExecutive}]
    /\ readyForPost \in Seq(Executives)
    /\ pending \in Nat
    /\ active \in Nat
    /\ done \in Nat
    /\ any \in BOOLEAN
    /\ visiting \in 1..(Len(QueueOrder) + 1)
    /\ mainPC \in MainPCs
    /\ phase \in [Executives -> Phases]

Live(x) == phase[x] \in {"running", "returned", "exited"}

(***************************************************************************)
(* No two threads of one queue are ever alive together: this is what lets  *)
(* the jobs of the "execute" queue assume that nothing else is installing. *)
(***************************************************************************)
OneThreadPerQueue ==
    \A x, y \in Executives :
        Live(x) /\ Live(y) /\ QueueName[x] = QueueName[y] => x = y

(***************************************************************************)
(* The map `running`, which decides whether a queue may start another      *)
(* executive, names exactly the executives whose thread is alive.          *)
(***************************************************************************)
RunningIsLive ==
    \A x \in Executives : Live(x) <=> running[QueueName[x]] = x

(***************************************************************************)
(* Main joins a thread while it holds the mutex that a thread needs to     *)
(* finish.  That cannot deadlock: whatever is on ready_for_post has        *)
(* already given the mutex back, and is on it once only.                   *)
(***************************************************************************)
JoinNeverBlocks ==
    /\ \A i \in 1..Len(readyForPost) : phase[readyForPost[i]] = "exited"
    /\ \A i, k \in 1..Len(readyForPost) :
           readyForPost[i] = readyForPost[k] => i = k

(***************************************************************************)
(* The counters the front ends display add up to the executives' real      *)
(* whereabouts.  (While pre_execute_exclusive() runs, its executive counts *)
(* as active although its thread does not exist yet.)                      *)
(***************************************************************************)
CountersAgree ==
    LET In(ps) == {x \in Executives : phase[x] \in ps}
        starting == IF mainPC \in {"pre", "aborted"} THEN 1 ELSE 0
    IN  /\ pending + starting = Cardinality(In({"queued"}))
        /\ active = starting + Cardinality(In({"running", "returned", "exited"}))
        /\ done = Cardinality(In({"done"}))

(***************************************************************************)
(* execute() returns only when every executive that was added has had its  *)
(* post_execute_exclusive().                                               *)
(***************************************************************************)
ReturnsWhenAllDone ==
    mainPC = "finished" => \A x \in Executives : phase[x] \in {"unadded", "done"}

(***************************************************************************)
(* Executives of one queue are started in the order in which they were     *)
(* added to it: a step that starts x leaves every executive that was       *)
(* behind x still waiting, and in the same order.                          *)
(***************************************************************************)
StartedInOrder ==
    [][\A x \in Executives :
          phase[x] = "queued" /\ phase'[x] # "queued" =>
              queues[QueueName[x]] = <<x>> \o queues'[QueueName[x]]]_executorVars
===============================================================================
