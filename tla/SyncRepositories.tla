--------------------------- MODULE SyncRepositories ---------------------------
(***************************************************************************)
(* src/clients/cave/cmd_sync.cc: `cave sync` hands a SyncExecutive for     *)
(* every repository to an Executor, with a queue for every host that       *)
(* repositories are synced from, runs hooks around all of them and around  *)
(* each, and turns what became of them into an exit status.                *)
(***************************************************************************)
EXTENDS Naturals, Sequences, FiniteSets

CONSTANTS
    N,          \* the number of repositories to be synced
    Host,       \* the sync_host of every repository, "" if it has none
    HostOrder,  \* the hosts, in the iteration order of the std::map of queues
    Sequential  \* --sequential

Repositories == 1..N
Hosts == {HostOrder[i] : i \in 1..Len(HostOrder)}

ASSUME SyncAssumption ==
    /\ N \in Nat
    /\ HostOrder \in Seq(STRING)
    /\ \A i, k \in 1..Len(HostOrder) : HostOrder[i] = HostOrder[k] => i = k
    /\ Host \in [Repositories -> Hosts]
    /\ Sequential \in BOOLEAN

(***************************************************************************)
(* One queue if there is only one repository, or if the user says so.      *)
(***************************************************************************)
OneQueue == Sequential \/ N = 1
QueueOrder == IF OneQueue THEN <<"">> ELSE HostOrder

(* Mutant of QueueName: the queues are filled evenly.                      *)
BalancedQueues ==
    [r \in Repositories |-> IF OneQueue THEN "" ELSE HostOrder[1 + ((r \div 2) % Len(HostOrder))]]

QueueName == [r \in Repositories |-> IF OneQueue THEN "" ELSE Host[r]]

NoRepository == 0

VARIABLES
    queues, running, readyForPost, pending, active, done, any, visiting, mainPC, phase,
    abort, success, skipped,  \* members of every SyncExecutive
    concluded,    \* the repositories whose output manager has no more to come
    outcomes,     \* how Repository::sync() ended, for every one that was called
    hooks,        \* the hooks that were run for every repository, and their results
    syncPC,       \* where SyncCommand::run is
    retcode

executorVars == <<queues, running, readyForPost, pending, active, done,
                  any, visiting, mainPC, phase>>
flagVars == <<abort, success, skipped, concluded, outcomes, hooks>>
commandVars == <<syncPC, retcode>>
vars == <<executorVars, flagVars, commandVars>>

Ex == INSTANCE Executor WITH Executives <- Repositories, NoExecutive <- NoRepository

(***************************************************************************)
(* Repository::sync() returns true or false, or throws a SyncFailedError   *)
(* or something else.                                                      *)
(***************************************************************************)
Outcomes == {"synced", "not_needed", "sync_failed", "exception"}
Good == {"synced", "not_needed"}

Init ==
    /\ Ex!ExecutorInit
    /\ abort = [r \in Repositories |-> FALSE]
    /\ success = [r \in Repositories |-> FALSE]
    /\ skipped = [r \in Repositories |-> FALSE]
    /\ concluded = {}
    /\ outcomes = [r \in Repositories |-> "none"]
    /\ hooks = [r \in Repositories |-> <<>>]
    /\ syncPC = "sync_all_pre"
    /\ retcode = 0

-----------------------------------------------------------------------------

SyncAllPre(ok) ==
    /\ syncPC = "sync_all_pre"
    /\ syncPC' = IF ok THEN "syncing" ELSE "thrown"
    /\ UNCHANGED <<executorVars, flagVars, retcode>>

AddRepository ==
    /\ syncPC = "syncing"
    /\ \E r \in Repositories :
          /\ \A k \in Repositories : k < r => phase[k] # "unadded"
          /\ Ex!Add(r)
    /\ UNCHANGED <<flagVars, commandVars>>

Execute ==
    /\ syncPC = "syncing"
    /\ \A r \in Repositories : phase[r] # "unadded"
    /\ Ex!Execute
    /\ UNCHANGED <<flagVars, commandVars>>

(***************************************************************************)
(* can_run() is always true.                                               *)
(***************************************************************************)
VisitQueue ==
    /\ Ex!PassQueue(TRUE) \/ Ex!ChooseQueue(TRUE)
    /\ UNCHANGED <<flagVars, commandVars>>

RunHook(r, name, ok) == hooks' = [hooks EXCEPT ![r] = Append(@, [hook |-> name, ok |-> ok])]

(***************************************************************************)
(* pre_execute_exclusive(): the hook may ask to abort, and creating the    *)
(* output manager may fail, but neither leaves it as an exception.         *)
(***************************************************************************)
PreExecute(r, ok, prepared) ==
    /\ Ex!StartThread(r)
    /\ RunHook(r, "sync_pre", ok)
    /\ abort' = [abort EXCEPT ![r] = ~ (ok /\ prepared)]
    /\ UNCHANGED <<success, skipped, concluded, outcomes, commandVars>>

EndRoundOrWake ==
    /\ Ex!EndRound \/ Ex!Wake \/ Ex!NextRound
    /\ UNCHANGED <<flagVars, commandVars>>

(***************************************************************************)
(* execute_threaded()                                                      *)
(***************************************************************************)
ReturnAtOnce(r) ==
    /\ abort[r]
    /\ Ex!ThreadReturns(r)
    /\ UNCHANGED <<flagVars, commandVars>>

(* Mutant of Sync: a sync that threw a SyncFailedError is a success.       *)
SyncRegardless(r, outcome) ==
    /\ ~ abort[r]
    /\ Ex!ThreadReturns(r)
    /\ outcomes' = [outcomes EXCEPT ![r] = outcome]
    /\ skipped' = [skipped EXCEPT ![r] = (outcome = "not_needed")]
    /\ success' = [success EXCEPT ![r] = (outcome # "exception")]
    /\ abort' = [abort EXCEPT ![r] = (outcome = "exception")]
    /\ UNCHANGED <<concluded, hooks, commandVars>>

Sync(r, outcome) ==
    /\ ~ abort[r]
    /\ Ex!ThreadReturns(r)
    /\ outcomes' = [outcomes EXCEPT ![r] = outcome]
    /\ skipped' = [skipped EXCEPT ![r] = (outcome = "not_needed")]
    /\ success' = [success EXCEPT ![r] = (outcome \in Good)]
    /\ abort' = [abort EXCEPT ![r] = (outcome = "exception")]
    /\ UNCHANGED <<concluded, hooks, commandVars>>

PushReady(r) == Ex!PushReady(r) /\ UNCHANGED <<flagVars, commandVars>>

(***************************************************************************)
(* post_execute_exclusive(): a sync that was aborted has no second hook;   *)
(* a second hook that fails makes a success a failure, and keeps the       *)
(* output manager from being told that there is nothing more to come.      *)
(***************************************************************************)
PostAborted(r) ==
    /\ abort[r]
    /\ Ex!Post(r)
    /\ concluded' = concluded \cup {r}
    /\ UNCHANGED <<abort, success, skipped, outcomes, hooks, commandVars>>

(* Mutant of PostWithHook: a sync that failed has the hook of one that did not. *)
PostSameHook(r, ok) ==
    /\ ~ abort[r]
    /\ Ex!Post(r)
    /\ RunHook(r, "sync_post", ok)
    /\ concluded' = IF ok THEN concluded \cup {r} ELSE concluded
    /\ abort' = [abort EXCEPT ![r] = ~ ok]
    /\ success' = [success EXCEPT ![r] = @ /\ ok]
    /\ UNCHANGED <<skipped, outcomes, commandVars>>

PostWithHook(r, ok) ==
    /\ ~ abort[r]
    /\ Ex!Post(r)
    /\ RunHook(r, IF success[r] THEN "sync_post" ELSE "sync_fail", ok)
    /\ concluded' = IF ok THEN concluded \cup {r} ELSE concluded
    /\ abort' = [abort EXCEPT ![r] = ~ ok]
    /\ success' = [success EXCEPT ![r] = @ /\ ok]
    /\ UNCHANGED <<skipped, outcomes, commandVars>>

(***************************************************************************)
(* The "Sync results" of sync_these(), and the hook after everything.      *)
(***************************************************************************)
SyncResults ==
    /\ syncPC = "syncing"
    /\ mainPC = "finished"
    /\ retcode' = IF \A r \in Repositories : success[r] THEN 0 ELSE 1
    /\ syncPC' = "sync_all_post"
    /\ UNCHANGED <<executorVars, flagVars>>

SyncAllPost(ok) ==
    /\ syncPC = "sync_all_post"
    /\ syncPC' = IF ok THEN "returned" ELSE "thrown"
    /\ UNCHANGED <<executorVars, flagVars, retcode>>

Main ==
    \/ \E ok \in BOOLEAN : SyncAllPre(ok) \/ SyncAllPost(ok)
    \/ AddRepository \/ Execute \/ VisitQueue \/ EndRoundOrWake \/ SyncResults
    \/ \E r \in Repositories, ok, prepared \in BOOLEAN : PreExecute(r, ok, prepared)
    \/ \E r \in Repositories : PostAborted(r) \/ \E ok \in BOOLEAN : PostWithHook(r, ok)

Thread(r) == ReturnAtOnce(r) \/ \E outcome \in Outcomes : Sync(r, outcome)

Next == Main \/ \E r \in Repositories : Thread(r) \/ PushReady(r)

(***************************************************************************)
(* As in ExecuteJobs: wait_for() has a timeout, so main is never blocked;  *)
(* a sync ends; and main gives the mutex up in every round.                *)
(***************************************************************************)
Fairness ==
    /\ WF_vars(Main)
    /\ \A r \in Repositories : WF_vars(Thread(r)) /\ SF_vars(PushReady(r))

Spec == Init /\ [][Next]_vars
FairSpec == Spec /\ Fairness

-----------------------------------------------------------------------------

Over == syncPC \in {"returned", "thrown"}

(***************************************************************************)
(* The exit status is 0 exactly if every repository was synced, or needed  *)
(* no syncing, and none of its hooks failed: a repository that an error, a *)
(* hook or an exception has stopped is never reported as a success.        *)
(***************************************************************************)
ExitStatusHonest ==
    syncPC = "returned" =>
        (retcode = 0 <=>
            \A r \in Repositories :
                /\ outcomes[r] \in Good
                /\ \A i \in 1..Len(hooks[r]) : hooks[r][i].ok)

(***************************************************************************)
(* Hooks come in pairs: a repository whose sync was begun, which it is     *)
(* not if its first hook failed, and did not end in an unexpected          *)
(* exception, has had the second hook that fits how its sync ended when    *)
(* its executive is done; all others have had none.                        *)
(***************************************************************************)
SecondHook(r) == IF outcomes[r] \in Good THEN "sync_post" ELSE "sync_fail"

HooksMatch ==
    \A r \in Repositories :
        phase[r] = "done" =>
            /\ hooks[r][1].hook = "sync_pre"
            /\ outcomes[r] # "none" => hooks[r][1].ok
            /\ Len(hooks[r]) = 2 <=> outcomes[r] \notin {"none", "exception"}
            /\ Len(hooks[r]) = 2 => hooks[r][2].hook = SecondHook(r)

(***************************************************************************)
(* Two repositories are never synced from one host at the same time.       *)
(***************************************************************************)
OneSyncPerHost ==
    \A r, k \in Repositories :
        phase[r] = "running" /\ phase[k] = "running" /\ Host[r] = Host[k] => r = k

(***************************************************************************)
(* The command ends: either the first hook stopped it, or every repository *)
(* has been dealt with.                                                    *)
(***************************************************************************)
SyncEnds ==
    <>(Over /\ ((\A r \in Repositories : phase[r] = "unadded")
                \/ (\A r \in Repositories : phase[r] = "done")))
===============================================================================
