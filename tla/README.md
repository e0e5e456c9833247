# Paludis: TLA+ models and proofs

Paludis is a package manager. Its command line client, `cave`, resolves what the
user asks for into an ordered *job list* (fetch, install and uninstall jobs), runs
that list, and records what it did: in the installed packages database, in the
`world` file, and in a *resume file* from which an interrupted run can go on.

This directory models the parts of it where order, concurrency, failure and
restarts decide whether it is correct. Every definition is translated from the
source; `PROJECT.json` gives the file and the lines of each.

## Inventory

| Part | State it keeps | Operations | What makes it correct |
| --- | --- | --- | --- |
| **Executor** (`paludis/util/executor.cc`) | queues of executives, the running threads, `ready_for_post`, three counters, one mutex | `add`, `execute` (scan, start, wait, join, post), thread body `_one` | one thread per queue; FIFO; join cannot deadlock; returns when all is done |
| **Job list execution** (`src/clients/cave/cmd_execute_resolution.cc`) | state of every job, return code, options, resume file | `can_run`, `pre_execute_exclusive`, `execute_threaded`, `post_execute_exclusive`, `write_resume_file` | no job before what it needs; failures stop what depends on them; right exit status; never stuck; file current |
| **Resume** (`cmd_execute_resolution.cc`, `cmd_resume.cc`, `resume_data.cc`) | the resume file, across processes | `execute_resolution`, crash, `fix_lists`, `perform_resolution` | nothing done twice, nothing claimed that was not done, world updated last |
| **Updating world** (`cmd_execute_resolution.cc`, `cmd_update_world.cc`) | the world set, the installed packages | `update_world`, `execute_update_world`, `--remove`, `--if-nothing-left` | world becomes what was asked; nothing else enters or leaves it |
| **World file and set files** (`environments/paludis/world.cc`, `set_file.cc`) | the file, cached lines, a mutex per process | add, remove, rewrite, package move | each update takes effect once; no entry lost |
| **Syncing** (`cmd_sync.cc`) | executives per repository, return code | hooks, `sync_these` over the executor | every repository is synced, skipped or failed; code and summary agree |
| **Resolver: decider** (`paludis/resolver/decider.cc`, `resolve_common.cc`) | resolutions, constraints, decisions, pending restarts | resolve loop, add constraint, decide, restart with preset | what is decided meets every constraint, whatever order they come in; nothing that breaks is forgotten; restarts end (limit 9000) |
| **Resolver: orderer and NAG** (`orderer.cc`, `nag.cc`, `strongly_connected_component.cc`) | graph of changes, job list, requirements | cycle breaking, `_schedule`, `populate_requirements` | no internal error, whatever the cycles (one exception, below); what is needed to build comes first; each job requires the earlier jobs it should, and no others |
| **Merger, FSMerger, unmerger** (`merger.cc`, `fs_merger.cc`, `unmerger.cc`, `ndbam*.cc`) | the file system, the contents record, merged ids | check, merge of dirs/files/symlinks, config protection, unmerge | the user's files survive; what is installed is complete and recorded; no file is missing while it is replaced |
| **Output managers** (`ipc_output_manager.cc`, tee, buffer, file, command, forward-at-finish) | pipes between a child and `cave`, the buffer of the screen, the log file | `PING`, `CREATE`, `SUCCEEDED`, `IGNORE_SUCCEEDED`, `FINISHED`; copying, `flush`, `nothing_more_to_come` | no output lost or out of order; the log is kept if it is of use; the job ends however its process does |
| **Concurrency helpers** (`util/deferred_construction_ptr.hh`, `pool`, `process.cc`, `thread_pool`) | lazily built objects, child processes, pipes | first use, fork, read/write loops | built once; pipes drained; no wait for ever |
| **Caches and name database** (`repository_name_cache.cc`, `ndbam.cc`, e metadata caches) | on-disk name to category cache | load, regenerate, add, remove | the cache agrees with the tree or is not used |
| **Repository formats** (`repositories/e`, accounts, unpackaged, ...) | ebuild and exheres metadata | parse, mask, fetch, install phases | format rules of the EAPIs |
| **Version specs, dep specs, selections** (`version_spec.cc`, `*dep_spec*.cc`, `selection.cc`, `generator.cc`, `filter.cc`) | none | compare, parse, match, combine | order is total, selections agree with their definition |
| **Environments and configuration** (`environments/*`, `config_file.cc`, `paludislike_options_conf.cc`) | configuration | load, query, mask, options | precedence of configuration lines |
| **Hooks** (`hooker.cc`, `python_hooks.cc`) | list of hooks and their dependencies | order, run, combine results | run in dependency order; abort is honoured |
| **cave's other commands and formatting** | none | show, search, print-... | wording |

### How the parts interact

`cave resolve` runs the decider and the orderer in its own process. The decider
keeps a list of resolutions, one for each package that matters; targets,
dependencies, dependents and purges add constraints to them, and a constraint that a
decision does not meet makes the whole resolution start over with a preset. The
orderer turns decisions and the reasons of constraints into a graph and that into the
job list. `cave resolve` hands the job list, serialised, to `cave execute-resolution`. That process builds one
`ExecuteJobExecutive` for each job and adds them, in list order, to an `Executor`.
The executor's *main* thread calls `can_run`, `pre_execute_exclusive` and
`post_execute_exclusive` with a mutex held, and gives the mutex up only in
`condition.wait_for`; each started job has a thread that runs
`execute_threaded` without the mutex (it forks `cave perform`, which does the
fetching or the merging, and talks back through the IPC output manager). Jobs
share the job list's states: a job reads the states of the jobs it requires.
After each job the whole list is written to the resume file. When the list is
over, and everything succeeded, `cave update-world` is started for each target.
`cave resume` reads the resume file and starts `execute-resolution` again.
An install job ends in a merger, which puts an image on the root entry by entry, lists it
in the contents of the new version, and then unmerges the version that it replaces.
`cave sync` uses the same executor, with one executive per repository.

### What is hard

* *Interleaving*: main and the job threads see the job states change at any time,
  the return code only at a post.
* *Ordering*: most of a job's requirements are not asked about; that they are
  settled follows from list order, FIFO queues, and which queue a job is in.
* *Failure*: a job fails, a hook aborts, an `update-world` process fails.
* *Crash and restart*: any process may be killed; what is left is the resume file,
  which is truncated and rewritten in place, and the world file, likewise.
* *Liveness*: two queues whose heads wait for one another would stop everything; a
  resolution may start over again and again.
* *Stale state*: decisions are made with the constraints known so far; the database's
  index, the contents of an old version and the time stamps of files are read long after
  they were written.
* *Order between channels*: output, requests and the end of a process come through different
  pipes, read by different threads.
* *Cycles*: packages that need each other, through any kinds of dependencies.

`PROJECT.json` lists the hazards at their lines, with the properties that cover them.

## The modules

| Module | Models | State and actions, and the code they stand for |
| --- | --- | --- |
| `Executor` | `paludis/util/executor.cc` | `queues`, `running`, `readyForPost` are the members of those names; `pending`, `active`, `done` the counters; `mainPC` and `visiting` say where `execute()` is; `phase` says where each executive and its thread are. `PassQueue`/`ChooseQueue` are a visit to one queue in a round of `execute()`, `StartThread` the call of `pre_execute_exclusive` and the start of the thread, `EndRound`, `Wake`, `Post`, `NextRound` the rest of the round, `ThreadReturns` and `PushReady` the thread body `_one`. The executives' callbacks are left open. |
| `JobSchedule` | what running a job list promises | A job waits, runs, is settled. It begins only when all that it needs fetched is settled, and one job of a queue runs at a time. |
| `ExecuteJobs` | `cmd_execute_resolution.cc`: `execute_executions`, `ExecuteJobExecutive`, `write_resume_file` | Instantiates `Executor` and conjoins the effects of the callbacks to its actions: `state` is the state of every job, `want`, `localRetcode`, `globalRetcode` the members of the executive. What the work of a job does is a choice of success or failure. |
| `CaveResume` | `execute_resolution`, process death, `cmd_resume.cc` | Extends `ExecuteJobs` by what comes after (`step`), by a `Crash` at any moment, and by `Resume`, which goes on from the resume file with the retry and skip options of `cave resume`. `timesDone`, `crashes`, `worldUpdated` are history variables. |
| `UpdateWorld` | `update_world`, `execute_update_world`, `cmd_update_world.cc`, and what the resume file keeps of the request | `request` is the command line, `todo` the names that the running `update-world` process has left. |
| `WorldSet` | what the world file promises | A list of lines; adds and removals are atomic; an update that is cut short loses the last lines only. |
| `WorldFile` | `environments/paludis/world.cc` over `SimpleHandler` of `set_file.cc` | One `pc` per thread: called, locked, loaded, writing. The file is truncated when it is opened and grows by whole lines, as far as the buffer of `SafeOFStream` has been written. |
| `SyncRepositories` | `cmd_sync.cc` | Instantiates `Executor`; `abort`, `success`, `skipped` are the members of `SyncExecutive`; `outcomes`, `hooks`, `concluded` record what was called. |
| `JobLists` | `job_list.hh`, `job.hh`, `job_requirements.hh` | What a job list is: kinds, requirements, flags, and what the orderer promises of them (`IsJobList`), which `ExecuteJobs` assumes. |
| `NAG` | `resolver/nag.cc` | The graph of changes: nodes (a package's fetch, and its install or removal), edges with the labels by which they may be ignored, its strongly connected components, and the order in which they are gone through. No state. |
| `Orderer` | `resolver/orderer.cc` | `resolved` is what the decider has left, `nag` the graph, `todo` the components that are left to be ordered, `jobs` and `unorderable` the result. `NodifyDecisions`, `BuildEdges`, `SortNAG` are the phases of `resolve()`; `OrderComponent`, `OrderPart`, `TryAgain`, `GiveUp` are its loop and `_order_sub_ssccs()`; the `Schedule*` actions and `SelfDependency` are `_schedule()` and the job it appends with its requirements. |
| `DecidedReasons` | what both sides of the resolver rely on | Which decisions may be behind which reasons: promised by `Decider` (`FitForOrdering`, proved), assumed by `Orderer` (`Decided`). |
| `Decider` | `resolver/decider.cc`, its helpers, and the restart loop of `resolve_common.cc` | `resolutions` has the list, the constraints and the decisions; `stage`, `at`, `changed`, `pending`, `changing`, `adding` say where `resolve()` and its loops are; `initial` is what the helper for initial constraints keeps over restarts. `AddTarget`, `TargetsAdded`, `Purge` are what comes first; `DecideNext`, `AddDependency`, `EndPass` the passes of `_resolve_decide_with_dependencies()`; `FindDependents`, `ResolveDependent`, `AddDependent`, `DependentsResolved` are `_resolve_dependents()`; `FindPurges`, `ResolvePurge`, `PurgesResolved` are `_resolve_purges()`. A step in which a constraint is not met is a `Restart`. |
| `Merger` | `fs_merger.cc`, `merger.cc`, `unmerger.cc`, `ndbam*.cc`, `exndbam_repository.cc` | `root` is the file system, `entries` the installed versions with their contents, `indexed` and `unseen` what the database knows of the name. `StartEntry` looks at an entry of the image and `Unlink`, `CopyFile`, `RenameFile`, `InstallSym`, `InstallDir`, `Track` deal with it, one system call that matters at a time; `Replace`, `Uninstall`, `UnmergeEntry`, `UnmergeDone` remove an old version; `Fail` and `Crash` may stop it anywhere. `user`, `touched`, `mixed`, `cut`, `stray`, `complete` are history variables. |
| `ManagedOutput` | `process.cc` (the loop of a `RunningProcessThread`, `run`, `wait`), `ipc_output_manager.cc`, `buffer_output_manager.cc`, `file_output_manager.cc`, `cmd_perform.cc`, and the job's thread in `cmd_execute_resolution.cc` | Three processes with seven threads of control: `phase` (the build), `perform` and `loop["phase"]` (the two threads of `cave perform`), `job`, `loop["perform"]`, `copy` and `main` (of `cave execute-resolution`). `captured`, `ipc`, `command`, `response`, `ctl`, `finished` are what is in the pipes; `logged`, `buffered`, `active`, `screen` where output ends up; `log` has the members of `FileOutputManager`. `Select`, `ReadCaptured`, `PassOn`, `PassBack`, `LoopEnds` are the loop of `process.cc`; the `Asks*` and `Handle*` actions are the two ends of the commands; `CopySelect`, `Copy`, `CopyEnds` the copy thread; `FlushThreaded`, `PostExecute` what main does with the output. `wrote`, `actionOK`, `asked` are history variables. |
| `*Proofs` | | theorems about the module they are named after; those about `ExecuteJobs` are in `CaveResumeProofs`, those about `UpdateWorld` and `WorldFile` in `WorldProofs` |
| `MC*` | | the instances that TLC checks |

`ExecuteJobs` and `SyncRepositories` are both compositions with `Executor`: its actions
are conjuncts of theirs, so that its theorems hold of them. `CaveResume` extends
`ExecuteJobs`. The resolver's modules are joined by what one leaves for the next:
`Decider` leaves what `Orderer` assumes, and `Orderer` leaves what `ExecuteJobs` assumes.
In every module, definitions marked as mutants are not part of the model: each is a
variant of the definition it names with a plausible mistake in it, which the
properties must notice.

## What the runs check

| Run | Instance and bounds | What it shows |
| --- | --- | --- |
| `execute_jobs` | five jobs: fetch and install of two packages, of which the second needs the first even to be fetched, and an uninstall; a fetch queue; all options; with fairness | one thread per queue, joins that cannot block, return only when all is done (what `Executor` promises); the internal errors cannot be reached, failures stop their queue, the resume file is current, `JobSchedule` is implemented, and `execute()` terminates with every job settled |
| `execute_jobs_race` | the first four of these | a finding, see below |
| `cave_resume` | a package and an uninstall after it; up to three invocations, crashes at any point, all eight combinations of retry and skip options, three execution options | in every invocation requirements come first and the exit status is right; work is repeated only after crashes, is never claimed without having been done nor forgotten; world is updated last |
| `sync_repositories` | three repositories, two of one host; every result of syncs and hooks; with fairness | exit status, hooks in pairs, one sync per host, termination |
| `world_file` | two threads, files of up to two lines at the start (duplicates and comments included), package moves, failing writes, crashes; with fairness | atomic updates (`WorldSet`), the mutex is always given back |
| `update_world` | two packages, a set, a special set; every request that can be made of five specs; three invocations | world becomes what was asked, nothing else is added or removed |
| `update_world_dependents` | the same, with two invocations | a finding, see below |
| `orderer` | three packages with up to four links (`MaxLinks`) of five kinds, cycles included (blockers of a fetch with one link less); one may stay, go or be undecidable, and may be the binary of another | no internal error, unless a fetch is blocked by what it needs; what is needed to build comes first; every change is done, or reported, once; the job list is one that can be executed |
| `merger` | two versions of a package; three installations or removals (`MaxInstalls`), one edit by the user (`MaxEdits`), one crash (`MaxStops`), and copies that fail or of which a write stops short, at any time; by rename or by copying; three roots: a protected file, a directory behind a symlink, a file that becomes shorter and one that becomes a symlink | the user's files survive; a completed installation is complete, but for what copies have lost unnoticed; what is on the root is listed, or was under way; a file of both versions is never missing |
| `decider` | three packages of two versions each in six families of systems, with two free links (`MaxLinks`); with fairness | decisions meet all constraints; dependencies and dependents are accounted for; what is purged is not used; the orderer gets what it assumes; the resolution ends |
| `managed_output` | an installation or an uninstallation that runs one phase (`MaxPhases`); three pieces of output (`MaxOutputs`) by either process on either stream, pipes of two (`PipeSize`), standard output in parts of lines and standard error in lines (`Ends`); a request to keep the log, failures and a kill anywhere; with fairness | all output arrives in order in the log and on the screen; the log is there in the end if a phase has asked for it or an installation has failed, and not without output or after a success; no two threads ask at once; the job ends |
| `managed_output_uninstall` | the same instance, without fairness | a finding, see below |

Why these bounds are enough. Two queues are all that jobs can be in. Two jobs that
race, with one that depends on them in each queue, give every interleaving of the
states that a callback compares, and the fifth fills a queue behind a
running one; the theorems about `Executor` cover callbacks that refuse or throw at any time. Three invocations are a crash, a resume, and a resume of the resumed: the
resume file is the only state that passes from one to the next, and the second file can
already be any that the code can write. Two threads are enough for the world file because
an update that is not in the mutex changes nothing; the theorem covers any number.
Three packages are the smallest cycle with something else in it, or with a way out; four
links make all pairs of cycles that share a package. Each family of systems of the
decider lets go of what makes one part of it work: *Restarting* has later constraints on what was
decided, in circles; *Reviving* something blocked that a dependent turns out to need;
*Removing* blockers of all kinds; *Purging* what is used by several; *Suggesting* suggestions, masked
versions and targets of sets; *Hopeless* what cannot be at first and could be later.
Three pieces do not fit in a pipe of two, so that writers have to wait, and let one read get
one or two pieces, with or without the end of a line among them; that a second phase changes nothing
was tried with `MaxPhases = 2`, two pieces and pipes of one, for the invariants. Dependencies of one package, and the reasons of one dependent, are taken in any order.
The limit on restarts, nine thousand in the code, is nine here: two restarts happen and
three never do. The bounds that cut off counters are `MaxInvocations` (`cave` processes),
`MaxInstalls`, `MaxEdits` and `MaxStops` of the merger, `MaxRestarts`, and `MaxOutputs` and
`MaxPhases` of a job's output. `CHECK_DEADLOCK FALSE` stands in the configurations of systems that
end: `execute()` returns, `cave` exits, the resolution or the merge is over.

### Fairness

* `WF(Main)`: main is never blocked for ever, for it waits with `wait_for` and a
  timeout of 100 ms (`executor.cc:155`).
* `WF(Thread(x))`: the work of a job, or the sync of a repository, ends in the end. (A
  `cave perform` that hangs for ever is not something `cave` can recover from.)
* `SF(PushReady(x))`: a thread that waits for the mutex gets it. Main gives the mutex up
  again and again, in every round in which something is running, but holds it in
  between, so that weak fairness would not be enough; it gives it up for as long as
  100 ms, so that strong fairness is what a working mutex provides.
* `WF(Progress(t))` in `WorldFile`: a thread that holds the mutex runs.
* In `ManagedOutput`, `WF` of every thread: a build that never ends, or writes for ever, is left out. `SF(Handler)` and
  `SF(PushReady)`: both need the executor's mutex, which main gives up in every round.
* `WF(Next)` in `Decider`: it is one sequential program.

Safety properties and theorems do not use fairness.

## What is proved

`tlapm` checks every proof, for every value of the constants that satisfies the assumptions
of the module: any finite set of executives and any queues; any job list in which
jobs require earlier ones only, and in which a requirement between a fetch and
another kind of job carries the fetching flag (`JobListAssumption`, the promise of
`populate_requirements` in `resolver/orderer.cc`); any repositories and hooks; any threads and
lines; any packages, versions, dependencies and options; any paths of two levels, roots and images that `MergerAssumption`
admits (below), and any number of installations, edits and stops.

* `ExecutorProofs`. The inductive invariant is `Placed`: `phase` agrees with the queues,
  with `running` and with `ready_for_post`, each executive being in one place and once
  only; and main's position agrees with the queue it visits. None of the properties is
  inductive alone: that joining cannot block needs that nothing is twice on
  `ready_for_post`, which needs that `running` names all live threads. `CountersAgree`
  rests on `Placed` and on cardinalities of the sets of executives in each phase. That the constants describe a set of
  executives (`ExecutivesOK`) is the hypothesis of each theorem; the two modules that use the executor prove it of theirs.
* `CaveResumeProofs`, first half: the execution of a job list. Every behaviour is one of `Executor`, so that `Placed` may be used, and what
  it implies of the executor's queues, joins and return holds of jobs (`JobsOfAQueueExclude`, `JoinOfAJobIsSafe`, `ReturnsAfterEveryJob`). `Scheduled`
  adds that jobs are in their queues in list order, that what is started is
  settled in order within a queue, and that everything a started job requires is settled.
  The heart of it is that `can_run()` asks only about requirements with the
  fetching flag: all others are between jobs of one queue, where an earlier job is
  done before a later one starts. From list order follows also `NeverStuck`: the first job, in
  list order, of those at the heads of the queues can always start when nothing runs.
  `Outcomes` relates states, return codes and wants, and gives `ExitStatus`
  and `FailureStopsQueue`. `RefinesSchedule` maps every step to a step of `JobSchedule` or to
  none. `OneQueueIsSafe` shows that without a fetch queue (`--fetch-jobs 0`) the race
  of the first finding cannot happen.
* `SyncRepositoriesProofs`. That hosts are synced one at a time is `QueuesAreExclusive` of the executor. The
  invariant of the rest says, for every phase of an executive, what its flags, the outcome of its
  sync and the hooks that were run say of one another; the return code follows from those
  that are done.
* `CaveResumeProofs`, second half. In every invocation what was proved of `ExecuteJobs` holds again, because a
  resumed state satisfies its invariant: no job is active, whatever was in the file. The rest is
  `Remembered`: a job that succeeded, in the process or in the file, was done, and one that did not
  was done only in invocations that crashed (`OnlyByCrashes`), which is what makes
  `RepeatsNeedCrashes` inductive.
* `WorldProofs`, first half. `Derived` says what a request that has gone through resume files has in
  common with the one that was asked; `Parameters` what each process is given; `Done` what those that are
  over have done to world. Both theorems are about the default `--update-world-program` only: with
  another, the names of dependents are added.
* `WorldProofs`, second half, about `WorldFile`. The invariant says that only the holder of the mutex is in an
  update, that what it has loaded is what is in the file, and that what it has written is a
  prefix of its lines. The refinement takes `ChangeAndOpen` for the atomic update and all
  ways of stopping early for `CutShort`.
* `OrdererProofs`. `FitForExecution`, from which `JobListAssumption` of `ExecuteJobs` follows: every job says
  enough of the jobs before it, and nothing that it should not (`IInv`). The other three theorems need the order, and
  hence what the sort does. The lemmas up to `SortedInOrder` are about graphs: connectedness is the least relation that
  has the edges and is transitive, components part the nodes, some component that is not ordered needs only
  ordered ones, and a round of the sort keeps `SortInv`; so the sort fails only if there is a fetch that nothing in the graph
  needs. `OrderInv` then says of every state that what is a job may precede what is still to be done (`JobsGoFirst`), that
  the items still to be done are in an order that they may be done in (`InOrderAll`), that parts of several nodes
  need one another (`Mutual`) and have the changes of their fetches (`FetchesHaveChanges`), that what is reported needs itself
  and is nowhere else (`ReportsFit`), and that no change is missing (`NothingForgotten`). `MustFollow` is what
  `DependenciesFirst` asks of two nodes; it is never broken because a component is broken up along edges among which all that
  are not met remain.
* `DeciderProofs`. First `DecisionsMeetConstraints` (`IInv`). The lemmas show that `_try_to_find_decision_for()` finds
  only what meets all constraints, that what is hopeless stays so when constraints are added, and that
  `_apply_resolution_constraint()` keeps both or starts over. The invariant adds that a package that is not in
  the list has not been decided upon, for the constraints of a new resolution replace what was there.
  Then the loops (`Rest1`): what has been decided upon in which of them (`DecidedUpon`), and that each dependency of a decision is in
  the constraints, or still to be added (`AllAccounted`); a decision that changes without a restart loses its dependencies, or
  is one that came from nothing. `Rest2` says that the loop over dependents still has all that are left behind before it, or has said so of them, as
  long as it has not set `changed` (`Dependents`), and that what is to be purged is used by nothing that stays or comes
  (`Purges`): otherwise a purge would leave something else behind, and no one would look for it again.
  That in turn rests on the order of the rounds: once a round of purges has begun, nothing but purges is
  decided upon until the next restart (`Rounds`), so that what was unused stays so; and a purge is decided upon for what is unused only
  (`PurgesOnly`). There `Closure` has to be the *least* closed set: what has become unused since is then not
  needed from world. `ReasonsFit` says of each reason that what it names is there, and decided upon as
  the orderer assumes: what dependencies point at (`AllBehind`, the loops in `LoopsBehind`), what a purge used to be used by
  (`UsersComing`: the loop may name what it only comes to later), and that up to the first restart the helper of
  initial constraints gives out presets only (`PlainGiven`), which is why `FitForOrdering` stops there.
* `ManagedOutputProofs`. The inductive invariant is `Managed`. `ControlInv` is about the threads and what they say to
  one another: which commands and answers may be in the pipes follows from where the two ends of each conversation are
  (`Conversation`), a command is about what its sender asked (`CommandsMean`), and a manager is in place as long as it
  may be asked for (`ManagerInPlace`). `PassedOn` and `Shown` say of every piece of output where it is:
  what the phase wrote is what is in the log followed by what is in each pipe, in the order of the pipes, and the
  same with the buffers up to the screen. `JobIsReadOut` is needed at the end: whoever waits for a process has its
  output. `LogIsKept` relates the members of the `FileOutputManager` to what was asked. `OneQuestionAtATime`
  follows from `ControlInv` alone, `OutputDelivered` from the conservation and from what is empty at the end.

* `MergerProofs`. The inductive invariant is `IInv`. That a path of an image always leads to the same `Place` on the root
  rests on `Disk`: a name that there may be something below keeps its symlink. `Control` and `Walk` say where
  the merge is and that what is left of the image hangs together; `StepFits` what each step finds on the root, so that
  none overwrites what `StartEntry` did not look at. `LinesFit` says what a line of contents can be about: its time is not the one that
  a later version gives to its files, and its content is never the user's, not even if a copy was cut: it begins otherwise. Hence unmerging takes away nothing of the user's (`UserFits`), and
  nothing that the new version has put there by another path, which is what `NeverMissing` is about. `Tracked` is `NothingUntracked` with
  the lines that are left to unmerge in place of the whole contents, since those that have been gone through
  no longer account for anything. `InstallationComplete` is about the end of a long sequence; `Progress` says at every moment
  of it that what is wanted of the image is to do or listed, and `Placed` that what is listed is in its place, is so recent that no
  older line can be taken for it, and has a line that says so. A lemma for each of these parts has one step for every action, and
  no part can do without the others.

### What is assumed of packages and roots

`MergerAssumption` says for which images and roots the properties of `Merger` are claimed. TLC evaluates it in the run.

* `TwoLevels` is the bound on paths: a name below the root, or one inside a directory there. A directory may be
  a symlink, which is what makes two paths one file.
* `UpdatesAreNear`: a `._cfg` file is in the directory of what it updates (`ndbam_merger.cc:288`), and is the update
  of one file only; neither is a directory. `RootIsFit`: the root is a file system, older than the packages. `ImageIsFit`: so is an
  image, and `._cfg` names are not part of it.
* `DirectoriesStay`: a name that is a directory in one version is a directory in the other, if it is there; packages have the symlinks
  that lead elsewhere on the root, not in their images. The code does not check this, and needs it. If version 1 has `lib/f`, `lib` is a
  symlink to `lib64` on the root, and version 2 has `lib` as a symlink to `opt`, then merging version 2 replaces the symlink, and the
  line for `lib/f` in the contents of version 1 leads elsewhere when it is unmerged: `lib64/f` is left. TLC finds
  `NothingUntracked` and `InstallationComplete` violated with such a package.
* `NamesAreDistinct`: through the symlinks of the root, an image has no two files that are one, and no other name for a
  protected or volatile file. The merger asks for both by the path in the image (`fs_merger.cc:182`), so that another name is not protected.
* `UserContentFits` and `ImageNodes`: what the user writes is told apart from what packages contain, by what it begins with. If both
  are the same there is nothing to lose, but the properties could not say whose it is.

### What is only model-checked

Liveness (`Terminates`, `SyncEnds`, `MutexReleased`, `ResolutionEnds`, `JobComesBack`) is out of the reach of the
prover. What the three findings are about is violated. Every other property of every run is the subject of a theorem.

## Findings

1. *A failed requirement can be overlooked* (`execute_jobs_race`). The worker makes a job's state failed
   before the job's post records the failure in the shared return code. Main, woken in
   between, finds the requirement settled and the return code 0, and starts a job in
   the other queue as though nothing had failed, whatever `--continue-on-failure` says.
2. *Dependents after a resume* (`update_world_dependents`). The resume file turns the
   names of uninstalled dependents into targets to be removed, and they leave world even if
   something of that name is left.
3. *The log of an uninstallation that failed is unlinked* (`managed_output_uninstall`). `output_manager.hh:68` says
   that `succeeded()` is called if an action succeeds, and that a manager that is destroyed without it should assume
   failure. `do_uninstall()` calls it whatever the exit status (`cmd_execute_resolution.cc:588`), even if the process was killed.
   `FailuresAreLogged` says what the document says, and is violated; `LogMatchesOutcome` says nothing of an uninstallation
   that failed, unless a phase has asked for the log.

### Other things that the models show

These are stated by no document of the repository that a run could contradict; the properties
say where they stop short of them.

* A cycle of run dependencies can be reported as unsolvable, since `no_build_dependencies()`
  (`orderer.cc:503`) looks at edges that leave the component as well.
* A blocker that is to be resolved afterwards gets an edge from what it blocks to what it is a dependency of, even to its fetch
  (`orderer.cc:404`). If the package also needs the blocked one, they are a cycle, and when it is broken up the fetch may
  have lost the edge from its own package: `sorted_strongly_connected_components()` then throws "still have pending fetches"
  (`nag.cc:371`). `NoInternalError` leaves exactly these cases out (`FetchBlocks`), and the theorem shows that there are no others.
* `get_initial_constraints_for_helper.cc:147` gives out its own object: constraints of an abandoned attempt
  are still there after a second restart, and the orderer may then find an edge without a node
  (`nag.cc:158`, an internal error). `FitForOrdering` therefore speaks of no more than one restart.
* "Going from nothing to something is fine" (`decider.cc:863`), but the dependencies of the new decision are never
  added. `DependenciesTakenIntoAccount` leaves such packages (`fromNothing`) out.
* What was decided to be impossible is not reconsidered when a later constraint permits its removal, or
  leaves only a masked version. `DecisionsMeetConstraints` says "impossible" of what is unmasked and without
  removals.
* A first installation that was killed is not seen by later ones (`ndbam.cc:265`, `exndbam_repository.cc:543`), so
  that it is never replaced. `InstallationComplete` leaves such versions (`unseen`) out.
* When a file is copied, only a `write()` that returns -1 is noticed (`fs_merger.cc:452`). One that stops short, as the last
  one that fits on a full disk does, is not: the cut copy is renamed into place, and listed as it is. If a protected file
  is there that is the same as the package's, it is replaced by such a copy too. `Written` has all that short writes may
  leave. `InstallationComplete` and `UserFilesSurvive` leave files with such copies (`cut`) out; what they say of all others, that
  these are listed as they are, and that they can be removed again holds all the same.
* A copy is begun in what a killed installation has left of another one (`fs_merger.cc:418`, no `O_TRUNC`), and what
  was longer stays behind it. `InstallationComplete` asks of such a file (`mixed`) that it begins with all of the new one.
* When an old version had a directory, the root a symlink to that directory, and the new version has the name of the symlink as a directory with nothing
  in it, the old one's directory goes with its line, and the symlink, which satisfied the new version's `on_dir_over_sym()`
  (`fs_merger.cc:247`), leads nowhere. `InstallationComplete` leaves this (`empty`) out.
* Two `cave` processes share no lock on the world file.
* The options that make the third `update-world` a removal are part of the default command only
  (`cmd_execute_resolution.cc:700`): another `--update-world-program` is told to add the names of dependents.
* An installation calls `succeeded()` itself ("done by the caller", says `output_manager.hh:78`), before its hooks are run (`do_install_action.cc:582`), so that a hook that
  fails it leaves no log either.
* A last line that does not end never leaves the buffer (`buffer_output_stream.cc:76`): it is in the log, but not on the
  screen. `OutputDelivered` leaves it (`active`) out.

## What is not modelled, and the plan

Not modelled on purpose: what fetching, building and syncing do (in these
models they succeed or fail), the text of serialised job lists (a resume file is absent,
truncated or whole), wording and display, data races on a `shared_ptr` (every read is atomic),
and two `cave` processes that write the world file at once.

* *Decider*: changes of choices, destinations other than `/` and binaries made for them, several slots of
  a package, any-of groups, confirmations, whether two packages of the same version are the same, the cache of
  resolvents.
* *Orderer*: confirmations, the lists of what is ignored, the text of reports; Tarjan's algorithm is modelled by
  what it finds.
* *Merger*: parts of an image, hard links, extended attributes, ownership, the hooks of unmerging, permitted
  destinations, rewritten symlinks, the variant of VDB, the order of upgrades of EAPI 0 and 1, `misc` entries,
  several slots. With `fix_mtimes` the time of a file is taken as that of its build. The user edits files only
  between the entries of a merge, and the directory of an old version goes in one step.
* *Output*: the summary and the messages that feed it, the managers that forward at the finish, run commands or format
  messages, jobs that have the screen to themselves or are in the background; prefixes of lines, what a child is sent as
  its input; a write to a log that fails, of which the exception leaves the stream's destructor and ends `cave`. `pselect()` is taken to report one moment, and what a killed `cave perform` had started is taken to die with it.
* *World*: the conf and script handlers of set files; a line that a full disk cuts in the middle is taken as lost.

The status of every part is in `PROJECT.json`.

Done so far: the executor, the execution of job lists and their resumption, world, syncing, the
orderer, the merger, the decider and the output of jobs, and the proofs above. Next, in this order:

1. The composition of `Decider` and `Orderer`, with the reasons that one leaves as the input of the other.
2. Helpers: lazy construction by several threads, the name cache, hooks.
3. The order of versions and the algebra of selections, as operators.
