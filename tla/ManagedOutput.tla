---------------------------- MODULE ManagedOutput ----------------------------
(***************************************************************************)
(* How the output of one job gets from the process that makes it to the    *)
(* log file and to the screen, and what becomes of the log.                *)
(*                                                                         *)
(*   a phase of the build, a process of its own                            *)
(*     | two pseudo terminals, and a pipe for its commands                 *)
(*   `cave perform`: its main thread, and a RunningProcessThread           *)
(*     | two pipes, and a pipe for its commands (IPCOutputManager)         *)
(*   `cave execute-resolution`: the job's thread, a RunningProcessThread   *)
(*     for the commands, a copy thread for the output (IPCInputManager),   *)
(*     and the main thread of the executor, which shows the output         *)
(*                                                                         *)
(* Sources: paludis/util/process.cc, paludis/ipc_output_manager.cc,        *)
(* cmd_perform.cc, cmd_execute_resolution.cc, and the output managers that *)
(* default_output.conf puts together for jobs that run with others: a tee  *)
(* of a buffer for the screen and a file that is kept after failures only. *)
(***************************************************************************)
EXTENDS Naturals, SequencesExt

CONSTANTS
    MaxOutputs,   \* how many pieces of output are made, at most
    MaxPhases,    \* how many phases an action runs, at most
    PipeSize,     \* how many pieces fit in a pipe
    Ends          \* of every stream: may a piece of it end a line, or not?

Streams == {"stdout", "stderr"}

ASSUME ManagedOutputAssumption ==
    /\ {MaxOutputs, MaxPhases, PipeSize} \subseteq Nat \ {0}
    /\ Ends \in [Streams -> SUBSET BOOLEAN]

(* The two processes that a RunningProcessThread looks after.              *)
Processes == {"phase", "perform"}

None == "none"

VARIABLES
    kind,       \* of the job: "install" (or fetch, which is no different) or "uninstall"
    wrote,      \* history: all that was ever written to every stream
    captured,   \* what is in the pseudo terminals of the phase
    ipc,        \* what is in the pipes between cave perform and cave
    logged,     \* what is in the log file, by stream
    buffered,   \* complete_strings of the buffer, in one sequence
    active,     \* active_string: what is not followed by the end of a line yet
    screen,     \* what was shown
    loop,       \* where the RunningProcessThread of every process is
    ready,      \* what pselect() said that it has to deal with
    ctl,        \* is there an 'x' in its ctl_pipe?
    command,    \* the command in the pipe, and the answer to it
    response,
    phase,      \* the phase: "none", "running", "asking", "over"
    phaseOK,    \* its exit status
    phases,     \* how many have been run
    perform,    \* where the main thread of cave perform is
    actionOK,   \* history: did the action succeed?
    asked,      \* history: has a phase asked for the logs to be kept?
    copy,       \* where the copy thread is, and what it has to deal with
    copyReady,
    finished,   \* is there an 'x' in the finished_pipe?
    manager,    \* the output manager of the job: "none", "tee", "standard"
    log,        \* the members of the FileOutputManager, and does the file exist?
    job,        \* where the job's thread is
    main        \* where the executor's main thread is

outputVars == <<wrote, captured, ipc, logged, buffered, active, screen>>
loopVars == <<loop, ready, ctl, command, response>>
performVars == <<phase, phaseOK, phases, perform, actionOK, asked>>
copyVars == <<copy, copyReady, finished>>
caveVars == <<manager, log, job, main>>
vars == <<kind, outputVars, loopVars, performVars, copyVars, caveVars>>

(* In these it waits for an answer to a command of its own.                *)
Asking == {"pinging", "creating", "succeeding", "finishing"}

Empty == [s \in Streams |-> <<>>]

Init ==
    /\ kind \in {"install", "uninstall"}
    /\ wrote = Empty /\ captured = Empty /\ ipc = Empty
    /\ logged = Empty /\ buffered = Empty /\ active = Empty /\ screen = Empty
    /\ loop = [phase |-> "absent", perform |-> "select"]
    /\ ready = [p \in Processes |-> {}]
    /\ ctl = [p \in Processes |-> FALSE]
    /\ command = [p \in Processes |-> None]
    /\ response = [p \in Processes |-> None]
    /\ phase = "none" /\ phaseOK = TRUE /\ phases = 0
    /\ perform = "starting" /\ actionOK = FALSE /\ asked = FALSE
    /\ copy = "absent" /\ copyReady = {} /\ finished = FALSE
    /\ manager = "none"
    /\ log = [open |-> FALSE, exists |-> FALSE, ignore_succeeded |-> FALSE]
    /\ job = "waiting" /\ main = "waiting"

(***************************************************************************)
(* Writing and reading.                                                    *)
(***************************************************************************)
MoreOutput == Len(wrote["stdout"]) + Len(wrote["stderr"]) < MaxOutputs

(* A piece of output: the n-th of its stream; does it end a line?          *)
Piece(s, line) == [n |-> Len(wrote[s]) + 1, line |-> line]

Write(pipe, s, line) ==
    /\ MoreOutput
    /\ line \in Ends[s]
    /\ Len(pipe[s]) < PipeSize
    /\ wrote' = [wrote EXCEPT ![s] = Append(@, Piece(s, line))]
    /\ pipe' = [pipe EXCEPT ![s] = Append(@, Piece(s, line))]

Drop(seq, k) == SubSeq(seq, k + 1, Len(seq))

Waiting(pipe) == {s \in Streams : pipe[s] # <<>>}

-----------------------------------------------------------------------------
(***************************************************************************)
(* A phase: ebuild.bash, which writes, may ask for the logs to be kept and *)
(* waits for the answer, and ends in success or failure.  It may also die  *)
(* while it waits, because a subshell of it did.                           *)
(***************************************************************************)
PhaseWrites(s, line) ==
    /\ phase = "running"
    /\ Write(captured, s, line)
    /\ UNCHANGED <<kind, ipc, logged, buffered, active, screen, loopVars, performVars,
                   copyVars, caveVars>>

PhaseAsks ==
    /\ phase = "running"
    /\ ~ asked
    /\ asked' = TRUE
    /\ phase' = "asking"
    /\ command' = [command EXCEPT !["phase"] = "KEEP_LOGS"]
    /\ UNCHANGED <<kind, outputVars, loop, ready, ctl, response, phaseOK, phases, perform,
                   actionOK, copyVars, caveVars>>

PhaseIsAnswered ==
    /\ phase = "asking"
    /\ response["phase"] # None
    /\ phase' = "running"
    /\ response' = [response EXCEPT !["phase"] = None]
    /\ UNCHANGED <<kind, outputVars, loop, ready, ctl, command, phaseOK, phases, perform,
                   actionOK, asked, copyVars, caveVars>>

PhaseExits(ok) ==
    /\ phase = "running" \/ (phase = "asking" /\ ~ ok)
    /\ phase' = "over"
    /\ phaseOK' = ok
    /\ UNCHANGED <<kind, outputVars, loopVars, phases, perform, actionOK, asked, copyVars,
                   caveVars>>

-----------------------------------------------------------------------------
(***************************************************************************)
(* RunningProcessThread::thread_func of process p.  Whatever pselect()     *)
(* reports is dealt with in turn; the ctl pipe, which says that the        *)
(* process is over, only if nothing else was reported.                     *)
(***************************************************************************)
Readable(p) ==
    (IF p = "phase" THEN Waiting(captured) ELSE {})
        \cup (IF command[p] # None THEN {"command"} ELSE {})

(* Mutant of DealWith: the end is taken notice of first.                   *)
DealWithEndFirst(p) == IF ctl[p] THEN {"ctl"} ELSE Readable(p)

DealWith(p) == IF Readable(p) = {} /\ ctl[p] THEN {"ctl"} ELSE Readable(p)

Select(p) ==
    /\ loop[p] = "select"
    /\ DealWith(p) # {}
    /\ ready' = [ready EXCEPT ![p] = DealWith(p)]
    /\ loop' = [loop EXCEPT ![p] = "work"]
    /\ UNCHANGED <<kind, outputVars, ctl, command, response, performVars, copyVars, caveVars>>

(* The loop is through with item x of what was reported.                   *)
DoneWith(p, x) ==
    /\ ready' = [ready EXCEPT ![p] = @ \ {x}]
    /\ loop' = [loop EXCEPT ![p] = IF ready[p] = {x} THEN "select" ELSE "work"]

(***************************************************************************)
(* A read gets some of what is there, and writes it to the stream of the   *)
(* IPCOutputManager: the pipe to cave, which may be full.                  *)
(***************************************************************************)
ReadCaptured(s, k) ==
    /\ loop["phase"] = "work"
    /\ s \in ready["phase"]
    /\ s = "stderr" => "stdout" \notin ready["phase"]
    /\ k \in 1..Len(captured[s])
    /\ Len(ipc[s]) + k <= PipeSize
    /\ captured' = [captured EXCEPT ![s] = Drop(@, k)]
    /\ ipc' = [ipc EXCEPT ![s] = @ \o SubSeq(captured[s], 1, k)]
    /\ DoneWith("phase", s)
    /\ UNCHANGED <<kind, wrote, logged, buffered, active, screen, ctl, command, response,
                   performVars, copyVars, caveVars>>

(***************************************************************************)
(* The pipe command handler of the phase runs in this thread of cave       *)
(* perform, and asks cave in turn.                                         *)
(***************************************************************************)
PassOn ==
    /\ loop["phase"] = "work"
    /\ ready["phase"] = {"command"}
    /\ ready' = [ready EXCEPT !["phase"] = {}]
    /\ loop' = [loop EXCEPT !["phase"] = "handling"]
    /\ command' = [command EXCEPT !["phase"] = None, !["perform"] = "IGNORE_SUCCEEDED"]
    /\ UNCHANGED <<kind, outputVars, ctl, response, performVars, copyVars, caveVars>>

PassBack ==
    /\ loop["phase"] = "handling"
    /\ response["perform"] # None
    /\ response' = [response EXCEPT !["perform"] = None, !["phase"] = "O"]
    /\ loop' = [loop EXCEPT !["phase"] = "select"]
    /\ UNCHANGED <<kind, outputVars, ready, ctl, command, performVars, copyVars, caveVars>>

LoopEnds(p) ==
    /\ loop[p] = "work"
    /\ ready[p] = {"ctl"}
    /\ ready' = [ready EXCEPT ![p] = {}]
    /\ ctl' = [ctl EXCEPT ![p] = FALSE]
    /\ loop' = [loop EXCEPT ![p] = "exited"]
    /\ UNCHANGED <<kind, outputVars, command, response, performVars, copyVars, caveVars>>

-----------------------------------------------------------------------------
(***************************************************************************)
(* The main thread of cave perform.  It may fail before it makes an output *)
(* manager (no such package, a hook that aborts), or have nothing to do.   *)
(***************************************************************************)
Exit ==
    /\ perform' = "exited"
    /\ UNCHANGED <<kind, outputVars, loopVars, phase, phaseOK, phases, actionOK, asked, copyVars,
                   caveVars>>

FailsAtOnce == perform = "starting" /\ Exit

(* A command is sent, and the thread waits for its answer in step pc.      *)
Ask(c, pc) ==
    /\ command' = [command EXCEPT !["perform"] = c]
    /\ perform' = pc

AsksPing ==
    /\ perform = "starting"
    /\ Ask("PING", "pinging")
    /\ UNCHANGED <<kind, outputVars, loop, ready, ctl, response, phase, phaseOK, phases, actionOK,
                   asked, copyVars, caveVars>>

(***************************************************************************)
(* An answer to this thread: what it goes on with.  An error in answer to  *)
(* CREATE is an exception in the constructor of the IPCOutputManager.      *)
(***************************************************************************)
IsAnswered ==
    /\ response["perform"] # None
    /\ response' = [response EXCEPT !["perform"] = None]
    /\ \/ perform = "pinging" /\ Ask("CREATE", "creating")
       \/ /\ perform = "creating"
          /\ perform' = IF response["perform"] = "O" THEN "acting" ELSE "exited"
          /\ UNCHANGED command
       \/ perform = "succeeding" /\ perform' = "acted" /\ UNCHANGED command
       \/ perform = "finishing" /\ perform' = "exited" /\ UNCHANGED command
    /\ UNCHANGED <<kind, outputVars, loop, ready, ctl, phase, phaseOK, phases, actionOK, asked,
                   copyVars, caveVars>>

(* The merger, the fetcher and others write to the stream themselves.      *)
PerformWrites(s, line) ==
    /\ perform \in {"acting", "acted", "failing"}
    /\ Write(ipc, s, line)
    /\ UNCHANGED <<kind, captured, logged, buffered, active, screen, loopVars, performVars,
                   copyVars, caveVars>>

(* Process::run, with a thread: a phase, or a hook.                        *)
RunPhase ==
    /\ perform = "acting"
    /\ phases < MaxPhases
    /\ phases' = phases + 1
    /\ phase' = "running"
    /\ perform' = "phase"
    /\ loop' = [loop EXCEPT !["phase"] = "select"]
    /\ UNCHANGED <<kind, outputVars, ready, ctl, command, response, phaseOK, actionOK, asked,
                   copyVars, caveVars>>

(* Mutant of WaitForPhase: the loop is told to end, but is not joined.     *)
WaitForPhaseOnly ==
    /\ perform = "phase"
    /\ phase = "over"
    /\ ctl' = [ctl EXCEPT !["phase"] = TRUE]
    /\ perform' = IF phaseOK THEN "acting" ELSE "failing"
    /\ UNCHANGED <<kind, outputVars, loop, ready, command, response, phase, phaseOK, phases,
                   actionOK, asked, copyVars, caveVars>>

(* RunningProcessHandle::wait: the process is over, its loop is told to end*)
WaitForPhase ==
    /\ perform = "phase"
    /\ phase = "over"
    /\ ctl' = [ctl EXCEPT !["phase"] = TRUE]
    /\ perform' = "joining"
    /\ UNCHANGED <<kind, outputVars, loop, ready, command, response, phase, phaseOK, phases,
                   actionOK, asked, copyVars, caveVars>>

(* A phase that failed is an ActionFailedError.  An answer that the phase  *)
(* did not wait for goes with its pipe.                                    *)
JoinPhase ==
    /\ perform = "joining"
    /\ loop["phase"] = "exited"
    /\ loop' = [loop EXCEPT !["phase"] = "absent"]
    /\ command' = [command EXCEPT !["phase"] = None]
    /\ response' = [response EXCEPT !["phase"] = None]
    /\ phase' = "none"
    /\ perform' = IF phaseOK THEN "acting" ELSE "failing"
    /\ UNCHANGED <<kind, outputVars, ready, ctl, phaseOK, phases, actionOK, asked, copyVars, caveVars>>

(***************************************************************************)
(* The action is done.  Installing and fetching end in                     *)
(* output_manager->succeeded(), uninstalling does not.                     *)
(***************************************************************************)
Succeeds ==
    /\ perform = "acting"
    /\ actionOK' = TRUE
    /\ IF kind = "install" THEN Ask("SUCCEEDED", "succeeding")
                           ELSE perform' = "acted" /\ UNCHANGED command
    /\ UNCHANGED <<kind, outputVars, loop, ready, ctl, response, phase, phaseOK, phases, asked,
                   copyVars, caveVars>>

(* Or something other than a phase has failed.                             *)
Fails ==
    /\ perform = "acting"
    /\ perform' = "failing"
    /\ UNCHANGED <<kind, outputVars, loopVars, phase, phaseOK, phases, actionOK, asked, copyVars,
                   caveVars>>

(* ~IPCOutputManager, after the hooks, in success or by an exception.      *)
AsksFinished ==
    /\ perform \in {"acted", "failing"}
    /\ Ask("FINISHED", "finishing")
    /\ UNCHANGED <<kind, outputVars, loop, ready, ctl, response, phase, phaseOK, phases, actionOK,
                   asked, copyVars, caveVars>>

(***************************************************************************)
(* cave perform may be killed at any time, with its thread, and with what  *)
(* the phase had written and nobody had read.                              *)
(***************************************************************************)
Killed ==
    /\ perform \notin {"exited", "killed"}
    /\ perform' = "killed"
    /\ phase' = "none"
    /\ captured' = Empty
    /\ loop' = [loop EXCEPT !["phase"] = "absent"]
    /\ ready' = [ready EXCEPT !["phase"] = {}]
    /\ ctl' = [ctl EXCEPT !["phase"] = FALSE]
    /\ command' = [command EXCEPT !["phase"] = None]
    /\ response' = [response EXCEPT !["phase"] = None]
    /\ UNCHANGED <<kind, wrote, ipc, logged, buffered, active, screen, phaseOK, phases, actionOK,
                   asked, copyVars, caveVars>>

-----------------------------------------------------------------------------
(***************************************************************************)
(* IPCInputManager::_pipe_command_handler, in the thread that looks after  *)
(* cave perform, with the mutex of the executor, which is free only while  *)
(* main waits.                                                             *)
(***************************************************************************)
Handles(c) ==
    /\ main = "waiting"
    /\ loop["perform"] = "work"
    /\ "command" \in ready["perform"]
    /\ command["perform"] = c
    /\ command' = [command EXCEPT !["perform"] = None]
    /\ DoneWith("perform", "command")

Answers(r) == response' = [response EXCEPT !["perform"] = r]

HandlePing ==
    /\ Handles("PING")
    /\ Answers("O")
    /\ UNCHANGED <<kind, outputVars, ctl, performVars, copyVars, caveVars>>

(* create_output_manager() may throw: the log cannot be written to.        *)
HandleCreate(ok) ==
    /\ Handles("CREATE")
    /\ manager' = IF ok THEN "tee" ELSE "standard"
    /\ log' = [log EXCEPT !.open = ok, !.exists = ok]
    /\ copy' = IF ok THEN "select" ELSE "absent"
    /\ Answers(IF ok THEN "O" ELSE "E")
    /\ UNCHANGED <<kind, outputVars, ctl, performVars, copyReady, finished, job, main>>

(* Mutant of LogSucceeded: ignore_succeeded is not looked at.              *)
LogUnlinked == [log EXCEPT !.exists = FALSE]

(* FileOutputManager::succeeded, without keep_on_success.                  *)
LogSucceeded == IF log.ignore_succeeded THEN log ELSE [log EXCEPT !.exists = FALSE]

HandleSucceeded ==
    /\ Handles("SUCCEEDED")
    /\ log' = LogSucceeded
    /\ Answers("O")
    /\ UNCHANGED <<kind, outputVars, ctl, performVars, copyVars, manager, job, main>>

HandleIgnoreSucceeded ==
    /\ Handles("IGNORE_SUCCEEDED")
    /\ log' = [log EXCEPT !.ignore_succeeded = TRUE]
    /\ Answers("O")
    /\ UNCHANGED <<kind, outputVars, ctl, performVars, copyVars, manager, job, main>>

HandleFinished ==
    /\ Handles("FINISHED")
    /\ finished' = TRUE
    /\ Answers("O")
    /\ UNCHANGED <<kind, outputVars, ctl, performVars, copy, copyReady, caveVars>>

-----------------------------------------------------------------------------
(***************************************************************************)
(* IPCInputManager::_copy_thread: output goes to the tee, which gives it   *)
(* to the buffer and the file; the end is taken notice of when there is no *)
(* output.                                                                 *)
(***************************************************************************)
CopySelect ==
    /\ copy = "select"
    /\ Waiting(ipc) # {} \/ finished
    /\ copyReady' = IF Waiting(ipc) # {} THEN Waiting(ipc) ELSE {"finished"}
    /\ copy' = "work"
    /\ UNCHANGED <<kind, outputVars, loopVars, performVars, finished, caveVars>>

(* BufferOutputStreamBuf::xsputn: with the end of a line somewhere in what *)
(* comes, all that is there is complete.                                   *)
Copy(s, k) ==
    LET got == SubSeq(ipc[s], 1, k) IN
    /\ copy = "work"
    /\ s \in copyReady
    /\ s = "stderr" => "stdout" \notin copyReady
    /\ k \in 1..Len(ipc[s])
    /\ ipc' = [ipc EXCEPT ![s] = Drop(@, k)]
    /\ logged' = [logged EXCEPT ![s] = @ \o got]
    /\ IF \E i \in 1..k : got[i].line
       THEN /\ buffered' = [buffered EXCEPT ![s] = @ \o active[s] \o got]
            /\ active' = [active EXCEPT ![s] = <<>>]
       ELSE /\ active' = [active EXCEPT ![s] = @ \o got]
            /\ UNCHANGED buffered
    /\ copyReady' = copyReady \ {s}
    /\ copy' = IF copyReady = {s} THEN "select" ELSE "work"
    /\ UNCHANGED <<kind, wrote, captured, screen, loopVars, performVars, finished, caveVars>>

CopyEnds ==
    /\ copy = "work"
    /\ copyReady = {"finished"}
    /\ finished' = FALSE
    /\ copyReady' = {}
    /\ copy' = "exited"
    /\ UNCHANGED <<kind, outputVars, loopVars, performVars, caveVars>>

-----------------------------------------------------------------------------
(***************************************************************************)
(* The job's thread in cave execute-resolution: do_install, do_fetch and   *)
(* do_uninstall, once cave perform has been started.                       *)
(***************************************************************************)
WaitForPerform ==
    /\ job = "waiting"
    /\ perform \in {"exited", "killed"}
    /\ ctl' = [ctl EXCEPT !["perform"] = TRUE]
    /\ job' = "joining"
    /\ UNCHANGED <<kind, outputVars, loop, ready, command, response, performVars, copyVars,
                   manager, log, main>>

(* Mutant of Finish: ~IPCInputManager relies on the FINISHED of the child. *)
AwaitFinish == UNCHANGED finished

Finish == finished' = TRUE

(***************************************************************************)
(* The loop is joined.  do_uninstall then says that the output manager     *)
(* succeeded, whatever came of it.  ~IPCInputManager tells the copy thread *)
(* to end.                                                                 *)
(***************************************************************************)
JoinPerform ==
    /\ job = "joining"
    /\ loop["perform"] = "exited"
    /\ log' = IF kind = "uninstall" /\ manager = "tee" THEN LogSucceeded ELSE log
    /\ Finish
    /\ job' = "destroying"
    /\ UNCHANGED <<kind, outputVars, loopVars, performVars, copy, copyReady, manager, main>>

JoinCopy ==
    /\ job = "destroying"
    /\ copy \in {"absent", "exited"}
    /\ job' = "over"
    /\ UNCHANGED <<kind, outputVars, loopVars, performVars, copyVars, manager, log, main>>

(* Executor::_one                                                          *)
PushReady ==
    /\ job = "over"
    /\ main = "waiting"
    /\ job' = "ready"
    /\ UNCHANGED <<kind, outputVars, loopVars, performVars, copyVars, manager, log, main>>

-----------------------------------------------------------------------------
(***************************************************************************)
(* The executor's main thread: it holds the mutex except while it waits.   *)
(***************************************************************************)
WantToFlush == manager = "tee" /\ Waiting(buffered) # {}

(* BufferOutputManager::flush                                              *)
Flush ==
    /\ screen' = [s \in Streams |-> screen[s] \o buffered[s]]
    /\ buffered' = Empty

(***************************************************************************)
(* wait_for returns, and flush_threaded is called, which puts off showing  *)
(* anything, for up to two seconds, while another job is shown.            *)
(***************************************************************************)
FlushThreaded(really) ==
    /\ main = "waiting"
    /\ job # "posted"
    /\ main' = "draining"
    /\ IF WantToFlush /\ really THEN Flush ELSE UNCHANGED <<screen, buffered>>
    /\ UNCHANGED <<kind, wrote, captured, ipc, logged, active, loopVars, performVars, copyVars,
                   manager, log, job>>

(* FileOutputManager::nothing_more_to_come, without keep_on_empty.         *)
LogClosed ==
    [log EXCEPT !.open = FALSE, !.exists = @ /\ \E s \in Streams : logged[s] # <<>>]

(***************************************************************************)
(* post_execute_exclusive: what is left is shown, and the log is closed.   *)
(***************************************************************************)
PostExecute ==
    /\ main = "draining"
    /\ job = "ready"
    /\ IF WantToFlush THEN Flush ELSE UNCHANGED <<screen, buffered>>
    /\ log' = IF manager = "tee" THEN LogClosed ELSE log
    /\ job' = "posted"
    /\ UNCHANGED <<kind, wrote, captured, ipc, logged, active, loopVars, performVars, copyVars,
                   manager, main>>

WaitAgain ==
    /\ main = "draining"
    /\ job # "ready"
    /\ main' = "waiting"
    /\ UNCHANGED <<kind, outputVars, loopVars, performVars, copyVars, manager, log, job>>

-----------------------------------------------------------------------------
Phase ==
    \/ \E s \in Streams, line \in BOOLEAN : PhaseWrites(s, line)
    \/ PhaseAsks
    \/ PhaseIsAnswered
    \/ \E ok \in BOOLEAN : PhaseExits(ok)

PhaseLoop ==
    \/ Select("phase") \/ LoopEnds("phase") \/ PassOn \/ PassBack
    \/ \E s \in Streams, k \in 1..PipeSize : ReadCaptured(s, k)

Perform ==
    \/ FailsAtOnce \/ AsksPing \/ IsAnswered
    \/ \E s \in Streams, line \in BOOLEAN : PerformWrites(s, line)
    \/ RunPhase \/ WaitForPhase \/ JoinPhase
    \/ Succeeds \/ Fails \/ AsksFinished

PerformLoop == Select("perform") \/ LoopEnds("perform")

Handler ==
    \/ HandlePing \/ HandleSucceeded \/ HandleIgnoreSucceeded \/ HandleFinished
    \/ \E ok \in BOOLEAN : HandleCreate(ok)

CopyThread ==
    \/ CopySelect \/ CopyEnds
    \/ \E s \in Streams, k \in 1..PipeSize : Copy(s, k)

JobThread == WaitForPerform \/ JoinPerform \/ JoinCopy

Main == PostExecute \/ WaitAgain \/ \E really \in BOOLEAN : FlushThreaded(really)

Next ==
    \/ Phase \/ PhaseLoop \/ Perform \/ Killed
    \/ PerformLoop \/ Handler \/ CopyThread \/ JobThread \/ PushReady \/ Main

(***************************************************************************)
(* Every process and thread that can run does.  The mutex of the executor, *)
(* which main gives up in every round, is got in the end.                  *)
(***************************************************************************)
Fairness ==
    /\ WF_vars(Phase) /\ WF_vars(PhaseLoop) /\ WF_vars(Perform) /\ WF_vars(PerformLoop)
    /\ WF_vars(CopyThread) /\ WF_vars(JobThread) /\ WF_vars(Main)
    /\ SF_vars(Handler) /\ SF_vars(PushReady)

Spec == Init /\ [][Next]_vars

FairSpec == Spec /\ Fairness
-----------------------------------------------------------------------------

(***************************************************************************)
(* Output is neither lost, nor doubled, nor does it change places, on its  *)
(* way through three processes.  When the job is over it is all in the     *)
(* log, and on the screen but for a last line that does not end.  If cave  *)
(* perform is killed, this goes for what it had passed on.                 *)
(***************************************************************************)
OutputDelivered ==
    \A s \in Streams :
        LET passedOn == logged[s] \o ipc[s] \o captured[s] IN
        /\ IF perform = "killed" THEN IsPrefix(passedOn, wrote[s]) ELSE passedOn = wrote[s]
        /\ screen[s] \o buffered[s] \o active[s] = logged[s]
        /\ job = "posted" =>
              ipc[s] = <<>> /\ captured[s] = <<>> /\ buffered[s] = <<>>

(***************************************************************************)
(* In the end there is no log unless there was output, and the action      *)
(* failed or a phase has asked for the log to be kept; it is there if a    *)
(* phase has asked for it, or if it is that of an installation that has    *)
(* failed.  (For an uninstallation that fails see FailuresAreLogged.)      *)
(***************************************************************************)
HasOutput == \E s \in Streams : logged[s] # <<>>

LogMatchesOutcome ==
    job = "posted" /\ manager = "tee" =>
        /\ log.exists => HasOutput
        /\ HasOutput /\ ~ actionOK /\ kind = "install" => log.exists
        /\ perform = "exited" =>
              /\ log.exists => asked \/ ~ actionOK
              /\ HasOutput /\ asked => log.exists

(***************************************************************************)
(* "Called if an action succeeds", output_manager.hh:68 says of succeeded, *)
(* without which failure is assumed and the log is kept: what an action    *)
(* that fails has written can be read afterwards.  do_uninstall() calls it *)
(* whatever the exit status was.                                           *)
(***************************************************************************)
FailuresAreLogged ==
    job = "posted" /\ manager = "tee" /\ HasOutput /\ ~ actionOK => log.exists

(***************************************************************************)
(* The streams of the IPCOutputManager have no lock: of the two threads of *)
(* cave perform, only one may be waiting for an answer.                    *)
(***************************************************************************)
OneQuestionAtATime == ~ (loop["phase"] = "handling" /\ perform \in Asking)

(***************************************************************************)
(* However cave perform ends, the job ends: nobody waits for ever, for an  *)
(* answer, for room in a pipe, or for a thread that was not told to end.   *)
(***************************************************************************)
JobComesBack == <>(job = "posted")
================================================================================
