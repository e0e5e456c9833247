-------------------------- MODULE ManagedOutputProofs --------------------------
(***************************************************************************)
(* Proofs about ManagedOutput, for any number of pieces of output and of   *)
(* phases, pipes of any size, and any pieces that end lines.  The          *)
(* inductive invariant says which threads there are in every step of cave  *)
(* perform, whose command is under way, that a thread which is told to end *)
(* leaves nothing unread behind it, and what the log has been told.        *)
(***************************************************************************)
EXTENDS ManagedOutput, SequenceTheorems, TLAPS

Pieces == [n : Nat, line : BOOLEAN]

Outputs == [Streams -> Seq(Pieces)]

Commands == {None, "KEEP_LOGS", "PING", "CREATE", "SUCCEEDED", "FINISHED", "IGNORE_SUCCEEDED"}

PerformSteps ==
    Asking \cup {"starting", "acting", "phase", "joining", "acted", "failing", "exited", "killed"}

OutputTypeOK ==
    /\ wrote \in Outputs /\ captured \in Outputs /\ ipc \in Outputs /\ logged \in Outputs
    /\ buffered \in Outputs /\ active \in Outputs /\ screen \in Outputs

ControlTypeOK ==
    /\ kind \in {"install", "uninstall"}
    /\ loop \in [Processes -> {"absent", "select", "work", "handling", "exited"}]
    /\ ready \in [Processes -> SUBSET (Streams \cup {"command", "ctl"})]
    /\ ctl \in [Processes -> BOOLEAN]
    /\ command \in [Processes -> Commands]
    /\ response \in [Processes -> {None, "O", "E"}]
    /\ phase \in {"none", "running", "asking", "over"}
    /\ phaseOK \in BOOLEAN /\ actionOK \in BOOLEAN /\ asked \in BOOLEAN
    /\ perform \in PerformSteps
    /\ copy \in {"absent", "select", "work", "exited"}
    /\ copyReady \in SUBSET (Streams \cup {"finished"})
    /\ finished \in BOOLEAN
    /\ manager \in {"none", "tee", "standard"}
    /\ log \in [open : BOOLEAN, exists : BOOLEAN, ignore_succeeded : BOOLEAN]
    /\ job \in {"waiting", "joining", "destroying", "over", "ready", "posted"}
    /\ main \in {"waiting", "draining"}

InPhase == perform \in {"phase", "joining"}

Gone == perform \in {"exited", "killed"}

(***************************************************************************)
(* A phase, and the thread that reads its output, are there while cave     *)
(* perform waits for them, and the thread ends with nothing left to read.  *)
(***************************************************************************)
PhaseIsReadOut ==
    /\ loop["phase"] # "absent" <=> InPhase
    /\ phase # "none" <=> InPhase
    /\ perform = "joining" => phase = "over"
    /\ ctl["phase"] => perform = "joining"
    /\ loop["phase"] = "work" /\ "command" \in ready["phase"] => command["phase"] # None
    /\ loop["phase"] = "work" /\ "ctl" \in ready["phase"] =>
          perform = "joining" /\ captured = Empty /\ command["phase"] = None
    /\ loop["phase"] = "exited" => perform = "joining" /\ ~ ctl["phase"]
    /\ loop["phase"] \in {"absent", "exited"} => captured = Empty /\ command["phase"] = None

(***************************************************************************)
(* A command of cave perform's is under way, or answered, exactly while    *)
(* one of its threads waits for that answer.                               *)
(***************************************************************************)
Question == [pinging |-> "PING", creating |-> "CREATE", succeeding |-> "SUCCEEDED",
             finishing |-> "FINISHED"]

UnderWay(c) ==
    \/ command["perform"] = c /\ response["perform"] = None
    \/ command["perform"] = None /\ response["perform"] # None

Conversation ==
    /\ perform \in Asking => UnderWay(Question[perform])
    /\ loop["phase"] = "handling" => UnderWay("IGNORE_SUCCEEDED")
    /\ perform \notin Asking \cup {"killed"} /\ loop["phase"] # "handling" =>
          command["perform"] = None /\ response["perform"] = None

(***************************************************************************)
(* The commands that are in the pipe when cave perform is killed are still *)
(* handled: what they say of the rest.                                     *)
(***************************************************************************)
CommandsMean ==
    /\ command["phase"] # None => asked
    /\ command["perform"] = "CREATE" => manager = "none"
    /\ command["perform"] = "SUCCEEDED" =>
          actionOK /\ kind = "install" /\ perform \in {"succeeding", "killed"}
    /\ command["perform"] = "FINISHED" => perform \in {"finishing", "killed"}
    /\ command["perform"] = "IGNORE_SUCCEEDED" => asked

ManagerInPlace ==
    /\ perform \in {"starting", "pinging"} => manager = "none"
    /\ perform = "creating" /\ response["perform"] = "O" => manager = "tee"
    /\ perform \in {"acting", "phase", "joining", "succeeding", "acted", "failing",
           "finishing"} =>
          manager = "tee"
    /\ copy = "absent" <=> manager # "tee"
    /\ manager # "tee" => ipc = Empty /\ buffered = Empty

(***************************************************************************)
(* The thread that handles commands ends when cave perform has, with none  *)
(* left; the copy thread when no more can come, with nothing left.         *)
(***************************************************************************)
JobIsReadOut ==
    /\ job # "waiting" \/ ctl["perform"] \/ loop["perform"] = "exited" => Gone
    /\ loop["perform"] = "work" /\ "ctl" \in ready["perform"] => Gone /\ command["perform"] = None
    /\ loop["perform"] = "exited" => command["perform"] = None
    /\ job \notin {"waiting", "joining"} => loop["perform"] = "exited"
    /\ finished => perform \in {"finishing", "exited", "killed"}
    /\ copy = "exited" \/ (copy = "work" /\ "finished" \in copyReady) =>
          ipc = Empty /\ perform \in {"finishing", "exited", "killed"}
    /\ job \in {"over", "ready", "posted"} => copy \in {"absent", "exited"}
    /\ job = "posted" => buffered = Empty

(***************************************************************************)
(* What was passed on, and what was shown.                                 *)
(***************************************************************************)
PassedOn ==
    \A s \in Streams :
        IF perform = "killed" THEN IsPrefix(logged[s] \o ipc[s] \o captured[s], wrote[s])
                              ELSE logged[s] \o ipc[s] \o captured[s] = wrote[s]

Shown == \A s \in Streams : screen[s] \o buffered[s] \o active[s] = logged[s]

(***************************************************************************)
(* The log has been told of the success; it would have output to keep.     *)
(***************************************************************************)
ToldOfSuccess ==
    \/ /\ kind = "install" /\ actionOK
       /\ perform \in {"acted", "finishing", "exited"}
            \/ (perform = "succeeding" /\ command["perform"] = None)
    \/ kind = "uninstall" /\ job \notin {"waiting", "joining"}

NotEmpty == job = "posted" => \E s \in Streams : logged[s] # <<>>

LogIsKept ==
    /\ actionOK => perform \in {"succeeding", "acted", "finishing", "exited", "killed"}
    /\ perform = "creating" /\ manager = "tee" => log.exists
    /\ perform \in {"acting", "phase", "joining"} => log.exists
    /\ command["perform"] = "IGNORE_SUCCEEDED" => log.exists
    /\ log.ignore_succeeded => asked
    /\ asked /\ perform # "killed" =>
          \/ command["phase"] # None
          \/ loop["phase"] = "handling" /\ command["perform"] # None
          \/ log.ignore_succeeded
    /\ manager = "tee" =>
          /\ log.exists => NotEmpty
          /\ NotEmpty /\ ~ log.exists => (actionOK \/ kind = "uninstall") /\ ~ log.ignore_succeeded
          /\ ToldOfSuccess /\ log.exists => log.ignore_succeeded

ControlInv ==
    /\ ControlTypeOK
    /\ PhaseIsReadOut
    /\ Conversation
    /\ CommandsMean
    /\ ManagerInPlace

Managed ==
    /\ OutputTypeOK
    /\ ControlInv
    /\ JobIsReadOut
    /\ PassedOn
    /\ Shown
    /\ LogIsKept

-----------------------------------------------------------------------------

(* A step keeps every flag, command and step of a thread in its range.     *)
LEMMA ControlTypeKept ==
    ASSUME ControlTypeOK, [Next]_vars
    PROVE  ControlTypeOK'
<1> USE DEF Processes, Streams, None, Asking, PerformSteps, Commands, ControlTypeOK, outputVars,
            loopVars, performVars, copyVars, caveVars
<1>1. CASE \E s \in Streams, line \in BOOLEAN : PhaseWrites(s, line)
  BY <1>1 DEF PhaseWrites, Write
<1>2. CASE PhaseAsks
  BY <1>2 DEF PhaseAsks
<1>3. CASE PhaseIsAnswered
  BY <1>3 DEF PhaseIsAnswered
<1>4. CASE \E ok \in BOOLEAN : PhaseExits(ok)
  BY <1>4 DEF PhaseExits
<1>5. CASE Select("phase")
  BY <1>5 DEF Select, DealWith, Readable, Waiting
<1>6. CASE LoopEnds("phase")
  BY <1>6 DEF LoopEnds
<1>7. CASE PassOn
  BY <1>7 DEF PassOn
<1>8. CASE PassBack
  BY <1>8 DEF PassBack
<1>9. CASE \E s \in Streams, k \in 1..PipeSize : ReadCaptured(s, k)
  BY <1>9 DEF ReadCaptured, DoneWith
<1>10. CASE FailsAtOnce
  BY <1>10 DEF FailsAtOnce, Exit
<1>11. CASE AsksPing
  BY <1>11 DEF AsksPing, Ask
<1>12. CASE IsAnswered
  BY <1>12 DEF IsAnswered, Ask
<1>13. CASE \E s \in Streams, line \in BOOLEAN : PerformWrites(s, line)
  BY <1>13 DEF PerformWrites, Write
<1>14. CASE RunPhase
  BY <1>14 DEF RunPhase
<1>15. CASE WaitForPhase
  BY <1>15 DEF WaitForPhase
<1>16. CASE JoinPhase
  BY <1>16 DEF JoinPhase
<1>17. CASE Succeeds
  BY <1>17 DEF Succeeds, Ask
<1>18. CASE Fails
  BY <1>18 DEF Fails
<1>19. CASE AsksFinished
  BY <1>19 DEF AsksFinished, Ask
<1>20. CASE Killed
  BY <1>20 DEF Killed
<1>21. CASE Select("perform")
  BY <1>21 DEF Select, DealWith, Readable
<1>22. CASE LoopEnds("perform")
  BY <1>22 DEF LoopEnds
<1>23. CASE HandlePing
  BY <1>23 DEF HandlePing, Handles, Answers, DoneWith
<1>24. CASE HandleSucceeded
  <2>1. log' \in [open : BOOLEAN, exists : BOOLEAN, ignore_succeeded : BOOLEAN]
    BY <1>24 DEF HandleSucceeded, Handles, Answers, DoneWith, LogSucceeded
  <2>2. QED BY <1>24, <2>1 DEF HandleSucceeded, Handles, Answers, DoneWith
<1>25. CASE HandleIgnoreSucceeded
  <2>1. log' \in [open : BOOLEAN, exists : BOOLEAN, ignore_succeeded : BOOLEAN]
    BY <1>25 DEF HandleIgnoreSucceeded, Handles, Answers, DoneWith
  <2>2. QED BY <1>25, <2>1 DEF HandleIgnoreSucceeded, Handles, Answers, DoneWith
<1>26. CASE HandleFinished
  BY <1>26 DEF HandleFinished, Handles, Answers, DoneWith
<1>27. CASE \E ok \in BOOLEAN : HandleCreate(ok)
  <2>1. log' \in [open : BOOLEAN, exists : BOOLEAN, ignore_succeeded : BOOLEAN]
    BY <1>27 DEF HandleCreate, Handles, Answers, DoneWith
  <2>2. QED BY <1>27, <2>1 DEF HandleCreate, Handles, Answers, DoneWith
<1>28. CASE CopySelect
  BY <1>28 DEF CopySelect, Waiting
<1>29. CASE CopyEnds
  <2>1. copyReady' \in SUBSET (Streams \cup {"finished"})
    BY <1>29 DEF CopyEnds
  <2>2. copy' \in {"absent", "select", "work", "exited"} /\ finished' \in BOOLEAN
    BY <1>29 DEF CopyEnds
  <2>3. UNCHANGED <<kind, loopVars, performVars, caveVars>>
    BY <1>29 DEF CopyEnds
  <2> QED BY <2>1, <2>2, <2>3
<1>30. CASE \E s \in Streams, k \in 1..PipeSize : Copy(s, k)
  BY <1>30 DEF Copy
<1>31. CASE WaitForPerform
  BY <1>31 DEF WaitForPerform
<1>32. CASE JoinPerform
  <2>1. log' \in [open : BOOLEAN, exists : BOOLEAN, ignore_succeeded : BOOLEAN]
    BY <1>32 DEF JoinPerform, Finish, LogSucceeded
  <2>2. QED BY <1>32, <2>1 DEF JoinPerform, Finish
<1>33. CASE JoinCopy
  BY <1>33 DEF JoinCopy
<1>34. CASE PushReady
  BY <1>34 DEF PushReady
<1>35. CASE PostExecute
  <2>1. log' \in [open : BOOLEAN, exists : BOOLEAN, ignore_succeeded : BOOLEAN]
    BY <1>35 DEF PostExecute, LogClosed
  <2>2. QED BY <1>35, <2>1 DEF PostExecute
<1>36. CASE WaitAgain
  BY <1>36 DEF WaitAgain
<1>37. CASE \E really \in BOOLEAN : FlushThreaded(really)
  BY <1>37 DEF FlushThreaded, WantToFlush, Flush
<1>38. CASE UNCHANGED vars
  BY <1>38 DEF vars
<1> QED
  BY <1>1, <1>2, <1>3, <1>4, <1>5, <1>6, <1>7, <1>8, <1>9, <1>10, <1>11, <1>12, <1>13, <1>14,
     <1>15, <1>16, <1>17, <1>18, <1>19, <1>20, <1>21, <1>22, <1>23, <1>24, <1>25, <1>26, <1>27,
     <1>28, <1>29, <1>30, <1>31, <1>32, <1>33, <1>34, <1>35, <1>36, <1>37, <1>38
  DEF Next, Phase, PhaseLoop, Perform, PerformLoop, Handler, CopyThread, JobThread, Main

(***************************************************************************)
(* A step keeps what is known of the phase, of the commands under way and  *)
(* of the output manager.                                                  *)
(***************************************************************************)
LEMMA ControlKept ==
    ASSUME OutputTypeOK, ControlInv, [Next]_vars
    PROVE  (PhaseIsReadOut /\ Conversation /\ CommandsMean /\ ManagerInPlace)'
<1> USE DEF Processes, Streams, None, Asking, PerformSteps, Commands, ControlTypeOK, outputVars,
            loopVars, performVars, copyVars, caveVars, ControlInv, PhaseIsReadOut, Conversation,
            CommandsMean, ManagerInPlace, InPhase, Question, UnderWay, Empty
<1>1. CASE \E s \in Streams, line \in BOOLEAN : PhaseWrites(s, line)
  BY <1>1 DEF PhaseWrites, Write
<1>2. CASE PhaseAsks
  BY <1>2 DEF PhaseAsks
<1>3. CASE PhaseIsAnswered
  BY <1>3 DEF PhaseIsAnswered
<1>4. CASE \E ok \in BOOLEAN : PhaseExits(ok)
  BY <1>4 DEF PhaseExits
<1>5. CASE Select("phase")
  <2>1. ready'["phase"] = {"ctl"} => captured = Empty /\ command["phase"] = None /\ ctl["phase"]
    BY <1>5 DEF Select, DealWith, Readable, Waiting, OutputTypeOK, Outputs
  <2>2. "command" \in ready'["phase"] => command["phase"] # None
    BY <1>5 DEF Select, DealWith, Readable, Waiting
  <2>3. "ctl" \in ready'["phase"] => ready'["phase"] = {"ctl"}
    BY <1>5 DEF Select, DealWith, Readable, Waiting
  <2>4. PhaseIsReadOut'
    BY <1>5, <2>1, <2>2, <2>3 DEF Select
  <2>5. (Conversation /\ CommandsMean /\ ManagerInPlace)'
    BY <1>5 DEF Select
  <2> QED BY <2>4, <2>5
<1>6. CASE LoopEnds("phase")
  BY <1>6 DEF LoopEnds
<1>7. CASE PassOn
  <2>1. PhaseIsReadOut'
    BY <1>7 DEF PassOn
  <2>2. Conversation'
    BY <1>7 DEF PassOn
  <2>3. CommandsMean'
    BY <1>7 DEF PassOn
  <2>4. ManagerInPlace'
    BY <1>7 DEF PassOn
  <2> QED BY <2>1, <2>2, <2>3, <2>4
<1>8. CASE PassBack
  BY <1>8 DEF PassBack
<1>9. CASE \E s \in Streams, k \in 1..PipeSize : ReadCaptured(s, k)
  BY <1>9 DEF ReadCaptured, DoneWith
<1>10. CASE FailsAtOnce
  BY <1>10 DEF FailsAtOnce, Exit
<1>11. CASE AsksPing
  BY <1>11 DEF AsksPing, Ask
<1>12. CASE IsAnswered
  BY <1>12 DEF IsAnswered, Ask
<1>13. CASE \E s \in Streams, line \in BOOLEAN : PerformWrites(s, line)
  BY <1>13 DEF PerformWrites, Write
<1>14. CASE RunPhase
  BY <1>14 DEF RunPhase
<1>15. CASE WaitForPhase
  BY <1>15 DEF WaitForPhase
<1>16. CASE JoinPhase
  <2>1. PhaseIsReadOut'
    BY <1>16 DEF JoinPhase
  <2>2. Conversation'
    BY <1>16 DEF JoinPhase
  <2>3. CommandsMean'
    BY <1>16 DEF JoinPhase
  <2>4. ManagerInPlace'
    BY <1>16 DEF JoinPhase
  <2> QED BY <2>1, <2>2, <2>3, <2>4
<1>17. CASE Succeeds
  BY <1>17 DEF Succeeds, Ask
<1>18. CASE Fails
  BY <1>18 DEF Fails
<1>19. CASE AsksFinished
  BY <1>19 DEF AsksFinished, Ask
<1>20. CASE Killed
  BY <1>20 DEF Killed
<1>21. CASE Select("perform")
  BY <1>21 DEF Select, DealWith, Readable
<1>22. CASE LoopEnds("perform")
  BY <1>22 DEF LoopEnds
<1>23. CASE HandlePing
  BY <1>23 DEF HandlePing, Handles, Answers, DoneWith
<1>24. CASE HandleSucceeded
  BY <1>24 DEF HandleSucceeded, Handles, Answers, DoneWith, LogSucceeded
<1>25. CASE HandleIgnoreSucceeded
  BY <1>25 DEF HandleIgnoreSucceeded, Handles, Answers, DoneWith
<1>26. CASE HandleFinished
  BY <1>26 DEF HandleFinished, Handles, Answers, DoneWith
<1>27. CASE \E ok \in BOOLEAN : HandleCreate(ok)
  BY <1>27 DEF HandleCreate, Handles, Answers, DoneWith
<1>28. CASE CopySelect
  BY <1>28 DEF CopySelect, Waiting
<1>29. CASE CopyEnds
  BY <1>29 DEF CopyEnds
<1>30. CASE \E s \in Streams, k \in 1..PipeSize : Copy(s, k)
  BY <1>30 DEF Copy
<1>31. CASE WaitForPerform
  BY <1>31 DEF WaitForPerform
<1>32. CASE JoinPerform
  <2>1. PhaseIsReadOut'
    BY <1>32 DEF JoinPerform, Finish, LogSucceeded
  <2>2. Conversation'
    BY <1>32 DEF JoinPerform, Finish, LogSucceeded
  <2>3. CommandsMean'
    BY <1>32 DEF JoinPerform, Finish, LogSucceeded
  <2>4. ManagerInPlace'
    BY <1>32 DEF JoinPerform, Finish, LogSucceeded
  <2> QED BY <2>1, <2>2, <2>3, <2>4
<1>33. CASE JoinCopy
  BY <1>33 DEF JoinCopy
<1>34. CASE PushReady
  BY <1>34 DEF PushReady
<1>35. CASE PostExecute
  <2>1. PhaseIsReadOut'
    BY <1>35 DEF PostExecute, WantToFlush, Flush, LogClosed, Waiting
  <2>2. Conversation'
    BY <1>35 DEF PostExecute, WantToFlush, Flush, LogClosed, Waiting
  <2>3. CommandsMean'
    BY <1>35 DEF PostExecute, WantToFlush, Flush, LogClosed, Waiting
  <2>4. ManagerInPlace'
    BY <1>35 DEF PostExecute, WantToFlush, Flush, LogClosed, Waiting
  <2> QED BY <2>1, <2>2, <2>3, <2>4
<1>36. CASE WaitAgain
  BY <1>36 DEF WaitAgain
<1>37. CASE \E really \in BOOLEAN : FlushThreaded(really)
  <2>1. PhaseIsReadOut'
    BY <1>37 DEF FlushThreaded, WantToFlush, Flush
  <2>2. Conversation'
    BY <1>37 DEF FlushThreaded, WantToFlush, Flush
  <2>3. CommandsMean'
    BY <1>37 DEF FlushThreaded, WantToFlush, Flush
  <2>4. ManagerInPlace'
    BY <1>37 DEF FlushThreaded, WantToFlush, Flush
  <2> QED BY <2>1, <2>2, <2>3, <2>4
<1>38. CASE UNCHANGED vars
  BY <1>38 DEF vars
<1> QED
  BY <1>1, <1>2, <1>3, <1>4, <1>5, <1>6, <1>7, <1>8, <1>9, <1>10, <1>11, <1>12, <1>13, <1>14,
     <1>15, <1>16, <1>17, <1>18, <1>19, <1>20, <1>21, <1>22, <1>23, <1>24, <1>25, <1>26, <1>27,
     <1>28, <1>29, <1>30, <1>31, <1>32, <1>33, <1>34, <1>35, <1>36, <1>37, <1>38
  DEF Next, Phase, PhaseLoop, Perform, PerformLoop, Handler, CopyThread, JobThread, Main

(***************************************************************************)
(* A step keeps that no thread of cave ends with something left to handle  *)
(* or to copy, and that nothing is left to show after                      *)
(* post_execute_exclusive.                                                 *)
(***************************************************************************)
LEMMA JobIsReadOutKept ==
    ASSUME OutputTypeOK, ControlInv, JobIsReadOut, [Next]_vars
    PROVE  JobIsReadOut'
<1> USE DEF Processes, Streams, None, Asking, PerformSteps, Commands, ControlTypeOK, outputVars,
            loopVars, performVars, copyVars, caveVars, ControlInv, PhaseIsReadOut, Conversation,
            CommandsMean, ManagerInPlace, InPhase, Question, UnderWay, Empty, JobIsReadOut, Gone
<1>1. CASE \E s \in Streams, line \in BOOLEAN : PhaseWrites(s, line)
  BY <1>1 DEF PhaseWrites, Write
<1>2. CASE PhaseAsks
  BY <1>2 DEF PhaseAsks
<1>3. CASE PhaseIsAnswered
  BY <1>3 DEF PhaseIsAnswered
<1>4. CASE \E ok \in BOOLEAN : PhaseExits(ok)
  BY <1>4 DEF PhaseExits
<1>5. CASE Select("phase")
  BY <1>5 DEF Select, DealWith, Readable, Waiting
<1>6. CASE LoopEnds("phase")
  BY <1>6 DEF LoopEnds
<1>7. CASE PassOn
  BY <1>7 DEF PassOn
<1>8. CASE PassBack
  BY <1>8 DEF PassBack
<1>9. CASE \E s \in Streams, k \in 1..PipeSize : ReadCaptured(s, k)
  BY <1>9 DEF ReadCaptured, DoneWith
<1>10. CASE FailsAtOnce
  BY <1>10 DEF FailsAtOnce, Exit
<1>11. CASE AsksPing
  BY <1>11 DEF AsksPing, Ask
<1>12. CASE IsAnswered
  BY <1>12 DEF IsAnswered, Ask
<1>13. CASE \E s \in Streams, line \in BOOLEAN : PerformWrites(s, line)
  BY <1>13 DEF PerformWrites, Write
<1>14. CASE RunPhase
  BY <1>14 DEF RunPhase
<1>15. CASE WaitForPhase
  BY <1>15 DEF WaitForPhase
<1>16. CASE JoinPhase
  BY <1>16 DEF JoinPhase
<1>17. CASE Succeeds
  BY <1>17 DEF Succeeds, Ask
<1>18. CASE Fails
  BY <1>18 DEF Fails
<1>19. CASE AsksFinished
  BY <1>19 DEF AsksFinished, Ask
<1>20. CASE Killed
  BY <1>20 DEF Killed
<1>21. CASE Select("perform")
  BY <1>21 DEF Select, DealWith, Readable
<1>22. CASE LoopEnds("perform")
  BY <1>22 DEF LoopEnds
<1>23. CASE HandlePing
  BY <1>23 DEF HandlePing, Handles, Answers, DoneWith
<1>24. CASE HandleSucceeded
  BY <1>24 DEF HandleSucceeded, Handles, Answers, DoneWith, LogSucceeded
<1>25. CASE HandleIgnoreSucceeded
  BY <1>25 DEF HandleIgnoreSucceeded, Handles, Answers, DoneWith
<1>26. CASE HandleFinished
  BY <1>26 DEF HandleFinished, Handles, Answers, DoneWith
<1>27. CASE \E ok \in BOOLEAN : HandleCreate(ok)
  BY <1>27 DEF HandleCreate, Handles, Answers, DoneWith
<1>28. CASE CopySelect
  <2>1. copyReady' = {"finished"} => ipc = Empty /\ finished
    BY <1>28 DEF CopySelect, Waiting, OutputTypeOK, Outputs
  <2>2. "finished" \in copyReady' => copyReady' = {"finished"}
    BY <1>28 DEF CopySelect, Waiting
  <2> QED BY <1>28, <2>1, <2>2 DEF CopySelect
<1>29. CASE CopyEnds
  BY <1>29 DEF CopyEnds
<1>30. CASE \E s \in Streams, k \in 1..PipeSize : Copy(s, k)
  BY <1>30 DEF Copy
<1>31. CASE WaitForPerform
  BY <1>31 DEF WaitForPerform
<1>32. CASE JoinPerform
  BY <1>32 DEF JoinPerform, Finish, LogSucceeded
<1>33. CASE JoinCopy
  BY <1>33 DEF JoinCopy
<1>34. CASE PushReady
  BY <1>34 DEF PushReady
<1>35. CASE PostExecute
  <2>1. buffered' = Empty
    BY <1>35 DEF PostExecute, WantToFlush, Flush, Waiting, OutputTypeOK, Outputs
  <2>2. UNCHANGED <<wrote, captured, ipc, logged, active, loopVars, performVars, copyVars,
         manager, main>>
    BY <1>35 DEF PostExecute
  <2>3. job = "ready" /\ job' = "posted"
    BY <1>35 DEF PostExecute
  <2> QED BY <2>1, <2>2, <2>3
<1>36. CASE WaitAgain
  BY <1>36 DEF WaitAgain
<1>37. CASE \E really \in BOOLEAN : FlushThreaded(really)
  BY <1>37 DEF FlushThreaded, WantToFlush, Flush
<1>38. CASE UNCHANGED vars
  BY <1>38 DEF vars
<1> QED
  BY <1>1, <1>2, <1>3, <1>4, <1>5, <1>6, <1>7, <1>8, <1>9, <1>10, <1>11, <1>12, <1>13, <1>14,
     <1>15, <1>16, <1>17, <1>18, <1>19, <1>20, <1>21, <1>22, <1>23, <1>24, <1>25, <1>26, <1>27,
     <1>28, <1>29, <1>30, <1>31, <1>32, <1>33, <1>34, <1>35, <1>36, <1>37, <1>38
  DEF Next, Phase, PhaseLoop, Perform, PerformLoop, Handler, CopyThread, JobThread, Main

(***************************************************************************)
(* A step keeps that the log is there but for a success that nobody asked  *)
(* to ignore, as FileOutputManager::succeeded looks at ignore_succeeded.   *)
(***************************************************************************)
LEMMA LogIsKeptKept ==
    ASSUME OutputTypeOK, ControlInv, JobIsReadOut, LogIsKept, [Next]_vars
    PROVE  LogIsKept'
<1> USE DEF Processes, Streams, None, Asking, PerformSteps, Commands, ControlTypeOK, outputVars,
            loopVars, performVars, copyVars, caveVars, ControlInv, PhaseIsReadOut, Conversation,
            CommandsMean, ManagerInPlace, InPhase, Question, UnderWay, Empty, JobIsReadOut, Gone,
            LogIsKept, NotEmpty, ToldOfSuccess
<1>1. CASE \E s \in Streams, line \in BOOLEAN : PhaseWrites(s, line)
  BY <1>1 DEF PhaseWrites, Write
<1>2. CASE PhaseAsks
  BY <1>2 DEF PhaseAsks
<1>3. CASE PhaseIsAnswered
  BY <1>3 DEF PhaseIsAnswered
<1>4. CASE \E ok \in BOOLEAN : PhaseExits(ok)
  BY <1>4 DEF PhaseExits
<1>5. CASE Select("phase")
  BY <1>5 DEF Select, DealWith, Readable, Waiting
<1>6. CASE LoopEnds("phase")
  BY <1>6 DEF LoopEnds
<1>7. CASE PassOn
  BY <1>7 DEF PassOn
<1>8. CASE PassBack
  BY <1>8 DEF PassBack
<1>9. CASE \E s \in Streams, k \in 1..PipeSize : ReadCaptured(s, k)
  BY <1>9 DEF ReadCaptured, DoneWith
<1>10. CASE FailsAtOnce
  BY <1>10 DEF FailsAtOnce, Exit
<1>11. CASE AsksPing
  BY <1>11 DEF AsksPing, Ask
<1>12. CASE IsAnswered
  BY <1>12 DEF IsAnswered, Ask
<1>13. CASE \E s \in Streams, line \in BOOLEAN : PerformWrites(s, line)
  BY <1>13 DEF PerformWrites, Write
<1>14. CASE RunPhase
  BY <1>14 DEF RunPhase
<1>15. CASE WaitForPhase
  BY <1>15 DEF WaitForPhase
<1>16. CASE JoinPhase
  BY <1>16 DEF JoinPhase
<1>17. CASE Succeeds
  BY <1>17 DEF Succeeds, Ask
<1>18. CASE Fails
  BY <1>18 DEF Fails
<1>19. CASE AsksFinished
  BY <1>19 DEF AsksFinished, Ask
<1>20. CASE Killed
  BY <1>20 DEF Killed
<1>21. CASE Select("perform")
  BY <1>21 DEF Select, DealWith, Readable
<1>22. CASE LoopEnds("perform")
  BY <1>22 DEF LoopEnds
<1>23. CASE HandlePing
  BY <1>23 DEF HandlePing, Handles, Answers, DoneWith
<1>24. CASE HandleSucceeded
  BY <1>24 DEF HandleSucceeded, Handles, Answers, DoneWith, LogSucceeded
<1>25. CASE HandleIgnoreSucceeded
  BY <1>25 DEF HandleIgnoreSucceeded, Handles, Answers, DoneWith
<1>26. CASE HandleFinished
  BY <1>26 DEF HandleFinished, Handles, Answers, DoneWith
<1>27. CASE \E ok \in BOOLEAN : HandleCreate(ok)
  BY <1>27 DEF HandleCreate, Handles, Answers, DoneWith
<1>28. CASE CopySelect
  BY <1>28 DEF CopySelect, Waiting
<1>29. CASE CopyEnds
  BY <1>29 DEF CopyEnds
<1>30. CASE \E s \in Streams, k \in 1..PipeSize : Copy(s, k)
  BY <1>30 DEF Copy
<1>31. CASE WaitForPerform
  BY <1>31 DEF WaitForPerform
<1>32. CASE JoinPerform
  BY <1>32 DEF JoinPerform, Finish, LogSucceeded
<1>33. CASE JoinCopy
  BY <1>33 DEF JoinCopy
<1>34. CASE PushReady
  BY <1>34 DEF PushReady
<1>35. CASE PostExecute
  BY <1>35 DEF PostExecute, WantToFlush, Flush, LogClosed, Waiting
<1>36. CASE WaitAgain
  BY <1>36 DEF WaitAgain
<1>37. CASE \E really \in BOOLEAN : FlushThreaded(really)
  BY <1>37 DEF FlushThreaded, WantToFlush, Flush
<1>38. CASE UNCHANGED vars
  BY <1>38 DEF vars
<1> QED
  BY <1>1, <1>2, <1>3, <1>4, <1>5, <1>6, <1>7, <1>8, <1>9, <1>10, <1>11, <1>12, <1>13, <1>14,
     <1>15, <1>16, <1>17, <1>18, <1>19, <1>20, <1>21, <1>22, <1>23, <1>24, <1>25, <1>26, <1>27,
     <1>28, <1>29, <1>30, <1>31, <1>32, <1>33, <1>34, <1>35, <1>36, <1>37, <1>38
  DEF Next, Phase, PhaseLoop, Perform, PerformLoop, Handler, CopyThread, JobThread, Main

-----------------------------------------------------------------------------

(* Two sequences of pieces make one.                                       *)
LEMMA Joined == \A a, b \in Seq(Pieces) : a \o b \in Seq(Pieces)
OBVIOUS

(* How pieces are put together makes no difference.                        *)
LEMMA Regroup == \A a, b, c \in Seq(Pieces) : (a \o b) \o c = a \o (b \o c)
BY ConcatAssociative

(***************************************************************************)
(* To move the first pieces of what is read to the end of what is written  *)
(* changes nothing of the two together: a read of RunningProcessThread or  *)
(* of the copy thread.                                                     *)
(***************************************************************************)
LEMMA PiecesMove ==
    \A a, b \in Seq(Pieces) : \A k \in 1..Len(b) :
        /\ SubSeq(b, 1, k) \in Seq(Pieces) /\ Drop(b, k) \in Seq(Pieces)
        /\ (a \o SubSeq(b, 1, k)) \o Drop(b, k) = a \o b
<1> TAKE a, b \in Seq(Pieces)
<1> TAKE k \in 1..Len(b)
<1>1. SubSeq(b, 1, k) \in Seq(Pieces) /\ Drop(b, k) \in Seq(Pieces)
  BY DEF Drop
<1>2. SubSeq(b, 1, k) \o Drop(b, k) = b
  <2>1. SubSeq(b, 1, k) \o SubSeq(b, k + 1, Len(b)) = SubSeq(b, 1, Len(b))
    BY ConcatAdjacentSubSeq
  <2> QED BY <2>1, SubSeqFull DEF Drop
<1>3. (a \o SubSeq(b, 1, k)) \o Drop(b, k) = a \o (SubSeq(b, 1, k) \o Drop(b, k))
  BY <1>1, Regroup
<1> QED BY <1>1, <1>2, <1>3

(* To write to the last of several pipes is to write to them all together. *)
LEMMA AppendToLast ==
    \A a, b \in Seq(Pieces), x \in Pieces :
        Append(b, x) \in Seq(Pieces) /\ a \o Append(b, x) = Append(a \o b, x)
OBVIOUS

(* Nothing put after some pieces leaves them.                              *)
LEMMA NothingMore ==
    \A a \in Seq(Pieces) : a \o <<>> = a
BY ConcatEmptySeq

(* What is there is a prefix of it with more.                              *)
LEMMA PrefixOfMore ==
    ASSUME NEW S, NEW a \in Seq(S), NEW b \in Seq(S)
    PROVE  IsPrefix(a, a \o b)
BY DEF IsPrefix

(***************************************************************************)
(* Only these steps touch what was written, and only Killed ends in        *)
(* "killed".                                                               *)
(***************************************************************************)
LEMMA OutputMovers ==
    ASSUME [Next]_vars
    PROVE  \/ \E t \in Streams, line \in BOOLEAN : PhaseWrites(t, line) \/ PerformWrites(t, line)
           \/ \E t \in Streams, k \in 1..PipeSize : ReadCaptured(t, k) \/ Copy(t, k)
           \/ Killed \/ PostExecute
           \/ \E really \in BOOLEAN : FlushThreaded(really)
           \/ UNCHANGED <<outputVars>> /\ (perform' = "killed" <=> perform = "killed")
<1>1. CASE UNCHANGED vars
  BY <1>1 DEF vars, performVars
<1>2. CASE Phase
  BY <1>2 DEF Phase, PhaseAsks, PhaseIsAnswered, PhaseExits, performVars
<1>3. CASE PhaseLoop
  BY <1>3 DEF PhaseLoop, Select, LoopEnds, PassOn, PassBack, performVars
<1>4. CASE Perform
  BY <1>4 DEF Perform, FailsAtOnce, Exit, AsksPing, IsAnswered, RunPhase, WaitForPhase,
         JoinPhase, Succeeds, Fails, AsksFinished, Ask
<1>5. CASE Killed \/ PushReady \/ JobThread \/ Main
  BY <1>5 DEF PushReady, JobThread, WaitForPerform, JoinPerform, JoinCopy, Main, WaitAgain,
         performVars
<1>6. CASE PerformLoop \/ Handler
  BY <1>6 DEF PerformLoop, Select, LoopEnds, Handler, HandlePing, HandleSucceeded,
         HandleIgnoreSucceeded, HandleFinished, HandleCreate, performVars
<1>7. CASE CopyThread
  BY <1>7 DEF CopyThread, CopySelect, CopyEnds, performVars
<1> QED BY <1>1, <1>2, <1>3, <1>4, <1>5, <1>6, <1>7 DEF Next

(* What is written is a piece.                                             *)
LEMMA PieceWritten ==
    ASSUME OutputTypeOK, NEW t \in Streams, NEW line \in BOOLEAN
    PROVE  Piece(t, line) \in Pieces
BY DEF OutputTypeOK, Outputs, Piece, Pieces

(* A step leaves pieces of output in every pipe, buffer and file.          *)
LEMMA OutputTypeKept ==
    ASSUME OutputTypeOK, [Next]_vars
    PROVE  OutputTypeOK'
<1> USE DEF OutputTypeOK, Outputs
<1>1. ASSUME NEW t \in Streams, NEW line \in BOOLEAN,
             PhaseWrites(t, line) \/ PerformWrites(t, line)
      PROVE  OutputTypeOK'
  <2>1. Append(wrote[t], Piece(t, line)) \in Seq(Pieces)
        /\ Append(captured[t], Piece(t, line)) \in Seq(Pieces)
        /\ Append(ipc[t], Piece(t, line)) \in Seq(Pieces)
    BY PieceWritten
  <2> QED BY <1>1, <2>1 DEF PhaseWrites, PerformWrites, Write
<1>2. ASSUME NEW t \in Streams, NEW k \in 1..PipeSize, ReadCaptured(t, k)
      PROVE  OutputTypeOK'
  <2>1. SubSeq(captured[t], 1, k) \in Seq(Pieces) /\ Drop(captured[t], k) \in Seq(Pieces)
    BY <1>2, PiecesMove DEF ReadCaptured
  <2>2. ipc[t] \o SubSeq(captured[t], 1, k) \in Seq(Pieces)
    BY <2>1
  <2> QED BY <1>2, <2>1, <2>2 DEF ReadCaptured
<1>3. ASSUME NEW t \in Streams, NEW k \in 1..PipeSize, Copy(t, k)
      PROVE  OutputTypeOK'
  <2> DEFINE got == SubSeq(ipc[t], 1, k)
  <2>1. got \in Seq(Pieces) /\ Drop(ipc[t], k) \in Seq(Pieces)
    BY <1>3, PiecesMove DEF Copy
  <2>2. /\ logged[t] \o got \in Seq(Pieces) /\ active[t] \o got \in Seq(Pieces)
        /\ buffered[t] \o active[t] \o got \in Seq(Pieces)
        /\ <<>> \in Seq(Pieces)
    BY <2>1
  <2> QED BY <1>3, <2>1, <2>2 DEF Copy
<1>4. ASSUME Killed PROVE OutputTypeOK'
  BY <1>4 DEF Killed, Empty
<1>5. ASSUME UNCHANGED <<wrote, captured, ipc, logged, active>>,
             Flush \/ UNCHANGED <<screen, buffered>>
      PROVE  OutputTypeOK'
  <2>1. [t \in Streams |-> screen[t] \o buffered[t]] \in Outputs
    BY ConcatProperties
  <2>2. Empty \in Outputs
    BY DEF Empty
  <2> QED BY <1>5, <2>1, <2>2 DEF Flush
<1>6. CASE PostExecute \/ \E really \in BOOLEAN : FlushThreaded(really)
  BY <1>5, <1>6 DEF PostExecute, FlushThreaded
<1>7. CASE UNCHANGED <<outputVars>>
  BY <1>7 DEF outputVars
<1> QED BY OutputMovers, <1>1, <1>2, <1>3, <1>4, <1>6, <1>7

(***************************************************************************)
(* A step keeps every piece on its way, in its place: what is logged, in   *)
(* the pipe to cave and in the pseudo terminal is what was written, or a   *)
(* prefix of it once cave perform was killed.                              *)
(***************************************************************************)
LEMMA PassedOnKept ==
    ASSUME OutputTypeOK, ControlInv, PassedOn, [Next]_vars
    PROVE  PassedOn'
<1>0. ASSUME NEW t \in Streams
      PROVE  /\ logged[t] \in Seq(Pieces) /\ ipc[t] \in Seq(Pieces)
             /\ captured[t] \in Seq(Pieces) /\ wrote[t] \in Seq(Pieces)
             /\ logged[t] \o ipc[t] \in Seq(Pieces)
  BY ConcatProperties DEF OutputTypeOK, Outputs
<1> SUFFICES ASSUME NEW s \in Streams
             PROVE  IF perform' = "killed"
                    THEN IsPrefix(logged'[s] \o ipc'[s] \o captured'[s], wrote'[s])
                    ELSE logged'[s] \o ipc'[s] \o captured'[s] = wrote'[s]
  BY DEF PassedOn
<1>1. ASSUME NEW t \in Streams, NEW line \in BOOLEAN, PhaseWrites(t, line)
      PROVE  logged'[s] \o ipc'[s] \o captured'[s] = wrote'[s] /\ perform' # "killed"
  <2>1. perform # "killed" /\ perform' = perform
    BY <1>1 DEF PhaseWrites, performVars, ControlInv, PhaseIsReadOut, InPhase
  <2>2. logged[s] \o ipc[s] \o captured[s] = wrote[s]
    BY <2>1 DEF PassedOn
  <2>3. \A x \in Pieces : (logged[s] \o ipc[s]) \o Append(captured[s], x)
                             = Append(logged[s] \o ipc[s] \o captured[s], x)
    BY <1>0, AppendToLast
  <2>4. (logged[s] \o ipc[s]) \o Append(captured[s], Piece(t, line))
           = Append(logged[s] \o ipc[s] \o captured[s], Piece(t, line))
    BY <2>3, PieceWritten
  <2> QED BY <1>1, <2>1, <2>2, <2>4 DEF PhaseWrites, Write, OutputTypeOK, Outputs
<1>2. ASSUME NEW t \in Streams, NEW line \in BOOLEAN, PerformWrites(t, line)
      PROVE  logged'[s] \o ipc'[s] \o captured'[s] = wrote'[s] /\ perform' # "killed"
  <2>1. perform # "killed" /\ perform' = perform /\ captured[s] = <<>>
    BY <1>2 DEF PerformWrites, performVars, ControlInv, PhaseIsReadOut, InPhase, Empty
  <2>2. logged[s] \o ipc[s] = wrote[s]
    <3>1. (logged[s] \o ipc[s]) \o <<>> = wrote[s]
      BY <2>1 DEF PassedOn
    <3> QED BY <1>0, <3>1, NothingMore
  <2>3. logged[s] \o Append(ipc[s], Piece(t, line)) = Append(logged[s] \o ipc[s], Piece(t, line))
    <3>1. \A x \in Pieces : logged[s] \o Append(ipc[s], x) = Append(logged[s] \o ipc[s], x)
      BY <1>0, AppendToLast
    <3> QED BY <3>1, PieceWritten
  <2>4. ipc'[s] = (IF s = t THEN Append(ipc[s], Piece(t, line)) ELSE ipc[s])
           /\ wrote'[s] = (IF s = t THEN Append(wrote[s], Piece(t, line)) ELSE wrote[s])
           /\ logged'[s] = logged[s] /\ captured'[s] = <<>>
    BY <1>2, <2>1 DEF PerformWrites, Write, OutputTypeOK, Outputs
  <2>5. logged'[s] \o ipc'[s] = wrote'[s]
    BY <2>2, <2>3, <2>4
  <2>6. logged'[s] \o ipc'[s] \in Seq(Pieces)
    BY <1>0, <2>4, PieceWritten, Joined, AppendToLast
  <2> QED BY <2>1, <2>4, <2>5, <2>6, NothingMore
<1>3. ASSUME NEW t \in Streams, NEW k \in 1..PipeSize, ReadCaptured(t, k)
      PROVE  logged'[s] \o ipc'[s] \o captured'[s] = logged[s] \o ipc[s] \o captured[s]
  <2> DEFINE got == SubSeq(captured[t], 1, k)
             rest == Drop(captured[t], k)
  <2>1. k \in 1..Len(captured[t]) /\ UNCHANGED logged
        /\ captured' = [captured EXCEPT ![t] = rest] /\ ipc' = [ipc EXCEPT ![t] = ipc[t] \o got]
    BY <1>3 DEF ReadCaptured
  <2>2. got \in Seq(Pieces) /\ rest \in Seq(Pieces)
    BY <1>0, <2>1, PiecesMove
  <2>3. ((logged[t] \o ipc[t]) \o got) \o rest = (logged[t] \o ipc[t]) \o captured[t]
    BY <1>0, <2>1, PiecesMove
  <2> HIDE DEF got, rest
  <2>4. logged[t] \o (ipc[t] \o got) = (logged[t] \o ipc[t]) \o got
    <3>1. logged[t] \in Seq(Pieces) /\ ipc[t] \in Seq(Pieces)
      BY <1>0
    <3> QED BY <2>2, <3>1, Regroup
  <2> QED BY <2>1, <2>3, <2>4 DEF OutputTypeOK, Outputs
<1>4. ASSUME NEW t \in Streams, NEW k \in 1..PipeSize, Copy(t, k)
      PROVE  logged'[s] \o ipc'[s] \o captured'[s] = logged[s] \o ipc[s] \o captured[s]
  <2> DEFINE got == SubSeq(ipc[t], 1, k)
             rest == Drop(ipc[t], k)
  <2>1. k \in 1..Len(ipc[t]) /\ UNCHANGED captured
        /\ ipc' = [ipc EXCEPT ![t] = rest] /\ logged' = [logged EXCEPT ![t] = logged[t] \o got]
    BY <1>4 DEF Copy
  <2>2. (logged[t] \o got) \o rest = logged[t] \o ipc[t]
    BY <1>0, <2>1, PiecesMove
  <2> HIDE DEF got, rest
  <2> QED BY <2>1, <2>2 DEF OutputTypeOK, Outputs
<1>5. ASSUME Killed
      PROVE  IsPrefix(logged'[s] \o ipc'[s] \o captured'[s], wrote'[s]) /\ perform' = "killed"
  <2>1. perform' = "killed" /\ UNCHANGED <<wrote, ipc, logged>> /\ captured'[s] = <<>>
    BY <1>5 DEF Killed, Empty
  <2>2. logged[s] \o ipc[s] \o captured[s] = wrote[s]
    BY <1>5 DEF Killed, PassedOn
  <2>3. logged[s] \o ipc[s] \o <<>> = logged[s] \o ipc[s]
    BY <1>0, NothingMore
  <2> QED BY <1>0, <2>1, <2>2, <2>3, PrefixOfMore
<1>6. ASSUME UNCHANGED <<wrote, captured, ipc, logged, perform>>
      PROVE  IF perform' = "killed"
                    THEN IsPrefix(logged'[s] \o ipc'[s] \o captured'[s], wrote'[s])
                    ELSE logged'[s] \o ipc'[s] \o captured'[s] = wrote'[s]
  BY <1>6 DEF PassedOn
<1>7. CASE \E t \in Streams, k \in 1..PipeSize : ReadCaptured(t, k) \/ Copy(t, k)
  <2>1. logged'[s] \o ipc'[s] \o captured'[s] = logged[s] \o ipc[s] \o captured[s]
    BY <1>3, <1>4, <1>7
  <2>2. UNCHANGED <<wrote, perform>>
    BY <1>7 DEF ReadCaptured, Copy, performVars
  <2> QED BY <2>1, <2>2 DEF PassedOn
<1>8. CASE PostExecute \/ \E really \in BOOLEAN : FlushThreaded(really)
  BY <1>6, <1>8 DEF PostExecute, FlushThreaded, performVars
<1>9. CASE UNCHANGED <<outputVars>> /\ (perform' = "killed" <=> perform = "killed")
  BY <1>9 DEF outputVars, PassedOn
<1> QED BY OutputMovers, <1>1, <1>2, <1>5, <1>7, <1>8, <1>9

(***************************************************************************)
(* What BufferOutputStreamBuf::xsputn does to the pieces it has, with and  *)
(* without the end of a line.                                              *)
(***************************************************************************)
LEMMA ShownAgain ==
    \A a, b, c, d \in Seq(Pieces) :
        /\ (a \o ((b \o c) \o d)) \o <<>> = ((a \o b) \o c) \o d
        /\ (a \o b) \o (c \o d) = ((a \o b) \o c) \o d
<1> TAKE a, b, c, d \in Seq(Pieces)
<1>1. b \o c \in Seq(Pieces) /\ a \o b \in Seq(Pieces) /\ (b \o c) \o d \in Seq(Pieces)
  BY Joined
<1>2. a \o ((b \o c) \o d) \in Seq(Pieces)
  BY <1>1, Joined
<1>3. (a \o ((b \o c) \o d)) \o <<>> = a \o ((b \o c) \o d)
  BY <1>2, NothingMore
<1>4. \A x \in Seq(Pieces) : a \o (x \o d) = (a \o x) \o d
  BY Regroup
<1>5. \A x \in Seq(Pieces) : x \o (c \o d) = (x \o c) \o d
  BY Regroup
<1>6. a \o (b \o c) = (a \o b) \o c
  BY Regroup
<1> QED BY <1>1, <1>3, <1>4, <1>5, <1>6

(***************************************************************************)
(* A step keeps that what is on the screen, buffered and in the line under *)
(* way is what is in the log.                                              *)
(***************************************************************************)
LEMMA ShownKept ==
    ASSUME OutputTypeOK, Shown, [Next]_vars
    PROVE  Shown'
<1> SUFFICES ASSUME NEW s \in Streams
             PROVE  screen'[s] \o buffered'[s] \o active'[s] = logged'[s]
  BY DEF Shown
<1>1. screen[s] \o buffered[s] \o active[s] = logged[s]
  BY DEF Shown
<1>2. ASSUME NEW t \in Streams, NEW k \in 1..PipeSize, Copy(t, k)
      PROVE  screen'[s] \o buffered'[s] \o active'[s] = logged'[s]
  <2> DEFINE got == SubSeq(ipc[t], 1, k)
  <2>1. got \in Seq(Pieces)
    BY <1>2, PiecesMove DEF Copy, OutputTypeOK, Outputs
  <2>2. logged' = [logged EXCEPT ![t] = logged[t] \o got] /\ UNCHANGED screen
        /\ \/ /\ buffered' = [buffered EXCEPT ![t] = buffered[t] \o active[t] \o got]
              /\ active' = [active EXCEPT ![t] = <<>>]
           \/ active' = [active EXCEPT ![t] = active[t] \o got] /\ UNCHANGED buffered
    BY <1>2 DEF Copy
  <2> HIDE DEF got
  <2>3. CASE s # t
    BY <1>1, <2>2, <2>3 DEF OutputTypeOK, Outputs
  <2>4. CASE s = t
    <3>1. screen[s] \in Seq(Pieces) /\ buffered[s] \in Seq(Pieces) /\ active[s] \in Seq(Pieces)
      BY DEF OutputTypeOK, Outputs
    <3>2. \A x \in Seq(Pieces) :
          /\ (screen[s] \o (buffered[s] \o active[s] \o x)) \o <<>>
                = ((screen[s] \o buffered[s]) \o active[s]) \o x
          /\ (screen[s] \o buffered[s]) \o (active[s] \o x)
                = ((screen[s] \o buffered[s]) \o active[s]) \o x
      BY <3>1, ShownAgain
    <3> QED BY <1>1, <2>1, <2>2, <2>4, <3>2 DEF OutputTypeOK, Outputs
  <2> QED BY <2>3, <2>4
<1>3. ASSUME UNCHANGED <<logged, active>>, Flush
      PROVE  screen'[s] \o buffered'[s] \o active'[s] = logged'[s]
  <2>1. screen'[s] = screen[s] \o buffered[s] /\ buffered'[s] = <<>>
    BY <1>3 DEF Flush, Empty
  <2>2. (screen[s] \o buffered[s]) \o <<>> = screen[s] \o buffered[s]
    BY NothingMore DEF OutputTypeOK, Outputs
  <2> QED BY <1>1, <1>3, <2>1, <2>2
<1>4. ASSUME UNCHANGED <<logged, active, screen, buffered>>
      PROVE  screen'[s] \o buffered'[s] \o active'[s] = logged'[s]
  BY <1>1, <1>4
<1>5. CASE PostExecute \/ \E really \in BOOLEAN : FlushThreaded(really)
  BY <1>3, <1>4, <1>5 DEF PostExecute, FlushThreaded
<1>6. CASE \E t \in Streams, line \in BOOLEAN : PhaseWrites(t, line) \/ PerformWrites(t, line)
  BY <1>4, <1>6 DEF PhaseWrites, PerformWrites
<1>7. CASE Killed \/ \E t \in Streams, k \in 1..PipeSize : ReadCaptured(t, k)
  BY <1>4, <1>7 DEF Killed, ReadCaptured
<1>8. CASE UNCHANGED <<outputVars>>
  BY <1>4, <1>8 DEF outputVars
<1> QED BY OutputMovers, <1>2, <1>5, <1>6, <1>7, <1>8

-----------------------------------------------------------------------------

(* The invariant holds when cave perform is started.                       *)
LEMMA ManagedInit == Init => Managed
<1> SUFFICES ASSUME Init PROVE Managed
  OBVIOUS
<1> USE DEF Init, Processes, Streams, None, Asking
<1>1. OutputTypeOK
  BY DEF OutputTypeOK, Outputs, Empty
<1>2. ControlTypeOK
  <2>1. loop \in [Processes -> {"absent", "select", "work", "handling", "exited"}]
    OBVIOUS
  <2>2. /\ ready \in [Processes -> SUBSET (Streams \cup {"command", "ctl"})]
        /\ ctl \in [Processes -> BOOLEAN]
        /\ command \in [Processes -> Commands]
        /\ response \in [Processes -> {None, "O", "E"}]
    BY DEF Commands
  <2>3. copyReady \in SUBSET (Streams \cup {"finished"})
    OBVIOUS
  <2>4. log \in [open : BOOLEAN, exists : BOOLEAN, ignore_succeeded : BOOLEAN]
    OBVIOUS
  <2>5. perform \in PerformSteps
    BY DEF PerformSteps
  <2> QED BY <2>1, <2>2, <2>3, <2>4, <2>5 DEF ControlTypeOK
<1>3. PhaseIsReadOut /\ Conversation /\ CommandsMean /\ ManagerInPlace
  BY DEF PhaseIsReadOut, Conversation, CommandsMean, ManagerInPlace, InPhase
<1>4. JobIsReadOut /\ LogIsKept
  BY DEF JobIsReadOut, LogIsKept
<1>5. \A s \in Streams : /\ logged[s] = <<>> /\ ipc[s] = <<>> /\ captured[s] = <<>> /\ wrote[s] = <<>>
                         /\ screen[s] = <<>> /\ buffered[s] = <<>> /\ active[s] = <<>>
  BY DEF Empty
<1>6. PassedOn /\ Shown
  <2>1. <<>> \o <<>> = <<>>
    BY NothingMore
  <2>2. perform # "killed"
    OBVIOUS
  <2> QED BY <1>5, <2>1, <2>2 DEF PassedOn, Shown
<1> QED BY <1>1, <1>2, <1>3, <1>4, <1>6 DEF Managed, ControlInv

(* Every step keeps the invariant.                                         *)
LEMMA ManagedStep == Managed /\ [Next]_vars => Managed'
<1> SUFFICES ASSUME Managed, [Next]_vars PROVE Managed'
  OBVIOUS
<1>1. ControlInv'
  BY ControlTypeKept, ControlKept DEF Managed, ControlInv
<1>2. OutputTypeOK' /\ PassedOn' /\ Shown'
  BY OutputTypeKept, PassedOnKept, ShownKept DEF Managed
<1>3. JobIsReadOut' /\ LogIsKept'
  BY JobIsReadOutKept, LogIsKeptKept DEF Managed
<1> QED BY <1>1, <1>2, <1>3 DEF Managed

(* The threads, commands, pipes and log are always as the invariant says.  *)
THEOREM ManagedAlways == Spec => []Managed
<1> QED BY ManagedInit, ManagedStep, PTL DEF Spec

(***************************************************************************)
(* No piece of output is lost, doubled or moved between the phase, cave    *)
(* perform and cave, and when a job is over all that was passed on is in   *)
(* the log and shown, however many pieces there are and however small the  *)
(* pipes.                                                                  *)
(***************************************************************************)
THEOREM OutputIsDelivered == Spec => []OutputDelivered
<1>1. Managed => OutputDelivered
  <2> SUFFICES ASSUME Managed, NEW s \in Streams
               PROVE  /\ IF perform = "killed"
                         THEN IsPrefix(logged[s] \o ipc[s] \o captured[s], wrote[s])
                         ELSE logged[s] \o ipc[s] \o captured[s] = wrote[s]
                      /\ screen[s] \o buffered[s] \o active[s] = logged[s]
                      /\ job = "posted" => ipc[s] = <<>> /\ captured[s] = <<>> /\ buffered[s] = <<>>
    BY DEF OutputDelivered
  <2>1. job = "posted" => ipc = Empty /\ captured = Empty /\ buffered = Empty
    BY DEF Managed, ControlInv, JobIsReadOut, ManagerInPlace, PhaseIsReadOut, InPhase, Gone,
           ControlTypeOK
  <2> QED BY <2>1 DEF Managed, PassedOn, Shown, Empty
<1> QED BY <1>1, ManagedAlways, PTL

(***************************************************************************)
(* When a job is over, its log is not there without output, nor after a    *)
(* success that no phase has asked to be logged (keep_log in the pipe      *)
(* command handler); and it is there if one has, or if an installation has *)
(* failed or was killed before it had succeeded.                           *)
(***************************************************************************)
THEOREM LogOutcomesMatch == Spec => []LogMatchesOutcome
<1>1. Managed => LogMatchesOutcome
  <2> SUFFICES ASSUME Managed, job = "posted", manager = "tee"
               PROVE  /\ log.exists => HasOutput
                      /\ HasOutput /\ ~ actionOK /\ kind = "install" => log.exists
                      /\ perform = "exited" =>
                            /\ log.exists => asked \/ ~ actionOK
                            /\ HasOutput /\ asked => log.exists
    BY DEF LogMatchesOutcome
  <2>1. NotEmpty <=> HasOutput
    BY DEF NotEmpty, HasOutput
  <2>2. /\ log.exists => HasOutput
        /\ HasOutput /\ ~ log.exists => (actionOK \/ kind = "uninstall") /\ ~ log.ignore_succeeded
        /\ ToldOfSuccess /\ log.exists => log.ignore_succeeded
    BY <2>1 DEF Managed, LogIsKept
  <2>3. perform = "exited" => (asked <=> log.ignore_succeeded)
    BY DEF Managed, ControlInv, LogIsKept, PhaseIsReadOut, InPhase
  <2>4. perform = "exited" /\ actionOK => ToldOfSuccess
    BY DEF Managed, ControlInv, ControlTypeOK, ToldOfSuccess
  <2> QED BY <2>2, <2>3, <2>4
<1> QED BY <1>1, ManagedAlways, PTL

(***************************************************************************)
(* The streams of the IPCOutputManager have no lock, and need none: of the *)
(* main thread of cave perform and the one that handles the commands of a  *)
(* phase, at most one waits for an answer.                                 *)
(***************************************************************************)
THEOREM QuestionsAreSeparate == Spec => []OneQuestionAtATime
<1>1. Managed => OneQuestionAtATime
  BY DEF Managed, ControlInv, PhaseIsReadOut, InPhase, OneQuestionAtATime, Asking
<1> QED BY <1>1, ManagedAlways, PTL
================================================================================
