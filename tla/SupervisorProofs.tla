-------------------------- MODULE SupervisorProofs --------------------------
(***************************************************************************)
(* Theorems about the programs that supervise a child process, for every   *)
(* timeout, history size and bound: that what is left of the child when    *)
(* the program has ended in order is nothing, and that the history an      *)
(* input serves is the latest.  Each program is proved about by itself;    *)
(* the last part is about them side by side.                               *)
(***************************************************************************)
EXTENDS MCSupervisors, SequenceTheorems, TLAPS

-----------------------------------------------------------------------------
(* PlayerPreview *)

\* The ages stop one beyond the timeout.
LEMMA OlderIsAge == \A a \in 0 .. Timeout + 1 : Older(a) \in 0 .. Timeout + 1
  BY PlayerPreviewAssumption DEF Older

\* Every step of main keeps the types of what the threads share.
LEMMA PreviewTypeStep == TypeOK /\ [Next]_vars => TypeOK'
<1> SUFFICES ASSUME TypeOK, [Next]_vars PROVE TypeOK'
  OBVIOUS
<1> USE PlayerPreviewAssumption DEF TypeOK
<1>1. CASE MainStep
  <2>1. CASE StartThreads \/ StartHttp \/ StartHttpFails \/ FailJoin
    BY <2>1 DEF StartThreads, StartHttp, StartHttpFails, FailJoin
  <2>2. CASE CheckAge \/ StopHttp \/ Terminate
    BY <2>2 DEF CheckAge, StopHttp, Terminate
  <2>3. CASE Decide
    <3>1. running' \in BOOLEAN
      BY <2>3 DEF Decide
    <3> QED
      BY <2>3, <3>1 DEF Decide
  <2>4. CASE Kill \/ Exit
    BY <2>4 DEF Kill, Exit
  <2> QED
    BY <1>1, <2>1, <2>2, <2>3, <2>4 DEF MainStep
<1>2. CASE ManagerStep
  BY <1>2 DEF ManagerStep, MakeDirs, ManagerTest, Fork, ForkFails, StoreChild, Reap, ForgetChild
<1>3. CASE Tick
  <2>1. Older(age) \in 0 .. Timeout + 1 /\ Older(seen) \in 0 .. Timeout + 1
    BY OlderIsAge
  <2> QED
    BY <1>3, <2>1 DEF Tick
<1>4. CASE FfmpegDies \/ FfmpegWrites \/ SignalHandler
  BY <1>4 DEF FfmpegDies, FfmpegWrites, SignalHandler
<1>5. CASE Keepalive
  <2>1. age' \in 0 .. Timeout + 1
    BY <1>5 DEF Keepalive
  <2> QED
    BY <1>5, <2>1 DEF Keepalive
<1>6. CASE Finished \/ UNCHANGED vars
  BY <1>6 DEF Finished, vars
<1> QED
  BY <1>1, <1>2, <1>3, <1>4, <1>5, <1>6 DEF Next

\* Type correctness of the preview, for every keepalive timeout.
THEOREM PreviewTypeCorrect == Spec => []TypeOK
<1>1. Init => TypeOK
  <2>1. 0 \in 0 .. Timeout + 1
    BY PlayerPreviewAssumption
  <2> QED
    BY <2>1 DEF Init, TypeOK
<1> QED
  BY <1>1, PreviewTypeStep, PTL DEF Spec

\* There is an ffmpeg only while the manager waits for it, also when main reaps it;
\* and main returns only after the manager, when nobody is left to write files.
PreviewInv ==
  /\ main = "start" => manager = "none"
  /\ proc # "none" => manager \in {"store", "wait"}
  /\ child => manager \in {"wait", "forget"}
  /\ main = "exited" => manager = "done" /\ ~files

\* No step of main, manager, ffmpeg or viewer breaks what the manager's place says.
LEMMA PreviewInvStep == PreviewInv /\ [Next]_vars => PreviewInv'
<1> SUFFICES ASSUME PreviewInv, [Next]_vars PROVE PreviewInv'
  OBVIOUS
<1> USE DEF PreviewInv
<1>1. CASE MainStep
  <2>1. CASE Kill
    BY <2>1 DEF Kill
  <2>2. CASE ~Kill
    BY <1>1, <2>2 DEF MainStep, StartThreads, StartHttp, StartHttpFails, FailJoin, CheckAge, Decide,
       StopHttp, Terminate, Exit
  <2> QED
    BY <2>1, <2>2
<1>2. CASE main # "killed" /\ ManagerStep
  BY <1>2 DEF ManagerStep, MakeDirs, ManagerTest, Fork, ForkFails, StoreChild, Reap, ForgetChild
<1>3. CASE FfmpegDies \/ FfmpegWrites \/ Tick \/ Keepalive \/ SignalHandler \/ Finished \/ UNCHANGED vars
  BY <1>3 DEF FfmpegDies, FfmpegWrites, Tick, Keepalive, SignalHandler, Finished, vars
<1> QED
  BY <1>1, <1>2, <1>3 DEF Next

\* A preview that shuts down in order leaves no ffmpeg and no HLS files, in every
\* interleaving of main's kill and the manager's fork.
THEOREM ExitIsCleanHolds == Spec => []ExitIsClean
<1>1. Init => PreviewInv
  BY DEF Init, PreviewInv
<1>2. PreviewInv => ExitIsClean
  BY DEF PreviewInv, ExitIsClean
<1> QED
  BY <1>1, <1>2, PreviewInvStep, PTL DEF Spec

-----------------------------------------------------------------------------
(* HlsOutput *)

\* Every system call of the supervisor keeps the types.
LEMMA HlsTypeStep == HlsTypeOK /\ [HlsNext]_hlsVars => HlsTypeOK'
  BY DEF HlsTypeOK, HlsNext, HlsMain, HlsSignal, HlsDone, FfmpegExits, FfmpegWritesHls, PidReused,
     StrangerExits, CleanDir, Arm, StartFfmpeg, StartFfmpegFails, Poll, WriteStats, Sleep,
     TerminateFfmpeg, WaitForExit, CheckAlive, KillFfmpeg, FinalClean, Exited, hlsVars

\* Type correctness of the HLS supervisor.
THEOREM HlsTypeCorrect == HlsSpec => []HlsTypeOK
<1>1. HlsInit => HlsTypeOK
  BY DEF HlsInit, HlsTypeOK
<1> QED
  BY <1>1, HlsTypeStep, PTL DEF HlsSpec

\* Once main is past the kill nothing has ffmpeg's pid that could write, and nobody
\* writes after the last clearing of the directory.
HlsInv ==
  /\ hls_pc \in {"final", "exited"} => ffmpeg_pid # "ffmpeg"
  /\ hls_pc = "exited" => ~hls_dir

\* An HLS output that has shut down left neither its ffmpeg nor its files.
THEOREM HlsExitIsCleanHolds == HlsSpec => []HlsExitIsClean
<1>1. HlsInit => HlsInv
  BY DEF HlsInit, HlsInv
<1>2. HlsInv /\ [HlsNext]_hlsVars => HlsInv'
  <2> SUFFICES ASSUME HlsInv, [HlsNext]_hlsVars PROVE HlsInv'
    OBVIOUS
  <2> USE DEF HlsInv
  <2>1. CASE HlsMain
    BY <2>1 DEF HlsMain, CleanDir, Arm, StartFfmpeg, StartFfmpegFails, Poll, WriteStats, Sleep,
       TerminateFfmpeg, WaitForExit, CheckAlive, KillFfmpeg, FinalClean
  <2>2. CASE HlsSignal \/ HlsDone \/ UNCHANGED hlsVars
    BY <2>2 DEF HlsSignal, HlsDone, Over, hlsVars
  <2>3. CASE FfmpegExits \/ FfmpegWritesHls \/ PidReused \/ StrangerExits
    BY <2>3 DEF FfmpegExits, FfmpegWritesHls, PidReused, StrangerExits, Exited
  <2> QED
    BY <2>1, <2>2, <2>3 DEF HlsNext
<1>3. HlsInv => HlsExitIsClean
  BY DEF HlsInv, HlsExitIsClean
<1> QED
  BY <1>1, <1>2, <1>3, PTL DEF HlsSpec

-----------------------------------------------------------------------------
(* RistPipeline *)

\* Every step of main, manager, parser and handler keeps the types.
LEMMA RpTypeStep == RpTypeOK /\ [RpNext]_rpVars => RpTypeOK'
<1> SUFFICES ASSUME RpTypeOK, [RpNext]_rpVars PROVE RpTypeOK'
  OBVIOUS
<1> USE RistPipelineAssumption DEF RpTypeOK, rpThreads, rpSignals
<1>1. CASE RpManager
  BY <1>1 DEF RpManager, RpTest, RpFork, RpForkFails, RpStore, RpReap, RpClear, RpRest
<1>2. CASE RpStart \/ RpParserEnds \/ RpJoin
  BY <1>2 DEF RpStart, RpParserEnds, RpJoin, RpMainUnchanged
<1>3. CASE RpSignal
  <2>1. rp_on' \in {"manager", "other"} /\ rp_handler' = "stop" /\ rp_pending' = FALSE
    BY <1>3 DEF RpSignal
  <2>2. rp_signals' \in 0 .. MaxStopSignals
    BY <1>3 DEF RpSignal
  <2>3. UNCHANGED <<rp_running, rp_child, rp_parser, rp_missed, rp_tsp, rp_manager, rp_main>>
    BY <1>3 DEF RpSignal
  <2> QED
    BY ONLY RpTypeOK, <2>1, <2>2, <2>3
<1>4. CASE RpHandler
  <2>1. CASE RpHandlerStop
    <3>1. rp_running' \in BOOLEAN /\ rp_handler' \in {"idle", "stop", "check", "kill"}
      BY <2>1 DEF RpHandlerStop
    <3>2. /\ UNCHANGED <<rp_child, rp_parser, rp_missed, rp_pending>>
          /\ UNCHANGED <<rp_tsp, rp_manager, rp_main, rp_on, rp_signals>>
      BY <2>1 DEF RpHandlerStop, RpHandlerUnchanged
    <3> QED
      BY ONLY RpTypeOK, <3>1, <3>2
  <2>2. CASE RpHandlerCheck
    <3>1. rp_missed' \in BOOLEAN
      BY <2>2 DEF RpHandlerCheck
    <3> QED
      BY <2>2, <3>1 DEF RpHandlerCheck, RpHandlerUnchanged
  <2>3. CASE RpHandlerKill
    <3>1. rp_pending' \in BOOLEAN /\ rp_missed' \in BOOLEAN
      BY <2>3 DEF RpHandlerKill
    <3> QED
      BY <2>3, <3>1 DEF RpHandlerKill, RpHandlerUnchanged
  <2> QED
    BY <1>4, <2>1, <2>2, <2>3 DEF RpHandler
<1>5. CASE RpExec \/ RpTspDies \/ RpFinished \/ UNCHANGED rpVars
  BY <1>5 DEF RpExec, RpTspDies, RpTspUnchanged, RpFinished, rpVars
<1> QED
  BY <1>1, <1>2, <1>3, <1>4, <1>5 DEF RpNext

\* The program starts with the types.
LEMMA RpTypeInit == RpInit => RpTypeOK
<1>1. 0 \in 0 .. MaxStopSignals
  BY RistPipelineAssumption
<1> QED
  BY <1>1 DEF RpInit, RpTypeOK

\* Type correctness of the RIST input, for every number of stop signals.
THEOREM RpTypeCorrect == RpSpec => []RpTypeOK
  BY RpTypeInit, RpTypeStep, PTL DEF RpSpec

\* There is a tsp only between the manager's fork and its wait, and main returns only
\* when the manager has, or before there was one.
RpInv ==
  /\ rp_tsp # "none" => rp_manager \in {"store", "wait"}
  /\ rp_main = "start" => rp_manager = "none"
  /\ rp_main \in {"parser", "exited"} => rp_manager \in {"none", "done"}

\* No step breaks what the places of main and manager say of tsp.
LEMMA RpInvStep == RpInv /\ [RpNext]_rpVars => RpInv'
<1> SUFFICES ASSUME RpInv, [RpNext]_rpVars PROVE RpInv'
  OBVIOUS
<1> USE DEF RpInv, rpThreads, rpSignals
<1>1. CASE RpManager
  BY <1>1 DEF RpManager, RpAt, RpTest, RpFork, RpForkFails, RpStore, RpReap, RpClear, RpRest
<1>2. CASE RpStart \/ RpParserEnds \/ RpJoin
  BY <1>2 DEF RpStart, RpParserEnds, RpJoin, RpMainUnchanged
<1>3. CASE RpSignal \/ RpHandler
  BY <1>3 DEF RpSignal, RpHandler, RpHandlerStop, RpHandlerCheck, RpHandlerKill, RpHandlerUnchanged
<1>4. CASE RpExec \/ RpTspDies \/ RpFinished \/ UNCHANGED rpVars
  BY <1>4 DEF RpExec, RpTspDies, RpTspUnchanged, RpFinished, rpVars
<1> QED
  BY <1>1, <1>2, <1>3, <1>4 DEF RpNext

\* There is neither at the start, and what the places say is that the exit is clean.
LEMMA RpInvEnds == (RpInit => RpInv) /\ (RpInv => RpExitIsClean)
  BY DEF RpInit, RpInv, RpExitIsClean, RpOver

\* An input that has ended left no tsp behind, whenever the handler ran and on
\* whichever thread.
THEOREM RpExitIsCleanHolds == RpSpec => []RpExitIsClean
  BY RpInvEnds, RpInvStep, PTL DEF RpSpec

-----------------------------------------------------------------------------
(* InputMonitor *)

\* The manager's place says what is known of the child.
ChildInv ==
  /\ in_main = "start" => in_manager = "none"
  /\ tsp # "none" => in_manager \in {"store", "wait"}
  /\ tsp_child => in_manager \in {"wait", "forget"}
  /\ in_main = "exited" => in_manager = "done"

\* What the threads share keeps its type.
LEMMA ThreadsStep == ThreadsOK /\ [InNext]_inVars => ThreadsOK'
<1> SUFFICES ASSUME ThreadsOK, [InNext]_inVars PROVE ThreadsOK'
  OBVIOUS
<1> USE DEF ThreadsOK
<1>1. CASE UNCHANGED threads
  BY <1>1 DEF threads
<1>2. CASE TspDies
  BY <1>2 DEF TspDies
<1>3. CASE InSignal \/ HandlerTerm
  BY <1>3 DEF InSignal, HandlerTerm, TermTsp
<1>4. CASE HandlerKill
  BY <1>4 DEF HandlerKill, KillTsp
<1>5. CASE InManager
  BY <1>5 DEF InManager, TspTest, TspFork, TspForkFails, TspStore, TspReap, TspForget
<1>6. CASE MainKill
  BY <1>6 DEF MainKill, KillTsp
<1>7. CASE InStartThreads \/ InStartHttp \/ InStartHttpFails
  BY <1>7 DEF InStartThreads, InStartHttp, InStartHttpFails
<1>8. CASE GetTime
  BY <1>8 DEF GetTime
<1>9. CASE StallCheck
  <2>1. in_running' \in BOOLEAN
    BY <1>9 DEF StallCheck
  <2> QED
    BY <1>9, <2>1 DEF StallCheck
<1>10. CASE MainTerm \/ InExit
  BY <1>10 DEF MainTerm, TermTsp, InExit
<1>11. CASE LogMonitor \/ TspReports \/ InTick \/ InDone \/ UNCHANGED inVars
  BY <1>1, <1>11 DEF LogMonitor, LogTest, LogEnd, Sample, TspReports, InTick, InDone, inVars
<1> QED
  BY <1>2, <1>3, <1>4, <1>5, <1>6, <1>7, <1>8, <1>9, <1>10, <1>11
     DEF InNext, InMain, InHandler

\* Only these steps move the clock, the log or the history.
LEMMA DataSteps ==
  ASSUME [InNext]_inVars
  PROVE  \/ UNCHANGED <<clock, log, monitor>>
         \/ InTick \/ TspReports \/ LogTest \/ LogEnd \/ Sample \/ GetTime \/ StallCheck
         \/ InStartThreads
  BY DEF InNext, InMain, InHandler, InManager, LogMonitor, InDone, inVars, TspDies, InSignal,
     HandlerTerm, HandlerKill, TspTest, TspFork, TspForkFails, TspStore, TspReap, TspForget,
     InStartHttp, InStartHttpFails, MainTerm, MainKill, InExit

\* The ages stay within one tick of the timeout.
LEMMA ClockStep == ClockOK /\ [InNext]_inVars => ClockOK'
<1> SUFFICES ASSUME ClockOK, [InNext]_inVars PROVE ClockOK'
  OBVIOUS
<1> USE InputMonitorAssumption DEF ClockOK
<1>1. CASE UNCHANGED clock
  BY <1>1 DEF clock
<1>2. CASE InTick
  BY <1>2 DEF InTick
<1>3. CASE Sample
  BY <1>3 DEF Sample, AddSample
<1>4. CASE GetTime
  BY <1>4 DEF GetTime
<1>5. CASE StallCheck
  BY <1>5 DEF StallCheck
<1>6. CASE TspReports \/ LogTest \/ LogEnd \/ InStartThreads
  BY <1>1, <1>6 DEF TspReports, LogTest, LogEnd, InStartThreads
<1> QED
  BY <1>1, <1>2, <1>3, <1>4, <1>5, <1>6, DataSteps

\* The log monitor stays within its log.
LEMMA LogStep == LogOK /\ [InNext]_inVars => LogOK'
<1> SUFFICES ASSUME LogOK, [InNext]_inVars PROVE LogOK'
  OBVIOUS
<1> USE InputMonitorAssumption DEF LogOK
<1>1. CASE UNCHANGED log
  BY <1>1 DEF log
<1>2. CASE TspReports
  BY <1>2 DEF TspReports
<1>3. CASE LogTest
  <2>1. log_open' \in BOOLEAN /\ log_monitor' \in {"none", "test", "read", "done"}
    BY <1>3 DEF LogTest
  <2>2. log_pos' \in {logged, log_pos} /\ logged' = logged
    BY <1>3 DEF LogTest
  <2> QED
    BY <2>1, <2>2
<1>4. CASE LogEnd \/ InStartThreads
  BY <1>4 DEF LogEnd, InStartThreads
<1>5. CASE Sample
  BY <1>5 DEF Sample
<1>6. CASE InTick \/ GetTime \/ StallCheck
  BY <1>1, <1>6 DEF InTick, GetTime, StallCheck
<1> QED
  BY <1>1, <1>2, <1>3, <1>4, <1>5, <1>6, DataSteps

\* A sample goes into a slot of the history, and the index stays one.
LEMMA HistoryStep == LogOK /\ HistoryOK /\ [InNext]_inVars => HistoryOK'
<1> SUFFICES ASSUME LogOK, HistoryOK, [InNext]_inVars PROVE HistoryOK'
  OBVIOUS
<1>1. CASE UNCHANGED monitor
  BY <1>1 DEF monitor, HistoryOK
<1>2. CASE Sample
  <2>1. log_pos' \in 1 .. MaxReports /\ AddSample(log_pos')
    BY <1>2, InputMonitorAssumption DEF Sample, LogOK
  <2>2. (history_index + 1) % HistorySize \in 0 .. HistorySize - 1
    BY InputMonitorAssumption DEF HistoryOK
  <2> QED
    BY <2>1, <2>2, InputMonitorAssumption DEF AddSample, HistoryOK
<1>3. CASE InTick \/ TspReports \/ LogTest \/ LogEnd \/ GetTime \/ StallCheck \/ InStartThreads
  BY <1>1, <1>3 DEF InTick, TspReports, LogTest, LogEnd, GetTime, StallCheck, InStartThreads
<1> QED
  BY <1>1, <1>2, <1>3, DataSteps

\* Type correctness, for every timeout, history size and number of reports.
THEOREM InTypeCorrect == InSpec => []InTypeOK
<1>1. InInit => InTypeOK
  <2> SUFFICES ASSUME InInit PROVE InTypeOK
    OBVIOUS
  <2>1. ThreadsOK /\ ClockOK /\ LogOK
    BY InputMonitorAssumption DEF InInit, ThreadsOK, ClockOK, LogOK
  <2>2. HistoryOK
    BY InputMonitorAssumption DEF InInit, HistoryOK
  <2> QED
    BY <2>1, <2>2 DEF InTypeOK
<1>2. InTypeOK /\ [InNext]_inVars => InTypeOK'
  BY ThreadsStep, ClockStep, LogStep, HistoryStep DEF InTypeOK
<1> QED
  BY <1>1, <1>2, PTL DEF InSpec

\* No step of any thread breaks what the manager's place says.
LEMMA ChildInvStep == ChildInv /\ [InNext]_inVars => ChildInv'
<1> SUFFICES ASSUME ChildInv, [InNext]_inVars PROVE ChildInv'
  OBVIOUS
<1> USE DEF ChildInv
<1>k. ASSUME NEW done, KillTsp(done), done => in_main' \in {in_main, "join"}, UNCHANGED in_manager
      PROVE  ChildInv'
  BY <1>k DEF KillTsp
<1>1. CASE UNCHANGED threads
  BY <1>1 DEF threads
<1>2. CASE TspDies
  BY <1>2 DEF TspDies
<1>3. CASE InSignal \/ HandlerTerm
  BY <1>3 DEF InSignal, HandlerTerm
<1>4. CASE ~InOver /\ HandlerKill
  BY <1>4, <1>k DEF HandlerKill, InOver
<1>5. CASE InManager
  BY <1>5 DEF InManager, TspTest, TspFork, TspForkFails, TspStore, TspReap, TspForget
<1>6. CASE MainKill
  BY <1>6, <1>k DEF MainKill
<1>7. CASE InStartThreads
  BY <1>7 DEF InStartThreads
<1>8. CASE InStartHttp \/ InStartHttpFails \/ GetTime \/ StallCheck \/ MainTerm \/ InExit
  BY <1>8 DEF InStartHttp, InStartHttpFails, GetTime, StallCheck, MainTerm, TermTsp, InExit
<1>9. CASE LogMonitor \/ TspReports \/ InTick \/ InDone \/ UNCHANGED inVars
  BY <1>1, <1>9 DEF LogMonitor, LogTest, LogEnd, Sample, TspReports, InTick, InDone, inVars
<1> QED
  BY <1>2, <1>3, <1>4, <1>5, <1>6, <1>7, <1>8, <1>9 DEF InNext, InMain, InHandler

\* An input that exits in order has reaped the last tsp it forked and started no other.
THEOREM InExitIsCleanHolds == InSpec => []InExitIsClean
<1>1. InInit => ChildInv
  BY DEF InInit, ChildInv
<1>2. ChildInv => InExitIsClean
  BY DEF ChildInv, InExitIsClean
<1> QED
  BY <1>1, <1>2, ChildInvStep, PTL DEF InSpec

-----------------------------------------------------------------------------
\* The slot j places after slot i, around the history.
After(i, j) == IF i + j < HistorySize THEN i + j ELSE i + j - HistorySize

\* What the history holds, in terms of every sample there ever was.
HistoryInv ==
  LET n == Len(samples)
  IN  /\ history_count = IF n < HistorySize THEN n ELSE HistorySize
      /\ n < HistorySize => history_index = n
      /\ \A k \in 1 .. history_count :
           history[After(HistoryStart, k - 1)] = samples[n - history_count + k]

\* Remainders by the history's size, as the history uses them.
LEMMA AfterIsMod ==
  \A i \in 0 .. HistorySize - 1, j \in 0 .. HistorySize :
    /\ (i + j) % HistorySize = After(i, j)
    /\ After(i, j) \in 0 .. HistorySize - 1
<1> TAKE i \in 0 .. HistorySize - 1, j \in 0 .. HistorySize
<1>1. HistorySize \in Nat \ {0}
  BY InputMonitorAssumption
<1>2. CASE i + j < HistorySize
  BY <1>1, <1>2 DEF After
<1>3. CASE i + j >= HistorySize
  <2> DEFINE r == i + j - HistorySize
  <2>1. r \in 0 .. HistorySize - 1 /\ i + j = 1 * HistorySize + r
    BY <1>1, <1>3
  <2>2. (i + j) % HistorySize = r
    BY <1>1, <2>1
  <2> QED
    BY <1>1, <1>3, <2>1, <2>2 DEF After
<1> QED
  BY <1>1, <1>2, <1>3

\* A sample moves the start of a full history on with the slot it overwrites.
LEMMA SampleKeepsHistory ==
  ASSUME HistoryOK, HistoryInv, NEW b, AddSample(b)
  PROVE  HistoryInv'
<1> DEFINE n == Len(samples)
<1>t. /\ HistorySize \in Nat \ {0} /\ n \in Nat
      /\ history \in [0 .. HistorySize - 1 -> 0 .. MaxReports]
      /\ history_index \in 0 .. HistorySize - 1
  BY InputMonitorAssumption DEF HistoryOK
<1>i. /\ history_count = IF n < HistorySize THEN n ELSE HistorySize
      /\ n < HistorySize => history_index = n
      /\ \A k \in 1 .. history_count :
           history[After(HistoryStart, k - 1)] = samples[n - history_count + k]
  BY DEF HistoryInv
<1>s. /\ samples' = Append(samples, b) /\ Len(samples') = n + 1
      /\ samples'[n + 1] = b
      /\ \A k \in 1 .. n : samples'[k] = samples[k]
  BY DEF AddSample, HistoryOK
<1>h. /\ history'[history_index] = b
      /\ \A i \in 0 .. HistorySize - 1 : i # history_index => history'[i] = history[i]
  BY <1>t DEF AddSample
<1>n. history_index' = After(history_index, 1)
  BY <1>t, AfterIsMod DEF AddSample
<1>c. history_count' = IF n + 1 < HistorySize THEN n + 1 ELSE HistorySize
  BY <1>t, <1>i DEF AddSample
<1>1. CASE n + 1 < HistorySize
  <2>1. history_index = n /\ history_index' = n + 1 /\ HistoryStart = 0 /\ HistoryStart' = 0
    BY <1>1, <1>t, <1>i, <1>n, <1>c DEF After, HistoryStart
  <2>2. ASSUME NEW k \in 1 .. n + 1
        PROVE  history'[After(0, k - 1)] = samples'[k]
    <3>1. After(0, k - 1) = k - 1
      BY <1>1, <1>t DEF After
    <3>2. CASE k = n + 1
      BY <3>1, <3>2, <2>1, <1>h, <1>s
    <3>3. CASE k \in 1 .. n
      <4>1. history[After(0, k - 1)] = samples[k]
        <5>1. k \in 1 .. history_count /\ n - history_count + k = k
          BY <3>3, <1>1, <1>t, <1>i
        <5> QED
          BY <5>1, <2>1, <1>i
      <4> QED
        BY <4>1, <3>1, <3>3, <2>1, <1>1, <1>h, <1>s, <1>t
    <3> QED
      BY <3>2, <3>3, <1>t
  <2>3. history_count' = n + 1
    BY <1>1, <1>c
  <2> QED
    BY <1>1, <1>s, <1>t, <2>1, <2>2, <2>3 DEF HistoryInv, After
<1>2. CASE n + 1 >= HistorySize
  <2>1. history_count' = HistorySize /\ HistoryStart' = After(history_index, 1)
    BY <1>2, <1>t, <1>c, <1>n DEF HistoryStart
  <2>2. After(history_index, 1) \in 0 .. HistorySize - 1
    BY <1>t DEF After
  <2>3. ASSUME NEW k \in 1 .. HistorySize
        PROVE  history'[After(After(history_index, 1), k - 1)] = samples'[n + 1 - HistorySize + k]
    <3>1. CASE k = HistorySize
      <4>1. After(After(history_index, 1), k - 1) = history_index
        BY <3>1, <1>t DEF After
      <4> QED
        BY <3>1, <4>1, <1>h, <1>s, <1>t
    <3>2. CASE k < HistorySize
      <4>1. /\ After(After(history_index, 1), k - 1) = After(history_index, k)
            /\ After(history_index, k) \in 0 .. HistorySize - 1
            /\ After(history_index, k) # history_index
        BY <3>2, <1>t DEF After
      <4>2. history[After(history_index, k)] = samples[n + 1 - HistorySize + k]
        <5>1. CASE n < HistorySize
          <6>1. n + 1 = HistorySize /\ history_index = n /\ history_count = n /\ HistoryStart = 0
            BY <5>1, <1>2, <1>t, <1>i DEF HistoryStart
          <6>2. After(history_index, k) = After(0, k - 1) /\ k \in 1 .. history_count
            BY <6>1, <3>2, <1>t DEF After
          <6>3. history[After(0, k - 1)] = samples[n - history_count + k]
            BY <6>1, <6>2, <1>i
          <6>4. n - history_count + k = n + 1 - HistorySize + k
            BY <6>1, <1>t
          <6> QED
            BY <6>2, <6>3, <6>4
        <5>2. CASE n >= HistorySize
          <6>1. history_count = HistorySize /\ HistoryStart = history_index
            BY <5>2, <1>t, <1>i DEF HistoryStart
          <6>2. k + 1 \in 1 .. history_count /\ (k + 1) - 1 = k
            BY <6>1, <3>2, <1>t
          <6>3. history[After(history_index, (k + 1) - 1)] = samples[n - history_count + (k + 1)]
            BY <6>1, <6>2, <1>i
          <6>4. n - history_count + (k + 1) = n + 1 - HistorySize + k
            BY <6>1, <1>t
          <6> QED
            BY <6>2, <6>3, <6>4
        <5> QED
          BY <5>1, <5>2, <1>t
      <4>3. n + 1 - HistorySize + k \in 1 .. n
        BY <3>2, <1>2, <1>t
      <4> QED
        BY <4>1, <4>2, <4>3, <1>h, <1>s
    <3> QED
      BY <3>1, <3>2, <1>t
  <2>4. ASSUME NEW k \in 1 .. history_count'
        PROVE  history'[After(HistoryStart', k - 1)]
                 = samples'[Len(samples') - history_count' + k]
    <3>1. Len(samples') - history_count' + k = n + 1 - HistorySize + k
      BY <2>1, <1>s, <1>t
    <3> QED
      BY <2>1, <2>3, <3>1
  <2>5. ~(n + 1 < HistorySize)
    BY <1>2, <1>t
  <2>6. (\A k \in 1 .. history_count :
           history[After(HistoryStart, k - 1)] = samples[Len(samples) - history_count + k])'
    BY <2>4 DEF After
  <2> QED
    BY <1>s, <1>c, <2>5, <2>6 DEF HistoryInv
<1> QED
  BY <1>1, <1>2, <1>t

\* What is served is what the history holds: the newest samples, oldest first.
LEMMA ServedIsLatest == HistoryOK /\ HistoryInv => HistoryIsLatest
<1> SUFFICES ASSUME HistoryOK, HistoryInv PROVE HistoryIsLatest
  OBVIOUS
<1> DEFINE n == Len(samples)
           Latest == SubSeq(samples, n - history_count + 1, n)
<1>t. /\ HistorySize \in Nat \ {0} /\ n \in Nat
      /\ history_count \in 0 .. HistorySize /\ history_count <= n
      /\ HistoryStart \in 0 .. HistorySize - 1
  BY InputMonitorAssumption DEF HistoryOK, HistoryInv, HistoryStart
<1>1. ASSUME NEW k \in 1 .. history_count
      PROVE  Served[k] = samples[n - history_count + k]
  <2>1. (HistoryStart + k - 1) % HistorySize = After(HistoryStart, k - 1)
    <3>1. k - 1 \in 0 .. HistorySize /\ HistoryStart + k - 1 = HistoryStart + (k - 1)
      BY <1>t
    <3> QED
      BY <3>1, <1>t, AfterIsMod
  <2>2. history[After(HistoryStart, k - 1)] = samples[n - history_count + k]
    BY DEF HistoryInv
  <2> QED
    BY <2>1, <2>2 DEF Served
<1>2. Served \in Seq(0 .. MaxReports) /\ Len(Served) = history_count
  <2>1. ASSUME NEW k \in 1 .. history_count PROVE Served[k] \in 0 .. MaxReports
    <3>1. n - history_count + k \in 1 .. n
      BY <1>t
    <3>2. samples \in Seq(1 .. MaxReports)
      BY DEF HistoryOK
    <3>4. samples[n - history_count + k] \in 1 .. MaxReports
      BY <3>1, <3>2, ElementOfSeq
    <3>3. \A r \in 1 .. MaxReports : r \in 0 .. MaxReports
      OBVIOUS
    <3> QED
      BY <1>1, <3>3, <3>4
  <2>2. Served \in [1 .. history_count -> 0 .. MaxReports]
    BY <2>1 DEF Served
  <2>3. Served \in Seq(0 .. MaxReports)
    <3>1. history_count \in Nat
      BY <1>t
    <3>2. \E m \in Nat : Served \in [1 .. m -> 0 .. MaxReports]
      BY <3>1, <2>2
    <3>3. Seq(0 .. MaxReports) = UNION {[1 .. m -> 0 .. MaxReports] : m \in Nat}
      BY SeqDef, Zenon
    <3> QED
      BY <3>2, <3>3, Zenon
  <2> QED
    BY <1>t, <2>2, <2>3, LenProperties
<1>3. /\ Latest \in Seq(0 .. MaxReports) /\ Len(Latest) = history_count
      /\ \A k \in 1 .. history_count : Latest[k] = samples[n - history_count + k]
  <2>1. \A k \in n - history_count + 1 .. n : samples[k] \in 0 .. MaxReports
    BY <1>t, InputMonitorAssumption DEF HistoryOK
  <2>2. n - history_count + 1 \in Int /\ n \in Int /\ n - (n - history_count + 1) + 1 = history_count
    BY <1>t
  <2>3. /\ Latest \in Seq(0 .. MaxReports)
        /\ Len(Latest) = IF n - history_count + 1 <= n THEN n - (n - history_count + 1) + 1 ELSE 0
        /\ \A i \in 1 .. n - (n - history_count + 1) + 1 :
             Latest[i] = samples[n - history_count + 1 + i - 1]
    BY <2>1, <2>2, SubSeqProperties
  <2>4. \A k \in 1 .. history_count : n - history_count + 1 + k - 1 = n - history_count + k
    BY <1>t
  <2> QED
    BY <1>t, <2>2, <2>3, <2>4
<1>4. Served = Latest
  BY <1>1, <1>2, <1>3, SeqEqual
<1> QED
  BY <1>4 DEF HistoryIsLatest, HistoryInv

\* What /metrics/history serves are the newest samples, for every size of the history.
THEOREM HistoryIsLatestHolds == InSpec => []HistoryIsLatest
<1>1. InInit => HistoryInv
  BY InputMonitorAssumption DEF InInit, HistoryInv
<1>2. InTypeOK /\ HistoryInv /\ [InNext]_inVars => HistoryInv'
  <2> SUFFICES ASSUME InTypeOK, HistoryInv, [InNext]_inVars PROVE HistoryInv'
    OBVIOUS
  <2>1. CASE UNCHANGED monitor
    BY <2>1 DEF monitor, HistoryInv, HistoryStart, After
  <2>2. CASE Sample
    BY <2>2, SampleKeepsHistory DEF InTypeOK, Sample
  <2>3. CASE InTick \/ TspReports \/ LogTest \/ LogEnd \/ GetTime \/ StallCheck \/ InStartThreads
    BY <2>1, <2>3 DEF InTick, TspReports, LogTest, LogEnd, GetTime, StallCheck, InStartThreads
  <2> QED
    BY <2>1, <2>2, <2>3, DataSteps
<1>3. InTypeOK /\ HistoryInv => HistoryIsLatest
  BY ServedIsLatest DEF InTypeOK
<1> QED
  BY <1>1, <1>2, <1>3, InTypeCorrect, PTL DEF InSpec

\* What main takes for the age of the last data is never more than its age: a sample
\* between main's two looks makes both young.
NoOlder == now_age <= data_age

\* Only the clock, a sample and main's looks move the two ages.
LEMMA NoOlderStep == ClockOK /\ NoOlder /\ [InNext]_inVars => NoOlder'
<1> SUFFICES ASSUME ClockOK, NoOlder, [InNext]_inVars PROVE NoOlder'
  OBVIOUS
<1> USE InputMonitorAssumption DEF ClockOK, NoOlder
<1>1. CASE UNCHANGED clock
  BY <1>1 DEF clock
<1>2. CASE InTick
  BY <1>2 DEF InTick
<1>3. CASE Sample
  BY <1>3 DEF Sample, AddSample
<1>4. CASE GetTime
  BY <1>4 DEF GetTime
<1>5. CASE StallCheck
  BY <1>5 DEF StallCheck
<1>6. CASE TspReports \/ LogTest \/ LogEnd \/ InStartThreads
  BY <1>1, <1>6 DEF TspReports, LogTest, LogEnd, InStartThreads
<1> QED
  BY <1>1, <1>2, <1>3, <1>4, <1>5, <1>6, DataSteps

\* main gives a source up only when no data came for longer than the timeout, also
\* when a sample arrives between its two looks.
THEOREM StallIsRealHolds == InSpec => StallIsReal
<1>1. InInit => NoOlder
  BY DEF InInit, NoOlder
<1>2. ClockOK /\ NoOlder /\ [InNext]_inVars =>
        [in_main = "check" /\ in_running /\ ~in_running' /\ in_main' = "kill"
           => data_age > StallTimeout]_inVars
  <2> SUFFICES ASSUME ClockOK, NoOlder, [InNext]_inVars,
                      in_main = "check", in_running, ~in_running', in_main' = "kill"
               PROVE  data_age > StallTimeout
    OBVIOUS
  <2>1. StallCheck
    BY DEF InNext, InMain, InHandler, InManager, LogMonitor, InDone, inVars, threads, TspDies,
       TspReports, InTick, InSignal, HandlerTerm, HandlerKill, KillTsp, TspTest, TspFork, TspForkFails,
       TspStore, TspReap, TspForget, LogTest, LogEnd, Sample, InStartThreads, InStartHttp,
       InStartHttpFails, GetTime, MainTerm, MainKill, InExit
  <2>2. ~(now_age <= StallTimeout)
    BY <2>1, Zenon DEF StallCheck
  <2> QED
    BY <2>2, InputMonitorAssumption DEF ClockOK, NoOlder
<1>3. InTypeOK => ClockOK
  BY DEF InTypeOK
<1> QED
  BY <1>1, <1>2, <1>3, InTypeCorrect, NoOlderStep, PTL DEF InSpec, StallIsReal

-----------------------------------------------------------------------------
(* Side by side *)

\* Whichever program runs, each does its own steps or none.
LEMMA AnyIsEach ==
  AnySpec => /\ Init /\ [][Next]_vars /\ HlsInit /\ [][HlsNext]_hlsVars
             /\ InInit /\ [][InNext]_inVars /\ RpInit /\ [][RpNext]_rpVars
<1>1. AnyInit => Init /\ HlsInit /\ InInit /\ RpInit
  BY DEF AnyInit
<1>2. [AnyNext]_<<program, vars, hlsVars, inVars, rpVars>>
        => [Next]_vars /\ [HlsNext]_hlsVars /\ [InNext]_inVars /\ [RpNext]_rpVars
  BY DEF AnyNext
<1> QED
  BY <1>1, <1>2, PTL DEF AnySpec

\* Every variable of the three programs keeps its type, for every timeout and bound.
THEOREM SupervisorsTypeCorrect == AnySpec => []SupervisorsTypeOK
<1>1. TypeOK /\ HlsTypeOK /\ RpTypeOK => SupervisorsTypeOK
  BY DEF SupervisorsTypeOK
<1>2. RpInit /\ [][RpNext]_rpVars => []RpTypeOK
  BY RpTypeInit, RpTypeStep, PTL
<1> QED
  BY <1>1, <1>2, AnyIsEach, PreviewTypeCorrect, HlsTypeCorrect, PTL DEF Spec, HlsSpec

\* Whichever program has ended in order left neither its child nor its files.
THEOREM ExitsAreCleanHold == AnySpec => []ExitsAreClean
<1>1. ExitIsClean /\ HlsExitIsClean /\ RpExitIsClean => ExitsAreClean
  BY DEF ExitsAreClean
<1>2. RpInit /\ [][RpNext]_rpVars => []RpExitIsClean
  BY RpInvEnds, RpInvStep, PTL
<1> QED
  BY <1>1, <1>2, AnyIsEach, ExitIsCleanHolds, HlsExitIsCleanHolds, PTL DEF Spec, HlsSpec
=============================================================================
