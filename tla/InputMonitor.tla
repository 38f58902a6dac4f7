---------------------------- MODULE InputMonitor ----------------------------
(***************************************************************************)
(* srt_input.c: an input that runs a tsp child and watches the bitrates it *)
(* logs.                                                                   *)
(*                                                                         *)
(*   main         gives up when no bitrate was logged for StallTimeout;    *)
(*   tsp manager  forks tsp, waits for it, starts it again;                *)
(*   log monitor  turns the lines of tsp's log into samples;               *)
(*   signal       stops everything, on whichever thread it lands.          *)
(*                                                                         *)
(* main, the manager and the handler share running and tsp_child without   *)
(* a lock.  udp_input.c, http_input.c and hls_input.c have the same shape; *)
(* udp_input.c reads its log from the start.  The reports of one monitored *)
(* PID stand for all of them: their histories do not interact.  The thread *)
(* that copies srt-live-transmit's statistics to a file is left out.       *)
(***************************************************************************)
EXTENDS Integers, Sequences

CONSTANTS
  StallTimeout,   \* stall_timeout, in clock ticks
  HistorySize,    \* HISTORY_SIZE
  SeeksToEnd,     \* the log is read from where it ended when it was first opened
  MaxReports      \* bound: bitrates tsp logs

ASSUME InputMonitorAssumption ==
  /\ {StallTimeout, MaxReports} \subseteq Nat
  /\ HistorySize \in Nat \ {0}
  /\ SeeksToEnd \in BOOLEAN

VARIABLES
  in_main,        \* where main is
  in_handler,     \* where signal_handler is
  in_manager,     \* where tsp_manager_thread is
  in_running,     \* g_ctx.running
  tsp_child,      \* g_ctx.tsp_child holds a pid
  tsp,            \* the last tsp forked: "none" (never, or reaped), "alive", "zombie"
  data_age,       \* time since last_data_received
  now_age,        \* now - last_data_received, for the time main has read
  log_monitor,    \* where log_monitor_thread is
  log_open,       \* log_monitor_thread has opened the log before
  logged,         \* lines in the log: the n-th reports bitrate n
  log_pos,        \* last_pos
  history,        \* monitors[].history
  history_index, history_count,
  samples         \* history: every bitrate ever sampled

threads == <<in_main, in_handler, in_manager, in_running, tsp_child, tsp>>
clock == <<data_age, now_age>>
log == <<log_monitor, log_open, logged, log_pos>>
monitor == <<history, history_index, history_count, samples>>
inVars == <<threads, clock, log, monitor>>

InOver == in_main \in {"exited", "failed", "killed"}
InputUp == in_main \in {"sleep", "check"}

ThreadsOK ==
  /\ in_main \in {"start", "http", "sleep", "check", "kill", "grace", "join",
                  "exited", "failed", "killed"}
  /\ in_handler \in {"idle", "kill", "grace"}
  /\ in_manager \in {"none", "test", "fork", "store", "wait", "forget", "done"}
  /\ in_running \in BOOLEAN /\ tsp_child \in BOOLEAN
  /\ tsp \in {"none", "alive", "zombie"}

ClockOK == data_age \in 0 .. StallTimeout + 1 /\ now_age \in 0 .. StallTimeout + 1

LogOK ==
  /\ log_monitor \in {"none", "test", "read", "done"} /\ log_open \in BOOLEAN
  /\ logged \in 0 .. MaxReports /\ log_pos \in 0 .. logged

HistoryOK ==
  /\ history \in [0 .. HistorySize - 1 -> 0 .. MaxReports]
  /\ history_index \in 0 .. HistorySize - 1 /\ history_count \in 0 .. HistorySize
  /\ samples \in Seq(1 .. MaxReports)

InTypeOK == ThreadsOK /\ ClockOK /\ LogOK /\ HistoryOK

\* main has emptied the log, installed the handlers and is about to start the threads.
InInit ==
  /\ in_main = "start" /\ in_handler = "idle" /\ in_manager = "none"
  /\ in_running = TRUE /\ tsp_child = FALSE /\ tsp = "none"
  /\ data_age = 0 /\ now_age = 0
  /\ log_monitor = "none" /\ log_open = FALSE /\ logged = 0 /\ log_pos = 0
  /\ history = [i \in 0 .. HistorySize - 1 |-> 0]
  /\ history_index = 0 /\ history_count = 0 /\ samples = <<>>

-----------------------------------------------------------------------------
(* tsp and the clock *)

TspDies ==
  /\ tsp = "alive" /\ tsp' = "zombie"
  /\ UNCHANGED <<in_main, in_handler, in_manager, in_running, tsp_child, clock, log, monitor>>

TspReports ==
  /\ tsp = "alive" /\ logged < MaxReports
  /\ logged' = logged + 1
  /\ UNCHANGED <<threads, clock, log_monitor, log_open, log_pos, monitor>>

\* Ages beyond the timeout are alike.
InTick ==
  /\ ~InOver /\ data_age <= StallTimeout
  /\ data_age' = data_age + 1
  /\ UNCHANGED <<threads, now_age, log, monitor>>

-----------------------------------------------------------------------------
(* kill_tsp_child, called by main and by the handler *)

\* SIGTERM, if there is a child to be seen ...
TermTsp(here, grace, done) == here' = IF tsp_child THEN grace ELSE done

\* ... and 100 ms later SIGKILL to the pid tsp_child holds by then, and an attempt to
\* reap it.  When it has been cleared, kill(0, SIGKILL) hits the whole process group.
KillTsp(done) ==
  \/ /\ tsp_child
     /\ tsp_child' = FALSE
     /\ tsp' \in IF tsp = "none" THEN {"none"} ELSE {"zombie", "none"}
     /\ done
  \/ /\ ~tsp_child
     /\ tsp' = "none" /\ in_main' = "killed"
     /\ UNCHANGED <<tsp_child, in_handler>>

-----------------------------------------------------------------------------
(* signal_handler *)

InSignal ==
  /\ ~InOver /\ in_handler = "idle"
  /\ in_running' = FALSE /\ in_handler' = "kill"
  /\ UNCHANGED <<in_main, in_manager, tsp_child, tsp, clock, log, monitor>>

HandlerTerm ==
  /\ in_handler = "kill"
  /\ TermTsp(in_handler, "grace", "idle")
  /\ UNCHANGED <<in_main, in_manager, in_running, tsp_child, tsp, clock, log, monitor>>

HandlerKill ==
  /\ in_handler = "grace"
  /\ KillTsp(in_handler' = "idle" /\ UNCHANGED in_main)
  /\ UNCHANGED <<in_manager, in_running, clock, log, monitor>>

-----------------------------------------------------------------------------
(* tsp_manager_thread *)

TspTest ==
  /\ in_manager = "test"
  /\ in_manager' = IF in_running THEN "fork" ELSE "done"
  /\ UNCHANGED <<in_main, in_handler, in_running, tsp_child, tsp, clock, log, monitor>>

TspFork ==
  /\ in_manager = "fork"
  /\ tsp' = "alive" /\ in_manager' = "store"
  /\ UNCHANGED <<in_main, in_handler, in_running, tsp_child, clock, log, monitor>>

TspForkFails ==
  /\ in_manager = "fork" /\ in_manager' = "test"
  /\ UNCHANGED <<in_main, in_handler, in_running, tsp_child, tsp, clock, log, monitor>>

TspStore ==
  /\ in_manager = "store"
  /\ tsp_child' = TRUE /\ in_manager' = "wait"
  /\ UNCHANGED <<in_main, in_handler, in_running, tsp, clock, log, monitor>>

\* waitpid returns once tsp is dead, whoever reaped it.
TspReap ==
  /\ in_manager = "wait" /\ tsp # "alive"
  /\ tsp' = "none" /\ in_manager' = "forget"
  /\ UNCHANGED <<in_main, in_handler, in_running, tsp_child, clock, log, monitor>>

TspForget ==
  /\ in_manager = "forget"
  /\ tsp_child' = FALSE /\ in_manager' = "test"
  /\ UNCHANGED <<in_main, in_handler, in_running, tsp, clock, log, monitor>>

-----------------------------------------------------------------------------
(* log_monitor_thread *)

\* The first time round, the log is opened.
LogTest ==
  /\ log_monitor = "test"
  /\ IF in_running
       THEN /\ log_monitor' = "read" /\ log_open' = TRUE
            /\ log_pos' = IF SeeksToEnd /\ ~log_open THEN logged ELSE log_pos
       ELSE log_monitor' = "done" /\ UNCHANGED <<log_open, log_pos>>
  /\ UNCHANGED <<threads, clock, logged, monitor>>

LogEnd ==
  /\ log_monitor = "read" /\ log_pos = logged
  /\ log_monitor' = "test"
  /\ UNCHANGED <<threads, clock, log_open, logged, log_pos, monitor>>

\* Mutant of AddSample: the index is not wrapped around.
AddSampleNoWrap(bitrate) ==
  /\ history' = [history EXCEPT ![history_index] = bitrate]
  /\ history_index' = history_index + 1
  /\ history_count' = IF history_count < HistorySize THEN history_count + 1 ELSE history_count
  /\ samples' = Append(samples, bitrate)
  /\ data_age' = 0

\* add_bitrate_sample
AddSample(bitrate) ==
  /\ history' = [history EXCEPT ![history_index] = bitrate]
  /\ history_index' = (history_index + 1) % HistorySize
  /\ history_count' = IF history_count < HistorySize THEN history_count + 1 ELSE history_count
  /\ samples' = Append(samples, bitrate)
  /\ data_age' = 0

\* Mutant of Sample: main loads last_data_received before the time, and overlooks
\* a sample in between.
SampleOverlooked ==
  /\ log_monitor = "read" /\ log_pos < logged
  /\ log_pos' = log_pos + 1
  /\ AddSample(log_pos')
  /\ UNCHANGED <<threads, now_age, log_monitor, log_open, logged>>

\* One line of the log; main loads last_data_received after the time.
Sample ==
  /\ log_monitor = "read" /\ log_pos < logged
  /\ log_pos' = log_pos + 1
  /\ AddSample(log_pos')
  /\ now_age' = 0
  /\ UNCHANGED <<threads, log_monitor, log_open, logged>>

\* Mutant of HistoryStart: a full history is served from slot 0.
HistoryStartZero == 0

\* Where /metrics/history starts to read.
HistoryStart == IF history_count = HistorySize THEN history_index ELSE 0

\* What /metrics/history answers, under the lock that Sample holds as well.
Served == [j \in 1 .. history_count |-> history[(HistoryStart + j - 1) % HistorySize]]

-----------------------------------------------------------------------------
(* main *)

InStartThreads ==
  /\ in_main = "start" /\ in_main' = "http"
  /\ in_manager' = "test" /\ log_monitor' = "test"
  /\ UNCHANGED <<in_handler, in_running, tsp_child, tsp, clock, monitor,
                 log_open, logged, log_pos>>

InStartHttp ==
  /\ in_main = "http"
  /\ in_main' = IF in_running THEN "sleep" ELSE "kill"
  /\ UNCHANGED <<in_handler, in_manager, in_running, tsp_child, tsp, clock, log, monitor>>

\* The port is taken: main returns, and tsp dies with the thread that forked it.
InStartHttpFails ==
  /\ in_main = "http"
  /\ in_main' = "failed" /\ tsp' = "none"
  /\ UNCHANGED <<in_handler, in_manager, in_running, tsp_child, clock, log, monitor>>

GetTime ==
  /\ in_main = "sleep"
  /\ now_age' = data_age /\ in_main' = "check"
  /\ UNCHANGED <<in_handler, in_manager, in_running, tsp_child, tsp, data_age, log, monitor>>

StallCheck ==
  /\ in_main = "check"
  /\ in_running' = (in_running /\ now_age <= StallTimeout) /\ now_age' = 0
  /\ in_main' = IF in_running' THEN "sleep" ELSE "kill"
  /\ UNCHANGED <<in_handler, in_manager, tsp_child, tsp, data_age, log, monitor>>

MainTerm ==
  /\ in_main = "kill"
  /\ TermTsp(in_main, "grace", "join")
  /\ UNCHANGED <<in_handler, in_manager, in_running, tsp_child, tsp, clock, log, monitor>>

\* Mutant of MainKill: no SIGKILL follows.
MainTermOnly ==
  /\ in_main = "grace"
  /\ tsp_child' = FALSE /\ in_main' = "join"
  /\ UNCHANGED <<in_handler, in_manager, in_running, tsp, clock, log, monitor>>

MainKill ==
  /\ in_main = "grace"
  /\ KillTsp(in_main' = "join" /\ UNCHANGED in_handler)
  /\ UNCHANGED <<in_manager, in_running, clock, log, monitor>>

\* Mutant of InExit: the manager is not joined.
InExitWithoutJoin ==
  /\ in_main = "join" /\ in_main' = "exited"
  /\ UNCHANGED <<in_handler, in_manager, in_running, tsp_child, tsp, clock, log, monitor>>

\* Stops the HTTP server, cancels the log monitor and joins the manager.
InExit ==
  /\ in_main = "join" /\ in_manager = "done" /\ in_main' = "exited"
  /\ UNCHANGED <<in_handler, in_manager, in_running, tsp_child, tsp, clock, log, monitor>>

-----------------------------------------------------------------------------

InMain ==
  \/ InStartThreads \/ InStartHttp \/ InStartHttpFails \/ GetTime \/ StallCheck
  \/ MainTerm \/ MainKill \/ InExit

InHandler == HandlerTerm \/ HandlerKill

InManager == TspTest \/ TspFork \/ TspForkFails \/ TspStore \/ TspReap \/ TspForget

LogMonitor == LogTest \/ LogEnd \/ Sample

InDone == InOver /\ UNCHANGED inVars

InNext ==
  \/ InMain
  \/ ~InOver /\ (InHandler \/ InManager \/ LogMonitor \/ TspDies \/ TspReports)
  \/ InTick \/ InSignal \/ InDone

InSpec == InInit /\ [][InNext]_inVars

\* The threads are scheduled, fork does not fail for ever, and the clock runs.
InFairness ==
  /\ WF_inVars(InMain) /\ WF_inVars(~InOver /\ InHandler) /\ WF_inVars(~InOver /\ InManager)
  /\ WF_inVars(~InOver /\ LogMonitor) /\ SF_inVars(~InOver /\ TspFork) /\ WF_inVars(InTick)

InFairSpec == InSpec /\ InFairness

-----------------------------------------------------------------------------
(* Properties *)

\* What /metrics/history serves are the newest samples, all of them as long as the
\* history has room, oldest first, and never a slot left from an earlier round.
HistoryIsLatest ==
  LET n == Len(samples)
  IN  /\ history_count = IF n < HistorySize THEN n ELSE HistorySize
      /\ Served = SubSeq(samples, n - history_count + 1, n)

\* main gives up only on a real stall: a sample that arrives between its two looks,
\* at the clock and at last_data_received, is not overlooked.
StallIsReal ==
  [][in_main = "check" /\ in_running /\ ~in_running' /\ in_main' = "kill"
       => data_age > StallTimeout]_inVars

\* An input that shut down in order leaves no tsp behind, although one may be forked
\* while main and the signal handler are already looking for it.
InExitIsClean == in_main = "exited" => tsp = "none" /\ ~tsp_child /\ in_manager = "done"

\* A shutdown that saw the child it is to kill ends, even if tsp ignores SIGTERM, whoever
\* reaps it, and even if the handler kills it at the same time.
InKillEnds == in_main = "grace" ~> InOver

\* "Data stall detected ... Exiting for systemd restart." (srt_input.c:972): an input
\* without data exits.
StallExits == (InputUp /\ data_age > StallTimeout) ~> (data_age <= StallTimeout \/ InOver)
=============================================================================
