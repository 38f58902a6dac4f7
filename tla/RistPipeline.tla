---------------------------- MODULE RistPipeline ----------------------------
(***************************************************************************)
(* rist_input.c: a manager thread forks tsp, waits for it and forks again; *)
(* a stop signal clears running and passes SIGTERM on, once.  Unlike the   *)
(* SRT input, main only joins its threads: there is no stall check and no  *)
(* SIGKILL.                                                                *)
(*                                                                         *)
(* The handler reads tsp_child twice and runs on whichever thread the      *)
(* signal interrupts.  Until the child calls execvp it has the handler too *)
(* and a SIGTERM only runs it there, on a copy of g_ctx without a child.   *)
(* rist_child is always 0: tsp forks ristreceiver.                         *)
(***************************************************************************)
EXTENDS Integers

CONSTANT MaxStopSignals \* bound: SIGINTs and SIGTERMs from outside

ASSUME RistPipelineAssumption == MaxStopSignals \in Nat

VARIABLES
  rp_running,   \* g_ctx.running
  rp_child,     \* g_ctx.tsp_child: 0, or 1 for the pid of a child
  rp_tsp,       \* the child: none, forked, alive as tsp, told to terminate, zombie
  rp_manager,   \* where pipeline_manager_thread is
  rp_parser,    \* log_parser_thread runs
  rp_main,      \* where main is
  rp_handler,   \* where signal_handler is
  rp_on,        \* the thread that the handler runs on
  rp_pending,   \* a signal the program has sent to its own group
  rp_signals,   \* history: signals from outside
  rp_missed     \* history: the last SIGTERM missed the child there is, or is to be

rpVars == <<rp_running, rp_child, rp_tsp, rp_manager, rp_parser, rp_main,
            rp_handler, rp_on, rp_pending, rp_signals, rp_missed>>

RpTypeOK ==
  /\ rp_running \in BOOLEAN /\ rp_child \in {0, 1} /\ rp_parser \in BOOLEAN
  /\ rp_tsp \in {"none", "forked", "alive", "told", "zombie"}
  /\ rp_manager \in {"none", "test", "fork", "store", "wait", "clear", "rest", "done"}
  /\ rp_main \in {"start", "manager", "parser", "exited"}
  /\ rp_handler \in {"idle", "stop", "check", "kill"}
  /\ rp_on \in {"manager", "other"}
  /\ rp_pending \in BOOLEAN /\ rp_missed \in BOOLEAN
  /\ rp_signals \in 0 .. MaxStopSignals

\* The handlers have been installed.
RpInit ==
  /\ rp_running = TRUE /\ rp_child = 0 /\ rp_tsp = "none"
  /\ rp_manager = "none" /\ rp_parser = FALSE /\ rp_main = "start"
  /\ rp_handler = "idle" /\ rp_on = "other" /\ rp_pending = FALSE
  /\ rp_signals = 0 /\ rp_missed = FALSE

RpOver == rp_main = "exited"
rpThreads == <<rp_manager, rp_parser, rp_main>>
rpSignals == <<rp_handler, rp_on, rp_pending, rp_signals, rp_missed>>

-----------------------------------------------------------------------------
(* The child becomes tsp, and dies when it likes; execvp may fail *)

RpTspUnchanged == UNCHANGED <<rp_running, rp_child, rpThreads, rpSignals>>

RpExec ==
  /\ rp_tsp = "forked" /\ rp_tsp' \in {"alive", "zombie"}
  /\ RpTspUnchanged

RpTspDies ==
  /\ rp_tsp \in {"alive", "told"} /\ rp_tsp' = "zombie"
  /\ RpTspUnchanged

-----------------------------------------------------------------------------
(* pipeline_manager_thread *)

\* The manager is at a place, and no handler has interrupted it.
RpAt(place) ==
  /\ ~RpOver /\ rp_manager = place
  /\ rp_handler # "idle" => rp_on # "manager"

RpTest ==
  /\ RpAt("test") /\ rp_manager' = IF rp_running THEN "fork" ELSE "done"
  /\ UNCHANGED <<rp_running, rp_child, rp_tsp, rp_parser, rp_main, rpSignals>>

RpFork ==
  /\ RpAt("fork") /\ rp_tsp' = "forked" /\ rp_manager' = "store"
  /\ UNCHANGED <<rp_running, rp_child, rp_parser, rp_main, rpSignals>>

\* Mutant of RpForkFails: what fork returns is stored unchecked.
RpForkFailsUnseen ==
  /\ RpAt("fork") /\ rp_child' = -1 /\ rp_manager' = "wait"
  /\ UNCHANGED <<rp_running, rp_tsp, rp_parser, rp_main, rpSignals>>

RpForkFails ==
  /\ RpAt("fork") /\ rp_manager' = "rest"
  /\ UNCHANGED <<rp_running, rp_child, rp_tsp, rp_parser, rp_main, rpSignals>>

RpStore ==
  /\ RpAt("store") /\ rp_child' = 1 /\ rp_manager' = "wait"
  /\ UNCHANGED <<rp_running, rp_tsp, rp_parser, rp_main, rpSignals>>

RpReap ==
  /\ RpAt("wait") /\ rp_tsp = "zombie" /\ rp_tsp' = "none" /\ rp_manager' = "clear"
  /\ UNCHANGED <<rp_running, rp_child, rp_parser, rp_main, rpSignals>>

RpClear ==
  /\ RpAt("clear") /\ rp_child' = 0 /\ rp_manager' = IF rp_running THEN "rest" ELSE "test"
  /\ UNCHANGED <<rp_running, rp_tsp, rp_parser, rp_main, rpSignals>>

RpRest ==
  /\ RpAt("rest") /\ rp_manager' = "test"
  /\ UNCHANGED <<rp_running, rp_child, rp_tsp, rp_parser, rp_main, rpSignals>>

RpManager == RpTest \/ RpFork \/ RpForkFails \/ RpStore \/ RpReap \/ RpClear \/ RpRest

-----------------------------------------------------------------------------
(* main and log_parser_thread *)

RpMainUnchanged == UNCHANGED <<rp_running, rp_child, rp_tsp, rpSignals>>

\* The HTTP server starts, or main gives up before there is a thread.
RpStart ==
  /\ rp_main = "start"
  /\ \/ rp_main' = "manager" /\ rp_manager' = "test" /\ rp_parser' = TRUE
     \/ rp_main' = "exited" /\ UNCHANGED <<rp_manager, rp_parser>>
  /\ RpMainUnchanged

RpParserEnds ==
  /\ ~RpOver /\ rp_parser /\ ~rp_running /\ rp_parser' = FALSE
  /\ UNCHANGED <<rp_manager, rp_main>> /\ RpMainUnchanged

\* Mutant of RpJoin: nobody waits for the manager.
RpJoinParserOnly ==
  /\ \/ rp_main = "manager" /\ ~rp_running /\ rp_main' = "parser"
     \/ rp_main = "parser" /\ ~rp_parser /\ rp_main' = "exited"
  /\ UNCHANGED <<rp_manager, rp_parser>> /\ RpMainUnchanged

RpJoin ==
  /\ \/ rp_main = "manager" /\ rp_manager = "done" /\ rp_main' = "parser"
     \/ rp_main = "parser" /\ ~rp_parser /\ rp_main' = "exited"
  /\ UNCHANGED <<rp_manager, rp_parser>> /\ RpMainUnchanged

-----------------------------------------------------------------------------
(* signal_handler; a second signal waits until the first is handled *)

RpHandlerUnchanged == UNCHANGED <<rp_child, rpThreads, rp_signals>>

RpSignal ==
  /\ ~RpOver /\ rp_handler = "idle" /\ rp_handler' = "stop"
  /\ rp_on' \in {"other"} \cup (IF rp_manager \notin {"none", "done"} THEN {"manager"} ELSE {})
  /\ \/ rp_pending /\ UNCHANGED rp_signals
     \/ ~rp_pending /\ rp_signals < MaxStopSignals /\ rp_signals' = rp_signals + 1
  /\ rp_pending' = FALSE
  /\ UNCHANGED <<rp_running, rp_child, rp_tsp, rpThreads, rp_missed>>

RpHandlerStop ==
  /\ ~RpOver /\ rp_handler = "stop" /\ rp_handler' = "check" /\ rp_running' = FALSE
  /\ UNCHANGED <<rp_tsp, rp_on, rp_pending, rp_missed>> /\ RpHandlerUnchanged

RpHandlerCheck ==
  /\ ~RpOver /\ rp_handler = "check"
  /\ rp_handler' = IF rp_child > 0 THEN "kill" ELSE "idle"
  /\ rp_missed' = (rp_missed \/ (rp_child = 0 /\ rp_manager \in {"fork", "store"}))
  /\ UNCHANGED <<rp_running, rp_tsp, rp_on, rp_pending>> /\ RpHandlerUnchanged

\* Mutant of RpHandlerKill: the SIGTERM goes to ristreceiver's pid alone, which is 0.
RpHandlerKillsNobody ==
  /\ ~RpOver /\ rp_handler = "kill" /\ rp_handler' = "idle"
  /\ UNCHANGED <<rp_running, rp_tsp, rp_on, rp_pending, rp_missed>> /\ RpHandlerUnchanged

\* kill(tsp_child, SIGTERM); with a child that has been cleared since, the
\* signal goes to the program's own group.  A child that is not tsp yet runs the
\* handler it inherited, and goes on.
RpHandlerKill ==
  /\ ~RpOver /\ rp_handler = "kill" /\ rp_handler' = "idle"
  /\ rp_tsp' = IF rp_tsp = "alive" THEN "told" ELSE rp_tsp
  /\ rp_missed' = (rp_tsp = "forked" \/ (rp_missed /\ rp_tsp # "alive"))
  /\ rp_pending' = (rp_pending \/ rp_child = 0)
  /\ UNCHANGED <<rp_running, rp_on>> /\ RpHandlerUnchanged

RpHandler == RpHandlerStop \/ RpHandlerCheck \/ RpHandlerKill

RpFinished == RpOver /\ UNCHANGED rpVars

RpNext ==
  \/ RpExec \/ RpTspDies \/ RpManager \/ RpStart \/ RpParserEnds \/ RpJoin
  \/ RpSignal \/ RpHandler \/ RpFinished

\* What is assumed of tsp: it follows a SIGTERM.
RpTold == rp_tsp = "told" /\ RpTspDies

RpSpec ==
  /\ RpInit /\ [][RpNext]_rpVars
  /\ WF_rpVars(RpManager) /\ WF_rpVars(RpStart) /\ WF_rpVars(RpJoin) /\ WF_rpVars(RpParserEnds)
  /\ WF_rpVars(RpHandler) /\ WF_rpVars(rp_pending /\ RpSignal) /\ WF_rpVars(RpTold)

-----------------------------------------------------------------------------
(* Properties *)

\* An input that has ended left no tsp behind.
RpExitIsClean == RpOver => rp_tsp = "none"

\* With a tsp that follows SIGTERM, a stop signal ends the program and its tsp,
\* whatever thread it interrupts and even if tsp dies by itself meanwhile, unless the
\* last one came between the manager's test of running and the child's execvp: then
\* nobody has told tsp, and main waits for as long as it runs.
RpStopEnds == ~rp_running ~> (RpOver \/ rp_missed)
=============================================================================
