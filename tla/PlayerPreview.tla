--------------------------- MODULE PlayerPreview ---------------------------
(***************************************************************************)
(* player_preview.c: an on-demand preview that runs ffmpeg and ends itself *)
(* when nobody sends keepalives any more.                                  *)
(*                                                                         *)
(*   main      checks the keepalive age every second, and shuts down;      *)
(*   manager   forks ffmpeg, waits for it, starts it again;                *)
(*   HTTP      resets the keepalive age.                                   *)
(*                                                                         *)
(* main and manager share running and ffmpeg_child without a lock.         *)
(* ffmpeg's zombie can be reaped by either of them.                        *)
(***************************************************************************)
EXTENDS Integers

CONSTANT Timeout      \* KEEPALIVE_TIMEOUT, in clock ticks

ASSUME PlayerPreviewAssumption == Timeout \in Nat

VARIABLES
  main,      \* where main is
  manager,   \* where ffmpeg_manager_thread is
  running,   \* g_ctx.running
  child,     \* g_ctx.ffmpeg_child holds a pid
  proc,      \* the last ffmpeg forked: "none" (never, or reaped), "alive", "zombie"
  age,       \* time since last_keepalive
  seen,      \* how old the keepalive is whose time main has read
  files      \* there are HLS files in output_dir

vars == <<main, manager, running, child, proc, age, seen, files>>

Gone == main \in {"exited", "failed", "killed"}
HttpUp == main \in {"sleep", "decide"}

TypeOK ==
  /\ main \in {"start", "http", "failJoin", "sleep", "decide", "stopHttp", "kill", "grace",
               "join", "exited", "failed", "killed"}
  /\ manager \in {"none", "dirs", "test", "fork", "store", "wait", "forget", "done"}
  /\ running \in BOOLEAN /\ child \in BOOLEAN /\ files \in BOOLEAN
  /\ proc \in {"none", "alive", "zombie"}
  /\ age \in 0 .. Timeout + 1 /\ seen \in 0 .. Timeout + 1

\* main has cleared the directory and is about to start the threads.
Init ==
  /\ main = "start" /\ manager = "none"
  /\ running = TRUE /\ child = FALSE /\ proc = "none"
  /\ age = 0 /\ seen = 0 /\ files = FALSE

-----------------------------------------------------------------------------
(* ffmpeg, the clock, the viewer *)

FfmpegDies ==
  /\ proc = "alive" /\ proc' = "zombie"
  /\ UNCHANGED <<main, manager, running, child, age, seen, files>>

FfmpegWrites ==
  /\ proc = "alive" /\ files' = TRUE
  /\ UNCHANGED <<main, manager, running, child, proc, age, seen>>

\* Ages beyond the timeout are alike.
Older(a) == IF a > Timeout THEN a ELSE a + 1

Tick ==
  /\ ~Gone /\ age' = Older(age)
  /\ seen' = IF main = "decide" THEN Older(seen) ELSE seen
  /\ UNCHANGED <<main, manager, running, child, proc, files>>

Keepalive ==
  /\ HttpUp /\ age' = 0
  /\ UNCHANGED <<main, manager, running, child, proc, seen, files>>

SignalHandler ==
  /\ ~Gone /\ running' = FALSE
  /\ UNCHANGED <<main, manager, child, proc, age, seen, files>>

-----------------------------------------------------------------------------
(* ffmpeg_manager_thread *)

MakeDirs ==
  /\ manager = "dirs"
  /\ \/ manager' = "test" /\ UNCHANGED running
     \/ manager' = "done" /\ running' = FALSE
  /\ UNCHANGED <<main, child, proc, age, seen, files>>

ManagerTest ==
  /\ manager = "test"
  /\ manager' = IF running THEN "fork" ELSE "done"
  /\ UNCHANGED <<main, running, child, proc, age, seen, files>>

Fork ==
  /\ manager = "fork"
  /\ proc' = "alive" /\ manager' = "store"
  /\ UNCHANGED <<main, running, child, age, seen, files>>

ForkFails ==
  /\ manager = "fork" /\ manager' = "test"
  /\ UNCHANGED <<main, running, child, proc, age, seen, files>>

StoreChild ==
  /\ manager = "store"
  /\ child' = TRUE /\ manager' = "wait"
  /\ UNCHANGED <<main, running, proc, age, seen, files>>

\* waitpid returns once ffmpeg is dead, whoever reaped it.
Reap ==
  /\ manager = "wait" /\ proc # "alive"
  /\ proc' = "none" /\ manager' = "forget"
  /\ UNCHANGED <<main, running, child, age, seen, files>>

\* Mutant of ForgetChild: the manager returns after the first ffmpeg.
ForgetAndStop ==
  /\ manager = "forget"
  /\ child' = FALSE /\ manager' = "done"
  /\ UNCHANGED <<main, running, proc, age, seen, files>>

ForgetChild ==
  /\ manager = "forget"
  /\ child' = FALSE /\ manager' = "test"
  /\ UNCHANGED <<main, running, proc, age, seen, files>>

-----------------------------------------------------------------------------
(* main *)

StartThreads ==
  /\ main = "start"
  /\ main' = "http" /\ manager' = "dirs"
  /\ UNCHANGED <<running, child, proc, age, seen, files>>

StartHttp ==
  /\ main = "http" /\ main' = IF running THEN "sleep" ELSE "stopHttp"
  /\ UNCHANGED <<manager, running, child, proc, age, seen, files>>

\* The port is taken: main gives up and joins the manager.
StartHttpFails ==
  /\ main = "http" /\ main' = "failJoin" /\ running' = FALSE
  /\ UNCHANGED <<manager, child, proc, age, seen, files>>

FailJoin ==
  /\ main = "failJoin" /\ manager = "done" /\ main' = "failed"
  /\ UNCHANGED <<manager, running, child, proc, age, seen, files>>

\* The time is compared after the lock is released: a keepalive in between is missed.
CheckAge ==
  /\ main = "sleep"
  /\ seen' = age /\ main' = "decide"
  /\ UNCHANGED <<manager, running, child, proc, age, files>>

Decide ==
  /\ main = "decide"
  /\ running' = (running /\ seen <= Timeout) /\ seen' = 0
  /\ main' = IF running' THEN "sleep" ELSE "stopHttp"
  /\ UNCHANGED <<manager, child, proc, age, files>>

StopHttp ==
  /\ main = "stopHttp" /\ main' = "kill"
  /\ UNCHANGED <<manager, running, child, proc, age, seen, files>>

\* kill_ffmpeg_child: SIGTERM, if there is a child to be seen ...
Terminate ==
  /\ main = "kill" /\ main' = IF child THEN "grace" ELSE "join"
  /\ UNCHANGED <<manager, running, child, proc, age, seen, files>>

\* Mutant of Kill: no SIGKILL follows.
TerminateOnly ==
  /\ main = "grace"
  /\ child' = FALSE /\ main' = "join"
  /\ UNCHANGED <<manager, running, proc, age, seen, files>>

\* ... and 100 ms later SIGKILL to the pid ffmpeg_child holds by then, and an
\* attempt to reap it.  When the manager has cleared it, kill(0, SIGKILL) hits
\* the whole process group, which this process leads.
Kill ==
  /\ main = "grace"
  /\ \/ /\ child
        /\ proc' \in (IF proc = "none" THEN {"none"} ELSE {"zombie", "none"})
        /\ child' = FALSE /\ main' = "join"
     \/ /\ ~child
        /\ proc' = "none" /\ main' = "killed"
        /\ UNCHANGED child
  /\ UNCHANGED <<manager, running, age, seen, files>>

\* Mutant of Exit: the manager is not joined.
ExitWithoutJoin ==
  /\ main = "join"
  /\ files' = FALSE /\ main' = "exited"
  /\ UNCHANGED <<manager, running, child, proc, age, seen>>

\* Joins the manager, clears the directory, returns.
Exit ==
  /\ main = "join" /\ manager = "done"
  /\ files' = FALSE /\ main' = "exited"
  /\ UNCHANGED <<manager, running, child, proc, age, seen>>

-----------------------------------------------------------------------------

MainStep ==
  \/ StartThreads \/ StartHttp \/ StartHttpFails \/ FailJoin \/ CheckAge \/ Decide
  \/ StopHttp \/ Terminate \/ Kill \/ Exit

ManagerStep ==
  \/ MakeDirs \/ ManagerTest \/ Fork \/ ForkFails \/ StoreChild \/ Reap \/ ForgetChild

Finished == Gone /\ UNCHANGED vars

Next ==
  \/ MainStep
  \/ main # "killed" /\ (ManagerStep \/ FfmpegDies \/ FfmpegWrites)
  \/ Tick \/ Keepalive \/ SignalHandler \/ Finished

Spec == Init /\ [][Next]_vars

\* Both threads are scheduled, fork does not fail for ever, and the clock runs.
Fairness ==
  /\ WF_vars(MainStep) /\ WF_vars(main # "killed" /\ ManagerStep)
  /\ SF_vars(main # "killed" /\ Fork) /\ WF_vars(Tick)

FairSpec == Spec /\ Fairness

-----------------------------------------------------------------------------
(* Properties *)

\* A preview that shuts down in order leaves no ffmpeg and no HLS files,
\* although ffmpeg may be forked while main is already looking for it.
ExitIsClean == main = "exited" => proc = "none" /\ ~child /\ ~files /\ manager = "done"

\* ffmpeg that died is started again for as long as the preview runs.
FfmpegIsRestarted == (manager = "wait" /\ proc # "alive") ~> (proc = "alive" \/ ~running)

\* A shutdown that saw the child it is to kill ends, even if ffmpeg ignores
\* SIGTERM, and whichever thread reaps it.
KillEnds == main = "grace" ~> Gone

\* "Automatic cleanup on keepalive timeout" (README.md:666): a preview nobody
\* watches goes away, with its ffmpeg and its HLS files.
InactiveIsCleanedUp ==
  (HttpUp /\ age > Timeout) ~> (age <= Timeout \/ (Gone /\ proc = "none" /\ ~files))
=============================================================================
