----------------------------- MODULE HlsOutput -----------------------------
(***************************************************************************)
(* hls_output.c: a single-threaded supervisor of one ffmpeg that writes    *)
(* HLS files.  main starts ffmpeg, polls it every second, and on a stop    *)
(* signal terminates it and clears the output directory.                   *)
(*                                                                         *)
(* The kernel's side is kept: what the recorded pid stands for changes     *)
(* when ffmpeg exits and when a process of the same machine is given the   *)
(* number again.                                                           *)
(***************************************************************************)
VARIABLES
  hls_pc,        \* where main is
  hls_running,   \* ctx.running
  ffmpeg_pid,    \* what ctx.ffmpeg_pid stands for: "unset", "ffmpeg", "zombie",
                 \* "free" (nobody has this pid), "stranger"
  hls_dir        \* there are files in ctx.output_dir

hlsVars == <<hls_pc, hls_running, ffmpeg_pid, hls_dir>>

InLoop == hls_pc \in {"poll", "restart", "stats", "sleep"}
Over   == hls_pc \in {"exited", "failed", "killed"}

HlsTypeOK ==
  /\ hls_pc \in {"clean", "arm", "start", "poll", "restart", "stats", "sleep", "term", "wait",
                 "check", "kill", "final", "exited", "failed", "killed"}
  /\ <<hls_running, hls_dir>> \in BOOLEAN \X BOOLEAN
  /\ ffmpeg_pid \in {"unset", "ffmpeg", "zombie", "free", "stranger"}

\* Files of an earlier, killed instance may still be there.
HlsInit ==
  /\ hls_pc = "clean" /\ hls_running = FALSE
  /\ ffmpeg_pid = "unset" /\ hls_dir \in BOOLEAN

-----------------------------------------------------------------------------
(* The kernel, ffmpeg and other processes *)

\* main ignores SIGCHLD: a child that exits is reaped at once, its pid is free.
Exited == "free"

FfmpegExits ==
  /\ ffmpeg_pid = "ffmpeg" /\ ffmpeg_pid' = Exited
  /\ UNCHANGED <<hls_pc, hls_running, hls_dir>>

FfmpegWritesHls ==
  /\ ffmpeg_pid = "ffmpeg" /\ hls_dir' = TRUE
  /\ UNCHANGED <<hls_pc, hls_running, ffmpeg_pid>>

PidReused ==
  /\ ffmpeg_pid = "free" /\ ffmpeg_pid' = "stranger"
  /\ UNCHANGED <<hls_pc, hls_running, hls_dir>>

StrangerExits ==
  /\ ffmpeg_pid = "stranger" /\ ffmpeg_pid' = "free"
  /\ UNCHANGED <<hls_pc, hls_running, hls_dir>>

\* SIGINT or SIGTERM; before the handlers are installed it just kills.
HlsSignal ==
  /\ ~Over
  /\ IF hls_pc = "clean"
       THEN hls_pc' = "killed" /\ UNCHANGED hls_running
       ELSE hls_running' = FALSE /\ UNCHANGED hls_pc
  /\ UNCHANGED <<ffmpeg_pid, hls_dir>>

-----------------------------------------------------------------------------
(* main *)

\* Clears the directory and installs the handlers ...
CleanDir ==
  /\ hls_pc = "clean"
  /\ hls_dir' = FALSE /\ hls_pc' = "arm"
  /\ UNCHANGED <<hls_running, ffmpeg_pid>>

\* ... and only then sets running, whatever a handler did to it.
Arm ==
  /\ hls_pc = "arm"
  /\ hls_running' = TRUE /\ hls_pc' = "start"
  /\ UNCHANGED <<ffmpeg_pid, hls_dir>>

StartFfmpeg ==
  /\ hls_pc \in {"start", "restart"}
  /\ ffmpeg_pid' = "ffmpeg"
  /\ hls_pc' = IF hls_pc = "restart" THEN "stats" ELSE IF hls_running THEN "poll" ELSE "term"
  /\ UNCHANGED <<hls_running, hls_dir>>

\* fork fails: fatal the first time, without effect later.
StartFfmpegFails ==
  /\ hls_pc \in {"start", "restart"}
  /\ hls_pc' = IF hls_pc = "restart" THEN "stats" ELSE "failed"
  /\ UNCHANGED <<hls_running, ffmpeg_pid, hls_dir>>

\* waitpid(WNOHANG) returns the pid of a zombie child, 0 while the child runs,
\* and -1 for a pid that is no child of this process.
Poll ==
  /\ hls_pc = "poll"
  /\ IF ffmpeg_pid = "zombie"
       THEN ffmpeg_pid' = "free" /\ hls_pc' = "restart"
       ELSE hls_pc' = "stats" /\ UNCHANGED ffmpeg_pid
  /\ UNCHANGED <<hls_running, hls_dir>>

\* stats.json is replaced every other round.
WriteStats ==
  /\ hls_pc = "stats"
  /\ hls_dir' \in {hls_dir, TRUE} /\ hls_pc' = "sleep"
  /\ UNCHANGED <<hls_running, ffmpeg_pid>>

Sleep ==
  /\ hls_pc = "sleep"
  /\ hls_pc' = IF hls_running THEN "poll" ELSE "term"
  /\ UNCHANGED <<hls_running, ffmpeg_pid, hls_dir>>

\* Mutant of TerminateFfmpeg: SIGTERM is trusted.
TermAndLeave ==
  /\ hls_pc = "term" /\ hls_pc' = "final"
  /\ UNCHANGED <<hls_running, ffmpeg_pid, hls_dir>>

\* stop_ffmpeg: SIGTERM, which ffmpeg or a stranger may follow or ignore ...
TerminateFfmpeg ==
  /\ hls_pc = "term" /\ hls_pc' = "wait"
  /\ UNCHANGED <<hls_running, ffmpeg_pid, hls_dir>>

\* Mutant of WaitForExit: waits until ffmpeg is gone.
WaitForever ==
  /\ hls_pc = "wait" /\ ffmpeg_pid # "ffmpeg" /\ hls_pc' = "check"
  /\ ffmpeg_pid' = IF ffmpeg_pid = "zombie" THEN "free" ELSE ffmpeg_pid
  /\ UNCHANGED <<hls_running, hls_dir>>

\* ... five looks, one second apart, that end early once waitpid returns not 0 ...
WaitForExit ==
  /\ hls_pc = "wait" /\ hls_pc' = "check"
  /\ ffmpeg_pid' = IF ffmpeg_pid = "zombie" THEN "free" ELSE ffmpeg_pid
  /\ UNCHANGED <<hls_running, hls_dir>>

\* ... kill(pid, 0), which finds anyone with that pid ...
CheckAlive ==
  /\ hls_pc = "check"
  /\ hls_pc' = IF ffmpeg_pid = "free" THEN "final" ELSE "kill"
  /\ UNCHANGED <<hls_running, ffmpeg_pid, hls_dir>>

\* ... and SIGKILL to whoever has it now.
KillFfmpeg ==
  /\ hls_pc = "kill"
  /\ ffmpeg_pid' = "free" /\ hls_pc' = "final"
  /\ UNCHANGED <<hls_running, hls_dir>>

\* Writes stats.json once more and clears the directory.
FinalClean ==
  /\ hls_pc = "final"
  /\ hls_dir' = FALSE /\ hls_pc' = "exited"
  /\ UNCHANGED <<hls_running, ffmpeg_pid>>

HlsMain ==
  \/ CleanDir \/ Arm \/ StartFfmpeg \/ StartFfmpegFails \/ Poll \/ WriteStats \/ Sleep
  \/ TerminateFfmpeg \/ WaitForExit \/ CheckAlive \/ KillFfmpeg \/ FinalClean

HlsDone == Over /\ UNCHANGED hlsVars

HlsNext ==
  \/ HlsMain \/ HlsSignal \/ HlsDone
  \/ FfmpegExits \/ FfmpegWritesHls \/ PidReused \/ StrangerExits

HlsSpec == HlsInit /\ [][HlsNext]_hlsVars

\* main is scheduled, and a fork that can be tried again and again succeeds.
HlsFairness == WF_hlsVars(HlsMain) /\ SF_hlsVars(StartFfmpeg)

HlsFairSpec == HlsSpec /\ HlsFairness

-----------------------------------------------------------------------------
(* Properties *)

\* A supervisor that shut down leaves neither its ffmpeg nor its files: no
\* ffmpeg that ignored SIGTERM goes on writing into the cleared directory.
HlsExitIsClean == hls_pc = "exited" => ffmpeg_pid # "ffmpeg" /\ ~hls_dir

\* A stop signal seen by the loop ends the process, whatever ffmpeg does, and
\* whoever has its pid by then.
HlsStopEnds == (InLoop /\ ~hls_running) ~> hls_pc = "exited"

\* "FFmpeg exited, restarting..." (hls_output.c:485): while the supervisor
\* runs, an ffmpeg that is gone is replaced.
RestartsFfmpeg ==
  (InLoop /\ ffmpeg_pid # "ffmpeg") ~> (ffmpeg_pid = "ffmpeg" \/ ~hls_running)
=============================================================================
