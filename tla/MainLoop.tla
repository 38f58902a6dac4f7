------------------------------ MODULE MainLoop ------------------------------
(***************************************************************************)
(* How the GStreamer programs start and stop: cari-input, cari-mux and     *)
(* cari-transcoder install their signal handlers first, prepare for a long *)
(* time (detection, pipeline), and then sit in g_main_loop_run, which is   *)
(* all that a stop signal can end: nobody looks at "running".              *)
(*                                                                         *)
(* cari-input's handler logs before it quits the loop; log_message_v of    *)
(* logging.c holds a mutex that is not recursive.  A handler runs on the   *)
(* thread it interrupts, main or one of GStreamer's, and a signal of       *)
(* another kind may interrupt it.  Of the three only cari-input handles    *)
(* SIGHUP, and nobody looks at the flag which that sets.                   *)
(*                                                                         *)
(* g_main_loop_quit takes the mutex of the main context, not recursive     *)
(* either, which main holds in g_main_loop_run except while it polls and   *)
(* dispatches.                                                             *)
(***************************************************************************)
EXTENDS Naturals, Sequences

CONSTANT MaxSignals     \* bound: signals

ASSUME MainLoopAssumption == MaxSignals \in Nat

VARIABLES
  ml_program,   \* which of the three runs
  ml_main,      \* where main is
  ml_next,      \* where main goes when its log message is written
  ml_loop,      \* g_main_loop: not made, made, running, told to quit, freed
  ml_mutex,     \* g_log_mutex: the thread that holds it, or "free"
  ml_context,   \* GMainContext's mutex: the thread that holds it, or "free"
  ml_handlers,  \* the handlers that run, in the order they were entered
  ml_signals,   \* history: signals so far
  ml_due        \* history: a SIGINT or SIGTERM came when the loop was running

mlVars == <<ml_program, ml_main, ml_next, ml_loop, ml_mutex, ml_context, ml_handlers, ml_signals, ml_due>>

Thread == {"main", "stream"}
Kinds == IF ml_program = "cari-input" THEN {"int", "term", "hup"} ELSE {"int", "term"}
Handler == [thread : Thread, kind : {"int", "term", "hup"}, at : {"lock", "unlock", "act", "quit"}]
MainPlaces == {"detect", "open", "build", "make", "play", "run", "loop", "iterate", "tell", "told",
               "stop", "stats", "lock", "unlock", "exited"}
MainOver == ml_main = "exited"

MlTypeOK ==
  /\ ml_program \in {"cari-input", "cari-mux", "cari-transcoder"}
  /\ ml_main \in MainPlaces /\ ml_next \in MainPlaces
  /\ ml_loop \in {"none", "made", "running", "quit", "freed"}
  /\ ml_mutex \in Thread \cup {"free"} /\ ml_context \in Thread \cup {"free"}
  /\ ml_handlers \in Seq(Handler) /\ Len(ml_handlers) <= MaxSignals
  /\ ml_signals \in 0 .. MaxSignals /\ ml_due \in BOOLEAN

\* The handlers have just been installed.
MlInit ==
  /\ \/ ml_program = "cari-input" /\ ml_main = "open"
     \/ ml_program \in {"cari-mux", "cari-transcoder"} /\ ml_main = "detect"
  /\ ml_next = "exited" /\ ml_loop = "none" /\ ml_mutex = "free" /\ ml_context = "free"
  /\ ml_handlers = <<>> /\ ml_signals = 0 /\ ml_due = FALSE

-----------------------------------------------------------------------------
(* main *)

\* main runs when no handler has interrupted it.
Interrupted(t) == \E i \in 1 .. Len(ml_handlers) : ml_handlers[i].thread = t
MainAt(place) == ml_main = place /\ ~Interrupted("main")

\* main goes on to a place; cari-input logs a message first.
Continue(place) ==
  IF ml_program = "cari-input"
    THEN ml_main' = "lock" /\ ml_next' = place
    ELSE ml_main' = place /\ UNCHANGED ml_next

MlUnchanged == UNCHANGED <<ml_program, ml_handlers, ml_signals, ml_due>>

LogLock ==
  /\ MainAt("lock") /\ ml_mutex = "free"
  /\ ml_mutex' = "main" /\ ml_main' = "unlock"
  /\ UNCHANGED <<ml_next, ml_loop, ml_context>> /\ MlUnchanged

LogUnlock ==
  /\ MainAt("unlock")
  /\ ml_mutex' = "free" /\ ml_main' = ml_next
  /\ UNCHANGED <<ml_next, ml_loop, ml_context>> /\ MlUnchanged

\* ffprobe: a mux that learns nothing assumes H.264 and AAC, a transcoder gives up.
Detect ==
  /\ MainAt("detect")
  /\ \/ ml_main' = "make"
     \/ ml_program = "cari-transcoder" /\ ml_main' = "exited"
  /\ UNCHANGED <<ml_next, ml_loop, ml_mutex, ml_context>> /\ MlUnchanged

\* cari-input opens its ring, builds the pipeline and then makes the loop.
OpenRing ==
  /\ MainAt("open")
  /\ Continue("build")
  /\ UNCHANGED <<ml_loop, ml_mutex, ml_context>> /\ MlUnchanged

MakeLoop ==
  /\ MainAt("make") /\ ml_loop' = "made"
  /\ ml_main' = IF ml_program = "cari-input" THEN "play" ELSE "build"
  /\ UNCHANGED <<ml_next, ml_mutex, ml_context>> /\ MlUnchanged

Build ==
  /\ MainAt("build")
  /\ \/ ml_main' = IF ml_program = "cari-input" THEN "make" ELSE "play"
     \/ ml_main' = "exited"
  /\ UNCHANGED <<ml_next, ml_loop, ml_mutex, ml_context>> /\ MlUnchanged

Play ==
  /\ MainAt("play")
  /\ \/ Continue("run")
     \/ ml_main' = "exited" /\ UNCHANGED ml_next
  /\ UNCHANGED <<ml_loop, ml_mutex, ml_context>> /\ MlUnchanged

\* g_main_loop_run starts afresh: an earlier g_main_loop_quit has left no trace.
RunLoop ==
  /\ MainAt("run") /\ ml_context = "free"
  /\ ml_context' = "main" /\ ml_loop' = "running" /\ ml_main' = "iterate"
  /\ UNCHANGED <<ml_next, ml_mutex>> /\ MlUnchanged

\* main gives the context up to poll and to dispatch, and takes it again.
Poll ==
  /\ MainAt("iterate") /\ ml_loop = "running"
  /\ ml_context' = "free" /\ ml_main' = "loop"
  /\ UNCHANGED <<ml_next, ml_loop, ml_mutex>> /\ MlUnchanged

Iterate ==
  /\ (MainAt("loop") \/ MainAt("told")) /\ ml_context = "free"
  /\ ml_context' = "main" /\ ml_main' = "iterate"
  /\ UNCHANGED <<ml_next, ml_loop, ml_mutex>> /\ MlUnchanged

\* An error or the end of the stream is dispatched, one message an iteration, and main
\* calls g_main_loop_quit; cari-input does not watch its bus.
BusMessage ==
  /\ MainAt("loop") /\ ml_program # "cari-input" /\ ml_context = "free"
  /\ ml_context' = "main" /\ ml_main' = "tell"
  /\ UNCHANGED <<ml_next, ml_loop, ml_mutex>> /\ MlUnchanged

TellLoop ==
  /\ MainAt("tell")
  /\ ml_loop' = "quit" /\ ml_context' = "free" /\ ml_main' = "told"
  /\ UNCHANGED <<ml_next, ml_mutex>> /\ MlUnchanged

LeaveLoop ==
  /\ MainAt("iterate") /\ ml_loop = "quit"
  /\ ml_context' = "free" /\ Continue("stop")
  /\ UNCHANGED <<ml_loop, ml_mutex>> /\ MlUnchanged

\* The pipeline stops and the loop is freed; the pointer to it is cleared
\* afterwards, or never.
FreeLoop ==
  /\ MainAt("stop")
  /\ ml_loop' = "freed"
  /\ Continue("stats")
  /\ UNCHANGED <<ml_mutex, ml_context>> /\ MlUnchanged

MainEnds ==
  /\ MainAt("stats") /\ ml_main' = "exited"
  /\ UNCHANGED <<ml_next, ml_loop, ml_mutex, ml_context>> /\ MlUnchanged

MlMain ==
  \/ LogLock \/ LogUnlock \/ Detect \/ OpenRing \/ MakeLoop \/ Build \/ Play
  \/ RunLoop \/ Poll \/ Iterate \/ TellLoop \/ LeaveLoop \/ FreeLoop \/ MainEnds

-----------------------------------------------------------------------------
(* The handler *)

\* GStreamer's and GLib's threads come with the pipeline, and some outlive it.
OtherThreads ==
  ml_main \in {"run", "loop", "iterate", "tell", "told", "stop", "stats"}
  \/ (ml_main \in {"lock", "unlock"} /\ ml_next # "build")

\* A signal of a kind that the thread is not handling already.
Signal(t, kind) ==
  /\ ~MainOver /\ ml_signals < MaxSignals
  /\ t = "stream" => OtherThreads
  /\ \A i \in 1 .. Len(ml_handlers) : ml_handlers[i].thread = t => ml_handlers[i].kind # kind
  /\ ml_handlers' = Append(ml_handlers, [thread |-> t, kind |-> kind,
       at |-> IF ml_program = "cari-input" THEN "lock" ELSE "act"])
  /\ ml_signals' = ml_signals + 1
  /\ ml_due' = (ml_due \/ (kind # "hup" /\ ml_loop = "running"))
  /\ UNCHANGED <<ml_program, ml_main, ml_next, ml_loop, ml_mutex, ml_context>>

\* A handler runs when no later one has interrupted it.
HandlerAt(i, place) ==
  /\ ~MainOver /\ ml_handlers[i].at = place
  /\ \A j \in i + 1 .. Len(ml_handlers) : ml_handlers[j].thread # ml_handlers[i].thread

GoesTo(i, place) ==
  /\ ml_handlers' = [ml_handlers EXCEPT ![i].at = place]
  /\ UNCHANGED <<ml_program, ml_main, ml_next, ml_loop, ml_signals, ml_due>>

HandlerLock(i) ==
  /\ HandlerAt(i, "lock") /\ ml_mutex = "free" /\ ml_mutex' = ml_handlers[i].thread
  /\ GoesTo(i, "unlock") /\ UNCHANGED ml_context

HandlerUnlock(i) ==
  /\ HandlerAt(i, "unlock") /\ ml_mutex' = "free"
  /\ GoesTo(i, "act") /\ UNCHANGED ml_context

\* running = 0, and g_main_loop_quit if there has been a loop: it waits for the context.
Quits(i) == HandlerAt(i, "act") /\ ml_handlers[i].kind # "hup" /\ ml_loop # "none"
LockContext(i) ==
  /\ Quits(i) /\ ml_context = "free" /\ ml_context' = ml_handlers[i].thread
  /\ GoesTo(i, "quit") /\ UNCHANGED ml_mutex

Returned(i) == SubSeq(ml_handlers, 1, i - 1) \o SubSeq(ml_handlers, i + 1, Len(ml_handlers))
Returns(i) ==
  /\ ml_handlers' = Returned(i)
  /\ UNCHANGED <<ml_program, ml_next, ml_mutex, ml_signals, ml_due>>

\* Mutant of Quit: the loop is not told.
QuitNothing(i) ==
  /\ HandlerAt(i, "quit") /\ ml_context' = "free"
  /\ Returns(i) /\ UNCHANGED <<ml_main, ml_loop>>

\* Only a running loop heeds it.
Quit(i) ==
  /\ HandlerAt(i, "quit") /\ ml_context' = "free"
  /\ ml_loop' = IF ml_loop = "running" THEN "quit" ELSE ml_loop
  /\ Returns(i) /\ UNCHANGED ml_main

\* Of a freed loop anything may come, and at best what Quit does.
QuitFreed(i) ==
  /\ Quits(i) /\ ml_loop = "freed" /\ ml_main' = "exited"
  /\ Returns(i) /\ UNCHANGED <<ml_loop, ml_context>>

\* reload_config = 1; or there is no loop to quit.
HandlerReturns(i) ==
  /\ HandlerAt(i, "act") /\ (ml_handlers[i].kind = "hup" \/ ml_loop = "none")
  /\ Returns(i) /\ UNCHANGED <<ml_main, ml_loop, ml_context>>

MlHandler ==
  \E i \in 1 .. Len(ml_handlers) :
    \/ HandlerLock(i) \/ HandlerUnlock(i) \/ LockContext(i) \/ Quit(i)
    \/ QuitFreed(i) \/ HandlerReturns(i)

MlNext == MlMain \/ BusMessage \/ MlHandler \/ \E t \in Thread, kind \in Kinds : Signal(t, kind)

\* A handler gets a mutex that is free again and again: main holds the context for
\* moments and polls without it.
MlSpec == MlInit /\ [][MlNext]_mlVars /\ WF_mlVars(MlMain) /\ SF_mlVars(MlHandler)

-----------------------------------------------------------------------------
(* Properties *)

\* A handler waits for a mutex that its own thread holds, in the code that it
\* interrupted: the thread, and with it the mutex, is stuck.
SelfDeadlock ==
  \E i \in 1 .. Len(ml_handlers) :
    \/ HandlerAt(i, "lock") /\ ml_handlers[i].thread = ml_mutex
    \/ Quits(i) /\ ml_handlers[i].thread = ml_context

\* A SIGINT or SIGTERM that comes when the loop is running ends the program or gets
\* a handler stuck that interrupted its own thread's log message or work on the main
\* context: a mutex held by another thread delays it, other signals before and after it
\* do not take it back, and neither does a bus message that quits the loop itself.
StopReachesTheLoop == ml_due ~> (MainOver \/ SelfDeadlock)
=============================================================================
