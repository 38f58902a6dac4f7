--------------------------- MODULE ServiceControl ---------------------------
(***************************************************************************)
(* The management API (api/main.py) and systemd: handlers that create,     *)
(* start, stop, restart and delete the unit of an input, transcoder or     *)
(* output.  A handler is a list of steps on files and systemctl calls; it  *)
(* runs to its end before the next one, because it never awaits.           *)
(*                                                                         *)
(* systemctl waits for its job for at most 30 seconds (run_systemctl), a   *)
(* job may take longer and goes on without it.  systemctl may also fail;   *)
(* most handlers do not look.  The API may be killed between two steps,    *)
(* units crash and come back (Restart=always), the machine may reboot.     *)
(* systemd is external: a unit is loaded or not, a stop job cancels a      *)
(* restart, and a unit being stopped does not come back.                   *)
(***************************************************************************)
EXTENDS Naturals, Sequences

CONSTANTS
  Units,        \* the units the API is asked for
  MaxRequests,  \* bound: requests
  MaxTroubles   \* bound: systemctl calls that fail, kills of the API, crashes, reboots

ASSUME ServiceControlAssumption == MaxRequests \in Nat /\ MaxTroubles \in Nat

VARIABLES
  sc_file,      \* the unit's file exists
  sc_loaded,    \* systemd knows the unit
  sc_enabled,   \* the unit starts at boot
  sc_proc,      \* the unit's process runs
  sc_job,       \* the job that systemd has for the unit
  sc_todo,      \* what is left of the handler that runs
  sc_unit,      \* the unit it is for
  sc_failed,    \* history: a systemctl call of this handler did nothing
  sc_deleted,   \* history: a delete that did all of its steps has answered, with no create since
  sc_requests, sc_troubles  \* history: counts for the bounds

scSystemd == <<sc_loaded, sc_enabled, sc_proc, sc_job>>
scHandler == <<sc_todo, sc_unit, sc_failed>>
scCounts == <<sc_requests, sc_troubles>>
scVars == <<sc_file, scSystemd, scHandler, sc_deleted, scCounts>>

\* Mutant of DeleteSteps: the unit is not stopped.
DeleteWithoutStop == <<"disable", "remove", "reload", "deleted">>

DeleteSteps == <<"stop", "wait", "disable", "remove", "reload", "deleted">>
CreateSteps == <<"write", "reload">>
StartSteps == <<"exists", "enable", "start">>
StopSteps == <<"stop", "wait">>
RestartSteps == <<"restart", "wait">>

\* The handlers, and what /service/control takes besides, with no look at the file.
Requests ==
  {DeleteSteps, <<"exists">> \o DeleteSteps, CreateSteps, StartSteps, StopSteps, RestartSteps,
   <<"start">>, <<"enable">>, <<"disable">>}

ScTypeOK ==
  /\ \A f \in {sc_file, sc_loaded, sc_enabled, sc_proc, sc_deleted} : f \in [Units -> BOOLEAN]
  /\ sc_job \in [Units -> {"none", "stop", "restart"}]
  /\ sc_todo \in Seq({"stop", "wait", "disable", "remove", "reload", "deleted", "write",
                      "exists", "enable", "start", "restart"})
  /\ sc_unit \in Units /\ sc_failed \in BOOLEAN
  /\ sc_requests \in 0 .. MaxRequests /\ sc_troubles \in 0 .. MaxTroubles

ScInit ==
  /\ sc_file = [u \in Units |-> FALSE] /\ sc_loaded = sc_file /\ sc_enabled = sc_file
  /\ sc_proc = sc_file /\ sc_deleted = sc_file
  /\ sc_job = [u \in Units |-> "none"]
  /\ sc_todo = <<>> /\ sc_unit \in Units /\ sc_failed = FALSE
  /\ sc_requests = 0 /\ sc_troubles = 0

Request(u, steps) ==
  /\ sc_todo = <<>> /\ sc_requests < MaxRequests
  /\ sc_todo' = steps /\ sc_unit' = u /\ sc_failed' = FALSE
  /\ sc_requests' = sc_requests + 1
  /\ UNCHANGED <<sc_file, scSystemd, sc_deleted, sc_troubles>>

-----------------------------------------------------------------------------
(* Steps of a handler *)

Step(name) == sc_todo # <<>> /\ Head(sc_todo) = name
StepDone == sc_todo' = Tail(sc_todo) /\ UNCHANGED <<sc_unit, sc_failed, scCounts>>
Changed(f, value) == [f EXCEPT ![sc_unit] = value]

WriteFile ==
  /\ Step("write") /\ StepDone
  /\ sc_file' = Changed(sc_file, TRUE) /\ sc_deleted' = Changed(sc_deleted, FALSE)
  /\ UNCHANGED scSystemd

\* os.remove, for a file that exists.
RemoveFile ==
  /\ Step("remove") /\ StepDone
  /\ sc_file' = Changed(sc_file, FALSE)
  /\ UNCHANGED <<scSystemd, sc_deleted>>

\* The answer to a delete is success whatever systemctl said.
ReplyDeleted ==
  /\ Step("deleted") /\ StepDone
  /\ sc_deleted' = Changed(sc_deleted, ~sc_failed)
  /\ UNCHANGED <<sc_file, scSystemd>>

CheckExists ==
  /\ Step("exists")
  /\ sc_todo' = IF sc_file[sc_unit] THEN Tail(sc_todo) ELSE <<>>
  /\ UNCHANGED <<sc_file, scSystemd, sc_unit, sc_failed, sc_deleted, scCounts>>

\* systemd forgets the settings of a unit without file, also while its process runs.
Reload ==
  /\ Step("reload") /\ StepDone
  /\ sc_loaded' = [u \in Units |-> sc_file[u]]
  /\ UNCHANGED <<sc_file, sc_enabled, sc_proc, sc_job, sc_deleted>>

Enable ==
  /\ Step("enable") /\ StepDone
  /\ sc_enabled' = Changed(sc_enabled, sc_enabled[sc_unit] \/ sc_file[sc_unit])
  /\ UNCHANGED <<sc_file, sc_loaded, sc_proc, sc_job, sc_deleted>>

Disable ==
  /\ Step("disable") /\ StepDone
  /\ sc_enabled' = Changed(sc_enabled, FALSE)
  /\ UNCHANGED <<sc_file, sc_loaded, sc_proc, sc_job, sc_deleted>>

\* A unit that is known, or whose file systemd finds now.
Start ==
  /\ Step("start") /\ StepDone
  /\ LET known == sc_loaded[sc_unit] \/ sc_file[sc_unit]
     IN  /\ sc_loaded' = Changed(sc_loaded, known)
         /\ sc_proc' = Changed(sc_proc, sc_proc[sc_unit] \/ known)
         /\ sc_job' = IF known THEN Changed(sc_job, "none") ELSE sc_job
  /\ UNCHANGED <<sc_file, sc_enabled, sc_deleted>>

Stop ==
  /\ Step("stop") /\ StepDone
  /\ sc_job' = Changed(sc_job, IF sc_proc[sc_unit] THEN "stop" ELSE "none")
  /\ UNCHANGED <<sc_file, sc_loaded, sc_enabled, sc_proc, sc_deleted>>

Restart ==
  /\ Step("restart") /\ StepDone
  /\ LET known == sc_loaded[sc_unit] \/ sc_file[sc_unit]
     IN  /\ sc_loaded' = Changed(sc_loaded, known)
         /\ sc_job' = IF known THEN Changed(sc_job, "restart") ELSE sc_job
  /\ UNCHANGED <<sc_file, sc_enabled, sc_proc, sc_deleted>>

\* systemctl returns when its job is done, or is killed after 30 seconds.
Wait ==
  /\ Step("wait") /\ StepDone
  /\ UNCHANGED <<sc_file, scSystemd, sc_deleted>>

\* A systemctl that is refused, or cannot reach systemd.
SystemctlFails ==
  /\ \E name \in {"stop", "restart", "start", "enable", "disable", "reload"} : Step(name)
  /\ sc_troubles < MaxTroubles /\ sc_troubles' = sc_troubles + 1
  /\ sc_todo' = Tail(sc_todo) /\ sc_failed' = TRUE
  /\ UNCHANGED <<sc_file, scSystemd, sc_unit, sc_deleted, sc_requests>>

ScStep ==
  \/ WriteFile \/ RemoveFile \/ ReplyDeleted \/ CheckExists \/ Reload \/ Enable \/ Disable
  \/ Start \/ Stop \/ Restart \/ Wait \/ SystemctlFails

-----------------------------------------------------------------------------
(* systemd *)

\* A unit that is told to stop ends: SIGTERM, and SIGKILL after TimeoutStopSec.
JobEnds(u) ==
  /\ sc_job[u] # "none"
  /\ sc_proc' = [sc_proc EXCEPT ![u] = sc_job[u] = "restart" /\ sc_loaded[u]]
  /\ sc_job' = [sc_job EXCEPT ![u] = "none"]
  /\ UNCHANGED <<sc_file, sc_loaded, sc_enabled, scHandler, sc_deleted, scCounts>>

Trouble == sc_troubles < MaxTroubles /\ sc_troubles' = sc_troubles + 1

\* A process ends by itself; Restart=always brings it back if systemd has its unit.
UnitCrashes(u) ==
  /\ Trouble /\ sc_proc[u] /\ sc_job[u] = "none"
  /\ sc_proc' = [sc_proc EXCEPT ![u] = sc_loaded[u]]
  /\ UNCHANGED <<sc_file, sc_loaded, sc_enabled, sc_job, scHandler, sc_deleted, sc_requests>>

ApiKilled ==
  /\ Trouble /\ sc_todo # <<>> /\ sc_todo' = <<>>
  /\ UNCHANGED <<sc_file, scSystemd, sc_unit, sc_failed, sc_deleted, sc_requests>>

Reboot ==
  /\ Trouble
  /\ sc_loaded' = sc_file
  /\ sc_proc' = [u \in Units |-> sc_enabled[u] /\ sc_file[u]]
  /\ sc_job' = [u \in Units |-> "none"] /\ sc_todo' = <<>>
  /\ UNCHANGED <<sc_file, sc_enabled, sc_unit, sc_failed, sc_deleted, sc_requests>>

ScNext ==
  \/ \E u \in Units, steps \in Requests : Request(u, steps)
  \/ ScStep \/ ApiKilled \/ Reboot
  \/ \E u \in Units : JobEnds(u) \/ UnitCrashes(u)

ScSpec == ScInit /\ [][ScNext]_scVars /\ \A u \in Units : WF_scVars(JobEnds(u))

-----------------------------------------------------------------------------
(* Properties *)

\* A unit that the API has deleted stops running for good, until it is created
\* again: a stop that outlasts its systemctl, a restart under way, crashes,
\* reboots and control requests for a unit that is no more do not keep it or
\* bring it back.  Not so if a systemctl of that delete failed, which the
\* answer does not tell.
DeletedUnitsEnd ==
  \A u \in Units : sc_deleted[u] ~> [](sc_deleted[u] => ~sc_proc[u])
=============================================================================
