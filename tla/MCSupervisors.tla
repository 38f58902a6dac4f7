--------------------------- MODULE MCSupervisors ---------------------------
(***************************************************************************)
(* The programs that supervise a child process, for TLC: each behaviour is *)
(* one of PlayerPreview, HlsOutput, InputMonitor and RistPipeline, and the *)
(* others never run.                                                       *)
(***************************************************************************)
EXTENDS PlayerPreview, HlsOutput, InputMonitor, RistPipeline

VARIABLE program

AnyInit ==
  /\ program \in {"player_preview", "hls_output", "srt_input", "rist_input"}
  /\ Init /\ HlsInit /\ InInit /\ RpInit

AnyNext ==
  /\ UNCHANGED program
  /\ \/ program = "player_preview" /\ Next /\ UNCHANGED <<hlsVars, inVars, rpVars>>
     \/ program = "hls_output" /\ HlsNext /\ UNCHANGED <<vars, inVars, rpVars>>
     \/ program = "srt_input" /\ InNext /\ UNCHANGED <<vars, hlsVars, rpVars>>
     \/ program = "rist_input" /\ RpNext /\ UNCHANGED <<vars, hlsVars, inVars>>

\* The fairness of the program that runs.
Of(p, A) == program = p /\ A
AnyFairness ==
  /\ WF_vars(Of("player_preview", MainStep))
  /\ WF_vars(Of("player_preview", main # "killed" /\ ManagerStep))
  /\ SF_vars(Of("player_preview", main # "killed" /\ Fork))
  /\ WF_vars(Of("player_preview", Tick))
  /\ WF_hlsVars(Of("hls_output", HlsMain))
  /\ SF_hlsVars(Of("hls_output", StartFfmpeg))
  /\ WF_inVars(Of("srt_input", InMain))
  /\ WF_inVars(Of("srt_input", ~InOver /\ InHandler))
  /\ WF_inVars(Of("srt_input", ~InOver /\ InManager))
  /\ SF_inVars(Of("srt_input", ~InOver /\ TspFork))
  /\ WF_rpVars(Of("rist_input", RpManager))
  /\ WF_rpVars(Of("rist_input", RpStart))
  /\ WF_rpVars(Of("rist_input", RpJoin))
  /\ WF_rpVars(Of("rist_input", RpParserEnds))
  /\ WF_rpVars(Of("rist_input", RpHandler))
  /\ WF_rpVars(Of("rist_input", rp_pending /\ RpSignal))
  /\ WF_rpVars(Of("rist_input", RpTold))

AnySpec == AnyInit /\ [][AnyNext]_<<program, vars, hlsVars, inVars, rpVars>> /\ AnyFairness

\* The types of the programs without proofs.
SupervisorsTypeOK == TypeOK /\ HlsTypeOK /\ RpTypeOK

\* ExitIsClean of each of these: a program that has ended in order left neither
\* its child nor, if it writes any, its files.
ExitsAreClean == ExitIsClean /\ HlsExitIsClean /\ RpExitIsClean

\* KillEnds, HlsStopEnds and RpStopEnds: a shutdown that has reached its child ends:
\* the preview's and the HLS output's whatever ffmpeg does, as they kill it, the RIST
\* input's with a tsp that follows SIGTERM, as it does not.
StopsEnd == KillEnds /\ HlsStopEnds /\ RpStopEnds
=============================================================================
