----------------------------- MODULE MCServices -----------------------------
(***************************************************************************)
(* The programs that stand alone, for TLC: each behaviour is one of them   *)
(* and the others never run, so that their state spaces add up.            *)
(***************************************************************************)
EXTENDS HttpTsServer, RingSegment, MainLoop, Mux, AvSync, ServiceControl, TsPacket, TLC

VARIABLE program

-----------------------------------------------------------------------------
(* Values of the constants *)

\* HTTP connections are numbers, each with its own address.
OwnAddr(c) == c

\* Nothing said; a program; a video PID that is the default of service 2; and numbers
\* that are 100 at once a program here and a PID there.
NoNumbers == [program |-> 0, video |-> 0, audio |-> 0, pcr |-> 0, pmt |-> 0, audio_first |-> FALSE]
SomeArgs ==
  {NoNumbers, [NoNumbers EXCEPT !.program = 100],
   [NoNumbers EXCEPT !.video = 200, !.audio_first = TRUE],
   [program |-> 7, video |-> 0, audio |-> 150, pcr |-> 150, pmt |-> 300, audio_first |-> TRUE]}

\* Both sources in either order, one whose file lacks a field, one alone, and two files
\* that share an id.
Good(id) == [id |-> id, complete |-> TRUE]
Bad(id) == [id |-> id, complete |-> FALSE]
SomeListings ==
  {<<Good("a"), Good("b")>>, <<Good("b"), Good("a")>>, <<Bad("b"), Good("a")>>, <<Good("a")>>,
   <<Good("a"), Good("a")>>}

-----------------------------------------------------------------------------
(* One of them runs *)

AnyInit ==
  /\ program \in {"http", "segment", "mainloop", "mux", "avsync", "control", "packets"}
  /\ Init /\ SegInit /\ ScInit /\ TpInit
  /\ IF program = "mainloop" THEN MlInit ELSE MlInit /\ ml_program = "cari-mux"
  /\ IF program = "mux" THEN MuxInit ELSE MuxInit /\ \A s \in Service : mx_args[s] = NoNumbers
  /\ IF program = "avsync" THEN AsInit ELSE AsInit /\ as_files = <<Good("a")>>

Still(p, v) == IF program = p THEN TRUE ELSE UNCHANGED v

AnyNext ==
  /\ UNCHANGED program
  /\ Still("http", vars) /\ Still("segment", segVars) /\ Still("mainloop", mlVars)
  /\ Still("mux", mxVars) /\ Still("avsync", asVars) /\ Still("control", scVars)
  /\ Still("packets", tpVars)
  /\ \/ program = "http" /\ Next
     \/ program = "segment" /\ SegNext
     \/ program = "mainloop" /\ MlNext
     \/ program = "mux" /\ MuxNext
     \/ program = "avsync" /\ AsNext
     \/ program = "control" /\ ScNext
     \/ program = "packets" /\ TpNext

\* The fairness of the program that runs.
Of(p, A) == program = p /\ A
AnyFairness ==
  /\ WF_vars(Of("http", MainSeesStop)) /\ WF_vars(Of("http", StopDaemon))
  /\ \A c \in Conns : WF_vars(Of("http", ConnStep(c)))
  /\ \A p \in Opener : WF_segVars(Of("segment", SegBusy(p)))
  /\ WF_mlVars(Of("mainloop", MlMain)) /\ SF_mlVars(Of("mainloop", MlHandler))
  /\ \A u \in Units : WF_scVars(Of("control", JobEnds(u)))

AnySpec ==
  /\ AnyInit
  /\ [][AnyNext]_<<program, vars, segVars, mlVars, mxVars, asVars, scVars, tpVars>>
  /\ AnyFairness

\* The types of the one that runs.
ServicesTypeOK ==
  /\ program = "http" => TypeOK
  /\ program = "segment" => SegTypeOK
  /\ program = "mainloop" => MlTypeOK
  /\ program = "mux" => MuxTypeOK
  /\ program = "avsync" => AsTypeOK
  /\ program = "control" => ScTypeOK
  /\ program = "packets" => TpTypeOK

\* InputComesBack, which says that cari-input is started, when it is what runs.
TheInputComesBack == program = "segment" => InputComesBack
=============================================================================
