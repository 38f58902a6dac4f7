-------------------------------- MODULE Mux --------------------------------
(***************************************************************************)
(* cari-mux: services are read from the command line, probed one after the *)
(* other, described to mpegtsmux in one program map, and linked as their   *)
(* demuxers find streams.  A service's pads come on its own streaming      *)
(* thread; the threads of several services link at the same time.          *)
(*                                                                         *)
(* mpegtsmux is external: a pad asked for by the PID of another one is     *)
(* refused, a pad asked for without a PID gets a free one of those from 65 *)
(* on, and of several entries of the map with the same key the last counts.*)
(***************************************************************************)
EXTENDS Naturals, Sequences

CONSTANTS
  Services,     \* how many -i options there are
  MuxArgs,      \* the numbers an -i option may come with; 0 is a number left out
  MaxPads       \* bound: pads of a kind that a demuxer adds

ASSUME MuxAssumption ==
  /\ Services \in Nat \ {0} /\ MaxPads \in Nat
  /\ MuxArgs \subseteq [program : Nat, video : Nat, audio : Nat, pcr : Nat, pmt : Nat,
                        audio_first : BOOLEAN]

VARIABLES
  mx_args,      \* the -i and -P options
  mx_type,      \* what detection knows of each service's streams
  mx_probed,    \* services probed so far; the pipeline plays after the last
  mx_seen,      \* pads that each demuxer has added
  mx_pending,   \* the parsers that wait to be linked: pending_*_parser
  mx_todo,      \* the links that a streaming thread in link_pending_parsers has to make
  mx_linked,    \* video_linked, audio_linked
  mx_links      \* the multiplexer's pads in the order of their links

mxVars == <<mx_args, mx_type, mx_probed, mx_seen, mx_pending, mx_todo, mx_linked, mx_links>>

Service == 1 .. Services
Kind == {"video", "audio"}

-----------------------------------------------------------------------------
(* The command line *)

\* parse_input: what is left out follows from the service's index.
Numbers(s) ==
  LET given(n, default) == IF n = 0 THEN default ELSE n
      a == mx_args[s]
      video == given(a.video, 100 * s)
      audio == given(a.audio, 100 * s + 1)
  IN  [program |-> given(a.program, s), pmt |-> given(a.pmt, 255 + s),
       video |-> video, audio |-> audio,
       pcr |-> IF a.pcr \in {video, audio} THEN a.pcr ELSE video,
       order |-> IF a.audio_first THEN <<"audio", "video">> ELSE <<"video", "audio">>]

Pid(s, kind) == IF kind = "video" THEN Numbers(s).video ELSE Numbers(s).audio

\* Mutant of Entries: the program's keys carry the service's number.
EntriesByIndex(s) ==
  LET n == Numbers(s)
  IN  << <<"sink", n.video, n.program>>, <<"sink", n.audio, n.program>>,
         <<"PMT", s, n.pmt>>, <<"PCR", s, n.pcr>>,
         <<"PMT", Pid(s, n.order[1]), 0>>, <<"PMT", Pid(s, n.order[2]), 1>> >>

\* build_prog_map for one service.
Entries(s) ==
  LET n == Numbers(s)
  IN  << <<"sink", n.video, n.program>>, <<"sink", n.audio, n.program>>,
         <<"PMT", n.program, n.pmt>>, <<"PCR", n.program, n.pcr>>,
         <<"PMT", Pid(s, n.order[1]), 0>>, <<"PMT", Pid(s, n.order[2]), 1>> >>

\* The places in the map, services one after the other, that hold an entry with a key.
Keyed(name, n) ==
  {e \in Service \X (1 .. 6) : /\ Entries(e[1])[e[2]][1] = name
                              /\ Entries(e[1])[e[2]][2] = n}
NotAfter(d, e) == d[1] < e[1] \/ (d[1] = e[1] /\ d[2] <= e[2])

\* What the multiplexer finds under a key, or the program 0 for a key that is missing.
Mapped(name, n) ==
  IF Keyed(name, n) = {} THEN 0
  ELSE LET e == CHOOSE e \in Keyed(name, n) : \A d \in Keyed(name, n) : NotAfter(d, e)
       IN  Entries(e[1])[e[2]][3]

-----------------------------------------------------------------------------

MuxTypeOK ==
  /\ mx_args \in [Service -> MuxArgs]
  /\ mx_type \in [Service -> [Kind -> {"unknown", "known"}]]
  /\ mx_probed \in 0 .. Services
  /\ mx_seen \in [Service -> [Kind -> 0 .. MaxPads]]
  /\ mx_pending \in [Service -> SUBSET Kind] /\ mx_linked \in [Service -> SUBSET Kind]
  /\ mx_todo \in [Service -> Seq(Kind)]
  /\ mx_links \in Seq([service : Service, kind : Kind, pid : Nat])

MuxInit ==
  /\ mx_args \in [Service -> MuxArgs]
  /\ mx_type = [s \in Service |-> [k \in Kind |-> "unknown"]] /\ mx_probed = 0
  /\ mx_seen = [s \in Service |-> [k \in Kind |-> 0]]
  /\ mx_pending = [s \in Service |-> {}] /\ mx_linked = [s \in Service |-> {}]
  /\ mx_todo = [s \in Service |-> <<>>] /\ mx_links = <<>>

\* detect_stream: when ffprobe tells nothing of either stream, both are assumed;
\* a stream it does not tell of beside one it does remains unknown.
Probe ==
  /\ mx_probed < Services /\ mx_probed' = mx_probed + 1
  /\ \E found \in SUBSET Kind :
       LET known == IF found = {} THEN Kind ELSE found
       IN  mx_type' = [mx_type EXCEPT ![mx_probed'] =
                         [k \in Kind |-> IF k \in known THEN "known" ELSE "unknown"]]
  /\ UNCHANGED <<mx_args, mx_seen, mx_pending, mx_todo, mx_linked, mx_links>>

Playing == mx_probed = Services

\* Mutant of PadAdded: only the video pad looks whether the pair is complete.
PadAddedVideoLinks(s, kind) ==
  /\ Playing /\ mx_todo[s] = <<>>
  /\ mx_seen[s][kind] < MaxPads
  /\ mx_seen' = [mx_seen EXCEPT ![s][kind] = @ + 1]
  /\ IF kind \in mx_pending[s] \cup mx_linked[s] \/ mx_type[s][kind] = "unknown"
       THEN UNCHANGED <<mx_pending, mx_todo>>
       ELSE /\ mx_pending' = [mx_pending EXCEPT ![s] = @ \cup {kind}]
            /\ mx_todo' = [mx_todo EXCEPT ![s] =
                 IF kind = "video" /\ mx_pending'[s] = Kind THEN Numbers(s).order ELSE <<>>]
  /\ UNCHANGED <<mx_args, mx_type, mx_probed, mx_linked, mx_links>>

\* on_demux_pad_added: the first pad of a kind gets a parser, and the parser
\* that completes the pair goes on to link_pending_parsers.
PadAdded(s, kind) ==
  /\ Playing /\ mx_todo[s] = <<>>
  /\ mx_seen[s][kind] < MaxPads
  /\ mx_seen' = [mx_seen EXCEPT ![s][kind] = @ + 1]
  /\ IF kind \in mx_pending[s] \cup mx_linked[s] \/ mx_type[s][kind] = "unknown"
       THEN UNCHANGED <<mx_pending, mx_todo>>
       ELSE /\ mx_pending' = [mx_pending EXCEPT ![s] = @ \cup {kind}]
            /\ mx_todo' = [mx_todo EXCEPT ![s] = IF mx_pending'[s] = Kind THEN Numbers(s).order ELSE <<>>]
  /\ UNCHANGED <<mx_args, mx_type, mx_probed, mx_linked, mx_links>>

PidsInUse == {mx_links[i].pid : i \in DOMAIN mx_links}

\* The PIDs that mpegtsmux gives out itself: it counts up from 65 and skips those in use.
OwnPids == 65 .. 64 + 2 * Services

\* link_parser_to_mux: by the configured PID or, when that is taken, by any.
LinkParser(s) ==
  /\ mx_todo[s] # <<>>
  /\ LET kind == Head(mx_todo[s])
     IN  /\ \E pid \in IF Pid(s, kind) \in PidsInUse THEN OwnPids \ PidsInUse
                       ELSE {Pid(s, kind)} :
              mx_links' = Append(mx_links, [service |-> s, kind |-> kind, pid |-> pid])
         /\ mx_linked' = [mx_linked EXCEPT ![s] = @ \cup {kind}]
  /\ mx_todo' = [mx_todo EXCEPT ![s] = Tail(@)]
  /\ mx_pending' = [mx_pending EXCEPT ![s] = IF mx_todo'[s] = <<>> THEN {} ELSE @]
  /\ UNCHANGED <<mx_args, mx_type, mx_probed, mx_seen>>

MuxNext == Probe \/ \E s \in Service : LinkParser(s) \/ \E k \in Kind : PadAdded(s, k)
MuxSpec == MuxInit /\ [][MuxNext]_mxVars

-----------------------------------------------------------------------------
(* Properties *)

Streams(s) == {Numbers(s).video, Numbers(s).audio}

\* No other service has a PID or the program number of this one, none of its PIDs is
\* one that the multiplexer gives out itself, and program numbers and PIDs, which
\* share the key PMT, are apart.
Unshared(s) ==
  /\ Numbers(s).video # Numbers(s).audio /\ Streams(s) \cap OwnPids = {}
  /\ \A t \in Service :
       /\ Numbers(s).program \notin Streams(t) /\ Numbers(t).program \notin Streams(s)
       /\ t # s => /\ Numbers(s).program # Numbers(t).program
                   /\ Streams(s) \cap Streams(t) = {}

\* A service whose numbers are its own is multiplexed as it was asked for -
\* PIDs, program, PMT and PCR PID, order of its streams - whatever clashes the
\* other services have, which streams were detected and when pads appear.
StreamsAreInTheirProgram ==
  \A i \in DOMAIN mx_links :
    LET s == mx_links[i].service
        kind == mx_links[i].kind
        n == Numbers(s)
    IN  Unshared(s) =>
          /\ mx_links[i].pid = Pid(s, kind)
          /\ Mapped("sink", mx_links[i].pid) = n.program
          /\ Mapped("PMT", n.program) = n.pmt /\ Mapped("PCR", n.program) = n.pcr
          /\ n.order[Mapped("PMT", mx_links[i].pid) + 1] = kind
          /\ kind = n.order[2] => \E j \in 1 .. i - 1 :
               mx_links[j].service = s /\ mx_links[j].kind = n.order[1]

\* No service is forgotten: one of which both streams are known and have
\* appeared is multiplexed, or its streaming thread is at it, in whichever order
\* they appeared and however often, and whatever the other services do.
ServicesGetLinked ==
  \A s \in Service :
    (\A k \in Kind : mx_type[s][k] = "known" /\ mx_seen[s][k] > 0) /\ mx_todo[s] = <<>>
      => mx_linked[s] = Kind
=============================================================================
