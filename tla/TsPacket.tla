------------------------------ MODULE TsPacket ------------------------------
(***************************************************************************)
(* ts_packet.c: the statistics that ts_stats_update keeps of a transport   *)
(* stream: continuity errors and PCR discontinuities per PID.              *)
(*                                                                         *)
(* The stream numbers each PID's packets that have a payload modulo 16; a  *)
(* run of them may be lost, or a packet arrive without its sync byte.  A   *)
(* sender may repeat a packet with its number, and number anew where the   *)
(* discontinuity indicator says so.  The adaptation field is what the      *)
(* parser looks at: its length, that indicator, the PCR flag and the PCR.  *)
(***************************************************************************)
EXTENDS Naturals

CONSTANTS
  TsPids,       \* PIDs; "null" is 0x1FFF
  AfLengths,    \* lengths of adaptation fields that carry a PCR
  Pcrs,         \* values of the PCR
  LossRuns,     \* how many packets of a PID may be lost at once
  NewSteps,     \* how far a number may be from the last one where a discontinuity is signalled
  MaxTsPackets  \* bound: packets

ASSUME TsPacketAssumption ==
  /\ AfLengths \subseteq 7 .. 183 /\ Pcrs \subseteq Nat
  /\ LossRuns \subseteq Nat /\ NewSteps \subseteq Nat /\ MaxTsPackets \in Nat

VARIABLES
  tp_last_cc,   \* pids[].last_cc
  tp_last_pcr,  \* pids[].last_pcr
  tp_cc_errors, tp_pcr_discontinuities, tp_sync_errors, \* of ts_stream_stats_t
  tp_sent,      \* history: what each PID last sent: counter, PCR and whether that filled its
                \* field, packets missing since one was heard
  tp_gaps,      \* history: losses that the counters show
  tp_unlost,    \* history: packets numbered out of order with nothing lost
  tp_jumps,     \* history: PCRs that the parser takes to go back
  tp_packets    \* history: packets

tpStats == <<tp_last_cc, tp_last_pcr, tp_cc_errors, tp_pcr_discontinuities>>
tpVars == <<tpStats, tp_sync_errors, tp_sent, tp_gaps, tp_unlost, tp_jumps, tp_packets>>

InvalidCc == 255
Modulus == 16

TpTypeOK ==
  /\ tp_last_cc \in [TsPids -> 0 .. Modulus - 1 \cup {InvalidCc}]
  /\ tp_last_pcr \in [TsPids -> Pcrs \cup {0}]
  /\ tp_sent \in [TsPids -> [cc : 0 .. Modulus - 1, pcr : Pcrs \cup {0}, filled : BOOLEAN,
                             missing : 0 .. Modulus - 1, heard : BOOLEAN]]
  /\ \A n \in {tp_cc_errors, tp_pcr_discontinuities, tp_sync_errors, tp_gaps, tp_unlost, tp_jumps,
            tp_packets} : n \in 0 .. MaxTsPackets

\* ts_stats_init, for streams whose counters are about to wrap around.
TpInit ==
  /\ tp_last_cc = [p \in TsPids |-> InvalidCc] /\ tp_last_pcr = [p \in TsPids |-> 0]
  /\ tp_cc_errors = 0 /\ tp_pcr_discontinuities = 0 /\ tp_sync_errors = 0
  /\ tp_sent = [p \in TsPids |-> [cc |-> 14, pcr |-> 0, filled |-> FALSE, missing |-> 0,
                                heard |-> FALSE]]
  /\ tp_gaps = 0 /\ tp_unlost = 0 /\ tp_jumps = 0 /\ tp_packets = 0

-----------------------------------------------------------------------------

\* An adaptation field without a PCR, or with one, which has room for it.
AdaptationField ==
  {[length |-> n, discontinuity |-> n = 1, pcr_flag |-> FALSE, pcr |-> 0] : n \in {0, 1}} \cup
  {[length |-> n, discontinuity |-> d, pcr_flag |-> TRUE, pcr |-> v] :
     n \in AfLengths, d \in BOOLEAN, v \in Pcrs}

\* How far a packet's number is from that of the one sent before it: the packet is the
\* next or the same again, and any where the sender signals a discontinuity.
NextNumbers(payload, af) ==
  IF ~payload THEN {0} ELSE IF af.discontinuity THEN NewSteps ELSE {0, 1}

\* ts_parse_adaptation_field: the PCR's six bytes start at byte 6; byte 4 is the
\* field's length, and the field's last byte is 4 + length.
ParsedPcr(af) == IF 6 + 6 <= 4 + af.length THEN af.pcr ELSE 0

\* ts_extract_pcr says that there is a PCR when the flag is set.
HasPcr(af) == af.length > 0 /\ af.pcr_flag

\* Mutant of IsCcError: the counter does not wrap around.
IsCcErrorNoWrap(pid, cc) == tp_last_cc[pid] # InvalidCc /\ cc # tp_last_cc[pid] + 1

IsCcError(pid, cc) == tp_last_cc[pid] # InvalidCc /\ cc # (tp_last_cc[pid] + 1) % Modulus

PcrWentBack(pid, af) == tp_last_pcr[pid] # 0 /\ ParsedPcr(af) < tp_last_pcr[pid]

One(condition) == IF condition THEN 1 ELSE 0

\* ts_stats_update for a packet that comes after a run of lost ones.  A packet that is
\* repeated makes up for its first copy if that was lost.
StatsUpdate(pid, payload, lost, step, af) ==
  LET sent == tp_sent[pid]
      cc == (sent.cc + lost + step) % Modulus
      missing == (sent.missing + lost) % Modulus
      counted == payload /\ pid # "null"
      filled == af.length = 7
  IN  /\ tp_packets < MaxTsPackets /\ tp_packets' = tp_packets + 1
      /\ tp_cc_errors' = tp_cc_errors + One(counted /\ IsCcError(pid, cc))
      /\ tp_last_cc' = [tp_last_cc EXCEPT ![pid] = IF counted THEN cc ELSE @]
      /\ tp_pcr_discontinuities' = tp_pcr_discontinuities + One(HasPcr(af) /\ PcrWentBack(pid, af))
      /\ tp_last_pcr' = [tp_last_pcr EXCEPT ![pid] = IF HasPcr(af) THEN ParsedPcr(af) ELSE @]
      /\ tp_sent' = [tp_sent EXCEPT ![pid] =
           [cc |-> cc, pcr |-> IF af.pcr_flag THEN af.pcr ELSE @.pcr,
            filled |-> IF af.pcr_flag THEN filled ELSE @.filled,
            missing |-> IF payload THEN 0 ELSE missing, heard |-> @.heard \/ payload]]
      /\ tp_gaps' = tp_gaps + One(counted /\ sent.heard /\ ~af.discontinuity
                                 /\ missing \notin (IF step = 1 THEN {0} ELSE {0, 1}))
      /\ tp_unlost' = tp_unlost + One(counted /\ sent.heard
                                     /\ IF af.discontinuity THEN (missing + step) % Modulus # 1
                                                            ELSE step = 0 /\ missing = 0)
      /\ tp_jumps' = tp_jumps + One(af.pcr_flag /\ ~sent.filled /\ sent.pcr # 0
                                   /\ (filled \/ af.pcr < sent.pcr))
      /\ UNCHANGED tp_sync_errors

\* A packet with a payload whose sync byte is wrong: its PID is not looked at.
SyncError(pid) ==
  /\ tp_packets < MaxTsPackets /\ tp_packets' = tp_packets + 1
  /\ tp_sync_errors' = tp_sync_errors + 1
  /\ tp_sent' = [tp_sent EXCEPT ![pid] =
       [cc |-> (@.cc + 1) % Modulus, pcr |-> @.pcr, filled |-> @.filled,
        missing |-> (@.missing + 1) % Modulus, heard |-> @.heard]]
  /\ UNCHANGED <<tpStats, tp_gaps, tp_unlost, tp_jumps>>

TpNext ==
  \E pid \in TsPids :
    \/ SyncError(pid)
    \/ \E payload \in BOOLEAN, lost \in LossRuns, af \in AdaptationField :
         \E step \in NextNumbers(payload, af) : StatsUpdate(pid, payload, lost, step, af)
TpSpec == TpInit /\ [][TpNext]_tpVars

-----------------------------------------------------------------------------
(* Properties *)

\* The continuity errors are the gaps in the streams and the steps out of order with
\* nothing lost.  Each run of lost packets is counted once, on the PID that lost
\* them, by the next packet that has a payload - except a run of a multiple of 16
\* packets, which nobody can see.  Counted too, though nothing is wrong with the
\* stream, are a packet that comes twice, and a new number that the discontinuity
\* indicator announces: the parser reads the indicator, and nobody looks at it.  Null
\* packets and packets without payload count nothing.
\*
\* The PCR discontinuities are the PCRs below the one before on their PID, if that is
\* not 0 and neither fills its adaptation field.  The parser's bound is one too high,
\* and takes a PCR in a field of length 7, which is the ordinary one, for 0: such a
\* PCR counts as one that went back after one that was read, and the PCR after it
\* is not compared with anything.
StatisticsMatchTheStream ==
  /\ tp_cc_errors = tp_gaps + tp_unlost
  /\ tp_pcr_discontinuities = tp_jumps
=============================================================================
