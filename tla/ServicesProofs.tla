--------------------------- MODULE ServicesProofs ---------------------------
(***************************************************************************)
(* Proofs about the programs that stand alone: the multiplexer's services  *)
(* and their links, the statistics of a transport stream, and the types of *)
(* all of these programs.                                                  *)
(***************************************************************************)
EXTENDS MCServices, AvSyncProofs, HttpTsServerProofs, RingSegmentProofs


-----------------------------------------------------------------------------
(* Mux *)

\* The numbers of a service are numbers, and its streams have one of the two orders.
LEMMA NumbersType ==
  ASSUME mx_args \in [Service -> MuxArgs], NEW s \in Service
  PROVE  /\ Numbers(s).program \in Nat /\ Numbers(s).pmt \in Nat /\ Numbers(s).pcr \in Nat
         /\ Numbers(s).video \in Nat /\ Numbers(s).audio \in Nat
         /\ Numbers(s).order \in {<<"audio", "video">>, <<"video", "audio">>}
<1>1. /\ mx_args[s] \in [program : Nat, video : Nat, audio : Nat, pcr : Nat, pmt : Nat,
                         audio_first : BOOLEAN]
      /\ s \in Nat
  BY MuxAssumption DEF Service
<1> DEFINE a == mx_args[s]
<1>2. a.program \in Nat /\ a.video \in Nat /\ a.audio \in Nat /\ a.pcr \in Nat /\ a.pmt \in Nat
  BY <1>1
<1> HIDE DEF a
<1>3. /\ Numbers(s).program = IF a.program = 0 THEN s ELSE a.program
      /\ Numbers(s).pmt = IF a.pmt = 0 THEN 255 + s ELSE a.pmt
      /\ Numbers(s).video = IF a.video = 0 THEN 100 * s ELSE a.video
      /\ Numbers(s).audio = IF a.audio = 0 THEN 100 * s + 1 ELSE a.audio
  BY DEF Numbers, a
<1>4. /\ Numbers(s).pcr \in {a.pcr, Numbers(s).video}
      /\ Numbers(s).order \in {<<"audio", "video">>, <<"video", "audio">>}
  BY DEF Numbers, a
<1> QED
  BY <1>1, <1>2, <1>3, <1>4

\* Both orders name both kinds.
LEMMA OrderIsKind ==
  ASSUME NEW o \in {<<"audio", "video">>, <<"video", "audio">>}
  PROVE  /\ Kind = {o[1], o[2]} /\ o[1] # o[2] /\ Head(o) = o[1] /\ Tail(o) = <<o[2]>>
         /\ Head(<<o[2]>>) = o[2] /\ Tail(<<o[2]>>) = <<>> /\ o # <<>> /\ o # <<o[2]>>
         /\ o \in Seq(Kind) /\ <<o[2]>> \in Seq(Kind) /\ <<o[2]>> # <<>>
<1>1. /\ o = <<o[1], o[2]>> /\ o[1] # o[2] /\ o[1] \in Kind /\ o[2] \in Kind
      /\ Kind = {o[1], o[2]}
  <2>1. CASE o = <<"audio", "video">>
    BY <2>1 DEF Kind
  <2>2. CASE o = <<"video", "audio">>
    BY <2>2 DEF Kind
  <2> QED BY <2>1, <2>2
<1> DEFINE x == o[1]
           y == o[2]
<1> HIDE DEF x, y
<1>2. /\ Head(<<x, y>>) = x /\ Tail(<<x, y>>) = <<y>> /\ <<x, y>> # <<>> /\ <<x, y>> # <<y>>
      /\ Head(<<y>>) = y /\ Tail(<<y>>) = <<>> /\ <<y>> # <<>>
  <2>1. Len(<<x, y>>) = 2 /\ Len(<<y>>) = 1 /\ Len(<<>>) = 0
    OBVIOUS
  <2>2. Head(<<x, y>>) = x /\ Tail(<<x, y>>) = <<y>> /\ Head(<<y>>) = y /\ Tail(<<y>>) = <<>>
    OBVIOUS
  <2> QED BY <2>1, <2>2
<1>3. <<x, y>> \in Seq(Kind) /\ <<y>> \in Seq(Kind)
  BY <1>1 DEF x, y
<1> QED
  BY <1>1, <1>2, <1>3 DEF x, y

\* The options of a service, and what follows from them, never change.
LEMMA NumbersStay ==
  ASSUME UNCHANGED mx_args, NEW s
  PROVE  /\ Numbers(s)' = Numbers(s) /\ \A k : Pid(s, k)' = Pid(s, k)
         /\ Streams(s)' = Streams(s)
<1>1. Numbers(s)' = Numbers(s)
  BY DEF Numbers
<1> QED
  BY <1>1 DEF Pid, Streams

\* A service stays unshared or shared.
LEMMA UnsharedStays ==
  ASSUME UNCHANGED mx_args, NEW s
  PROVE  Unshared(s)' <=> Unshared(s)
<1>1. \A t : Numbers(t)' = Numbers(t) /\ Streams(t)' = Streams(t)
  BY NumbersStay
<1> QED
  BY <1>1 DEF Unshared

\* Every step of probing, of the demuxers and of the streaming threads keeps the types.
LEMMA MuxTypeStep == MuxTypeOK /\ [MuxNext]_mxVars => MuxTypeOK'
<1> SUFFICES ASSUME MuxTypeOK, [MuxNext]_mxVars PROVE MuxTypeOK'
  OBVIOUS
<1> USE MuxAssumption DEF MuxTypeOK
<1>1. CASE Probe
  <2>1. mx_probed' \in 0 .. Services /\ mx_probed' \in Service
    BY <1>1 DEF Probe, Service
  <2>2. mx_type' \in [Service -> [Kind -> {"unknown", "known"}]]
    <3>1. PICK found \in SUBSET Kind :
            mx_type' = [mx_type EXCEPT ![mx_probed'] =
                          [k \in Kind |-> IF k \in IF found = {} THEN Kind ELSE found
                                          THEN "known" ELSE "unknown"]]
      BY <1>1 DEF Probe
    <3> DEFINE f == [k \in Kind |-> IF k \in IF found = {} THEN Kind ELSE found
                                    THEN "known" ELSE "unknown"]
    <3>2. f \in [Kind -> {"unknown", "known"}]
      OBVIOUS
    <3>3. mx_type' = [mx_type EXCEPT ![mx_probed'] = f]
      BY <3>1
    <3> HIDE DEF f
    <3> QED BY <3>2, <3>3
  <2> QED BY <1>1, <2>1, <2>2 DEF Probe
<1>2. ASSUME NEW s \in Service, NEW kind \in Kind, PadAdded(s, kind) PROVE MuxTypeOK'
  <2>1. UNCHANGED <<mx_args, mx_type, mx_probed, mx_linked, mx_links>>
    BY <1>2 DEF PadAdded
  <2>2. mx_seen' \in [Service -> [Kind -> 0 .. MaxPads]]
    <3>1. mx_seen[s] \in [Kind -> 0 .. MaxPads] /\ mx_seen[s][kind] + 1 \in 0 .. MaxPads
      BY <1>2 DEF PadAdded
    <3> QED BY <1>2, <3>1 DEF PadAdded
  <2>3. mx_pending' \in [Service -> SUBSET Kind]
    <3>1. mx_pending[s] \cup {kind} \in SUBSET Kind
      BY <1>2
    <3>2. \/ mx_pending' = mx_pending
          \/ mx_pending' = [mx_pending EXCEPT ![s] = mx_pending[s] \cup {kind}]
      BY <1>2 DEF PadAdded
    <3> QED BY <1>2, <3>1, <3>2
  <2>4. mx_todo' \in [Service -> Seq(Kind)]
    <3>1. Numbers(s).order \in Seq(Kind) /\ <<>> \in Seq(Kind)
      <4>1. Numbers(s).order \in {<<"audio", "video">>, <<"video", "audio">>}
        BY <1>2, NumbersType
      <4>2. Numbers(s).order \in Seq(Kind)
        BY ONLY <4>1, OrderIsKind
      <4>3. <<>> \in Seq(Kind)
        OBVIOUS
      <4> QED BY <4>2, <4>3
    <3>2. \/ mx_todo' = mx_todo
          \/ \E todo \in {Numbers(s).order, <<>>} : mx_todo' = [mx_todo EXCEPT ![s] = todo]
      BY <1>2 DEF PadAdded
    <3> QED BY <1>2, <3>1, <3>2
  <2> QED BY <2>1, <2>2, <2>3, <2>4
<1>3. ASSUME NEW s \in Service, LinkParser(s) PROVE MuxTypeOK'
  <2>1. UNCHANGED <<mx_args, mx_type, mx_probed, mx_seen>>
    BY <1>3 DEF LinkParser
  <2>2. Head(mx_todo[s]) \in Kind /\ Tail(mx_todo[s]) \in Seq(Kind)
    BY <1>3 DEF LinkParser
  <2>3. mx_todo' \in [Service -> Seq(Kind)] /\ mx_linked' \in [Service -> SUBSET Kind]
        /\ mx_pending' \in [Service -> SUBSET Kind]
    BY <1>3, <2>2 DEF LinkParser
  <2>4. mx_links' \in Seq([service : Service, kind : Kind, pid : Nat])
    <3>1. Pid(s, Head(mx_todo[s])) \in Nat
      BY NumbersType DEF Pid
    <3>2. \A pid \in OwnPids : pid \in Nat
      BY DEF OwnPids
    <3>3. PICK pid \in Nat :
            mx_links' = Append(mx_links, [service |-> s, kind |-> Head(mx_todo[s]), pid |-> pid])
      BY <1>3, <3>1, <3>2 DEF LinkParser
    <3> QED BY <2>2, <3>3
  <2> QED BY <2>1, <2>3, <2>4
<1>4. CASE UNCHANGED mxVars
  BY <1>4 DEF mxVars
<1> QED
  BY <1>1, <1>2, <1>3, <1>4 DEF MuxNext

\* The multiplexer starts with the types.
LEMMA MuxTypeInit == MuxInit => MuxTypeOK
<1> SUFFICES ASSUME MuxInit PROVE MuxTypeOK
  OBVIOUS
<1>1. 0 \in 0 .. Services /\ 0 \in 0 .. MaxPads
  BY MuxAssumption
<1>2. mx_links \in Seq([service : Service, kind : Kind, pid : Nat])
  BY DEF MuxInit
<1> QED
  BY <1>1, <1>2 DEF MuxInit, MuxTypeOK

\* Type correctness of the multiplexer, for every number of services and all options.
THEOREM MuxTypeCorrect == MuxSpec => []MuxTypeOK
  BY MuxTypeInit, MuxTypeStep, PTL DEF MuxSpec

-----------------------------------------------------------------------------
\* A streaming thread makes the two links of its service in one go, in the order the
\* options ask for, and the parsers wait until it is through.
TodoInv ==
  \A s \in Service :
    LET o == Numbers(s).order
    IN  /\ mx_todo[s] \in {<<>>, o, <<o[2]>>}
        /\ mx_todo[s] = <<>> => mx_linked[s] \in {{}, Kind} /\ mx_pending[s] # Kind
        /\ mx_todo[s] # <<>> => mx_pending[s] = Kind
        /\ mx_todo[s] = o => mx_linked[s] = {}
        /\ mx_todo[s] = <<o[2]>> => mx_linked[s] = {o[1]}

\* A pad is seen by a pipeline that plays, and its parser waits or is linked.
SeenInv ==
  \A s \in Service : \A k \in Kind : mx_seen[s][k] > 0 =>
    Playing /\ (mx_type[s][k] = "known" => k \in mx_pending[s] \cup mx_linked[s])

\* What a pad of one service does is nothing to the others.
LEMMA PadStep ==
  ASSUME MuxTypeOK, TodoInv, NEW s \in Service, NEW kind \in Kind, PadAdded(s, kind)
  PROVE  TodoInv' /\ (SeenInv => SeenInv')
<1>t. /\ mx_pending \in [Service -> SUBSET Kind] /\ mx_todo \in [Service -> Seq(Kind)]
      /\ mx_seen \in [Service -> [Kind -> 0 .. MaxPads]] /\ mx_args \in [Service -> MuxArgs]
  BY DEF MuxTypeOK
<1>1. UNCHANGED <<mx_args, mx_type, mx_probed, mx_linked, mx_links>>
      /\ Playing /\ mx_todo[s] = <<>>
  BY DEF PadAdded
<1>2. \A t \in Service \ {s} : mx_pending'[t] = mx_pending[t] /\ mx_todo'[t] = mx_todo[t]
  BY <1>t DEF PadAdded
<1>3. \/ mx_pending'[s] = mx_pending[s] /\ mx_todo'[s] = <<>>
      \/ /\ kind \notin mx_linked[s] /\ mx_pending'[s] = mx_pending[s] \cup {kind}
         /\ mx_todo'[s] = IF mx_pending'[s] = Kind THEN Numbers(s).order ELSE <<>>
  BY <1>1, <1>t DEF PadAdded
<1>4. \A t \in Service : Numbers(t)' = Numbers(t)
  BY <1>1, NumbersStay
<1>5. TodoInv'
  <2> SUFFICES ASSUME NEW t \in Service, NEW o, o = Numbers(t).order
               PROVE  /\ mx_todo'[t] \in {<<>>, o, <<o[2]>>}
                      /\ mx_todo'[t] = <<>> => mx_linked[t] \in {{}, Kind} /\ mx_pending'[t] # Kind
                      /\ mx_todo'[t] # <<>> => mx_pending'[t] = Kind
                      /\ mx_todo'[t] = o => mx_linked[t] = {}
                      /\ mx_todo'[t] = <<o[2]>> => mx_linked[t] = {o[1]}
    BY <1>1, <1>4 DEF TodoInv
  <2>1. /\ mx_todo[t] \in {<<>>, o, <<o[2]>>}
        /\ mx_todo[t] = <<>> => mx_linked[t] \in {{}, Kind} /\ mx_pending[t] # Kind
        /\ mx_todo[t] # <<>> => mx_pending[t] = Kind
        /\ mx_todo[t] = o => mx_linked[t] = {}
        /\ mx_todo[t] = <<o[2]>> => mx_linked[t] = {o[1]}
    BY DEF TodoInv
  <2>2. o # <<>> /\ <<o[2]>> # <<>> /\ o # <<o[2]>>
    BY <1>t, NumbersType, OrderIsKind
  <2>3. CASE t # s
    BY <1>2, <2>1, <2>3
  <2>4. CASE t = s
    BY <1>1, <1>3, <2>1, <2>2, <2>4
  <2> QED BY <2>3, <2>4
<1>6. SeenInv => SeenInv'
  <2> SUFFICES ASSUME SeenInv, NEW t \in Service, NEW k \in Kind, mx_seen'[t][k] > 0,
                      mx_type[t][k] = "known"
               PROVE  k \in mx_pending'[t] \cup mx_linked[t]
    BY <1>1 DEF SeenInv, Playing
  <2>1. t # s \/ k # kind => mx_seen'[t][k] = mx_seen[t][k]
    BY <1>t DEF PadAdded
  <2>2. mx_pending[t] \subseteq mx_pending'[t]
    BY <1>2, <1>3
  <2>3. CASE t # s \/ k # kind
    BY <2>1, <2>2, <2>3 DEF SeenInv
  <2>4. CASE t = s /\ k = kind
    BY <1>t, <2>2, <2>4 DEF PadAdded
  <2> QED BY <2>3, <2>4
<1> QED
  BY <1>5, <1>6

\* A link is the next of the two.
LEMMA LinkIsNext ==
  ASSUME MuxTypeOK, TodoInv, NEW s \in Service, LinkParser(s), NEW o, o = Numbers(s).order
  PROVE  \/ /\ mx_todo[s] = o /\ Head(mx_todo[s]) = o[1] /\ mx_linked[s] = {}
            /\ mx_todo'[s] = <<o[2]>> /\ mx_linked'[s] = {o[1]} /\ mx_pending'[s] = Kind
         \/ /\ mx_todo[s] = <<o[2]>> /\ Head(mx_todo[s]) = o[2] /\ mx_linked[s] = {o[1]}
            /\ mx_todo'[s] = <<>> /\ mx_linked'[s] = Kind /\ mx_pending'[s] = {}
<1>t. /\ mx_pending \in [Service -> SUBSET Kind] /\ mx_todo \in [Service -> Seq(Kind)]
      /\ mx_linked \in [Service -> SUBSET Kind] /\ mx_args \in [Service -> MuxArgs]
  BY DEF MuxTypeOK
<1>1. /\ Kind = {o[1], o[2]} /\ o[1] # o[2] /\ Head(o) = o[1] /\ Tail(o) = <<o[2]>>
      /\ Head(<<o[2]>>) = o[2] /\ Tail(<<o[2]>>) = <<>> /\ <<o[2]>> # <<>>
  BY <1>t, NumbersType, OrderIsKind
<1>2. /\ mx_todo[s] # <<>> /\ mx_todo'[s] = Tail(mx_todo[s])
      /\ mx_linked'[s] = mx_linked[s] \cup {Head(mx_todo[s])}
      /\ mx_pending'[s] = IF mx_todo'[s] = <<>> THEN {} ELSE mx_pending[s]
  BY <1>t DEF LinkParser
<1>3. /\ mx_todo[s] = o \/ mx_todo[s] = <<o[2]>>
      /\ mx_pending[s] = Kind
      /\ mx_todo[s] = o => mx_linked[s] = {}
      /\ mx_todo[s] = <<o[2]>> => mx_linked[s] = {o[1]}
  BY <1>2 DEF TodoInv
<1>4. CASE mx_todo[s] = o
  BY <1>1, <1>2, <1>3, <1>4
<1>5. CASE mx_todo[s] = <<o[2]>>
  BY <1>1, <1>2, <1>3, <1>5
<1> QED
  BY <1>3, <1>4, <1>5

\* A streaming thread that links a parser keeps its service's promises.
LEMMA LinkStep ==
  ASSUME MuxTypeOK, TodoInv, NEW s \in Service, LinkParser(s)
  PROVE  TodoInv' /\ (SeenInv => SeenInv')
<1>t. /\ mx_pending \in [Service -> SUBSET Kind] /\ mx_todo \in [Service -> Seq(Kind)]
      /\ mx_linked \in [Service -> SUBSET Kind] /\ mx_args \in [Service -> MuxArgs]
  BY DEF MuxTypeOK
<1>1. UNCHANGED <<mx_args, mx_type, mx_probed, mx_seen>>
  BY DEF LinkParser
<1>2. \A t \in Service \ {s} : /\ mx_pending'[t] = mx_pending[t] /\ mx_todo'[t] = mx_todo[t]
                               /\ mx_linked'[t] = mx_linked[t]
  BY <1>t DEF LinkParser
<1>3. \A t \in Service : Numbers(t)' = Numbers(t)
  BY <1>1, NumbersStay
<1>4. TodoInv'
  <2> SUFFICES ASSUME NEW t \in Service, NEW o, o = Numbers(t).order
               PROVE  /\ mx_todo'[t] \in {<<>>, o, <<o[2]>>}
                      /\ mx_todo'[t] = <<>> => mx_linked'[t] \in {{}, Kind} /\ mx_pending'[t] # Kind
                      /\ mx_todo'[t] # <<>> => mx_pending'[t] = Kind
                      /\ mx_todo'[t] = o => mx_linked'[t] = {}
                      /\ mx_todo'[t] = <<o[2]>> => mx_linked'[t] = {o[1]}
    BY <1>3 DEF TodoInv
  <2>1. CASE t # s
    BY <1>2, <2>1 DEF TodoInv
  <2>2. CASE t = s
    <3>1. o # <<>> /\ <<o[2]>> # <<>> /\ o # <<o[2]>> /\ Kind # {}
      BY <1>t, NumbersType, OrderIsKind DEF Kind
    <3> QED BY <2>2, <3>1, LinkIsNext
  <2> QED BY <2>1, <2>2
<1>5. ASSUME SeenInv PROVE SeenInv'
  <2>1. \A t \in Service : mx_pending[t] \cup mx_linked[t] \subseteq mx_pending'[t] \cup mx_linked'[t]
    <3> SUFFICES mx_pending[s] \cup mx_linked[s] \subseteq mx_pending'[s] \cup mx_linked'[s]
      BY <1>2
    <3> QED BY <1>t, LinkIsNext
  <2> QED BY <1>1, <1>5, <2>1 DEF SeenInv, Playing
<1> QED
  BY <1>4, <1>5

\* Probing touches what no pad has shown yet.
LEMMA ProbeStep ==
  ASSUME MuxTypeOK, Probe
  PROVE  (TodoInv => TodoInv') /\ (SeenInv => SeenInv')
<1>1. UNCHANGED <<mx_args, mx_seen, mx_pending, mx_todo, mx_linked, mx_links>> /\ ~Playing
  BY MuxAssumption DEF Probe, Playing, MuxTypeOK
<1>2. \A t \in Service : Numbers(t)' = Numbers(t)
  BY <1>1, NumbersStay
<1> QED
  BY <1>1, <1>2 DEF TodoInv, SeenInv

\* Every step keeps what threads and parsers promise each other.
LEMMA MuxPairStep == MuxTypeOK /\ TodoInv /\ SeenInv /\ [MuxNext]_mxVars => TodoInv' /\ SeenInv'
<1> SUFFICES ASSUME MuxTypeOK, TodoInv, SeenInv, [MuxNext]_mxVars PROVE TodoInv' /\ SeenInv'
  OBVIOUS
<1>1. CASE UNCHANGED mxVars
  <2>1. \A t \in Service : Numbers(t)' = Numbers(t)
    BY <1>1, NumbersStay DEF mxVars
  <2> QED BY <1>1, <2>1 DEF mxVars, TodoInv, SeenInv, Playing
<1> QED
  BY <1>1, ProbeStep, PadStep, LinkStep DEF MuxNext

\* The multiplexer starts without a pad.
LEMMA MuxPairInit == MuxInit => TodoInv /\ SeenInv
  BY MuxAssumption DEF MuxInit, TodoInv, SeenInv, Kind

\* A service of which both streams are known and have appeared is multiplexed, or its
\* streaming thread is at it.
THEOREM ServicesGetLinkedHolds == MuxSpec => []ServicesGetLinked
<1>1. MuxTypeOK /\ TodoInv /\ SeenInv => ServicesGetLinked
  <2> SUFFICES ASSUME MuxTypeOK, TodoInv, SeenInv, NEW s \in Service, mx_todo[s] = <<>>,
                      \A k \in Kind : mx_type[s][k] = "known" /\ mx_seen[s][k] > 0
               PROVE  mx_linked[s] = Kind
    BY DEF ServicesGetLinked
  <2>1. mx_linked[s] \in {{}, Kind} /\ mx_pending[s] # Kind
    BY DEF TodoInv
  <2>2. \A k \in Kind : k \in mx_pending[s] \cup mx_linked[s]
    BY DEF SeenInv
  <2>3. mx_pending[s] \subseteq Kind
    BY DEF MuxTypeOK
  <2> QED BY <2>1, <2>2, <2>3
<1> QED
  BY <1>1, MuxTypeInit, MuxTypeStep, MuxPairInit, MuxPairStep, PTL DEF MuxSpec

-----------------------------------------------------------------------------
IsLink(l, s, kind) == l.service = s /\ l.kind = kind

\* Every link is of a stream that counts as linked; its PID is the stream's or one that the
\* multiplexer gave out; and the second stream of a service is linked after the first.
LinksInv ==
  /\ \A i \in DOMAIN mx_links : \A s \in Service : \A kind \in Kind : IsLink(mx_links[i], s, kind) =>
       /\ kind \in mx_linked[s]
       /\ mx_links[i].pid \in {Pid(s, kind)} \cup OwnPids
       /\ Unshared(s) => mx_links[i].pid = Pid(s, kind)
       /\ kind = Numbers(s).order[2] => \E j \in 1 .. i - 1 : IsLink(mx_links[j], s, Numbers(s).order[1])
  /\ \A s \in Service : Numbers(s).order[1] \in mx_linked[s] =>
       \E i \in DOMAIN mx_links : IsLink(mx_links[i], s, Numbers(s).order[1])

\* Nobody has taken the PID of a stream that is not linked yet, if its service's are its own.
LEMMA OwnPidIsFree ==
  ASSUME MuxTypeOK, LinksInv, NEW s \in Service, NEW kind \in Kind, kind \notin mx_linked[s],
         Unshared(s)
  PROVE  Pid(s, kind) \notin PidsInUse
<1> SUFFICES ASSUME NEW i \in DOMAIN mx_links, mx_links[i].pid = Pid(s, kind) PROVE FALSE
  BY DEF PidsInUse
<1>1. PICK t \in Service, k \in Kind : IsLink(mx_links[i], t, k)
  <2> DEFINE Link == [service : Service, kind : Kind, pid : Nat]
  <2>1. mx_links \in Seq(Link)
    BY DEF MuxTypeOK
  <2>2. mx_links[i].service \in Service /\ mx_links[i].kind \in Kind
    <3>1. mx_links[i] \in Link
      <4> HIDE DEF Link
      <4> QED BY <2>1
    <3> QED BY <3>1
  <2> QED BY <2>2 DEF IsLink
<1>2. Pid(s, kind) \in Streams(s) /\ Pid(t, k) \in Streams(t)
  BY DEF Pid, Streams
<1>3. k \in mx_linked[t] /\ mx_links[i].pid \in {Pid(t, k)} \cup OwnPids
  BY <1>1 DEF LinksInv
<1>4. mx_links[i].pid = Pid(t, k)
  BY <1>2, <1>3 DEF Unshared
<1>5. CASE t # s
  BY <1>2, <1>4, <1>5 DEF Unshared
<1>6. CASE t = s
  <2>1. k # kind
    BY <1>3, <1>6
  <2> QED BY <1>4, <1>6, <2>1 DEF Unshared, Pid, Kind
<1> QED
  BY <1>5, <1>6

\* Linking adds the stream that is next.
LEMMA LinksStep ==
  ASSUME MuxTypeOK, TodoInv, LinksInv, NEW s \in Service, LinkParser(s)
  PROVE  LinksInv'
<1> DEFINE o == Numbers(s).order
           kind == Head(mx_todo[s])
           n == Len(mx_links)
<1>t. /\ mx_todo \in [Service -> Seq(Kind)] /\ mx_linked \in [Service -> SUBSET Kind]
      /\ mx_links \in Seq([service : Service, kind : Kind, pid : Nat]) /\ n \in Nat
      /\ mx_args \in [Service -> MuxArgs] /\ DOMAIN mx_links = 1 .. n
  <2>1. /\ mx_todo \in [Service -> Seq(Kind)] /\ mx_linked \in [Service -> SUBSET Kind]
        /\ mx_links \in Seq([service : Service, kind : Kind, pid : Nat])
        /\ mx_args \in [Service -> MuxArgs]
    BY DEF MuxTypeOK
  <2>2. n \in Nat /\ DOMAIN mx_links = 1 .. n
    BY <2>1
  <2> QED BY <2>1, <2>2
<1>1. UNCHANGED mx_args /\ kind \in Kind
  BY <1>t DEF LinkParser
<1>2. PICK pid \in IF Pid(s, kind) \in PidsInUse THEN OwnPids \ PidsInUse ELSE {Pid(s, kind)} :
        mx_links' = Append(mx_links, [service |-> s, kind |-> kind, pid |-> pid])
  BY DEF LinkParser
<1>3. /\ Len(mx_links') = n + 1 /\ DOMAIN mx_links' = 1 .. n + 1
      /\ \A i \in 1 .. n : mx_links'[i] = mx_links[i]
      /\ mx_links'[n + 1] = [service |-> s, kind |-> kind, pid |-> pid]
  BY <1>2, <1>t
<1>4. /\ \A t \in Service \ {s} : mx_linked'[t] = mx_linked[t]
      /\ mx_linked'[s] = mx_linked[s] \cup {kind}
  BY <1>t DEF LinkParser
<1>5. /\ \A t : Numbers(t)' = Numbers(t) /\ \A k : Pid(t, k)' = Pid(t, k)
      /\ \A t : Unshared(t)' <=> Unshared(t)
  BY <1>1, NumbersStay, UnsharedStays
<1>6. /\ \A i \in 1 .. n : \A t, k : IsLink(mx_links'[i], t, k) <=> IsLink(mx_links[i], t, k)
      /\ \A t, k : IsLink(mx_links'[n + 1], t, k) <=> (t = s /\ k = kind)
  BY <1>3 DEF IsLink
<1>7. /\ kind \notin mx_linked[s] /\ o[1] # o[2]
      /\ kind = o[1] \/ (kind = o[2] /\ mx_linked[s] = {o[1]})
  <2>1. o[1] # o[2]
    <3>1. o \in {<<"audio", "video">>, <<"video", "audio">>}
      BY <1>t, NumbersType
    <3> QED BY <3>1, OrderIsKind
  <2> QED BY <2>1, LinkIsNext
<1> HIDE DEF o, kind, n
<1>8. ASSUME NEW i \in DOMAIN mx_links', NEW t \in Service, NEW k \in Kind, IsLink(mx_links'[i], t, k)
      PROVE  /\ k \in mx_linked'[t]
             /\ mx_links'[i].pid \in {Pid(t, k)} \cup OwnPids
             /\ Unshared(t) => mx_links'[i].pid = Pid(t, k)
             /\ k = Numbers(t).order[2] => \E j \in 1 .. i - 1 : IsLink(mx_links'[j], t, Numbers(t).order[1])
  <2>1. CASE i \in 1 .. n
    <3>1. IsLink(mx_links[i], t, k) /\ i \in DOMAIN mx_links
      BY <1>6, <1>8, <1>t, <2>1
    <3>2. /\ k \in mx_linked[t]
          /\ mx_links[i].pid \in {Pid(t, k)} \cup OwnPids
          /\ Unshared(t) => mx_links[i].pid = Pid(t, k)
          /\ k = Numbers(t).order[2] => \E j \in 1 .. i - 1 : IsLink(mx_links[j], t, Numbers(t).order[1])
      BY <3>1 DEF LinksInv
    <3>3. \A j \in 1 .. i - 1 : j \in 1 .. n
      BY <1>t, <2>1
    <3> QED BY <1>3, <1>4, <1>6, <2>1, <3>2, <3>3
  <2>2. CASE i = n + 1
    <3>1. t = s /\ k = kind /\ mx_links'[i].pid = pid
      BY <1>3, <1>6, <1>8, <2>2
    <3>2. Unshared(s) => pid = Pid(s, kind)
      BY <1>1, <1>2, <1>7, OwnPidIsFree
    <3>3. kind = o[2] => \E j \in 1 .. n : IsLink(mx_links[j], s, o[1])
      BY <1>7, <1>t DEF LinksInv, o
    <3>4. i - 1 = n
      BY <1>t, <2>2
    <3> QED BY <1>2, <1>4, <1>6, <3>1, <3>2, <3>3, <3>4 DEF o
  <2> QED BY <1>3, <1>t, <2>1, <2>2
<1>9. ASSUME NEW t \in Service, Numbers(t).order[1] \in mx_linked'[t]
      PROVE  \E i \in DOMAIN mx_links' : IsLink(mx_links'[i], t, Numbers(t).order[1])
  <2>1. CASE Numbers(t).order[1] \in mx_linked[t]
    <3>1. PICK i \in 1 .. n : IsLink(mx_links[i], t, Numbers(t).order[1])
      BY <1>t, <2>1 DEF LinksInv
    <3>2. i \in DOMAIN mx_links'
      BY <1>3, <1>t
    <3> QED BY <1>6, <3>1, <3>2
  <2>2. CASE Numbers(t).order[1] \notin mx_linked[t]
    <3>1. t = s /\ Numbers(t).order[1] = kind
      BY <1>4, <1>9, <2>2
    <3>2. n + 1 \in DOMAIN mx_links'
      BY <1>3, <1>t
    <3> QED BY <1>6, <3>1, <3>2
  <2> QED BY <2>1, <2>2
<1> QED
  BY <1>5, <1>8, <1>9 DEF LinksInv, OwnPids

\* Every step keeps what the links say.
LEMMA MuxLinksStep == MuxTypeOK /\ TodoInv /\ LinksInv /\ [MuxNext]_mxVars => LinksInv'
<1> SUFFICES ASSUME MuxTypeOK, TodoInv, LinksInv, [MuxNext]_mxVars PROVE LinksInv'
  OBVIOUS
<1>1. CASE UNCHANGED <<mx_args, mx_linked, mx_links>>
  <2>1. /\ \A t : Numbers(t)' = Numbers(t) /\ \A k : Pid(t, k)' = Pid(t, k)
        /\ \A t : Unshared(t)' <=> Unshared(t)
    BY <1>1, NumbersStay, UnsharedStays
  <2> QED BY <1>1, <2>1 DEF LinksInv, OwnPids
<1>2. CASE Probe \/ UNCHANGED mxVars
  BY <1>1, <1>2 DEF Probe, mxVars
<1>3. ASSUME NEW s \in Service, NEW kind \in Kind, PadAdded(s, kind) PROVE LinksInv'
  BY <1>1, <1>3 DEF PadAdded
<1> QED
  BY <1>2, <1>3, LinksStep DEF MuxNext

-----------------------------------------------------------------------------
\* The only entry under a key is what the multiplexer finds there.
LEMMA OnlyEntry ==
  ASSUME NEW name, NEW n, NEW s \in Service, NEW j \in 1 .. 6, Keyed(name, n) = {<<s, j>>}
  PROVE  Mapped(name, n) = Entries(s)[j][3]
<1> DEFINE e == <<s, j>>
           last == CHOOSE x \in Keyed(name, n) : \A d \in Keyed(name, n) : NotAfter(d, x)
<1>1. s \in Nat /\ j \in Nat /\ e[1] = s /\ e[2] = j
  BY DEF Service
<1>2. NotAfter(e, e)
  BY <1>1 DEF NotAfter
<1>3. last = e
  BY <1>2
<1>4. Keyed(name, n) # {}
  OBVIOUS
<1>5. Mapped(name, n) = Entries(last[1])[last[2]][3]
  BY <1>4 DEF Mapped
<1> QED
  BY <1>1, <1>3, <1>5

\* The keys and what is under them, one place after the other.
LEMMA EntriesAre ==
  ASSUME NEW t, NEW n, n = Numbers(t)
  PROVE  LET E == Entries(t) IN
         /\ E[1] = <<"sink", n.video, n.program>> /\ E[2] = <<"sink", n.audio, n.program>>
         /\ E[3] = <<"PMT", n.program, n.pmt>> /\ E[4] = <<"PCR", n.program, n.pcr>>
         /\ E[5] = <<"PMT", Pid(t, n.order[1]), 0>> /\ E[6] = <<"PMT", Pid(t, n.order[2]), 1>>
  BY DEF Entries

\* Each key of a service whose numbers are its own is at one place of the map only.
LEMMA KeysAre ==
  ASSUME MuxTypeOK, NEW s \in Service, Unshared(s), NEW n, n = Numbers(s)
  PROVE  /\ Keyed("sink", n.video) = {<<s, 1>>} /\ Keyed("sink", n.audio) = {<<s, 2>>}
         /\ Keyed("PMT", n.program) = {<<s, 3>>} /\ Keyed("PCR", n.program) = {<<s, 4>>}
         /\ Keyed("PMT", Pid(s, n.order[1])) = {<<s, 5>>}
         /\ Keyed("PMT", Pid(s, n.order[2])) = {<<s, 6>>}
<1> DEFINE Has(t, j, name, k) == Entries(t)[j][1] = name /\ Entries(t)[j][2] = k
<1>1. ASSUME NEW t \in Service, NEW j \in 1 .. 6
      PROVE  /\ Has(t, j, "sink", n.video) <=> t = s /\ j = 1
             /\ Has(t, j, "sink", n.audio) <=> t = s /\ j = 2
             /\ Has(t, j, "PMT", n.program) <=> t = s /\ j = 3
             /\ Has(t, j, "PCR", n.program) <=> t = s /\ j = 4
             /\ Has(t, j, "PMT", Pid(s, n.order[1])) <=> t = s /\ j = 5
             /\ Has(t, j, "PMT", Pid(s, n.order[2])) <=> t = s /\ j = 6
  <2> DEFINE m == Numbers(t)
             p1 == Pid(t, m.order[1])
             p2 == Pid(t, m.order[2])
             q1 == Pid(s, n.order[1])
             q2 == Pid(s, n.order[2])
  <2>1. /\ {p1, p2} = {m.video, m.audio} /\ {q1, q2} = {n.video, n.audio}
        /\ n.video # n.audio /\ q1 # q2
    <3>1. n.order \in {<<"audio", "video">>, <<"video", "audio">>}
          /\ m.order \in {<<"audio", "video">>, <<"video", "audio">>}
      BY NumbersType DEF MuxTypeOK
    <3>2. {p1, p2} = {m.video, m.audio}
      BY <3>1 DEF Pid
    <3>3. {q1, q2} = {n.video, n.audio}
      BY <3>1 DEF Pid
    <3>4. n.video # n.audio
      BY DEF Unshared
    <3> QED BY <3>2, <3>3, <3>4
  <2>2. /\ n.program \notin {m.video, m.audio} /\ m.program \notin {n.video, n.audio}
        /\ t # s => n.program # m.program /\ {n.video, n.audio} \cap {m.video, m.audio} = {}
    BY DEF Unshared, Streams
  <2>3. t = s => m = n /\ p1 = q1 /\ p2 = q2
    OBVIOUS
  <2>4. /\ Entries(t)[1] = <<"sink", m.video, m.program>>
        /\ Entries(t)[2] = <<"sink", m.audio, m.program>>
        /\ Entries(t)[3] = <<"PMT", m.program, m.pmt>> /\ Entries(t)[4] = <<"PCR", m.program, m.pcr>>
        /\ Entries(t)[5] = <<"PMT", p1, 0>> /\ Entries(t)[6] = <<"PMT", p2, 1>>
    BY EntriesAre
  <2> HIDE DEF p1, p2, q1, q2, m
  <2>5. /\ Has(t, 1, "sink", n.video) <=> m.video = n.video
        /\ Has(t, 1, "sink", n.audio) <=> m.video = n.audio
        /\ Has(t, 2, "sink", n.video) <=> m.audio = n.video
        /\ Has(t, 2, "sink", n.audio) <=> m.audio = n.audio
        /\ \A x \in {3, 5, 6} : \A k : ~Has(t, x, "sink", k) /\ ~Has(t, x, "PCR", k)
        /\ \A x \in {1, 2, 4} : \A k : ~Has(t, x, "PMT", k)
        /\ \A x \in {1, 2} : \A k : ~Has(t, x, "PCR", k)
        /\ \A k : ~Has(t, 4, "sink", k)
        /\ \A k : Has(t, 3, "PMT", k) <=> m.program = k
        /\ \A k : Has(t, 5, "PMT", k) <=> p1 = k
        /\ \A k : Has(t, 6, "PMT", k) <=> p2 = k
        /\ \A k : Has(t, 4, "PCR", k) <=> m.program = k
    BY <2>4
  <2>6. j = 1 \/ j = 2 \/ j = 3 \/ j = 4 \/ j = 5 \/ j = 6
    OBVIOUS
  <2> HIDE DEF Has
  <2>7. /\ Has(t, j, "sink", n.video) <=> t = s /\ j = 1
        /\ Has(t, j, "sink", n.audio) <=> t = s /\ j = 2
        /\ Has(t, j, "PMT", n.program) <=> t = s /\ j = 3
        /\ Has(t, j, "PCR", n.program) <=> t = s /\ j = 4
        /\ Has(t, j, "PMT", q1) <=> t = s /\ j = 5
        /\ Has(t, j, "PMT", q2) <=> t = s /\ j = 6
    <3>1. CASE t = s
      BY ONLY <2>1, <2>2, <2>3, <2>5, <2>6, <3>1
    <3>2. CASE t # s
      <4>1. /\ n.program # m.program /\ n.program # p1 /\ n.program # p2
            /\ m.program # q1 /\ m.program # q2 /\ p1 # q1 /\ p2 # q1 /\ p1 # q2 /\ p2 # q2
            /\ m.video # n.video /\ m.video # n.audio /\ m.audio # n.video /\ m.audio # n.audio
        BY ONLY <2>1, <2>2, <3>2
      <4>2. /\ ~Has(t, j, "sink", n.video) /\ ~Has(t, j, "sink", n.audio)
            /\ ~Has(t, j, "PCR", n.program)
        BY ONLY <2>5, <2>6, <4>1
      <4>3. /\ ~Has(t, j, "PMT", n.program) /\ ~Has(t, j, "PMT", q1) /\ ~Has(t, j, "PMT", q2)
        BY ONLY <2>5, <2>6, <4>1
      <4> QED BY <3>2, <4>2, <4>3
    <3> QED BY <3>1, <3>2
  <2> QED BY <2>7 DEF q1, q2
<1>2. \A name, k : Keyed(name, k) = {e \in Service \X (1 .. 6) : Has(e[1], e[2], name, k)}
  BY DEF Keyed
<1> HIDE DEF Has
<1>3. ASSUME NEW name, NEW k, NEW i \in 1 .. 6,
             \A t \in Service : \A j \in 1 .. 6 : Has(t, j, name, k) <=> t = s /\ j = i
      PROVE  Keyed(name, k) = {<<s, i>>}
  BY <1>2, <1>3
<1> QED
  BY <1>1, <1>3

\* The multiplexer starts without a link.
LEMMA MuxLinksInit == MuxInit => LinksInv
  BY DEF MuxInit, LinksInv, Service

\* A service whose numbers are its own is multiplexed as it was asked for: no step of
\* another service's thread, and no clash of the others, moves a stream of it.
THEOREM StreamsAreInTheirProgramHolds == MuxSpec => []StreamsAreInTheirProgram
<1>1. MuxTypeOK /\ LinksInv => StreamsAreInTheirProgram
  <2> SUFFICES ASSUME MuxTypeOK, LinksInv, NEW i \in DOMAIN mx_links, NEW s, NEW kind, NEW n,
                      s = mx_links[i].service, kind = mx_links[i].kind, n = Numbers(s), Unshared(s)
               PROVE  /\ mx_links[i].pid = Pid(s, kind)
                      /\ Mapped("sink", mx_links[i].pid) = n.program
                      /\ Mapped("PMT", n.program) = n.pmt /\ Mapped("PCR", n.program) = n.pcr
                      /\ n.order[Mapped("PMT", mx_links[i].pid) + 1] = kind
                      /\ kind = n.order[2] => \E j \in 1 .. i - 1 :
                           mx_links[j].service = s /\ mx_links[j].kind = n.order[1]
    BY DEF StreamsAreInTheirProgram
  <2> DEFINE Link == [service : Service, kind : Kind, pid : Nat]
  <2>1. mx_links \in Seq(Link)
    BY DEF MuxTypeOK
  <2>2. s \in Service /\ kind \in Kind
    <3>1. mx_links[i] \in Link
      <4> HIDE DEF Link
      <4> QED BY <2>1
    <3> QED BY <3>1
  <2>3. IsLink(mx_links[i], s, kind)
    BY DEF IsLink
  <2>4. /\ mx_links[i].pid = Pid(s, kind)
        /\ kind = n.order[2] => \E j \in 1 .. i - 1 : IsLink(mx_links[j], s, n.order[1])
    BY <2>2, <2>3 DEF LinksInv
  <2>5. /\ Mapped("sink", n.video) = n.program /\ Mapped("sink", n.audio) = n.program
        /\ Mapped("PMT", n.program) = n.pmt /\ Mapped("PCR", n.program) = n.pcr
        /\ Mapped("PMT", Pid(s, n.order[1])) = 0 /\ Mapped("PMT", Pid(s, n.order[2])) = 1
    <3>1. /\ Keyed("sink", n.video) = {<<s, 1>>} /\ Keyed("sink", n.audio) = {<<s, 2>>}
          /\ Keyed("PMT", n.program) = {<<s, 3>>} /\ Keyed("PCR", n.program) = {<<s, 4>>}
          /\ Keyed("PMT", Pid(s, n.order[1])) = {<<s, 5>>}
          /\ Keyed("PMT", Pid(s, n.order[2])) = {<<s, 6>>}
      BY <2>2, KeysAre
    <3>2. /\ Mapped("sink", n.video) = Entries(s)[1][3] /\ Mapped("sink", n.audio) = Entries(s)[2][3]
          /\ Mapped("PMT", n.program) = Entries(s)[3][3] /\ Mapped("PCR", n.program) = Entries(s)[4][3]
          /\ Mapped("PMT", Pid(s, n.order[1])) = Entries(s)[5][3]
          /\ Mapped("PMT", Pid(s, n.order[2])) = Entries(s)[6][3]
      BY ONLY <2>2, <3>1, OnlyEntry, 1 \in 1 .. 6, 2 \in 1 .. 6, 3 \in 1 .. 6, 4 \in 1 .. 6,
              5 \in 1 .. 6, 6 \in 1 .. 6
    <3>3. /\ Entries(s)[1][3] = n.program /\ Entries(s)[2][3] = n.program
          /\ Entries(s)[3][3] = n.pmt /\ Entries(s)[4][3] = n.pcr
          /\ Entries(s)[5][3] = 0 /\ Entries(s)[6][3] = 1
      BY EntriesAre
    <3> QED BY <3>2, <3>3
  <2>6. n.order \in {<<"audio", "video">>, <<"video", "audio">>}
    BY <2>2, NumbersType DEF MuxTypeOK
  <2>7. kind \in {n.order[1], n.order[2]} /\ Pid(s, kind) \in {n.video, n.audio}
    BY <2>2, <2>6, OrderIsKind DEF Pid
  <2>8. Mapped("sink", mx_links[i].pid) = n.program
    BY <2>4, <2>5, <2>7
  <2>9. n.order[Mapped("PMT", mx_links[i].pid) + 1] = kind
    BY <2>4, <2>5, <2>7
  <2> QED BY <2>4, <2>5, <2>8, <2>9 DEF IsLink
<1> QED
  BY <1>1, MuxTypeInit, MuxTypeStep, MuxPairInit, MuxPairStep, MuxLinksInit, MuxLinksStep, PTL
     DEF MuxSpec

-----------------------------------------------------------------------------
(* The statistics of a transport stream *)

\* What each PID last sent.
Sent == [cc : 0 .. 15, pcr : Nat, filled : BOOLEAN, missing : 0 .. 15, heard : BOOLEAN]

Typed ==
  /\ tp_last_cc \in [TsPids -> 0 .. 15 \cup {InvalidCc}]
  /\ tp_last_pcr \in [TsPids -> Nat]
  /\ tp_sent \in [TsPids -> Sent]
  /\ tp_cc_errors \in Nat /\ tp_gaps \in Nat /\ tp_unlost \in Nat
  /\ tp_pcr_discontinuities \in Nat /\ tp_jumps \in Nat

\* The counter that the receiver remembers of a PID trails the sender's by what is missing.
Trails(pid) ==
  IF tp_sent[pid].heard
    THEN /\ tp_last_cc[pid] \in 0 .. 15
         /\ (tp_last_cc[pid] + tp_sent[pid].missing) % 16 = tp_sent[pid].cc
    ELSE tp_last_cc[pid] = InvalidCc

CountersTrail == \A pid \in TsPids : pid # "null" => Trails(pid)

\* The remembered PCR is the last one sent, or 0 if that one filled its field.
PcrsAgree ==
  \A pid \in TsPids : tp_last_pcr[pid] = IF tp_sent[pid].filled THEN 0 ELSE tp_sent[pid].pcr

PacketInv == Typed /\ CountersTrail /\ PcrsAgree /\ StatisticsMatchTheStream

-----------------------------------------------------------------------------
(* The counter's arithmetic *)

\* A packet has the counter that the receiver expects exactly if it is one step from
\* the one that was heard.
LEMMA ExpectedCounter ==
  ASSUME NEW last \in 0 .. 15, NEW missing \in 0 .. 15, NEW cc \in 0 .. 15, NEW lost \in Nat,
         NEW step \in Nat, (last + missing) % 16 = cc
  PROVE  (cc + lost + step) % 16 = (last + 1) % 16 <=> (((missing + lost) % 16) + step) % 16 = 1
<1>1. (cc + lost + step) % 16 = (last + missing + lost + step) % 16
  OBVIOUS
<1>2. (((missing + lost) % 16) + step) % 16 = (missing + lost + step) % 16
  OBVIOUS
<1>3. (last + missing + lost + step) % 16 = (last + 1) % 16 <=> (missing + lost + step) % 16 = 1
  OBVIOUS
<1> QED BY <1>1, <1>2, <1>3

\* A packet without payload leaves what was lost before it missing.
LEMMA MissingAdds ==
  ASSUME NEW last \in 0 .. 15, NEW missing \in 0 .. 15, NEW cc \in 0 .. 15, NEW lost \in Nat,
         (last + missing) % 16 = cc
  PROVE  (last + ((missing + lost) % 16)) % 16 = (cc + lost + 0) % 16
  OBVIOUS

\* A continuity counter taken modulo 16 has four bits.
LEMMA ModBelow == ASSUME NEW n \in Nat PROVE n % 16 \in 0 .. 15
  OBVIOUS

-----------------------------------------------------------------------------
(* Steps *)

\* A packet without its sync byte is one more that is missing.
LEMMA SyncErrorStep == ASSUME PacketInv, NEW pid \in TsPids, SyncError(pid) PROVE PacketInv'
<1> USE DEF PacketInv, Typed, SyncError, tpStats, Modulus
<1> DEFINE sent == tp_sent[pid]
<1>1. sent \in Sent
  OBVIOUS
<1>2. (sent.cc + 1) % 16 \in 0 .. 15 /\ (sent.missing + 1) % 16 \in 0 .. 15
  <2>1. sent.cc + 1 \in Nat /\ sent.missing + 1 \in Nat
    BY <1>1 DEF Sent
  <2> QED
    BY <2>1, ModBelow
<1>3. tp_sent' = [tp_sent EXCEPT ![pid] =
        [cc |-> (sent.cc + 1) % 16, pcr |-> sent.pcr, filled |-> sent.filled,
         missing |-> (sent.missing + 1) % 16, heard |-> sent.heard]]
  OBVIOUS
<1>4. Typed'
  BY <1>1, <1>2, <1>3 DEF Sent
<1>5. CountersTrail'
  <2> SUFFICES ASSUME NEW q \in TsPids, q # "null" PROVE Trails(q)'
    BY DEF CountersTrail
  <2>1. Trails(q)
    BY DEF CountersTrail
  <2>2. CASE q # pid
    BY <1>3, <2>1, <2>2 DEF Trails
  <2>3. CASE q = pid
    <3>1. tp_sent'[q].heard = sent.heard /\ tp_last_cc' = tp_last_cc
      BY <1>1, <1>3, <2>3 DEF Sent
    <3>2. ASSUME sent.heard
          PROVE  (tp_last_cc[q] + tp_sent'[q].missing) % 16 = tp_sent'[q].cc
      <4>1. tp_last_cc[q] \in 0 .. 15 /\ (tp_last_cc[q] + sent.missing) % 16 = sent.cc
        BY <2>1, <2>3, <3>2 DEF Trails
      <4>2. (tp_last_cc[q] + ((sent.missing + 1) % 16)) % 16 = (sent.cc + 1 + 0) % 16
        BY <1>1, <4>1, MissingAdds DEF Sent
      <4>3. tp_sent'[q].missing = (sent.missing + 1) % 16 /\ tp_sent'[q].cc = (sent.cc + 1) % 16
        BY <1>1, <1>3, <2>3 DEF Sent
      <4>4. sent.cc + 1 + 0 = sent.cc + 1
        BY <1>1 DEF Sent
      <4> QED
        BY <1>1, <4>1, <4>2, <4>3, <4>4 DEF Sent
    <3> QED
      BY <2>1, <2>3, <3>1, <3>2 DEF Trails
  <2> QED
    BY <2>2, <2>3
<1>6. PcrsAgree'
  BY <1>1, <1>3 DEF PcrsAgree, Sent
<1>7. StatisticsMatchTheStream'
  BY DEF StatisticsMatchTheStream
<1> QED
  BY <1>4, <1>5, <1>6, <1>7

\* What is known of an adaptation field.
LEMMA FieldFacts ==
  ASSUME NEW af \in AdaptationField
  PROVE  /\ af.pcr_flag \in BOOLEAN /\ af.pcr \in Nat
         /\ HasPcr(af) <=> af.pcr_flag
         /\ ParsedPcr(af) \in Nat
         /\ af.pcr_flag => ParsedPcr(af) = IF af.length = 7 THEN 0 ELSE af.pcr
<1>1. CASE af \in {[length |-> n, discontinuity |-> n = 1, pcr_flag |-> FALSE, pcr |-> 0] : n \in {0, 1}}
  <2>1. PICK n \in {0, 1} :
          af = [length |-> n, discontinuity |-> n = 1, pcr_flag |-> FALSE, pcr |-> 0]
    BY <1>1
  <2>2. af.pcr = 0 /\ af.length = n
    BY <2>1
  <2>3. af.pcr_flag = FALSE
    BY <2>1, Zenon
  <2>4. ~HasPcr(af)
    BY <2>3 DEF HasPcr
  <2>5. ParsedPcr(af) \in Nat
    BY <2>2 DEF ParsedPcr
  <2>6. ~af.pcr_flag /\ af.pcr_flag \in BOOLEAN
    BY <2>3
  <2>7. af.pcr \in Nat
    BY <2>2
  <2> QED
    BY <2>4, <2>5, <2>6, <2>7
<1>2. CASE af \in {[length |-> n, discontinuity |-> d, pcr_flag |-> TRUE, pcr |-> v] :
                      n \in AfLengths, d \in BOOLEAN, v \in Pcrs}
  <2>1. PICK n \in AfLengths, d \in BOOLEAN, v \in Pcrs :
          af = [length |-> n, discontinuity |-> d, pcr_flag |-> TRUE, pcr |-> v]
    BY <1>2
  <2>2. n \in 7 .. 183 /\ v \in Nat
    BY TsPacketAssumption
  <2>3. af.pcr_flag = TRUE /\ af.pcr = v /\ af.length = n
    BY <2>1
  <2>4. HasPcr(af)
    <3>1. af.length > 0
      BY <2>2, <2>3
    <3> QED
      BY <2>3, <3>1 DEF HasPcr
  <2>5. ParsedPcr(af) \in Nat /\ ParsedPcr(af) = IF n = 7 THEN 0 ELSE v
    BY <2>2, <2>3 DEF ParsedPcr
  <2> QED
    BY <2>2, <2>3, <2>4, <2>5
<1> QED
  BY <1>1, <1>2 DEF AdaptationField

\* A packet without payload takes no step, and one with a payload and no signal at most one.
LEMMA StepFacts ==
  ASSUME NEW payload \in BOOLEAN, NEW af \in AdaptationField, NEW step \in NextNumbers(payload, af)
  PROVE  /\ step \in Nat
         /\ ~payload => step = 0
         /\ payload /\ ~af.discontinuity => step \in {0, 1}
BY TsPacketAssumption DEF NextNumbers

\* A packet that is counted: every part of the statistics follows the stream.
LEMMA StatsStep ==
  ASSUME PacketInv,
         NEW pid \in TsPids, NEW payload \in BOOLEAN, NEW lost \in LossRuns,
         NEW af \in AdaptationField, NEW step \in NextNumbers(payload, af),
         StatsUpdate(pid, payload, lost, step, af)
  PROVE  PacketInv'
<1> USE DEF Modulus
<1> DEFINE sent == tp_sent[pid]
           cc == (sent.cc + lost + step) % 16
           missing == (sent.missing + lost) % 16
           counted == payload /\ pid # "null"
           filled == af.length = 7
           new == [cc |-> cc, pcr |-> IF af.pcr_flag THEN af.pcr ELSE sent.pcr,
                   filled |-> IF af.pcr_flag THEN filled ELSE sent.filled,
                   missing |-> IF payload THEN 0 ELSE missing, heard |-> sent.heard \/ payload]
           gap == /\ counted /\ sent.heard /\ ~af.discontinuity
                  /\ missing \notin (IF step = 1 THEN {0} ELSE {0, 1})
           unlost == /\ counted /\ sent.heard
                     /\ IF af.discontinuity THEN (missing + step) % 16 # 1
                                            ELSE step = 0 /\ missing = 0
           jump == af.pcr_flag /\ ~sent.filled /\ sent.pcr # 0 /\ (filled \/ af.pcr < sent.pcr)
<1>0. lost \in Nat /\ step \in Nat
  BY TsPacketAssumption, StepFacts
<1>1. sent \in Sent /\ Typed
  BY DEF PacketInv, Typed
<1>2. /\ sent.cc \in 0 .. 15 /\ sent.missing \in 0 .. 15 /\ sent.pcr \in Nat
      /\ sent.heard \in BOOLEAN /\ sent.filled \in BOOLEAN
  BY <1>1 DEF Sent
<1>3. cc \in 0 .. 15 /\ missing \in 0 .. 15
  BY <1>0, <1>2, ModBelow
<1>4. af.pcr_flag \in BOOLEAN /\ af.pcr \in Nat /\ ParsedPcr(af) \in Nat
      /\ (HasPcr(af) <=> af.pcr_flag)
      /\ (af.pcr_flag => ParsedPcr(af) = IF filled THEN 0 ELSE af.pcr)
  BY FieldFacts
<1>5. /\ tp_cc_errors' = tp_cc_errors + One(counted /\ IsCcError(pid, cc))
      /\ tp_last_cc' = [tp_last_cc EXCEPT ![pid] = IF counted THEN cc ELSE @]
      /\ tp_pcr_discontinuities' = tp_pcr_discontinuities + One(HasPcr(af) /\ PcrWentBack(pid, af))
      /\ tp_last_pcr' = [tp_last_pcr EXCEPT ![pid] = IF HasPcr(af) THEN ParsedPcr(af) ELSE @]
      /\ tp_sent' = [tp_sent EXCEPT ![pid] = new]
      /\ tp_gaps' = tp_gaps + One(gap)
      /\ tp_unlost' = tp_unlost + One(unlost)
      /\ tp_jumps' = tp_jumps + One(jump)
  BY DEF StatsUpdate
<1>6. new \in Sent
  <2>1. (sent.heard \/ payload) \in BOOLEAN /\ (IF af.pcr_flag THEN filled ELSE sent.filled) \in BOOLEAN
    BY <1>2, Zenon
  <2>2. (IF payload THEN 0 ELSE missing) \in 0 .. 15 /\ (IF af.pcr_flag THEN af.pcr ELSE sent.pcr) \in Nat
    BY <1>2, <1>3, <1>4
  <2> HIDE DEF cc, missing, sent, filled
  <2> QED BY <1>3, <2>1, <2>2, Zenon DEF Sent
<1>7. \A c \in BOOLEAN : One(c) \in Nat
  BY DEF One
<1> HIDE DEF sent, cc, missing, counted, new, filled, gap, unlost, jump
<1>8. Typed'
  <2>1. tp_last_cc' \in [TsPids -> 0 .. 15 \cup {InvalidCc}]
    BY <1>1, <1>3, <1>5 DEF Typed
  <2>2. tp_last_pcr' \in [TsPids -> Nat]
    BY <1>1, <1>4, <1>5 DEF Typed
  <2>3. tp_sent' \in [TsPids -> Sent]
    BY <1>1, <1>5, <1>6 DEF Typed
  <2>4. tp_cc_errors' \in Nat /\ tp_gaps' \in Nat /\ tp_unlost' \in Nat
    BY <1>1, <1>5 DEF Typed, One
  <2>5. tp_pcr_discontinuities' \in Nat /\ tp_jumps' \in Nat
    BY <1>1, <1>5 DEF Typed, One
  <2> QED
    BY <2>1, <2>2, <2>3, <2>4, <2>5 DEF Typed
<1>9. CountersTrail'
  <2> SUFFICES ASSUME NEW q \in TsPids, q # "null" PROVE Trails(q)'
    BY DEF CountersTrail
  <2>1. Trails(q)
    BY DEF PacketInv, CountersTrail
  <2>2. CASE q # pid
    <3>1. tp_sent'[q] = tp_sent[q] /\ tp_last_cc'[q] = tp_last_cc[q]
      BY <1>1, <1>5, <2>2 DEF Typed
    <3> QED
      BY <2>1, <3>1 DEF Trails
  <2>3. CASE q = pid
    <3>1. tp_sent'[q] = new /\ tp_last_cc'[q] = IF counted THEN cc ELSE tp_last_cc[q]
      BY <1>1, <1>5, <2>3 DEF Typed
    <3>2. CASE payload
      <4>1. new.heard /\ new.cc = cc /\ new.missing = 0 /\ counted
        BY <2>3, <3>2 DEF new, counted
      <4>2. (cc + 0) % 16 = cc
        BY <1>3
      <4> QED
        BY <1>3, <3>1, <4>1, <4>2 DEF Trails
    <3>3. CASE ~payload
      <4>1. new.heard = sent.heard /\ new.cc = cc /\ new.missing = missing /\ ~counted
        BY <1>2, <3>3 DEF new, counted
      <4>2. cc = (sent.cc + lost + 0) % 16 /\ missing = (sent.missing + lost) % 16
        BY <3>3, StepFacts DEF cc, missing
      <4>3. ASSUME sent.heard
            PROVE  /\ tp_last_cc[q] \in 0 .. 15
                   /\ (tp_last_cc[q] + missing) % 16 = cc
        <5>1. tp_last_cc[q] \in 0 .. 15 /\ (tp_last_cc[q] + sent.missing) % 16 = sent.cc
          BY <2>1, <2>3, <4>3 DEF Trails, sent
        <5>2. (tp_last_cc[q] + ((sent.missing + lost) % 16)) % 16 = (sent.cc + lost + 0) % 16
          BY <1>0, <1>2, <5>1, MissingAdds
        <5> QED
          BY <4>2, <5>1, <5>2, Zenon
      <4>4. ~sent.heard => tp_last_cc[q] = InvalidCc
        BY <2>1, <2>3 DEF Trails, sent
      <4> QED
        BY <3>1, <4>1, <4>3, <4>4 DEF Trails
    <3> QED
      BY <3>2, <3>3
  <2> QED
    BY <2>2, <2>3
<1>10. PcrsAgree'
  <2> SUFFICES ASSUME NEW q \in TsPids
               PROVE  tp_last_pcr'[q] = IF tp_sent'[q].filled THEN 0 ELSE tp_sent'[q].pcr
    BY DEF PcrsAgree
  <2>1. tp_last_pcr[q] = IF tp_sent[q].filled THEN 0 ELSE tp_sent[q].pcr
    BY DEF PacketInv, PcrsAgree
  <2>2. CASE q # pid
    <3>1. tp_sent'[q] = tp_sent[q] /\ tp_last_pcr'[q] = tp_last_pcr[q]
      BY <1>1, <1>5, <2>2 DEF Typed
    <3> QED
      BY <2>1, <3>1
  <2>3. CASE q = pid
    <3>1. tp_sent'[q] = new /\ tp_last_pcr'[q] = IF HasPcr(af) THEN ParsedPcr(af) ELSE tp_last_pcr[q]
      BY <1>1, <1>5, <2>3 DEF Typed
    <3>2. CASE af.pcr_flag
      <4>1. new.pcr = af.pcr /\ new.filled = filled
        BY <3>2 DEF new
      <4> QED
        BY <1>4, <3>1, <3>2, <4>1
    <3>3. CASE ~af.pcr_flag
      <4>1. new.pcr = sent.pcr /\ new.filled = sent.filled
        BY <3>3 DEF new
      <4>2. tp_last_pcr[q] = IF sent.filled THEN 0 ELSE sent.pcr
        BY <2>1, <2>3 DEF sent
      <4> QED
        BY <1>4, <3>1, <3>3, <4>1, <4>2
    <3> QED
      BY <3>2, <3>3
  <2> QED
    BY <2>2, <2>3
<1>11. tp_cc_errors' = tp_gaps' + tp_unlost'
  <2>1. tp_cc_errors = tp_gaps + tp_unlost
    BY DEF PacketInv, StatisticsMatchTheStream
  <2>2. ASSUME counted PROVE IsCcError(pid, cc) <=> sent.heard /\ (missing + step) % 16 # 1
    <3>1. payload /\ pid # "null"
      BY <2>2 DEF counted
    <3>2. Trails(pid)
      BY <3>1 DEF PacketInv, CountersTrail
    <3>3. CASE sent.heard
      <4>1. /\ tp_last_cc[pid] \in 0 .. 15
            /\ (tp_last_cc[pid] + sent.missing) % 16 = sent.cc
        BY <3>2, <3>3 DEF Trails, sent
      <4>2. (sent.cc + lost + step) % 16 = (tp_last_cc[pid] + 1) % 16
              <=> (((sent.missing + lost) % 16) + step) % 16 = 1
        <5> DEFINE last == tp_last_cc[pid]
                   gone == sent.missing
                   number == sent.cc
        <5>1. /\ last \in 0 .. 15 /\ gone \in 0 .. 15 /\ number \in 0 .. 15
              /\ (last + gone) % 16 = number
          BY <1>2, <4>1
        <5> HIDE DEF last, gone, number
        <5>2. (number + lost + step) % 16 = (last + 1) % 16 <=> (((gone + lost) % 16) + step) % 16 = 1
          BY <1>0, <5>1, ExpectedCounter
        <5> QED BY <5>2 DEF last, gone, number
      <4>3. cc = (tp_last_cc[pid] + 1) % 16 <=> (missing + step) % 16 = 1
        BY <4>2, Zenon DEF cc, missing
      <4>4. tp_last_cc[pid] # InvalidCc
        BY <4>1 DEF InvalidCc
      <4> QED
        BY <3>3, <4>3, <4>4 DEF IsCcError
    <3>4. CASE ~sent.heard
      <4>1. tp_last_cc[pid] = InvalidCc
        BY <3>2, <3>4 DEF Trails, sent
      <4> QED
        BY <3>4, <4>1 DEF IsCcError
    <3> QED
      BY <1>2, <3>3, <3>4
  <2>3. ASSUME counted, sent.heard
        PROVE  One((missing + step) % 16 # 1) = One(gap) + One(unlost)
    <3>1. CASE af.discontinuity
      <4>1. ~gap /\ (unlost <=> (missing + step) % 16 # 1)
        BY <2>3, <3>1, Zenon DEF gap, unlost
      <4> QED
        BY <4>1 DEF One
    <3>2. CASE ~af.discontinuity
      <4>1. step \in {0, 1}
        BY <2>3, <3>2, StepFacts DEF counted
      <4>2. /\ gap <=> missing \notin (IF step = 1 THEN {0} ELSE {0, 1})
            /\ unlost <=> step = 0 /\ missing = 0
        BY <2>3, <3>2, Zenon DEF gap, unlost
      <4>3. CASE step = 1
        <5>1. (missing + step) % 16 # 1 <=> missing # 0
          BY <1>3, <4>3
        <5> QED
          BY <4>2, <4>3, <5>1 DEF One
      <4>4. CASE step = 0
        <5>1. (missing + step) % 16 # 1 <=> missing # 1
          BY <1>3, <4>4
        <5> QED
          BY <4>2, <4>4, <5>1 DEF One
      <4> QED
        BY <4>1, <4>3, <4>4
    <3> QED
      BY <3>1, <3>2
  <2>4. One(counted /\ IsCcError(pid, cc)) = One(gap) + One(unlost)
    <3>1. CASE counted /\ sent.heard
      BY <2>2, <2>3, <3>1 DEF One
    <3>2. CASE ~(counted /\ sent.heard)
      <4>1. ~gap /\ ~unlost
        BY <3>2, Zenon DEF gap, unlost
      <4>2. ~(counted /\ IsCcError(pid, cc))
        BY <2>2, <3>2, Zenon
      <4> QED
        BY <4>1, <4>2 DEF One
    <3> QED
      BY <3>1, <3>2
  <2>5. One(gap) \in Nat /\ One(unlost) \in Nat
    BY DEF One
  <2>6. tp_gaps \in Nat /\ tp_unlost \in Nat
    BY <1>1 DEF Typed
  <2> QED
    BY <1>5, <2>1, <2>4, <2>5, <2>6
<1>12. tp_pcr_discontinuities' = tp_jumps'
  <2>1. tp_pcr_discontinuities = tp_jumps
    BY DEF PacketInv, StatisticsMatchTheStream
  <2>2. tp_last_pcr[pid] = IF sent.filled THEN 0 ELSE sent.pcr
    BY DEF PacketInv, PcrsAgree, sent
  <2>3. (HasPcr(af) /\ PcrWentBack(pid, af)) <=> jump
    <3>1. CASE ~af.pcr_flag
      BY <1>4, <3>1, Zenon DEF jump
    <3>2. CASE af.pcr_flag /\ sent.filled
      BY <2>2, <3>2 DEF jump, PcrWentBack
    <3>3. CASE af.pcr_flag /\ ~sent.filled
      <4>1. tp_last_pcr[pid] = sent.pcr
        BY <2>2, <3>3
      <4>2. CASE filled
        <5>1. ParsedPcr(af) = 0 /\ HasPcr(af)
          BY <1>4, <3>3, <4>2
        <5> QED BY <1>2, <3>3, <4>1, <4>2, <5>1 DEF jump, PcrWentBack
      <4>3. CASE ~filled
        <5>1. ParsedPcr(af) = af.pcr /\ HasPcr(af)
          BY <1>4, <3>3, <4>3
        <5> QED BY <1>2, <3>3, <4>1, <4>3, <5>1 DEF jump, PcrWentBack
      <4> QED BY <4>2, <4>3
    <3> QED BY <3>1, <3>2, <3>3
  <2>4. One(HasPcr(af) /\ PcrWentBack(pid, af)) = One(jump)
    BY <2>3 DEF One
  <2> QED
    BY <1>5, <2>1, <2>4
<1> QED
  BY <1>8, <1>9, <1>10, <1>11, <1>12 DEF PacketInv, StatisticsMatchTheStream

-----------------------------------------------------------------------------

\* ts_stats_update: continuity errors are the gaps that counters modulo 16 can
\* show, the packets that come twice and the new numbers that are signalled, and PCR
\* discontinuities are the PCRs that go back, or that seem to because they fill their
\* adaptation field (ts_packet.c:57).
THEOREM StatisticsMatchTheStreamHolds == TpSpec => []StatisticsMatchTheStream
<1>1. TpInit => PacketInv
  <2> SUFFICES ASSUME TpInit PROVE PacketInv
    OBVIOUS
  <2>1. [cc |-> 14, pcr |-> 0, filled |-> FALSE, missing |-> 0, heard |-> FALSE] \in Sent
    BY DEF Sent
  <2>2. Typed
    BY <2>1 DEF TpInit, Typed
  <2>3. CountersTrail
    BY DEF TpInit, CountersTrail, Trails
  <2>4. PcrsAgree
    BY DEF TpInit, PcrsAgree
  <2>5. StatisticsMatchTheStream
    BY DEF TpInit, StatisticsMatchTheStream
  <2> QED
    BY <2>2, <2>3, <2>4, <2>5 DEF PacketInv
<1>2. PacketInv /\ [TpNext]_tpVars => PacketInv'
  <2> SUFFICES ASSUME PacketInv, [TpNext]_tpVars PROVE PacketInv'
    OBVIOUS
  <2>1. CASE UNCHANGED tpVars
    BY <2>1 DEF tpVars, tpStats, PacketInv, Typed, CountersTrail, Trails, PcrsAgree,
                StatisticsMatchTheStream
  <2>2. CASE TpNext
    BY <2>2, SyncErrorStep, StatsStep DEF TpNext
  <2> QED
    BY <2>1, <2>2
<1>3. PacketInv => StatisticsMatchTheStream
  BY DEF PacketInv
<1> QED
  BY <1>1, <1>2, <1>3, PTL DEF TpSpec

-----------------------------------------------------------------------------
(* Starting and stopping *)

\* No more handlers run than signals came.
MlInv == MlTypeOK /\ Len(ml_handlers) <= ml_signals

\* A handler that returns is taken out of the sequence of those that run.
LEMMA ReturnedIsShorter ==
  ASSUME MlInv, NEW i \in 1 .. Len(ml_handlers)
  PROVE  Returned(i) \in Seq(Handler) /\ Len(Returned(i)) = Len(ml_handlers) - 1
<1>1. ml_handlers \in Seq(Handler) /\ Len(ml_handlers) \in Nat
  BY DEF MlInv, MlTypeOK
<1> DEFINE before == SubSeq(ml_handlers, 1, i - 1)
           after == SubSeq(ml_handlers, i + 1, Len(ml_handlers))
<1>2. before \in Seq(Handler) /\ Len(before) = i - 1
  BY <1>1
<1>3. after \in Seq(Handler) /\ Len(after) = Len(ml_handlers) - i
  BY <1>1
<1>4. Returned(i) = before \o after
  BY DEF Returned
<1> HIDE DEF before, after
<1>5. before \o after \in Seq(Handler) /\ Len(before \o after) = Len(before) + Len(after)
  BY <1>2, <1>3
<1> QED BY <1>1, <1>2, <1>3, <1>4, <1>5

\* Every step of main and of the handlers keeps the types.
LEMMA MlInvStep == MlInv /\ [MlNext]_mlVars => MlInv'
<1> SUFFICES ASSUME MlInv, [MlNext]_mlVars PROVE MlInv'
  OBVIOUS
<1> USE MainLoopAssumption
<1>1. CASE UNCHANGED mlVars
  BY <1>1 DEF mlVars, MlInv, MlTypeOK
<1>2. ASSUME MlMain \/ BusMessage PROVE MlInv'
  <2>1. UNCHANGED <<ml_program, ml_handlers, ml_signals, ml_due>>
    BY <1>2 DEF MlMain, LogLock, LogUnlock, Detect, OpenRing, MakeLoop, Build, Play, RunLoop, Poll,
                Iterate, BusMessage, TellLoop, LeaveLoop, FreeLoop, MainEnds, MlUnchanged
  <2>2. ml_main' \in MainPlaces /\ ml_next' \in MainPlaces
    BY <1>2 DEF MlInv, MlTypeOK, MainPlaces, MlMain, LogLock, LogUnlock, Detect, OpenRing, MakeLoop,
                Build, Play, RunLoop, Poll, Iterate, BusMessage, TellLoop, LeaveLoop, FreeLoop,
                MainEnds, Continue
  <2>3. ml_loop' \in {"none", "made", "running", "quit", "freed"}
    BY <1>2 DEF MlInv, MlTypeOK, MlMain, LogLock, LogUnlock, Detect, OpenRing, MakeLoop, Build, Play,
                RunLoop, Poll, Iterate, BusMessage, TellLoop, LeaveLoop, FreeLoop, MainEnds
  <2>4. ml_mutex' \in Thread \cup {"free"} /\ ml_context' \in Thread \cup {"free"}
    BY <1>2 DEF MlInv, MlTypeOK, Thread, MlMain, LogLock, LogUnlock, Detect, OpenRing, MakeLoop,
                Build, Play, RunLoop, Poll, Iterate, BusMessage, TellLoop, LeaveLoop, FreeLoop, MainEnds
  <2> QED BY <2>1, <2>2, <2>3, <2>4 DEF MlInv, MlTypeOK
<1>3. ASSUME NEW i \in 1 .. Len(ml_handlers),
             HandlerLock(i) \/ HandlerUnlock(i) \/ LockContext(i)
      PROVE  MlInv'
  <2>1. PICK at \in {"unlock", "act", "quit"} : GoesTo(i, at)
    BY <1>3 DEF HandlerLock, HandlerUnlock, LockContext
  <2>2. ml_handlers \in Seq(Handler) /\ ml_handlers[i] \in Handler
    BY DEF MlInv, MlTypeOK
  <2>3. [ml_handlers[i] EXCEPT !.at = at] \in Handler
    BY <2>2 DEF Handler
  <2>4. ml_handlers' \in Seq(Handler) /\ Len(ml_handlers') = Len(ml_handlers)
    <3>1. ml_handlers' = [ml_handlers EXCEPT ![i] = [ml_handlers[i] EXCEPT !.at = at]]
      BY <2>1 DEF GoesTo
    <3> HIDE DEF Handler
    <3> QED BY <2>2, <2>3, <3>1
  <2>5. ml_mutex' \in Thread \cup {"free"} /\ ml_context' \in Thread \cup {"free"}
    BY <1>3, <2>2 DEF HandlerLock, HandlerUnlock, LockContext, Handler, MlInv, MlTypeOK
  <2>6. UNCHANGED <<ml_program, ml_main, ml_next, ml_loop, ml_signals, ml_due>>
    BY <2>1 DEF GoesTo
  <2> QED BY <2>4, <2>5, <2>6 DEF MlInv, MlTypeOK
<1>4. ASSUME NEW i \in 1 .. Len(ml_handlers), Quit(i) \/ QuitFreed(i) \/ HandlerReturns(i)
      PROVE  MlInv'
  <2>1. /\ ml_handlers' = Returned(i)
        /\ UNCHANGED <<ml_program, ml_next, ml_mutex, ml_signals, ml_due>>
    BY <1>4 DEF Quit, QuitFreed, HandlerReturns, Returns
  <2>2. /\ ml_main' \in MainPlaces /\ ml_loop' \in {"none", "made", "running", "quit", "freed"}
        /\ ml_context' \in Thread \cup {"free"}
    BY <1>4 DEF Quit, QuitFreed, HandlerReturns, MlInv, MlTypeOK, MainPlaces
  <2>3. ml_handlers' \in Seq(Handler) /\ Len(ml_handlers') = Len(ml_handlers) - 1
    BY <2>1, ReturnedIsShorter
  <2>4. Len(ml_handlers) \in Nat /\ Len(ml_handlers) <= ml_signals /\ ml_signals \in 0 .. MaxSignals
    BY DEF MlInv, MlTypeOK
  <2>5. Len(ml_handlers') <= ml_signals' /\ Len(ml_handlers') <= MaxSignals
    BY <2>1, <2>3, <2>4
  <2> QED BY <2>1, <2>2, <2>3, <2>5 DEF MlInv, MlTypeOK
<1>5. ASSUME NEW t \in Thread, NEW kind \in Kinds, Signal(t, kind) PROVE MlInv'
  <2>1. kind \in {"int", "term", "hup"}
    BY DEF Kinds
  <2> DEFINE h == [thread |-> t, kind |-> kind,
                   at |-> IF ml_program = "cari-input" THEN "lock" ELSE "act"]
  <2>2. h \in Handler
    BY <2>1 DEF Handler
  <2>3. /\ ml_handlers' = Append(ml_handlers, h) /\ ml_signals < MaxSignals
        /\ ml_signals' = ml_signals + 1
        /\ UNCHANGED <<ml_program, ml_main, ml_next, ml_loop, ml_mutex, ml_context>>
    BY <1>5 DEF Signal
  <2> HIDE DEF h
  <2>4. ml_handlers' \in Seq(Handler) /\ Len(ml_handlers') = Len(ml_handlers) + 1
    BY <2>2, <2>3 DEF MlInv, MlTypeOK
  <2>5. Len(ml_handlers) \in Nat /\ Len(ml_handlers) <= ml_signals /\ ml_signals \in 0 .. MaxSignals
    BY DEF MlInv, MlTypeOK
  <2>6. /\ Len(ml_handlers') <= ml_signals' /\ Len(ml_handlers') <= MaxSignals
        /\ ml_signals' \in 0 .. MaxSignals
    BY <2>3, <2>4, <2>5
  <2>7. ml_due' \in BOOLEAN
    BY <1>5 DEF Signal, MlInv, MlTypeOK
  <2> QED BY <2>3, <2>4, <2>6, <2>7 DEF MlInv, MlTypeOK
<1> QED
  BY <1>1, <1>2, <1>3, <1>4, <1>5 DEF MlNext, MlHandler

\* The programs start with the types and no handler.
LEMMA MlInvInit == MlInit => MlInv
<1> SUFFICES ASSUME MlInit PROVE MlInv
  OBVIOUS
<1>1. ml_handlers = <<>> /\ ml_handlers \in Seq(Handler) /\ Len(ml_handlers) = 0
  BY DEF MlInit
<1>2. 0 \in 0 .. MaxSignals /\ 0 <= MaxSignals
  BY MainLoopAssumption
<1>3. /\ ml_program \in {"cari-input", "cari-mux", "cari-transcoder"}
      /\ ml_main \in MainPlaces /\ ml_next \in MainPlaces
      /\ ml_mutex \in Thread \cup {"free"} /\ ml_context \in Thread \cup {"free"}
  BY DEF MlInit, MainPlaces
<1>4. /\ ml_loop \in {"none", "made", "running", "quit", "freed"}
      /\ ml_signals = 0 /\ ml_due \in BOOLEAN
  BY DEF MlInit
<1> QED
  BY <1>1, <1>2, <1>3, <1>4 DEF MlInv, MlTypeOK

-----------------------------------------------------------------------------
(* The management API *)

StepName == {"stop", "wait", "disable", "remove", "reload", "deleted", "write",
             "exists", "enable", "start", "restart"}
Flags == [Units -> BOOLEAN]
Jobs == [Units -> {"none", "stop", "restart"}]

ScTyped ==
  /\ sc_file \in Flags /\ sc_loaded \in Flags /\ sc_enabled \in Flags
  /\ sc_proc \in Flags /\ sc_deleted \in Flags /\ sc_job \in Jobs
  /\ sc_todo \in Seq(StepName) /\ sc_unit \in Units /\ sc_failed \in BOOLEAN
  /\ sc_requests \in 0 .. MaxRequests /\ sc_troubles \in 0 .. MaxTroubles

\* ScTyped is the type invariant, conjunct by conjunct.
LEMMA ScTypedIsType == ScTyped <=> ScTypeOK
  BY DEF ScTyped, ScTypeOK, StepName, Flags, Jobs

\* Every list of steps consists of steps.
LEMMA StepsOfRequests == ASSUME NEW steps \in Requests PROVE steps \in Seq(StepName)
<1>1. DeleteSteps \in Seq(StepName) /\ <<"exists">> \in Seq(StepName)
  BY DEF DeleteSteps, StepName
<1>2. <<"exists">> \o DeleteSteps \in Seq(StepName)
  BY <1>1
<1>3. CreateSteps \in Seq(StepName) /\ StartSteps \in Seq(StepName)
  BY DEF CreateSteps, StartSteps, StepName
<1>4. StopSteps \in Seq(StepName) /\ RestartSteps \in Seq(StepName)
  BY DEF StopSteps, RestartSteps, StepName
<1>5. <<"start">> \in Seq(StepName) /\ <<"enable">> \in Seq(StepName) /\ <<"disable">> \in Seq(StepName)
  BY DEF StepName
<1> QED
  BY <1>1, <1>2, <1>3, <1>4, <1>5, Zenon DEF Requests

\* The unit of the handler is one of the units.
LEMMA ChangedFlag ==
  ASSUME sc_unit \in Units, NEW f \in Flags, NEW value \in BOOLEAN
  PROVE  Changed(f, value) \in Flags
  BY DEF Changed, Flags
\* The same of a unit's job.
LEMMA ChangedJob ==
  ASSUME sc_unit \in Units, NEW f \in Jobs, NEW value \in {"none", "stop", "restart"}
  PROVE  Changed(f, value) \in Jobs
  BY DEF Changed, Jobs

\* What a step of a handler makes of the list of steps and of the counts.
LEMMA HandlerStep ==
  ASSUME ScTyped, ScStep
  PROVE  /\ sc_todo' \in Seq(StepName) /\ sc_unit' = sc_unit /\ sc_requests' = sc_requests
         /\ sc_failed' \in BOOLEAN /\ sc_troubles' \in 0 .. MaxTroubles
<1>1. sc_todo # <<>> => Tail(sc_todo) \in Seq(StepName)
  BY DEF ScTyped
<1>2. <<>> \in Seq(StepName)
  OBVIOUS
<1>3. /\ sc_todo # <<>> /\ sc_unit' = sc_unit /\ sc_requests' = sc_requests
      /\ sc_todo' = Tail(sc_todo) \/ sc_todo' = <<>>
  BY Zenon DEF ScStep, WriteFile, RemoveFile, ReplyDeleted, CheckExists, Reload, Enable, Disable,
         Start, Stop, Restart, Wait, SystemctlFails, Step, StepDone, scCounts
<1>4. \/ sc_troubles' = sc_troubles
      \/ sc_troubles < MaxTroubles /\ sc_troubles' = sc_troubles + 1
  BY DEF ScStep, WriteFile, RemoveFile, ReplyDeleted, CheckExists, Reload, Enable, Disable,
         Start, Stop, Restart, Wait, SystemctlFails, StepDone, scCounts
<1>5. sc_failed' = sc_failed \/ sc_failed' = TRUE
  BY DEF ScStep, WriteFile, RemoveFile, ReplyDeleted, CheckExists, Reload, Enable, Disable,
         Start, Stop, Restart, Wait, SystemctlFails, StepDone
<1>6. sc_troubles' \in 0 .. MaxTroubles
  BY <1>4, ServiceControlAssumption DEF ScTyped
<1>7. sc_failed' \in BOOLEAN
  BY <1>5 DEF ScTyped
<1> QED BY <1>1, <1>2, <1>3, <1>6, <1>7

\* A step of a handler leaves files and units with their types.
LEMMA FilesAndUnits ==
  ASSUME ScTyped, ScStep
  PROVE  /\ sc_file' \in Flags /\ sc_loaded' \in Flags /\ sc_enabled' \in Flags
         /\ sc_proc' \in Flags /\ sc_deleted' \in Flags /\ sc_job' \in Jobs
<1> DEFINE file == sc_file[sc_unit]
           loaded == sc_loaded[sc_unit]
           enabled == sc_enabled[sc_unit]
           proc == sc_proc[sc_unit]
<1>1. /\ TRUE \in BOOLEAN /\ FALSE \in BOOLEAN /\ (~sc_failed) \in BOOLEAN
      /\ (enabled \/ file) \in BOOLEAN /\ (loaded \/ file) \in BOOLEAN
      /\ (proc \/ (loaded \/ file)) \in BOOLEAN
  BY Zenon
<1>2. (IF proc THEN "stop" ELSE "none") \in {"none", "stop", "restart"}
      /\ "none" \in {"none", "stop", "restart"} /\ "restart" \in {"none", "stop", "restart"}
  OBVIOUS
<1>3. [u \in Units |-> sc_file[u]] \in Flags
  BY DEF ScTyped, Flags
<1>4. sc_unit \in Units
  BY DEF ScTyped
<1> HIDE DEF file, loaded, enabled, proc
<1>5. sc_file' \in Flags
  <2>1. sc_file' = sc_file \/ \E v \in BOOLEAN : sc_file' = Changed(sc_file, v)
    BY <1>1 DEF ScStep, WriteFile, RemoveFile, ReplyDeleted, CheckExists, Reload, Enable, Disable,
                Start, Stop, Restart, Wait, SystemctlFails
  <2> QED BY <2>1, <1>4, ChangedFlag DEF ScTyped
<1>6. sc_deleted' \in Flags
  <2>1. sc_deleted' = sc_deleted \/ \E v \in BOOLEAN : sc_deleted' = Changed(sc_deleted, v)
    BY <1>1 DEF ScStep, WriteFile, RemoveFile, ReplyDeleted, CheckExists, Reload, Enable, Disable,
                Start, Stop, Restart, Wait, SystemctlFails
  <2> QED BY <2>1, <1>4, ChangedFlag DEF ScTyped
<1>7. sc_enabled' \in Flags
  <2>1. sc_enabled' = sc_enabled \/ \E v \in BOOLEAN : sc_enabled' = Changed(sc_enabled, v)
    BY <1>1 DEF ScStep, WriteFile, RemoveFile, ReplyDeleted, CheckExists, Reload, Enable, Disable,
                Start, Stop, Restart, Wait, SystemctlFails, scSystemd, enabled, file
  <2> QED BY <2>1, <1>4, ChangedFlag DEF ScTyped
<1>8. sc_proc' \in Flags
  <2>1. sc_proc' = sc_proc \/ \E v \in BOOLEAN : sc_proc' = Changed(sc_proc, v)
    BY <1>1 DEF ScStep, WriteFile, RemoveFile, ReplyDeleted, CheckExists, Reload, Enable, Disable,
                Start, Stop, Restart, Wait, SystemctlFails, scSystemd, proc, loaded, file
  <2> QED BY <2>1, <1>4, ChangedFlag DEF ScTyped
<1>9. sc_loaded' \in Flags
  <2>1. \/ sc_loaded' = sc_loaded \/ sc_loaded' = [u \in Units |-> sc_file[u]]
        \/ \E v \in BOOLEAN : sc_loaded' = Changed(sc_loaded, v)
    BY <1>1 DEF ScStep, WriteFile, RemoveFile, ReplyDeleted, CheckExists, Reload, Enable, Disable,
                Start, Stop, Restart, Wait, SystemctlFails, scSystemd, loaded, file
  <2> QED BY <2>1, <1>3, <1>4, ChangedFlag DEF ScTyped
<1>10. sc_job' \in Jobs
  <2>1. sc_job' = sc_job \/ \E v \in {"none", "stop", "restart"} : sc_job' = Changed(sc_job, v)
    BY <1>2 DEF ScStep, WriteFile, RemoveFile, ReplyDeleted, CheckExists, Reload, Enable, Disable,
                Start, Stop, Restart, Wait, SystemctlFails, scSystemd, proc
  <2> QED BY <2>1, <1>4, ChangedJob DEF ScTyped
<1> QED BY <1>5, <1>6, <1>7, <1>8, <1>9, <1>10

\* Every step of the handlers and of systemd keeps the types.
LEMMA ScTypeStep == ScTyped /\ [ScNext]_scVars => ScTyped'
<1> SUFFICES ASSUME ScTyped, [ScNext]_scVars PROVE ScTyped'
  OBVIOUS
<1> USE ServiceControlAssumption
<1>1. CASE UNCHANGED scVars
  BY <1>1 DEF scVars, scSystemd, scHandler, scCounts, ScTyped
<1>2. ASSUME NEW u \in Units, NEW steps \in Requests, Request(u, steps) PROVE ScTyped'
  <2>1. sc_todo' \in Seq(StepName) /\ sc_unit' \in Units /\ sc_failed' \in BOOLEAN
    BY <1>2, StepsOfRequests DEF Request
  <2>2. sc_requests' \in 0 .. MaxRequests
    BY <1>2 DEF Request, ScTyped
  <2> QED BY <1>2, <2>1, <2>2 DEF Request, scSystemd, ScTyped
<1>3. CASE ScStep
  <2>1. sc_unit \in Units /\ sc_requests \in 0 .. MaxRequests
    BY DEF ScTyped
  <2> QED BY <1>3, <2>1, HandlerStep, FilesAndUnits DEF ScTyped
<1>4. ASSUME Trouble PROVE sc_troubles' \in 0 .. MaxTroubles
  BY <1>4 DEF Trouble, ScTyped
<1>5. CASE ApiKilled
  <2>1. sc_todo' \in Seq(StepName)
    BY <1>5 DEF ApiKilled
  <2> QED BY <1>4, <1>5, <2>1 DEF ApiKilled, scSystemd, ScTyped
<1>6. CASE Reboot
  <2>1. sc_todo' \in Seq(StepName)
    BY <1>6 DEF Reboot
  <2>2. sc_loaded' \in Flags
    BY <1>6 DEF Reboot, ScTyped
  <2>3. sc_proc' \in Flags
    <3>1. \A u \in Units : (sc_enabled[u] /\ sc_file[u]) \in BOOLEAN
      BY Zenon
    <3> DEFINE p(u) == sc_enabled[u] /\ sc_file[u]
    <3>2. sc_proc' = [u \in Units |-> p(u)] /\ \A u \in Units : p(u) \in BOOLEAN
      BY <1>6, <3>1 DEF Reboot
    <3> HIDE DEF p
    <3> QED BY <3>2 DEF Flags
  <2>4. sc_job' \in Jobs
    BY <1>6 DEF Reboot, Jobs
  <2> QED BY <1>4, <1>6, <2>1, <2>2, <2>3, <2>4 DEF Reboot, ScTyped
<1>7. ASSUME NEW u \in Units, JobEnds(u) PROVE ScTyped'
  <2>1. (sc_job[u] = "restart" /\ sc_loaded[u]) \in BOOLEAN
    BY Zenon
  <2>2. PICK v \in BOOLEAN : sc_proc' = [sc_proc EXCEPT ![u] = v]
    BY <1>7, <2>1 DEF JobEnds
  <2>3. sc_proc' \in Flags
    BY <2>2 DEF ScTyped, Flags
  <2>4. sc_job' \in Jobs
    BY <1>7 DEF JobEnds, ScTyped, Jobs
  <2> QED BY <1>7, <2>3, <2>4 DEF JobEnds, scHandler, scCounts, ScTyped
<1>8. ASSUME NEW u \in Units, UnitCrashes(u) PROVE ScTyped'
  <2>1. sc_proc' \in Flags
    BY <1>8 DEF UnitCrashes, ScTyped, Flags
  <2> QED BY <1>4, <1>8, <2>1 DEF UnitCrashes, scHandler, ScTyped
<1> QED
  BY <1>1, <1>2, <1>3, <1>5, <1>6, <1>7, <1>8 DEF ScNext

\* The API starts with no unit and nothing to do.
LEMMA ScTypeInit == ScInit => ScTyped
<1> SUFFICES ASSUME ScInit PROVE ScTyped
  OBVIOUS
<1>1. [u \in Units |-> FALSE] \in Flags /\ [u \in Units |-> "none"] \in Jobs
  BY DEF Flags, Jobs
<1>2. <<>> \in Seq(StepName)
  OBVIOUS
<1>3. 0 \in 0 .. MaxRequests /\ 0 \in 0 .. MaxTroubles
  BY ServiceControlAssumption
<1> QED
  BY <1>1, <1>2, <1>3 DEF ScInit, ScTyped

-----------------------------------------------------------------------------
(* The types of a transport stream's statistics *)

\* What each PID last sent, with the PCRs that there are.
SentPcr == [cc : 0 .. 15, pcr : Pcrs \cup {0}, filled : BOOLEAN, missing : 0 .. 15,
            heard : BOOLEAN]

\* No count is above the number of packets.
TpTyped ==
  /\ tp_last_cc \in [TsPids -> 0 .. 15 \cup {InvalidCc}]
  /\ tp_last_pcr \in [TsPids -> Pcrs \cup {0}]
  /\ tp_sent \in [TsPids -> SentPcr]
  /\ tp_packets \in 0 .. MaxTsPackets
  /\ tp_cc_errors \in 0 .. tp_packets /\ tp_pcr_discontinuities \in 0 .. tp_packets
  /\ tp_sync_errors \in 0 .. tp_packets /\ tp_gaps \in 0 .. tp_packets
  /\ tp_unlost \in 0 .. tp_packets /\ tp_jumps \in 0 .. tp_packets

\* TpTyped has the types that TpTypeOK has.
LEMMA TpTypedIsType == TpTyped => TpTypeOK
<1> SUFFICES ASSUME TpTyped PROVE TpTypeOK
  OBVIOUS
<1>1. tp_packets \in 0 .. MaxTsPackets /\ MaxTsPackets \in Nat
  BY TsPacketAssumption DEF TpTyped
<1>2. \A n : n \in 0 .. tp_packets => n \in 0 .. MaxTsPackets
  BY <1>1
<1>3. \A n \in {tp_cc_errors, tp_pcr_discontinuities, tp_sync_errors, tp_gaps, tp_unlost, tp_jumps,
                 tp_packets} : n \in 0 .. MaxTsPackets
  BY <1>1, <1>2 DEF TpTyped
<1> QED BY <1>3 DEF TpTyped, TpTypeOK, SentPcr, Modulus

\* What one packet adds to a count is at most one.
LEMMA CountStays ==
  ASSUME NEW packets \in Nat, NEW n \in 0 .. packets, NEW condition
  PROVE  n + One(condition) \in 0 .. packets + 1 /\ n \in 0 .. packets + 1
<1>1. One(condition) \in {0, 1}
  BY DEF One
<1> QED BY <1>1

\* The parser makes a PCR that there is, or 0, of an adaptation field.
LEMMA FieldTypes ==
  ASSUME NEW af \in AdaptationField
  PROVE  af.pcr \in Pcrs \cup {0} /\ ParsedPcr(af) \in Pcrs \cup {0}
<1>1. af.pcr \in Pcrs \cup {0}
  <2>1. CASE af \in {[length |-> n, discontinuity |-> n = 1, pcr_flag |-> FALSE, pcr |-> 0] : n \in {0, 1}}
    <3>1. PICK n \in {0, 1} :
            af = [length |-> n, discontinuity |-> n = 1, pcr_flag |-> FALSE, pcr |-> 0]
      BY <2>1
    <3> QED BY <3>1
  <2>2. CASE af \in {[length |-> n, discontinuity |-> d, pcr_flag |-> TRUE, pcr |-> v] :
                      n \in AfLengths, d \in BOOLEAN, v \in Pcrs}
    <3>1. PICK n \in AfLengths, d \in BOOLEAN, v \in Pcrs :
            af = [length |-> n, discontinuity |-> d, pcr_flag |-> TRUE, pcr |-> v]
      BY <2>2
    <3> QED BY <3>1
  <2> QED BY <2>1, <2>2 DEF AdaptationField
<1> QED BY <1>1, Zenon DEF ParsedPcr

\* A packet without its sync byte keeps the types.
LEMMA TpSyncStep == ASSUME TpTyped, NEW pid \in TsPids, SyncError(pid) PROVE TpTyped'
<1>1. /\ tp_packets \in Nat /\ tp_packets + 1 \in 0 .. MaxTsPackets /\ tp_packets' = tp_packets + 1
      /\ tp_sync_errors' = tp_sync_errors + 1
      /\ UNCHANGED <<tp_last_cc, tp_last_pcr, tp_cc_errors, tp_pcr_discontinuities, tp_gaps,
                     tp_unlost, tp_jumps>>
  BY TsPacketAssumption DEF TpTyped, SyncError, tpStats
<1> DEFINE sent == tp_sent[pid]
           new == [cc |-> (sent.cc + 1) % 16, pcr |-> sent.pcr, filled |-> sent.filled,
                   missing |-> (sent.missing + 1) % 16, heard |-> sent.heard]
<1>2. sent \in SentPcr
  BY DEF TpTyped
<1>3. new \in SentPcr
  <2>1. sent.cc + 1 \in Nat /\ sent.missing + 1 \in Nat
    BY <1>2 DEF SentPcr
  <2>2. (sent.cc + 1) % 16 \in 0 .. 15 /\ (sent.missing + 1) % 16 \in 0 .. 15
    BY <2>1, ModBelow
  <2> QED BY <1>2, <2>2 DEF SentPcr
<1>4. tp_sent' = [tp_sent EXCEPT ![pid] = new]
  BY DEF SyncError, Modulus
<1> HIDE DEF new
<1>5. tp_sent' \in [TsPids -> SentPcr]
  BY <1>3, <1>4 DEF TpTyped
<1>6. tp_sync_errors + 1 \in 0 .. tp_packets + 1
  BY <1>1 DEF TpTyped
<1>7. \A n : n \in 0 .. tp_packets => n \in 0 .. tp_packets + 1
  BY <1>1
<1> QED BY <1>1, <1>5, <1>6, <1>7 DEF TpTyped

\* A packet that is counted keeps the types.
LEMMA TpStatsStep ==
  ASSUME TpTyped, NEW pid \in TsPids, NEW payload \in BOOLEAN, NEW lost \in LossRuns,
         NEW af \in AdaptationField, NEW step \in NextNumbers(payload, af),
         StatsUpdate(pid, payload, lost, step, af)
  PROVE  TpTyped'
<1> DEFINE sent == tp_sent[pid]
           cc == (sent.cc + lost + step) % 16
           missing == (sent.missing + lost) % 16
           counted == payload /\ pid # "null"
           filled == af.length = 7
           new == [cc |-> cc, pcr |-> IF af.pcr_flag THEN af.pcr ELSE sent.pcr,
                   filled |-> IF af.pcr_flag THEN filled ELSE sent.filled,
                   missing |-> IF payload THEN 0 ELSE missing, heard |-> sent.heard \/ payload]
<1>1. /\ tp_packets < MaxTsPackets /\ tp_packets' = tp_packets + 1
      /\ tp_cc_errors' = tp_cc_errors + One(counted /\ IsCcError(pid, cc))
      /\ tp_last_cc' = [tp_last_cc EXCEPT ![pid] = IF counted THEN cc ELSE @]
      /\ tp_pcr_discontinuities' = tp_pcr_discontinuities + One(HasPcr(af) /\ PcrWentBack(pid, af))
      /\ tp_last_pcr' = [tp_last_pcr EXCEPT ![pid] = IF HasPcr(af) THEN ParsedPcr(af) ELSE @]
      /\ tp_sent' = [tp_sent EXCEPT ![pid] = new]
      /\ tp_gaps' = tp_gaps + One(counted /\ sent.heard /\ ~af.discontinuity
                                 /\ missing \notin (IF step = 1 THEN {0} ELSE {0, 1}))
      /\ tp_unlost' = tp_unlost + One(counted /\ sent.heard
                                     /\ IF af.discontinuity THEN (missing + step) % 16 # 1
                                                            ELSE step = 0 /\ missing = 0)
      /\ tp_jumps' = tp_jumps + One(af.pcr_flag /\ ~sent.filled /\ sent.pcr # 0
                                   /\ (filled \/ af.pcr < sent.pcr))
      /\ tp_sync_errors' = tp_sync_errors
  BY DEF StatsUpdate, Modulus
<1>2. /\ sent.cc \in 0 .. 15 /\ sent.missing \in 0 .. 15 /\ sent.pcr \in Pcrs \cup {0}
      /\ sent.heard \in BOOLEAN /\ sent.filled \in BOOLEAN
  BY DEF TpTyped, SentPcr
<1>3. cc \in 0 .. 15 /\ missing \in 0 .. 15
  <2>1. lost \in Nat /\ step \in Nat
    BY TsPacketAssumption, StepFacts
  <2>2. sent.cc + lost + step \in Nat /\ sent.missing + lost \in Nat
    BY <1>2, <2>1
  <2> QED BY <2>2, ModBelow
<1>4. new \in SentPcr
  <2> HIDE DEF cc, missing, sent, filled
  <2>1. (sent.heard \/ payload) \in BOOLEAN /\ (IF af.pcr_flag THEN filled ELSE sent.filled) \in BOOLEAN
    BY <1>2, Zenon DEF filled
  <2>2. (IF payload THEN 0 ELSE missing) \in 0 .. 15
    BY <1>3
  <2>3. (IF af.pcr_flag THEN af.pcr ELSE sent.pcr) \in Pcrs \cup {0}
    BY <1>2, FieldTypes, Zenon
  <2> QED BY <1>3, <2>1, <2>2, <2>3, Zenon DEF SentPcr
<1> HIDE DEF sent, cc, missing, counted, new, filled
<1>5. tp_last_cc' \in [TsPids -> 0 .. 15 \cup {InvalidCc}]
  BY <1>1, <1>3 DEF TpTyped
<1>6. tp_last_pcr' \in [TsPids -> Pcrs \cup {0}]
  <2>1. (IF HasPcr(af) THEN ParsedPcr(af) ELSE tp_last_pcr[pid]) \in Pcrs \cup {0}
    BY FieldTypes DEF TpTyped
  <2> QED BY <1>1, <2>1 DEF TpTyped
<1>7. tp_sent' \in [TsPids -> SentPcr]
  BY <1>1, <1>4 DEF TpTyped
<1>8. tp_unlost' \in 0 .. tp_packets + 1
  <2>1. tp_packets \in Nat
    BY DEF TpTyped
  <2> QED BY <1>1, <2>1, CountStays DEF TpTyped
<1>9. tp_packets \in Nat /\ tp_packets' \in 0 .. MaxTsPackets
  BY <1>1, TsPacketAssumption DEF TpTyped
<1>10. tp_cc_errors' \in 0 .. tp_packets + 1 /\ tp_gaps' \in 0 .. tp_packets + 1
  BY <1>1, <1>9, CountStays DEF TpTyped
<1>11. tp_pcr_discontinuities' \in 0 .. tp_packets + 1 /\ tp_jumps' \in 0 .. tp_packets + 1
  BY <1>1, <1>9, CountStays DEF TpTyped
<1>12. tp_sync_errors' \in 0 .. tp_packets + 1
  BY <1>1, <1>9, CountStays DEF TpTyped
<1> QED
  BY <1>1, <1>5, <1>6, <1>7, <1>8, <1>9, <1>10, <1>11, <1>12 DEF TpTyped

\* Every packet keeps the types.
LEMMA TpTypeStep == TpTyped /\ [TpNext]_tpVars => TpTyped'
<1> SUFFICES ASSUME TpTyped, [TpNext]_tpVars PROVE TpTyped'
  OBVIOUS
<1>1. CASE UNCHANGED tpVars
  BY <1>1 DEF tpVars, tpStats, TpTyped
<1> QED BY <1>1, TpSyncStep, TpStatsStep DEF TpNext

\* The statistics start with the types.
LEMMA TpTypeInit == TpInit => TpTyped
<1> SUFFICES ASSUME TpInit PROVE TpTyped
  OBVIOUS
<1>1. [cc |-> 14, pcr |-> 0, filled |-> FALSE, missing |-> 0, heard |-> FALSE] \in SentPcr
  BY DEF SentPcr
<1>2. 0 \in 0 .. 0 /\ 0 \in 0 .. MaxTsPackets
  BY TsPacketAssumption
<1> QED BY <1>1, <1>2 DEF TpInit, TpTyped

-----------------------------------------------------------------------------
(* All of them *)

\* A behaviour of one of the programs is a behaviour of each: the others stand still.
LEMMA AnyIsEach ==
  AnySpec => /\ Init /\ [][Next]_vars /\ SegInit /\ [][SegNext]_segVars
             /\ MlInit /\ [][MlNext]_mlVars /\ MuxInit /\ [][MuxNext]_mxVars
             /\ AsInit /\ [][AsNext]_asVars /\ ScInit /\ [][ScNext]_scVars
             /\ TpInit /\ [][TpNext]_tpVars
<1>1. AnyInit => Init /\ SegInit /\ MlInit /\ MuxInit /\ AsInit /\ ScInit /\ TpInit
  BY DEF AnyInit
<1>2. [AnyNext]_<<program, vars, segVars, mlVars, mxVars, asVars, scVars, tpVars>>
        => /\ [Next]_vars /\ [SegNext]_segVars /\ [MlNext]_mlVars /\ [MuxNext]_mxVars
           /\ [AsNext]_asVars /\ [ScNext]_scVars /\ [TpNext]_tpVars
  BY DEF AnyNext, Still
<1> QED
  BY <1>1, <1>2, PTL DEF AnySpec

\* Every variable of the programs that stand alone keeps its type, for every number of
\* connections, services, sources, units and PIDs, every size and every bound.
THEOREM ServicesTypeCorrect == AnySpec => []ServicesTypeOK
<1>1. HttpTypeInv /\ SegInv /\ MlInv /\ MuxTypeOK /\ AsInv /\ ScTyped /\ TpTyped => ServicesTypeOK
  BY ScTypedIsType, TpTypedIsType DEF ServicesTypeOK, HttpTypeInv, SegInv, MlInv, AsInv
<1> QED
  BY <1>1, AnyIsEach, HttpTypeInit, TypeStep, SegInvInit, SegInvStep, MlInvInit, MlInvStep,
     MuxTypeInit, MuxTypeStep, AsInvInit, AsInvStep, ScTypeInit, ScTypeStep, TpTypeInit, TpTypeStep, PTL
=============================================================================
