--------------------------- MODULE RingFifoProofs ---------------------------
(***************************************************************************)
(* RingBuffer implements PacketFifo, for every capacity and every number   *)
(* of packets, kills and flushes, if no policy in use overwrites.  The     *)
(* argument: the held packets are the tail of what was published           *)
(* (HeldIsTail), so a step of the ring is seen in the lengths of the three *)
(* sequences: publishing is Put, advancing is Get, flushing is Discard,    *)
(* and nothing else is seen at all.  The second half says what is left of  *)
(* this when the ring overwrites.                                          *)
(***************************************************************************)
EXTENDS RingBufferProofs

\* The number of packets held.
HeldCount == Available(write_idx, read_idx)

\* The slot of the k-th held packet was filled HeldCount + 1 - k publications ago.
LEMMA HeldPosition ==
  ASSUME write_idx \in Slot, read_idx \in Slot, NEW k \in 1 .. HeldCount
  PROVE  /\ (read_idx + k - 1) % Capacity \in Slot
         /\ Age(write_idx, (read_idx + k - 1) % Capacity) = HeldCount + 1 - k
<1> DEFINE p == read_idx + k - 1
<1>1. Capacity \in Nat \ {0}
  BY RingBufferAssumption
<1>2. p \in 0 .. 2 * Capacity - 2 /\ k \in 1 .. Capacity - 1
  BY <1>1 DEF HeldCount, Available, Slot
<1>3. CASE p < Capacity
  <2>1. p % Capacity = p
    BY <1>1, <1>2, <1>3
  <2> QED
    BY <1>1, <1>2, <1>3, <2>1 DEF HeldCount, Available, Age, Slot
<1>4. CASE p >= Capacity
  <2> DEFINE r == p - Capacity
  <2>1. r \in 0 .. Capacity - 1 /\ p = 1 * Capacity + r
    BY <1>1, <1>2, <1>4
  <2>2. p % Capacity = r
    <3> HIDE DEF r, p
    <3> QED BY <1>1, <2>1
  <2> QED
    BY <1>1, <1>2, <1>4, <2>1, <2>2 DEF HeldCount, Available, Age, Slot
<1> QED
  BY <1>1, <1>2, <1>3, <1>4

\* The held packets are the newest of the published ones.
LEMMA HeldIsTail ==
  ASSUME SafeInv
  PROVE  /\ HeldCount \in 0 .. Len(published)
         /\ Held = [k \in 1 .. HeldCount |-> published[Len(published) - HeldCount + k]]
         /\ Held \in Seq(Packet) /\ Len(Held) = HeldCount
<1>t. /\ write_idx \in Slot /\ read_idx \in Slot /\ published \in Seq(Packet)
      /\ delivered \in Seq(Packet) /\ discarded \in Nat
  BY DEF SafeInv, TypeInv, TypeOK
<1>1. HeldCount \in Nat
  BY <1>t, AvailableFacts DEF HeldCount
<1>2. HeldCount \in 0 .. Len(published)
  BY <1>1, <1>t DEF SafeInv, CountInv, HeldCount
<1>3. ASSUME NEW k \in 1 .. HeldCount
      PROVE  packets[(read_idx + k - 1) % Capacity] = published[Len(published) - HeldCount + k]
  <2> DEFINE p == (read_idx + k - 1) % Capacity
  <2>1. p \in Slot /\ Age(write_idx, p) = HeldCount + 1 - k
    BY <1>t, HeldPosition
  <2>2. packets[p] = published[Len(published) + 1 - Age(write_idx, p)]
    <3>1. Age(write_idx, p) <= Available(write_idx, read_idx)
      BY <1>1, <2>1 DEF HeldCount
    <3> QED BY <2>1, <3>1 DEF SafeInv, SlotsInv
  <2>3. Len(published) + 1 - (HeldCount + 1 - k) = Len(published) - HeldCount + k
    BY <1>1, <1>t
  <2> QED
    BY <2>1, <2>2, <2>3
<1>4. Held = [k \in 1 .. HeldCount |-> published[Len(published) - HeldCount + k]]
  BY <1>3 DEF Held, HeldCount
<1>5. \A k \in 1 .. HeldCount : published[Len(published) - HeldCount + k] \in Packet
  BY <1>1, <1>2, <1>t
<1> QED
  BY <1>1, <1>2, <1>4, <1>5

HeldTail == Held = [k \in 1 .. HeldCount |-> published[Len(published) - HeldCount + k]]

\* The same after a step.
LEMMA HeldIsTailNext ==
  SafeInv' => Held' = [k \in 1 .. HeldCount' |-> published'[Len(published') - HeldCount' + k]]
<1>1. SafeInv => HeldTail
  BY HeldIsTail DEF HeldTail
<1>2. SafeInv' => HeldTail'
  BY <1>1, PTL
<1> QED
  BY <1>2 DEF HeldTail

-----------------------------------------------------------------------------
\* The packet being written is newer than every published one.
NewestInv ==
  /\ \A i \in DOMAIN published : published[i] <= offered
  /\ Writing =>
       \A i \in DOMAIN published : published[i] < offered

\* The packet being written is newer than every published one.
LEMMA NewestStep == TypeInv /\ NewestInv /\ [Next]_vars => NewestInv'
<1> SUFFICES ASSUME TypeInv, NewestInv, [Next]_vars PROVE NewestInv'
  OBVIOUS
<1>t. published \in Seq(Packet) /\ offered \in Nat /\ \A i \in DOMAIN published : published[i] \in Nat
  BY RingBufferAssumption DEF TypeInv, TypeOK, Packet
<1>1. CASE WriteCall
  BY <1>1, <1>t DEF WriteCall, history, NewestInv
<1>2. CASE WritePublish
  <2>1. \A i \in DOMAIN published' : published'[i] \in {offered} \cup {published[j] : j \in DOMAIN published}
    BY <1>2, <1>t DEF WritePublish
  <2> QED
    BY <1>2, <1>t, <2>1 DEF Writing, WritePublish, NewestInv
<1>3. ASSUME UNCHANGED <<offered, published>>,
             Writing' => Writing
      PROVE  NewestInv'
  BY <1>3 DEF NewestInv
<1>4. CASE DropOldest \/ DropCount \/ DropFlag \/ DropNewest \/ SpinAgain \/ SpinTimeout \/ WriteCopyBegin \/ WriteCopyEnd \/ WriteCount
  BY <1>3, <1>4 DEF Writing, DropOldest, DropCount, DropFlag, DropNewest, SpinAgain, SpinTimeout, WriteCopyBegin, WriteCopyEnd,
     WriteCount, history
<1>5. CASE Read \/ Flush
  BY <1>3, <1>5 DEF Writing, Read, Flush, ReadLoadWrite, ReadFindsNone, ReadEmpty, ReadFlag, ReadLoadRead, ReadCopyBegin, ReadCopyEnd,
     ReadAdvance, ReadCount, ReadClear, FlushLoad, FlushStore, writer, history
<1>6. CASE WriterCrash \/ ReaderCrash \/ WriterAttach \/ ReaderAttach \/ UNCHANGED vars
  BY <1>3, <1>6 DEF Writing, WriterCrash, ReaderCrash, WriterAttach, ReaderAttach, vars, writer, history
<1> QED
  BY <1>1, <1>2, <1>4, <1>5, <1>6 DEF Next, Write

-----------------------------------------------------------------------------
\* A step that leaves the published packets and the number held is not seen.
LEMMA StutterSeen ==
  ASSUME SafeInv, SafeInv', UNCHANGED <<published, delivered>>, HeldCount' = HeldCount
  PROVE  UNCHANGED Fifo!vars
<1>1. Held' = Held
  BY HeldIsTail, HeldIsTailNext
<1> QED
  BY <1>1 DEF Fifo!vars

\* Publishing a packet appends it to the held ones.
LEMMA PublishIsPut ==
  ASSUME SafeInv, SafeInv', NewestInv, WritePublish
  PROVE  Fifo!Put(offered)
<1>t. /\ write_idx \in Slot /\ read_idx \in Slot /\ published \in Seq(Packet)
      /\ offered \in Packet
  BY DEF SafeInv, TypeInv, TypeOK, WritePublish
<1>1. /\ published' = Append(published, offered) /\ UNCHANGED delivered
      /\ HeldCount < Capacity - 1 /\ HeldCount' = HeldCount + 1
  BY <1>t, AvailableMoves DEF SafeInv, RoomInv, WritePublish, HeldCount
<1>2. /\ HeldCount \in Nat /\ Len(Held) = HeldCount /\ Held \in Seq(Packet)
      /\ Held = [k \in 1 .. HeldCount |-> published[Len(published) - HeldCount + k]]
      /\ HeldCount <= Len(published)
  BY HeldIsTail
<1>3. Held' = [k \in 1 .. HeldCount + 1 |-> published'[(Len(published) + 1) - (HeldCount + 1) + k]]
  <2> DEFINE tail(l, h) == [k \in 1 .. h |-> published'[l - h + k]]
  <2>1. Held' = tail(Len(published'), HeldCount')
    BY HeldIsTailNext
  <2>2. Len(published') = Len(published) + 1 /\ HeldCount' = HeldCount + 1
    BY <1>1, <1>t DEF HeldCount
  <2>3. Held' = tail(Len(published) + 1, HeldCount + 1)
    <3> HIDE DEF tail
    <3> QED BY <2>1, <2>2, Zenon
  <2> QED BY <2>3
<1>4. Held' = Append(Held, offered)
  <2>1. ASSUME NEW k \in 1 .. HeldCount + 1
        PROVE  published'[(Len(published) + 1) - (HeldCount + 1) + k] = Append(Held, offered)[k]
    <3>1. (Len(published) + 1) - (HeldCount + 1) + k = Len(published) - HeldCount + k
      BY <1>2, <1>t
    <3>2. CASE k = HeldCount + 1
      BY <1>1, <1>2, <1>t, <3>2
    <3>3. CASE k \in 1 .. HeldCount
      <4>1. Len(published) - HeldCount + k \in 1 .. Len(published)
        BY <1>2, <1>t, <3>3
      <4>2. published'[Len(published) - HeldCount + k] = published[Len(published) - HeldCount + k]
        BY <1>1, <1>t, <4>1
      <4> QED
        BY <1>2, <3>1, <3>3, <4>2, <1>t
    <3> QED BY <1>2, <3>2, <3>3
  <2>2. Append(Held, offered) = [k \in 1 .. HeldCount + 1 |-> Append(Held, offered)[k]]
    BY <1>2, <1>t
  <2> QED BY <1>3, <2>1, <2>2
<1>5. \A i \in DOMAIN published : published[i] < offered
  BY DEF Writing, NewestInv, WritePublish
<1> QED
  BY <1>1, <1>2, <1>4, <1>5 DEF Fifo!Put

\* Moving the read index takes the oldest held packet.
LEMMA AdvanceIsGet ==
  ASSUME SafeInv, SafeInv', ReadAdvance
  PROVE  Fifo!Get
<1>t. /\ write_idx \in Slot /\ read_idx \in Slot /\ published \in Seq(Packet)
  BY DEF SafeInv, TypeInv, TypeOK
<1>1. /\ r_read = read_idx /\ read_idx # write_idx /\ r_copy = packets[read_idx]
      /\ delivered' = Append(delivered, r_copy) /\ UNCHANGED published
      /\ HeldCount' = HeldCount - 1
  BY <1>t, AvailableMoves DEF SafeInv, ReaderInv, ReadAdvance, HeldCount
<1>2. /\ HeldCount \in Nat \ {0} /\ Len(Held) = HeldCount /\ Held \in Seq(Packet)
      /\ Held = [k \in 1 .. HeldCount |-> published[Len(published) - HeldCount + k]]
      /\ HeldCount <= Len(published)
  BY <1>1, <1>t, HeldIsTail, AvailableFacts DEF HeldCount
<1>3. Held # <<>> /\ Head(Held) = r_copy
  <2>1. (read_idx + 1 - 1) % Capacity = read_idx
    BY <1>t, RingBufferAssumption DEF Slot
  <2>2. Held[1] = packets[read_idx]
    BY <1>2, <2>1 DEF Held, HeldCount
  <2>3. Held # <<>> /\ Head(Held) = Held[1]
    BY <1>2
  <2> QED BY <1>1, <2>2, <2>3
<1>4. Held' = Tail(Held)
  <2>1. Held' = [k \in 1 .. HeldCount - 1 |-> published[Len(published) - (HeldCount - 1) + k]]
    <3>1. Held' = [k \in 1 .. HeldCount' |-> published'[Len(published') - HeldCount' + k]]
      BY HeldIsTailNext
    <3> QED BY <3>1, <1>1 DEF HeldCount
  <2>2. Tail(Held) = [k \in 1 .. HeldCount - 1 |-> Held[k + 1]]
    BY <1>2
  <2>3. \A k \in 1 .. HeldCount - 1 :
          Held[k + 1] = published[Len(published) - (HeldCount - 1) + k]
    <3> TAKE k \in 1 .. HeldCount - 1
    <3>1. k + 1 \in 1 .. HeldCount /\ Len(published) - HeldCount + (k + 1) = Len(published) - (HeldCount - 1) + k
      BY <1>2, <1>t
    <3> QED BY <1>2, <3>1
  <2> QED BY <2>1, <2>2, <2>3
<1> QED
  BY <1>1, <1>3, <1>4 DEF Fifo!Get

\* Storing the read index of a flush discards what was held when the flush loaded the write index.
LEMMA FlushIsDiscard ==
  ASSUME SafeInv, SafeInv', FlushStore
  PROVE  [\E n \in 1 .. Len(Held) : Fifo!Discard(n)]_Fifo!vars
<1>t. /\ write_idx \in Slot /\ read_idx \in Slot /\ r_write \in Slot /\ published \in Seq(Packet)
  BY DEF SafeInv, TypeInv, TypeOK
<1> DEFINE n == Available(r_write, read_idx)
<1>1. /\ n \in Nat /\ HeldCount = HeldCount' + n /\ HeldCount' \in Nat
      /\ UNCHANGED <<published, delivered>>
  <2>1. Available(write_idx, r_write) <= Available(write_idx, read_idx)
    BY DEF FlushStore, SafeInv, ReaderInv
  <2>2. Available(write_idx, read_idx) = Available(write_idx, r_write) + n
    BY <2>1, <1>t, AvailableSplits
  <2>3. n \in Nat /\ Available(write_idx, r_write) \in Nat
    BY <1>t, AvailableFacts
  <2> QED BY <2>2, <2>3 DEF FlushStore, HeldCount
<1>2. CASE n = 0
  <2>1. HeldCount' = HeldCount
    BY <1>1, <1>2 DEF HeldCount
  <2> QED BY <1>1, <2>1, StutterSeen
<1>3. CASE n # 0
  <2> HIDE DEF n
  <2>1. /\ HeldCount \in Nat /\ Len(Held) = HeldCount /\ Held \in Seq(Packet)
        /\ Held = [k \in 1 .. HeldCount |-> published[Len(published) - HeldCount + k]]
        /\ HeldCount <= Len(published)
    BY HeldIsTail
  <2>2. Held' = [k \in 1 .. HeldCount - n |-> published[Len(published) - (HeldCount - n) + k]]
    <3>1. Held' = [k \in 1 .. HeldCount' |-> published'[Len(published') - HeldCount' + k]]
      BY HeldIsTailNext
    <3>2. HeldCount' = HeldCount - n
      BY <1>1, <2>1 DEF HeldCount
    <3> QED BY <3>1, <3>2, <1>1 DEF HeldCount
  <2>3. n \in 1 .. HeldCount
    BY <1>1, <1>3, <2>1 DEF HeldCount
  <2>4. SubSeq(Held, n + 1, Len(Held)) = [k \in 1 .. HeldCount - n |-> Held[n + k]]
    BY <2>1, <2>3
  <2>5. \A k \in 1 .. HeldCount - n :
          Held[n + k] = published[Len(published) - (HeldCount - n) + k]
    <3> TAKE k \in 1 .. HeldCount - n
    <3>1. /\ n + k \in 1 .. HeldCount
          /\ Len(published) - HeldCount + (n + k) = Len(published) - (HeldCount - n) + k
      BY <2>1, <2>3, <1>t
    <3> QED BY <2>1, <3>1
  <2>6. Held' = SubSeq(Held, n + 1, Len(Held))
    BY <2>2, <2>4, <2>5
  <2> QED
    BY <1>1, <2>1, <2>3, <2>6 DEF Fifo!Discard
<1> QED
  BY <1>2, <1>3

\* Every step of a ring that does not overwrite is a step of the FIFO, or is not seen.
LEMMA StepIsFifoStep ==
  ASSUME ~Overwrites, SafeInv, SafeInv', NewestInv, [Next]_vars
  PROVE  [Fifo!Next]_Fifo!vars
<1>1. CASE WritePublish
  <2>1. offered \in Packet
    BY <1>1 DEF WritePublish, SafeInv, TypeInv
  <2> QED
    BY <1>1, <2>1, PublishIsPut DEF Fifo!Next
<1>2. CASE ReadAdvance
  BY <1>2, AdvanceIsGet DEF Fifo!Next
<1>3. CASE FlushStore
  BY <1>3, FlushIsDiscard DEF Fifo!Next
<1>4. ASSUME UNCHANGED <<write_idx, read_idx, published, delivered>>
      PROVE  [Fifo!Next]_Fifo!vars
  <2>1. HeldCount' = HeldCount
    BY <1>4 DEF HeldCount, Available
  <2> QED
    BY <1>4, <2>1, StutterSeen
<1>5. CASE WriteCall \/ DropOldest \/ DropCount \/ DropFlag \/ DropNewest \/ SpinAgain \/ SpinTimeout \/ WriteCopyBegin
           \/ WriteCopyEnd \/ WriteCount
  BY <1>4, <1>5 DEF WriteCall, DropOldest, DropCount, DropFlag, DropNewest, SpinAgain, SpinTimeout, WriteCopyBegin,
     WriteCopyEnd, WriteCount, header, history, Overwrites
<1>6. CASE ReadLoadWrite \/ ReadFindsNone \/ ReadEmpty \/ ReadFlag \/ ReadLoadRead \/ ReadCopyBegin \/ ReadCopyEnd \/ ReadCount \/ ReadClear
           \/ FlushLoad
  BY <1>4, <1>6 DEF ReadLoadWrite, ReadFindsNone, ReadEmpty, ReadFlag, ReadLoadRead, ReadCopyBegin, ReadCopyEnd, ReadCount, ReadClear,
     FlushLoad, header, history
<1>7. CASE WriterCrash \/ ReaderCrash \/ WriterAttach \/ ReaderAttach \/ UNCHANGED vars
  BY <1>4, <1>7 DEF WriterCrash, ReaderCrash, WriterAttach, ReaderAttach, vars, header, history
<1> QED
  BY <1>1, <1>2, <1>3, <1>5, <1>6, <1>7 DEF Next, Write, Read, Flush

\* If no policy in use overwrites, the ring is a bounded FIFO with flushes: every
\* packet that is accepted comes out once, whole and in order, through every
\* interleaving of the two processes, and through their kills and restarts.
THEOREM IsFifoHolds ==
  ASSUME "DROP_OLDEST" \notin PoliciesUsed
  PROVE  Spec => IsFifo
<1>1. Init => Fifo!Init
  <2> SUFFICES ASSUME Init PROVE Fifo!Init
    OBVIOUS
  <2>1. Held = <<>>
    <3>1. Available(write_idx, read_idx) = 0
      BY DEF Init, Available
    <3> QED BY <3>1 DEF Held
  <2> QED BY <2>1 DEF Init, Fifo!Init
<1>2. Init => NewestInv
  BY DEF Init, NewestInv
<1>3. TypeOK => ~Overwrites
  BY DEF TypeOK, Overwrites
<1>4. SafeInv => TypeInv
  BY DEF SafeInv
<1>5. Spec => [](SafeInv /\ ~Overwrites)
  BY <1>3, TypeCorrect, SafeInvariant, PTL
<1>6. Spec => []NewestInv
  BY <1>2, <1>4, <1>5, NewestStep, PTL DEF Spec
<1>7. ~Overwrites /\ SafeInv /\ SafeInv' /\ NewestInv /\ [Next]_vars => [Fifo!Next]_Fifo!vars
  BY StepIsFifoStep
<1> QED
  BY <1>1, <1>5, <1>6, <1>7, PTL DEF Spec, IsFifo, Fifo!Spec
-----------------------------------------------------------------------------
(***************************************************************************)
(* Every policy.  Whatever an overwriting writer and its reader store to   *)
(* read_idx, the slots other than the one being written hold the newest    *)
(* published packets (RecordInv); what is left to show is that read_idx    *)
(* never points behind the oldest packet there ever was, which could only  *)
(* happen before the first lap is complete (EarlyInv).                     *)
(***************************************************************************)

\* Every slot but the next one to be written holds the packet its age says.
RecordInv ==
  \A i \in Slot \ {write_idx} : Age(write_idx, i) <= Len(published) =>
    packets[i] = published[Len(published) + 1 - Age(write_idx, i)]

\* On the first lap the write index counts the packets; before its last slot is written the
\* ring was never full, so nobody but the reader has moved read_idx.
EarlyInv ==
  /\ Len(published) < Capacity => write_idx = Len(published)
  /\ Len(published) < Capacity - 1 =>
       /\ wpc # "full"
       /\ read_idx <= write_idx
       /\ rpc \in {"loaded", "flushing"} => read_idx <= r_write /\ r_write <= write_idx
       /\ rpc \in {"found", "copying", "copied"} => r_read < write_idx

\* The writer's copies go to the slot that the record leaves out, until it is published.
LEMMA RecordStep ==
  TypeInv /\ CopiedInv /\ RecordInv /\ [Next]_vars => CopiedInv' /\ RecordInv'
<1> SUFFICES ASSUME TypeInv, CopiedInv, RecordInv, [Next]_vars PROVE CopiedInv' /\ RecordInv'
  OBVIOUS
<1>t. /\ write_idx \in Slot /\ published \in Seq(Packet) /\ Len(published) \in Nat
      /\ packets \in [Slot -> Packet \union {NoPacket, Torn}]
  BY DEF TypeInv, TypeOK
<1>f. ASSUME UNCHANGED <<write_idx, packets, published>>,
             wpc' = "copied" => wpc = "copied" /\ offered' = offered
      PROVE  CopiedInv' /\ RecordInv'
  BY <1>f DEF CopiedInv, RecordInv
<1>1. CASE WriteCopyBegin \/ WriteCopyEnd
  <2>1. /\ UNCHANGED <<write_idx, offered, published>>
        /\ \A i \in Slot \ {write_idx} : packets'[i] = packets[i]
        /\ wpc' = "copied" => packets'[write_idx] = offered
    BY <1>1, <1>t DEF WriteCopyBegin, WriteCopyEnd, header, history
  <2> QED
    BY <2>1 DEF CopiedInv, RecordInv
<1>2. CASE WritePublish
  <2>1. /\ write_idx' = Inc(write_idx) /\ published' = Append(published, offered)
        /\ packets' = packets /\ packets[write_idx] = offered /\ offered \in Packet
        /\ wpc' # "copied"
    BY <1>2 DEF WritePublish, CopiedInv, TypeInv
  <2>2. ASSUME NEW i \in Slot, Age(Inc(write_idx), i) <= Len(published')
        PROVE  i # Inc(write_idx) =>
                 packets[i] = published'[Len(published') + 1 - Age(Inc(write_idx), i)]
    <3>1. CASE i = write_idx
      BY <2>1, <3>1, <1>t, AgeFacts
    <3>2. CASE i # write_idx
      <4>1. Age(Inc(write_idx), i) = Age(write_idx, i) + 1 /\ Age(write_idx, i) \in Nat \ {0}
        BY <3>2, <1>t, RingBufferAssumption, AgeFacts
      <4>2. Age(write_idx, i) <= Len(published)
        BY <2>1, <2>2, <4>1, <1>t
      <4>3. packets[i] = published[Len(published) + 1 - Age(write_idx, i)]
        BY <3>2, <4>2 DEF RecordInv
      <4> QED
        BY <2>1, <4>1, <4>2, <4>3, <1>t
    <3> QED BY <3>1, <3>2
  <2> QED
    BY <2>1, <2>2 DEF CopiedInv, RecordInv
<1>3. CASE WriteCall \/ DropOldest \/ DropCount \/ DropFlag \/ DropNewest \/ SpinAgain \/ SpinTimeout \/ WriteCount
  BY <1>3, <1>f DEF WriteCall, DropOldest, DropCount, DropFlag, DropNewest, SpinAgain, SpinTimeout, WriteCount,
     header, history
<1>4. CASE Read
  BY <1>4, <1>f DEF Read, ReadLoadWrite, ReadFindsNone, ReadEmpty, ReadFlag, ReadLoadRead, ReadCopyBegin, ReadCopyEnd,
     ReadAdvance, ReadCount, ReadClear, header, writer, history
<1>5. CASE Flush
  BY <1>5, <1>f DEF Flush, FlushLoad, FlushStore, header, writer, history
<1>6. CASE WriterCrash \/ ReaderCrash \/ WriterAttach \/ ReaderAttach \/ UNCHANGED vars
  BY <1>6, <1>f DEF WriterCrash, ReaderCrash, WriterAttach, ReaderAttach, vars, header, writer,
     history
<1> QED
  BY <1>1, <1>2, <1>3, <1>4, <1>5, <1>6 DEF Next, Write

\* A ring is full on its first lap only when the last slot is the next to be written.
LEMMA EarlyStep == TypeInv /\ EarlyInv /\ [Next]_vars => EarlyInv'
<1> SUFFICES ASSUME TypeInv, EarlyInv, [Next]_vars PROVE EarlyInv'
  OBVIOUS
<1>t. /\ write_idx \in Slot /\ read_idx \in Slot /\ r_write \in Slot /\ r_read \in Slot
      /\ Capacity \in Nat \ {0} /\ Len(published) \in Nat
  BY RingBufferAssumption DEF TypeInv, TypeOK
<1>s. Slot = 0 .. Capacity - 1
  BY DEF Slot
<1>1. CASE WriteCall
  <2>1. /\ UNCHANGED <<write_idx, read_idx, published, rpc, r_write, r_read>>
        /\ wpc' = IF IsFull(write_idx, read_idx) THEN "full" ELSE "room"
    BY <1>1 DEF WriteCall, header, reader, history
  <2>2. Len(published) < Capacity - 1 => ~IsFull(write_idx, read_idx)
    BY <1>t, <1>s, IncWraps DEF EarlyInv, IsFull
  <2> QED
    BY <2>1, <2>2 DEF EarlyInv
<1>2. CASE DropOldest \/ DropNewest \/ SpinAgain \/ SpinTimeout
  <2>1. ~(Len(published) < Capacity - 1)
    BY <1>2 DEF DropOldest, DropNewest, SpinAgain, SpinTimeout, EarlyInv
  <2>2. UNCHANGED <<write_idx, published>>
    BY <1>2 DEF DropOldest, DropNewest, SpinAgain, SpinTimeout, header, history
  <2> QED
    BY <2>1, <2>2 DEF EarlyInv
<1>3. CASE WritePublish
  <2>1. /\ UNCHANGED <<read_idx, rpc, r_write, r_read>> /\ write_idx' = Inc(write_idx)
        /\ Len(published') = Len(published) + 1 /\ wpc' = "count"
    BY <1>3 DEF WritePublish, reader, TypeInv, TypeOK
  <2>2. Len(published) < Capacity - 1 => Inc(write_idx) = write_idx + 1
    BY <1>t, <1>s, IncWraps DEF EarlyInv
  <2> QED
    BY <2>1, <2>2, <1>t, <1>s DEF EarlyInv
<1>4. ASSUME UNCHANGED <<write_idx, read_idx, published, rpc, r_write, r_read>>,
             wpc' = "full" => wpc = "full"
      PROVE  EarlyInv'
  BY <1>4 DEF EarlyInv
<1>5. CASE DropCount \/ DropFlag \/ WriteCopyBegin \/ WriteCopyEnd \/ WriteCount \/ WriterCrash
           \/ WriterAttach \/ UNCHANGED vars
  BY <1>4, <1>5 DEF DropCount, DropFlag, WriteCopyBegin, WriteCopyEnd, WriteCount, WriterCrash,
     WriterAttach, vars, header, writer, reader, history
<1>6. CASE ReadLoadWrite \/ ReadFindsNone \/ ReadLoadRead
  <2>1. UNCHANGED <<write_idx, read_idx, published, wpc>>
    BY <1>6 DEF ReadLoadWrite, ReadFindsNone, ReadLoadRead, header, writer, history
  <2>2. CASE ReadLoadWrite
    BY <2>1, <2>2, <1>t, <1>s DEF ReadLoadWrite, EarlyInv
  <2>3. CASE ReadFindsNone
    BY <2>1, <2>3 DEF ReadFindsNone, EarlyInv
  <2>4. CASE ReadLoadRead
    BY <2>1, <2>4, <1>t, <1>s DEF ReadLoadRead, EarlyInv
  <2> QED
    BY <1>6, <2>2, <2>3, <2>4
<1>7. CASE ReadCopyBegin \/ ReadCopyEnd \/ ReadCount \/ ReadClear \/ ReadEmpty \/ ReadFlag
  <2>1. /\ UNCHANGED <<write_idx, read_idx, published, wpc, r_write, r_read>>
        /\ rpc' \in {"copying", "copied"} => rpc \in {"found", "copying", "copied"}
        /\ rpc' \notin {"loaded", "flushing", "found"}
    BY <1>7 DEF ReadCopyBegin, ReadCopyEnd, ReadCount, ReadClear, ReadEmpty, ReadFlag, header,
       writer, history
  <2> QED
    BY <2>1 DEF EarlyInv
<1>8. CASE ReadAdvance
  <2>1. /\ UNCHANGED <<write_idx, published, wpc, r_write, r_read>>
        /\ read_idx' = Inc(r_read) /\ rpc = "copied" /\ rpc' = "count"
    BY <1>8 DEF ReadAdvance, writer
  <2>2. r_read < write_idx => Inc(r_read) <= write_idx
    BY <1>t, <1>s, IncWraps
  <2> QED
    BY <2>1, <2>2 DEF EarlyInv
<1>9. CASE FlushLoad
  <2>1. /\ UNCHANGED <<write_idx, read_idx, published, wpc, r_read>>
        /\ r_write' = write_idx /\ rpc' = "flushing"
    BY <1>9 DEF FlushLoad, header, writer
  <2> QED
    BY <2>1, <1>t, <1>s DEF EarlyInv
<1>10. CASE FlushStore
  <2>1. /\ UNCHANGED <<write_idx, published, wpc, r_read, r_write>>
        /\ read_idx' = r_write /\ rpc = "flushing" /\ rpc' = "idle"
    BY <1>10 DEF FlushStore, writer
  <2> QED
    BY <2>1 DEF EarlyInv
<1>11. CASE ReaderCrash \/ ReaderAttach
  <2>1. /\ UNCHANGED <<write_idx, read_idx, published, wpc, r_read, r_write>>
        /\ rpc' \in {"down", "idle"}
    BY <1>11 DEF ReaderCrash, ReaderAttach, header, writer, history
  <2> QED
    BY <2>1 DEF EarlyInv
<1> QED
  BY <1>1, <1>2, <1>3, <1>5, <1>6, <1>7, <1>8, <1>9, <1>10, <1>11 DEF Next, Write, Read, Flush

\* The reader never finds more packets than were ever published.
LEMMA HeldIsPublished ==
  ASSUME TypeInv, EarlyInv
  PROVE  HeldCount \in 0 .. Len(published) /\ HeldCount <= Capacity - 1
<1>1. /\ write_idx \in Slot /\ read_idx \in Slot /\ Capacity \in Nat \ {0}
      /\ Len(published) \in Nat
  BY RingBufferAssumption DEF TypeInv, TypeOK
<1>2. HeldCount \in 0 .. Capacity - 1
  BY <1>1, AvailableFacts DEF HeldCount
<1>3. Len(published) < Capacity - 1 => HeldCount = Len(published) - read_idx /\ read_idx \in Nat
  BY <1>1 DEF EarlyInv, HeldCount, Available, Slot
<1> QED
  BY <1>1, <1>2, <1>3

\* What holds under every policy.
AnyPolicyInv == TypeInv /\ CopiedInv /\ RecordInv /\ EarlyInv /\ NewestInv

\* What holds under every policy holds of a ring that was just created.
LEMMA FirstAnyPolicy == Init => AnyPolicyInv
<1> SUFFICES ASSUME Init PROVE AnyPolicyInv
  OBVIOUS
<1>1. TypeInv
  BY RingBufferAssumption DEF Init, TypeInv, TypeOK, Slot, Packet, NoPacket, Torn
<1>2. CopiedInv /\ EarlyInv /\ NewestInv
  BY RingBufferAssumption DEF Init, CopiedInv, EarlyInv, NewestInv
<1>3. RecordInv
  <2>1. published = <<>> /\ write_idx \in Slot
    BY <1>1 DEF Init, TypeInv, TypeOK
  <2> QED BY <2>1, AgeFacts, RingBufferAssumption DEF RecordInv
<1> QED
  BY <1>1, <1>2, <1>3 DEF AnyPolicyInv

\* What holds under every policy is inductive.
LEMMA AnyPolicyStep == AnyPolicyInv /\ [Next]_vars => AnyPolicyInv'
  BY TypeInvStep, RecordStep, EarlyStep, NewestStep DEF AnyPolicyInv

\* What the reader will find is an unbroken run of packets that ends with the newest
\* published one, whatever the policy, the interleaving and the kills.
THEOREM HeldIsNewestRunHolds == Spec => []HeldIsNewestRun
<1>1. AnyPolicyInv => HeldIsNewestRun
  <2> SUFFICES ASSUME TypeInv, RecordInv, EarlyInv PROVE HeldIsNewestRun
    BY DEF AnyPolicyInv
  <2> DEFINE n == Len(published)
             h == HeldCount
  <2>t. /\ write_idx \in Slot /\ read_idx \in Slot /\ Capacity \in Nat \ {0}
        /\ published \in Seq(Packet)
    BY RingBufferAssumption DEF TypeInv, TypeOK
  <2>1. h \in 0 .. n /\ n \in Nat /\ h <= Capacity - 1
    BY <2>t, HeldIsPublished
  <2>2. Len(Held) = h /\ Held = [k \in 1 .. h |-> packets[(read_idx + k - 1) % Capacity]]
    BY <2>1 DEF Held, HeldCount
  <2>3. ASSUME NEW k \in 1 .. h
        PROVE  packets[(read_idx + k - 1) % Capacity] = published[n - h + 1 + k - 1]
    <3> DEFINE p == (read_idx + k - 1) % Capacity
    <3>1. p \in Slot /\ Age(write_idx, p) = h + 1 - k
      BY <2>t, HeldPosition
    <3>2. p # write_idx
      BY <3>1, <2>1, <2>t, AgeFacts
    <3>3. packets[p] = published[n + 1 - Age(write_idx, p)]
      BY <3>1, <3>2, <2>1 DEF RecordInv
    <3>4. n + 1 - (h + 1 - k) = n - h + 1 + k - 1
      BY <2>1
    <3> QED BY <3>1, <3>3, <3>4
  <2>4. SubSeq(published, n - h + 1, n) = [k \in 1 .. h |-> published[n - h + 1 + k - 1]]
    <3>1. \A k \in 1 .. h : n - h + 1 + k - 1 \in 1 .. n
      BY <2>1
    <3>2. (n - h + 1 <= n + 1) /\ (n - (n - h + 1) + 1 = h)
      BY <2>1
    <3> HIDE DEF n, h
    <3> QED BY <2>t, <2>1, <3>1, <3>2
  <2> HIDE DEF n, h
  <2>5. Held = SubSeq(published, n - h + 1, n)
    BY <2>2, <2>3, <2>4
  <2> QED BY <2>1, <2>2, <2>5 DEF HeldIsNewestRun, n
<1> QED
  BY <1>1, FirstAnyPolicy, AnyPolicyStep, PTL DEF Spec

-----------------------------------------------------------------------------
(***************************************************************************)
(* An overwriting ring whose reader was overtaken at most once.  One drop  *)
(* moves read_idx one slot ahead of the reader: the reader goes on copying *)
(* the dropped packet, whose slot stays untouched, because before it is    *)
(* written again the ring is full again; and then stores the very index    *)
(* that the writer had stored.  With fewer than three slots the drop can   *)
(* empty the ring under a reader that has seen it filled.                  *)
(***************************************************************************)

\* The reader has chosen a slot and not yet stored the next index.
Reading == rpc \in {"found", "copying", "copied"}

\* How many published packets the reader has left behind, and the place among the
\* published ones of the packet it is reading: the one just dropped if it was overtaken.
Taken == Len(published) - HeldCount
ReadPlace == IF r_read = read_idx THEN Taken + 1 ELSE Taken

\* The writer that found the ring full compares read_idx with a value that was full.
FullInv == wpc = "full" => IsFull(write_idx, w_read)

\* The reader's loaded indexes are still good when it uses them.
LoadedInv ==
  /\ rpc = "loaded" /\ read_idx # r_write => read_idx # write_idx
  /\ rpc = "flushing" => /\ flushes > 0
                         /\ Available(write_idx, r_write) <= Available(write_idx, read_idx)

\* The packet being read is whole, newer than every delivered one, held or just dropped.
ReadingInv ==
  /\ Reading =>
       /\ ReadPlace \in 1 .. Len(published)
       /\ packets[r_read] = published[ReadPlace]
       /\ \A i \in DOMAIN delivered : delivered[i] < published[ReadPlace]
       /\ r_read = read_idx => read_idx # write_idx
       /\ r_read # read_idx => Overwrites /\ dropped > 0 /\ read_idx = Inc(r_read)
  /\ rpc \in {"copying", "copied"} => r_copy = packets[r_read]

\* What was delivered is whole, in order, and older than what is held.
DeliveredInv ==
  /\ delivered \in Seq(Packet)
  /\ \A i, j \in DOMAIN delivered : i < j => delivered[i] < delivered[j]
  /\ \A i \in DOMAIN delivered : \A k \in 1 .. Len(published) :
       k > Taken => delivered[i] < published[k]

\* The packets are published, and therefore delivered, in the order of the calls.
CallsInv ==
  /\ \A i, j \in DOMAIN published : i < j => published[i] < published[j]
  /\ \A i \in DOMAIN delivered : delivered[i] <= offered
  /\ Writing =>
       \A i \in DOMAIN delivered : delivered[i] < offered

OnceInv == RoomInv /\ FullInv /\ LoadedInv /\ ReadingInv /\ DeliveredInv /\ CallsInv

\* The types and lengths that the following proofs rest on.
LEMMA OnceFacts ==
  ASSUME AnyPolicyInv
  PROVE  /\ write_idx \in Slot /\ read_idx \in Slot /\ r_write \in Slot /\ r_read \in Slot
         /\ w_read \in Slot /\ packets \in [Slot -> Packet \union {NoPacket, Torn}]
         /\ published \in Seq(Packet) /\ Len(published) \in Nat
         /\ dropped \in Nat /\ flushes \in Nat /\ offered \in Nat
         /\ Capacity \in Nat \ {0} /\ MaxPackets \in Nat
         /\ HeldCount \in 0 .. Len(published) /\ HeldCount <= Capacity - 1
         /\ Taken \in 0 .. Len(published)
<1>1. TypeInv /\ EarlyInv
  BY DEF AnyPolicyInv
<1>2. /\ write_idx \in Slot /\ read_idx \in Slot /\ r_write \in Slot /\ r_read \in Slot
      /\ w_read \in Slot /\ packets \in [Slot -> Packet \union {NoPacket, Torn}]
      /\ published \in Seq(Packet) /\ Len(published) \in Nat
      /\ dropped \in Nat /\ flushes \in Nat /\ offered \in Nat
  BY <1>1, RingBufferAssumption DEF TypeInv, TypeOK
<1>3. HeldCount \in 0 .. Len(published) /\ HeldCount <= Capacity - 1
  BY <1>1, HeldIsPublished
<1>4. Capacity \in Nat \ {0} /\ MaxPackets \in Nat
  BY RingBufferAssumption
<1> QED
  BY <1>2, <1>3, <1>4 DEF Taken

\* Steps that leave the packets and all indexes alone.
LEMMA OnceKept ==
  ASSUME OnceInv, UNCHANGED <<dropped, flushes>>,
         UNCHANGED <<write_idx, read_idx, packets, published, delivered, overflow_policy, reader>>,
         RoomInv', FullInv', CallsInv'
  PROVE  OnceInv'
<1>1. HeldCount' = HeldCount /\ Taken' = Taken /\ ReadPlace' = ReadPlace /\ Reading' = Reading
  BY DEF HeldCount, Taken, ReadPlace, Reading, reader
<1>2. LoadedInv'
  BY DEF OnceInv, LoadedInv, reader
<1>3. ReadingInv'
  BY <1>1 DEF OnceInv, ReadingInv, Overwrites, reader
<1>4. DeliveredInv'
  BY <1>1 DEF OnceInv, DeliveredInv
<1> QED
  BY <1>2, <1>3, <1>4 DEF OnceInv

\* The packets keep the order of the calls.
LEMMA CallsStep ==
  ASSUME AnyPolicyInv, OnceInv, [Next]_vars
  PROVE  CallsInv'
<1>t. /\ published \in Seq(Packet) /\ Len(published) \in Nat /\ offered \in Nat
      /\ delivered \in Seq(Packet) /\ Len(delivered) \in Nat
      /\ \A i \in DOMAIN published : published[i] \in Nat
      /\ \A i \in DOMAIN delivered : delivered[i] \in Nat
  <2>1. published \in Seq(Packet) /\ delivered \in Seq(Packet) /\ offered \in Nat
    BY OnceFacts DEF OnceInv, DeliveredInv
  <2>2. \A p \in Packet : p \in Nat
    BY RingBufferAssumption DEF Packet
  <2> QED BY <2>1, <2>2
<1>c. CallsInv /\ NewestInv
  BY DEF OnceInv, AnyPolicyInv
<1>f. ASSUME UNCHANGED <<published, delivered, offered>>,
             Writing' => Writing
      PROVE  CallsInv'
  BY <1>f, <1>c DEF CallsInv
<1>1. CASE WriteCall
  <2>1. UNCHANGED <<published, delivered>> /\ offered' = offered + 1
    BY <1>1 DEF WriteCall, history
  <2> QED BY <2>1, <1>c, <1>t DEF CallsInv
<1>2. CASE WritePublish
  <2>1. /\ published' = Append(published, offered) /\ UNCHANGED <<delivered, offered>>
        /\ wpc = "copied" /\ wpc' = "count" /\ offered \in Packet
    BY <1>2 DEF WritePublish, AnyPolicyInv, TypeInv
  <2>2. \A i \in DOMAIN published : published[i] < offered
    BY <2>1, <1>c DEF Writing, NewestInv
  <2>3. \A i, j \in DOMAIN published' : i < j => published'[i] < published'[j]
    <3> SUFFICES ASSUME NEW i \in DOMAIN published', NEW j \in DOMAIN published', i < j
                 PROVE  published'[i] < published'[j]
      OBVIOUS
    <3>1. i \in DOMAIN published /\ published'[i] = published[i]
      BY <2>1, <1>t
    <3>2. CASE j \in DOMAIN published
      BY <2>1, <3>1, <3>2, <1>t, <1>c DEF CallsInv
    <3>3. CASE j = Len(published) + 1
      BY <2>1, <2>2, <3>1, <3>3, <1>t
    <3> QED BY <2>1, <3>2, <3>3, <1>t
  <2> QED BY <2>1, <2>3, <1>c DEF Writing, CallsInv
<1>3. CASE ReadAdvance
  <2>1. /\ UNCHANGED <<published, offered, wpc>> /\ delivered' = Append(delivered, r_copy)
        /\ Reading /\ r_copy = published[ReadPlace]
    BY <1>3 DEF ReadAdvance, writer, OnceInv, ReadingInv, Reading
  <2>2. ReadPlace \in DOMAIN published
    BY <2>1, <1>t DEF OnceInv, ReadingInv
  <2>3. \A i \in DOMAIN delivered' :
          delivered'[i] \in {delivered[j] : j \in DOMAIN delivered} \cup {published[ReadPlace]}
    BY <2>1, <1>t
  <2>4. /\ published[ReadPlace] <= offered
        /\ Writing => published[ReadPlace] < offered
    BY <2>2, <1>c DEF NewestInv
  <2> QED BY <2>1, <2>3, <2>4, <1>c DEF Writing, CallsInv
<1>4. CASE DropOldest \/ DropCount \/ DropFlag \/ DropNewest \/ SpinAgain \/ SpinTimeout \/ WriteCopyBegin \/ WriteCopyEnd
           \/ WriteCount
  BY <1>4, <1>f DEF Writing, DropOldest, DropCount, DropFlag, DropNewest, SpinAgain, SpinTimeout, WriteCopyBegin, WriteCopyEnd,
     WriteCount, history
<1>5. CASE ReadLoadWrite \/ ReadFindsNone \/ ReadEmpty \/ ReadFlag \/ ReadLoadRead \/ ReadCopyBegin \/ ReadCopyEnd \/ ReadCount \/ ReadClear
  BY <1>5, <1>f DEF Writing, ReadLoadWrite, ReadFindsNone, ReadEmpty, ReadFlag, ReadLoadRead, ReadCopyBegin, ReadCopyEnd, ReadCount, ReadClear,
     writer, history
<1>6. CASE Flush
  BY <1>6, <1>f DEF Writing, Flush, FlushLoad, FlushStore, writer
<1>7. CASE WriterCrash \/ ReaderCrash \/ WriterAttach \/ ReaderAttach \/ UNCHANGED vars
  BY <1>7, <1>f DEF Writing, WriterCrash, ReaderCrash, WriterAttach, ReaderAttach, vars, writer, history
<1> QED
  BY <1>1, <1>2, <1>3, <1>4, <1>5, <1>6, <1>7 DEF Next, Write, Read

\* A drop that moves the read index is the first one, so the reader had not been overtaken.
LEMMA DropKeepsOnce ==
  ASSUME Capacity > 2, AnyPolicyInv, OnceInv, CallsInv', DropOldest,
         read_idx = w_read => dropped = 0 /\ flushes = 0
  PROVE  OnceInv'
<1>t. /\ write_idx \in Slot /\ read_idx \in Slot /\ w_read \in Slot /\ Capacity \in Nat
      /\ HeldCount \in 0 .. Len(published) /\ Len(published) \in Nat
      /\ dropped \in Nat /\ flushes \in Nat
  BY OnceFacts
<1>1. /\ UNCHANGED <<write_idx, packets, published, delivered, flushes, overflow_policy, reader>>
      /\ wpc' = "dropped" /\ Overwrites'
      /\ read_idx' = IF read_idx = w_read THEN Inc(w_read) ELSE read_idx
      /\ dropped' = IF read_idx = w_read THEN dropped + 1 ELSE dropped
      /\ IsFull(write_idx, w_read)
  BY DEF DropOldest, OnceInv, FullInv, Overwrites
<1>2. FullInv'
  BY <1>1 DEF FullInv
<1>4. CASE read_idx # w_read
  <2>1. UNCHANGED read_idx /\ HeldCount' = HeldCount /\ Taken' = Taken /\ ReadPlace' = ReadPlace
        /\ Reading' = Reading
    BY <1>1, <1>4 DEF HeldCount, Taken, ReadPlace, Reading, reader
  <2>2. ~IsFull(write_idx, read_idx)
    BY <1>1, <1>4 DEF IsFull
  <2>3. RoomInv'
    BY <1>1, <2>1, <2>2, <1>t, AvailableFacts DEF RoomInv
  <2>4. LoadedInv'
    BY <1>1, <2>1 DEF OnceInv, LoadedInv, reader
  <2>5. ReadingInv'
    BY <1>1, <1>4, <2>1 DEF OnceInv, ReadingInv, Overwrites, reader
  <2>6. DeliveredInv'
    BY <1>1, <2>1 DEF OnceInv, DeliveredInv
  <2> QED BY <1>2, <2>3, <2>4, <2>5, <2>6 DEF OnceInv
<1>5. CASE read_idx = w_read
  <2>0. dropped = 0 /\ flushes = 0 /\ dropped' = 1
    BY <1>1, <1>5
  <2>r. ~Reading \/ r_read = read_idx
    BY <2>0 DEF OnceInv, ReadingInv
  <2>1. read_idx' = Inc(read_idx) /\ read_idx' # read_idx
    BY <1>1, <1>5, <1>t, IncWraps DEF Slot
  <2>2. HeldCount = Capacity - 1 /\ read_idx # write_idx
    BY <1>1, <1>5, <1>t, AvailableFacts DEF HeldCount
  <2>3. HeldCount' = HeldCount - 1 /\ Taken' = Taken + 1
    BY <1>1, <2>1, <2>2, <1>t, AvailableMoves DEF HeldCount, Taken
  <2>4. read_idx' # write_idx'
    <3>1. Available(write_idx, Inc(read_idx)) > 0
      BY <2>2, <1>t, AvailableMoves DEF HeldCount
    <3>2. Available(write_idx, write_idx) = 0
      BY <1>t, AvailableFacts
    <3> QED BY <3>1, <3>2, <1>1, <2>1
  <2>5. RoomInv'
    BY <2>2, <2>3, <1>t DEF RoomInv, HeldCount
  <2>6. LoadedInv'
    <3>1. rpc' # "flushing"
      BY <1>1, <2>0 DEF OnceInv, LoadedInv, reader
    <3> QED BY <2>4, <3>1 DEF LoadedInv
  <2>7. ReadingInv'
    <3>1. Reading' = Reading /\ (Reading => r_read' = read_idx /\ r_read' # read_idx')
      BY <1>1, <2>r, <2>1 DEF Reading, reader
    <3>2. Reading => ReadPlace' = ReadPlace
      BY <3>1, <2>r, <2>3 DEF ReadPlace
    <3> QED BY <1>1, <2>0, <2>r, <2>1, <3>1, <3>2 DEF OnceInv, ReadingInv, reader
  <2>8. DeliveredInv'
    <3>1. \A k \in 1 .. Len(published) : k > Taken + 1 => k > Taken
      BY <1>t DEF Taken
    <3> QED BY <1>1, <2>3, <3>1 DEF OnceInv, DeliveredInv
  <2> QED BY <1>2, <2>5, <2>6, <2>7, <2>8 DEF OnceInv
<1> QED
  BY <1>4, <1>5

\* The writer's copy goes to a slot the reader is not reading, even if it was overtaken.
LEMMA CopyKeepsOnce ==
  ASSUME Capacity > 2, AnyPolicyInv, OnceInv, CallsInv', WriteCopyBegin \/ WriteCopyEnd
  PROVE  OnceInv'
<1>t. /\ write_idx \in Slot /\ read_idx \in Slot /\ r_read \in Slot /\ Capacity \in Nat
      /\ packets \in [Slot -> Packet \union {NoPacket, Torn}]
  BY OnceFacts
<1>1. /\ UNCHANGED <<write_idx, read_idx, published, delivered, overflow_policy, reader>>
      /\ UNCHANGED <<dropped, flushes>>
      /\ \A i \in Slot \ {write_idx} : packets'[i] = packets[i]
      /\ wpc \in {"room", "copying"} /\ wpc' \in {"copying", "copied"}
  BY <1>t DEF WriteCopyBegin, WriteCopyEnd, header, history
<1>2. HeldCount' = HeldCount /\ Taken' = Taken /\ ReadPlace' = ReadPlace /\ Reading' = Reading
  BY <1>1 DEF HeldCount, Taken, ReadPlace, Reading, reader
<1>3. ASSUME Reading PROVE r_read # write_idx
  <2>1. CASE r_read = read_idx
    BY <1>3, <2>1 DEF OnceInv, ReadingInv
  <2>2. CASE r_read # read_idx
    <3>1. read_idx = Inc(r_read)
      BY <1>3, <2>2 DEF OnceInv, ReadingInv
    <3>2. ~IsFull(write_idx, read_idx)
      BY <1>1, <1>t, AvailableFacts DEF OnceInv, RoomInv
    <3> QED BY <3>1, <3>2 DEF IsFull
  <2> QED BY <2>1, <2>2
<1>4. RoomInv' /\ FullInv'
  BY <1>1 DEF OnceInv, RoomInv, FullInv
<1>5. LoadedInv'
  BY <1>1 DEF OnceInv, LoadedInv, reader
<1>6. ReadingInv'
  <2>1. Reading => packets'[r_read] = packets[r_read]
    BY <1>1, <1>3, <1>t
  <2> QED BY <1>1, <1>2, <2>1 DEF OnceInv, ReadingInv, Reading, Overwrites, reader
<1>7. DeliveredInv'
  BY <1>1, <1>2 DEF OnceInv, DeliveredInv
<1> QED
  BY <1>4, <1>5, <1>6, <1>7 DEF OnceInv

\* A published packet is newer than all that were delivered.
LEMMA PublishKeepsOnce ==
  ASSUME AnyPolicyInv, OnceInv, CallsInv', WritePublish
  PROVE  OnceInv'
<1>t. /\ write_idx \in Slot /\ read_idx \in Slot /\ r_write \in Slot /\ Capacity \in Nat \ {0}
      /\ published \in Seq(Packet) /\ Len(published) \in Nat
      /\ HeldCount \in Nat /\ Taken \in 0 .. Len(published)
  BY OnceFacts
<1>1. /\ UNCHANGED <<read_idx, packets, delivered, overflow_policy, reader, dropped, flushes>>
      /\ write_idx' = Inc(write_idx) /\ published' = Append(published, offered)
      /\ wpc = "copied" /\ wpc' = "count" /\ offered \in Packet
  BY DEF WritePublish, AnyPolicyInv, TypeInv
<1>2. /\ Available(write_idx, read_idx) < Capacity - 1
      /\ Available(Inc(write_idx), read_idx) = Available(write_idx, read_idx) + 1
  BY <1>1, <1>t, AvailableMoves DEF OnceInv, RoomInv
<1>3. /\ HeldCount' = HeldCount + 1 /\ Len(published') = Len(published) + 1
      /\ Taken' = Taken /\ ReadPlace' = ReadPlace /\ Reading' = Reading
  <2>1. HeldCount' = HeldCount + 1 /\ Len(published') = Len(published) + 1
    BY <1>1, <1>2, <1>t DEF HeldCount
  <2>2. Taken' = Taken
    BY <2>1, <1>t DEF Taken
  <2> QED BY <1>1, <2>1, <2>2 DEF ReadPlace, Reading, reader
<1>4. RoomInv' /\ FullInv'
  BY <1>1 DEF RoomInv, FullInv
<1>5. LoadedInv'
  <2>1. read_idx # Inc(write_idx)
    BY <1>2, <1>t, AvailableFacts, IncWraps
  <2>2. Available(write_idx, r_write) < Capacity - 1 =>
          Available(Inc(write_idx), r_write) = Available(write_idx, r_write) + 1
    BY <1>t, AvailableMoves
  <2>3. Available(write_idx, r_write) \in Int /\ Available(write_idx, read_idx) \in Int
    BY <1>t, AvailableFacts
  <2> QED
    BY <1>1, <1>2, <2>1, <2>2, <2>3, <1>t DEF OnceInv, LoadedInv, reader
<1>6. ReadingInv'
  <2>1. ASSUME Reading
        PROVE  /\ ReadPlace \in 1 .. Len(published')
               /\ published'[ReadPlace] = published[ReadPlace]
               /\ r_read = read_idx => read_idx # write_idx'
    <3>1. ReadPlace \in 1 .. Len(published)
      BY <2>1 DEF OnceInv, ReadingInv
    <3>2. read_idx # Inc(write_idx)
      BY <1>2, <1>t, AvailableFacts, IncWraps
    <3> QED BY <1>1, <3>1, <3>2, <1>t
  <2> QED BY <1>1, <1>3, <2>1 DEF OnceInv, ReadingInv, Reading, Overwrites, reader
<1>7. DeliveredInv'
  <2>1. ASSUME NEW i \in DOMAIN delivered, NEW k \in 1 .. Len(published'), k > Taken
        PROVE  delivered[i] < published'[k]
    <3>1. CASE k = Len(published) + 1
      BY <1>1, <3>1, <1>t DEF Writing, OnceInv, CallsInv
    <3>2. CASE k \in 1 .. Len(published)
      BY <1>1, <2>1, <3>2, <1>t DEF OnceInv, DeliveredInv
    <3> QED BY <1>3, <3>1, <3>2, <1>t
  <2> QED BY <1>1, <1>3, <2>1 DEF OnceInv, DeliveredInv
<1> QED
  BY <1>4, <1>5, <1>6, <1>7 DEF OnceInv

\* The reader chooses the oldest held packet.
LEMMA ChooseKeepsOnce ==
  ASSUME AnyPolicyInv, OnceInv, CallsInv', ReadLoadRead
  PROVE  OnceInv'
<1>t. /\ write_idx \in Slot /\ read_idx \in Slot /\ Capacity \in Nat \ {0}
      /\ Len(published) \in Nat /\ HeldCount \in 0 .. Len(published) /\ Taken \in Nat
  BY OnceFacts
<1>1. /\ UNCHANGED <<header, packets, writer, published, delivered, flushes>>
      /\ r_read' = read_idx /\ rpc = "loaded" /\ rpc' = "found" /\ read_idx # write_idx
  BY DEF ReadLoadRead, history, OnceInv, LoadedInv
<1>2. HeldCount > 0 /\ Age(write_idx, read_idx) = HeldCount
  BY <1>1, <1>t, AvailableFacts, AgeFacts DEF HeldCount
<1>3. packets[read_idx] = published[Len(published) + 1 - HeldCount]
  BY <1>1, <1>2, <1>t DEF AnyPolicyInv, RecordInv
<1>4. HeldCount' = HeldCount /\ Taken' = Taken /\ ReadPlace' = Taken + 1
  BY <1>1 DEF HeldCount, Taken, ReadPlace, header
<1>5. Taken + 1 = Len(published) + 1 - HeldCount /\ Taken + 1 \in 1 .. Len(published)
  BY <1>2, <1>t DEF Taken
<1>6. \A i \in DOMAIN delivered : delivered[i] < published[Taken + 1]
  BY <1>5, <1>t DEF OnceInv, DeliveredInv
<1>7. ReadingInv'
  BY <1>1, <1>3, <1>4, <1>5, <1>6 DEF ReadingInv, Reading, header
<1>8. RoomInv' /\ FullInv' /\ LoadedInv'
  BY <1>1 DEF OnceInv, RoomInv, FullInv, LoadedInv, header, writer
<1>9. DeliveredInv'
  BY <1>1, <1>4 DEF OnceInv, DeliveredInv
<1> QED
  BY <1>7, <1>8, <1>9 DEF OnceInv

\* The reader's copy is whole: its slot does not change.
LEMMA ReadCopyKeepsOnce ==
  ASSUME AnyPolicyInv, OnceInv, CallsInv', ReadCopyBegin \/ ReadCopyEnd
  PROVE  OnceInv'
<1>1. /\ UNCHANGED <<header, packets, writer, published, delivered, dropped, flushes, r_write, r_read>>
      /\ rpc \in {"found", "copying"} /\ rpc' \in {"copying", "copied"}
      /\ r_copy' = packets[r_read]
  BY DEF ReadCopyBegin, ReadCopyEnd, history, OnceInv, ReadingInv
<1>2. /\ HeldCount' = HeldCount /\ Taken' = Taken /\ ReadPlace' = ReadPlace
      /\ Reading /\ Reading'
  BY <1>1 DEF HeldCount, Taken, ReadPlace, Reading, header
<1>3. ReadingInv'
  BY <1>1, <1>2 DEF OnceInv, ReadingInv, Overwrites, header
<1>4. RoomInv' /\ FullInv' /\ LoadedInv'
  BY <1>1 DEF OnceInv, RoomInv, FullInv, LoadedInv, header, writer
<1>5. DeliveredInv'
  BY <1>1, <1>2 DEF OnceInv, DeliveredInv
<1> QED
  BY <1>3, <1>4, <1>5 DEF OnceInv

\* The reader's store takes the oldest packet, or repeats the writer's store if it was overtaken.
LEMMA AdvanceKeepsOnce ==
  ASSUME AnyPolicyInv, OnceInv, CallsInv', ReadAdvance
  PROVE  OnceInv'
<1>t. /\ write_idx \in Slot /\ read_idx \in Slot /\ Capacity \in Nat \ {0}
      /\ published \in Seq(Packet) /\ Len(published) \in Nat
      /\ HeldCount \in 0 .. Len(published)
  BY OnceFacts
<1>d. delivered \in Seq(Packet) /\ Len(delivered) \in Nat
  BY DEF OnceInv, DeliveredInv
<1>1. /\ UNCHANGED <<write_idx, packets, writer, published, flushes>>
      /\ read_idx' = Inc(r_read) /\ delivered' = Append(delivered, r_copy)
      /\ rpc = "copied" /\ rpc' = "count" /\ Reading
  BY DEF ReadAdvance, Reading
<1> DEFINE q == published[ReadPlace]
<1>2. /\ ReadPlace \in 1 .. Len(published) /\ r_copy = q
      /\ \A i \in DOMAIN delivered : delivered[i] < q
  BY <1>1 DEF OnceInv, ReadingInv
<1>3. HeldCount' \in 0 .. HeldCount /\ Taken' = ReadPlace
  <2>1. CASE r_read = read_idx
    <3>1. read_idx # write_idx
      BY <1>1, <2>1 DEF OnceInv, ReadingInv
    <3>2. HeldCount' = HeldCount - 1 /\ HeldCount > 0
      BY <1>1, <2>1, <3>1, <1>t, AvailableMoves, AvailableFacts DEF HeldCount
    <3>3. Taken' = Taken + 1
      BY <1>1, <3>2, <1>t DEF Taken
    <3> QED BY <3>2, <3>3, <2>1, <1>t DEF ReadPlace
  <2>2. CASE r_read # read_idx
    <3>1. read_idx' = read_idx
      BY <1>1, <2>2 DEF OnceInv, ReadingInv
    <3>2. HeldCount' = HeldCount /\ Taken' = Taken
      BY <1>1, <3>1 DEF HeldCount, Taken
    <3> QED BY <3>2, <2>2, <1>t DEF ReadPlace
  <2> QED BY <2>1, <2>2
<1>4. RoomInv'
  BY <1>1, <1>3, <1>t DEF OnceInv, RoomInv, writer, HeldCount
<1>5. FullInv' /\ LoadedInv' /\ ReadingInv'
  BY <1>1 DEF OnceInv, FullInv, LoadedInv, ReadingInv, Reading, writer
<1>6. DeliveredInv'
  <2>1. q \in Packet /\ delivered' \in Seq(Packet) /\ Len(delivered') = Len(delivered) + 1
    BY <1>1, <1>2, <1>t, <1>d
  <2>2. ASSUME NEW i \in DOMAIN delivered', NEW j \in DOMAIN delivered', i < j
        PROVE  delivered'[i] < delivered'[j]
    <3>1. i \in DOMAIN delivered /\ delivered'[i] = delivered[i]
      BY <1>1, <1>d, <2>1, <2>2
    <3>2. CASE j \in DOMAIN delivered
      BY <1>1, <1>d, <2>2, <3>1, <3>2 DEF OnceInv, DeliveredInv
    <3>3. CASE j = Len(delivered) + 1
      BY <1>1, <1>2, <1>d, <3>1, <3>3
    <3> QED BY <1>d, <2>1, <3>2, <3>3
  <2>3. ASSUME NEW i \in DOMAIN delivered', NEW k \in 1 .. Len(published'), k > Taken'
        PROVE  delivered'[i] < published'[k]
    <3>1. k \in 1 .. Len(published) /\ k > ReadPlace
      BY <1>1, <1>3, <2>3
    <3>2. q < published[k] /\ q \in Nat /\ published[k] \in Nat
      <4>1. q < published[k]
        BY <1>2, <1>t, <3>1 DEF OnceInv, CallsInv
      <4>2. q \in Packet /\ published[k] \in Packet
        BY <1>2, <1>t, <3>1
      <4> QED BY <4>1, <4>2, RingBufferAssumption DEF Packet
    <3>3. CASE i \in DOMAIN delivered
      <4>1. delivered'[i] < q /\ delivered'[i] \in Packet
        BY <1>1, <1>2, <1>d, <3>3
      <4> HIDE DEF q
      <4> QED BY <1>1, <3>2, <4>1, RingBufferAssumption DEF Packet
    <3>4. CASE i = Len(delivered) + 1
      BY <1>1, <1>2, <1>d, <3>2, <3>4
    <3> QED BY <1>d, <2>1, <3>3, <3>4
  <2> QED BY <2>1, <2>2, <2>3 DEF DeliveredInv
<1> QED
  BY <1>4, <1>5, <1>6 DEF OnceInv

\* A flush leaves the packets that came after it began.
LEMMA FlushKeepsOnce ==
  ASSUME AnyPolicyInv, OnceInv, CallsInv', Flush
  PROVE  OnceInv'
<1>t. /\ write_idx \in Slot /\ read_idx \in Slot /\ r_write \in Slot /\ Capacity \in Nat \ {0}
      /\ Len(published) \in Nat /\ HeldCount \in 0 .. Len(published)
      /\ flushes \in Nat /\ Taken \in Nat
  BY OnceFacts
<1>1. CASE FlushLoad
  <2>1. /\ UNCHANGED <<header, packets, writer, published, delivered>>
        /\ r_write' = write_idx /\ flushes' = flushes + 1 /\ rpc' = "flushing"
    BY <1>1 DEF FlushLoad
  <2>2. HeldCount' = HeldCount /\ Taken' = Taken
    BY <2>1 DEF HeldCount, Taken, header
  <2>3. LoadedInv'
    <3>1. Available(write_idx, write_idx) <= Available(write_idx, read_idx)
      BY <1>t, AvailableFacts
    <3> QED BY <2>1, <3>1, <1>t DEF LoadedInv, header
  <2>4. RoomInv' /\ FullInv' /\ ReadingInv'
    BY <2>1 DEF OnceInv, RoomInv, FullInv, ReadingInv, Reading, header, writer
  <2>5. DeliveredInv'
    BY <2>1, <2>2 DEF OnceInv, DeliveredInv
  <2> QED BY <2>3, <2>4, <2>5 DEF OnceInv
<1>2. CASE FlushStore
  <2>1. /\ UNCHANGED <<write_idx, packets, writer, published, delivered>>
        /\ read_idx' = r_write /\ rpc = "flushing" /\ rpc' = "idle"
    BY <1>2 DEF FlushStore
  <2>2. HeldCount' <= HeldCount /\ HeldCount' \in Nat
    <3>1. Available(write_idx, r_write) <= Available(write_idx, read_idx)
      BY <2>1 DEF OnceInv, LoadedInv
    <3>2. Available(write_idx, r_write) \in Nat
      BY <1>t, AvailableFacts
    <3> QED BY <2>1, <3>1, <3>2 DEF HeldCount
  <2>3. Taken' >= Taken /\ Taken' \in Int
    BY <2>1, <2>2, <1>t DEF Taken
  <2>4. RoomInv'
    BY <2>1, <2>2, <1>t DEF OnceInv, RoomInv, writer, HeldCount
  <2>5. FullInv' /\ LoadedInv' /\ ReadingInv'
    BY <2>1 DEF OnceInv, FullInv, LoadedInv, ReadingInv, Reading, writer
  <2>6. DeliveredInv'
    <3>1. \A k \in 1 .. Len(published) : k > Taken' => k > Taken
      BY <2>3, <1>t
    <3> QED BY <2>1, <3>1 DEF OnceInv, DeliveredInv
  <2> QED BY <2>4, <2>5, <2>6 DEF OnceInv
<1> QED
  BY <1>1, <1>2 DEF Flush

\* The reader between two packets, and its kill and restart.
LEMMA IdleKeepsOnce ==
  ASSUME OnceInv, CallsInv',
         ReadLoadWrite \/ ReadFindsNone \/ ReadEmpty \/ ReadFlag \/ ReadCount \/ ReadClear \/ ReaderCrash \/ ReaderAttach
  PROVE  OnceInv'
<1>1. /\ UNCHANGED <<write_idx, read_idx, packets, writer, published, delivered>>
      /\ rpc' \notin {"found", "copying", "copied", "flushing"}
      /\ rpc' = "loaded" => r_write' = write_idx
  BY DEF ReadLoadWrite, ReadFindsNone, ReadEmpty, ReadFlag, ReadCount, ReadClear, ReaderCrash, ReaderAttach, header, history
<1>2. HeldCount' = HeldCount /\ Taken' = Taken
  BY <1>1 DEF HeldCount, Taken
<1>3. RoomInv' /\ FullInv' /\ LoadedInv' /\ ReadingInv'
  BY <1>1 DEF OnceInv, RoomInv, FullInv, LoadedInv, ReadingInv, Reading, writer
<1>4. DeliveredInv'
  BY <1>1, <1>2 DEF OnceInv, DeliveredInv
<1> QED
  BY <1>3, <1>4 DEF OnceInv

\* The writer's other steps, and its kill and restart.
LEMMA CallKeepsOnce ==
  ASSUME AnyPolicyInv, OnceInv, CallsInv',
         \/ WriteCall \/ DropCount \/ DropFlag \/ DropNewest \/ SpinAgain \/ SpinTimeout
         \/ WriteCount \/ WriterCrash \/ WriterAttach \/ UNCHANGED vars
  PROVE  OnceInv'
<1>t. /\ write_idx \in Slot /\ read_idx \in Slot /\ Capacity \in Nat
  BY OnceFacts
<1>1. /\ UNCHANGED <<write_idx, read_idx, packets, published, delivered, overflow_policy>>
      /\ UNCHANGED <<reader, dropped, flushes>>
  BY DEF WriteCall, DropCount, DropFlag, DropNewest, SpinAgain, SpinTimeout, WriteCount, WriterCrash, WriterAttach,
     vars, header, history
<1>2. /\ wpc' \in {"counted", "room"} => wpc \in {"dropped", "counted", "room"} \/ ~IsFull(write_idx, read_idx)
      /\ wpc' = "dropped" => wpc' = wpc
      /\ wpc' \in {"copying", "copied"} => wpc' = wpc
      /\ wpc' = "full" => IsFull(write_idx, w_read')
  BY DEF WriteCall, DropCount, DropFlag, DropNewest, SpinAgain, SpinTimeout, WriteCount,
     WriterCrash, WriterAttach, vars, writer, OnceInv, FullInv
<1>3. RoomInv' /\ FullInv'
  BY <1>1, <1>2, <1>t, AvailableFacts DEF OnceInv, RoomInv, FullInv
<1> QED
  BY <1>1, <1>3, <1>t, OnceKept

\* Up to the first drop, or the first flush, no step harms the reader.
LEMMA OnceStep ==
  ASSUME Capacity > 2, AnyPolicyInv, [Next]_vars,
         dropped + flushes < 2 => OnceInv, dropped' + flushes' < 2
  PROVE  OnceInv'
<1>2. dropped + flushes < 2 /\ (DropOldest /\ read_idx = w_read => dropped = 0 /\ flushes = 0)
  <2>1. dropped \in Nat /\ flushes \in Nat
    BY OnceFacts
  <2>2. ASSUME DropOldest, read_idx = w_read
        PROVE  dropped = 0 /\ flushes = 0
    <3>1. dropped' = dropped + 1 /\ flushes' = flushes
      BY <2>2 DEF DropOldest
    <3> QED BY <2>1, <3>1
  <2>3. /\ dropped' = dropped \/ dropped' = dropped + 1
        /\ flushes' = flushes \/ flushes' = flushes + 1
    <3>1. CASE Write
      BY <3>1 DEF Write, WriteCall, DropOldest, DropCount, DropFlag, DropNewest, SpinAgain,
         SpinTimeout, WriteCopyBegin, WriteCopyEnd, WritePublish, WriteCount, history
    <3>2. CASE Read \/ Flush
      BY <3>2 DEF Read, Flush, ReadLoadWrite, ReadFindsNone, ReadEmpty, ReadFlag, ReadLoadRead,
         ReadCopyBegin, ReadCopyEnd, ReadAdvance, ReadCount, ReadClear, FlushLoad, FlushStore,
         history
    <3>3. CASE WriterCrash \/ ReaderCrash \/ WriterAttach \/ ReaderAttach \/ UNCHANGED vars
      BY <3>3 DEF WriterCrash, ReaderCrash, WriterAttach, ReaderAttach, vars, history
    <3> QED BY <3>1, <3>2, <3>3 DEF Next
  <2> QED BY <2>1, <2>2, <2>3
<1>3. OnceInv
  BY <1>2
<1>4. CallsInv'
  BY <1>3, CallsStep
<1>5. CASE DropOldest
  BY <1>2, <1>3, <1>4, <1>5, DropKeepsOnce
<1>6. CASE WriteCopyBegin \/ WriteCopyEnd \/ WritePublish
  BY <1>3, <1>4, <1>6, CopyKeepsOnce, PublishKeepsOnce
<1>7. CASE ReadLoadRead \/ ReadCopyBegin \/ ReadCopyEnd \/ ReadAdvance
  BY <1>3, <1>4, <1>7, ChooseKeepsOnce, ReadCopyKeepsOnce, AdvanceKeepsOnce
<1>8. CASE ReadLoadWrite \/ ReadFindsNone \/ ReadEmpty \/ ReadFlag \/ ReadCount \/ ReadClear \/ ReaderCrash \/ ReaderAttach \/ Flush
  BY <1>3, <1>4, <1>8, IdleKeepsOnce, FlushKeepsOnce
<1>9. CASE \/ WriteCall \/ DropCount \/ DropFlag \/ DropNewest \/ SpinAgain \/ SpinTimeout
           \/ WriteCount \/ WriterCrash \/ WriterAttach \/ UNCHANGED vars
  BY <1>3, <1>4, <1>9, CallKeepsOnce
<1> QED
  BY <1>5, <1>6, <1>7, <1>8, <1>9 DEF Next, Write, Read

\* A ring of three slots or more, whatever its policy, hands out only whole packets, in
\* order and once, as long as its reader was overtaken at most once.
THEOREM SafeUntilOvertakenHolds ==
  ASSUME Capacity > 2
  PROVE  Spec => []SafeUntilOvertaken
<1> DEFINE SoFar == dropped + flushes < 2 => OnceInv
<1>1. Init => AnyPolicyInv /\ SoFar
  <2> SUFFICES ASSUME Init PROVE AnyPolicyInv /\ OnceInv
    OBVIOUS
  <2>1. AnyPolicyInv
    BY FirstAnyPolicy
  <2>2. RoomInv /\ FullInv /\ LoadedInv /\ ReadingInv
    BY DEF Init, RoomInv, FullInv, LoadedInv, ReadingInv, Reading
  <2>3. DeliveredInv /\ CallsInv
    BY DEF Init, DeliveredInv, CallsInv
  <2> QED BY <2>1, <2>2, <2>3 DEF OnceInv
<1>2. AnyPolicyInv /\ SoFar /\ [Next]_vars => AnyPolicyInv' /\ SoFar'
  BY AnyPolicyStep, OnceStep
<1>3. SoFar => SafeUntilOvertaken
  BY DEF OnceInv, DeliveredInv, SafeUntilOvertaken, NoTornDelivery, DeliveredInOrder
<1> HIDE DEF SoFar
<1> QED
  BY <1>1, <1>2, <1>3, PTL DEF Spec
=============================================================================
