-------------------------- MODULE RingBufferProofs --------------------------
(***************************************************************************)
(* Theorems about RingBuffer for every capacity, policy and bound.         *)
(***************************************************************************)
EXTENDS RingBuffer, TLAPS

\* An index moves one slot on, or from the last slot back to the first.
LEMMA IncWraps ==
  \A i \in Slot : /\ Inc(i) = IF i = Capacity - 1 THEN 0 ELSE i + 1
                  /\ Inc(i) \in Slot
  BY RingBufferAssumption DEF Slot, Inc

\* Between two slots lies a number of slots.
LEMMA AvailableIsNat == \A w, r \in Slot : Available(w, r) \in Nat
  BY RingBufferAssumption DEF Slot, Available

\* The writer's packet number is a real one from the start of a call to its end.
TypeInv ==
  /\ TypeOK
  /\ wpc \notin {"down", "idle"} => offered \in Packet

\* Type correctness is inductive once the number being written is known to be a packet.
LEMMA TypeInvStep == TypeInv /\ [Next]_vars => TypeInv'
<1> SUFFICES ASSUME TypeInv, [Next]_vars
             PROVE  TypeInv'
  OBVIOUS
<1> USE RingBufferAssumption, IncWraps DEF TypeInv, TypeOK, Packet, NoPacket, Torn
<1>1. CASE WriteCall
  BY <1>1 DEF WriteCall, header, reader, history
<1>2. CASE DropOldest
  BY <1>2 DEF DropOldest, reader
<1>18. CASE DropCount
  BY <1>18 DEF DropCount, reader, history
<1>19. CASE DropFlag
  BY <1>19 DEF DropFlag, reader, history
<1>3. CASE DropNewest
  BY <1>3 DEF DropNewest, reader, history
<1>4. CASE SpinAgain
  BY <1>4 DEF SpinAgain, header, reader, history
<1>5. CASE SpinTimeout
  BY <1>5 DEF SpinTimeout, reader, history
<1>6. CASE WriteCopyBegin
  BY <1>6 DEF WriteCopyBegin, header, reader, history
<1>7. CASE WriteCopyEnd
  BY <1>7 DEF WriteCopyEnd, header, reader, history
<1>8. CASE WritePublish
  BY <1>8 DEF WritePublish, reader
<1>9. CASE WriteCount
  BY <1>9 DEF WriteCount, reader, history
<1>10. CASE Read
  <2>1. CASE ReadLoadWrite
    BY <2>1 DEF ReadLoadWrite, header, writer, history
  <2>2. CASE ReadEmpty
    BY <2>2 DEF ReadEmpty, writer, history
  <2>3. CASE ReadLoadRead
    BY <2>3 DEF ReadLoadRead, header, writer, history
  <2>4. CASE ReadCopyBegin
    BY <2>4 DEF ReadCopyBegin, header, writer, history
  <2>5. CASE ReadCopyEnd
    BY <2>5 DEF ReadCopyEnd, header, writer, history
  <2>6. CASE ReadAdvance
    BY <2>6 DEF ReadAdvance, writer
  <2>7. CASE ReadCount
    BY <2>7 DEF ReadCount, writer, history
  <2>8. CASE ReadFindsNone
    BY <2>8 DEF ReadFindsNone, header, writer, history
  <2>9. CASE ReadFlag
    BY <2>9 DEF ReadFlag, writer, history
  <2>10. CASE ReadClear
    BY <2>10 DEF ReadClear, writer, history
  <2> QED
    BY <1>10, <2>1, <2>2, <2>3, <2>4, <2>5, <2>6, <2>7, <2>8, <2>9, <2>10 DEF Read
<1>11. CASE FlushLoad
  BY <1>11 DEF FlushLoad, header, writer
<1>12. CASE FlushStore
  <2>1. Available(r_write, read_idx) \in Nat
    BY AvailableIsNat
  <2>a. r_write \in Slot /\ discarded \in Nat
    OBVIOUS
  <2>b. read_idx' = r_write /\ discarded' = discarded + Available(r_write, read_idx) /\ rpc' = "idle"
    BY <1>12 DEF FlushStore
  <2>2. read_idx' \in Slot /\ discarded' \in Nat /\ rpc' = "idle"
    BY ONLY <2>a, <2>b, <2>1
  <2>3. /\ UNCHANGED <<overflow_policy, write_idx, overruns, underruns, total_written, total_read>>
        /\ UNCHANGED <<flags, packets, writer, r_write, r_read, r_copy>>
        /\ UNCHANGED <<published, delivered, dropped, crashes, flushes>>
    BY <1>12 DEF FlushStore
  <2> QED
    BY <2>2, <2>3 DEF writer
<1>13. CASE WriterCrash
  BY <1>13 DEF WriterCrash, header, reader
<1>14. CASE ReaderCrash
  BY <1>14 DEF ReaderCrash, header, writer
<1>15. CASE WriterAttach
  BY <1>15 DEF WriterAttach, reader, history
<1>16. CASE ReaderAttach
  BY <1>16 DEF ReaderAttach, writer, history
<1>17. CASE UNCHANGED vars
  BY <1>17 DEF vars, header, writer, reader, history
<1> QED
  BY <1>1, <1>2, <1>3, <1>4, <1>5, <1>6, <1>7, <1>8, <1>9, <1>10, <1>11, <1>12,
     <1>13, <1>14, <1>15, <1>16, <1>17, <1>18, <1>19 DEF Next, Write, Flush

\* The header, the slots and both processes' locals keep their types in every reachable
\* state: in particular both indexes stay inside the packet array.
THEOREM TypeCorrect == Spec => []TypeOK
<1>1. Init => TypeInv
  BY RingBufferAssumption DEF Init, TypeInv, TypeOK, Slot, Packet, NoPacket, Torn
<1>2. TypeInv => TypeOK
  BY DEF TypeInv
<1> QED
  BY <1>1, <1>2, TypeInvStep, PTL DEF Spec

----------------------------------------------------------------------------
(***************************************************************************)
(* Circular distances.  Available(w, r) counts the slots from r to w;      *)
(* Age(w, i) says how many publications ago slot i was last filled when    *)
(* the next one goes to w: 1 for the newest packet, Capacity for slot w.   *)
(***************************************************************************)
Age(w, i) == IF i < w THEN w - i ELSE w + Capacity - i

\* ring_buffer_available is at most Capacity - 1 and is zero only on an empty ring.
LEMMA AvailableFacts ==
  \A w, r \in Slot :
    /\ Available(w, r) \in 0..Capacity-1
    /\ Available(w, w) = 0
    /\ w # r => Available(w, r) > 0
    /\ IsFull(w, r) <=> Available(w, r) = Capacity - 1
  BY RingBufferAssumption, IncWraps DEF Available, IsFull, Slot

\* Publishing adds one held slot, taking removes one.
LEMMA AvailableMoves ==
  \A w, r \in Slot :
    /\ Available(w, r) < Capacity - 1 => Available(Inc(w), r) = Available(w, r) + 1
    /\ w # r => Available(w, Inc(r)) = Available(w, r) - 1
  BY RingBufferAssumption, IncWraps DEF Available, Slot

\* The slot just behind the write index is one publication old; each publication ages the rest.
LEMMA AgeFacts ==
  \A w, i \in Slot :
    /\ Age(w, i) \in 1..Capacity
    /\ Age(w, w) = Capacity
    /\ Age(Inc(w), w) = 1
    /\ w # i => Age(Inc(w), i) = Age(w, i) + 1
    /\ w # i => Age(w, i) = Available(w, i)
  BY RingBufferAssumption, IncWraps DEF Available, Age, Slot

\* A flush to a position on the way from r to w leaves what lies after it.
LEMMA AvailableSplits ==
  \A w, r, m \in Slot :
    Available(w, m) <= Available(w, r) =>
      Available(w, r) = Available(w, m) + Available(m, r)
  BY RingBufferAssumption DEF Available, Slot

----------------------------------------------------------------------------
(***************************************************************************)
(* Policies that never overwrite.  The argument: the writer copies and     *)
(* publishes only while a slot besides write_idx is free, the reader works *)
(* on a slot strictly before write_idx, and between the two the slots hold *)
(* the tail of the published sequence.                                     *)
(***************************************************************************)

\* From the moment the writer saw room until it publishes, there is room.
RoomInv ==
  wpc \in {"dropped", "counted", "room", "copying", "copied"} => Available(write_idx, read_idx) < Capacity - 1

\* A finished copy is the packet of the call, in the slot about to be published.
CopiedInv == wpc = "copied" => packets[write_idx] = offered

\* The reader's loaded indexes are still right when it uses them.
ReaderInv ==
  /\ rpc = "loaded" /\ read_idx # r_write => read_idx # write_idx
  /\ rpc \in {"found", "copying", "copied"} => r_read = read_idx /\ read_idx # write_idx
  /\ rpc \in {"copying", "copied"} => r_copy = packets[r_read]
  /\ rpc = "flushing" => Available(write_idx, r_write) <= Available(write_idx, read_idx)

\* Every published packet was taken, is held, or was flushed.
CountInv == Len(published) = Len(delivered) + Available(write_idx, read_idx) + discarded

\* The held slots are the tail of the published sequence.
SlotsInv ==
  \A i \in Slot : Age(write_idx, i) <= Available(write_idx, read_idx) =>
    packets[i] = published[Len(published) + 1 - Age(write_idx, i)]

SafeInv ==
  /\ TypeInv
  /\ RoomInv /\ CopiedInv /\ ReaderInv /\ CountInv /\ SlotsInv
  /\ delivered \in Seq(Packet)

\* The slot the reader works on is one of the held ones, so it holds a whole packet.
LEMMA ReaderSlotIsHeld ==
  ASSUME SafeInv, read_idx # write_idx
  PROVE  packets[read_idx] \in Packet
<1>1. write_idx \in Slot /\ read_idx \in Slot /\ published \in Seq(Packet)
      /\ delivered \in Seq(Packet) /\ discarded \in Nat
  BY DEF SafeInv, TypeInv, TypeOK
<1>2. Age(write_idx, read_idx) = Available(write_idx, read_idx)
  BY <1>1, AgeFacts
<1>3. Available(write_idx, read_idx) \in Nat \ {0}
  BY <1>1, AvailableFacts
<1>4. Len(published) + 1 - Age(write_idx, read_idx) \in 1..Len(published)
  BY <1>1, <1>2, <1>3 DEF SafeInv, CountInv
<1>5. packets[read_idx] = published[Len(published) + 1 - Age(write_idx, read_idx)]
  BY <1>1, <1>2, <1>3 DEF SafeInv, SlotsInv
<1> QED
  BY <1>1, <1>4, <1>5

\* The writer's steps keep the safety invariant.
LEMMA WriteKeepsSafe ==
  ASSUME ~Overwrites, SafeInv, TypeInv', Write
  PROVE  SafeInv'
<1>t. /\ write_idx \in Slot /\ read_idx \in Slot /\ r_write \in Slot
      /\ packets \in [Slot -> Packet \union {NoPacket, Torn}]
      /\ published \in Seq(Packet) /\ delivered \in Seq(Packet)
      /\ discarded \in Nat
  BY DEF SafeInv, TypeInv, TypeOK
<1>o. wpc \notin {"down", "idle"} => offered \in Packet
  BY DEF SafeInv, TypeInv
<1>i. /\ RoomInv /\ CopiedInv /\ ReaderInv /\ CountInv /\ SlotsInv
  BY DEF SafeInv
<1>a. /\ Available(write_idx, read_idx) \in 0..Capacity-1
      /\ IsFull(write_idx, read_idx) <=> Available(write_idx, read_idx) = Capacity - 1
      /\ Age(write_idx, write_idx) = Capacity
      /\ Capacity \in Nat \ {0} /\ Len(published) \in Nat /\ Len(delivered) \in Nat
  <2>1. Capacity \in Nat \ {0} /\ Len(published) \in Nat /\ Len(delivered) \in Nat
    BY <1>t, RingBufferAssumption
  <2>2. Age(write_idx, write_idx) = Capacity
    BY <1>t, AgeFacts
  <2> QED
    BY <1>t, <2>1, <2>2, AvailableFacts
<1>f. ASSUME UNCHANGED <<write_idx, read_idx, packets, published, delivered, discarded>>,
             UNCHANGED reader, RoomInv', CopiedInv'
      PROVE  SafeInv'
  <2>1. ReaderInv'
    BY <1>f, <1>i DEF ReaderInv, reader
  <2>2. CountInv' /\ SlotsInv'
    BY <1>f, <1>i DEF CountInv, SlotsInv
  <2> QED
    BY <1>f, <1>t, <2>1, <2>2 DEF SafeInv
<1>1. CASE WriteCall
  <2>1. RoomInv' /\ CopiedInv'
    BY <1>1, <1>a DEF WriteCall, header, RoomInv, CopiedInv
  <2> QED
    BY <1>1, <1>f, <2>1 DEF WriteCall, header, history
<1>2. CASE DropOldest
  BY <1>2 DEF DropOldest, Overwrites
<1>10. CASE DropCount
  <2>1. RoomInv' /\ CopiedInv'
    BY <1>10, <1>i DEF DropCount, RoomInv, CopiedInv
  <2> QED
    BY <1>10, <1>f, <2>1 DEF DropCount, history
<1>11. CASE DropFlag
  <2>1. RoomInv' /\ CopiedInv'
    BY <1>11, <1>i DEF DropFlag, RoomInv, CopiedInv
  <2> QED
    BY <1>11, <1>f, <2>1 DEF DropFlag, history
<1>3. CASE DropNewest
  <2>1. RoomInv' /\ CopiedInv'
    BY <1>3 DEF DropNewest, RoomInv, CopiedInv
  <2> QED
    BY <1>3, <1>f, <2>1 DEF DropNewest, history
<1>4. CASE SpinAgain
  <2>1. RoomInv' /\ CopiedInv'
    BY <1>4, <1>a DEF SpinAgain, header, RoomInv, CopiedInv
  <2> QED
    BY <1>4, <1>f, <2>1 DEF SpinAgain, header, history
<1>5. CASE SpinTimeout
  <2>1. RoomInv' /\ CopiedInv'
    BY <1>5 DEF SpinTimeout, RoomInv, CopiedInv
  <2> QED
    BY <1>5, <1>f, <2>1 DEF SpinTimeout, history
<1>6. CASE WriteCopyBegin \/ WriteCopyEnd
  <2>1. /\ UNCHANGED <<write_idx, read_idx, offered, published, delivered, discarded, reader>>
        /\ \A i \in Slot \ {write_idx} : packets'[i] = packets[i]
    BY <1>6, <1>t DEF WriteCopyBegin, WriteCopyEnd, header, history
  <2>2. RoomInv' /\ CopiedInv'
    BY <1>6, <1>t, <1>i DEF WriteCopyBegin, WriteCopyEnd, header, RoomInv, CopiedInv
  <2>3. ReaderInv'
    BY <2>1, <1>t, <1>i DEF ReaderInv, reader
  <2>4. Available(write_idx, read_idx) < Age(write_idx, write_idx)
    BY <1>a
  <2>5. CountInv' /\ SlotsInv'
    <3>1. CountInv'
      BY <2>1, <1>i DEF CountInv
    <3>2. ASSUME NEW i \in Slot, Age(write_idx, i) <= Available(write_idx, read_idx)
          PROVE  packets'[i] = published[Len(published) + 1 - Age(write_idx, i)]
      <4>1. i # write_idx
        BY <3>2, <1>a
      <4> QED
        BY <3>2, <4>1, <2>1, <1>i DEF SlotsInv
    <3> QED
      BY <3>1, <3>2, <2>1 DEF SlotsInv
  <2> QED
    BY <2>1, <2>2, <2>3, <2>5, <1>t DEF SafeInv
<1>8. CASE WritePublish
  <2>1. /\ write_idx' = Inc(write_idx)
        /\ published' = Append(published, offered)
        /\ wpc = "copied" /\ wpc' = "count"
        /\ UNCHANGED <<read_idx, packets, offered, delivered, discarded, reader>>
    BY <1>8 DEF WritePublish
  <2>2. /\ Available(write_idx, read_idx) < Capacity - 1
        /\ Available(Inc(write_idx), read_idx) = Available(write_idx, read_idx) + 1
    BY <2>1, <1>i, <1>t, AvailableMoves DEF RoomInv
  <2>3. CountInv'
    BY <2>1, <2>2, <1>i, <1>t, AvailableFacts DEF CountInv
  <2>4. ReaderInv'
    <3>1. read_idx # Inc(write_idx)
      BY <2>2, <1>t, AvailableFacts, IncWraps
    <3>2. Available(write_idx, r_write) < Capacity - 1 =>
            Available(Inc(write_idx), r_write) = Available(write_idx, r_write) + 1
      BY <1>t, AvailableMoves
    <3>3. /\ Available(write_idx, r_write) \in Int
          /\ Available(write_idx, read_idx) \in Int
      BY <1>t, AvailableFacts
    <3> QED
      BY <2>1, <2>2, <3>1, <3>2, <3>3, <1>i, RingBufferAssumption DEF ReaderInv, reader
  <2>5. SlotsInv'
    <3> SUFFICES ASSUME NEW i \in Slot,
                        Age(Inc(write_idx), i) <= Available(Inc(write_idx), read_idx)
                 PROVE  packets[i] =
                          published'[Len(published') + 1 - Age(Inc(write_idx), i)]
      BY <2>1 DEF SlotsInv
    <3>1. CASE i = write_idx
      BY <2>1, <3>1, <1>t, <1>o, <1>i, AgeFacts DEF CopiedInv
    <3>2. CASE i # write_idx
      <4>1. Age(Inc(write_idx), i) = Age(write_idx, i) + 1 /\ Age(write_idx, i) \in Nat \ {0}
        <5>1. Age(write_idx, i) \in 1 .. Capacity
          BY <1>t, AgeFacts
        <5>2. Age(Inc(write_idx), i) = Age(write_idx, i) + 1
          BY <3>2, <1>t, AgeFacts
        <5> QED BY <5>1, <5>2, <1>a
      <4>2. Age(write_idx, i) <= Available(write_idx, read_idx)
        BY <2>2, <4>1, <1>t, AvailableFacts
      <4>3. Len(published) + 1 - Age(write_idx, i) \in 1..Len(published)
        BY <4>1, <4>2, <1>i, <1>t, <1>a DEF CountInv
      <4>4. packets[i] = published[Len(published) + 1 - Age(write_idx, i)]
        BY <4>2, <1>i DEF SlotsInv
      <4> QED
        BY <2>1, <4>1, <4>3, <4>4, <1>t, <1>o
    <3> QED
      BY <3>1, <3>2
  <2> QED
    BY <2>1, <2>3, <2>4, <2>5, <1>t DEF SafeInv, RoomInv, CopiedInv
<1>9. CASE WriteCount
  <2>1. RoomInv' /\ CopiedInv'
    BY <1>9 DEF WriteCount, RoomInv, CopiedInv
  <2> QED
    BY <1>9, <1>f, <2>1 DEF WriteCount, history
<1> QED
  BY <1>1, <1>2, <1>3, <1>4, <1>5, <1>6, <1>8, <1>9, <1>10, <1>11 DEF Write

\* The reader's steps, a kill or a restart of either side keep the safety invariant.
LEMMA OthersKeepSafe ==
  ASSUME SafeInv, TypeInv',
         Read \/ Flush \/ WriterCrash \/ ReaderCrash \/ WriterAttach \/ ReaderAttach
  PROVE  SafeInv'
<1>t. /\ write_idx \in Slot /\ read_idx \in Slot /\ r_write \in Slot
      /\ published \in Seq(Packet) /\ delivered \in Seq(Packet)
      /\ discarded \in Nat /\ Capacity \in Nat \ {0}
      /\ Len(published) \in Nat /\ Len(delivered) \in Nat
  <2>1. /\ write_idx \in Slot /\ read_idx \in Slot /\ r_write \in Slot
        /\ published \in Seq(Packet) /\ delivered \in Seq(Packet) /\ discarded \in Nat
    BY DEF SafeInv, TypeInv, TypeOK
  <2> QED
    BY <2>1, RingBufferAssumption
<1>i. /\ RoomInv /\ CopiedInv /\ ReaderInv /\ CountInv /\ SlotsInv
  BY DEF SafeInv
<1>a. /\ Available(write_idx, read_idx) \in 0..Capacity-1
      /\ Available(write_idx, r_write) \in 0..Capacity-1
      /\ Available(write_idx, write_idx) = 0
  BY <1>t, AvailableFacts
<1>f. ASSUME UNCHANGED <<write_idx, read_idx, packets, published, delivered, discarded, offered>>,
             wpc' \in {wpc, "down", "idle"}, ReaderInv'
      PROVE  SafeInv'
  <2>1. RoomInv' /\ CopiedInv'
    BY <1>f, <1>i DEF RoomInv, CopiedInv
  <2>2. CountInv' /\ SlotsInv'
    BY <1>f, <1>i DEF CountInv, SlotsInv
  <2> QED
    BY <1>f, <1>t, <2>1, <2>2 DEF SafeInv
<1>1. CASE ReadLoadWrite
  <2>1. ReaderInv'
    BY <1>1 DEF ReadLoadWrite, header, ReaderInv
  <2> QED
    BY <1>1, <2>1, <1>f DEF ReadLoadWrite, header, writer, history
<1>2. CASE ReadFindsNone
  <2>1. ReaderInv'
    BY <1>2 DEF ReadFindsNone, ReaderInv
  <2> QED
    BY <1>2, <2>1, <1>f DEF ReadFindsNone, header, writer, history
<1>14. CASE ReadEmpty \/ ReadFlag
  <2>1. ReaderInv'
    BY <1>14 DEF ReadEmpty, ReadFlag, ReaderInv
  <2> QED
    BY <1>14, <2>1, <1>f DEF ReadEmpty, ReadFlag, writer, history
<1>3. CASE ReadLoadRead
  <2>1. ReaderInv'
    BY <1>3, <1>i DEF ReadLoadRead, header, ReaderInv
  <2> QED
    BY <1>3, <2>1, <1>f DEF ReadLoadRead, header, writer, history
<1>4. CASE ReadCopyBegin
  <2>1. ReaderInv'
    BY <1>4, <1>i DEF ReadCopyBegin, header, ReaderInv
  <2> QED
    BY <1>4, <2>1, <1>f DEF ReadCopyBegin, header, writer, history
<1>5. CASE ReadCopyEnd
  <2>1. ReaderInv'
    BY <1>5, <1>i DEF ReadCopyEnd, header, ReaderInv
  <2> QED
    BY <1>5, <2>1, <1>f DEF ReadCopyEnd, header, writer, history
<1>6. CASE ReadAdvance
  <2>1. /\ r_read = read_idx /\ read_idx # write_idx /\ r_copy = packets[read_idx]
        /\ read_idx' = Inc(read_idx) /\ delivered' = Append(delivered, r_copy)
        /\ rpc' = "count"
        /\ UNCHANGED <<write_idx, packets, writer, published, discarded>>
    BY <1>6, <1>i DEF ReadAdvance, ReaderInv
  <2>2. Available(write_idx, Inc(read_idx)) = Available(write_idx, read_idx) - 1
    BY <2>1, <1>t, AvailableMoves
  <2>3. RoomInv' /\ CopiedInv'
    BY <2>1, <2>2, <1>i, <1>a, <1>t DEF RoomInv, CopiedInv, writer
  <2>4. ReaderInv'
    BY <2>1 DEF ReaderInv
  <2>5. CountInv'
    <3>1. Len(delivered') = Len(delivered) + 1
      BY <2>1, <1>t
    <3> QED
      BY <2>1, <2>2, <3>1, <1>i, <1>a, <1>t DEF CountInv
  <2>6. SlotsInv'
    <3> SUFFICES ASSUME NEW i \in Slot,
                        Age(write_idx, i) <= Available(write_idx, Inc(read_idx))
                 PROVE  packets[i] = published[Len(published) + 1 - Age(write_idx, i)]
      BY <2>1 DEF SlotsInv
    <3>1. Age(write_idx, i) \in Nat
      BY <1>t, AgeFacts
    <3> QED
      BY <3>1, <2>2, <1>i, <1>a, <1>t DEF SlotsInv
  <2>7. delivered' \in Seq(Packet)
    BY <2>1, <1>t, ReaderSlotIsHeld
  <2> QED
    BY <2>3, <2>4, <2>5, <2>6, <2>7 DEF SafeInv
<1>7. CASE ReadCount \/ ReadClear
  <2>1. ReaderInv'
    BY <1>7 DEF ReadCount, ReadClear, ReaderInv
  <2> QED
    BY <1>7, <2>1, <1>f DEF ReadCount, ReadClear, writer, history
<1>8. CASE FlushLoad
  <2>1. ReaderInv'
    BY <1>8, <1>a, <1>t DEF FlushLoad, header, ReaderInv
  <2> QED
    BY <1>8, <2>1, <1>f DEF FlushLoad, header, writer
<1>9. CASE FlushStore
  <2>1. /\ Available(write_idx, r_write) <= Available(write_idx, read_idx)
        /\ read_idx' = r_write /\ rpc' = "idle"
        /\ discarded' = discarded + Available(r_write, read_idx)
        /\ UNCHANGED <<write_idx, packets, writer, published, delivered>>
    BY <1>9, <1>i DEF FlushStore, ReaderInv
  <2>2. /\ Available(write_idx, read_idx) =
             Available(write_idx, r_write) + Available(r_write, read_idx)
        /\ Available(r_write, read_idx) \in Nat
    BY <2>1, <1>t, AvailableSplits, AvailableFacts
  <2>3. RoomInv' /\ CopiedInv'
    BY <2>1, <1>i, <1>a, <1>t DEF RoomInv, CopiedInv, writer
  <2>4. ReaderInv'
    BY <2>1 DEF ReaderInv
  <2>5. CountInv'
    BY <2>1, <2>2, <1>i, <1>a, <1>t DEF CountInv
  <2>6. SlotsInv'
    <3> SUFFICES ASSUME NEW i \in Slot,
                        Age(write_idx, i) <= Available(write_idx, r_write)
                 PROVE  packets[i] = published[Len(published) + 1 - Age(write_idx, i)]
      BY <2>1 DEF SlotsInv
    <3>1. Age(write_idx, i) \in Nat
      BY <1>t, AgeFacts
    <3> QED
      BY <3>1, <2>1, <1>i, <1>a, <1>t DEF SlotsInv
  <2> QED
    BY <2>1, <2>3, <2>4, <2>5, <2>6, <1>t DEF SafeInv
<1>10. CASE WriterCrash
  <2>1. ReaderInv'
    BY <1>10, <1>i DEF WriterCrash, header, reader, ReaderInv
  <2> QED
    BY <1>10, <2>1, <1>f DEF WriterCrash, header
<1>11. CASE ReaderCrash
  <2>1. ReaderInv'
    BY <1>11 DEF ReaderCrash, ReaderInv
  <2> QED
    BY <1>11, <2>1, <1>f DEF ReaderCrash, header, writer
<1>12. CASE WriterAttach
  <2>1. ReaderInv'
    BY <1>12, <1>i DEF WriterAttach, reader, ReaderInv
  <2> QED
    BY <1>12, <2>1, <1>f DEF WriterAttach, history
<1>13. CASE ReaderAttach
  <2>1. ReaderInv'
    BY <1>13 DEF ReaderAttach, ReaderInv
  <2> QED
    BY <1>13, <2>1, <1>f DEF ReaderAttach, writer, history
<1> QED
  BY <1>1, <1>2, <1>3, <1>4, <1>5, <1>6, <1>7, <1>8, <1>9, <1>10, <1>11, <1>12, <1>13, <1>14
     DEF Read, Flush

\* The policy is fixed at creation.
LEMMA PolicyIsFixed == [Next]_vars => overflow_policy' = overflow_policy
  BY DEF Next, Write, Read, Flush, vars, header,
     WriteCall, DropOldest, DropCount, DropFlag, DropNewest, SpinAgain, SpinTimeout, WriteCopyBegin,
     WriteCopyEnd, WritePublish, WriteCount, ReadLoadWrite, ReadFindsNone, ReadEmpty, ReadFlag,
     ReadLoadRead, ReadCopyBegin, ReadCopyEnd, ReadAdvance, ReadCount, ReadClear, FlushLoad, FlushStore,
     WriterCrash, ReaderCrash, WriterAttach, ReaderAttach

\* The safety invariant of a ring that does not overwrite is inductive.
THEOREM SafeInvariant == Spec => [](~Overwrites => SafeInv)
<1>1. Init => (~Overwrites => SafeInv)
  <2> SUFFICES ASSUME Init PROVE SafeInv
    OBVIOUS
  <2>1. TypeInv
    BY RingBufferAssumption DEF Init, TypeInv, TypeOK, Slot, Packet, NoPacket, Torn
  <2>2. Available(write_idx, read_idx) = 0
    BY DEF Init, Available
  <2>3. SlotsInv
    BY <2>2, RingBufferAssumption DEF Init, SlotsInv, Age, Slot
  <2>4. RoomInv /\ CopiedInv /\ ReaderInv
    BY DEF Init, RoomInv, CopiedInv, ReaderInv
  <2>5. CountInv /\ delivered \in Seq(Packet)
    BY <2>2 DEF Init, CountInv
  <2> QED
    BY <2>1, <2>3, <2>4, <2>5 DEF SafeInv
<1>2. (~Overwrites => SafeInv) /\ [Next]_vars => (~Overwrites => SafeInv)'
  <2> SUFFICES ASSUME ~Overwrites => SafeInv, [Next]_vars, ~Overwrites' PROVE SafeInv'
    OBVIOUS
  <2>1. ~Overwrites /\ SafeInv
    BY PolicyIsFixed DEF Overwrites
  <2>2. TypeInv'
    BY <2>1, TypeInvStep DEF SafeInv
  <2>3. CASE UNCHANGED vars
    BY <2>1, <2>2, <2>3 DEF vars, header, writer, reader, history,
       SafeInv, RoomInv, CopiedInv, ReaderInv, CountInv, SlotsInv
  <2> QED
    BY <2>1, <2>2, <2>3, WriteKeepsSafe, OthersKeepSafe DEF Next
<1> QED
  BY <1>1, <1>2, PTL DEF Spec

\* Unless the ring overwrites, the reader is never handed a torn or unwritten packet.
THEOREM RefusingIsWholeHolds == Spec => []RefusingIsWhole
<1>1. (~Overwrites => SafeInv) => RefusingIsWhole
  BY DEF SafeInv, NoTornDelivery, RefusingIsWhole
<1> QED
  BY <1>1, SafeInvariant, PTL

\* Unless the ring overwrites, published packets are taken, held or flushed: none vanishes.
THEOREM NothingVanishesHolds == Spec => []NothingVanishes
<1>1. (~Overwrites => SafeInv) => NothingVanishes
  <2> SUFFICES ASSUME ~Overwrites, SafeInv PROVE NothingVanishes
    BY DEF NothingVanishes
  <2>1. Available(write_idx, read_idx) \in Nat
    BY AvailableFacts, RingBufferAssumption DEF SafeInv, TypeInv, TypeOK
  <2>2. Len(Held) = Available(write_idx, read_idx)
    BY <2>1 DEF Held
  <2> QED
    BY <2>2 DEF SafeInv, CountInv, NothingVanishes
<1> QED
  BY <1>1, SafeInvariant, PTL

-----------------------------------------------------------------------------
(***************************************************************************)
(* The statistics.  What a call in progress has not counted yet is written *)
(* off when the process is killed, so the lag grows only with the kills.   *)
(***************************************************************************)

Unfinished == IF Writing THEN 1 ELSE 0
Uncounted(pc) == IF pc = "count" THEN 1 ELSE 0

\* How far each counter is behind what happened.
WrittenLag == Len(published) - total_written - Uncounted(wpc)
ReadLag == Len(delivered) - total_read - Uncounted(rpc)
OverrunLag == offered - Len(published) - Unfinished - overruns
DropLag == dropped - overruns - IF wpc = "dropped" THEN 1 ELSE 0

LagInv ==
  /\ WrittenLag \in 0 .. crashes /\ ReadLag \in 0 .. crashes
  /\ IF Overwrites THEN DropLag <= crashes
     ELSE wpc \notin {"dropped", "counted"} /\ OverrunLag \in 0 .. crashes

\* Only a kill widens a lag, and by at most the one call it cuts off.
LEMMA LagInvStep == TypeInv /\ LagInv /\ [Next]_vars => LagInv'
<1> SUFFICES ASSUME TypeInv, LagInv, [Next]_vars PROVE LagInv'
  OBVIOUS
<1>t. /\ published \in Seq(Packet) /\ delivered \in Seq(Packet \union {NoPacket, Torn})
      /\ offered \in Int /\ overruns \in Int /\ total_written \in Int /\ total_read \in Int
      /\ crashes \in Nat /\ dropped \in Int /\ Len(published) \in Nat /\ Len(delivered) \in Nat
      /\ offered \in Packet \/ wpc \in {"down", "idle"}
      /\ r_copy \in Packet \union {NoPacket, Torn}
  BY RingBufferAssumption DEF TypeInv, TypeOK
<1>p. overflow_policy' = overflow_policy
  BY PolicyIsFixed
<1> USE <1>t, <1>p DEF LagInv, WrittenLag, ReadLag, OverrunLag, DropLag, Unfinished, Writing, Uncounted,
             Overwrites
<1>1. CASE WriteCall
  BY <1>1 DEF WriteCall, header, reader, history
<1>2. CASE DropOldest \/ DropCount \/ DropFlag \/ DropNewest \/ SpinAgain \/ SpinTimeout
  <2>1. CASE DropOldest
    BY <2>1 DEF DropOldest, header, reader
  <2>5. CASE DropCount
    BY <2>5 DEF DropCount, header, reader, history
  <2>6. CASE DropFlag
    BY <2>6 DEF DropFlag, header, reader, history
  <2>2. CASE DropNewest
    BY <2>2 DEF DropNewest, header, reader, history
  <2>3. CASE SpinAgain
    BY <2>3 DEF SpinAgain, header, reader, history
  <2>4. CASE SpinTimeout
    BY <2>4 DEF SpinTimeout, header, reader, history
  <2> QED
    BY <1>2, <2>1, <2>2, <2>3, <2>4, <2>5, <2>6
<1>3. CASE WriteCopyBegin \/ WriteCopyEnd \/ WriteCount
  <2>1. CASE WriteCopyBegin
    BY <2>1 DEF WriteCopyBegin, header, reader, history
  <2>2. CASE WriteCopyEnd
    BY <2>2 DEF WriteCopyEnd, header, reader, history
  <2>3. CASE WriteCount
    BY <2>3 DEF WriteCount, header, reader, history
  <2> QED
    BY <1>3, <2>1, <2>2, <2>3
<1>4. CASE WritePublish
  <2>1. Len(published') = Len(published) + 1
    BY <1>4 DEF WritePublish
  <2> QED
    BY <1>4, <2>1 DEF WritePublish, reader
<1>5. CASE ReadAdvance
  <2>1. Len(delivered') = Len(delivered) + 1
    BY <1>5 DEF ReadAdvance
  <2> QED
    BY <1>5, <2>1 DEF ReadAdvance, writer
<1>6. CASE \/ ReadLoadWrite \/ ReadFindsNone \/ ReadEmpty \/ ReadFlag \/ ReadLoadRead
           \/ ReadCopyBegin \/ ReadCopyEnd \/ ReadCount \/ ReadClear
  <2>1. CASE ReadLoadWrite
    BY <2>1 DEF ReadLoadWrite, header, writer, history
  <2>2. CASE ReadEmpty
    BY <2>2 DEF ReadEmpty, header, writer, history
  <2>3. CASE ReadLoadRead
    BY <2>3 DEF ReadLoadRead, header, writer, history
  <2>4. CASE ReadCopyBegin
    BY <2>4 DEF ReadCopyBegin, header, writer, history
  <2>5. CASE ReadCopyEnd
    BY <2>5 DEF ReadCopyEnd, header, writer, history
  <2>6. CASE ReadCount
    BY <2>6 DEF ReadCount, header, writer, history
  <2>7. CASE ReadFindsNone \/ ReadFlag \/ ReadClear
    BY <2>7 DEF ReadFindsNone, ReadFlag, ReadClear, header, writer, history
  <2> QED
    BY <1>6, <2>1, <2>2, <2>3, <2>4, <2>5, <2>6, <2>7
<1>7. CASE Flush
  BY <1>7 DEF Flush, FlushLoad, FlushStore, header, writer
<1>8. CASE WriterCrash \/ ReaderCrash
  <2>1. CASE WriterCrash
    BY <2>1 DEF WriterCrash, header, writer, reader
  <2>2. CASE ReaderCrash
    BY <2>2 DEF ReaderCrash, header, writer, reader
  <2> QED
    BY <1>8, <2>1, <2>2
<1>9. CASE WriterAttach \/ ReaderAttach
  BY <1>9 DEF WriterAttach, ReaderAttach, writer, reader, history
<1>10. CASE UNCHANGED vars
  BY <1>10 DEF vars, header, writer, reader, history
<1> QED
  BY <1>1, <1>2, <1>3, <1>4, <1>5, <1>6, <1>7, <1>8, <1>9, <1>10 DEF Next, Write, Read

\* What the header says of packets written, read, refused and pushed out is what happened, but
\* for one call in progress on each side and one call for each kill.
THEOREM StatisticsAreHonestHolds == Spec => []StatisticsAreHonest
<1>1. Init => TypeInv /\ LagInv
  BY RingBufferAssumption DEF Init, TypeInv, TypeOK, Slot, Packet, NoPacket, Torn, LagInv,
     WrittenLag, ReadLag, OverrunLag, DropLag, Unfinished, Writing, Uncounted, Overwrites
<1>2. TypeInv /\ LagInv => StatisticsAreHonest
  <2> SUFFICES ASSUME TypeInv, LagInv PROVE StatisticsAreHonest
    OBVIOUS
  <2>1. /\ offered \in Int /\ overruns \in Int /\ total_written \in Int /\ total_read \in Int
        /\ crashes \in Nat /\ dropped \in Int /\ Len(published) \in Nat /\ Len(delivered) \in Nat
    BY RingBufferAssumption DEF TypeInv, TypeOK
  <2> QED
    BY <2>1 DEF LagInv, WrittenLag, ReadLag, OverrunLag, DropLag, Unfinished, Writing, Uncounted,
       StatisticsAreHonest, StatisticsLag, OverrunsCountLosses
<1> QED
  BY <1>1, <1>2, TypeInvStep, LagInvStep, PTL DEF Spec
=============================================================================
