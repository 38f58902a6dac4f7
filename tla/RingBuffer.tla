---------------------------- MODULE RingBuffer ----------------------------
(***************************************************************************)
(* The data path of src/src/common/ring_buffer.c: the header's indexes,    *)
(* statistics and flags, the packet slots, one writer process and one      *)
(* reader process, each of which may be killed at any step and restarted   *)
(* on the segment that survives it.                                        *)
(*                                                                         *)
(* Every atomic access of the header is a step of its own.  A packet is    *)
(* the number of the ring_buffer_write call that carries it; memcpy takes  *)
(* two steps, and whatever a reader copies from a slot that is written     *)
(* meanwhile is Torn, the unspecified mixture a racing memcpy produces.    *)
(***************************************************************************)
EXTENDS Integers, Sequences, Functions

CONSTANTS
  Capacity,      \* header->capacity
  PoliciesUsed,  \* bound: the overflow policies a creator may ask for
  SpinLimit,     \* 1000 in the code: how often a blocked writer looks again
  MaxPackets,    \* bound: calls of ring_buffer_write
  MaxCrashes,    \* bound: kills of either process
  MaxFlushes,    \* bound: calls of ring_buffer_flush
  MaxUnderruns   \* bound: where the underrun statistic saturates

Policies == {"DROP_OLDEST", "BLOCK_WRITER", "DROP_NEWEST"}

ASSUME RingBufferAssumption ==
  /\ Capacity \in Nat \ {0}
  /\ PoliciesUsed \subseteq Policies
  /\ SpinLimit \in Nat \ {0}
  /\ {MaxPackets, MaxCrashes, MaxFlushes, MaxUnderruns} \subseteq Nat

Slot == 0..Capacity-1
Packet == 1..MaxPackets
NoPacket == 0
Torn == -1

VARIABLES
  write_idx, read_idx,                  \* header, atomic
  overruns, underruns,                  \* header, atomic
  total_written, total_read,            \* header, atomic
  flags,                                \* header, atomic: the bits that are set
  overflow_policy,                      \* header, fixed by the creator
  packets,                              \* the packet array behind the header
  wpc, w_read, w_spins, offered,        \* writer: program counter and locals
  rpc, r_write, r_read, r_copy,         \* reader: program counter and locals
  published, delivered, discarded,      \* history: what went in, out, and was flushed
  dropped,                              \* history: packets that DROP_OLDEST pushed out
  crashes, flushes                      \* history: what MaxCrashes and MaxFlushes bound

header == <<write_idx, read_idx, overruns, underruns, total_written, total_read, flags,
            overflow_policy>>
writer == <<wpc, w_read, w_spins, offered>>
reader == <<rpc, r_write, r_read, r_copy>>
history == <<published, delivered, discarded, dropped, crashes, flushes>>
vars == <<header, packets, writer, reader, history>>

\* Mutant of Inc: the wrap-around forgotten.
IncNoWrap(i) == i + 1

\* (i + 1) % header->capacity
Inc(i) == (i + 1) % Capacity

\* Mutant of IsFull: the last slot is used too, so that a full ring looks empty.
IsFullLastSlot(w, r) == FALSE

\* ring_buffer_full: one slot stays free to tell full from empty.
IsFull(w, r) == Inc(w) = r

\* ring_buffer_available
Available(w, r) == IF w >= r THEN w - r ELSE Capacity - r + w

\* The packets a reader would find, oldest first.
Held == [k \in 1..Available(write_idx, read_idx) |-> packets[(read_idx + k - 1) % Capacity]]

Init ==
  /\ write_idx = 0 /\ read_idx = 0
  /\ overruns = 0 /\ underruns = 0
  /\ total_written = 0 /\ total_read = 0
  /\ flags = {"WRITER_PRESENT", "READER_PRESENT"}
  /\ overflow_policy \in PoliciesUsed
  /\ packets = [i \in Slot |-> NoPacket]
  /\ wpc = "idle" /\ w_read = 0 /\ w_spins = 0 /\ offered = 0
  /\ rpc = "idle" /\ r_write = 0 /\ r_read = 0 /\ r_copy = NoPacket
  /\ published = <<>> /\ delivered = <<>> /\ discarded = 0 /\ dropped = 0
  /\ crashes = 0 /\ flushes = 0

----------------------------------------------------------------------------
\* The writer: ring_buffer_write.

\* write_idx is only ever stored by the writer, so its load merges with read_idx's.
WriteCall ==
  /\ wpc = "idle"
  /\ offered < MaxPackets
  /\ offered' = offered + 1
  /\ w_read' = read_idx
  /\ wpc' = IF IsFull(write_idx, read_idx) THEN "full" ELSE "room"
  /\ UNCHANGED <<header, packets, w_spins, reader, history>>

\* One compare-and-swap whose outcome is ignored: the writer goes on to copy.
DropOldest ==
  /\ wpc = "full"
  /\ overflow_policy = "DROP_OLDEST"
  /\ IF read_idx = w_read
       THEN read_idx' = Inc(w_read) /\ dropped' = dropped + 1
       ELSE UNCHANGED <<read_idx, dropped>>
  /\ wpc' = "dropped"
  /\ UNCHANGED <<overflow_policy, write_idx, overruns, underruns, total_written, total_read, flags,
                 packets, w_read, w_spins, offered, reader,
                 published, delivered, discarded, crashes, flushes>>

\* Mutant of DropCount: a drop is not an overrun.
DropUncounted ==
  /\ wpc = "dropped"
  /\ wpc' = "counted"
  /\ UNCHANGED <<header, packets, w_read, w_spins, offered, reader, history>>

DropCount ==
  /\ wpc = "dropped"
  /\ overruns' = overruns + 1
  /\ wpc' = "counted"
  /\ UNCHANGED <<overflow_policy, write_idx, read_idx, underruns, total_written, total_read, flags,
                 packets, w_read, w_spins, offered, reader, history>>

DropFlag ==
  /\ wpc = "counted"
  /\ flags' = flags \union {"OVERFLOW"}
  /\ wpc' = "room"
  /\ UNCHANGED <<overflow_policy, write_idx, read_idx, overruns, underruns, total_written, total_read,
                 packets, w_read, w_spins, offered, reader, history>>

DropNewest ==
  /\ wpc = "full"
  /\ overflow_policy = "DROP_NEWEST"
  /\ overruns' = overruns + 1
  /\ wpc' = "idle"
  /\ UNCHANGED <<overflow_policy, write_idx, read_idx, underruns, total_written, total_read, flags,
                 packets, w_read, w_spins, offered, reader, history>>

\* One turn of the spin loop: look again, leave on room, else sleep and count.
SpinAgain ==
  /\ wpc = "full"
  /\ overflow_policy = "BLOCK_WRITER"
  /\ w_spins < SpinLimit
  /\ w_read' = read_idx
  /\ IF IsFull(write_idx, read_idx)
       THEN wpc' = wpc /\ w_spins' = w_spins + 1
       ELSE wpc' = "room" /\ w_spins' = 0
  /\ UNCHANGED <<header, packets, offered, reader, history>>

\* Mutant of SpinTimeout: the wait starts over instead of giving up.
SpinForever ==
  /\ wpc = "full"
  /\ overflow_policy = "BLOCK_WRITER"
  /\ w_spins = SpinLimit
  /\ w_spins' = 0
  /\ UNCHANGED <<header, packets, wpc, w_read, offered, reader, history>>

SpinTimeout ==
  /\ wpc = "full"
  /\ overflow_policy = "BLOCK_WRITER"
  /\ w_spins = SpinLimit
  /\ overruns' = overruns + 1
  /\ w_spins' = 0
  /\ wpc' = "idle"
  /\ UNCHANGED <<overflow_policy, write_idx, read_idx, underruns, total_written, total_read, flags,
                 packets, w_read, offered, reader, history>>

\* Mutant of WriteCopyBegin: the slot's new content is never copied in.
WriteWithoutCopy ==
  /\ wpc = "room"
  /\ wpc' = "copied"
  /\ UNCHANGED <<header, packets, w_read, w_spins, offered, reader, history>>

WriteCopyBegin ==
  /\ wpc = "room"
  /\ packets' = [packets EXCEPT ![write_idx] = Torn]
  /\ wpc' = "copying"
  /\ UNCHANGED <<header, w_read, w_spins, offered, reader, history>>

WriteCopyEnd ==
  /\ wpc = "copying"
  /\ packets' = [packets EXCEPT ![write_idx] = offered]
  /\ wpc' = "copied"
  /\ UNCHANGED <<header, w_read, w_spins, offered, reader, history>>

\* Mutant of WritePublish: the call ends without counting the packet.
WritePublishUncounted ==
  /\ wpc = "copied"
  /\ write_idx' = Inc(write_idx)
  /\ published' = Append(published, offered)
  /\ wpc' = "idle"
  /\ UNCHANGED <<overflow_policy, read_idx, overruns, underruns, total_written, total_read, flags,
                 packets, w_read, w_spins, offered, reader, delivered, discarded, dropped,
                 crashes, flushes>>

WritePublish ==
  /\ wpc = "copied"
  /\ write_idx' = Inc(write_idx)
  /\ published' = Append(published, offered)
  /\ wpc' = "count"
  /\ UNCHANGED <<overflow_policy, read_idx, overruns, underruns, total_written, total_read, flags,
                 packets, w_read, w_spins, offered, reader, delivered, discarded, dropped,
                 crashes, flushes>>

WriteCount ==
  /\ wpc = "count"
  /\ total_written' = total_written + 1
  /\ wpc' = "idle"
  /\ UNCHANGED <<overflow_policy, write_idx, read_idx, overruns, underruns, total_read, flags,
                 packets, w_read, w_spins, offered, reader, history>>

Write ==
  \/ WriteCall \/ DropOldest \/ DropCount \/ DropFlag \/ DropNewest \/ SpinAgain \/ SpinTimeout
  \/ WriteCopyBegin \/ WriteCopyEnd \/ WritePublish \/ WriteCount

----------------------------------------------------------------------------
\* The reader: ring_buffer_read and ring_buffer_flush.

ReadLoadWrite ==
  /\ rpc = "idle"
  /\ r_write' = write_idx
  /\ rpc' = "loaded"
  /\ UNCHANGED <<header, packets, writer, r_read, r_copy, history>>

ReadFindsNone ==
  /\ rpc = "loaded"
  /\ read_idx = r_write
  /\ r_read' = read_idx
  /\ rpc' = "empty"
  /\ UNCHANGED <<header, packets, writer, r_write, r_copy, history>>

ReadEmpty ==
  /\ rpc = "empty"
  /\ underruns' = IF underruns < MaxUnderruns THEN underruns + 1 ELSE underruns
  /\ rpc' = "underrun"
  /\ UNCHANGED <<overflow_policy, write_idx, read_idx, overruns, total_written, total_read, flags,
                 packets, writer, r_write, r_read, r_copy, history>>

ReadFlag ==
  /\ rpc = "underrun"
  /\ flags' = flags \union {"UNDERFLOW"}
  /\ rpc' = "idle"
  /\ UNCHANGED <<overflow_policy, write_idx, read_idx, overruns, underruns, total_written, total_read,
                 packets, writer, r_write, r_read, r_copy, history>>

ReadLoadRead ==
  /\ rpc = "loaded"
  /\ read_idx # r_write
  /\ r_read' = read_idx
  /\ rpc' = "found"
  /\ UNCHANGED <<header, packets, writer, r_write, r_copy, history>>

ReadCopyBegin ==
  /\ rpc = "found"
  /\ r_copy' = packets[r_read]
  /\ rpc' = "copying"
  /\ UNCHANGED <<header, packets, writer, r_write, r_read, history>>

\* Packet numbers never repeat: an equal slot was not touched in between.
ReadCopyEnd ==
  /\ rpc = "copying"
  /\ r_copy' = IF packets[r_read] = r_copy THEN r_copy ELSE Torn
  /\ rpc' = "copied"
  /\ UNCHANGED <<header, packets, writer, r_write, r_read, history>>

\* A plain store, whatever the writer did to read_idx since it was loaded.
ReadAdvance ==
  /\ rpc = "copied"
  /\ read_idx' = Inc(r_read)
  /\ delivered' = Append(delivered, r_copy)
  /\ rpc' = "count"
  /\ UNCHANGED <<overflow_policy, write_idx, overruns, underruns, total_written, total_read, flags,
                 packets, writer, r_write, r_read, r_copy,
                 published, discarded, dropped, crashes, flushes>>

ReadCount ==
  /\ rpc = "count"
  /\ total_read' = total_read + 1
  /\ rpc' = "clear"
  /\ UNCHANGED <<overflow_policy, write_idx, read_idx, overruns, underruns, total_written, flags,
                 packets, writer, r_write, r_read, r_copy, history>>

ReadClear ==
  /\ rpc = "clear"
  /\ flags' = flags \ {"UNDERFLOW"}
  /\ rpc' = "idle"
  /\ UNCHANGED <<overflow_policy, write_idx, read_idx, overruns, underruns, total_written, total_read,
                 packets, writer, r_write, r_read, r_copy, history>>

FlushLoad ==
  /\ rpc = "idle"
  /\ flushes < MaxFlushes
  /\ flushes' = flushes + 1
  /\ r_write' = write_idx
  /\ rpc' = "flushing"
  /\ UNCHANGED <<header, packets, writer, r_read, r_copy,
                 published, delivered, discarded, dropped, crashes>>

FlushStore ==
  /\ rpc = "flushing"
  /\ read_idx' = r_write
  /\ discarded' = discarded + Available(r_write, read_idx)
  /\ rpc' = "idle"
  /\ UNCHANGED <<overflow_policy, write_idx, overruns, underruns, total_written, total_read, flags,
                 packets, writer, r_write, r_read, r_copy,
                 published, delivered, dropped, crashes, flushes>>

Read ==
  \/ ReadLoadWrite \/ ReadFindsNone \/ ReadEmpty \/ ReadFlag \/ ReadLoadRead \/ ReadCopyBegin
  \/ ReadCopyEnd \/ ReadAdvance \/ ReadCount \/ ReadClear

Flush == FlushLoad \/ FlushStore

----------------------------------------------------------------------------
\* A killed process leaves the segment as it was; systemd restarts it and
\* ring_buffer_open finds magic and version and attaches to what is there.

WriterCrash ==
  /\ wpc # "down"
  /\ crashes < MaxCrashes
  /\ crashes' = crashes + 1
  /\ wpc' = "down"
  /\ w_spins' = 0
  /\ UNCHANGED <<header, packets, w_read, offered, reader,
                 published, delivered, discarded, dropped, flushes>>

ReaderCrash ==
  /\ rpc # "down"
  /\ crashes < MaxCrashes
  /\ crashes' = crashes + 1
  /\ rpc' = "down"
  /\ UNCHANGED <<header, packets, writer, r_write, r_read, r_copy,
                 published, delivered, discarded, dropped, flushes>>

WriterAttach ==
  /\ wpc = "down"
  /\ flags' = flags \union {"WRITER_PRESENT"}
  /\ wpc' = "idle"
  /\ UNCHANGED <<overflow_policy, write_idx, read_idx, overruns, underruns, total_written, total_read,
                 packets, w_read, w_spins, offered, reader, history>>

ReaderAttach ==
  /\ rpc = "down"
  /\ flags' = flags \union {"READER_PRESENT"}
  /\ rpc' = "idle"
  /\ UNCHANGED <<overflow_policy, write_idx, read_idx, overruns, underruns, total_written, total_read,
                 packets, writer, r_write, r_read, r_copy, history>>

Next ==
  \/ Write \/ Read \/ Flush
  \/ WriterCrash \/ ReaderCrash \/ WriterAttach \/ ReaderAttach

Spec == Init /\ [][Next]_vars

\* Only the writer is scheduled: the reader may stop anywhere, forever.
WriterFairSpec == Spec /\ WF_vars(Write) /\ WF_vars(WriterAttach)

\* The reader is scheduled too, keeps polling, and systemd restarts it.
ReaderFairness == WF_vars(Read) /\ WF_vars(FlushStore) /\ WF_vars(ReaderAttach)

----------------------------------------------------------------------------
\* Properties.

\* Type correctness of the header, the slots and the two processes' locals.
TypeOK ==
  /\ write_idx \in Slot /\ read_idx \in Slot
  /\ overruns \in Nat /\ underruns \in Nat
  /\ total_written \in Nat /\ total_read \in Nat
  /\ flags \subseteq {"WRITER_PRESENT", "READER_PRESENT", "OVERFLOW", "UNDERFLOW"}
  /\ overflow_policy \in PoliciesUsed
  /\ packets \in [Slot -> Packet \union {NoPacket, Torn}]
  /\ wpc \in {"down", "idle", "full", "dropped", "counted", "room", "copying", "copied", "count"}
  /\ w_read \in Slot /\ w_spins \in 0..SpinLimit /\ offered \in 0..MaxPackets
  /\ rpc \in {"down", "idle", "loaded", "empty", "underrun", "found", "copying", "copied", "count",
              "clear", "flushing"}
  /\ r_write \in Slot /\ r_read \in Slot /\ r_copy \in Packet \union {NoPacket, Torn}
  /\ published \in Seq(Packet)
  /\ delivered \in Seq(Packet \union {NoPacket, Torn})
  /\ discarded \in Nat /\ dropped \in Nat /\ crashes \in Nat /\ flushes \in Nat

Overwrites == overflow_policy = "DROP_OLDEST"

\* The reader is never handed a packet that was overwritten while it copied it, nor a
\* slot no packet was ever written to (the "process safety" of ring_buffer.h:6).
NoTornDelivery == \A i \in DOMAIN delivered : delivered[i] \in Packet

\* Whole packets reach the reader in the order they were written and never twice,
\* even across kills of either side and even when the writer overwrites.
DeliveredInOrder ==
  \A i, j \in DOMAIN delivered :
    i < j /\ {delivered[i], delivered[j]} \subseteq Packet => delivered[i] < delivered[j]

\* Unless the ring overwrites, its reader is never handed a torn or unwritten packet.
RefusingIsWhole == ~Overwrites => NoTornDelivery

\* Unless the ring overwrites, nothing vanishes: every packet made visible to the reader
\* was taken by it, is still held, or was flushed; a refused packet is the only loss.
NothingVanishes ==
  ~Overwrites => Len(published) = Len(delivered) + Len(Held) + discarded

\* In a call that has neither published its packet nor given it up.
Writing == wpc \in {"full", "dropped", "counted", "room", "copying", "copied"}

\* Every loss is counted as an overrun, but for the call in progress and those that a kill
\* cut off: a packet pushed out of an overwriting ring; and, in one that does not overwrite,
\* a packet that was refused, where nothing else is counted either.  (An overwriting ring
\* counts more than it loses: it does not look whether its compare-and-swap moved anything.)
OverrunsCountLosses ==
  IF Overwrites THEN dropped <= overruns + crashes + IF wpc = "dropped" THEN 1 ELSE 0
  ELSE LET refused == offered - Len(published) - IF Writing THEN 1 ELSE 0
       IN  overruns \in refused - crashes .. refused

\* The statistics lag behind the indexes by at most the call in progress on each side
\* and the calls a kill cut off: a monitor may see more reads than writes, but not many.
StatisticsLag ==
  /\ Len(published) - total_written \in 0..crashes+1
  /\ Len(delivered) - total_read \in 0..crashes+1

\* What the statistics say of packets and losses is what happened, but for the calls in
\* progress and those that a kill cut off.
StatisticsAreHonest == OverrunsCountLosses /\ StatisticsLag

\* Wherever the two sides' stores leave read_idx, what the reader will find next is an
\* unbroken run of packets ending with the newest published one: no gap, no half-written
\* slot, no slot from an earlier lap, under every policy and across kills.
HeldIsNewestRun ==
  LET n == Len(published)
      h == Len(Held)
  IN  h <= n /\ Held = SubSeq(published, n - h + 1, n)

\* An overwriting ring misbehaves only towards a reader that was overtaken in the middle
\* of a call: as long as at most one packet was pushed out or one flush made, it is as safe
\* as the others.  The overrun statistic cannot say as much, since a writer that is killed
\* between the drop and its count leaves a drop that was never counted.  Three slots are
\* needed: with two, which hold one packet, a single drop empties the ring under a reader
\* that saw it filled.
SafeUntilOvertaken == dropped + flushes < 2 => NoTornDelivery /\ DeliveredInOrder

\* Under the two policies that do not overwrite, the ring is a bounded FIFO.
Fifo == INSTANCE PacketFifo WITH
  Packet <- Packet, Bound <- Capacity - 1,
  accepted <- published, queue <- Held, delivered <- delivered
IsFifo == Fifo!Spec

\* A write call always returns (or dies): not even a reader that never comes back
\* can hold a blocked writer for longer than its spin limit.
WriterReturns == wpc # "idle" ~> wpc = "idle"

\* A packet that was published reaches a reader that keeps polling, unless a flush
\* threw packets away: through kills and restarts of both sides.
PublishedIsDelivered ==
  ReaderFairness =>
    \A p \in Packet :
      p \in Range(published) ~> (p \in Range(delivered) \/ discarded > 0)
============================================================================
