---------------------------- MODULE PacketFifo ----------------------------
(***************************************************************************)
(* What a shared-memory packet buffer promises when it never overwrites:   *)
(* ring_buffer.h calls it a ring buffer "for inter-process communication"  *)
(* with "thread/process safety".  Packets are numbered in the order the    *)
(* writer was handed them.  The buffer accepts some of them, holds at most *)
(* Bound, and hands them to the reader in order, once and whole; a flush   *)
(* throws away a prefix of what it holds.                                  *)
(***************************************************************************)
EXTENDS Integers, Sequences

CONSTANTS
  Packet,   \* the numbers a packet may carry, a set of naturals
  Bound     \* the most packets the buffer may hold

VARIABLES
  accepted,   \* every packet accepted so far, in order
  queue,      \* the packets held
  delivered   \* the packets handed to the reader, in order

vars == <<accepted, queue, delivered>>

Init ==
  /\ accepted = <<>>
  /\ queue = <<>>
  /\ delivered = <<>>

\* The writer's packets carry growing numbers; a number may be skipped (dropped).
Put(p) ==
  /\ Len(queue) < Bound
  /\ \A i \in DOMAIN accepted : accepted[i] < p
  /\ accepted' = Append(accepted, p)
  /\ queue' = Append(queue, p)
  /\ UNCHANGED delivered

Get ==
  /\ queue # <<>>
  /\ delivered' = Append(delivered, Head(queue))
  /\ queue' = Tail(queue)
  /\ UNCHANGED accepted

Discard(n) ==
  /\ queue' = SubSeq(queue, n + 1, Len(queue))
  /\ UNCHANGED <<accepted, delivered>>

Next ==
  \/ \E p \in Packet : Put(p)
  \/ Get
  \/ \E n \in 1..Len(queue) : Discard(n)

Spec == Init /\ [][Next]_vars
============================================================================
