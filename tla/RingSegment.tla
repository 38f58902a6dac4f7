---------------------------- MODULE RingSegment ----------------------------
(***************************************************************************)
(* The life of a ring's shared memory segment: ring_buffer_open and        *)
(* ring_buffer_close of ring_buffer.c, called by cari-input (main.c),      *)
(* which systemd starts again whenever it ends, and by a reader that       *)
(* attaches with the default options.  What happens inside a segment is    *)
(* RingBuffer's.                                                           *)
(*                                                                         *)
(* Every system call is a step, and so are the stores that initialise the  *)
(* header, in the groups that others can tell apart: the memset, magic and *)
(* version, the other fields, the flags.  The two openers interleave as    *)
(* two processes do.  Any process may be killed between any two steps, and *)
(* ftruncate and mmap may fail.  The kernel's segments are recycled: one without a name and       *)
(* without a process is free memory.  Both openers use the same capacity.  *)
(***************************************************************************)
EXTENDS Naturals, FiniteSets

CONSTANT MaxFaults      \* bound: kills, and calls that fail

ASSUME RingSegmentAssumption == MaxFaults \in Nat

VARIABLES
  seg_sized,    \* the segments that ftruncate has given a size
  seg_header,   \* how far the header of each segment has been filled in
  seg_present,  \* its presence bits
  seg_name,     \* the segment the name refers to, or NoSeg
  seg_pc,       \* where each process is
  seg_on,       \* the segment each process has open, or NoSeg
  seg_created,  \* the local "created" of ring_buffer_open
  seg_disturbed, \* history: the segments whose creation another process got into
  seg_faults    \* history: kills and failed calls

segShm == <<seg_sized, seg_header, seg_present>>
segLocal == <<seg_pc, seg_on, seg_created>>
segVars == <<segShm, seg_name, segLocal, seg_disturbed, seg_faults>>

Opener == {"input", "reader"}
Segment == 1 .. 3               \* one for the name and one for each process
NoSeg == 0

\* Nothing; magic and version; capacity and indexes too; the flags as well.
Header == {"blank", "marked", "filled", "ready"}
NoCapacity(s) == seg_header[s] \in {"blank", "marked"}

Opening == {"stat", "truncate", "map", "init", "magic", "fields", "flags", "validate", "register"}
Creating(p) == seg_created[p] /\ seg_pc[p] \in {"truncate", "map", "init", "magic", "fields", "flags"}
Down(p) == seg_pc[p] = "down"
Attached(p) == seg_pc[p] = "attached"

SegTypeOK ==
  /\ seg_sized \in [Segment -> BOOLEAN] /\ seg_header \in [Segment -> Header]
  /\ seg_present \in [Segment -> SUBSET Opener]
  /\ seg_name \in Segment \cup {NoSeg}
  /\ seg_pc \in [Opener -> Opening \cup {"down", "attached", "unlink"}]
  /\ seg_on \in [Opener -> Segment \cup {NoSeg}]
  /\ seg_created \in [Opener -> BOOLEAN]
  /\ seg_disturbed \subseteq Segment /\ seg_faults \in 0 .. MaxFaults

SegInit ==
  /\ seg_sized = [s \in Segment |-> FALSE] /\ seg_header = [s \in Segment |-> "blank"]
  /\ seg_present = [s \in Segment |-> {}] /\ seg_name = NoSeg
  /\ seg_pc = [p \in Opener |-> "down"] /\ seg_on = [p \in Opener |-> NoSeg]
  /\ seg_created = [p \in Opener |-> FALSE]
  /\ seg_disturbed = {} /\ seg_faults = 0

Goto(p, place) == seg_pc' = [seg_pc EXCEPT ![p] = place]

\* The process is gone, or its call has returned, and its descriptor with it.
Leave(p) ==
  /\ seg_pc' = [seg_pc EXCEPT ![p] = "down"]
  /\ seg_on' = [seg_on EXCEPT ![p] = NoSeg]
  /\ seg_created' = [seg_created EXCEPT ![p] = FALSE]

-----------------------------------------------------------------------------
(* ring_buffer_open *)

Free == Segment \ ({seg_name} \cup {seg_on[p] : p \in Opener})

\* The kernel hands out an empty segment.
Emptied(s) ==
  /\ seg_sized' = [seg_sized EXCEPT ![s] = FALSE]
  /\ seg_header' = [seg_header EXCEPT ![s] = "blank"]
  /\ seg_present' = [seg_present EXCEPT ![s] = {}]
  /\ seg_disturbed' = seg_disturbed \ {s}

\* Mutant of ShmOpen: exclusive, so that a segment left behind is in the way.
ShmOpenExclusive(p) ==
  /\ Down(p) /\ seg_name = NoSeg
  /\ Goto(p, "stat")
  /\ \E s \in Free :
       /\ \A t \in Free : s <= t
       /\ Emptied(s) /\ seg_name' = s
       /\ seg_on' = [seg_on EXCEPT ![p] = s]
  /\ UNCHANGED <<seg_created, seg_faults>>

\* shm_open with O_CREAT and without O_EXCL.
ShmOpen(p) ==
  /\ Down(p) /\ Goto(p, "stat")
  /\ IF seg_name # NoSeg
       THEN /\ seg_on' = [seg_on EXCEPT ![p] = seg_name]
            /\ UNCHANGED <<segShm, seg_name, seg_disturbed>>
       ELSE \E s \in Free :
              /\ \A t \in Free : s <= t
              /\ Emptied(s) /\ seg_name' = s
              /\ seg_on' = [seg_on EXCEPT ![p] = s]
  /\ UNCHANGED <<seg_created, seg_faults>>

\* Another opener has seen the same segment without a size and works on it.
SeenEmpty(p) == \E q \in Opener \ {p} : Creating(q) /\ seg_on[q] = seg_on[p]

\* fstat: whoever sees size 0 takes itself for the creator.
Fstat(p) ==
  /\ seg_pc[p] = "stat"
  /\ LET empty == ~seg_sized[seg_on[p]]
     IN  /\ seg_created' = [seg_created EXCEPT ![p] = empty]
         /\ Goto(p, IF empty THEN "truncate" ELSE "map")
         /\ seg_disturbed' = seg_disturbed \cup {s \in {seg_on[p]} : empty /\ SeenEmpty(p)}
  /\ UNCHANGED <<segShm, seg_name, seg_on, seg_faults>>

Ftruncate(p) ==
  /\ seg_pc[p] = "truncate" /\ Goto(p, "map")
  /\ seg_sized' = [seg_sized EXCEPT ![seg_on[p]] = TRUE]
  /\ UNCHANGED <<seg_header, seg_present, seg_name, seg_on, seg_created, seg_disturbed, seg_faults>>

Mmap(p) ==
  /\ seg_pc[p] = "map"
  /\ Goto(p, IF seg_created[p] THEN "init" ELSE "validate")
  /\ UNCHANGED <<segShm, seg_name, seg_on, seg_created, seg_disturbed, seg_faults>>

\* memset of the header ...
WipeHeader(p) ==
  /\ seg_pc[p] = "init" /\ Goto(p, "magic")
  /\ seg_header' = [seg_header EXCEPT ![seg_on[p]] = "blank"]
  /\ seg_present' = [seg_present EXCEPT ![seg_on[p]] = {}]
  /\ UNCHANGED <<seg_sized, seg_name, seg_on, seg_created, seg_disturbed, seg_faults>>

\* ... magic and version, by which others take the ring for whole ...
MarkHeader(p) ==
  /\ seg_pc[p] = "magic" /\ Goto(p, "fields")
  /\ seg_header' = [seg_header EXCEPT ![seg_on[p]] = "marked"]
  /\ UNCHANGED <<seg_sized, seg_present, seg_name, seg_on, seg_created, seg_disturbed, seg_faults>>

\* ... capacity, policy and indexes ...
FillHeader(p) ==
  /\ seg_pc[p] = "fields" /\ Goto(p, "flags")
  /\ seg_header' = [seg_header EXCEPT ![seg_on[p]] = "filled"]
  /\ UNCHANGED <<seg_sized, seg_present, seg_name, seg_on, seg_created, seg_disturbed, seg_faults>>

\* ... and flags = ACTIVE, a store that takes every presence bit away.
StoreFlags(p) ==
  /\ seg_pc[p] = "flags" /\ Goto(p, "register")
  /\ seg_header' = [seg_header EXCEPT ![seg_on[p]] = "ready"]
  /\ seg_present' = [seg_present EXCEPT ![seg_on[p]] = {}]
  /\ UNCHANGED <<seg_sized, seg_name, seg_on, seg_created, seg_disturbed, seg_faults>>

\* Mutant of Unlinked: an opener that fails removes the name whoever made it.
UnlinkedByAnyone(p) == NoSeg

\* The name after the error exit: the creator removes it, whatever it refers to by now.
Unlinked(p) == IF seg_created[p] THEN NoSeg ELSE seg_name

\* Magic and version of an existing segment, which is all that is looked at.
Validate(p) ==
  /\ seg_pc[p] = "validate"
  /\ IF seg_header[seg_on[p]] # "blank"
       THEN /\ Goto(p, "register")
            /\ seg_disturbed' =
                 seg_disturbed \cup {s \in {seg_on[p]} : seg_header[s] # "ready"}
            /\ UNCHANGED <<seg_name, seg_on, seg_created>>
       ELSE Leave(p) /\ seg_name' = Unlinked(p) /\ UNCHANGED seg_disturbed
  /\ UNCHANGED <<segShm, seg_faults>>

\* Another process has the segment open that the name refers to.
NameInUse(p) == \E q \in Opener \ {p} : seg_name # NoSeg /\ seg_on[q] = seg_name

\* ftruncate or mmap fails.
OpenFails(p) ==
  /\ seg_pc[p] \in {"truncate", "map"} /\ seg_faults < MaxFaults
  /\ Leave(p) /\ seg_name' = Unlinked(p)
  /\ seg_faults' = seg_faults + 1
  /\ seg_disturbed' = seg_disturbed \cup {s \in {seg_name} : seg_created[p] /\ NameInUse(p)}
  /\ UNCHANGED segShm

SegRegister(p) ==
  /\ seg_pc[p] = "register" /\ Goto(p, "attached")
  /\ seg_present' = [seg_present EXCEPT ![seg_on[p]] = @ \cup {p}]
  /\ UNCHANGED <<seg_sized, seg_header, seg_name, seg_on, seg_created, seg_disturbed, seg_faults>>

SegOpen(p) ==
  \/ ShmOpen(p) \/ Fstat(p) \/ Ftruncate(p) \/ Mmap(p)
  \/ WipeHeader(p) \/ MarkHeader(p) \/ FillHeader(p) \/ StoreFlags(p)
  \/ Validate(p) \/ SegRegister(p)

-----------------------------------------------------------------------------
(* ring_buffer_close *)

\* The presence bit goes; cari-input, on every way out, also unlinks.
CloseRing(p) ==
  /\ Attached(p)
  /\ seg_present' = [seg_present EXCEPT ![seg_on[p]] = @ \ {p}]
  /\ IF p = "input" THEN Goto(p, "unlink") /\ UNCHANGED <<seg_on, seg_created>> ELSE Leave(p)
  /\ UNCHANGED <<seg_sized, seg_header, seg_name, seg_disturbed, seg_faults>>

ShmUnlink(p) ==
  /\ seg_pc[p] = "unlink" /\ Leave(p)
  /\ seg_name' = NoSeg
  /\ UNCHANGED <<segShm, seg_disturbed, seg_faults>>

\* ring_buffer_write takes the index modulo the capacity: with none, the process dies.
WriteTraps ==
  /\ Attached("input") /\ NoCapacity(seg_on["input"]) /\ Leave("input")
  /\ UNCHANGED <<segShm, seg_name, seg_disturbed, seg_faults>>

SegKill(p) ==
  /\ ~Down(p) /\ seg_faults < MaxFaults /\ Leave(p)
  /\ seg_faults' = seg_faults + 1
  /\ UNCHANGED <<segShm, seg_name, seg_disturbed>>

SegNext ==
  \/ WriteTraps
  \/ \E p \in Opener : SegOpen(p) \/ OpenFails(p) \/ CloseRing(p) \/ ShmUnlink(p) \/ SegKill(p)

\* Processes are scheduled, and systemd starts cari-input again.  Whether a
\* reader comes, and when anybody closes, is open.
SegBusy(p) == ((p = "input" \/ ~Down(p)) /\ SegOpen(p)) \/ ShmUnlink(p)
SegSpec == SegInit /\ [][SegNext]_segVars /\ \A p \in Opener : WF_segVars(SegBusy(p))

-----------------------------------------------------------------------------
(* Properties *)

\* While cari-input writes to its ring, the name leads to that ring, whose
\* header is whole and shows the writer's presence bit: nobody else's failed
\* open, close, kill or creation takes it away - unless somebody got into the
\* creation of that very segment: a second opener saw it with size 0, an opener
\* took it for whole before the last store of its creator, or a creator that
\* failed removed its name.  The next segment is whole again.
InputRingIsReachable ==
  Attached("input") /\ seg_on["input"] \notin seg_disturbed =>
    /\ seg_name = seg_on["input"]
    /\ seg_header[seg_name] = "ready" /\ "input" \in seg_present[seg_name]

\* Somebody is still at work on the header of s.
InCreation(s) == \E p \in Opener : Creating(p) /\ seg_on[p] = s

\* A segment with a size and no capacity that nobody is working on: its creator
\* was killed.  Without the magic every open of it fails for good; with the magic
\* cari-input attaches and dies of its first packet.
Dud ==
  /\ seg_name # NoSeg /\ seg_sized[seg_name] /\ NoCapacity(seg_name)
  /\ ~InCreation(seg_name)

\* Attached to a ring that it can write to, or will be able to.
HasRing(p) == Attached(p) /\ (NoCapacity(seg_on[p]) => InCreation(seg_on[p]))

\* However it ended, and whatever the reader does, a cari-input that is given
\* packets attaches to a ring it can write to again, unless a creator was killed
\* between ftruncate and the capacity.
InputComesBack ==
  WF_segVars(WriteTraps) => (Down("input") ~> (HasRing("input") \/ Dud))
=============================================================================
