-------------------------- MODULE RingSegmentProofs --------------------------
(***************************************************************************)
(* The proof that cari-input's ring stays reachable.  The invariant says   *)
(* what the two openers rely on without a lock between them: a segment     *)
(* whose creation nobody got into has one creator, its header is as far as *)
(* that creator is, what anybody else uses is ready, and the name stays    *)
(* with cari-input's segment.                                              *)
(***************************************************************************)
EXTENDS RingSegment, TLAPS

\* The control of an opener, and what it says of its local variables.
Placed ==
  \A p \in Opener :
    /\ (seg_on[p] = NoSeg) <=> Down(p)
    /\ seg_pc[p] \in {"truncate", "init", "magic", "fields", "flags"} => seg_created[p]
    /\ seg_pc[p] \in {"down", "stat", "validate"} => ~seg_created[p]
    /\ seg_pc[p] = "unlink" => p = "input"

\* A segment without a size is blank, and a creator past ftruncate has given it one.
Sized ==
  /\ \A s \in Segment : ~seg_sized[s] => seg_header[s] = "blank"
  /\ \A p \in Opener : Creating(p) /\ seg_pc[p] # "truncate" => seg_sized[seg_on[p]]

Disturbed(p) == seg_on[p] \in seg_disturbed

\* How far the header is when its creator is at a place.
Until(place) == IF place = "fields" THEN "marked" ELSE IF place = "flags" THEN "filled" ELSE "blank"

\* An undisturbed segment has one creator, and its header is as far as that one is.
OneCreator ==
  \A p \in Opener : Creating(p) /\ ~Disturbed(p) =>
    /\ seg_header[seg_on[p]] = Until(seg_pc[p])
    /\ \A q \in Opener : Creating(q) /\ seg_on[q] = seg_on[p] => q = p

\* An undisturbed segment that is registered in or attached to is ready.
UsedIsReady ==
  \A p \in Opener : seg_pc[p] \in {"register", "attached"} /\ ~Disturbed(p) =>
    seg_header[seg_on[p]] = "ready"

\* The name is cari-input's undisturbed segment as long as it has one, and shows its bit.
NameIsTheInputs ==
  ~Disturbed("input") =>
    /\ seg_on["input"] # NoSeg => seg_name = seg_on["input"]
    /\ Attached("input") => "input" \in seg_present[seg_on["input"]]

SegInv ==
  /\ SegTypeOK /\ Placed /\ Sized
  /\ OneCreator /\ UsedIsReady /\ NameIsTheInputs

\* shm_open: a new segment is blank and nobody's; an old one stays as it is.
LEMMA ShmOpenKeeps == ASSUME SegInv, NEW p \in Opener, ShmOpen(p) PROVE SegInv'
<1> USE DEF SegInv, Creating, Down, Attached, Disturbed, Until, Opener, Segment, NoSeg, Header, Goto, Free, Emptied, segShm
<1>1. SegTypeOK'
  <2>1. CASE seg_name # NoSeg
    <3>1. /\ seg_pc' = [seg_pc EXCEPT ![p] = "stat"] /\ seg_on' = [seg_on EXCEPT ![p] = seg_name]
          /\ UNCHANGED <<seg_sized, seg_header, seg_present, seg_name, seg_created, seg_disturbed,
                         seg_faults>>
      BY <2>1 DEF ShmOpen
    <3> QED BY <2>1, <3>1 DEF SegTypeOK, Opening
  <2>2. CASE seg_name = NoSeg
    <3>1. PICK s \in Free : Emptied(s) /\ seg_name' = s /\ seg_on' = [seg_on EXCEPT ![p] = s]
      BY <2>2 DEF ShmOpen
    <3>2. s \in Segment
      BY DEF Free
    <3> QED BY <3>1, <3>2 DEF ShmOpen, SegTypeOK, Opening
  <2> QED BY <2>1, <2>2
<1>2. Placed'
  <2>1. seg_on'[p] # NoSeg
    BY DEF ShmOpen, SegTypeOK, Free
  <2>2. seg_pc'[p] = "stat" /\ seg_created' = seg_created /\ seg_on[p] = NoSeg /\ seg_pc[p] = "down"
    BY DEF ShmOpen, SegTypeOK, Placed
  <2>3. \A q \in Opener \ {p} : seg_on'[q] = seg_on[q] /\ seg_pc'[q] = seg_pc[q] /\ seg_created'[q] = seg_created[q]
    BY DEF ShmOpen, SegTypeOK
  <2> QED BY <2>1, <2>2, <2>3 DEF Placed
<1>3. Sized'
  BY DEF ShmOpen, SegTypeOK, Placed, Sized
<1>4. OneCreator'
  BY DEF ShmOpen, SegTypeOK, Placed, Sized, OneCreator, UsedIsReady
<1>5. UsedIsReady'
  BY DEF ShmOpen, SegTypeOK, Placed, OneCreator, UsedIsReady
<1>6. NameIsTheInputs'
  BY DEF ShmOpen, SegTypeOK, Placed, OneCreator, UsedIsReady, NameIsTheInputs
<1> QED BY <1>1, <1>2, <1>3, <1>4, <1>5, <1>6

\* fstat: a second creator of a segment is what seg_disturbed records.
LEMMA FstatKeeps == ASSUME SegInv, NEW p \in Opener, Fstat(p) PROVE SegInv'
<1> USE DEF SegInv, Creating, Down, Attached, Disturbed, Until, Opener, Segment, NoSeg, Header, SeenEmpty, Goto, segShm
<1>1. SegTypeOK'
  <2>1. /\ seg_created' \in [Opener -> BOOLEAN]
        /\ UNCHANGED <<seg_sized, seg_header, seg_present, seg_name, seg_on, seg_faults>>
    BY Zenon DEF Fstat, SegTypeOK
  <2>2. seg_pc' \in [Opener -> Opening \cup {"down", "attached", "unlink"}]
    BY DEF Fstat, SegTypeOK, Opening
  <2>3. seg_disturbed' \subseteq Segment
    <3>1. \A q \in Opener : seg_on[q] \in Segment \cup {NoSeg} /\ (seg_pc[q] # "down" => seg_on[q] # NoSeg)
      BY DEF SegTypeOK, Placed
    <3>2. seg_on[p] \in Segment
      BY <3>1 DEF Fstat
    <3> QED BY <3>2 DEF Fstat, SegTypeOK
  <2> QED BY <2>1, <2>2, <2>3 DEF SegTypeOK
<1>2. Placed'
  BY DEF Fstat, SegTypeOK, Placed, Opening
<1>3. Sized'
  BY DEF Fstat, SegTypeOK, Placed, Sized
<1>4. OneCreator'
  BY DEF Fstat, SegTypeOK, Placed, Sized, OneCreator, UsedIsReady
<1>5. UsedIsReady'
  BY DEF Fstat, SegTypeOK, Placed, OneCreator, UsedIsReady
<1>6. NameIsTheInputs'
  BY DEF Fstat, SegTypeOK, Placed, OneCreator, UsedIsReady, NameIsTheInputs
<1> QED BY <1>1, <1>2, <1>3, <1>4, <1>5, <1>6

\* ftruncate gives the creator's segment its size.
LEMMA FtruncateKeeps == ASSUME SegInv, NEW p \in Opener, Ftruncate(p) PROVE SegInv'
<1> USE DEF SegInv, Creating, Down, Attached, Disturbed, Until, Opener, Segment, NoSeg, Header, Goto
<1>1. SegTypeOK'
  BY RingSegmentAssumption DEF Ftruncate, SegTypeOK, Opening
<1>2. Placed'
  BY DEF Ftruncate, SegTypeOK, Placed, Opening
<1>3. Sized'
  BY DEF Ftruncate, SegTypeOK, Placed, Sized
<1>4. OneCreator'
  BY DEF Ftruncate, SegTypeOK, Placed, Sized, OneCreator, UsedIsReady
<1>5. UsedIsReady'
  BY DEF Ftruncate, SegTypeOK, Placed, OneCreator, UsedIsReady
<1>6. NameIsTheInputs'
  BY DEF Ftruncate, SegTypeOK, Placed, OneCreator, UsedIsReady, NameIsTheInputs
<1> QED BY <1>1, <1>2, <1>3, <1>4, <1>5, <1>6

\* mmap changes nothing that others see.
LEMMA MmapKeeps == ASSUME SegInv, NEW p \in Opener, Mmap(p) PROVE SegInv'
<1> USE DEF SegInv, Creating, Down, Attached, Disturbed, Until, Opener, Segment, NoSeg, Header, Goto, segShm
<1>1. SegTypeOK'
  BY RingSegmentAssumption DEF Mmap, SegTypeOK, Opening
<1>2. Placed'
  BY DEF Mmap, SegTypeOK, Placed, Opening
<1>3. Sized'
  BY DEF Mmap, SegTypeOK, Placed, Sized
<1>4. OneCreator'
  BY DEF Mmap, SegTypeOK, Placed, Sized, OneCreator, UsedIsReady
<1>5. UsedIsReady'
  BY DEF Mmap, SegTypeOK, Placed, OneCreator, UsedIsReady
<1>6. NameIsTheInputs'
  BY DEF Mmap, SegTypeOK, Placed, OneCreator, UsedIsReady, NameIsTheInputs
<1> QED BY <1>1, <1>2, <1>3, <1>4, <1>5, <1>6

\* The header is wiped by its one creator only.
LEMMA WipeHeaderKeeps == ASSUME SegInv, NEW p \in Opener, WipeHeader(p) PROVE SegInv'
<1> USE DEF SegInv, Creating, Down, Attached, Disturbed, Until, Opener, Segment, NoSeg, Header, Goto
<1>1. SegTypeOK'
  BY RingSegmentAssumption DEF WipeHeader, SegTypeOK, Opening
<1>2. Placed'
  BY DEF WipeHeader, SegTypeOK, Placed, Opening
<1>3. Sized'
  BY DEF WipeHeader, SegTypeOK, Placed, Sized
<1>4. OneCreator'
  BY DEF WipeHeader, SegTypeOK, Placed, Sized, OneCreator, UsedIsReady
<1>5. UsedIsReady'
  BY DEF WipeHeader, SegTypeOK, Placed, OneCreator, UsedIsReady
<1>6. NameIsTheInputs'
  BY DEF WipeHeader, SegTypeOK, Placed, OneCreator, UsedIsReady, NameIsTheInputs
<1> QED BY <1>1, <1>2, <1>3, <1>4, <1>5, <1>6

\* Magic and version are stored by the one creator.
LEMMA MarkHeaderKeeps == ASSUME SegInv, NEW p \in Opener, MarkHeader(p) PROVE SegInv'
<1> USE DEF SegInv, Creating, Down, Attached, Disturbed, Until, Opener, Segment, NoSeg, Header, Goto
<1>1. SegTypeOK'
  BY RingSegmentAssumption DEF MarkHeader, SegTypeOK, Opening
<1>2. Placed'
  BY DEF MarkHeader, SegTypeOK, Placed, Opening
<1>3. Sized'
  BY DEF MarkHeader, SegTypeOK, Placed, Sized
<1>4. OneCreator'
  BY DEF MarkHeader, SegTypeOK, Placed, Sized, OneCreator, UsedIsReady
<1>5. UsedIsReady'
  BY DEF MarkHeader, SegTypeOK, Placed, OneCreator, UsedIsReady
<1>6. NameIsTheInputs'
  BY DEF MarkHeader, SegTypeOK, Placed, OneCreator, UsedIsReady, NameIsTheInputs
<1> QED BY <1>1, <1>2, <1>3, <1>4, <1>5, <1>6

\* The other fields are stored by the one creator.
LEMMA FillHeaderKeeps == ASSUME SegInv, NEW p \in Opener, FillHeader(p) PROVE SegInv'
<1> USE DEF SegInv, Creating, Down, Attached, Disturbed, Until, Opener, Segment, NoSeg, Header, Goto
<1>1. SegTypeOK'
  BY RingSegmentAssumption DEF FillHeader, SegTypeOK, Opening
<1>2. Placed'
  BY DEF FillHeader, SegTypeOK, Placed, Opening
<1>3. Sized'
  BY DEF FillHeader, SegTypeOK, Placed, Sized
<1>4. OneCreator'
  BY DEF FillHeader, SegTypeOK, Placed, Sized, OneCreator, UsedIsReady
<1>5. UsedIsReady'
  BY DEF FillHeader, SegTypeOK, Placed, OneCreator, UsedIsReady
<1>6. NameIsTheInputs'
  BY DEF FillHeader, SegTypeOK, Placed, OneCreator, UsedIsReady, NameIsTheInputs
<1> QED BY <1>1, <1>2, <1>3, <1>4, <1>5, <1>6

\* The header becomes ready, and its creator stops being one.
LEMMA StoreFlagsKeeps == ASSUME SegInv, NEW p \in Opener, StoreFlags(p) PROVE SegInv'
<1> USE DEF SegInv, Creating, Down, Attached, Disturbed, Until, Opener, Segment, NoSeg, Header, Goto
<1>1. SegTypeOK'
  BY RingSegmentAssumption DEF StoreFlags, SegTypeOK, Opening
<1>2. Placed'
  BY DEF StoreFlags, SegTypeOK, Placed, Opening
<1>3. Sized'
  BY DEF StoreFlags, SegTypeOK, Placed, Sized
<1>4. OneCreator'
  BY DEF StoreFlags, SegTypeOK, Placed, Sized, OneCreator, UsedIsReady
<1>5. UsedIsReady'
  BY DEF StoreFlags, SegTypeOK, Placed, OneCreator, UsedIsReady
<1>6. NameIsTheInputs'
  BY DEF StoreFlags, SegTypeOK, Placed, OneCreator, UsedIsReady, NameIsTheInputs
<1> QED BY <1>1, <1>2, <1>3, <1>4, <1>5, <1>6

\* Whoever goes on after the check of the magic has found the segment ready.
LEMMA ValidateKeeps == ASSUME SegInv, NEW p \in Opener, Validate(p) PROVE SegInv'
<1> USE DEF SegInv, Creating, Down, Attached, Disturbed, Until, Opener, Segment, NoSeg, Header, Goto, Leave, Unlinked, segShm
<1>1. SegTypeOK'
  <2>1. CASE seg_header[seg_on[p]] # "blank"
    <3>1. /\ seg_pc' = [seg_pc EXCEPT ![p] = "register"]
          /\ seg_disturbed' = seg_disturbed \cup {s \in {seg_on[p]} : seg_header[s] # "ready"}
          /\ UNCHANGED <<seg_sized, seg_header, seg_present, seg_name, seg_on, seg_created, seg_faults>>
      BY <2>1 DEF Validate
    <3>2. seg_on[p] \in Segment
      BY DEF Validate, SegTypeOK, Placed
    <3>3. seg_disturbed' \subseteq Segment
      BY <3>1, <3>2 DEF SegTypeOK
    <3> QED BY <3>1, <3>3 DEF SegTypeOK, Opening
  <2>2. CASE ~(seg_header[seg_on[p]] # "blank")
    <3>1. seg_pc' = [seg_pc EXCEPT ![p] = "down"] /\ seg_on' = [seg_on EXCEPT ![p] = NoSeg]
      BY <2>2 DEF Validate
    <3>2. seg_created' = [seg_created EXCEPT ![p] = FALSE]
      BY <2>2 DEF Validate
    <3>3. seg_name' \in Segment \cup {NoSeg}
      BY <2>2 DEF Validate, SegTypeOK
    <3>4. seg_created' \in [Opener -> BOOLEAN]
      BY <3>2 DEF SegTypeOK
    <3> QED BY <3>1, <3>3, <3>4 DEF Validate, SegTypeOK
  <2> QED BY <2>1, <2>2
<1>2. Placed'
  BY DEF Validate, SegTypeOK, Placed, Opening
<1>3. Sized'
  BY DEF Validate, SegTypeOK, Placed, Sized
<1>4. OneCreator'
  BY DEF Validate, SegTypeOK, Placed, Sized, OneCreator, UsedIsReady
<1>5. UsedIsReady'
  BY DEF Validate, SegTypeOK, Placed, OneCreator, UsedIsReady
<1>6. NameIsTheInputs'
  BY DEF Validate, SegTypeOK, Placed, OneCreator, UsedIsReady, NameIsTheInputs
<1> QED BY <1>1, <1>2, <1>3, <1>4, <1>5, <1>6

\* The presence bit is set in a segment that is ready.
LEMMA SegRegisterKeeps == ASSUME SegInv, NEW p \in Opener, SegRegister(p) PROVE SegInv'
<1> USE DEF SegInv, Creating, Down, Attached, Disturbed, Until, Opener, Segment, NoSeg, Header, Goto
<1>1. SegTypeOK'
  BY RingSegmentAssumption DEF SegRegister, SegTypeOK, Opening
<1>2. Placed'
  BY DEF SegRegister, SegTypeOK, Placed, Opening
<1>3. Sized'
  BY DEF SegRegister, SegTypeOK, Placed, Sized
<1>4. OneCreator'
  BY DEF SegRegister, SegTypeOK, Placed, Sized, OneCreator, UsedIsReady
<1>5. UsedIsReady'
  BY DEF SegRegister, SegTypeOK, Placed, OneCreator, UsedIsReady
<1>6. NameIsTheInputs'
  BY DEF SegRegister, SegTypeOK, Placed, OneCreator, UsedIsReady, NameIsTheInputs
<1> QED BY <1>1, <1>2, <1>3, <1>4, <1>5, <1>6

\* An open that fails takes the name only as a creator that disturbs nobody.
LEMMA OpenFailsKeeps == ASSUME SegInv, NEW p \in Opener, OpenFails(p) PROVE SegInv'
<1> USE DEF SegInv, Creating, Down, Attached, Disturbed, Until, Opener, Segment, NoSeg, Header, Leave, Unlinked, segShm
<1>1. SegTypeOK'
  <2>1. /\ seg_pc' = [seg_pc EXCEPT ![p] = "down"] /\ seg_on' = [seg_on EXCEPT ![p] = NoSeg]
        /\ seg_created' = [seg_created EXCEPT ![p] = FALSE]
        /\ seg_name' \in {seg_name, NoSeg}
        /\ UNCHANGED <<seg_sized, seg_header, seg_present>>
    BY DEF OpenFails
  <2>2. seg_disturbed' \subseteq Segment
    BY DEF OpenFails, NameInUse, SegTypeOK
  <2>3. seg_faults' \in 0 .. MaxFaults
    BY RingSegmentAssumption DEF OpenFails, SegTypeOK
  <2>4. seg_created' \in [Opener -> BOOLEAN]
    BY <2>1, Zenon DEF SegTypeOK
  <2> QED BY <2>1, <2>2, <2>3, <2>4 DEF SegTypeOK
<1>2. Placed'
  BY DEF OpenFails, SegTypeOK, Placed, Opening
<1>3. Sized'
  BY DEF OpenFails, SegTypeOK, Placed, Sized
<1>4. OneCreator'
  BY DEF OpenFails, SegTypeOK, Placed, Sized, OneCreator, UsedIsReady
<1>5. UsedIsReady'
  BY DEF OpenFails, SegTypeOK, Placed, OneCreator, UsedIsReady
<1>6. NameIsTheInputs'
  <2>1. /\ seg_disturbed \subseteq seg_disturbed'
        /\ seg_created[p] /\ NameInUse(p) => seg_name \in seg_disturbed'
        /\ seg_pc[p] \notin {"register", "attached"} /\ UNCHANGED seg_present
    BY DEF OpenFails
  <2>2. NameIsTheInputs
    OBVIOUS
  <2>3. CASE p = "input"
    <3>1. seg_on'["input"] = NoSeg /\ seg_pc'["input"] = "down"
      BY <2>3 DEF OpenFails, SegTypeOK
    <3> QED BY <3>1 DEF NameIsTheInputs
  <2>4. CASE p # "input"
    <3>1. seg_on'["input"] = seg_on["input"] /\ seg_pc'["input"] = seg_pc["input"]
      BY <2>4 DEF OpenFails, SegTypeOK
    <3>2. ASSUME ~Disturbed("input")', seg_on["input"] # NoSeg PROVE seg_name' = seg_name
      <4>1. ~Disturbed("input") /\ seg_name = seg_on["input"] /\ seg_name \notin seg_disturbed'
        BY <2>1, <2>2, <3>1, <3>2 DEF NameIsTheInputs
      <4>2. ~(seg_created[p] /\ NameInUse(p))
        BY <2>1, <4>1
      <4>3. NameInUse(p)
        BY <2>4, <3>2, <4>1 DEF NameInUse
      <4> QED BY <4>2, <4>3 DEF OpenFails
    <3>3. ASSUME ~Disturbed("input")' PROVE ~Disturbed("input")
      BY <2>1, <3>1, <3>3
    <3> QED BY <2>1, <2>2, <3>1, <3>2, <3>3 DEF NameIsTheInputs
  <2> QED BY <2>3, <2>4
<1> QED BY <1>1, <1>2, <1>3, <1>4, <1>5, <1>6

\* A close takes its own presence bit only.
LEMMA CloseRingKeeps == ASSUME SegInv, NEW p \in Opener, CloseRing(p) PROVE SegInv'
<1> USE DEF SegInv, Creating, Down, Attached, Disturbed, Until, Opener, Segment, NoSeg, Header, Goto, Leave
<1>1. SegTypeOK'
  <2>1. CASE p = "input"
    <3>1. UNCHANGED <<seg_sized, seg_header, seg_name, seg_on, seg_created, seg_disturbed, seg_faults>>
      BY <2>1 DEF CloseRing
    <3>2. seg_pc' = [seg_pc EXCEPT ![p] = "unlink"] /\ seg_present' \in [Segment -> SUBSET Opener]
      BY <2>1 DEF CloseRing, SegTypeOK
    <3> QED BY <3>1, <3>2 DEF SegTypeOK, Opening
  <2>2. CASE ~(p = "input")
    <3>1. seg_pc' = [seg_pc EXCEPT ![p] = "down"] /\ seg_on' = [seg_on EXCEPT ![p] = NoSeg]
      BY <2>2 DEF CloseRing
    <3>2. seg_created' = [seg_created EXCEPT ![p] = FALSE]
      BY <2>2 DEF CloseRing
    <3>3. seg_present' \in [Segment -> SUBSET Opener]
      BY <2>2 DEF CloseRing, SegTypeOK
    <3>4. seg_created' \in [Opener -> BOOLEAN]
      BY <3>2 DEF SegTypeOK
    <3> QED BY <3>1, <3>3, <3>4 DEF CloseRing, SegTypeOK
  <2> QED BY <2>1, <2>2
<1>2. Placed'
  BY DEF CloseRing, SegTypeOK, Placed, Opening
<1>3. Sized'
  BY DEF CloseRing, SegTypeOK, Placed, Sized
<1>4. OneCreator'
  BY DEF CloseRing, SegTypeOK, Placed, Sized, OneCreator, UsedIsReady
<1>5. UsedIsReady'
  BY DEF CloseRing, SegTypeOK, Placed, OneCreator, UsedIsReady
<1>6. NameIsTheInputs'
  BY DEF CloseRing, SegTypeOK, Placed, OneCreator, UsedIsReady, NameIsTheInputs
<1> QED BY <1>1, <1>2, <1>3, <1>4, <1>5, <1>6

\* Only cari-input unlinks, and its segment goes with the name.
LEMMA ShmUnlinkKeeps == ASSUME SegInv, NEW p \in Opener, ShmUnlink(p) PROVE SegInv'
<1> USE DEF SegInv, Creating, Down, Attached, Disturbed, Until, Opener, Segment, NoSeg, Header, Leave, segShm
<1>1. SegTypeOK'
  BY RingSegmentAssumption DEF ShmUnlink, SegTypeOK, Opening
<1>2. Placed'
  BY DEF ShmUnlink, SegTypeOK, Placed, Opening
<1>3. Sized'
  BY DEF ShmUnlink, SegTypeOK, Placed, Sized
<1>4. OneCreator'
  BY DEF ShmUnlink, SegTypeOK, Placed, Sized, OneCreator, UsedIsReady
<1>5. UsedIsReady'
  BY DEF ShmUnlink, SegTypeOK, Placed, OneCreator, UsedIsReady
<1>6. NameIsTheInputs'
  BY DEF ShmUnlink, SegTypeOK, Placed, OneCreator, UsedIsReady, NameIsTheInputs
<1> QED BY <1>1, <1>2, <1>3, <1>4, <1>5, <1>6

\* cari-input dies in a segment without a capacity.
LEMMA WriteTrapsKeeps == ASSUME SegInv, WriteTraps PROVE SegInv'
<1> USE DEF SegInv, Creating, Down, Attached, Disturbed, Until, Opener, Segment, NoSeg, Header, Leave, segShm
<1>1. SegTypeOK'
  BY RingSegmentAssumption DEF WriteTraps, SegTypeOK, Opening
<1>2. Placed'
  BY DEF WriteTraps, SegTypeOK, Placed, Opening
<1>3. Sized'
  BY DEF WriteTraps, SegTypeOK, Placed, Sized
<1>4. OneCreator'
  BY DEF WriteTraps, SegTypeOK, Placed, Sized, OneCreator, UsedIsReady
<1>5. UsedIsReady'
  BY DEF WriteTraps, SegTypeOK, Placed, OneCreator, UsedIsReady
<1>6. NameIsTheInputs'
  BY DEF WriteTraps, SegTypeOK, Placed, OneCreator, UsedIsReady, NameIsTheInputs
<1> QED BY <1>1, <1>2, <1>3, <1>4, <1>5, <1>6

\* A killed process leaves the segment as it is.
LEMMA SegKillKeeps == ASSUME SegInv, NEW p \in Opener, SegKill(p) PROVE SegInv'
<1> USE DEF SegInv, Creating, Down, Attached, Disturbed, Until, Opener, Segment, NoSeg, Header, Leave, segShm
<1>1. SegTypeOK'
  BY RingSegmentAssumption DEF SegKill, SegTypeOK, Opening
<1>2. Placed'
  BY DEF SegKill, SegTypeOK, Placed, Opening
<1>3. Sized'
  BY DEF SegKill, SegTypeOK, Placed, Sized
<1>4. OneCreator'
  BY DEF SegKill, SegTypeOK, Placed, Sized, OneCreator, UsedIsReady
<1>5. UsedIsReady'
  BY DEF SegKill, SegTypeOK, Placed, OneCreator, UsedIsReady
<1>6. NameIsTheInputs'
  BY DEF SegKill, SegTypeOK, Placed, OneCreator, UsedIsReady, NameIsTheInputs
<1> QED BY <1>1, <1>2, <1>3, <1>4, <1>5, <1>6

\* Nobody is attached, nothing is sized and nothing has a name at first.
LEMMA SegInvInit == SegInit => SegInv
<1> SUFFICES ASSUME SegInit PROVE SegInv
  OBVIOUS
<1>1. SegTypeOK
  <2>1. 0 \in 0 .. MaxFaults
    BY RingSegmentAssumption
  <2>2. "down" \in Opening \cup {"down", "attached", "unlink"} /\ {} \in SUBSET Opener
    OBVIOUS
  <2> QED BY <2>1, <2>2 DEF SegInit, SegTypeOK, Header
<1>2. Placed
  BY DEF SegInit, Placed, Down, NoSeg
<1>3. Sized
  BY DEF SegInit, Sized, Creating
<1>4. OneCreator /\ UsedIsReady /\ NameIsTheInputs
  BY DEF SegInit, OneCreator, UsedIsReady, NameIsTheInputs, Creating, Attached, Opener, NoSeg
<1> QED BY <1>1, <1>2, <1>3, <1>4 DEF SegInv

\* Every step of an opener, and every kill, leaves the invariant.
LEMMA SegInvStep == SegInv /\ [SegNext]_segVars => SegInv'
<1> SUFFICES ASSUME SegInv, [SegNext]_segVars PROVE SegInv'
  OBVIOUS
<1>1. CASE UNCHANGED segVars
  BY <1>1 DEF SegInv, segVars, segShm, segLocal, SegTypeOK, Placed, Sized, OneCreator,
     UsedIsReady, NameIsTheInputs, Creating, Down, Attached, Disturbed
<1>2. ASSUME NEW p \in Opener, SegOpen(p) \/ OpenFails(p) \/ CloseRing(p) \/ ShmUnlink(p) \/ SegKill(p)
      PROVE  SegInv'
  <2>1. CASE SegOpen(p)
    BY <2>1, ShmOpenKeeps, FstatKeeps, FtruncateKeeps, MmapKeeps, WipeHeaderKeeps,
       MarkHeaderKeeps, FillHeaderKeeps, StoreFlagsKeeps, ValidateKeeps, SegRegisterKeeps DEF SegOpen
  <2>2. CASE OpenFails(p)   BY <2>2, OpenFailsKeeps
  <2>3. CASE CloseRing(p)   BY <2>3, CloseRingKeeps
  <2>4. CASE ShmUnlink(p)   BY <2>4, ShmUnlinkKeeps
  <2>5. CASE SegKill(p)     BY <2>5, SegKillKeeps
  <2> QED BY <1>2, <2>1, <2>2, <2>3, <2>4, <2>5
<1> QED BY <1>1, <1>2, WriteTrapsKeeps DEF SegNext

\* Every state satisfies the invariant: the initial one, and what a step leaves.
THEOREM SegInvHolds == SegSpec => []SegInv
  BY SegInvInit, SegInvStep, PTL DEF SegSpec

\* While cari-input writes to its ring, the name leads to that ring, whole and
\* with the writer's bit, however many kills and failed calls there are.
THEOREM InputRingIsReachableHolds == SegSpec => []InputRingIsReachable
<1>1. SegInv => InputRingIsReachable
  <2>1. SUFFICES ASSUME SegInv, Attached("input"), ~Disturbed("input")
        PROVE  /\ seg_name = seg_on["input"]
               /\ seg_header[seg_name] = "ready" /\ "input" \in seg_present[seg_name]
    BY DEF InputRingIsReachable, Disturbed
  <2>2. "input" \in Opener /\ seg_on["input"] # NoSeg /\ seg_pc["input"] = "attached"
    BY <2>1 DEF SegInv, Placed, Attached, Down, Opener
  <2> QED BY <2>1, <2>2 DEF SegInv, UsedIsReady, NameIsTheInputs
<1> QED BY <1>1, SegInvHolds, PTL
=============================================================================
