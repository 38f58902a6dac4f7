---------------------------- MODULE AvSyncProofs ----------------------------
(***************************************************************************)
(* Proofs about the A/V sync monitor: the histories of its sources, in     *)
(* memory and in the data file, hold samples made under that very id,      *)
(* oldest first, and a source with an id of its own loses none too early.  *)
(*                                                                         *)
(* A slot's ring is seen through the sequence that build_input_json reads  *)
(* from it; a new sample and a loaded file are what they are on that       *)
(* sequence, and the invariants speak of nothing else.                     *)
(***************************************************************************)
EXTENDS AvSync, FiniteSetTheorems, TLAPS

Slot == [id : Ids \cup {"nobody"}, count : 0 .. AsHistory, index : HistPlace,
         ring : [HistPlace -> Sample \cup {NoSample}]]

\* Until the ring is full its next place is behind the last sample.
Shape(slot) == slot.count < AsHistory => slot.index = slot.count

-----------------------------------------------------------------------------
(* The ring of a slot *)

\* Places are counted modulo the history's size.
LEMMA PlaceIsMod ==
  ASSUME NEW i \in HistPlace, NEW j \in 0 .. AsHistory
  PROVE  /\ (i + j) % AsHistory = IF i + j < AsHistory THEN i + j ELSE i + j - AsHistory
         /\ (i + j) % AsHistory \in HistPlace
<1>1. AsHistory \in Nat \ {0}
  BY AvSyncAssumption
<1>2. CASE i + j < AsHistory
  BY <1>1, <1>2 DEF HistPlace
<1>3. CASE i + j >= AsHistory
  <2> DEFINE r == i + j - AsHistory
  <2>1. r \in 0 .. AsHistory - 1 /\ i + j = 1 * AsHistory + r
    BY <1>1, <1>3 DEF HistPlace
  <2>2. (i + j) % AsHistory = r
    BY <1>1, <2>1
  <2> QED BY <1>1, <1>3, <2>1, <2>2 DEF HistPlace
<1> QED BY <1>1, <1>2, <1>3 DEF HistPlace

\* Where the k-th sample of a slot is.
PlaceOf(slot, k) ==
  IF slot.count < AsHistory THEN k - 1
  ELSE IF slot.index + k - 1 < AsHistory THEN slot.index + k - 1
  ELSE slot.index + k - 1 - AsHistory

\* The history of a slot, sample by sample.
LEMMA HistoryIs ==
  ASSUME NEW slot \in Slot
  PROVE  /\ HistoryOf(slot) \in Seq(Sample \cup {NoSample})
         /\ Len(HistoryOf(slot)) = slot.count /\ DOMAIN HistoryOf(slot) = 1 .. slot.count
         /\ \A k \in 1 .. slot.count : /\ PlaceOf(slot, k) \in HistPlace
                                       /\ HistoryOf(slot)[k] = slot.ring[PlaceOf(slot, k)]
<1>t. /\ slot.count \in 0 .. AsHistory /\ slot.index \in HistPlace
      /\ slot.ring \in [HistPlace -> Sample \cup {NoSample}] /\ AsHistory \in Nat \ {0}
  BY AvSyncAssumption DEF Slot
<1> DEFINE n == slot.count
           start == IF n < AsHistory THEN 0 ELSE slot.index
           h == [k \in 1 .. n |-> slot.ring[(start + k - 1) % AsHistory]]
<1>1. HistoryOf(slot) = h
  BY DEF HistoryOf
<1>2. ASSUME NEW k \in 1 .. n
      PROVE  (start + k - 1) % AsHistory = PlaceOf(slot, k) /\ PlaceOf(slot, k) \in HistPlace
  <2>1. start \in HistPlace /\ k - 1 \in 0 .. AsHistory /\ start + k - 1 = start + (k - 1)
    BY <1>t DEF HistPlace
  <2>2. /\ (start + (k - 1)) % AsHistory =
             IF start + (k - 1) < AsHistory THEN start + (k - 1) ELSE start + (k - 1) - AsHistory
        /\ (start + (k - 1)) % AsHistory \in HistPlace
    BY <2>1, PlaceIsMod
  <2>3. PlaceOf(slot, k) =
          IF start + (k - 1) < AsHistory THEN start + (k - 1) ELSE start + (k - 1) - AsHistory
    BY <1>t DEF PlaceOf, HistPlace
  <2> QED BY <2>1, <2>2, <2>3
<1> DEFINE value(k) == slot.ring[(start + k - 1) % AsHistory]
<1>3. \A k \in 1 .. n : value(k) = slot.ring[PlaceOf(slot, k)] /\ value(k) \in Sample \cup {NoSample}
  BY <1>2, <1>t
<1>v. h = [k \in 1 .. n |-> value(k)]
  OBVIOUS
<1>4. h \in Seq(Sample \cup {NoSample}) /\ Len(h) = n /\ DOMAIN h = 1 .. n
  <2>1. h \in [1 .. n -> Sample \cup {NoSample}] /\ n \in Nat
    <3> HIDE DEF value, h
    <3> QED BY <1>3, <1>t, <1>v
  <2> HIDE DEF h, n
  <2> QED BY <2>1
<1>5. \A k \in 1 .. n : h[k] = value(k)
  <2> HIDE DEF value, h
  <2> QED BY <1>v
<1> HIDE DEF h
<1> QED BY <1>1, <1>2, <1>3, <1>4, <1>5

\* A sample becomes the last of the history, which drops the first if it was full.
LEMMA SampleHistory ==
  ASSUME NEW slot \in Slot, Shape(slot), NEW x \in Sample,
         NEW new, new = WithSample(slot, x), NEW d, d = (IF slot.count < AsHistory THEN 0 ELSE 1)
  PROVE  /\ new \in Slot /\ Shape(new) /\ new.id = slot.id
         /\ new.count = slot.count + 1 - d
         /\ HistoryOf(new)[new.count] = x
         /\ \A k \in 1 .. new.count - 1 : HistoryOf(new)[k] = HistoryOf(slot)[k + d]
<1>t. /\ slot.count \in 0 .. AsHistory /\ slot.index \in HistPlace
      /\ slot.ring \in [HistPlace -> Sample \cup {NoSample}] /\ AsHistory \in Nat \ {0}
      /\ slot.id \in Ids \cup {"nobody"}
      /\ slot = [id |-> slot.id, count |-> slot.count, index |-> slot.index, ring |-> slot.ring]
  BY AvSyncAssumption DEF Slot
<1> DEFINE ring == [slot.ring EXCEPT ![slot.index] = x]
           index == (slot.index + 1) % AsHistory
           count == IF slot.count < AsHistory THEN slot.count + 1 ELSE slot.count
<1>1. new = [id |-> slot.id, count |-> count, index |-> index, ring |-> ring]
  BY <1>t DEF WithSample
<1>2. index = (IF slot.index + 1 < AsHistory THEN slot.index + 1 ELSE 0) /\ index \in HistPlace
  <2>1. /\ (slot.index + 1) % AsHistory =
             IF slot.index + 1 < AsHistory THEN slot.index + 1 ELSE slot.index + 1 - AsHistory
        /\ (slot.index + 1) % AsHistory \in HistPlace
    BY <1>t, PlaceIsMod, 1 \in 0 .. AsHistory
  <2> QED BY <1>t, <2>1 DEF HistPlace
<1>3. count \in 0 .. AsHistory /\ count = slot.count + 1 - d /\ count >= 1
  BY <1>t
<1>4. /\ ring \in [HistPlace -> Sample \cup {NoSample}] /\ ring[slot.index] = x
      /\ \A p \in HistPlace : p # slot.index => ring[p] = slot.ring[p]
  BY <1>t
<1> HIDE DEF ring, index, count
<1>5. /\ new.id = slot.id /\ new.count = count /\ new.index = index /\ new.ring = ring
      /\ new \in Slot
  BY <1>1, <1>2, <1>3, <1>4, <1>t DEF Slot
<1>6. Shape(new)
  BY <1>2, <1>5, <1>t DEF Shape, count, HistPlace
<1>7. PlaceOf(new, count) = slot.index
  BY <1>2, <1>3, <1>5, <1>t DEF PlaceOf, Shape, HistPlace
<1>8. \A k \in 1 .. count - 1 : PlaceOf(new, k) = PlaceOf(slot, k + d) /\ PlaceOf(new, k) # slot.index
  <2> SUFFICES ASSUME NEW k \in 1 .. count - 1
               PROVE  PlaceOf(new, k) = PlaceOf(slot, k + d) /\ PlaceOf(new, k) # slot.index
    OBVIOUS
  <2>1. /\ k \in Nat /\ k >= 1 /\ k < count /\ count \in Nat /\ AsHistory \in Nat
        /\ slot.index \in Nat /\ slot.index < AsHistory /\ slot.count \in Nat
        /\ slot.count <= AsHistory
    BY <1>3, <1>t DEF HistPlace
  <2>2. PlaceOf(new, k) = IF count < AsHistory THEN k - 1
                          ELSE IF index + k - 1 < AsHistory THEN index + k - 1
                          ELSE index + k - 1 - AsHistory
    BY <1>5 DEF PlaceOf
  <2>3. CASE slot.count < AsHistory
    <3>1. d = 0 /\ count = slot.count + 1 /\ slot.index = slot.count
      BY <2>3 DEF count, Shape
    <3>2. PlaceOf(slot, k + d) = k - 1
      BY <2>1, <2>3, <3>1 DEF PlaceOf
    <3>3. PlaceOf(new, k) = k - 1
      <4>1. CASE count < AsHistory
        BY <2>2, <4>1
      <4>2. CASE ~(count < AsHistory)
        <5>1. index = 0
          BY <1>2, <2>1, <3>1, <4>2
        <5> QED BY <2>1, <2>2, <2>3, <3>1, <4>2, <5>1
      <4> QED BY <4>1, <4>2
    <3> QED BY <2>1, <3>1, <3>2, <3>3
  <2>4. CASE ~(slot.count < AsHistory)
    <3>1. d = 1 /\ count = slot.count /\ slot.count = AsHistory
      BY <2>1, <2>4 DEF count
    <3>2. PlaceOf(slot, k + d) = IF slot.index + k < AsHistory THEN slot.index + k
                                 ELSE slot.index + k - AsHistory
      BY <2>1, <3>1 DEF PlaceOf
    <3>3. PlaceOf(new, k) = IF index + k - 1 < AsHistory THEN index + k - 1
                            ELSE index + k - 1 - AsHistory
      BY <2>1, <2>2, <3>1
    <3>4. CASE slot.index + 1 < AsHistory
      <4>1. index = slot.index + 1
        BY <1>2, <3>4
      <4> QED BY <2>1, <3>1, <3>2, <3>3, <4>1
    <3>5. CASE ~(slot.index + 1 < AsHistory)
      <4>1. index = 0 /\ slot.index = AsHistory - 1
        BY <1>2, <2>1, <3>5
      <4> QED BY <2>1, <3>1, <3>2, <3>3, <4>1
    <3> QED BY <3>4, <3>5
  <2> QED BY <2>3, <2>4
<1>9. \A k \in 1 .. count : PlaceOf(new, k) \in HistPlace /\ HistoryOf(new)[k] = ring[PlaceOf(new, k)]
  BY <1>5, HistoryIs
<1>10. \A k \in 1 .. count - 1 : HistoryOf(slot)[k + d] = slot.ring[PlaceOf(slot, k + d)]
  <2>1. \A k \in 1 .. count - 1 : k + d \in 1 .. slot.count
    BY <1>3, <1>t
  <2> QED BY <2>1, HistoryIs
<1>11. count \in 1 .. count /\ \A k \in 1 .. count - 1 : k \in 1 .. count
  BY <1>3
<1>12. HistoryOf(new)[count] = x
  BY <1>4, <1>7, <1>9, <1>11
<1>13. \A k \in 1 .. count - 1 : HistoryOf(new)[k] = HistoryOf(slot)[k + d]
  BY <1>4, <1>8, <1>9, <1>10, <1>11
<1> QED BY <1>3, <1>5, <1>6, <1>12, <1>13

\* What load_data reads back is what the file has.
LEMMA LoadedHistory ==
  ASSUME NEW slot \in Slot, NEW samples \in Seq(Sample), Len(samples) <= AsHistory,
         NEW new, new = Loaded(slot, samples)
  PROVE  new \in Slot /\ Shape(new) /\ new.id = slot.id /\ HistoryOf(new) = samples
<1>t. /\ slot.ring \in [HistPlace -> Sample \cup {NoSample}] /\ AsHistory \in Nat \ {0}
      /\ slot.id \in Ids \cup {"nobody"} /\ Len(samples) \in 0 .. AsHistory
      /\ slot = [id |-> slot.id, count |-> slot.count, index |-> slot.index, ring |-> slot.ring]
  BY AvSyncAssumption DEF Slot
<1> DEFINE n == Len(samples)
           ring == [p \in HistPlace |-> IF p < n THEN samples[p + 1] ELSE slot.ring[p]]
           index == n % AsHistory
<1>1. new = [id |-> slot.id, count |-> n, index |-> index, ring |-> ring]
  BY <1>t DEF Loaded
<1>2. index = (IF n < AsHistory THEN n ELSE 0) /\ index \in HistPlace
  <2>1. 0 \in HistPlace /\ 0 + n = n
    BY <1>t DEF HistPlace
  <2>2. /\ (0 + n) % AsHistory = IF 0 + n < AsHistory THEN 0 + n ELSE 0 + n - AsHistory
        /\ (0 + n) % AsHistory \in HistPlace
    BY <1>t, <2>1, PlaceIsMod
  <2> QED BY <1>t, <2>1, <2>2
<1>3. \A p \in HistPlace : p < n => ring[p] = samples[p + 1] /\ p + 1 \in 1 .. n
  BY <1>t DEF HistPlace
<1>4. ring \in [HistPlace -> Sample \cup {NoSample}]
  <2>1. \A p \in HistPlace : p < n => samples[p + 1] \in Sample
    BY <1>3
  <2> QED BY <2>1, <1>t
<1>5. n \in 0 .. AsHistory
  BY <1>t
<1> HIDE DEF ring, index, n
<1>6. /\ new.id = slot.id /\ new.count = n /\ new.index = index /\ new.ring = ring
      /\ new \in Slot
  BY <1>1, <1>2, <1>4, <1>5, <1>t DEF Slot
<1>7. Shape(new)
  BY <1>2, <1>5, <1>6 DEF Shape
<1>8. \A k \in 1 .. n : PlaceOf(new, k) = k - 1 /\ k - 1 \in HistPlace /\ k - 1 < n
  BY <1>2, <1>5, <1>6, <1>t DEF PlaceOf, HistPlace
<1>9. \A k \in 1 .. n : HistoryOf(new)[k] = samples[k]
  <2> SUFFICES ASSUME NEW k \in 1 .. n PROVE HistoryOf(new)[k] = samples[k]
    OBVIOUS
  <2>1. HistoryOf(new)[k] = ring[PlaceOf(new, k)]
    BY <1>6, HistoryIs
  <2>2. ring[k - 1] = samples[(k - 1) + 1] /\ (k - 1) + 1 = k
    BY <1>3, <1>5, <1>8
  <2> QED BY <1>8, <2>1, <2>2
<1>10. /\ HistoryOf(new) \in Seq(Sample \cup {NoSample}) /\ Len(HistoryOf(new)) = n
       /\ samples \in Seq(Sample \cup {NoSample})
  BY <1>6, HistoryIs
<1> QED BY <1>6, <1>7, <1>9, <1>10 DEF n

\* A blank slot has no history.
LEMMA BlankHistory ==
  ASSUME NEW id \in Ids \cup {"nobody"}, NEW new, new = [BlankSlot EXCEPT !.id = id]
  PROVE  new \in Slot /\ Shape(new) /\ new.id = id /\ HistoryOf(new) = <<>>
<1>1. /\ new = [id |-> id, ring |-> [p \in HistPlace |-> NoSample], count |-> 0, index |-> 0]
      /\ AsHistory \in Nat \ {0}
  BY AvSyncAssumption DEF BlankSlot
<1>2. 0 \in HistPlace /\ 0 \in 0 .. AsHistory
  BY <1>1 DEF HistPlace
<1> DEFINE ring == [p \in HistPlace |-> NoSample]
<1>r. ring \in [HistPlace -> Sample \cup {NoSample}]
  OBVIOUS
<1>n. new = [id |-> id, ring |-> ring, count |-> 0, index |-> 0]
  BY <1>1
<1> HIDE DEF ring
<1>3. new \in Slot /\ Shape(new) /\ new.id = id /\ new.count = 0
  <2>1. [id |-> id, count |-> 0, index |-> 0, ring |-> ring] \in Slot
    BY ONLY <1>r, <1>2, id \in Ids \cup {"nobody"} DEF Slot
  <2>2. new = [id |-> id, count |-> 0, index |-> 0, ring |-> ring]
    BY ONLY <1>n
  <2>3. new \in Slot
    BY ONLY <2>1, <2>2
  <2>4. new.id = id /\ new.count = 0 /\ new.index = 0
    BY ONLY <1>n
  <2> QED BY ONLY <2>3, <2>4 DEF Shape
<1>4. HistoryOf(new) \in Seq(Sample \cup {NoSample}) /\ Len(HistoryOf(new)) = 0
  BY <1>3, HistoryIs
<1> QED BY <1>3, <1>4

-----------------------------------------------------------------------------
(* The slots that a directory's files are left *)

Completes(l, n) == {j \in 1 .. n : l[j].complete}

\* The complete files before a file, and all of them, are finitely many.
LEMMA CompletesFinite ==
  ASSUME NEW l \in AsListings, NEW m \in Nat, NEW n \in Nat, m <= n
  PROVE  /\ IsFiniteSet(Completes(l, n)) /\ Cardinality(Completes(l, n)) \in 0 .. n
         /\ Cardinality(Completes(l, m)) <= Cardinality(Completes(l, n))
<1>1. IsFiniteSet(1 .. n) /\ Cardinality(1 .. n) = n
  BY FS_Interval
<1>2. Completes(l, n) \in SUBSET (1 .. n) /\ Completes(l, m) \in SUBSET Completes(l, n)
  BY DEF Completes
<1>3. IsFiniteSet(Completes(l, n)) /\ Cardinality(Completes(l, n)) <= n
  BY <1>1, <1>2, FS_Subset
<1>4. Cardinality(Completes(l, n)) \in Nat
  BY <1>3, FS_CardinalityType
<1>5. Cardinality(Completes(l, m)) <= Cardinality(Completes(l, n))
  BY <1>2, <1>3, FS_Subset
<1> QED BY <1>3, <1>4, <1>5

\* A complete file makes the number of them grow.
LEMMA CompletesGrow ==
  ASSUME NEW l \in AsListings, NEW i \in Nat \ {0}, l[i].complete, NEW n \in Nat, i <= n
  PROVE  Cardinality(Completes(l, i - 1)) < Cardinality(Completes(l, n))
<1>1. i - 1 \in Nat /\ i - 1 <= n
  OBVIOUS
<1>2. /\ IsFiniteSet(Completes(l, n)) /\ Cardinality(Completes(l, n)) \in 0 .. n
      /\ Cardinality(Completes(l, i - 1)) <= Cardinality(Completes(l, n))
      /\ Cardinality(Completes(l, i - 1)) \in 0 .. i - 1
  BY <1>1, CompletesFinite
<1>3. Completes(l, i - 1) \in SUBSET Completes(l, n) /\ i \in Completes(l, n) \ Completes(l, i - 1)
  BY DEF Completes
<1>4. Completes(l, n) # Completes(l, i - 1)
  BY <1>3
<1>5. Cardinality(Completes(l, n)) # Cardinality(Completes(l, i - 1))
  BY <1>2, <1>3, <1>4, FS_Subset
<1> QED BY <1>2, <1>5

\* The places in terms of the complete files, and the bounds of a directory.
LEMMA PlaceIs ==
  ASSUME NEW l \in AsListings
  PROVE  /\ l \in Seq([id : Ids, complete : BOOLEAN]) /\ Len(l) \in 0 .. Slots
         /\ DOMAIN l = 1 .. Len(l)
         /\ \A i \in DOMAIN l : l[i].id \in Ids /\ FilePlace(l, i) = 1 + Cardinality(Completes(l, i - 1))
         /\ Found(l) = Cardinality(Completes(l, Len(l)))
<1> DEFINE File == [id : Ids, complete : BOOLEAN]
<1>1. l \in Seq(File) /\ Len(l) <= Slots /\ Slots \in Nat
  BY AvSyncAssumption
<1>2. DOMAIN l = 1 .. Len(l) /\ Len(l) \in Nat /\ \A i \in DOMAIN l : l[i] \in File
  <2> HIDE DEF File
  <2> QED BY <1>1
<1> QED BY <1>1, <1>2 DEF FilePlace, Found, Completes

\* The places of complete files are all those up to their number; others come behind
\* every complete file before them, and before or at the place of those after them.
LEMMA Places ==
  ASSUME NEW l \in AsListings
  PROVE  /\ Found(l) \in 0 .. Slots
         /\ \A i \in DOMAIN l : FilePlace(l, i) \in 1 .. Slots
         /\ \A i \in DOMAIN l : l[i].complete => FilePlace(l, i) \in 1 .. Found(l)
         /\ \A i, j \in DOMAIN l : l[i].complete /\ i < j => FilePlace(l, i) < FilePlace(l, j)
<1> DEFINE n == Len(l)
           card(m) == Cardinality(Completes(l, m))
<1>1. /\ n \in 0 .. Slots /\ DOMAIN l = 1 .. n /\ Slots \in Nat
      /\ \A i \in DOMAIN l : FilePlace(l, i) = 1 + card(i - 1)
      /\ Found(l) = card(n)
  BY PlaceIs, AvSyncAssumption
<1> HIDE DEF n
<1>2. \A m \in Nat : card(m) \in 0 .. m
  <2> SUFFICES ASSUME NEW m \in Nat PROVE card(m) \in 0 .. m
    OBVIOUS
  <2> QED BY CompletesFinite, m <= m
<1>3. \A i \in DOMAIN l : l[i].complete => card(i - 1) < card(n)
  <2> SUFFICES ASSUME NEW i \in DOMAIN l, l[i].complete PROVE card(i - 1) < card(n)
    OBVIOUS
  <2>1. i \in Nat \ {0} /\ n \in Nat /\ i <= n
    BY <1>1
  <2> QED BY <2>1, CompletesGrow
<1>4. \A i, j \in DOMAIN l : l[i].complete /\ i < j => card(i - 1) < card(j - 1)
  <2> SUFFICES ASSUME NEW i \in DOMAIN l, NEW j \in DOMAIN l, l[i].complete, i < j
               PROVE  card(i - 1) < card(j - 1)
    OBVIOUS
  <2>1. i \in Nat \ {0} /\ j - 1 \in Nat /\ i <= j - 1
    BY <1>1
  <2> QED BY <2>1, CompletesGrow
<1> HIDE DEF card
<1>5. card(n) \in 0 .. n /\ \A i \in DOMAIN l : card(i - 1) \in 0 .. i - 1
  BY <1>1, <1>2
<1>6. Found(l) \in 0 .. Slots
  BY <1>1, <1>5
<1>7. \A i \in DOMAIN l : FilePlace(l, i) \in 1 .. Slots
  BY <1>1, <1>5
<1>8. \A i \in DOMAIN l : l[i].complete => FilePlace(l, i) \in 1 .. Found(l)
  BY <1>1, <1>3, <1>5
<1>9. \A i, j \in DOMAIN l : l[i].complete /\ i < j => FilePlace(l, i) < FilePlace(l, j)
  <2> SUFFICES ASSUME NEW i \in DOMAIN l, NEW j \in DOMAIN l, l[i].complete, i < j
               PROVE  FilePlace(l, i) < FilePlace(l, j)
    OBVIOUS
  <2>1. card(i - 1) \in Nat /\ card(j - 1) \in Nat /\ card(i - 1) < card(j - 1)
    BY <1>1, <1>4, <1>5
  <2> QED BY <1>1, <2>1
<1> QED BY <1>6, <1>7, <1>8, <1>9

\* Every listed slot has its complete file: there are as many places as such files.
LEMMA EveryPlaceIsTaken ==
  ASSUME NEW l \in AsListings, NEW k \in 1 .. Found(l)
  PROVE  \E i \in DOMAIN l : l[i].complete /\ FilePlace(l, i) = k
<1> DEFINE C == {i \in DOMAIN l : l[i].complete}
           f == [i \in C |-> FilePlace(l, i)]
<1>1. /\ C = Completes(l, Len(l)) /\ Found(l) = Cardinality(C) /\ IsFiniteSet(C)
      /\ Found(l) \in Nat
  <2>1. Len(l) \in Nat /\ DOMAIN l = 1 .. Len(l) /\ Found(l) = Cardinality(Completes(l, Len(l)))
    BY PlaceIs
  <2>2. C = Completes(l, Len(l))
    BY <2>1 DEF Completes
  <2>3. IsFiniteSet(Completes(l, Len(l))) /\ Cardinality(Completes(l, Len(l))) \in 0 .. Len(l)
    BY <2>1, CompletesFinite, Len(l) <= Len(l)
  <2> HIDE DEF C
  <2> QED BY <2>1, <2>2, <2>3
<1>2. \A i \in C : FilePlace(l, i) \in 1 .. Found(l)
  BY Places
<1>3. \A i, j \in C : FilePlace(l, i) = FilePlace(l, j) => i = j
  <2> SUFFICES ASSUME NEW i \in C, NEW j \in C, FilePlace(l, i) = FilePlace(l, j), i # j PROVE FALSE
    OBVIOUS
  <2>1. i \in Nat /\ j \in Nat /\ i \in DOMAIN l /\ j \in DOMAIN l /\ l[i].complete /\ l[j].complete
    BY PlaceIs
  <2>2. FilePlace(l, i) \in 1 .. Slots /\ FilePlace(l, j) \in 1 .. Slots
    BY <2>1, Places
  <2>3. FilePlace(l, i) < FilePlace(l, j) \/ FilePlace(l, j) < FilePlace(l, i)
    BY <2>1, Places
  <2> QED BY <2>2, <2>3
<1> HIDE DEF C
<1>4. f \in Injection(C, 1 .. Found(l))
  BY <1>2, <1>3 DEF Injection, IsInjective
<1>5. IsFiniteSet(1 .. Found(l)) /\ Cardinality(1 .. Found(l)) = Found(l)
  BY <1>1, FS_Interval
<1>6. f \in Surjection(C, 1 .. Found(l))
  BY <1>1, <1>4, <1>5, FS_Injection
<1>7. \E i \in C : f[i] = k
  BY <1>6 DEF Surjection
<1> QED BY <1>7 DEF C

\* A complete file keeps its slot: no other file is left the slot after it.
LEMMA KeeperIs ==
  ASSUME NEW l \in AsListings, NEW i \in DOMAIN l, l[i].complete
  PROVE  Keepers(l, FilePlace(l, i)) = {i}
<1>1. i \in Keepers(l, FilePlace(l, i))
  BY DEF Keepers
<1>2. ASSUME NEW j \in Keepers(l, FilePlace(l, i)), j # i PROVE FALSE
  <2>1. /\ j \in DOMAIN l /\ FilePlace(l, j) = FilePlace(l, i) /\ (l[j].complete \/ j = Len(l))
        /\ i \in 1 .. Len(l) /\ j \in 1 .. Len(l) /\ Len(l) \in Nat
    BY <1>2, PlaceIs DEF Keepers
  <2>2. FilePlace(l, i) \in 1 .. Slots
    BY Places
  <2>3. i < j \/ (j < i /\ l[j].complete)
    BY <1>2, <2>1
  <2>4. FilePlace(l, i) < FilePlace(l, j) \/ FilePlace(l, j) < FilePlace(l, i)
    BY <2>1, <2>3, Places
  <2> QED BY <2>1, <2>2, <2>4
<1> QED BY <1>1, <1>2

-----------------------------------------------------------------------------
(* Histories that are a source's own *)

Own(h, id, n) ==
  /\ \A i \in DOMAIN h : h[i].of = id /\ h[i].n <= n
  /\ \A i, j \in DOMAIN h : i < j => h[i].n < h[j].n

SlotOwn(slot, n) == slot \in Slot /\ Shape(slot) /\ Own(HistoryOf(slot), slot.id, n)
EntryOwn(entry, n) == Len(entry.samples) <= AsHistory /\ Own(entry.samples, entry.id, n)

DiskEntry == [id : Ids, samples : Seq(Sample)]

SlotsOwn == \A k \in 1 .. Slots : SlotOwn(as_slot[k], as_taken)
DiskOwn == \A e \in DOMAIN as_disk : EntryOwn(as_disk[e], as_taken)

\* The slots that are served are those that the files of the last discovery are left.
Listed ==
  as_pc # "down" =>
    /\ as_count = Found(as_known)
    /\ \A i \in DOMAIN as_known : as_known[i].complete =>
         as_slot[FilePlace(as_known, i)].id = as_known[i].id
    /\ SharedIn(as_known) \subseteq as_shared

AsInv == AsTypeOK /\ SlotsOwn /\ DiskOwn /\ Listed

\* What the types say of the slots, the directories and the file.
LEMMA AsTypes ==
  ASSUME AsTypeOK
  PROVE  /\ as_slot \in [1 .. Slots -> Slot] /\ as_disk \in Seq(DiskEntry)
         /\ as_count \in 0 .. Slots /\ as_taken \in 0 .. MaxSamples /\ as_taken \in Nat
         /\ as_files \in AsListings /\ as_known \in AsListings
         /\ DOMAIN as_disk = 1 .. Len(as_disk) /\ Len(as_disk) \in Nat
         /\ \A e \in DOMAIN as_disk : /\ as_disk[e].id \in Ids /\ as_disk[e].samples \in Seq(Sample)
                                      /\ Len(as_disk[e].samples) \in Nat
<1>1. as_slot \in [1 .. Slots -> Slot] /\ as_disk \in Seq(DiskEntry)
  BY DEF AsTypeOK, Slot, DiskEntry
<1>2. DOMAIN as_disk = 1 .. Len(as_disk) /\ Len(as_disk) \in Nat
      /\ \A e \in DOMAIN as_disk : as_disk[e] \in DiskEntry
  BY <1>1
<1>3. \A e \in DOMAIN as_disk : /\ as_disk[e].id \in Ids /\ as_disk[e].samples \in Seq(Sample)
                                /\ Len(as_disk[e].samples) \in Nat
  BY <1>2 DEF DiskEntry
<1>4. /\ as_count \in 0 .. Slots /\ as_taken \in 0 .. MaxSamples /\ as_taken \in Nat
      /\ as_files \in AsListings /\ as_known \in AsListings
  BY AvSyncAssumption DEF AsTypeOK
<1> QED BY <1>1, <1>2, <1>3, <1>4

\* A history that is its source's own, and not nobody's, is of samples.
LEMMA OwnIsSamples ==
  ASSUME NEW slot, NEW n, SlotOwn(slot, n), slot.id \in Ids
  PROVE  HistoryOf(slot) \in Seq(Sample) /\ Len(HistoryOf(slot)) \in 0 .. AsHistory
<1> DEFINE h == HistoryOf(slot)
<1>1. /\ h \in Seq(Sample \cup {NoSample}) /\ Len(h) = slot.count /\ DOMAIN h = 1 .. slot.count
      /\ slot.count \in 0 .. AsHistory
  BY HistoryIs DEF SlotOwn, Slot
<1>2. \A i \in DOMAIN h : h[i] \in Sample
  <2> SUFFICES ASSUME NEW i \in DOMAIN h PROVE h[i] \in Sample
    OBVIOUS
  <2>1. h[i].of = slot.id
    BY DEF SlotOwn, Own
  <2>2. h[i] # NoSample
    BY <2>1, AvSyncAssumption DEF NoSample
  <2>3. h[i] \in Sample \cup {NoSample}
    <3> HIDE DEF h
    <3> QED BY <1>1
  <2> QED BY <2>2, <2>3
<1> HIDE DEF h
<1>3. h \in Seq(Sample)
  <2>1. h \in [1 .. Len(h) -> Sample] /\ Len(h) \in Nat
    BY <1>1, <1>2
  <2> QED BY <2>1
<1> QED BY <1>1, <1>3 DEF h

\* What is served has an id and a history of samples.
LEMMA ServedIsListed ==
  ASSUME AsInv, as_pc # "down", NEW k \in 1 .. as_count
  PROVE  /\ k \in 1 .. Slots /\ as_slot[k].id \in Ids /\ SlotOwn(as_slot[k], as_taken)
         /\ HistoryOf(as_slot[k]) \in Seq(Sample) /\ Len(HistoryOf(as_slot[k])) \in 0 .. AsHistory
<1>1. k \in 1 .. Slots
  BY AvSyncAssumption DEF AsInv, AsTypeOK
<1>2. as_slot[k].id \in Ids
  <2>1. as_known \in AsListings /\ k \in 1 .. Found(as_known)
    BY AsTypes DEF AsInv, Listed
  <2>2. PICK i \in DOMAIN as_known : as_known[i].complete /\ FilePlace(as_known, i) = k
    BY <2>1, EveryPlaceIsTaken
  <2>3. as_known[i].id \in Ids
    BY <2>1, PlaceIs
  <2> QED BY <2>2, <2>3 DEF AsInv, Listed
<1>3. SlotOwn(as_slot[k], as_taken)
  BY <1>1 DEF AsInv, SlotsOwn
<1> QED BY <1>1, <1>2, <1>3, OwnIsSamples

\* The newest sample of a source goes to the end of its history.
LEMMA SampleOwn ==
  ASSUME NEW slot, NEW n \in Nat, SlotOwn(slot, n), NEW x \in Sample, x.of = slot.id, x.n = n + 1
  PROVE  SlotOwn(WithSample(slot, x), n + 1) /\ WithSample(slot, x).id = slot.id
<1> DEFINE new == WithSample(slot, x)
           d == IF slot.count < AsHistory THEN 0 ELSE 1
           h == HistoryOf(slot)
           g == HistoryOf(new)
<1>1. /\ new \in Slot /\ Shape(new) /\ new.id = slot.id
      /\ new.count = slot.count + 1 - d /\ g[new.count] = x
      /\ \A k \in 1 .. new.count - 1 : g[k] = h[k + d]
  BY SampleHistory DEF SlotOwn
<1>2. /\ DOMAIN g = 1 .. new.count /\ DOMAIN h = 1 .. slot.count
      /\ slot.count \in Nat /\ d \in {0, 1} /\ new.count \in Nat
  <2>1. DOMAIN g = 1 .. new.count /\ DOMAIN h = 1 .. slot.count /\ slot.count \in 0 .. AsHistory
        /\ new.count \in 0 .. AsHistory
    BY <1>1, HistoryIs DEF SlotOwn, Slot
  <2> QED BY <2>1, AvSyncAssumption
<1>3. /\ \A i \in DOMAIN h : h[i].of = slot.id /\ h[i].n <= n /\ h[i].n \in Nat
      /\ \A i, j \in DOMAIN h : i < j => h[i].n < h[j].n
  <2>1. \A i \in DOMAIN h : h[i] \in Sample \cup {NoSample}
    <3>1. h \in Seq(Sample \cup {NoSample})
      BY HistoryIs DEF SlotOwn
    <3> HIDE DEF h
    <3> QED BY <3>1
  <2>2. \A y \in Sample \cup {NoSample} : y.n \in Nat
    BY AvSyncAssumption DEF Sample, NoSample
  <2> QED BY <2>1, <2>2 DEF SlotOwn, Own
<1> HIDE DEF g, h, d, new
<1>4. ASSUME NEW i \in DOMAIN g PROVE g[i].of = slot.id /\ g[i].n <= n + 1
  <2>1. CASE i = new.count
    BY <1>1, <2>1
  <2>2. CASE i # new.count
    <3>1. i \in 1 .. new.count - 1 /\ i + d \in DOMAIN h
      BY <1>1, <1>2, <2>2
    <3> QED BY <1>1, <1>3, <3>1
  <2> QED BY <2>1, <2>2
<1>5. ASSUME NEW i \in DOMAIN g, NEW j \in DOMAIN g, i < j PROVE g[i].n < g[j].n
  <2>1. i \in 1 .. new.count - 1 /\ i + d \in DOMAIN h /\ g[i] = h[i + d]
    <3>1. i \in 1 .. new.count /\ j \in 1 .. new.count
      BY <1>2
    <3>2. i \in 1 .. new.count - 1
      BY <1>2, <1>5, <3>1
    <3>3. i + d \in DOMAIN h
      BY <1>1, <1>2, <3>2
    <3> QED BY <1>1, <3>2, <3>3
  <2>2. CASE j = new.count
    BY <1>1, <1>3, <2>1, <2>2
  <2>3. CASE j # new.count
    <3>1. j \in 1 .. new.count - 1 /\ j + d \in DOMAIN h /\ g[j] = h[j + d] /\ i + d < j + d
      <4>1. j \in 1 .. new.count /\ i \in 1 .. new.count
        BY <1>2
      <4>2. j \in 1 .. new.count - 1 /\ i + d < j + d
        BY <1>2, <1>5, <2>3, <4>1
      <4>3. j + d \in DOMAIN h
        BY <1>1, <1>2, <4>2
      <4> QED BY <1>1, <4>2, <4>3
    <3> QED BY <1>3, <2>1, <3>1
  <2> QED BY <2>2, <2>3
<1>6. Own(g, slot.id, n + 1)
  BY <1>4, <1>5 DEF Own
<1> QED BY <1>1, <1>6 DEF SlotOwn, g, new

\* Own stays own when more measurements have been taken.
LEMMA OwnLater ==
  ASSUME NEW n \in Nat
  PROVE  /\ \A slot : SlotOwn(slot, n) => SlotOwn(slot, n + 1)
         /\ \A entry \in DiskEntry : EntryOwn(entry, n) => EntryOwn(entry, n + 1)
<1>1. \A h, id : h \in Seq(Sample \cup {NoSample}) /\ Own(h, id, n) => Own(h, id, n + 1)
  <2> SUFFICES ASSUME NEW h \in Seq(Sample \cup {NoSample}), NEW id, Own(h, id, n),
                      NEW i \in DOMAIN h
               PROVE  h[i].n <= n + 1
    BY DEF Own
  <2>1. \A y \in Sample \cup {NoSample} : y.n \in Nat
    BY AvSyncAssumption DEF Sample, NoSample
  <2>2. h[i] \in Sample \cup {NoSample} /\ h[i].n <= n
    BY DEF Own
  <2> QED BY <2>1, <2>2
<1>2. \A slot \in Slot : HistoryOf(slot) \in Seq(Sample \cup {NoSample})
  BY HistoryIs
<1>3. \A entry \in DiskEntry : entry.samples \in Seq(Sample \cup {NoSample})
  BY DEF DiskEntry
<1> QED BY <1>1, <1>2, <1>3 DEF SlotOwn, EntryOwn

\* The blank slot and the empty history are anybody's own.
LEMMA BlankOwn ==
  ASSUME NEW n, NEW id \in Ids \cup {"nobody"}
  PROVE  SlotOwn([BlankSlot EXCEPT !.id = id], n) /\ SlotOwn(BlankSlot, n)
<1>1. \A x : Own(<<>>, x, n)
  BY DEF Own
<1>2. BlankSlot = [BlankSlot EXCEPT !.id = "nobody"]
  BY DEF BlankSlot
<1>3. \A x \in Ids \cup {"nobody"} : SlotOwn([BlankSlot EXCEPT !.id = x], n)
  BY <1>1, BlankHistory DEF SlotOwn
<1> QED BY <1>2, <1>3

-----------------------------------------------------------------------------
(* Discovery and the data file *)

\* A discovery gives the complete files their slots, and a source that is found in its old
\* slot, not after a file that lacks a field, keeps its history.
LEMMA DiscoveryOwn ==
  ASSUME NEW l \in AsListings, NEW n, NEW slots \in [1 .. Slots -> Slot],
         \A k \in 1 .. Slots : SlotOwn(slots[k], n)
  PROVE  LET new == Discovery(slots, l) IN
         /\ new \in [1 .. Slots -> Slot] /\ \A k \in 1 .. Slots : SlotOwn(new[k], n)
         /\ \A i \in DOMAIN l : l[i].complete =>
              /\ new[FilePlace(l, i)].id = l[i].id
              /\ ~AfterIncomplete(l, i) /\ slots[FilePlace(l, i)].id = l[i].id =>
                   new[FilePlace(l, i)] = slots[FilePlace(l, i)]
<1> DEFINE slot(k) == IF Keepers(l, k) = {} THEN slots[k]
                      ELSE Discovered(slots[k], l, CHOOSE i \in Keepers(l, k) : TRUE)
           new == Discovery(slots, l)
<1>1. new = [k \in 1 .. Slots |-> slot(k)]
  BY DEF Discovery
<1> HIDE DEF new
<1>2. \A k \in 1 .. Slots : \A i \in DOMAIN l : SlotOwn(Discovered(slots[k], l, i), n)
  <2> SUFFICES ASSUME NEW k \in 1 .. Slots, NEW i \in DOMAIN l
               PROVE  SlotOwn(Discovered(slots[k], l, i), n)
    OBVIOUS
  <2>1. l[i].id \in Ids
    BY PlaceIs
  <2>2. SlotOwn([BlankSlot EXCEPT !.id = l[i].id], n) /\ SlotOwn(slots[k], n)
    BY <2>1, BlankOwn
  <2> QED BY <2>2 DEF Discovered
<1>3. \A k \in 1 .. Slots : SlotOwn(slot(k), n)
  BY <1>2 DEF Keepers
<1>4. ASSUME NEW i \in DOMAIN l, l[i].complete
      PROVE  /\ FilePlace(l, i) \in 1 .. Slots
             /\ slot(FilePlace(l, i)) = Discovered(slots[FilePlace(l, i)], l, i)
  <2>1. Keepers(l, FilePlace(l, i)) = {i} /\ FilePlace(l, i) \in 1 .. Slots
    BY <1>4, KeeperIs, Places
  <2> QED BY <2>1
<1> HIDE DEF slot
<1>5. new \in [1 .. Slots -> Slot] /\ \A k \in 1 .. Slots : new[k] = slot(k)
  BY <1>1, <1>3 DEF SlotOwn
<1>6. ASSUME NEW i \in DOMAIN l, l[i].complete
      PROVE  /\ new[FilePlace(l, i)].id = l[i].id
             /\ ~AfterIncomplete(l, i) /\ slots[FilePlace(l, i)].id = l[i].id =>
                  new[FilePlace(l, i)] = slots[FilePlace(l, i)]
  <2>1. new[FilePlace(l, i)] = Discovered(slots[FilePlace(l, i)], l, i)
    BY <1>4, <1>5, <1>6
  <2>2. [BlankSlot EXCEPT !.id = l[i].id].id = l[i].id
    BY DEF BlankSlot
  <2> QED BY <1>6, <2>1, <2>2 DEF Discovered
<1> QED BY <1>3, <1>5, <1>6 DEF new

\* load_data gives listed slots what the file has under their ids.
LEMMA LoadOwn ==
  ASSUME AsTypeOK, DiskOwn, NEW slots \in [1 .. Slots -> Slot], NEW count \in Nat,
         \A k \in 1 .. Slots : SlotOwn(slots[k], as_taken)
  PROVE  LET new == Load(slots, count) IN
         /\ new \in [1 .. Slots -> Slot]
         /\ \A k \in 1 .. Slots : SlotOwn(new[k], as_taken) /\ new[k].id = slots[k].id
         /\ \A k \in 1 .. Slots :
              /\ k <= count /\ LastOf(slots[k].id) # {}
              /\ \A j \in 1 .. k - 1 : slots[j].id # slots[k].id
              => \E e \in LastOf(slots[k].id) : HistoryOf(new[k]) = as_disk[e].samples
<1> DEFINE entry(k) == CHOOSE e \in LastOf(slots[k].id) : TRUE
           gets(k) == /\ k <= count /\ LastOf(slots[k].id) # {}
                      /\ \A j \in 1 .. k - 1 : slots[j].id # slots[k].id
           slot(k) == IF gets(k)
                        THEN Loaded(slots[k], as_disk[entry(k)].samples) ELSE slots[k]
           new == Load(slots, count)
<1>1. new = [k \in 1 .. Slots |-> slot(k)]
  BY DEF Load
<1> HIDE DEF new
<1>2. ASSUME NEW k \in 1 .. Slots, NEW e \in LastOf(slots[k].id),
             NEW x, x = Loaded(slots[k], as_disk[e].samples)
      PROVE  SlotOwn(x, as_taken) /\ x.id = slots[k].id /\ HistoryOf(x) = as_disk[e].samples
  <2>1. /\ e \in DOMAIN as_disk /\ as_disk[e].id = slots[k].id /\ EntryOwn(as_disk[e], as_taken)
        /\ as_disk[e].samples \in Seq(Sample)
    BY AsTypes DEF LastOf, DiskOwn
  <2>2. x \in Slot /\ Shape(x) /\ x.id = slots[k].id /\ HistoryOf(x) = as_disk[e].samples
    BY <1>2, <2>1, LoadedHistory DEF EntryOwn
  <2> QED BY <2>1, <2>2 DEF SlotOwn, EntryOwn
<1>3. \A k \in 1 .. Slots : LastOf(slots[k].id) # {} => entry(k) \in LastOf(slots[k].id)
  OBVIOUS
<1> HIDE DEF entry
<1>4. ASSUME NEW k \in 1 .. Slots
      PROVE  /\ SlotOwn(slot(k), as_taken) /\ slot(k).id = slots[k].id
             /\ gets(k) =>
                  \E e \in LastOf(slots[k].id) : HistoryOf(slot(k)) = as_disk[e].samples
  <2>1. CASE gets(k)
    <3>1. slot(k) = Loaded(slots[k], as_disk[entry(k)].samples) /\ entry(k) \in LastOf(slots[k].id)
      BY <1>3, <2>1
    <3> HIDE DEF slot
    <3> QED BY <1>2, <3>1
  <2>2. CASE ~gets(k)
    BY <2>2
  <2> QED BY <2>1, <2>2
<1> HIDE DEF slot
<1>5. new \in [1 .. Slots -> Slot] /\ \A k \in 1 .. Slots : new[k] = slot(k)
  BY <1>1, <1>4 DEF SlotOwn
<1> QED BY <1>4, <1>5 DEF new

\* What save_data writes of each source.
LEMMA ContentOwn ==
  ASSUME AsInv, as_pc # "down"
  PROVE  /\ Content \in Seq(DiskEntry) /\ Len(Content) = as_count /\ DOMAIN Content = 1 .. as_count
         /\ \A k \in 1 .. as_count : /\ Content[k] = [id |-> as_slot[k].id, samples |-> HistoryOf(as_slot[k])]
                                     /\ EntryOwn(Content[k], as_taken)
<1> DEFINE entry(k) == [id |-> as_slot[k].id, samples |-> HistoryOf(as_slot[k])]
<1>1. as_count \in Nat
  BY AvSyncAssumption DEF AsInv, AsTypeOK
<1>2. ASSUME NEW k \in 1 .. as_count PROVE entry(k) \in DiskEntry /\ EntryOwn(entry(k), as_taken)
  <2>1. /\ as_slot[k].id \in Ids /\ SlotOwn(as_slot[k], as_taken)
        /\ HistoryOf(as_slot[k]) \in Seq(Sample) /\ Len(HistoryOf(as_slot[k])) \in 0 .. AsHistory
    BY <1>2, ServedIsListed
  <2>2. Len(HistoryOf(as_slot[k])) <= AsHistory
    BY <2>1, AvSyncAssumption
  <2> QED BY <2>1, <2>2 DEF DiskEntry, EntryOwn, SlotOwn
<1>3. Content = [k \in 1 .. as_count |-> entry(k)]
  BY DEF Content
<1>4. \A k \in 1 .. as_count : Content[k] = entry(k)
  BY <1>3
<1> HIDE DEF entry
<1>5. Content \in [1 .. as_count -> DiskEntry]
  BY <1>2, <1>3
<1>6. Content \in Seq(DiskEntry) /\ Len(Content) = as_count /\ DOMAIN Content = 1 .. as_count
  BY <1>1, <1>5
<1> QED BY <1>2, <1>4, <1>6 DEF entry

\* What a writer that is killed leaves in the file is a part of it.
LEMMA TornOwn ==
  ASSUME AsInv, as_pc # "down", NEW disk \in Torn
  PROVE  disk \in Seq(DiskEntry) /\ \A e \in DOMAIN disk : EntryOwn(disk[e], as_taken)
<1>1. CASE disk = <<>>
  BY <1>1
<1>2. ASSUME NEW k \in 1 .. as_count, NEW n \in 0 .. Len(Content[k].samples), NEW torn,
             torn = [Content[k] EXCEPT !.samples = SubSeq(@, 1, n)],
             disk = SubSeq(Content, 1, k - 1) \o <<torn>>
      PROVE  disk \in Seq(DiskEntry) /\ \A e \in DOMAIN disk : EntryOwn(disk[e], as_taken)
  <2> DEFINE samples == Content[k].samples
  <2>1. /\ Content \in Seq(DiskEntry) /\ Len(Content) = as_count /\ as_count \in Nat
        /\ \A j \in 1 .. as_count : EntryOwn(Content[j], as_taken) /\ Content[j] \in DiskEntry
    <3>1. /\ Content \in Seq(DiskEntry) /\ Len(Content) = as_count /\ DOMAIN Content = 1 .. as_count
          /\ \A j \in 1 .. as_count : EntryOwn(Content[j], as_taken)
      BY ContentOwn
    <3>2. as_count \in Nat
      BY AvSyncAssumption DEF AsInv, AsTypeOK
    <3> QED BY <3>1, <3>2
  <2>2. /\ Content[k] = [id |-> Content[k].id, samples |-> samples]
        /\ samples \in Seq(Sample) /\ Content[k].id \in Ids /\ Len(samples) <= AsHistory
        /\ Own(samples, Content[k].id, as_taken)
    BY <2>1 DEF DiskEntry, EntryOwn
  <2>3. torn = [id |-> Content[k].id, samples |-> SubSeq(samples, 1, n)]
    BY <1>2, <2>2
  <2> HIDE DEF samples
  <2>4. /\ SubSeq(samples, 1, n) \in Seq(Sample) /\ Len(SubSeq(samples, 1, n)) = n
        /\ \A i \in 1 .. n : SubSeq(samples, 1, n)[i] = samples[i] /\ i \in DOMAIN samples
        /\ n <= AsHistory
    <3>1. n \in 0 .. Len(samples) /\ Len(samples) \in Nat
      BY <2>2 DEF samples
    <3> QED BY <2>2, <3>1, AvSyncAssumption
  <2>5. torn \in DiskEntry /\ EntryOwn(torn, as_taken)
    <3>1. torn \in DiskEntry /\ torn.id = Content[k].id /\ torn.samples = SubSeq(samples, 1, n)
      BY <2>2, <2>3, <2>4 DEF DiskEntry
    <3>2. DOMAIN torn.samples = 1 .. n
      BY <2>4, <3>1
    <3>3. Own(torn.samples, Content[k].id, as_taken)
      BY <2>2, <2>4, <3>1, <3>2 DEF Own
    <3> QED BY <2>4, <3>1, <3>3 DEF EntryOwn
  <2>6. /\ disk \in Seq(DiskEntry) /\ Len(disk) = k
        /\ \A e \in 1 .. k - 1 : disk[e] = Content[e]
        /\ disk[k] = torn
    <3> DEFINE front == SubSeq(Content, 1, k - 1)
    <3>1. /\ front \in Seq(DiskEntry) /\ Len(front) = k - 1
          /\ \A e \in 1 .. k - 1 : front[e] = Content[e]
      BY <2>1
    <3>2. disk = front \o <<torn>>
      BY <1>2
    <3>3. k \in Nat \ {0}
      BY <2>1
    <3> HIDE DEF front
    <3>4. <<torn>> \in Seq(DiskEntry) /\ Len(<<torn>>) = 1 /\ <<torn>>[1] = torn
      BY ONLY <2>5
    <3> DEFINE last == <<torn>>
    <3> HIDE DEF last
    <3>5. /\ disk \in Seq(DiskEntry) /\ Len(disk) = k
          /\ \A e \in 1 .. k - 1 : disk[e] = front[e]
          /\ disk[k] = last[1]
      BY ONLY <3>1, <3>2, <3>3, <3>4 DEF last
    <3> QED BY ONLY <3>1, <3>4, <3>5 DEF last
  <2>7. \A e \in 1 .. k : EntryOwn(disk[e], as_taken)
    <3> SUFFICES ASSUME NEW e \in 1 .. k PROVE EntryOwn(disk[e], as_taken)
      OBVIOUS
    <3>1. CASE e = k
      BY <2>5, <2>6, <3>1
    <3>2. CASE e # k
      <4>1. e \in 1 .. k - 1 /\ e \in 1 .. as_count
        BY <2>1, <3>2
      <4> QED BY <2>1, <2>6, <4>1
    <3> QED BY <3>1, <3>2
  <2> QED BY <2>6, <2>7
<1>3. disk = <<>> \/ \E k \in 1 .. as_count : \E n \in 0 .. Len(Content[k].samples) :
        disk = SubSeq(Content, 1, k - 1) \o <<[Content[k] EXCEPT !.samples = SubSeq(@, 1, n)]>>
  BY DEF Torn
<1> QED BY <1>1, <1>2, <1>3

-----------------------------------------------------------------------------
(* The steps *)

\* A step that moves no slot and no history changes nothing about them.
LEMMA AsStill ==
  ASSUME AsInv, UNCHANGED <<as_slot, as_disk, as_taken, as_count, as_known, as_shared>>,
         as_pc' # "down" => as_pc # "down"
  PROVE  SlotsOwn' /\ DiskOwn' /\ Listed'
  BY DEF AsInv, SlotsOwn, DiskOwn, Listed

\* The blank slots of a program that is down.
LEMMA BlankSlotsOwn ==
  ASSUME NEW n
  PROVE  BlankSlots \in [1 .. Slots -> Slot] /\ \A k \in 1 .. Slots : SlotOwn(BlankSlots[k], n)
<1>1. SlotOwn(BlankSlot, n) /\ BlankSlot \in Slot
  BY BlankOwn DEF SlotOwn
<1> QED BY <1>1 DEF BlankSlots

\* A start finds the files and what the data file has of them.
LEMMA StartStep == AsInv /\ AsStart => AsInv'
<1> SUFFICES ASSUME AsInv, AsStart PROVE AsInv'
  OBVIOUS
<1> DEFINE found == Discovery(BlankSlots, as_files)
<1>1. /\ as_pc' = "discover" /\ as_running' = TRUE /\ as_count' = Found(as_files)
      /\ as_slot' = Load(found, Found(as_files)) \/ as_slot' = found
      /\ as_known' = as_files /\ as_shared' = as_shared \cup SharedIn(as_files)
      /\ UNCHANGED <<as_files, as_next, as_disk, as_kept, as_taken, as_edits, as_stops>>
  BY DEF AsStart, SeeFiles, asCounts
<1>2. /\ as_files \in AsListings /\ Found(as_files) \in 0 .. Slots
      /\ \A i \in DOMAIN as_files : as_files[i].complete => FilePlace(as_files, i) \in 1 .. Slots
  BY Places DEF AsInv, AsTypeOK
<1>3. /\ found \in [1 .. Slots -> Slot] /\ \A k \in 1 .. Slots : SlotOwn(found[k], as_taken)
      /\ \A i \in DOMAIN as_files : as_files[i].complete =>
           found[FilePlace(as_files, i)].id = as_files[i].id
  BY <1>2, BlankSlotsOwn, DiscoveryOwn
<1> HIDE DEF found
<1>4. /\ as_slot' \in [1 .. Slots -> Slot]
      /\ \A k \in 1 .. Slots : SlotOwn(as_slot'[k], as_taken) /\ as_slot'[k].id = found[k].id
  <2> DEFINE new == Load(found, Found(as_files))
  <2>1. AsTypeOK /\ DiskOwn
    BY DEF AsInv
  <2>2. /\ new \in [1 .. Slots -> Slot]
        /\ \A k \in 1 .. Slots : SlotOwn(new[k], as_taken) /\ new[k].id = found[k].id
    <3>1. Found(as_files) \in Nat
      BY <1>2, AvSyncAssumption
    <3> QED BY <1>3, <2>1, <3>1, LoadOwn
  <2> HIDE DEF new
  <2>3. as_slot' = new \/ as_slot' = found
    BY <1>1 DEF new
  <2> QED BY <1>3, <2>2, <2>3
<1>5. as_owed' \in [Ids -> Seq(Sample)]
  <2>1. \A id \in Ids : <<>> \in Seq(Sample) /\ as_kept[id] \in Seq(Sample)
    BY DEF AsInv, AsTypeOK
  <2>2. \/ as_owed' = [id \in Ids |-> IF SlotIn(as_files, id) = 0 THEN <<>> ELSE as_kept[id]]
        \/ as_owed' = [id \in Ids |-> <<>>]
    BY DEF AsStart, Nothing
  <2> QED BY ONLY <2>1, <2>2
<1>6. AsTypeOK'
  BY <1>1, <1>2, <1>4, <1>5 DEF AsInv, AsTypeOK, Slot, SharedIn
<1>7. SlotsOwn' /\ DiskOwn' /\ Listed'
  BY <1>1, <1>2, <1>3, <1>4 DEF AsInv, SlotsOwn, DiskOwn, Listed
<1> QED BY <1>6, <1>7 DEF AsInv

\* A discovery keeps histories own, whoever gets which slot.
LEMMA DiscoverStep == AsInv /\ Discover => AsInv'
<1> SUFFICES ASSUME AsInv, Discover PROVE AsInv'
  OBVIOUS
<1>1. /\ as_pc' = "measure" /\ as_next' = 1 /\ as_count' = Found(as_files)
      /\ as_slot' = Discovery(as_slot, as_files)
      /\ as_known' = as_files /\ as_shared' = as_shared \cup SharedIn(as_files)
      /\ UNCHANGED <<as_files, as_running, as_disk, as_kept, as_taken, as_edits, as_stops>>
  BY DEF Discover, SeeFiles, asCounts
<1>2. as_files \in AsListings /\ Found(as_files) \in 0 .. Slots
  BY Places DEF AsInv, AsTypeOK
<1>3. /\ as_slot' \in [1 .. Slots -> Slot] /\ \A k \in 1 .. Slots : SlotOwn(as_slot'[k], as_taken)
      /\ \A i \in DOMAIN as_files : as_files[i].complete =>
           as_slot'[FilePlace(as_files, i)].id = as_files[i].id
  <2> DEFINE new == Discovery(as_slot, as_files)
  <2>1. as_slot \in [1 .. Slots -> Slot] /\ \A k \in 1 .. Slots : SlotOwn(as_slot[k], as_taken)
    BY AsTypes DEF AsInv, SlotsOwn
  <2>2. /\ new \in [1 .. Slots -> Slot] /\ \A k \in 1 .. Slots : SlotOwn(new[k], as_taken)
        /\ \A i \in DOMAIN as_files : as_files[i].complete =>
             new[FilePlace(as_files, i)].id = as_files[i].id
    BY <1>2, <2>1, DiscoveryOwn
  <2> HIDE DEF new
  <2>3. as_slot' = new
    BY <1>1 DEF new
  <2> QED BY <2>2, <2>3
<1>4. as_owed' \in [Ids -> Seq(Sample)]
  <2>1. \A id \in Ids : <<>> \in Seq(Sample) /\ as_owed[id] \in Seq(Sample)
    BY DEF AsInv, AsTypeOK
  <2> QED BY <2>1 DEF Discover
<1>5. 1 \in 1 .. Slots + 1
  BY AvSyncAssumption
<1>6. AsTypeOK'
  BY <1>1, <1>2, <1>3, <1>4, <1>5 DEF AsInv, AsTypeOK, Slot, SharedIn
<1>7. SlotsOwn' /\ DiskOwn' /\ Listed'
  BY <1>1, <1>2, <1>3 DEF AsInv, SlotsOwn, DiskOwn, Listed
<1> QED BY <1>6, <1>7 DEF AsInv

\* A measurement goes to its source's slot.
LEMMA MeasureStep == AsInv /\ Measure => AsInv'
<1> SUFFICES ASSUME AsInv, Measure PROVE AsInv'
  OBVIOUS
<1> DEFINE id == as_slot[as_next].id
           x == [of |-> id, n |-> as_taken + 1]
           owed == Append(as_owed[id], x)
<1>1. /\ as_pc = "measure" /\ as_next <= as_count /\ as_taken < MaxSamples
      /\ as_slot' = [as_slot EXCEPT ![as_next] = WithSample(as_slot[as_next], x)]
      /\ as_owed' = [as_owed EXCEPT ![id] = IF Len(owed) > AsHistory THEN Tail(owed) ELSE owed]
      /\ as_next' = as_next + 1 /\ as_taken' = as_taken + 1
      /\ UNCHANGED <<as_files, as_pc, as_running, as_count, as_disk, as_known, as_shared, as_kept, as_edits, as_stops>>
  BY DEF Measure, Measuring, asSeen
<1>2. /\ as_slot \in [1 .. Slots -> Slot] /\ as_taken \in Nat /\ MaxSamples \in Nat /\ Slots \in Nat
      /\ as_count \in 0 .. Slots /\ as_next \in 1 .. Slots + 1 /\ as_next \in 1 .. as_count
      /\ as_taken \in 0 .. MaxSamples
  BY <1>1, AvSyncAssumption, AsTypes DEF AsInv, AsTypeOK
<1>3. id \in Ids /\ SlotOwn(as_slot[as_next], as_taken)
  BY <1>1, <1>2, ServedIsListed
<1>4. x \in Sample /\ x.of = id /\ x.n = as_taken + 1
  BY <1>1, <1>2, <1>3 DEF Sample
<1> HIDE DEF x
<1>5. SlotOwn(WithSample(as_slot[as_next], x), as_taken + 1) /\ WithSample(as_slot[as_next], x).id = id
  BY <1>2, <1>3, <1>4, SampleOwn
<1>6. \A k \in 1 .. Slots : k # as_next => SlotOwn(as_slot[k], as_taken + 1)
  BY <1>2, OwnLater DEF AsInv, SlotsOwn
<1>7. as_slot' \in [1 .. Slots -> Slot] /\ \A k \in 1 .. Slots : SlotOwn(as_slot'[k], as_taken')
  BY <1>1, <1>2, <1>5, <1>6 DEF SlotOwn
<1>8. \A k \in 1 .. Slots : as_slot'[k].id = as_slot[k].id
  BY <1>1, <1>2, <1>5
<1>9. as_owed' \in [Ids -> Seq(Sample)]
  <2>1. as_owed \in [Ids -> Seq(Sample)]
    BY DEF AsInv, AsTypeOK
  <2>2. owed \in Seq(Sample) /\ owed # <<>>
    BY <1>3, <1>4, <2>1
  <2> HIDE DEF owed
  <2>3. Tail(owed) \in Seq(Sample)
    BY <2>2
  <2> QED BY <1>1, <1>3, <2>1, <2>2, <2>3
<1>10. DiskOwn'
  <2>1. \A e \in DOMAIN as_disk : as_disk[e] \in DiskEntry
    BY AsTypes DEF AsInv
  <2> QED BY <1>1, <1>2, <2>1, OwnLater DEF AsInv, DiskOwn
<1>11. Listed'
  <2>1. as_known \in AsListings
    BY AsTypes DEF AsInv
  <2>2. \A i \in DOMAIN as_known : FilePlace(as_known, i) \in 1 .. Slots
    BY <2>1, Places
  <2> QED BY <1>1, <1>8, <2>2 DEF AsInv, Listed
<1>12. as_next' \in 1 .. Slots + 1 /\ as_taken' \in 0 .. MaxSamples
  BY <1>1, <1>2
<1>13. AsTypeOK'
  BY <1>1, <1>7, <1>9, <1>12 DEF AsInv, AsTypeOK, Slot
<1> QED BY <1>7, <1>10, <1>11, <1>13 DEF AsInv, SlotsOwn

\* A save writes what is served, or a part of it, or nothing; the last one ends the program.
LEMMA SaveStep == AsInv /\ (SaveEnds \/ SaveFails) => AsInv'
<1> SUFFICES ASSUME AsInv, SaveEnds \/ SaveFails PROVE AsInv'
  OBVIOUS
<1>1. /\ as_pc # "down" /\ as_pc' \in {"sleep", "down"}
      /\ as_slot' = as_slot \/ as_slot' = BlankSlots
      /\ as_pc' = "sleep" => as_slot' = as_slot
      /\ UNCHANGED <<as_files, as_running, as_count, as_next, as_known, as_shared, as_owed,
                     as_taken, as_edits, as_stops>>
  BY DEF SaveEnds, SaveFails, SaveReturns, asCounts, asSeen
<1>2. as_disk' \in Seq(DiskEntry) /\ \A e \in DOMAIN as_disk' : EntryOwn(as_disk'[e], as_taken)
  <2>1. CASE as_disk' = Content
    BY <1>1, <2>1, ContentOwn
  <2>2. CASE as_disk' \in Torn
    BY <1>1, <2>2, TornOwn
  <2>3. CASE UNCHANGED as_disk
    BY <2>3, AsTypes DEF AsInv, DiskOwn
  <2> QED BY <2>1, <2>2, <2>3 DEF SaveEnds, SaveFails
<1>3. as_slot' \in [1 .. Slots -> Slot] /\ \A k \in 1 .. Slots : SlotOwn(as_slot'[k], as_taken)
  BY <1>1, AsTypes, BlankSlotsOwn DEF AsInv, SlotsOwn
<1>4. as_kept' \in [Ids -> Seq(Sample)]
  <2>1. \A id \in Ids : <<>> \in Seq(Sample) /\ as_owed[id] \in Seq(Sample)
    BY DEF AsInv, AsTypeOK
  <2>2. \/ as_kept' = [id \in Ids |-> IF \E k \in 1 .. as_count : as_slot[k].id = id
                                    THEN as_owed[id] ELSE <<>>]
        \/ as_kept' = [id \in Ids |-> <<>>]
        \/ as_kept' = as_kept
    BY DEF SaveEnds, SaveFails, Nothing
  <2>3. as_kept \in [Ids -> Seq(Sample)]
    BY DEF AsInv, AsTypeOK
  <2> QED BY ONLY <2>1, <2>2, <2>3
<1>5. AsTypeOK'
  BY <1>1, <1>2, <1>3, <1>4 DEF AsInv, AsTypeOK, Slot, DiskEntry
<1>6. SlotsOwn' /\ DiskOwn' /\ Listed'
  BY <1>1, <1>2, <1>3 DEF AsInv, SlotsOwn, DiskOwn, Listed
<1> QED BY <1>5, <1>6 DEF AsInv

\* A kill leaves the file of the last save, or a part of the one that is being written.
LEMMA KillStep == AsInv /\ AsKill => AsInv'
<1> SUFFICES ASSUME AsInv, AsKill PROVE AsInv'
  OBVIOUS
<1>1. /\ as_pc # "down" /\ as_pc' = "down" /\ as_running' = FALSE /\ as_slot' = BlankSlots
      /\ (as_disk' \in Torn /\ as_kept' = Nothing) \/ UNCHANGED <<as_disk, as_kept>>
      /\ as_stops < MaxStops /\ as_stops' = as_stops + 1
      /\ UNCHANGED <<as_files, as_count, as_next, as_known, as_shared, as_owed, as_taken, as_edits>>
  BY DEF AsKill, asSeen
<1>2. /\ as_disk' \in Seq(DiskEntry) /\ \A e \in DOMAIN as_disk' : EntryOwn(as_disk'[e], as_taken)
      /\ as_kept' \in [Ids -> Seq(Sample)]
  <2>1. Nothing \in [Ids -> Seq(Sample)]
    BY DEF Nothing
  <2>2. CASE UNCHANGED <<as_disk, as_kept>>
    BY <2>2, AsTypes DEF AsInv, DiskOwn, AsTypeOK
  <2>3. CASE as_disk' \in Torn /\ as_kept' = Nothing
    BY <1>1, <2>1, <2>3, TornOwn
  <2> QED BY <1>1, <2>2, <2>3
<1>3. as_stops' \in 0 .. MaxStops
  BY <1>1, AvSyncAssumption DEF AsInv, AsTypeOK
<1>4. as_slot' \in [1 .. Slots -> Slot] /\ \A k \in 1 .. Slots : SlotOwn(as_slot'[k], as_taken)
  BY <1>1, BlankSlotsOwn
<1>5. AsTypeOK'
  BY <1>1, <1>2, <1>3, <1>4 DEF AsInv, AsTypeOK, Slot, DiskEntry
<1>6. SlotsOwn' /\ DiskOwn' /\ Listed'
  BY <1>1, <1>2, <1>4 DEF SlotsOwn, DiskOwn, Listed
<1> QED BY <1>5, <1>6 DEF AsInv

\* The steps that only move on.
LEMMA GoOnStep ==
  ASSUME AsInv, MeasureNothing \/ MeasureEnds \/ OpenDataFile \/ Wake \/ Join \/ AsSignal \/ Edit
  PROVE  AsInv'
<1>1. /\ UNCHANGED <<as_slot, as_disk, as_taken, as_count, as_known, as_shared, as_owed, as_kept>>
      /\ as_pc' # "down" => as_pc # "down"
  BY DEF MeasureNothing, MeasureEnds, OpenDataFile, Wake, Join, AsSignal, Edit, AsGoto, asMemory, asCounts,
         asSeen
<1>2. SlotsOwn' /\ DiskOwn' /\ Listed'
  BY <1>1, AsStill
<1>3. /\ as_files' \in AsListings /\ as_running' \in BOOLEAN
      /\ as_pc' \in {"down", "discover", "measure", "save", "writing", "sleep", "last", "lastwriting"}
  BY DEF AsInv, AsTypeOK, MeasureNothing, Measuring, MeasureEnds, OpenDataFile, Wake, Join, AsSignal,
         Edit, AsGoto, asMemory, asCounts
<1>4. as_next' \in 1 .. Slots + 1 /\ as_edits' \in 0 .. MaxEdits /\ as_stops' \in 0 .. MaxStops
  <2> USE AvSyncAssumption DEF AsInv, AsTypeOK
  <2>1. CASE MeasureNothing
    BY <2>1 DEF MeasureNothing, Measuring, asCounts
  <2>2. CASE AsSignal
    BY <2>2 DEF AsSignal
  <2>3. CASE Edit
    BY <2>3 DEF Edit, asMemory
  <2>4. CASE MeasureEnds \/ OpenDataFile \/ Wake \/ Join
    BY <2>4 DEF MeasureEnds, OpenDataFile, Wake, Join, AsGoto, asMemory, asCounts
  <2> QED BY <2>1, <2>2, <2>3, <2>4
<1>5. AsTypeOK'
  BY <1>1, <1>3, <1>4 DEF AsInv, AsTypeOK
<1> QED BY <1>2, <1>5 DEF AsInv

\* Every step of the monitor keeps its histories own.
LEMMA AsInvStep == AsInv /\ [AsNext]_asVars => AsInv'
<1> SUFFICES ASSUME AsInv, [AsNext]_asVars PROVE AsInv'
  OBVIOUS
<1>1. CASE UNCHANGED asVars
  BY <1>1 DEF asVars, asSeen, asMemory, asCounts, AsInv, AsTypeOK, SlotsOwn, DiskOwn, Listed
<1> QED
  BY <1>1, StartStep, DiscoverStep, MeasureStep, SaveStep, KillStep, GoOnStep DEF AsNext

\* Before the first start there is no history.
LEMMA AsInvInit == AsInit => AsInv
<1> SUFFICES ASSUME AsInit PROVE AsInv
  OBVIOUS
<1>1. BlankSlots \in [1 .. Slots -> Slot] /\ \A k \in 1 .. Slots : SlotOwn(BlankSlots[k], as_taken)
  BY BlankSlotsOwn
<1>2. /\ as_disk = <<>> /\ as_disk \in Seq(DiskEntry) /\ DOMAIN as_disk = {}
      /\ as_owed \in [Ids -> Seq(Sample)] /\ as_kept \in [Ids -> Seq(Sample)]
  BY DEF AsInit, Nothing
<1>3. /\ 0 \in 0 .. Slots /\ 1 \in 1 .. Slots + 1 /\ 0 \in 0 .. MaxSamples /\ 0 \in 0 .. MaxEdits
      /\ 0 \in 0 .. MaxStops
  BY AvSyncAssumption
<1>4. AsTypeOK
  BY <1>1, <1>2, <1>3 DEF AsInit, AsTypeOK, Slot, DiskEntry
<1> QED
  BY <1>1, <1>2, <1>4 DEF AsInit, AsInv, SlotsOwn, DiskOwn, Listed

\* Type correctness of the A/V sync monitor, for every directory and all bounds.
THEOREM AsTypeCorrect == AsSpec => []AsTypeOK
<1>1. AsInv => AsTypeOK
  BY DEF AsInv
<1> QED
  BY <1>1, AsInvInit, AsInvStep, PTL DEF AsSpec

\* Every history that is served consists of measurements made under that very id, oldest
\* first, for every history size, whatever became of the files, the program and its file.
THEOREM HistoriesAreOwnHolds == AsSpec => []HistoriesAreOwn
<1>1. AsInv => HistoriesAreOwn
  BY ServedIsListed DEF HistoriesAreOwn, SlotOwn, Own
<1> QED
  BY <1>1, AsInvInit, AsInvStep, PTL DEF AsSpec

-----------------------------------------------------------------------------
(* Histories that lose nothing *)

\* A history ends in samples that are owed.
Ends(h, o) == Len(o) <= Len(h) /\ \A i \in 1 .. Len(o) : h[Len(h) - Len(o) + i] = o[i]

\* What is served under an id of its own ends in what is owed to it, and so does what a
\* restart will find.
KeptInv ==
  /\ as_pc # "down" =>
       \A k \in 1 .. as_count :
         as_slot[k].id \notin as_shared => Ends(HistoryOf(as_slot[k]), as_owed[as_slot[k].id])
  /\ \A id \in Ids \ as_shared :
       /\ as_kept[id] # <<>> => LastOf(id) # {}
       /\ \A e \in DOMAIN as_disk : as_disk[e].id = id => Ends(as_disk[e].samples, as_kept[id])

\* Every history ends in nothing.
LEMMA EndsInNothing ==
  ASSUME NEW S, NEW h \in Seq(S)
  PROVE  Ends(h, <<>>)
<1>1. Len(h) \in Nat /\ Len(<<>>) = 0
  OBVIOUS
<1> QED BY <1>1 DEF Ends

\* The suffix of the property is the end that the invariant speaks of.
LEMMA EndsIsSuffix ==
  ASSUME NEW h \in Seq(Sample), NEW o \in Seq(Sample), Ends(h, o)
  PROVE  IsSuffix(o, h)
<1> DEFINE m == Len(o)
           n == Len(h)
           ro == Reverse(o)
           rh == Reverse(h)
<1>1. /\ m \in Nat /\ n \in Nat /\ m <= n
      /\ \A i \in 1 .. m : h[n - m + i] = o[i]
  BY DEF Ends
<1>2. ro = [i \in 1 .. m |-> o[(m - i) + 1]] /\ rh = [i \in 1 .. n |-> h[(n - i) + 1]]
  BY DEF Reverse
<1> HIDE DEF m, n, ro, rh
<1>3. Len(ro) = m /\ Len(rh) = n
  BY <1>1, <1>2
<1>4. \A i \in 1 .. m : ro[i] = rh[i]
  <2> SUFFICES ASSUME NEW i \in 1 .. m PROVE ro[i] = rh[i]
    OBVIOUS
  <2>1. /\ (m - i) + 1 \in 1 .. m /\ n - m + ((m - i) + 1) = (n - i) + 1 /\ i \in 1 .. n
    BY <1>1
  <2>2. h[(n - i) + 1] = o[(m - i) + 1]
    BY <1>1, <2>1
  <2> QED BY <1>2, <2>1, <2>2
<1>5. SubSeq(ro, 1, m) = SubSeq(rh, 1, m)
  <2>1. ro \in Seq(Sample) /\ rh \in Seq(Sample)
    <3>1. /\ \A i \in 1 .. m : (m - i) + 1 \in 1 .. m /\ o[(m - i) + 1] \in Sample
          /\ \A i \in 1 .. n : (n - i) + 1 \in 1 .. n /\ h[(n - i) + 1] \in Sample
      BY <1>1 DEF m, n
    <3>2. ro \in [1 .. m -> Sample] /\ rh \in [1 .. n -> Sample]
      BY <1>2, <3>1
    <3> QED BY <1>1, <3>2
  <2>2. /\ SubSeq(ro, 1, m) \in Seq(Sample) /\ Len(SubSeq(ro, 1, m)) = m
        /\ \A i \in 1 .. m : SubSeq(ro, 1, m)[i] = ro[i]
    BY <1>1, <1>3, <2>1
  <2>3. /\ SubSeq(rh, 1, m) \in Seq(Sample) /\ Len(SubSeq(rh, 1, m)) = m
        /\ \A i \in 1 .. m : SubSeq(rh, 1, m)[i] = rh[i]
    BY <1>1, <1>3, <2>1
  <2> DEFINE p == SubSeq(ro, 1, m)
             q == SubSeq(rh, 1, m)
  <2> HIDE DEF p, q
  <2>4. p = q
    BY <1>4, <2>2, <2>3 DEF p, q
  <2> QED BY <2>4 DEF p, q
<1> QED BY <1>1, <1>3, <1>5 DEF IsSuffix, IsPrefix, ro, rh

\* Where a sample of the end is when one more has come.
LEMMA EndMoves ==
  ASSUME NEW a \in Nat, NEW b \in Nat, NEW m \in Nat, NEW d \in Nat, NEW i \in 1 .. m,
         m + 1 <= b, b = a + 1 - d
  PROVE  /\ b - (m + 1) + i \in 1 .. b - 1
         /\ b - (m + 1) + i + d = a - m + i
  OBVIOUS

\* A sample that is measured is owed, and the oldest one of a full history no longer.
LEMMA SampleEnds ==
  ASSUME NEW n, NEW slot, SlotOwn(slot, n), NEW x \in Sample, NEW o \in Seq(Sample),
         Ends(HistoryOf(slot), o), NEW owed, owed = Append(o, x)
  PROVE  Ends(HistoryOf(WithSample(slot, x)), IF Len(owed) > AsHistory THEN Tail(owed) ELSE owed)
<1> DEFINE h == HistoryOf(slot)
           g == HistoryOf(WithSample(slot, x))
           new == WithSample(slot, x)
           d == IF slot.count < AsHistory THEN 0 ELSE 1
           m == Len(o)
<1>1. /\ new \in Slot /\ new.count = slot.count + 1 - d /\ g[new.count] = x
      /\ \A k \in 1 .. new.count - 1 : g[k] = h[k + d]
  BY SampleHistory DEF SlotOwn
<1>2. /\ Len(h) = slot.count /\ Len(g) = new.count /\ slot.count \in 0 .. AsHistory
      /\ AsHistory \in Nat \ {0} /\ m \in Nat
  <2>1. Len(h) = slot.count /\ slot.count \in 0 .. AsHistory
    BY HistoryIs DEF SlotOwn, Slot
  <2>2. Len(g) = new.count
    BY <1>1, HistoryIs
  <2> QED BY <2>1, <2>2, AvSyncAssumption
<1>3. m <= slot.count /\ \A i \in 1 .. m : h[slot.count - m + i] = o[i]
  BY <1>2 DEF Ends
<1>4. /\ Len(owed) = m + 1 /\ owed[m + 1] = x /\ \A i \in 1 .. m : owed[i] = o[i]
      /\ owed \in Seq(Sample) /\ owed # <<>>
  <2>1. owed \in Seq(Sample) /\ Len(owed) = m + 1 /\ owed[m + 1] = x
        /\ \A i \in 1 .. m : owed[i] = o[i]
    OBVIOUS
  <2> QED BY <1>2, <2>1
<1> HIDE DEF h, g, m, new
<1>5. CASE m + 1 <= AsHistory
  <2>1. m + 1 <= new.count
    BY <1>1, <1>2, <1>3, <1>5
  <2>2. ASSUME NEW i \in 1 .. m + 1 PROVE g[new.count - (m + 1) + i] = owed[i]
    <3>1. CASE i = m + 1
      <4>1. new.count - (m + 1) + i = new.count
        BY <1>1, <1>2, <3>1
      <4> QED BY <1>1, <1>4, <3>1, <4>1
    <3>2. CASE i # m + 1
      <4>1. /\ i \in 1 .. m /\ new.count - (m + 1) + i \in 1 .. new.count - 1
            /\ new.count - (m + 1) + i + d = slot.count - m + i
        <5>1. i \in 1 .. m /\ new.count \in Nat /\ d \in {0, 1} /\ new.count = slot.count + 1 - d
          BY <1>1, <1>2, <3>2
        <5>2. slot.count \in Nat /\ m \in Nat
          BY <1>2
        <5>3. d \in Nat
          OBVIOUS
        <5> HIDE DEF d
        <5>4. PICK a \in Nat, b \in Nat : a = slot.count /\ b = new.count
          BY ONLY <5>1, <5>2
        <5>5. m + 1 <= b /\ b = a + 1 - d
          BY ONLY <2>1, <5>1, <5>4
        <5>6. b - (m + 1) + i \in 1 .. b - 1 /\ b - (m + 1) + i + d = a - m + i
          BY ONLY <5>1, <5>2, <5>3, <5>5, EndMoves
        <5> QED BY ONLY <5>1, <5>4, <5>6
      <4>2. g[new.count - (m + 1) + i] = h[slot.count - m + i]
        BY <1>1, <4>1
      <4> QED BY <1>3, <1>4, <4>1, <4>2
    <3> QED BY <3>1, <3>2
  <2>3. ~(Len(owed) > AsHistory)
    BY <1>2, <1>4, <1>5
  <2>4. Ends(g, owed)
    BY <1>2, <1>4, <2>1, <2>2 DEF Ends
  <2> QED BY <2>3, <2>4 DEF g
<1>6. CASE m + 1 > AsHistory
  <2>1. m = AsHistory /\ slot.count = AsHistory /\ new.count = AsHistory /\ d = 1
    BY <1>1, <1>2, <1>3, <1>6
  <2>2. Len(Tail(owed)) = m /\ \A i \in 1 .. m : Tail(owed)[i] = owed[i + 1]
    BY <1>2, <1>4
  <2>3. ASSUME NEW i \in 1 .. m PROVE g[new.count - m + i] = Tail(owed)[i]
    <3>1. CASE i = m
      <4>1. new.count - m + i = new.count
        BY <1>2, <2>1, <3>1
      <4> QED BY <1>1, <1>4, <2>2, <3>1, <4>1
    <3>2. CASE i # m
      <4>1. /\ new.count - m + i = i /\ i \in 1 .. new.count - 1 /\ i + 1 \in 1 .. m
            /\ slot.count - m + (i + 1) = i + d
        BY <1>2, <2>1, <3>2
      <4>2. g[i] = h[i + d] /\ h[i + d] = o[i + 1]
        BY <1>1, <1>3, <4>1
      <4> QED BY <1>4, <2>2, <4>1, <4>2
    <3> QED BY <3>1, <3>2
  <2>4. Len(owed) > AsHistory
    BY <1>2, <1>4, <1>6
  <2>5. Ends(g, Tail(owed))
    <3>1. m <= new.count
      BY <1>2, <2>1
    <3> QED BY <1>2, <2>2, <2>3, <3>1 DEF Ends
  <2> QED BY <2>4, <2>5 DEF g
<1> QED BY <1>2, <1>5, <1>6

\* An id that is not shared is that of one file.
LEMMA FileIs ==
  ASSUME NEW l \in AsListings, NEW i \in DOMAIN l, l[i].complete, l[i].id \notin SharedIn(l)
  PROVE  /\ \A j \in DOMAIN l : l[j].complete /\ l[j].id = l[i].id => j = i
         /\ FilesOf(l, l[i].id) = {i} /\ SlotIn(l, l[i].id) = FilePlace(l, i)
<1>1. l[i].id \in Ids
  BY PlaceIs
<1>2. FilesOf(l, l[i].id) = {i}
  BY <1>1 DEF FilesOf, SharedIn
<1> QED BY <1>2 DEF SlotIn, FilesOf

\* What is served, and how the slots of the files say so.
LEMMA ServedIsFile ==
  ASSUME AsInv, as_pc # "down", NEW k \in 1 .. as_count
  PROVE  \E i \in DOMAIN as_known : /\ as_known[i].complete /\ FilePlace(as_known, i) = k
                                    /\ as_known[i].id = as_slot[k].id
<1>1. as_known \in AsListings /\ k \in 1 .. Found(as_known)
  BY AsTypes DEF AsInv, Listed
<1>2. PICK i \in DOMAIN as_known : as_known[i].complete /\ FilePlace(as_known, i) = k
  BY <1>1, EveryPlaceIsTaken
<1> QED BY <1>2 DEF AsInv, Listed

\* An id that is not shared is served once.
LEMMA ServedIsAlone ==
  ASSUME AsInv, as_pc # "down", NEW k \in 1 .. as_count, NEW m \in 1 .. as_count,
         as_slot[k].id = as_slot[m].id, as_slot[k].id \notin as_shared
  PROVE  k = m
<1>1. PICK i \in DOMAIN as_known : /\ as_known[i].complete /\ FilePlace(as_known, i) = k
                                   /\ as_known[i].id = as_slot[k].id
  BY ServedIsFile
<1>2. PICK j \in DOMAIN as_known : /\ as_known[j].complete /\ FilePlace(as_known, j) = m
                                   /\ as_known[j].id = as_slot[m].id
  BY ServedIsFile
<1>3. as_known \in AsListings /\ as_known[i].id \notin SharedIn(as_known)
  BY <1>1, AsTypes DEF AsInv, Listed
<1>4. i = j
  BY <1>1, <1>2, <1>3, FileIs
<1> QED BY <1>1, <1>2, <1>4

\* A start serves what the file has, which is what it owes.
LEMMA StartKeeps == AsInv /\ KeptInv /\ AsStart => KeptInv'
<1> SUFFICES ASSUME AsInv, KeptInv, AsStart PROVE KeptInv'
  OBVIOUS
<1> DEFINE found == Discovery(BlankSlots, as_files)
           new == Load(found, Found(as_files))
<1>1. /\ as_count' = Found(as_files) /\ UNCHANGED <<as_disk, as_kept>>
      /\ \/ as_slot' = new /\ \A id \in Ids : as_owed'[id] \in {<<>>, as_kept[id]}
         \/ as_slot' = found /\ \A id \in Ids : as_owed'[id] = <<>>
      /\ as_shared' = as_shared \cup SharedIn(as_files)
  BY DEF AsStart, SeeFiles, Nothing
<1>2. /\ as_files \in AsListings /\ Found(as_files) \in 0 .. Slots /\ AsTypeOK /\ DiskOwn
      /\ Slots \in Nat
  BY Places, AvSyncAssumption DEF AsInv, AsTypeOK
<1>3. /\ found \in [1 .. Slots -> Slot] /\ \A k \in 1 .. Slots : SlotOwn(found[k], as_taken)
      /\ \A i \in DOMAIN as_files : as_files[i].complete =>
           found[FilePlace(as_files, i)].id = as_files[i].id
  BY <1>2, BlankSlotsOwn, DiscoveryOwn
<1> HIDE DEF found
<1>4. /\ \A k \in 1 .. Slots : SlotOwn(new[k], as_taken) /\ new[k].id = found[k].id
      /\ \A k \in 1 .. Slots :
           /\ k <= Found(as_files) /\ LastOf(found[k].id) # {}
           /\ \A j \in 1 .. k - 1 : found[j].id # found[k].id
           => \E e \in LastOf(found[k].id) : HistoryOf(new[k]) = as_disk[e].samples
  <2>1. Found(as_files) \in Nat
    BY <1>2
  <2> QED BY ONLY <1>2, <1>3, <2>1, LoadOwn DEF new
<1> HIDE DEF new
<1>5. ASSUME NEW k \in 1 .. Found(as_files)
      PROVE  /\ k \in 1 .. Slots /\ found[k].id \in Ids /\ new[k].id = found[k].id
             /\ found[k].id \notin as_shared' => \A j \in 1 .. k - 1 : found[j].id # found[k].id
  <2>1. PICK i \in DOMAIN as_files : as_files[i].complete /\ FilePlace(as_files, i) = k
    BY <1>2, <1>5, EveryPlaceIsTaken
  <2>2. k \in 1 .. Slots /\ found[k].id = as_files[i].id /\ as_files[i].id \in Ids
    BY <1>2, <1>3, <2>1, PlaceIs
  <2>3. ASSUME found[k].id \notin as_shared', NEW j \in 1 .. k - 1 PROVE found[j].id # found[k].id
    <3>1. j \in 1 .. Found(as_files) /\ j # k
      BY <1>2
    <3>2. PICK m \in DOMAIN as_files : as_files[m].complete /\ FilePlace(as_files, m) = j
      BY <1>2, <3>1, EveryPlaceIsTaken
    <3>3. found[j].id = as_files[m].id
      BY <1>3, <3>2
    <3>4. as_files[i].id \notin SharedIn(as_files)
      BY <1>1, <2>2, <2>3
    <3>5. m # i
      BY <2>1, <3>1, <3>2
    <3> QED BY <1>2, <2>1, <2>2, <3>2, <3>3, <3>4, <3>5, FileIs
  <2> QED BY <1>4, <2>2, <2>3
<1>6. ASSUME NEW k \in 1 .. Found(as_files), NEW slot \in {found[k], new[k]}, as_owed'[slot.id] = <<>>
      PROVE  Ends(HistoryOf(slot), as_owed'[slot.id])
  <2>1. slot \in Slot
    BY <1>3, <1>4, <1>5 DEF SlotOwn
  <2>2. HistoryOf(slot) \in Seq(Sample \cup {NoSample})
    BY <2>1, HistoryIs
  <2> QED BY <1>6, <2>2, EndsInNothing
<1>7. ASSUME NEW k \in 1 .. Found(as_files), found[k].id \notin as_shared', as_kept[found[k].id] # <<>>
      PROVE  Ends(HistoryOf(new[k]), as_kept[found[k].id])
  <2> DEFINE id == found[k].id
  <2>1. id \in Ids \ as_shared
    BY <1>1, <1>5, <1>7
  <2>2. LastOf(id) # {}
    BY <1>7, <2>1 DEF KeptInv
  <2>3. PICK e \in LastOf(id) : HistoryOf(new[k]) = as_disk[e].samples
    BY <1>4, <1>5, <1>7, <2>2
  <2> HIDE DEF id
  <2>4. Ends(as_disk[e].samples, as_kept[id])
    BY <2>1, <2>3 DEF KeptInv, LastOf
  <2> QED BY <2>3, <2>4 DEF id
<1>8. ASSUME NEW k \in 1 .. Found(as_files), as_slot'[k].id \notin as_shared'
      PROVE  Ends(HistoryOf(as_slot'[k]), as_owed'[as_slot'[k].id])
  <2>1. /\ as_slot'[k] \in {found[k], new[k]} /\ as_slot'[k].id = found[k].id
        /\ found[k].id \in Ids
    BY <1>1, <1>5
  <2>2. CASE as_owed'[found[k].id] = <<>>
    BY <1>6, <2>1, <2>2
  <2>3. CASE as_owed'[found[k].id] # <<>>
    <3>1. as_slot' = new /\ as_owed'[found[k].id] = as_kept[found[k].id]
      BY <1>1, <2>1, <2>3
    <3> QED BY <1>7, <1>8, <2>1, <2>3, <3>1
  <2> QED BY <2>2, <2>3
<1>9. ASSUME NEW id \in Ids \ as_shared'
      PROVE  /\ as_kept'[id] # <<>> => LastOf(id)' # {}
             /\ \A e \in DOMAIN as_disk' : as_disk'[e].id = id => Ends(as_disk'[e].samples, as_kept'[id])
  <2>1. id \in Ids \ as_shared
    BY <1>1
  <2> QED BY <1>1, <2>1 DEF KeptInv, LastOf
<1> QED BY <1>1, <1>8, <1>9 DEF KeptInv

\* A discovery takes its samples only from a source whose slot has changed, or which comes
\* after a file that lacks a field.
LEMMA DiscoverKeeps == AsInv /\ KeptInv /\ Discover => KeptInv'
<1> SUFFICES ASSUME AsInv, KeptInv, Discover PROVE KeptInv'
  OBVIOUS
<1> DEFINE new == Discovery(as_slot, as_files)
<1>1. /\ as_pc = "discover" /\ as_count' = Found(as_files) /\ as_slot' = new
      /\ UNCHANGED <<as_disk, as_kept>> /\ as_shared' = as_shared \cup SharedIn(as_files)
      /\ \A id \in Ids :
           \/ as_owed'[id] = <<>>
           \/ /\ as_owed'[id] = as_owed[id] /\ SlotIn(as_files, id) \in {0, SlotIn(as_known, id)}
              /\ \E i \in FilesOf(as_files, id) : ~AfterIncomplete(as_files, i)
  BY DEF Discover, SeeFiles
<1>2. /\ as_files \in AsListings /\ as_known \in AsListings /\ Found(as_files) \in 0 .. Slots
      /\ Slots \in Nat /\ as_slot \in [1 .. Slots -> Slot]
      /\ \A k \in 1 .. Slots : SlotOwn(as_slot[k], as_taken)
  BY Places, AsTypes, AvSyncAssumption DEF AsInv, SlotsOwn
<1>3. /\ \A k \in 1 .. Slots : SlotOwn(new[k], as_taken)
      /\ \A i \in DOMAIN as_files : as_files[i].complete =>
           /\ new[FilePlace(as_files, i)].id = as_files[i].id
           /\ ~AfterIncomplete(as_files, i) /\ as_slot[FilePlace(as_files, i)].id = as_files[i].id =>
                new[FilePlace(as_files, i)] = as_slot[FilePlace(as_files, i)]
  BY <1>2, DiscoveryOwn
<1> HIDE DEF new
<1>4. ASSUME NEW k \in 1 .. Found(as_files), new[k].id \notin as_shared'
      PROVE  Ends(HistoryOf(new[k]), as_owed'[new[k].id])
  <2>1. PICK i \in DOMAIN as_files : as_files[i].complete /\ FilePlace(as_files, i) = k
    BY <1>2, <1>4, EveryPlaceIsTaken
  <2> DEFINE id == as_files[i].id
  <2>2. id \in Ids /\ new[k].id = id /\ k \in 1 .. Slots
    BY <1>2, <1>3, <2>1, PlaceIs
  <2>3. FilesOf(as_files, id) = {i} /\ SlotIn(as_files, id) = k
    <3>1. as_files[i].id \notin SharedIn(as_files)
      BY <1>1, <1>4, <2>2
    <3> QED BY <1>2, <2>1, <3>1, FileIs
  <2> HIDE DEF id
  <2>4. CASE as_owed'[id] = <<>>
    <3>1. HistoryOf(new[k]) \in Seq(Sample \cup {NoSample})
      BY <1>3, <2>2, HistoryIs DEF SlotOwn
    <3>2. Ends(HistoryOf(new[k]), <<>>)
      BY <3>1, EndsInNothing
    <3> QED BY <2>2, <2>4, <3>2
  <2>5. CASE as_owed'[id] # <<>>
    <3>1. /\ as_owed'[id] = as_owed[id] /\ SlotIn(as_known, id) = k /\ ~AfterIncomplete(as_files, i)
          /\ k # 0
      BY <1>1, <2>2, <2>3, <2>5
    <3>2. PICK j \in FilesOf(as_known, id) : FilePlace(as_known, j) = k
      BY <3>1 DEF SlotIn
    <3>3. j \in DOMAIN as_known /\ as_known[j].complete /\ as_known[j].id = id
      BY <3>2 DEF FilesOf
    <3>4. k \in 1 .. as_count /\ as_slot[k].id = id
      BY <1>1, <1>2, <3>2, <3>3, Places DEF AsInv, Listed
    <3>5. new[k] = as_slot[k]
      BY <1>3, <2>1, <3>1, <3>4 DEF id
    <3>6. Ends(HistoryOf(as_slot[k]), as_owed[id])
      BY <1>1, <1>4, <2>2, <3>4 DEF KeptInv
    <3> QED BY <2>2, <3>1, <3>5, <3>6
  <2> QED BY <2>4, <2>5
<1>5. ASSUME NEW id \in Ids \ as_shared'
      PROVE  /\ as_kept'[id] # <<>> => LastOf(id)' # {}
             /\ \A e \in DOMAIN as_disk' : as_disk'[e].id = id => Ends(as_disk'[e].samples, as_kept'[id])
  <2>1. id \in Ids \ as_shared
    BY <1>1
  <2> QED BY <1>1, <2>1 DEF KeptInv, LastOf
<1> QED BY <1>1, <1>4, <1>5 DEF KeptInv

\* A measurement is owed to its source alone.
LEMMA MeasureKeeps == AsInv /\ KeptInv /\ Measure => KeptInv'
<1> SUFFICES ASSUME AsInv, KeptInv, Measure PROVE KeptInv'
  OBVIOUS
<1> DEFINE id == as_slot[as_next].id
           x == [of |-> id, n |-> as_taken + 1]
           owed == Append(as_owed[id], x)
<1>1. /\ as_pc = "measure" /\ as_next <= as_count /\ as_taken < MaxSamples
      /\ as_slot' = [as_slot EXCEPT ![as_next] = WithSample(as_slot[as_next], x)]
      /\ as_owed' = [as_owed EXCEPT ![id] = IF Len(owed) > AsHistory THEN Tail(owed) ELSE owed]
      /\ UNCHANGED <<as_pc, as_count, as_disk, as_shared, as_kept>>
  BY DEF Measure, Measuring, asSeen
<1>2. /\ as_slot \in [1 .. Slots -> Slot] /\ as_taken \in Nat /\ MaxSamples \in Nat /\ Slots \in Nat
      /\ as_count \in 0 .. Slots /\ as_next \in 1 .. as_count
      /\ as_owed \in [Ids -> Seq(Sample)] /\ as_known \in AsListings
  BY <1>1, AvSyncAssumption, AsTypes DEF AsInv, AsTypeOK
<1>3. id \in Ids /\ SlotOwn(as_slot[as_next], as_taken)
  BY <1>1, <1>2, ServedIsListed
<1>4. x \in Sample /\ x.of = id /\ x.n = as_taken + 1
  BY <1>1, <1>2, <1>3 DEF Sample
<1>5. id \notin as_shared => Ends(HistoryOf(as_slot[as_next]), as_owed[id])
  BY <1>1, <1>2 DEF KeptInv
<1> DEFINE new == WithSample(as_slot[as_next], x)
           rest == IF Len(owed) > AsHistory THEN Tail(owed) ELSE owed
<1>6. id \notin as_shared => Ends(HistoryOf(new), rest)
  BY <1>2, <1>3, <1>4, <1>5, SampleEnds
<1>7. new.id = id
  <2> HIDE DEF x
  <2> QED BY <1>2, <1>3, <1>4, SampleOwn
<1>8. as_slot' = [as_slot EXCEPT ![as_next] = new] /\ as_owed' = [as_owed EXCEPT ![id] = rest]
  BY <1>1
<1> HIDE DEF new, rest, x, owed, id
<1>9. ASSUME NEW k \in 1 .. as_count, as_slot'[k].id \notin as_shared
      PROVE  Ends(HistoryOf(as_slot'[k]), as_owed'[as_slot'[k].id])
  <2>1. CASE k = as_next
    <3>1. as_slot'[k] = new /\ as_owed'[id] = rest
      BY <1>2, <1>3, <1>8, <2>1
    <3> QED BY <1>6, <1>7, <1>9, <3>1
  <2>2. CASE k # as_next
    <3>1. as_slot'[k] = as_slot[k] /\ as_slot[k].id \in Ids
      BY <1>1, <1>2, <1>8, <2>2, ServedIsListed
    <3>2. as_slot[k].id # id
      BY <1>1, <1>2, <1>9, <2>2, <3>1, ServedIsAlone DEF id
    <3>3. as_owed'[as_slot[k].id] = as_owed[as_slot[k].id]
      BY <1>2, <1>8, <3>1, <3>2
    <3>4. Ends(HistoryOf(as_slot[k]), as_owed[as_slot[k].id])
      BY <1>1, <1>9, <3>1 DEF KeptInv
    <3> QED BY <3>1, <3>3, <3>4
  <2> QED BY <2>1, <2>2
<1>10. \A i \in Ids \ as_shared' :
        /\ as_kept'[i] # <<>> => LastOf(i)' # {}
        /\ \A e \in DOMAIN as_disk' : as_disk'[e].id = i => Ends(as_disk'[e].samples, as_kept'[i])
  BY <1>1 DEF KeptInv, LastOf
<1> QED BY <1>1, <1>9, <1>10 DEF KeptInv

\* A file that may be torn owes nothing.
LEMMA TornKeeps ==
  ASSUME AsInv, as_pc # "down", as_disk' \in Torn, as_kept' = Nothing
  PROVE  \A id \in Ids :
           /\ as_kept'[id] = <<>>
           /\ \A e \in DOMAIN as_disk' : Ends(as_disk'[e].samples, as_kept'[id])
<1>1. as_disk' \in Seq(DiskEntry)
  BY TornOwn
<1>2. \A e \in DOMAIN as_disk' : as_disk'[e].samples \in Seq(Sample)
  <2>1. \A e \in DOMAIN as_disk' : as_disk'[e] \in DiskEntry
    BY <1>1
  <2> QED BY <2>1 DEF DiskEntry
<1>3. \A e \in DOMAIN as_disk' : Ends(as_disk'[e].samples, <<>>)
  BY <1>2, EndsInNothing
<1>4. \A id \in Ids : as_kept'[id] = <<>>
  BY DEF Nothing
<1> QED BY <1>3, <1>4

\* A save puts into the file what is owed.
LEMMA SaveKeeps == AsInv /\ KeptInv /\ SaveEnds => KeptInv'
<1> SUFFICES ASSUME AsInv, KeptInv, SaveEnds PROVE KeptInv'
  OBVIOUS
<1>1. /\ as_pc # "down" /\ as_disk' = Content
      /\ as_pc' # "down" => as_slot' = as_slot
      /\ as_kept' = [id \in Ids |->
           IF \E k \in 1 .. as_count : as_slot[k].id = id THEN as_owed[id] ELSE <<>>]
      /\ UNCHANGED <<as_count, as_owed, as_shared>>
  BY DEF SaveEnds, SaveReturns, asSeen
<1>2. /\ DOMAIN Content = 1 .. as_count
      /\ \A k \in 1 .. as_count : Content[k].id = as_slot[k].id /\ Content[k].samples = HistoryOf(as_slot[k])
  BY <1>1, ContentOwn
<1>3. \A k \in 1 .. as_count :
        as_slot[k].id \notin as_shared => Ends(HistoryOf(as_slot[k]), as_owed[as_slot[k].id])
  BY <1>1 DEF KeptInv
<1>4. ASSUME NEW id \in Ids \ as_shared
      PROVE  /\ as_kept'[id] # <<>> => LastOf(id)' # {}
             /\ \A e \in DOMAIN as_disk' : as_disk'[e].id = id => Ends(as_disk'[e].samples, as_kept'[id])
  <2>1. as_kept'[id] = IF \E k \in 1 .. as_count : as_slot[k].id = id THEN as_owed[id] ELSE <<>>
    BY <1>1
  <2>2. ASSUME NEW k \in 1 .. as_count, as_slot[k].id = id PROVE LastOf(id)' # {}
    <3>1. \A f \in 1 .. as_count : f > k => as_slot[f].id # id
      <4> SUFFICES ASSUME NEW f \in 1 .. as_count, f > k, as_slot[f].id = id PROVE FALSE
        OBVIOUS
      <4>1. f = k
        BY <1>1, <2>2, ServedIsAlone
      <4>2. as_count \in Nat
        BY AvSyncAssumption DEF AsInv, AsTypeOK
      <4> QED BY <4>1, <4>2
    <3>2. k \in LastOf(id)'
      BY <1>1, <1>2, <2>2, <3>1 DEF LastOf
    <3> QED BY <3>2
  <2> QED BY <1>1, <1>2, <1>3, <2>1, <2>2
<1> QED BY <1>1, <1>3, <1>4 DEF KeptInv

\* A save that fails leaves the file of the last one, or a part that owes nothing.
LEMMA SaveFailsKeeps == AsInv /\ KeptInv /\ SaveFails => KeptInv'
<1> SUFFICES ASSUME AsInv, KeptInv, SaveFails PROVE KeptInv'
  OBVIOUS
<1>1. /\ as_pc # "down" /\ (as_pc' # "down" => as_slot' = as_slot)
      /\ (as_disk' \in Torn /\ as_kept' = Nothing) \/ UNCHANGED <<as_disk, as_kept>>
      /\ UNCHANGED <<as_count, as_owed, as_shared>>
  BY DEF SaveFails, SaveReturns, asSeen
<1>2. CASE UNCHANGED <<as_disk, as_kept>>
  BY <1>1, <1>2 DEF KeptInv, LastOf
<1>3. CASE as_disk' \in Torn /\ as_kept' = Nothing
  BY <1>1, <1>3, TornKeeps DEF KeptInv
<1> QED BY <1>1, <1>2, <1>3

\* A kill during a save may cost every history, and one at another time nothing of the file.
LEMMA KillKeeps == AsInv /\ KeptInv /\ AsKill => KeptInv'
<1> SUFFICES ASSUME AsInv, KeptInv, AsKill PROVE KeptInv'
  OBVIOUS
<1>1. /\ as_pc # "down" /\ as_pc' = "down" /\ UNCHANGED as_shared
      /\ (as_disk' \in Torn /\ as_kept' = Nothing) \/ UNCHANGED <<as_disk, as_kept>>
  BY DEF AsKill, asSeen
<1>2. CASE UNCHANGED <<as_disk, as_kept>>
  BY <1>1, <1>2 DEF KeptInv, LastOf
<1>3. CASE as_disk' \in Torn /\ as_kept' = Nothing
  BY <1>1, <1>3, TornKeeps DEF KeptInv
<1> QED BY <1>1, <1>2, <1>3

\* No step of the monitor loses a sample that is owed.
LEMMA KeptStep == AsInv /\ KeptInv /\ [AsNext]_asVars => KeptInv'
<1> SUFFICES ASSUME AsInv, KeptInv, [AsNext]_asVars PROVE KeptInv'
  OBVIOUS
<1>1. CASE MeasureNothing \/ MeasureEnds \/ OpenDataFile \/ Wake \/ Join \/ AsSignal \/ Edit
           \/ UNCHANGED asVars
  <2>1. /\ UNCHANGED <<as_slot, as_disk, as_count, as_owed, as_kept, as_shared>>
        /\ as_pc' # "down" => as_pc # "down"
    BY <1>1 DEF asVars, MeasureNothing, MeasureEnds, OpenDataFile, Wake, Join, AsSignal, Edit, AsGoto,
                asMemory, asCounts, asSeen
  <2> QED BY <2>1 DEF KeptInv, LastOf
<1> QED
  BY <1>1, StartKeeps, DiscoverKeeps, MeasureKeeps, SaveKeeps, SaveFailsKeeps, KillKeeps DEF AsNext

\* Before the first start nothing is owed.
LEMMA KeptInit == AsInit => KeptInv
  BY DEF AsInit, KeptInv, Nothing

\* No sample of a source that never shared its id is lost before the history is full: not
\* by a discovery that finds it in its old slot, nor by a stop and a start, which may even
\* move it, unless saving or loading fails; for every history size and directory.
THEOREM HistoriesAreKeptHolds == AsSpec => []HistoriesAreKept
<1>1. AsInv /\ KeptInv => HistoriesAreKept
  <2> SUFFICES ASSUME AsInv, KeptInv, as_pc # "down", NEW k \in 1 .. as_count,
                      as_slot[k].id \notin as_shared
               PROVE  IsSuffix(as_owed[as_slot[k].id], HistoryOf(as_slot[k]))
    BY DEF HistoriesAreKept
  <2>1. as_slot[k].id \in Ids /\ HistoryOf(as_slot[k]) \in Seq(Sample)
    BY ServedIsListed
  <2>2. as_owed[as_slot[k].id] \in Seq(Sample)
    BY <2>1 DEF AsInv, AsTypeOK
  <2>3. Ends(HistoryOf(as_slot[k]), as_owed[as_slot[k].id])
    BY DEF KeptInv
  <2> QED BY <2>1, <2>2, <2>3, EndsIsSuffix
<1> QED
  BY <1>1, AsInvInit, AsInvStep, KeptInit, KeptStep, PTL DEF AsSpec
=============================================================================
