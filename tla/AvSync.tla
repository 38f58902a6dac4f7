------------------------------- MODULE AvSync -------------------------------
(***************************************************************************)
(* cari-avsync: one thread reads the configuration files, measures every   *)
(* source, saves all histories to a file and sleeps, for ever; main loads  *)
(* the file at the start and saves once more at the end.                   *)
(*                                                                         *)
(* A source's history lives in the slot that its file has in the order of  *)
(* the directory, and is kept when that slot is given to the same id again.*)
(* Files come, go and change order at any time; the program may be stopped,*)
(* or killed, also while it writes, and each file access may fail.         *)
(*                                                                         *)
(* An input's id is the name in its file, a transcoder's its file's name,  *)
(* so that several files may have one id: to the program they are one      *)
(* source.  The 10 MB that load_data accepts are out of reach of 100       *)
(* sources with 288 samples of less than 200 bytes.                        *)
(***************************************************************************)
EXTENDS Naturals, Sequences, FiniteSets, SequencesExt

CONSTANTS
  Ids,          \* the ids in configuration files
  AsListings,   \* the directories: sequences of files [id, complete]
  Slots,        \* MAX_INPUTS
  AsHistory,    \* HISTORY_SIZE
  MaxSamples,   \* bound: measurements
  MaxEdits,     \* bound: changes of the directory
  MaxStops      \* bound: stops and kills

ASSUME AvSyncAssumption ==
  /\ AsHistory \in Nat \ {0} /\ Slots \in Nat /\ "nobody" \notin Ids
  /\ MaxSamples \in Nat /\ MaxEdits \in Nat /\ MaxStops \in Nat
  /\ \A l \in AsListings : l \in Seq([id : Ids, complete : BOOLEAN]) /\ Len(l) <= Slots

VARIABLES
  as_files,     \* the configuration directories
  as_pc,        \* where the program is
  as_running,   \* g_ctx.running
  as_slot,      \* g_ctx.inputs
  as_count,     \* g_ctx.input_count
  as_next,      \* the slot to be measured next
  as_disk,      \* avsync.json: sequence of [id, samples]
  as_known,     \* history: the files at the last discovery
  as_shared,    \* history: the ids that two files have had at once
  as_taken,     \* history: measurements so far
  as_owed,      \* history: the samples each source's history must end in
  as_kept,      \* history: the samples that a restart owes it
  as_edits, as_stops  \* history: counts for the bounds

asMemory == <<as_running, as_slot, as_count, as_next>>
asCounts == <<as_taken, as_edits, as_stops>>
asSeen == <<as_known, as_shared>>
asVars == <<as_files, as_pc, asMemory, as_disk, asSeen, as_owed, as_kept, asCounts>>

HistPlace == 0 .. AsHistory - 1
Sample == [of : Ids, n : 1 .. MaxSamples]
NoSample == [of |-> "nobody", n |-> 0]
BlankSlot == [id |-> "nobody", ring |-> [p \in HistPlace |-> NoSample], count |-> 0, index |-> 0]
BlankSlots == [k \in 1 .. Slots |-> BlankSlot]
Nothing == [id \in Ids |-> <<>>]

AsTypeOK ==
  /\ as_files \in AsListings /\ as_known \in AsListings /\ as_shared \subseteq Ids
  /\ as_pc \in {"down", "discover", "measure", "save", "writing", "sleep", "last", "lastwriting"}
  /\ as_running \in BOOLEAN
  /\ as_slot \in [1 .. Slots -> [id : Ids \cup {"nobody"}, count : 0 .. AsHistory, index : HistPlace,
                    ring : [HistPlace -> Sample \cup {NoSample}]]]
  /\ as_disk \in Seq([id : Ids, samples : Seq(Sample)])
  /\ as_owed \in [Ids -> Seq(Sample)] /\ as_kept \in [Ids -> Seq(Sample)]
  /\ as_count \in 0 .. Slots /\ as_next \in 1 .. Slots + 1
  /\ as_taken \in 0 .. MaxSamples /\ as_edits \in 0 .. MaxEdits /\ as_stops \in 0 .. MaxStops

AsInit ==
  /\ as_files \in AsListings /\ as_known = as_files /\ as_shared = {}
  /\ as_pc = "down" /\ as_running = FALSE
  /\ as_slot = BlankSlots /\ as_count = 0 /\ as_next = 1
  /\ as_disk = <<>> /\ as_owed = Nothing /\ as_kept = Nothing
  /\ as_taken = 0 /\ as_edits = 0 /\ as_stops = 0

-----------------------------------------------------------------------------
(* Histories *)

\* build_input_json: oldest first.
HistoryOf(slot) ==
  LET start == IF slot.count < AsHistory THEN 0 ELSE slot.index
  IN  [k \in 1 .. slot.count |-> slot.ring[(start + k - 1) % AsHistory]]

\* check_input_avsync.
WithSample(slot, sample) ==
  [slot EXCEPT !.ring = [@ EXCEPT ![slot.index] = sample], !.index = (@ + 1) % AsHistory,
               !.count = IF @ < AsHistory THEN @ + 1 ELSE @]

\* Mutant of Loaded: the next sample goes to the first place.
LoadedAtStart(slot, samples) ==
  [slot EXCEPT !.ring = [p \in HistPlace |-> IF p < Len(samples) THEN samples[p + 1] ELSE @[p]],
               !.count = Len(samples), !.index = 0]

\* load_data for one input.
Loaded(slot, samples) ==
  [slot EXCEPT !.ring = [p \in HistPlace |-> IF p < Len(samples) THEN samples[p + 1] ELSE @[p]],
               !.count = Len(samples), !.index = Len(samples) % AsHistory]

\* The last entry of an id in the file, as a set of one or none.
LastOf(id) ==
  {e \in DOMAIN as_disk : /\ as_disk[e].id = id
                          /\ \A f \in DOMAIN as_disk : f > e => as_disk[f].id # id}

\* load_data: each entry goes to the first input with its id, or is dropped.
Load(slots, count) ==
  [k \in 1 .. Slots |->
     LET last == LastOf(slots[k].id)
     IN  IF k <= count /\ last # {} /\ \A j \in 1 .. k - 1 : slots[j].id # slots[k].id
           THEN Loaded(slots[k], as_disk[CHOOSE e \in last : TRUE].samples) ELSE slots[k]]

-----------------------------------------------------------------------------
(* discover_inputs *)

\* A file takes the first slot that is not some complete file's: one that lacks a
\* field leaves its slot to the next file.
FilePlace(files, i) == 1 + Cardinality({j \in 1 .. i - 1 : files[j].complete})
Found(files) == Cardinality({j \in DOMAIN files : files[j].complete})

\* The file that a slot is left to: a complete one or the last of all.
Keepers(files, k) ==
  {i \in DOMAIN files : FilePlace(files, i) = k /\ (files[i].complete \/ i = Len(files))}

\* Right before this file is one that lacks a field.
AfterIncomplete(files, i) == i > 1 /\ ~files[i - 1].complete

\* Mutant of Discovered: the slot's history stays whoever gets it.
DiscoveredUnasked(old, files, i) == [old EXCEPT !.id = files[i].id]

\* The slot that a file is left, after all that took it before.
Discovered(old, files, i) ==
  IF files[i].complete /\ ~AfterIncomplete(files, i) /\ old.id = files[i].id THEN old
  ELSE [BlankSlot EXCEPT !.id = files[i].id]

Discovery(slots, files) ==
  [k \in 1 .. Slots |->
     IF Keepers(files, k) = {} THEN slots[k]
     ELSE Discovered(slots[k], files, CHOOSE i \in Keepers(files, k) : TRUE)]

\* Where an id is among the complete files; the slot that they give to it, or 0.
FilesOf(files, id) == {i \in DOMAIN files : files[i].complete /\ files[i].id = id}
SlotIn(files, id) ==
  IF FilesOf(files, id) = {} THEN 0 ELSE FilePlace(files, CHOOSE i \in FilesOf(files, id) : TRUE)

\* What a discovery sees of the files.
SharedIn(files) == {id \in Ids : \E i, j \in FilesOf(files, id) : i # j}
SeeFiles == as_known' = as_files /\ as_shared' = as_shared \cup SharedIn(as_files)

\* main: the first discovery, and load_data, which may fail to read the file.
AsStart ==
  /\ as_pc = "down" /\ as_pc' = "discover" /\ as_running' = TRUE
  /\ as_count' = Found(as_files)
  /\ LET slots == Discovery(BlankSlots, as_files)
     IN  \/ /\ as_slot' = Load(slots, Found(as_files))
            /\ as_owed' = [id \in Ids |-> IF SlotIn(as_files, id) = 0 THEN <<>> ELSE as_kept[id]]
         \/ as_slot' = slots /\ as_owed' = Nothing
  /\ SeeFiles
  /\ UNCHANGED <<as_files, as_next, as_disk, as_kept, asCounts>>

Discover ==
  /\ as_pc = "discover" /\ as_running /\ as_pc' = "measure" /\ as_next' = 1
  /\ as_count' = Found(as_files) /\ as_slot' = Discovery(as_slot, as_files)
  /\ as_owed' = [id \in Ids |->
       IF SlotIn(as_files, id) \notin {0, SlotIn(as_known, id)}
          \/ \A i \in FilesOf(as_files, id) : AfterIncomplete(as_files, i) THEN <<>> ELSE as_owed[id]]
  /\ SeeFiles
  /\ UNCHANGED <<as_files, as_running, as_disk, as_kept, asCounts>>

-----------------------------------------------------------------------------
(* check_thread and main *)

Measuring == as_pc = "measure" /\ as_next <= as_count /\ as_running

\* A source that runs and can be measured.
Measure ==
  /\ Measuring /\ as_taken < MaxSamples
  /\ LET id == as_slot[as_next].id
         sample == [of |-> id, n |-> as_taken + 1]
         owed == Append(as_owed[id], sample)
     IN  /\ as_slot' = [as_slot EXCEPT ![as_next] = WithSample(@, sample)]
         /\ as_owed' = [as_owed EXCEPT ![id] = IF Len(owed) > AsHistory THEN Tail(owed) ELSE owed]
  /\ as_next' = as_next + 1 /\ as_taken' = as_taken + 1
  /\ UNCHANGED <<as_files, as_pc, as_running, as_count, as_disk, asSeen, as_kept, as_edits, as_stops>>

MeasureNothing ==
  /\ Measuring /\ as_next' = as_next + 1
  /\ UNCHANGED <<as_files, as_pc, as_running, as_slot, as_count, as_disk, asSeen, as_owed, as_kept, asCounts>>

AsGoto(from, to) ==
  /\ as_pc = from /\ as_pc' = to
  /\ UNCHANGED <<as_files, asMemory, as_disk, asSeen, as_owed, as_kept, asCounts>>

MeasureEnds == (as_next > as_count \/ ~as_running) /\ AsGoto("measure", "save")
OpenDataFile == AsGoto("save", "writing") \/ AsGoto("last", "lastwriting")
Wake == as_running /\ AsGoto("sleep", "discover")
Join == ~as_running /\ (AsGoto("sleep", "last") \/ AsGoto("discover", "last"))

Content == [k \in 1 .. as_count |-> [id |-> as_slot[k].id, samples |-> HistoryOf(as_slot[k])]]

\* What may be in the file of a writer that is killed or whose disk fills up: it was
\* truncated first, and no result of a write is looked at.
Torn ==
  LET cut(k, n) == SubSeq(Content, 1, k - 1) \o <<[Content[k] EXCEPT !.samples = SubSeq(@, 1, n)]>>
  IN  {<<>>} \cup UNION {{cut(k, n) : n \in 0 .. Len(Content[k].samples)} : k \in 1 .. as_count}

\* save_data returns: once a round, and once more when main has joined the thread.
SaveReturns ==
  /\ as_pc' = IF as_pc \in {"save", "writing"} THEN "sleep" ELSE "down"
  /\ as_slot' = IF as_pc \in {"save", "writing"} THEN as_slot ELSE BlankSlots
  /\ UNCHANGED <<as_files, as_running, as_count, as_next, asSeen, as_owed, asCounts>>

SaveEnds ==
  /\ as_pc \in {"writing", "lastwriting"} /\ as_disk' = Content
  /\ as_kept' = [id \in Ids |-> IF \E k \in 1 .. as_count : as_slot[k].id = id THEN as_owed[id] ELSE <<>>]
  /\ SaveReturns

\* The file cannot be opened, or the disk is full until it is closed.
SaveFails ==
  /\ \/ as_pc \in {"save", "last"} /\ UNCHANGED <<as_disk, as_kept>>
     \/ as_pc \in {"writing", "lastwriting"} /\ as_disk' \in Torn /\ as_kept' = Nothing
  /\ SaveReturns

AsSignal ==
  /\ as_pc # "down" /\ as_running /\ as_stops < MaxStops
  /\ as_running' = FALSE /\ as_stops' = as_stops + 1
  /\ UNCHANGED <<as_files, as_pc, as_slot, as_count, as_next, as_disk, asSeen, as_owed, as_kept, as_taken, as_edits>>

AsKill ==
  /\ as_pc # "down" /\ as_stops < MaxStops
  /\ as_pc' = "down" /\ as_running' = FALSE /\ as_slot' = BlankSlots
  /\ IF as_pc \in {"writing", "lastwriting"}
       THEN as_disk' \in Torn /\ as_kept' = Nothing
       ELSE UNCHANGED <<as_disk, as_kept>>
  /\ as_stops' = as_stops + 1
  /\ UNCHANGED <<as_files, as_count, as_next, asSeen, as_owed, as_taken, as_edits>>

Edit ==
  /\ as_edits < MaxEdits /\ as_edits' = as_edits + 1
  /\ as_files' \in AsListings \ {as_files}
  /\ UNCHANGED <<as_pc, asMemory, as_disk, asSeen, as_owed, as_kept, as_taken, as_stops>>

AsNext ==
  \/ AsStart \/ Discover \/ Measure \/ MeasureNothing \/ MeasureEnds
  \/ OpenDataFile \/ SaveEnds \/ SaveFails \/ Wake \/ Join
  \/ AsSignal \/ AsKill \/ Edit
AsSpec == AsInit /\ [][AsNext]_asVars

-----------------------------------------------------------------------------
(* Properties *)

\* Every history that is served consists of measurements made under that very id,
\* oldest first, whatever became of the files, the program and the data file.  Files
\* with one id are one source: a start serves the samples of one as those of another.
HistoriesAreOwn ==
  as_pc # "down" =>
    \A k \in 1 .. as_count :
      LET samples == HistoryOf(as_slot[k])
      IN  /\ \A i \in DOMAIN samples : samples[i].of = as_slot[k].id
          /\ \A i, j \in DOMAIN samples : i < j => samples[i].n < samples[j].n

\* No sample of a source that never shared its id is lost before the history is full:
\* not by a discovery that finds it in its old slot, nor by a stop and a start, which
\* may even move it.  A kill, or a save that fails, costs what came after the last save,
\* or all if it tears the file; a load that fails costs all; and a file that lacks a field
\* costs the source in the file after it its history.
HistoriesAreKept ==
  as_pc # "down" =>
    \A k \in 1 .. as_count :
      as_slot[k].id \notin as_shared => IsSuffix(as_owed[as_slot[k].id], HistoryOf(as_slot[k]))
=============================================================================
