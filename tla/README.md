# Verification of CariTranscoder

TLA+ models of the CariTranscoder programs, TLC runs that check them on small
instances, and theorems that TLAPS proves for every instance. Paths are relative
to the repository's root.

* [1 The system](#1-the-system): its parts, what they share, what is hard
* [2 The modules](#2-the-modules): how state and actions correspond to the code
* [3 The runs](#3-the-runs): what each checks, its bounds, the fairness
* [4 What the code does not keep](#4-what-the-code-does-not-keep)
* [5 The proofs](#5-the-proofs)
* [6 What is not modelled](#6-what-is-not-modelled)
* [7 Plan](#7-plan)

To check everything, in this directory: `tlc -config X.cfg M` for the pairs in
section 3, `tlapm M.tla` for the eight `*Proofs` modules.

## 1 The system

CariTranscoder is a set of Linux programs, one systemd unit per input, mux,
transcoder or output, steered by an HTTP API that writes configuration files and
calls `systemctl`. Transport-stream packets travel between programs over UDP
(loopback or multicast), over SRT, or through a ring buffer in shared memory.
Each program below is a process of a few threads; most of them supervise a child
process (tsp, ffmpeg) that does the media work.

| part | state it keeps | operations | correct when |
|---|---|---|---|
| ring buffer `src/common/ring_buffer.c` | shared header (indexes, statistics, flags, policy), packet slots | open/attach, write, read, batch forms, flush, heartbeat, statistics, close/unlink | the reader gets whole packets, in order, each at most once; losses are counted; nobody blocks for ever; it survives a kill of either side |
| `cari-output` (SRT listener mode) | client table, client count, three loop flags | receive and send to all, accept, drop lost clients, list and kick over HTTP, stop | sockets neither leak nor are used after close; the limit holds; removals hit the client they are for; a stop signal stops it |
| `http_ts_server` | byte ring, client table with one read position each | receive a datagram, open, read and free a stream, stop | each stream is the input in order, possibly with whole laps missing; slots do not leak |
| `player_preview` | `running`, ffmpeg's pid, time of the last keepalive, HLS files | keepalive, age check, ffmpeg manager, shutdown | an unwatched preview goes away with its ffmpeg and its files |
| `hls_output` | `running`, ffmpeg's pid, HLS files | start, poll, restart, stop | ffmpeg is replaced when it dies; nothing is left at the end |
| input monitors `srt_input`, `udp_input`, `http_input`, `hls_input`, `rist_input` | `running`, tsp's pid, log position, bitrate histories, time of the last data | tsp manager, log monitor, stall check, HTTP metrics, shutdown | a stalled input exits so that systemd restarts it; the history served is the newest samples; no tsp is left |
| `cari-input` | GStreamer pipeline, ring | open the ring, write each packet of a sample, stop, unlink | the ring its readers find is the one it writes to; a stop signal stops it |
| `cari-mux` | services, PID and program maps, pending parsers | command line numbers, probing, pads that appear late, bus messages, PAT/PMT/SDT | a service is multiplexed with its own PIDs, under its own program, once |
| `cari-transcoder`, `-abr` | GStreamer pipeline | detect the input, build, run | a stop signal stops it |
| `cari-avsync` | inputs, samples, a file | discover, measure, save, load | a history holds samples of its own source, and none is lost that a save had seen |
| `ts_packet.c` | counters and last values per PID | update with a packet | it is known what the errors that are counted stand for |
| `config.c`, `license.c` | entries; limits and features | pure operations | what is saved is what is loaded; limits are honoured |
| `logging.c` | log file and mutex | write a message | a signal handler that logs does not block its own thread |
| `src/api/main.py` and the units | files, systemd's units | create, start, stop, restart, delete, control | a deleted unit does not run |

Interactions: `cari-input` is the only program that opens the ring (as writer);
no program in the repository reads it yet, so the reader's side is modelled from
`ring_buffer.h` and `ring_buffer_read`. `cari-output` and `http_ts_server`
receive UDP from a transcoder or an input. `http_ts_server` and `player_preview`
serve viewers. systemd restarts every unit (`Restart=always`, 5 s; `on-failure`
for the mux), which is why several programs exit on purpose when they stall.

What is hard here, and hardly reached by a test:

* two processes on lock-free shared memory, either of which may be killed
  between any two accesses (ring);
* a lock that is let go in the middle of a loop, and a count read without it
  (`cari-output`);
* a flag and a pid shared by main, a manager thread and a signal handler with no
  lock, and a pid read again after a sleep (`player_preview`, input monitors);
* a writer that never waits for its readers (`http_ts_server`, DROP_OLDEST);
* handlers installed before the flag they clear is set (`cari-output`,
  `hls_output`), a `SIGCHLD` that is ignored while `waitpid` is polled;
* a segment that is created by one process and found half made by another (ring);
* signal handlers that take a mutex which the interrupted thread may hold: the log's
  (`cari-output`, `cari-input`), the main context's (the GStreamer programs), and a
  main loop that a signal may miss;
* pads that appear on as many threads as there are services (`cari-mux`);
* a slot whose source changes while its history stays (`cari-avsync`);
* a `systemctl` that times out while systemd goes on (`main.py`).

`PROJECT.json` lists every such hazard at its line, with the properties that
cover it or the reason why none does.

## 2 The modules

| module | models | steps |
|---|---|---|
| `PacketFifo` | the promise of `ring_buffer.h`: a bounded FIFO with flushes | put, get, discard |
| `RingBuffer` | `ring_buffer.c`, data path | every atomic access of the header is a step; memcpy is two |
| `SrtOutput` | `cari-output/main.c`, SRT listener mode | a critical section without a gap is a step; with a gap, or with a blocking call inside, several |
| `HttpTsServer` | `http_ts_server.c` | a critical section is a step; the response may fail after it |
| `PlayerPreview` | `player_preview.c` | every access of what main and the manager share |
| `HlsOutput` | `hls_output.c` and what the kernel does with its child's pid | every system call of the supervisor |
| `InputMonitor` | `srt_input.c` | every access of what main, manager, handler and log monitor share |
| `RistPipeline` | `rist_input.c`: the manager of its one child, handler, joins | every access of `tsp_child` and `running` |
| `RingSegment` | `ring_buffer_open` and `ring_buffer_close`, with `cari-input`'s restarts | every system call; the header's initialisation is three: magic and version, the fields, the flags |
| `MainLoop` | start, signals and end of `cari-input`, `cari-mux`, `cari-transcoder`, with the mutexes of `logging.c` and of GLib's main context | every phase of main; taking and releasing each mutex; handlers that interrupt each other |
| `Mux` | `cari-mux/main.c`: numbers, probing, program map, pads, links | a pad, and each link of its thread |
| `AvSync` | `cari-avsync.c`: discovery, histories, save, load | a discovery, a measurement, a save's opening of the file, and its writing, each of which may fail |
| `ServiceControl` | the handlers of `main.py` with systemd | every file operation and every `systemctl` |
| `TsPacket` | `ts_packet.c`: `ts_stats_update`, the PCR of the adaptation field | a packet |
| `RingBufferProofs`, `RingSegmentProofs`, `SrtOutputProofs`, `HttpTsServerProofs`, `AvSyncProofs` | theorems about the module they are named after | |
| `RingFifoProofs` | theorems about `RingBuffer`: that it implements `PacketFifo`, and what an overwriting ring keeps | |
| `SupervisorProofs` | theorems about `PlayerPreview`, `HlsOutput`, `RistPipeline`, `InputMonitor` and `MCSupervisors` | |
| `ServicesProofs` | theorems about `Mux`, `TsPacket`, `MainLoop`, `ServiceControl` and `MCServices` | |
| `MCRingBuffer`, `MCSrtOutput`, `MCSupervisors`, `MCServices` | instances for TLC | |

**RingBuffer.** `write_idx`, `read_idx`, the four statistics, `flags` and
`overflow_policy` are the header's fields. The policy is a variable that no step
changes, because the creator chose it: one run covers all three. `wpc` and `rpc`
say where the writer and the reader are in their call, `w_*` and `r_*` are the
locals of the call. A packet is the number of the write call it came with; a slot
that is being written holds `Torn`, and a copy that overlaps a write yields
`Torn`, because a racing memcpy may produce anything. A batch call is its single
calls one after the other. A killed process is at "down", its locals are dead and
`WriterAttach`/`ReaderAttach` attach it again to what it left. `published`,
`delivered`, `discarded` and `dropped` are history variables; so are `crashes` and
`flushes`. A drop is three steps, as in the code: the compare-and-swap of `read_idx`,
the count in `overruns`, the flag. A writer that is killed after the first leaves a
drop that no statistic shows, which is why `SafeUntilOvertaken` speaks of the drops
themselves (`dropped`) and not of `overruns`, and why `OverrunsCountLosses` gives an
overwriting ring's drops one uncounted packet for each kill.

**SrtOutput.** `slot[i]` is the socket in `srt_clients[i]`; `lock` is who holds
`srt_clients_lock` across steps. The SRT library is external: `conn[k]` says how
it sees connection k, and peers connect, break and stall whenever they like.
`mainSaw` and `apiSaw` remember for whom a removal was begun; they are what
`RemovalsHitTheirTarget` compares. What may fail (a signal, epoll, recv, the API's
start, slow peers) is the constant `Faults`, so that liveness can be checked
without the failures that rightly stop the program. The stop handler logs before it
clears the flags (`main.c:118`), under the mutex of `logging.c`, which is not
recursive: with the fault "logging" the signal may land on a thread inside a log call,
and that thread, which may hold `srt_clients_lock`, is `stuck` for ever with the mutex;
everybody else goes on until they log.

**HttpTsServer.** Data is counted in units; unit n of the input is the number n.
A connection's `next` is the unit it is owed, so "in order, with whole laps
missing" is a statement about numbers. libmicrohttpd is modelled by when it calls
the two callbacks. When it cannot create the response the server forgets the
slot it has just taken (`http_ts_server.c:514-532`): the connection's place is
"leaked", and the slot is active for ever.

**PlayerPreview, HlsOutput, InputMonitor.** The child is a variable of its own
(`proc`, `tsp`: none, alive, zombie), apart from the field that holds its pid:
everything that goes wrong in these programs is a disagreement of the two.
`kill(0, SIGKILL)`, the result of a pid that was cleared between two reads, ends
the process group. In `HlsOutput` the pid may be free or belong to a stranger.
Time is a counter that stops one beyond the timeout: older ages are alike. Of the
monitored PIDs of an input one is kept; their histories do not interact. The
comparison of the clock with `last_data_received` is two steps, and main loads
the second last, which is why no sample is overlooked (`StallIsReal`).
`udp_input.c`, `http_input.c` and `hls_input.c` have the same threads,
`kill_tsp_child`, handler and stall check line for line, so `InputMonitor` is
their model too; `udp_input.c` alone reads its log from the start (`SeeksToEnd`
is FALSE).

**RistPipeline.** `rist_input` has no stall check and never uses its
`--stall-timeout`; it stops tsp with one SIGTERM and waits. A SIGTERM misses in two
ways: between the manager's test of `running` and its store of the pid it is sent to
nobody, and between fork and `execvp` (`RpExec`) it reaches the handler that the child
inherited, which does nothing that would end it. `rp_missed` says that the last one
missed. tsp itself is external and is taken to follow a SIGTERM in the end (`RpTold`):
one that does not would be waited for without end, since there is no SIGKILL.

**RingSegment.** The name in `/dev/shm` is a variable that refers to a segment,
and the processes have segments open that may have lost their name. Two openers,
each with the size it finds and the local `created`; either may be killed between
any two steps, and `ftruncate` and `mmap` may fail. The creator stores the magic first,
then capacity and indexes, then the flags; an opener that finds the magic takes
the header for whole, may register, and loses its presence bit to the flags' store.
An opener that attaches to a header without capacity, whose creator was killed, divides by
zero in its first write (`WriteTraps`). `seg_disturbed` names the segments that
somebody got into while they were being created. `cari-input`'s unit has
`WatchdogSec=30` and the program never notifies systemd, so a kill is not rare:
the watchdog brings one every half minute. Both openers use the same capacity.

**MainLoop.** A handler runs on the thread it interrupts and may be interrupted in
turn. Neither the log mutex nor the mutex of the main context, which
`g_main_loop_quit` takes, is recursive; main holds the latter inside
`g_main_loop_run` except while it polls and dispatches. `SelfDeadlock` is a handler that
waits for a mutex of the very thread it interrupted. What a signal before
`g_main_loop_run` does, and what a second signal does when the loop is freed, are
steps of the model; the property is about signals that find the loop running. GLib and
GStreamer are external: that a bus message wakes main without the context's
mutex, and that no other thread holds it, is how the versions in use do it.

**Mux.** The program map is filled once, from the numbers alone: `Entries` lists what
`build_prog_map` sets for a service, in its order, and `Mapped` looks a key up,
where a later entry counts. A PID that is taken is replaced by one that
the multiplexer gives out, from 65 on (`OwnPids`). The comment at
`cari-mux/main.c:485` says of the PMT keys, which are both stream PIDs and program
numbers, that they "don't conflict in practice". The model shows when they do: a
program number equal to another service's stream PID, or PIDs given twice on the
command line. `StreamsAreInTheirProgram` is therefore stated for a service whose
numbers are its own (`Unshared`: not another's, and not given out by the
multiplexer), whatever the others' are.

**AvSync.** A slot keeps its history when a discovery finds the same id in it.
The directory's files are taken in order, and one that lacks a field leaves its
slot to the next. What `discover_inputs` does file by file is therefore said of
each slot at once: a file's slot is the one after those of the complete files
before it (`FilePlace`), and is left with the complete file there, or the last one
of all (`Keepers`). A file after an incomplete one finds its slot blank and loses
its history (`AfterIncomplete`). An input's id is the name in its
file (`cari-avsync.c:179`), so that two files may have one: the listings include
such directories. To the program these are one source, and `as_shared` remembers
which ids it happened to.
Discovery is one step because the other threads, which serve the API, hold
`global_lock` when they read, as discovery does. `load` does not restore a time,
and the current value is blank after each discovery; neither is part of the
state. A save opens the file, which empties it, and writes it to its end: two steps,
and a kill in between leaves a torn file for the next load. `fopen` may fail, which
leaves the file as it was, and the disk may fill up, which tears it, since no result of a
write is looked at; a disk that is full stays so until the file is closed. The load may
fail to read the file. Its limit of 10 MB is out of reach: 100 inputs
with 288 samples of less than 200 bytes are 5.8 MB.

**ServiceControl.** A unit has a file, a wish to be enabled, a loaded state, a
process and a job under way. The handlers of SRT, HLS, HTTP and RIST outputs and inputs
(`main.py:927-1450`) share one shape and are one handler here; transcoders and
outputs (`2406-2530`) are started without being enabled, and the file deletion of
`1483-1515` tests first. Handlers never await in the middle, so they do not interleave with each other,
and one unit is enough; they interleave with systemd's jobs, crashes, reboots and
a kill of the API.

**TsPacket.** The stream is part of the model: what its sender numbered, repeated or
numbered anew, and what was lost on the way. `ts_stats_update` sees only the packets. It
counts as errors what it cannot tell from a loss, and what it could tell but does not
look at: a packet that comes twice, and a new number that the discontinuity indicator
announces (`ts_packet.c:45` reads it, nobody uses it). `tp_gaps` and `tp_unlost` keep the
two kinds apart. The parser's bound for the PCR (`ts_packet.c:57`) is one too high: an
adaptation field of length 7, which a PCR fills and which is the ordinary one, yields
the PCR 0 (`filled`), so that in most streams no PCR is compared with anything, and a
PCR in a longer field followed by one that fills its own counts as going back.
`cari-input` tests the sync byte before it calls `ts_stats_update` (`main.c:180`), so its
sync error counter cannot move there; the model counts them all the same.

`MCSupervisors` and `MCServices` put independent programs side by side; each
behaviour is one of them, and the others stand still, so their state spaces add
up instead of multiplying. Where programs share a promise the properties of the composition are
conjunctions (`ServicesTypeOK`, `SupervisorsTypeOK`, `ExitsAreClean`, `StopsEnd`,
and in the ring `StatisticsAreHonest` of `OverrunsCountLosses` and
`StatisticsLag`). The mutated definitions kept in the modules (`ExitWithoutJoin`,
`TermAndLeave`, `TerminateOnly`, `WaitForever`, `WritePublishUncounted`, and so on)
break the conjuncts one by one.

## 3 The runs

| run | module, cfg | properties | states |
|---|---|---|---|
| `ring_safe` | `MCRingBuffer`, `MCRingBuffer_safe` | TypeOK, RefusingIsWhole, NothingVanishes, HeldIsNewestRun, StatisticsAreHonest, SafeUntilOvertaken | 7 715 000 |
| `ring_fifo` | `MCRingBuffer`, `MCRingBuffer_fifo` | IsFifo, WriterReturns, PublishedIsDelivered | 146 000 |
| `ring_torn` | `MCRingBuffer`, `MCRingBuffer_torn` | NoTornDelivery, violated | |
| `srt_table` | `MCSrtOutput`, `MCSrtOutput_table` | TypeOK, CountIsHonest, NeverOverLimit, SocketsHaveOneOwner, CheckDropsOnlyLost | 299 000 |
| `srt_live` | `MCSrtOutput`, `MCSrtOutput_live` | LostClientsLeave, PeersAreAnswered, StopCompletes | 38 000 |
| `srt_wrong_client` | `MCSrtOutput`, `MCSrtOutput_wrongone` | RemovalsHitTheirTarget, violated | |
| `srt_lost_signal` | `MCSrtOutput`, `MCSrtOutput_lostsignal` | StopIsHonoured, violated | |
| `services` | `MCServices`, `MCServices` | ServicesTypeOK; HTTP: SlotsAreOwned, StreamIsOrdered, SlotServesOneStream, StopCompletes; segment: InputRingIsReachable, TheInputComesBack; main loop: StopReachesTheLoop; mux: StreamsAreInTheirProgram, ServicesGetLinked; A/V sync: HistoriesAreOwn, HistoriesAreKept; API: DeletedUnitsEnd; packets: StatisticsMatchTheStream | 781 000 |
| `supervisors` | `MCSupervisors`, `MCSupervisors` | SupervisorsTypeOK, ExitsAreClean, StopsEnd; preview: FfmpegIsRestarted; input: InTypeOK, InExitIsClean, HistoryIsLatest, StallIsReal, InKillEnds | 103 000 |
| `preview_cleanup` | `PlayerPreview`, `PlayerPreview_cleanup` | InactiveIsCleanedUp, violated | |
| `hls_restart` | `HlsOutput`, `HlsOutput_restart` | RestartsFfmpeg, violated | |
| `input_stall` | `InputMonitor`, `InputMonitor_stall` | StallExits, violated | |

Each property's comment in its module says in words what it claims.

### Bounds

* Ring: `Capacity` 3 holds two packets, so full, empty and half full differ and
  the indexes wrap around; five packets are one lap and two packets more, enough
  for a slot to be reused while a reader still has its old index; two kills let
  each side die once, or one side twice; one flush. `SpinLimit` is 2 instead of 1000: what matters
  is that it ends. `MaxUnderruns` saturates a statistic no other state depends
  on. The refinement and liveness run has four packets and one kill.
* SRT: three connections for a limit of two with a spare slot let one peer be
  refused, or take over a slot another left, while two threads are
  in the table. `srt_live` has one slot for two peers, so the second is always
  turned away or waits. `MaxClients` above `NSlots` there makes the full table,
  not the limit, refuse it. Connections are symmetric in the safety runs only.
* Services, HTTP: three connections for two slots, a ring of two units and four units of
  input: the writer laps a reader, and a slot is used twice. Every connection has
  an address of its own; `SlotServesOneStream` depends on that.
* Services, segment: two openers and two faults, so that a second kill can hit
  the repair of a first; three segments are one for the name and one for each
  process, and no more can be in use. Main loop: three signals interrupt a
  handler and its handler. Mux: two services with the numbers chosen so that
  every pair of keys can clash (default against given, program against PID),
  two pads of a kind. A/V sync: two sources, which swap places, leave and lack a
  field or share an id, histories of two for three samples, one stop or kill and any number
  of failed saves. API: one unit,
  six requests, three troubles. Packets: three packets on two PIDs, one of them the
  null PID, with runs of 0, 1 and 16 lost, adaptation fields of 7 and 8 bytes, and
  signalled numbers that are the next one or not; the counter starts two below its end.
* Supervisors: a timeout of one tick separates fresh, at the limit and too old.
  The input's history has two places for three samples, so it wraps around. Three
  stop signals reach the RIST input.
* `MCServices` does not check for deadlock: its programs are meant to end, and a
  main loop whose handler waits for its own mutex stands still for good.

### Fairness

* `ring_fifo`: the writer is scheduled and, after a kill, restarted by systemd
  (`WF(Write)`, `WF(WriterAttach)`); no fairness for the reader, so
  `WriterReturns` holds against a dead one. `PublishedIsDelivered` assumes in its
  own statement a reader that keeps polling and is restarted.
* `srt_live`: strong fairness for each thread: a thread that waits for the mutex
  gets it when it is free again and again. pthread mutexes do not promise this,
  but every holder lets the lock go and then blocks elsewhere (in recv, in
  epoll_wait, for a request), which gives the others their turn. `WF(StallEnds)`: SRT gives up a
  connection whose peer does not read, so a blocking send returns. `StopCompletes`
  also assumes that datagrams keep coming, and says so: `recv` is restarted after
  a signal, so without traffic the loop does not look at `running`.
* `services`: the HTTP server's main, its daemon and the connections' callbacks
  run; the openers of the ring run, and systemd starts `cari-input` again
  (`Restart=always`), but nobody has to open as a reader or to close; main and
  the handlers of the GStreamer programs run, the handlers with strong fairness: one that
  waits for a mutex which is free again and again gets it, as main polls without the
  context and logs a few lines in its life; systemd finishes its jobs. No request
  ever has to come.
* `supervisors`: threads run, and a fork tried for ever succeeds once
  (strong fairness of `Fork`, `StartFfmpeg` and `TspFork`: it is enabled and
  disabled again by each failed attempt). The RIST input's tsp follows a SIGTERM that
  reaches it after `execvp`; for one that comes earlier nothing is assumed, and
  the RIST part of `StopsEnd` says that such a stop may not end.
* No fairness is assumed of children, peers, signals and crashes.

## 4 What the code does not keep

Six runs end in a counterexample. Each property is what the code or its documents
say; `PROJECT.json` quotes the line.

* **`ring_torn`**: with DROP_OLDEST, the default, the writer moves `read_idx`
  under a reader that is copying, and one more write overwrites the slot it
  copies; `ring_buffer_read` returns 0 with half of each packet. Its plain store of `read_idx`
  afterwards also undoes the writer's move. `SafeUntilOvertaken` and
  `HeldIsNewestRun` say how far this goes: two drops in the middle of a call are
  needed, and what is left in the ring is always right again.
* **`srt_wrong_client`**: a kick, or a failed send, looks at a slot under the
  lock, lets it go, and removes whoever is in the slot by then. The periodic
  check has the same gap and is safe, because it runs on the only thread that
  adds clients (`CheckDropsOnlyLost`).
* **`srt_lost_signal`**: a stop signal between the installation of the handlers
  and `running = 1` is lost.
* **`preview_cleanup`**: `kill_ffmpeg_child` reads the pid twice. Cleared in
  between, it becomes `kill(0, SIGKILL)`; not yet stored, no ffmpeg is killed, and
  main joins a manager that waits for it.
* **`hls_restart`**: `SIGCHLD` is ignored, so the kernel reaps ffmpeg, `waitpid`
  never returns its pid and the restart is dead code.
* **`input_stall`**: as in the preview, between fork and the store of the pid
  there is a tsp nobody kills, and a stalled input hangs instead of exiting.

## 5 The proofs

Assumed are only the named assumptions on the constants: the ring has a slot, the
policies are policies, `NoSock` is no connection, bounds are naturals, the history
has a place, lengths of adaptation fields that have room for a PCR are from 7 to 183, no
directory has more files than the monitor has slots, and "nobody" is no id. Nothing else is assumed of
their values, except where a theorem says so itself: no overwriting policy in
`IsFifoHolds`; distinct addresses, `OwnAddresses`, in
`SlotServesOneStreamHolds` and `StreamIsOrderedHolds`; and three slots or more in
`SafeUntilOvertakenHolds`, because a ring of two slots holds one packet, a single
drop empties it under a reader that saw it filled, and that reader copies the slot
being written.

**RingBufferProofs.** `TypeCorrect`: both indexes stay inside the slots. Inductive
with one addition: during a call the number being written is a packet.
`SafeInvariant`: unless the policy overwrites, `SafeInv` holds, a conjunction of

* `RoomInv`: from the moment the writer saw room until it publishes, there is
  room, because the reader can only make more;
* `CopiedInv`: a finished copy is the packet of the call;
* `ReaderInv`: what the reader loaded is still right when it is used: its slot
  lies strictly before `write_idx`, so the writer's copy cannot touch it;
* `CountInv`: published = delivered + held + flushed;
* `SlotsInv`: the held slots are the tail of what was published, by their distance
  (`Age`) behind `write_idx`.

None of `RefusingIsWhole` and `NothingVanishes` is inductive alone: that a copy
is whole needs that the slot was not written, which needs that the writer had
room all along. `RefusingIsWholeHolds` and `NothingVanishesHolds` follow.
`StatisticsAreHonestHolds` covers every policy: `LagInv` says how far each statistic
trails what it counts, the call under way taken into account. Only a kill widens a
lag, by the one call it cuts off, so the lags stay within the number of kills. For
an overwriting ring it bounds `DropLag`, what was pushed out and is not in `overruns`.

**SrtOutputProofs.** `TypeInv` is TypeOK with CountIsHonest (the count's range
is that of the number of active slots) and "a thread about to remove has a slot
of the table in mind"; it gives `SrtTypeCorrect` and `CountIsHonestHolds`.
`Room` adds that the accept thread, between its test without the lock and its
addition, still has room, because others only remove: `NeverOverLimitHolds`.
`Owners` adds that a socket in the accept thread's hands is open and in no slot:
`SocketsHaveOneOwnerHolds`. `Removal` and `Addition` say once what the two steps
that change the table do; the other steps are grouped by thread.
`CheckDropsOnlyLostHolds` is an action theorem: `DropInv` says that the slot the
accept thread is about to empty is empty already or holds a lost client. It is
preserved because others only empty slots (`SlotsOnlyEmpty`) and what is lost stays
lost (`GoneStays`); that a client found not alive is lost, and not merely new, is
`Owners`.

**RingFifoProofs.** `IsFifoHolds` is the refinement: under `SafeInv` the packets
held are the tail of `published` (`HeldIsTail`), so publishing is `Put`
(`PublishIsPut`), storing the read index is `Get` (`AdvanceIsGet`), a flush is
`Discard` of what was held when it loaded the write index (`FlushIsDiscard`), and
every other step is a stutter. `NewestInv` adds that the packet being written is
newer than every published one, which `Put` asks for.

The second half is about every policy, also the overwriting one, and every
kill. `HeldIsNewestRunHolds`: `AnyPolicyInv` adds to types, `CopiedInv` and
`NewestInv` that every slot but the next one to be written holds the packet its age
says (`RecordInv`), wherever `read_idx` is, and that before the first lap is
complete nobody but the reader has moved `read_idx` (`EarlyInv`), so no
slot that was never written can be held.
`SafeUntilOvertakenHolds`: while there was at most one drop or flush, counted or not,
`OnceInv` holds. Its
parts say that room stays room (`RoomInv`), that a writer that drops compares with an
index that was full (`FullInv`), that the reader's loaded indexes are still good
(`LoadedInv`), that the packet being read is held or just dropped, and its slot not
yet written (`ReadingInv`), that what was delivered is older than what is held
(`DeliveredInv`), and that packets are in the order of their calls (`CallsInv`).
One drop moves `read_idx` by one; only a second can bring the writer into the slot
being read.

**RingSegmentProofs.** `SegInvHolds` proves the inductive invariant `SegInv`:
types, `Placed` (a process has a segment open exactly when it is in a call or
attached, and is a creator where only creators get), `Sized` (a segment without a size
is blank, and a creator past `ftruncate` has given it one), and, of segments that nobody
got into while they were being created (`seg_disturbed`), `OneCreator` (a segment has one
creator, and its header is filled in as far as that one has come), `UsedIsReady` (whoever
registers or is attached has a finished header) and `NameIsTheInputs` (what `cari-input`
has open is the named segment, with its bit in it once attached).
`InputRingIsReachableHolds` follows. The exception is real, and is of that one segment:
two openers that both see size 0 both initialise, an opener that finds the magic
attaches before the creator's store of the flags wipes its presence bit, and a creator
that fails unlinks the name. The next segment is whole again.

**HttpTsServerProofs.** `HttpTypeCorrect` needs `HttpTypeInv`, which ties the
count to the active slots and says that a read that goes on was given something.
`SlotsAreOwnedHolds`: `Owned` gives every active slot a connection that will
free it, or one whose response could not be created and which nobody frees (`Leaked`),
also when peers share an address. `SlotServesOneStreamHolds`: `Theirs` says
that a slot a connection holds is active and carries its address, so distinct addresses have
distinct slots.

`StreamIsOrderedHolds` is about numbers that never end
and positions that do, so it starts with the arithmetic modulo the size of
the ring (`PlaceIsUnique`, `PlaceMoves`, `Distance`, `Behind`). `OrderInv` says that
the ring holds the newest units at their positions (`Window`), that `write_pos` is
the position of the next one, that a reader's `read_pos` is the position of the unit
it is owed (`ReaderAt`), and that what it has read and not yet sent is a run of the input
which starts whole laps after that unit (`ReadRun`). Here it matters that a
connection's slot is its own: another's `read_pos` would be at another's unit.

**AvSyncProofs.** The array that wraps around is first seen as what `build_input_json`
reads from it, a sequence: `HistoryIs`, and what a sample and a load make of
it (`SampleHistory`, `LoadedHistory`). Where the files go is a matter of counting: two
complete files never have the same slot (`Places`), every slot below the count has one
(`EveryPlaceIsTaken`), and that one keeps it (`KeeperIs`). `AsInv` is types, `SlotsOwn` and `DiskOwn` (a history
in memory, or in a file however torn, holds samples of its own id, in the order they
were taken, none from the future) and `Listed` (the slots in use are those of the last
discovery's complete files, in whose order an id is there twice only if two files had
it): `AsTypeCorrect`, `HistoriesAreOwnHolds`, which says that samples were made under the
id, since two files with one id cannot be told apart. `HistoriesAreKeptHolds` adds
`KeptInv`, about the ids that were never shared: what is served ends
in the samples owed to it, and what the file says of an id, however torn, ends in those
that a restart owes, so a kill or a failed write may come between any two steps.

**SupervisorProofs.** The supervisors are one argument in four variants: what the
manager's place knows of the child, whom main waits for, and that only main's last
step follows. `PreviewInv`: there is an ffmpeg only while the manager is about to
store its pid or waits for it, and main exits after the manager and the cleaning
(`ExitIsCleanHolds`). `HlsInv`: past the kill nobody that could write has ffmpeg's
pid (`HlsExitIsCleanHolds`). `RpInv`: there is a tsp only between fork and wait
(`RpExitIsCleanHolds`). `AnyIsEach` says of the composition that each program does its
own steps or none, so types and clean exits add up: `SupervisorsTypeCorrect`,
`ExitsAreCleanHold`.

For the input monitors `InTypeCorrect` is shown by what the steps touch: threads,
ages, log, history. `InExitIsCleanHolds`: `ChildInv` says what the manager's place
knows of the child, and that main exits only after joining it.
`HistoryIsLatestHolds`: `HistoryInv` places the newest samples in the slots from
the oldest on, around the end of the array, and a sample that overwrites the oldest
moves the start on. `StallIsRealHolds` is an action theorem: `NoOlder`, the age
main computed is never more than the true one, holds because main loads the time of
the last data after the clock, not before.

**ServicesProofs.** `ServicesGetLinkedHolds`: `TodoInv` says that a thread that has begun
to link makes both links, in the order the options ask for, while the parsers wait,
and `SeenInv` that a pad that was seen has a parser that waits or is linked.
`StreamsAreInTheirProgramHolds`: `LinksInv` says that a link has its stream's PID or
one that was given out, and the former if the service's numbers are its own, and that the
second stream follows the first; that the program map then has the service's own
entries is a lemma about `Mapped` (`KeysAre`), since no other entry has its keys.
`ServicesTypeCorrect` is about all seven programs side by side and needs, besides
the type theorems named above, that as many handlers run at most as signals came
(`MlInv`), that the API's handlers only know their steps (`ScTyped`), and that no
packet counter exceeds the packets (`TpTyped`).

`StatisticsMatchTheStreamHolds`: `PacketInv` adds that
the counter remembered of a PID trails the sender's by what is missing, modulo 16
(`CountersTrail`), and that the PCR remembered is the last one sent, or 0 if that one
filled its field (`PcrsAgree`). `ExpectedCounter` turns the former into the verdict on one
packet: its counter is the expected one exactly if it is one step, modulo 16, from the
packet heard before it.

The invariants and action properties that the passing runs check are proved, and so is
the refinement. Only model-checked are

* liveness, which needs fairness and ENABLED and is outside the provers' reach:
  `WriterReturns`, `PublishedIsDelivered`, `LostClientsLeave`, `PeersAreAnswered`, both
  `StopCompletes`, `TheInputComesBack`, `StopReachesTheLoop`, `DeletedUnitsEnd`,
  `StopsEnd`, `FfmpegIsRestarted`, `InKillEnds`;
* the counterexamples of section 4, which need no proof.

## 6 What is not modelled

* Of the modelled programs: the ring's heartbeat, batch statistics snapshot and
  openers with another capacity; `cari-output`'s UDP and SRT caller modes; the
  status pages that only read; option parsing; all formatting; the copying of
  srt-live-transmit's statistics in `srt_input`; peers of `http_ts_server` that
  reuse an address. In `cari-mux`: elements and links that fail, a codec that
  was assumed and turns out wrong (which ends in a bus error), and the SDT. In
  `cari-avsync`: how a measurement is computed. In `ts_packet.c`: the bitrate, the
  other fields of the header and the builders. In `main.py`: previews, scans,
  configuration files and status pages.
* Weak memory: every access of the header is a sequentially consistent atomic in
  the code, and so in the model. The weak compare-and-swap of DROP_OLDEST fails
  only when the index has changed, as on the amd64 machines the packages are for.
* Not modelled yet: `cari-transcoder-abr`, `config.c`, `license.c`. See the plan.
* Not to be modelled: `cari-ha` and `cari-stats` (stubs), the old player
  (superseded by the preview), the web pages and the installation scripts, and
  the third parties' code: `librist-master`, which contains a copy of mbedtls, and
  the binary packages.
* The models cover a small share of the repository's lines for that reason:
  about nine tenths of the C in the tree belong to librist and its mbedtls, which
  no program here links by source, and much of the rest is option parsing, HTML and
  PHP. Of CariTranscoder's own control they cover the parts above.

## 7 Plan

1. `ConfigStore` and `License`: sections, keys, defaults and a fixed number of
   entries; validity, features and counts, against reference definitions.
2. The rendition graph of `cari-transcoder-abr` and the audio and video branches of
   `cari-transcoder`, with links that fail; the same for `cari-mux`.
3. The input monitors' own endpoints where they differ from `srt_input`'s; the ring's
   heartbeat and statistics snapshot.
4. Proofs: the refinement of `PacketFifo` extended to the overwriting policy, with a
   specification that may drop its oldest packet; what `SlotServesOneStream` becomes
   when peers share an address; the safety half of the liveness properties, such as that
   a thread that waits for `srt_clients_lock` waits for one that will let it go.
