----------------------------- MODULE SrtOutput -----------------------------
(***************************************************************************)
(* The one-to-many SRT output of cari-output/main.c: three threads share   *)
(* a table of client slots.                                                *)
(*                                                                         *)
(*   main    receives datagrams and sends each batch to every client;      *)
(*   accept  waits on the SRT epoll, admits peers, drops lost clients;     *)
(*   api     answers HTTP requests: list the clients, kick one.            *)
(*                                                                         *)
(* srt_clients_lock protects the table, but it is let go in the middle of  *)
(* three loops, and srt_client_count is read without it.                   *)
(*                                                                         *)
(* A critical section without a gap is one step that needs the lock free;  *)
(* one with a gap, or one that blocks inside, holds the lock over several  *)
(* steps.  A datagram yields at most one batch (the feeders send 1316-byte *)
(* datagrams).  Loop turns in which no check is due stutter.               *)
(*                                                                         *)
(* The stop handler logs before it clears the loop flags, and the mutex of *)
(* logging.c:163 is not recursive: a handler that interrupts its own       *)
(* thread's log call waits for ever, on a mutex its thread never releases, *)
(* and with the client lock if the call was made under it.                 *)
(***************************************************************************)
EXTENDS Integers, FiniteSets

CONSTANTS
  Socks,        \* the connections peers may make; SRT does not reuse a socket id
  NoSock,       \* SRT_INVALID_SOCK
  NSlots,       \* MAX_SRT_CLIENTS
  MaxClients,   \* srt_max_clients
  Faults        \* what may go wrong: a subset of FaultKinds

FaultKinds == {"signal", "logging", "epoll", "udp", "api", "stall"}

ASSUME SrtOutputAssumption ==
  /\ NoSock \notin Socks
  /\ NSlots \in Nat \ {0}
  /\ MaxClients \in Nat
  /\ Faults \subseteq FaultKinds

VARIABLES
  slot,           \* srt_clients[i].socket, NoSock when the slot is not active
  clientCount,    \* srt_client_count
  lock,           \* who holds srt_clients_lock
  running, acceptRunning, apiRunning,   \* the three loop flags
  signalled,      \* a SIGTERM has been delivered (at most one)
  stuck,          \* the thread whose handler interrupted its own log call
  conn,           \* the SRT library's view of each connection
  mainPc, mainSlot, mainSaw,        \* main: slot visited, client whose send failed
  acceptPc, acceptSlot, acceptSock, \* accept: slot visited, peer just accepted
  apiPc, apiSlot, apiSaw            \* api: slot to kick, client it will report as kicked

table  == <<slot, clientCount>>
flags  == <<running, acceptRunning, apiRunning>>
main   == <<mainPc, mainSlot, mainSaw>>
accept == <<acceptPc, acceptSlot, acceptSock>>
api    == <<apiPc, apiSlot, apiSaw>>
signal == <<signalled, stuck>>
vars   == <<table, lock, flags, signal, conn, main, accept, api>>

Slot   == 0 .. NSlots - 1
Active == {s \in Slot : slot[s] # NoSock}
Alive(k) == conn[k] \in {"up", "stalled"}

MainBoot == {"boot", "bootAccept", "bootRun"}
Thread   == {"main", "accept", "api"}

TypeOK ==
  /\ slot \in [Slot -> Socks \cup {NoSock}]
  /\ clientCount \in 0 .. NSlots
  /\ lock \in {"free"} \cup Thread
  /\ running \in BOOLEAN /\ acceptRunning \in BOOLEAN /\ apiRunning \in BOOLEAN
  /\ signalled \in BOOLEAN /\ stuck \in {"none"} \cup Thread
  /\ conn \in [Socks -> {"idle", "pending", "up", "stalled", "lost", "closed"}]
  /\ mainPc \in MainBoot \cup {"recv", "send", "sending", "drop", "relock", "stats",
                              "started", "report", "stopApi", "joinApi", "joinAccept", "cleanup",
                              "last", "done", "crashed"}
  /\ mainSlot \in 0 .. NSlots /\ mainSaw \in Socks \cup {NoSock}
  /\ acceptPc \in {"none", "loop", "wait", "admit", "add", "added", "drop", "check", "checking",
                   "checkDrop", "checkRelock", "stopped"}
  /\ acceptSlot \in 0 .. NSlots /\ acceptSock \in Socks \cup {NoSock}
  /\ apiPc \in {"none", "failed", "wait", "kick", "stopped"}
  /\ apiSlot \in 0 .. NSlots /\ apiSaw \in Socks \cup {NoSock}

Init ==
  /\ slot = [s \in Slot |-> NoSock] /\ clientCount = 0
  /\ lock = "free"
  /\ running = FALSE /\ acceptRunning = FALSE /\ apiRunning = FALSE
  /\ signalled = FALSE /\ stuck = "none"
  /\ conn = [k \in Socks |-> "idle"]
  /\ mainPc = "boot" /\ mainSlot = 0 /\ mainSaw = NoSock
  /\ acceptPc = "none" /\ acceptSlot = 0 /\ acceptSock = NoSock
  /\ apiPc = "none" /\ apiSlot = 0 /\ apiSaw = NoSock

-----------------------------------------------------------------------------
(* Peers and the SRT library *)

ProcessRuns  == mainPc \notin {"done", "crashed"}
ListenerOpen == ProcessRuns /\ mainPc # "last"

\* A peer completes the handshake and waits in the listener's backlog.
PeerConnects(k) ==
  /\ conn[k] = "idle" /\ ListenerOpen
  /\ conn' = [conn EXCEPT ![k] = "pending"]
  /\ UNCHANGED <<table, lock, flags, signal, main, accept, api>>

\* A connection breaks; one still in the backlog just disappears from it.
PeerIsLost(k) ==
  /\ conn[k] \in {"pending", "up", "stalled"}
  /\ conn' = [conn EXCEPT ![k] = IF conn[k] = "pending" THEN "closed" ELSE "lost"]
  /\ UNCHANGED <<table, lock, flags, signal, main, accept, api>>

\* A slow peer fills the send buffer: the blocking srt_send waits for it ...
PeerStalls(k) ==
  /\ "stall" \in Faults /\ conn[k] = "up"
  /\ conn' = [conn EXCEPT ![k] = "stalled"]
  /\ UNCHANGED <<table, lock, flags, signal, main, accept, api>>

\* ... until the peer catches up, or the library gives the connection up.
StallEnds(k) ==
  /\ conn[k] = "stalled"
  /\ conn' = [conn EXCEPT ![k] = "up"]
  /\ UNCHANGED <<table, lock, flags, signal, main, accept, api>>

-----------------------------------------------------------------------------
(* The log mutex *)

\* Nobody waits inside a log call for ever, so a log call returns.
LogFree == stuck = "none"

\* Mutant of Admits: <= for <.
AdmitsOneMore == clientCount <= MaxClients

\* The limit is checked without the lock; only this thread ever adds.
Admits == clientCount < MaxClients

\* The thread may be in a log call that it makes without the client lock ...
Logs(t) ==
  \/ t = "main" /\ mainPc \in {"boot", "bootAccept", "started", "report", "stopApi", "last"}
  \/ t = "accept" /\ (acceptPc = "wait" \/ (acceptPc = "admit" /\ ~Admits)
                                     \/ (acceptPc = "add" /\ Active = Slot))
  \/ t = "api" /\ apiPc \in {"wait", "kick"}

\* ... or under it: in remove_srt_client, add_srt_client or the client report.
LogsLocked(t) ==
  \/ /\ lock = "free"
     /\ \/ t = "main" /\ mainPc = "drop" /\ slot[mainSlot] # NoSock
        \/ t = "main" /\ mainPc = "report" /\ clientCount > 0
        \/ t = "accept" /\ acceptPc \in {"drop", "checkDrop"} /\ slot[acceptSlot] # NoSock
        \/ t = "api" /\ apiPc = "kick" /\ slot[apiSlot] # NoSock
  \/ t = "accept" /\ acceptPc = "added"

\* The signal lands on a thread in a log call: the handler waits for the mutex
\* its own thread holds, and never gets to the loop flags.
SignalInLog(t) ==
  /\ "logging" \in Faults /\ ~signalled
  /\ \/ Logs(t) /\ UNCHANGED lock
     \/ LogsLocked(t) /\ lock' = t
  /\ signalled' = TRUE /\ stuck' = t
  /\ UNCHANGED <<table, flags, conn, main, accept, api>>

\* A log call under the client lock that cannot return keeps that lock too.
BlockedInLog(t) ==
  /\ ~LogFree /\ t # stuck
  /\ lock = "free" /\ LogsLocked(t)
  /\ lock' = t
  /\ UNCHANGED <<table, flags, signal, conn, main, accept, api>>

-----------------------------------------------------------------------------
(* remove_srt_client: takes the lock, looks at the slot again, logs, closes *)

\* Mutant of RemoveClient: the slot is not looked at again under the lock.
RemoveUnchecked(s) ==
  /\ lock = "free"
  /\ conn' = [k \in Socks |-> IF k = slot[s] THEN "closed" ELSE conn[k]]
  /\ slot' = [slot EXCEPT ![s] = NoSock]
  /\ clientCount' = clientCount - 1

RemoveClient(s) ==
  /\ lock = "free"
  /\ IF slot[s] # NoSock
       THEN /\ LogFree
            /\ conn' = [conn EXCEPT ![slot[s]] = "closed"]
            /\ slot' = [slot EXCEPT ![s] = NoSock]
            /\ clientCount' = clientCount - 1
       ELSE UNCHANGED <<table, conn>>

-----------------------------------------------------------------------------
(* The main thread *)

\* The handler on a thread that is not in a log call.
SignalHandler ==
  /\ "signal" \in Faults /\ ~signalled
  /\ signalled' = TRUE /\ UNCHANGED stuck
  /\ running' = FALSE /\ acceptRunning' = FALSE
  /\ UNCHANGED <<table, lock, apiRunning, conn, main, accept, api>>

\* The handlers are in place before the flags they clear are set.
StartAccept ==
  /\ mainPc = "boot" /\ LogFree
  /\ acceptRunning' = TRUE /\ acceptPc' = "loop" /\ mainPc' = "bootAccept"
  /\ UNCHANGED <<table, lock, running, apiRunning, signal, conn, mainSlot, mainSaw,
                 acceptSlot, acceptSock, api>>

\* init_api_server: disabled, started, or failed (a warning, and main goes on).
StartApi ==
  /\ mainPc = "bootAccept" /\ mainPc' = "bootRun"
  /\ \/ apiPc' = "none" /\ UNCHANGED apiRunning
     \/ LogFree /\ apiPc' = "wait" /\ apiRunning' = TRUE
     \/ LogFree /\ "api" \in Faults /\ apiPc' = "failed" /\ UNCHANGED apiRunning
  /\ UNCHANGED <<table, lock, running, acceptRunning, signal, conn, mainSlot, mainSaw,
                 accept, apiSlot, apiSaw>>

StartRunning ==
  /\ mainPc = "bootRun"
  /\ running' = TRUE /\ mainPc' = "started"
  /\ UNCHANGED <<table, lock, acceptRunning, apiRunning, signal, conn, mainSlot, mainSaw,
                 accept, api>>

\* recv blocks; signal() restarts it, so the loop flag is seen only after a datagram.
Receive ==
  /\ mainPc = "recv"
  /\ mainPc' \in {"send", "stats"}
  /\ UNCHANGED <<table, lock, flags, signal, conn, mainSlot, mainSaw, accept, api>>

ReceiveFails ==
  /\ mainPc = "recv" /\ "udp" \in Faults /\ LogFree
  /\ mainPc' = "stopApi"
  /\ UNCHANGED <<table, lock, flags, signal, conn, mainSlot, mainSaw, accept, api>>

\* send_to_srt_clients: the count is looked at before the lock is taken.
SendSkip ==
  /\ mainPc = "send" /\ clientCount = 0
  /\ mainPc' = "stats"
  /\ UNCHANGED <<table, lock, flags, signal, conn, mainSlot, mainSaw, accept, api>>

SendBegin ==
  /\ mainPc = "send" /\ clientCount # 0 /\ lock = "free"
  /\ lock' = "main" /\ mainPc' = "sending" /\ mainSlot' = 0
  /\ UNCHANGED <<table, flags, signal, conn, mainSaw, accept, api>>

\* srt_send accepts the batch, or the slot is empty.
SendNext ==
  /\ mainPc = "sending" /\ mainSlot < NSlots
  /\ slot[mainSlot] # NoSock => conn[slot[mainSlot]] = "up"
  /\ mainSlot' = mainSlot + 1
  /\ UNCHANGED <<table, lock, flags, signal, conn, mainPc, mainSaw, accept, api>>

\* srt_send says the connection is lost: the lock is let go to remove the slot.
SendError ==
  /\ mainPc = "sending" /\ mainSlot < NSlots
  /\ slot[mainSlot] # NoSock /\ conn[slot[mainSlot]] = "lost"
  /\ mainSaw' = slot[mainSlot]
  /\ lock' = "free" /\ mainPc' = "drop"
  /\ UNCHANGED <<table, flags, signal, conn, mainSlot, accept, api>>

SendDrop ==
  /\ mainPc = "drop" /\ RemoveClient(mainSlot)
  /\ mainPc' = "relock" /\ mainSaw' = NoSock
  /\ UNCHANGED <<lock, flags, signal, mainSlot, accept, api>>

SendRelock ==
  /\ mainPc = "relock" /\ lock = "free"
  /\ lock' = "main" /\ mainPc' = "sending" /\ mainSlot' = mainSlot + 1
  /\ UNCHANGED <<table, flags, signal, conn, mainSaw, accept, api>>

SendEnd ==
  /\ mainPc = "sending" /\ mainSlot = NSlots
  /\ lock' = "free" /\ mainPc' = "stats" /\ mainSlot' = 0
  /\ UNCHANGED <<table, flags, signal, conn, mainSaw, accept, api>>

\* Mutant of LoopTest: the loop does not look at running.
LoopsOn == mainPc' = "recv"

LoopTest == mainPc' = IF running THEN "recv" ELSE "stopApi"

\* The 5-second report is due, or the loop goes round ("started" logs first).
Turn ==
  /\ \/ mainPc = "stats" /\ (mainPc' = "report" \/ LoopTest)
     \/ mainPc = "started" /\ LogFree /\ LoopTest
  /\ UNCHANGED <<table, lock, flags, signal, conn, mainSlot, mainSaw, accept, api>>

\* The report logs every client under the lock.
ReportStats ==
  /\ mainPc = "report" /\ LogFree
  /\ clientCount > 0 => lock = "free"
  /\ LoopTest
  /\ UNCHANGED <<table, lock, flags, signal, conn, mainSlot, mainSaw, accept, api>>

StopApi ==
  /\ mainPc = "stopApi" /\ LogFree
  /\ apiRunning' = FALSE /\ mainPc' = "joinApi"
  /\ UNCHANGED <<table, lock, running, acceptRunning, signal, conn, mainSlot, mainSaw,
                 accept, api>>

\* Joining a thread that was never created is undefined: it may return ...
JoinApi ==
  /\ mainPc = "joinApi" /\ apiPc \in {"none", "stopped", "failed"}
  /\ acceptRunning' = FALSE /\ mainPc' = "joinAccept"
  /\ UNCHANGED <<table, lock, running, apiRunning, signal, conn, mainSlot, mainSaw,
                 accept, api>>

\* ... or take the process down.
JoinNoThread ==
  /\ mainPc = "joinApi" /\ apiPc = "failed"
  /\ mainPc' = "crashed"
  /\ UNCHANGED <<table, lock, flags, signal, conn, mainSlot, mainSaw, accept, api>>

JoinAccept ==
  /\ mainPc = "joinAccept" /\ acceptPc = "stopped"
  /\ mainPc' = "cleanup"
  /\ UNCHANGED <<table, lock, flags, signal, conn, mainSlot, mainSaw, accept, api>>

\* cleanup_srt_output: every client, then the listener with its backlog.
Cleanup ==
  /\ mainPc = "cleanup" /\ lock = "free"
  /\ conn' = [k \in Socks |-> IF conn[k] = "pending" \/ k \in {slot[s] : s \in Active}
                                THEN "closed" ELSE conn[k]]
  /\ slot' = [s \in Slot |-> NoSock] /\ clientCount' = 0
  /\ mainPc' = "last"
  /\ UNCHANGED <<lock, flags, signal, mainSlot, mainSaw, accept, api>>

\* "Shutdown complete", and the process ends.
Exit ==
  /\ mainPc = "last" /\ LogFree
  /\ mainPc' = "done"
  /\ UNCHANGED <<table, lock, flags, signal, conn, mainSlot, mainSaw, accept, api>>

-----------------------------------------------------------------------------
(* The accept thread *)

AcceptLoop ==
  /\ acceptPc = "loop"
  /\ acceptPc' = IF acceptRunning THEN "wait" ELSE "stopped"
  /\ UNCHANGED <<table, lock, flags, signal, conn, main, acceptSlot, acceptSock, api>>

\* Any epoll error but the timeout ends the thread, and nothing else.
EpollFails ==
  /\ acceptPc = "wait" /\ "epoll" \in Faults /\ LogFree
  /\ acceptPc' = "stopped"
  /\ UNCHANGED <<table, lock, flags, signal, conn, main, acceptSlot, acceptSock, api>>

\* Mutant of EpollTimeout: the timeout is taken for a failure.
TimeoutEndsThread ==
  /\ acceptPc = "wait" /\ \A k \in Socks : conn[k] # "pending"
  /\ acceptPc' = "stopped"
  /\ UNCHANGED <<table, lock, flags, signal, conn, main, acceptSlot, acceptSock, api>>

\* Nothing is ready at the listener; a lost client may not have been reported.
EpollTimeout ==
  /\ acceptPc = "wait" /\ \A k \in Socks : conn[k] # "pending"
  /\ acceptPc' = "check"
  /\ UNCHANGED <<table, lock, flags, signal, conn, main, acceptSlot, acceptSock, api>>

AcceptPeer(k) ==
  /\ acceptPc = "wait" /\ conn[k] = "pending"
  /\ conn' = [conn EXCEPT ![k] = "up"]
  /\ acceptSock' = k /\ acceptPc' = "admit"
  /\ UNCHANGED <<table, lock, flags, signal, main, acceptSlot, api>>

\* Mutant of RejectPeer: the refused socket is not closed.
RejectKeepsSocket ==
  /\ acceptPc = "admit" /\ ~Admits
  /\ acceptSock' = NoSock /\ acceptPc' \in {"loop", "check"}
  /\ UNCHANGED <<table, lock, flags, signal, conn, main, acceptSlot, api>>

RejectPeer ==
  /\ acceptPc = "admit" /\ ~Admits /\ LogFree
  /\ conn' = [conn EXCEPT ![acceptSock] = "closed"]
  /\ acceptSock' = NoSock /\ acceptPc' \in {"loop", "check"}
  /\ UNCHANGED <<table, lock, flags, signal, main, acceptSlot, api>>

AdmitPeer ==
  /\ acceptPc = "admit" /\ Admits
  /\ acceptPc' = "add"
  /\ UNCHANGED <<table, lock, flags, signal, conn, main, acceptSlot, acceptSock, api>>

\* add_srt_client: the first free slot, or the socket is closed.
AddClient(s) ==
  /\ acceptPc = "add" /\ lock = "free"
  /\ s \in Slot \ Active /\ \A t \in Slot \ Active : s <= t
  /\ slot' = [slot EXCEPT ![s] = acceptSock]
  /\ clientCount' = clientCount + 1
  /\ lock' = "accept" /\ acceptSock' = NoSock /\ acceptPc' = "added"
  /\ UNCHANGED <<flags, signal, conn, main, acceptSlot, api>>

TableFull ==
  /\ acceptPc = "add" /\ lock = "free" /\ Active = Slot /\ LogFree
  /\ conn' = [conn EXCEPT ![acceptSock] = "closed"]
  /\ acceptSock' = NoSock /\ acceptPc' \in {"loop", "check"}
  /\ UNCHANGED <<table, lock, flags, signal, main, acceptSlot, api>>

\* The new client is logged under the lock.
Added ==
  /\ acceptPc = "added" /\ LogFree
  /\ lock' = "free" /\ acceptPc' \in {"loop", "check"}
  /\ UNCHANGED <<table, flags, signal, conn, main, acceptSlot, acceptSock, api>>

\* The epoll names a client socket: find_client_by_socket runs without the lock.
ClientEvent(s) ==
  /\ acceptPc = "wait"
  /\ s \in Active /\ conn[slot[s]] = "lost"
  /\ acceptSlot' = s /\ acceptPc' = "drop"
  /\ UNCHANGED <<table, lock, flags, signal, conn, main, acceptSock, api>>

EventDrop ==
  /\ acceptPc = "drop" /\ RemoveClient(acceptSlot)
  /\ acceptSlot' = 0 /\ acceptPc' \in {"loop", "check"}
  /\ UNCHANGED <<lock, flags, signal, main, acceptSock, api>>

\* check_client_connections: lock, and look at every slot in turn.
CheckBegin ==
  /\ acceptPc = "check" /\ lock = "free"
  /\ lock' = "accept" /\ acceptPc' = "checking"
  /\ UNCHANGED <<table, flags, signal, conn, main, acceptSlot, acceptSock, api>>

CheckNext ==
  /\ acceptPc = "checking" /\ acceptSlot < NSlots
  /\ slot[acceptSlot] # NoSock => Alive(slot[acceptSlot])
  /\ acceptSlot' = acceptSlot + 1
  /\ UNCHANGED <<table, lock, flags, signal, conn, main, acceptPc, acceptSock, api>>

\* Mutant of CheckFindsLost: a stalled client counts as lost.
CheckDropsSlow ==
  /\ acceptPc = "checking" /\ acceptSlot < NSlots
  /\ slot[acceptSlot] # NoSock /\ conn[slot[acceptSlot]] # "up"
  /\ lock' = "free" /\ acceptPc' = "checkDrop"
  /\ UNCHANGED <<table, flags, signal, conn, main, acceptSlot, acceptSock, api>>

\* Mutant of CheckFindsLost: lost clients are passed over.
CheckSkipsLost ==
  /\ acceptPc = "checking" /\ acceptSlot < NSlots
  /\ slot[acceptSlot] # NoSock /\ ~Alive(slot[acceptSlot])
  /\ acceptSlot' = acceptSlot + 1
  /\ UNCHANGED <<table, lock, flags, signal, conn, main, acceptPc, acceptSock, api>>

\* A lost client: unlock, remove, lock again.
CheckFindsLost ==
  /\ acceptPc = "checking" /\ acceptSlot < NSlots
  /\ slot[acceptSlot] # NoSock /\ ~Alive(slot[acceptSlot])
  /\ lock' = "free" /\ acceptPc' = "checkDrop"
  /\ UNCHANGED <<table, flags, signal, conn, main, acceptSlot, acceptSock, api>>

CheckDrop ==
  /\ acceptPc = "checkDrop" /\ RemoveClient(acceptSlot)
  /\ acceptPc' = "checkRelock"
  /\ UNCHANGED <<lock, flags, signal, main, acceptSlot, acceptSock, api>>

CheckRelock ==
  /\ acceptPc = "checkRelock" /\ lock = "free"
  /\ lock' = "accept" /\ acceptPc' = "checking" /\ acceptSlot' = acceptSlot + 1
  /\ UNCHANGED <<table, flags, signal, conn, main, acceptSock, api>>

CheckEnd ==
  /\ acceptPc = "checking" /\ acceptSlot = NSlots
  /\ lock' = "free" /\ acceptPc' = "loop" /\ acceptSlot' = 0
  /\ UNCHANGED <<table, flags, signal, conn, main, acceptSock, api>>

-----------------------------------------------------------------------------
(* The API thread.  Listing clients reads the table under the lock and      *)
(* changes nothing, nor does a request that is refused.                     *)

NextRequest == IF apiRunning THEN "wait" ELSE "stopped"

ApiStops ==
  /\ apiPc = "wait" /\ ~apiRunning
  /\ apiPc' = "stopped"
  /\ UNCHANGED <<table, lock, flags, signal, conn, main, accept, apiSlot, apiSaw>>

\* /client/{slot}/kick: look under the lock, copy the address, let go ...
ApiKick(s) ==
  /\ apiPc = "wait" /\ lock = "free" /\ s \in Active
  /\ apiSlot' = s /\ apiSaw' = slot[s] /\ apiPc' = "kick"
  /\ UNCHANGED <<table, lock, flags, signal, conn, main, accept>>

\* ... then remove whoever is in that slot, and report the copied address.
ApiRemove ==
  /\ apiPc = "kick" /\ LogFree /\ RemoveClient(apiSlot)
  /\ apiSlot' = 0 /\ apiSaw' = NoSock /\ apiPc' = NextRequest
  /\ UNCHANGED <<lock, flags, signal, main, accept>>

-----------------------------------------------------------------------------

MainStep ==
  \/ StartAccept \/ StartApi \/ StartRunning
  \/ SendSkip \/ SendBegin \/ SendNext \/ SendError \/ SendDrop \/ SendRelock \/ SendEnd
  \/ Turn \/ ReportStats \/ StopApi \/ JoinApi \/ JoinNoThread \/ JoinAccept \/ Cleanup \/ Exit

AcceptStep ==
  \/ AcceptLoop \/ EpollTimeout \/ RejectPeer \/ AdmitPeer \/ TableFull \/ Added \/ EventDrop
  \/ CheckBegin \/ CheckNext \/ CheckFindsLost \/ CheckDrop \/ CheckRelock \/ CheckEnd
  \/ \E k \in Socks : AcceptPeer(k)
  \/ \E s \in Slot : AddClient(s) \/ ClientEvent(s)

ApiStep == ApiStops \/ ApiRemove

\* What a thread does only if its environment lets it.
MainInput   == Receive \/ ReceiveFails
AcceptInput == EpollFails
ApiInput    == \E s \in Slot : ApiKick(s)

Peers ==
  \E k \in Socks : PeerConnects(k) \/ PeerIsLost(k) \/ PeerStalls(k) \/ StallEnds(k)

\* The process is there, and the thread is not stuck in its handler.
Runs(t) == ProcessRuns /\ stuck # t

\* The process is gone, or hangs.
Finished == (~ProcessRuns \/ ~LogFree) /\ UNCHANGED vars

Next ==
  \/ Runs("main") /\ (MainStep \/ MainInput)
  \/ Runs("accept") /\ (AcceptStep \/ AcceptInput)
  \/ Runs("api") /\ (ApiStep \/ ApiInput)
  \/ ProcessRuns /\ (Peers \/ SignalHandler)
  \/ ProcessRuns /\ \E t \in Thread : SignalInLog(t) \/ BlockedInLog(t)
  \/ Finished

Spec == Init /\ [][Next]_vars

\* Threads are scheduled, a thread that waits for the mutex is not starved,
\* and the library does not let a blocking send wait for ever.
FairSpec ==
  /\ Spec
  /\ SF_vars(Runs("main") /\ MainStep)
  /\ SF_vars(Runs("accept") /\ AcceptStep)
  /\ SF_vars(Runs("api") /\ ApiStep)
  /\ \A k \in Socks : WF_vars(ProcessRuns /\ StallEnds(k))

\* The feeder keeps sending datagrams.
Traffic == WF_vars(Runs("main") /\ Receive)

TrafficSpec == FairSpec /\ Traffic

-----------------------------------------------------------------------------
(* Properties *)

\* srt_client_count is the number of active slots, although a slot is looked
\* at in one critical section and removed in another, by three threads.
CountIsHonest == clientCount = Cardinality(Active)

\* The client limit holds although it is checked without the lock, against a
\* count the other threads change.
NeverOverLimit == Cardinality(Active) <= MaxClients

\* No socket leaks and none is used after srt_close: a connection that was
\* accepted and not closed is in exactly one slot or in the accept thread's
\* hands, and nothing else is in the table.
SocketsHaveOneOwner ==
  /\ \A s, t \in Active : slot[s] = slot[t] => s = t
  /\ \A k \in Socks :
       conn[k] \in {"up", "stalled", "lost"}
         <=> (acceptSock = k \/ \E s \in Active : slot[s] = k)

\* The accept thread's gap between looking and removing is harmless: it only
\* ever drops connections that are lost (it is the only thread that adds).
CheckDropsOnlyLost ==
  [][acceptPc' # acceptPc /\ acceptPc \in {"drop", "checkDrop"}
       => \A s \in Active : slot'[s] # slot[s] => ~Alive(slot[s])]_vars

\* The gaps of the other two threads are not: a removal should hit the client
\* it is for, the one whose send failed ("Connection lost", main.c:530) or the
\* one whose address the answer "Client kicked" gives (main.c:852).
RemovalsHitTheirTarget ==
  [][\A s \in Active : slot'[s] # slot[s] =>
       /\ (mainPc = "drop" /\ mainPc' = "relock") => slot[s] = mainSaw
       /\ (apiPc = "kick" /\ apiPc' # "kick") => slot[s] = apiSaw]_vars

\* A lost client's slot is freed without any traffic to notice it by.
LostClientsLeave ==
  []~signalled => \A k \in Socks : conn[k] = "lost" ~> conn[k] = "closed"

\* A peer in the backlog is put into the table or turned away.
PeersAreAnswered ==
  []~signalled =>
    \A k \in Socks : conn[k] = "pending" ~> (conn[k] = "closed" \/ \E s \in Active : slot[s] = k)

\* A stop signal that finds the loops running ends the process with every
\* connection closed, as long as datagrams keep coming - unless it lands on a
\* thread that is in the middle of a log call (main.c:118), and nothing else
\* keeps it from doing so: not a send that blocks under the lock, not the gaps
\* of the three loops, not a kick that is being served.
StopCompletes ==
  Traffic => ((signalled /\ (~running \/ ~LogFree) /\ mainPc \notin MainBoot)
                ~> (~LogFree \/ (mainPc = "done" /\ \A k \in Socks : conn[k] \in {"idle", "closed"})))

\* "Received signal %d, shutting down..." (main.c:118): every stop signal does.
StopIsHonoured == signalled ~> mainPc \in {"done", "crashed"}

=============================================================================
