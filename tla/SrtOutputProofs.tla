-------------------------- MODULE SrtOutputProofs --------------------------
(***************************************************************************)
(* Theorems about SrtOutput for every set of connections, number of slots, *)
(* client limit and set of faults.                                         *)
(***************************************************************************)
EXTENDS SrtOutput, FiniteSetTheorems, TLAPS

-----------------------------------------------------------------------------
(* The number of active slots *)

\* The active slots are finitely many, and adding or removing one changes their number by one.
LEMMA SlotsAreFinite ==
  /\ IsFiniteSet(Active) /\ Cardinality(Active) \in 0 .. NSlots
  /\ \A s : /\ Cardinality(Active \cup {s}) = IF s \in Active THEN Cardinality(Active)
                                                            ELSE Cardinality(Active) + 1
            /\ Cardinality(Active \ {s}) = IF s \in Active THEN Cardinality(Active) - 1
                                                          ELSE Cardinality(Active)
<1>1. /\ IsFiniteSet(Slot) /\ Cardinality(Slot) = NSlots
      /\ Active \in SUBSET Slot
  BY SrtOutputAssumption, FS_Interval DEF Slot, Active
<1>2. /\ IsFiniteSet(Active) /\ Cardinality(Active) <= NSlots /\ Cardinality(Active) \in Nat
  BY <1>1, FS_Subset, FS_CardinalityType
<1> QED
  BY <1>2, FS_AddElement, FS_RemoveElement, SrtOutputAssumption

\* The active slots stay within the table in the next state as well.
LEMMA SlotsStayFinite == IsFiniteSet(Active') /\ Cardinality(Active') \in 0 .. NSlots
<1>1. /\ IsFiniteSet(Slot) /\ Cardinality(Slot) = NSlots
      /\ Active' \in SUBSET Slot
  BY SrtOutputAssumption, FS_Interval DEF Slot, Active
<1> QED
  BY <1>1, FS_Subset, FS_CardinalityType, SrtOutputAssumption

\* remove_srt_client empties at most the slot it is given, and counts that.
LEMMA Removal ==
  ASSUME TypeOK, CountIsHonest, NEW s \in Slot, RemoveClient(s)
  PROVE  /\ slot' \in [Slot -> Socks \cup {NoSock}]
         /\ clientCount' \in 0 .. NSlots
         /\ conn' \in [Socks -> {"idle", "pending", "up", "stalled", "lost", "closed"}]
         /\ CountIsHonest' /\ clientCount' <= clientCount
         /\ slot' = [slot EXCEPT ![s] = NoSock] /\ Active' = Active \ {s}
         /\ conn' = IF s \in Active THEN [conn EXCEPT ![slot[s]] = "closed"] ELSE conn
<1>1. CASE slot[s] = NoSock
  <2>1. slot' = slot /\ clientCount' = clientCount /\ conn' = conn /\ s \notin Active
    BY <1>1 DEF RemoveClient, table, Active
  <2>2. slot' = [slot EXCEPT ![s] = NoSock] /\ Active' = Active \ {s}
    BY <1>1, <2>1 DEF Active, TypeOK
  <2>3. CountIsHonest'
    BY <2>1 DEF CountIsHonest, Active
  <2>4. clientCount' \in 0 .. NSlots /\ clientCount' <= clientCount
    BY <2>1, SrtOutputAssumption DEF TypeOK
  <2> QED
    BY <2>1, <2>2, <2>3, <2>4 DEF TypeOK
<1>2. CASE slot[s] # NoSock
  <2>1. /\ slot' = [slot EXCEPT ![s] = NoSock] /\ clientCount' = clientCount - 1
        /\ conn' = [conn EXCEPT ![slot[s]] = "closed"] /\ s \in Active
    BY <1>2 DEF RemoveClient, Active
  <2>2. Active' = Active \ {s}
    BY <2>1 DEF Active, TypeOK
  <2>3. CountIsHonest'
    BY <2>1, <2>2, SlotsAreFinite DEF CountIsHonest
  <2>4. clientCount' \in 0 .. NSlots /\ clientCount' <= clientCount
    BY <2>1, <2>3, SlotsStayFinite, SrtOutputAssumption DEF CountIsHonest, TypeOK
  <2> QED
    BY <2>1, <2>2, <2>3, <2>4 DEF TypeOK
<1> QED
  BY <1>1, <1>2

\* add_srt_client fills a free slot.
LEMMA Addition ==
  ASSUME TypeOK, CountIsHonest, NEW s \in Slot \ Active, acceptSock \in Socks,
         slot' = [slot EXCEPT ![s] = acceptSock], clientCount' = clientCount + 1
  PROVE  /\ slot' \in [Slot -> Socks \cup {NoSock}]
         /\ clientCount' \in 0 .. NSlots
         /\ CountIsHonest' /\ Active' = Active \cup {s}
<1>1. Active' = Active \cup {s}
  BY SrtOutputAssumption DEF Active, TypeOK
<1>2. CountIsHonest'
  BY <1>1, SlotsAreFinite DEF CountIsHonest
<1> QED
  BY <1>1, <1>2, SlotsStayFinite DEF CountIsHonest, TypeOK

-----------------------------------------------------------------------------
(* Types, and the count: the first inductive invariant *)

\* A thread that is about to remove a client has a slot of the table in mind.
SlotsInMind ==
  /\ mainPc \in {"drop", "relock"} => mainSlot \in Slot
  /\ acceptPc \in {"drop", "checkDrop", "checkRelock"} => acceptSlot \in Slot
  /\ apiPc = "kick" => apiSlot \in Slot
  /\ acceptPc \in {"admit", "add"} => acceptSock \in Socks

TypeInv == TypeOK /\ CountIsHonest /\ SlotsInMind

\* The count stays honest when neither it nor the table changes.
LEMMA CountKept ==
  ASSUME CountIsHonest, slot' = slot, clientCount' = clientCount
  PROVE  CountIsHonest'
BY DEF CountIsHonest, Active

\* The steps of each thread that leave the table alone.
QuietMain ==
  \/ StartAccept \/ StartApi \/ StartRunning \/ SendSkip \/ SendBegin \/ SendNext \/ SendError
  \/ SendRelock \/ SendEnd \/ Turn \/ ReportStats \/ StopApi \/ JoinApi \/ JoinNoThread
  \/ JoinAccept \/ Exit

QuietAccept ==
  \/ AcceptLoop \/ EpollTimeout \/ RejectPeer \/ AdmitPeer \/ TableFull \/ Added \/ CheckBegin
  \/ CheckNext \/ CheckFindsLost \/ CheckRelock \/ CheckEnd
  \/ \E k \in Socks : AcceptPeer(k)
  \/ \E s \in Slot : ClientEvent(s)

QuietOther ==
  \/ ApiStops \/ SignalHandler \/ Receive \/ ReceiveFails \/ EpollFails
  \/ \E s \in Slot : ApiKick(s)
  \/ \E k \in Socks : PeerConnects(k) \/ PeerIsLost(k) \/ PeerStalls(k) \/ StallEnds(k)
  \/ \E t \in Thread : SignalInLog(t) \/ BlockedInLog(t)

\* The steps that change the table.
TableChange ==
  \/ SendDrop \/ EventDrop \/ CheckDrop \/ ApiRemove \/ Cleanup
  \/ \E s \in Slot : AddClient(s)

\* The main thread's steps that leave the table alone keep the types.
LEMMA QuietMainTypes ==
  TypeInv /\ QuietMain => TypeOK' /\ SlotsInMind' /\ slot' = slot /\ clientCount' = clientCount
<1> SUFFICES ASSUME TypeInv, QuietMain
             PROVE  TypeOK' /\ SlotsInMind' /\ slot' = slot /\ clientCount' = clientCount
  OBVIOUS
<1> USE SrtOutputAssumption DEF TypeInv, TypeOK, SlotsInMind, Slot, MainBoot,
        table, flags, signal, Thread, main, accept, api
<1>1. CASE StartAccept
  BY <1>1 DEF StartAccept
<1>2. CASE StartApi
  <2>1. /\ running' \in BOOLEAN /\ acceptRunning' \in BOOLEAN /\ apiRunning' \in BOOLEAN
        /\ signalled' \in BOOLEAN /\ stuck' \in {"none"} \cup Thread
    BY <1>2, Zenon DEF StartApi
  <2> QED
    BY <1>2, <2>1 DEF StartApi
<1>3. CASE StartRunning
  BY <1>3 DEF StartRunning
<1>4. CASE SendSkip
  BY <1>4 DEF SendSkip
<1>5. CASE SendBegin
  BY <1>5 DEF SendBegin
<1>6. CASE SendNext
  BY <1>6 DEF SendNext
<1>7. CASE SendError
  BY <1>7 DEF SendError
<1>8. CASE SendRelock
  BY <1>8 DEF SendRelock
<1>9. CASE SendEnd
  BY <1>9 DEF SendEnd
<1>10. CASE ReportStats
  BY <1>10 DEF ReportStats, LoopTest
<1>11. CASE StopApi
  <2>1. /\ running' \in BOOLEAN /\ acceptRunning' \in BOOLEAN /\ apiRunning' \in BOOLEAN
        /\ signalled' \in BOOLEAN /\ stuck' \in {"none"} \cup Thread
    BY <1>11, Zenon DEF StopApi
  <2> QED
    BY <1>11, <2>1 DEF StopApi
<1>12. CASE JoinApi
  <2>1. /\ running' \in BOOLEAN /\ acceptRunning' \in BOOLEAN /\ apiRunning' \in BOOLEAN
        /\ signalled' \in BOOLEAN /\ stuck' \in {"none"} \cup Thread
    BY <1>12, Zenon DEF JoinApi
  <2> QED
    BY <1>12, <2>1 DEF JoinApi
<1>13. CASE JoinNoThread
  BY <1>13 DEF JoinNoThread
<1>14. CASE JoinAccept
  BY <1>14 DEF JoinAccept
<1>15. CASE Turn
  BY <1>15 DEF Turn, LoopTest
<1>16. CASE Exit
  BY <1>16 DEF Exit
<1> QED
  BY <1>1, <1>2, <1>3, <1>4, <1>5, <1>6, <1>7, <1>8, <1>9, <1>10, <1>11, <1>12, <1>13,
     <1>14, <1>15, <1>16 DEF QuietMain

\* The accept thread's steps that leave the table alone keep the types.
LEMMA QuietAcceptTypes ==
  TypeInv /\ QuietAccept => TypeOK' /\ SlotsInMind' /\ slot' = slot /\ clientCount' = clientCount
<1> SUFFICES ASSUME TypeInv, QuietAccept
             PROVE  TypeOK' /\ SlotsInMind' /\ slot' = slot /\ clientCount' = clientCount
  OBVIOUS
<1> USE SrtOutputAssumption DEF TypeInv, TypeOK, SlotsInMind, Slot, MainBoot,
        table, flags, signal, Thread, main, accept, api
<1>1. CASE AcceptLoop
  BY <1>1 DEF AcceptLoop
<1>2. CASE EpollTimeout
  BY <1>2 DEF EpollTimeout
<1>3. CASE RejectPeer
  BY <1>3 DEF RejectPeer
<1>4. CASE AdmitPeer
  BY <1>4 DEF AdmitPeer
<1>5. CASE CheckBegin
  BY <1>5 DEF CheckBegin
<1>6. CASE CheckNext
  BY <1>6 DEF CheckNext
<1>7. CASE CheckFindsLost
  BY <1>7 DEF CheckFindsLost
<1>8. CASE CheckRelock
  BY <1>8 DEF CheckRelock
<1>9. CASE CheckEnd
  BY <1>9 DEF CheckEnd
<1>10. ASSUME NEW k \in Socks, AcceptPeer(k)
      PROVE  TypeOK' /\ SlotsInMind' /\ slot' = slot /\ clientCount' = clientCount
  BY <1>10 DEF AcceptPeer
<1>11. ASSUME NEW s \in Slot, ClientEvent(s)
      PROVE  TypeOK' /\ SlotsInMind' /\ slot' = slot /\ clientCount' = clientCount
  BY <1>11 DEF ClientEvent, Active
<1>12. CASE TableFull
  BY <1>12 DEF TableFull
<1>13. CASE Added
  BY <1>13 DEF Added
<1> QED
  BY <1>1, <1>2, <1>3, <1>4, <1>5, <1>6, <1>7, <1>8, <1>9, <1>10, <1>11, <1>12, <1>13
     DEF QuietAccept

\* So do the API thread's other steps, the peers and the signals.
LEMMA QuietOtherTypes ==
  TypeInv /\ QuietOther => TypeOK' /\ SlotsInMind' /\ slot' = slot /\ clientCount' = clientCount
<1> SUFFICES ASSUME TypeInv, QuietOther
             PROVE  TypeOK' /\ SlotsInMind' /\ slot' = slot /\ clientCount' = clientCount
  OBVIOUS
<1> USE SrtOutputAssumption DEF TypeInv, TypeOK, SlotsInMind, Slot, MainBoot,
        table, flags, signal, Thread, main, accept, api
<1>1. CASE ApiStops
  BY <1>1 DEF ApiStops
<1>2. CASE SignalHandler
  <2>1. /\ running' \in BOOLEAN /\ acceptRunning' \in BOOLEAN /\ apiRunning' \in BOOLEAN
        /\ signalled' \in BOOLEAN /\ stuck' \in {"none"} \cup Thread
    BY <1>2, Zenon DEF SignalHandler
  <2> QED
    BY <1>2, <2>1 DEF SignalHandler
<1>3. CASE Receive
  BY <1>3 DEF Receive
<1>4. CASE ReceiveFails
  BY <1>4 DEF ReceiveFails
<1>5. CASE EpollFails
  BY <1>5 DEF EpollFails
<1>6. ASSUME NEW k \in Socks, PeerConnects(k)
      PROVE  TypeOK' /\ SlotsInMind' /\ slot' = slot /\ clientCount' = clientCount
  BY <1>6 DEF PeerConnects
<1>7. ASSUME NEW k \in Socks, PeerIsLost(k)
      PROVE  TypeOK' /\ SlotsInMind' /\ slot' = slot /\ clientCount' = clientCount
  BY <1>7 DEF PeerIsLost
<1>8. ASSUME NEW k \in Socks, PeerStalls(k)
      PROVE  TypeOK' /\ SlotsInMind' /\ slot' = slot /\ clientCount' = clientCount
  BY <1>8 DEF PeerStalls
<1>9. ASSUME NEW k \in Socks, StallEnds(k)
      PROVE  TypeOK' /\ SlotsInMind' /\ slot' = slot /\ clientCount' = clientCount
  BY <1>9 DEF StallEnds
<1>10. ASSUME NEW s \in Slot, ApiKick(s)
      PROVE  TypeOK' /\ SlotsInMind' /\ slot' = slot /\ clientCount' = clientCount
  BY <1>10 DEF ApiKick, Active
<1>11. ASSUME NEW t \in Thread, SignalInLog(t) \/ BlockedInLog(t)
      PROVE  TypeOK' /\ SlotsInMind' /\ slot' = slot /\ clientCount' = clientCount
  <2>1. /\ running' \in BOOLEAN /\ acceptRunning' \in BOOLEAN /\ apiRunning' \in BOOLEAN
        /\ signalled' \in BOOLEAN /\ stuck' \in {"none"} \cup Thread
    BY <1>11, Zenon DEF SignalInLog, BlockedInLog
  <2>2. lock' \in {"free"} \cup Thread
    BY <1>11 DEF SignalInLog, BlockedInLog
  <2> QED
    BY <1>11, <2>1, <2>2 DEF SignalInLog, BlockedInLog
<1> QED
  BY <1>1, <1>2, <1>3, <1>4, <1>5, <1>6, <1>7, <1>8, <1>9, <1>10, <1>11 DEF QuietOther

\* The steps that remove, add or clear clients.
LEMMA TableSteps ==
  TypeInv /\ TableChange => TypeInv'
<1> SUFFICES ASSUME TypeInv, TableChange
             PROVE  TypeInv'
  OBVIOUS
<1>0. TypeOK /\ CountIsHonest
  BY DEF TypeInv
<1>1. CASE SendDrop
  <2>1. mainSlot \in Slot /\ RemoveClient(mainSlot)
    BY <1>1 DEF SendDrop, TypeInv, SlotsInMind
  <2> QED
    BY <1>0, <1>1, <2>1, Removal DEF SendDrop, TypeInv, TypeOK, SlotsInMind, flags, signal, Thread, accept, api
<1>2. CASE EventDrop
  <2>1. acceptSlot \in Slot /\ RemoveClient(acceptSlot)
    BY <1>2 DEF EventDrop, TypeInv, SlotsInMind
  <2> QED
    BY <1>0, <1>2, <2>1, Removal, SrtOutputAssumption
       DEF EventDrop, TypeInv, TypeOK, SlotsInMind, flags, signal, Thread, main, api
<1>3. CASE CheckDrop
  <2>1. acceptSlot \in Slot /\ RemoveClient(acceptSlot)
    BY <1>3 DEF CheckDrop, TypeInv, SlotsInMind
  <2> QED
    BY <1>0, <1>3, <2>1, Removal DEF CheckDrop, TypeInv, TypeOK, SlotsInMind, flags, signal, Thread, main, api
<1>4. CASE ApiRemove
  <2>1. apiSlot \in Slot /\ RemoveClient(apiSlot)
    BY <1>4 DEF ApiRemove, TypeInv, SlotsInMind
  <2> QED
    BY <1>0, <1>4, <2>1, Removal, SrtOutputAssumption
       DEF ApiRemove, NextRequest, TypeInv, TypeOK, SlotsInMind, flags, signal, Thread, main, accept
<1>5. ASSUME NEW s \in Slot, AddClient(s)
      PROVE  TypeInv'
  <2>1. acceptSock \in Socks /\ s \in Slot \ Active
    BY <1>5 DEF AddClient, TypeInv, SlotsInMind
  <2>2. slot' = [slot EXCEPT ![s] = acceptSock] /\ clientCount' = clientCount + 1
    BY <1>5 DEF AddClient
  <2>3. /\ slot' \in [Slot -> Socks \cup {NoSock}] /\ clientCount' \in 0 .. NSlots
        /\ CountIsHonest'
    BY <1>0, <2>1, <2>2, Addition
  <2> QED
    BY <1>0, <1>5, <2>3 DEF AddClient, TypeInv, TypeOK, SlotsInMind, flags, signal, Thread, signal, Thread, main, api
<1>6. CASE Cleanup
  <2>1. slot' = [s \in Slot |-> NoSock] /\ clientCount' = 0
    BY <1>6 DEF Cleanup
  <2>2. Active' = {}
    BY <2>1 DEF Active
  <2>3. CountIsHonest'
    BY <2>1, <2>2, FS_EmptySet DEF CountIsHonest
  <2>4. conn' \in [Socks -> {"idle", "pending", "up", "stalled", "lost", "closed"}]
    BY <1>0, <1>6 DEF Cleanup, TypeOK
  <2> QED
    BY <1>0, <1>6, <2>1, <2>3, <2>4, SrtOutputAssumption
       DEF Cleanup, TypeInv, TypeOK, SlotsInMind, flags, signal, Thread, accept, api
<1> QED
  BY <1>1, <1>2, <1>3, <1>4, <1>5, <1>6 DEF TableChange

\* Every step is a quiet one, one that changes the table, or none.
LEMMA StepCases ==
  [Next]_vars => QuietMain \/ QuietAccept \/ QuietOther \/ TableChange \/ UNCHANGED vars
BY DEF Next, MainStep, MainInput, AcceptStep, AcceptInput, ApiStep, ApiInput, Peers, Finished,
   QuietMain, QuietAccept, QuietOther, TableChange

\* The program starts with an empty table and a count of zero.
LEMMA TypeInvInit == Init => TypeInv
<1> SUFFICES ASSUME Init
             PROVE  TypeInv
  OBVIOUS
<1>0. /\ running \in BOOLEAN /\ acceptRunning \in BOOLEAN /\ apiRunning \in BOOLEAN
      /\ signalled \in BOOLEAN /\ stuck \in {"none"} \cup Thread
  BY Zenon DEF Init
<1>1. TypeOK /\ SlotsInMind
  BY <1>0, SrtOutputAssumption DEF Init, TypeOK, SlotsInMind, MainBoot, Slot
<1>2. Active = {}
  BY DEF Init, Active
<1> QED
  BY <1>1, <1>2, FS_EmptySet DEF TypeInv, CountIsHonest, Init

\* Every step keeps the types, the count and the slots each thread has in mind.
LEMMA TypeInvStep == TypeInv /\ [Next]_vars => TypeInv'
<1> SUFFICES ASSUME TypeInv, [Next]_vars
             PROVE  TypeInv'
  OBVIOUS
<1>1. CASE QuietMain \/ QuietAccept \/ QuietOther
  BY <1>1, QuietMainTypes, QuietAcceptTypes, QuietOtherTypes, CountKept DEF TypeInv
<1>2. CASE TableChange
  BY <1>2, TableSteps
<1>3. CASE UNCHANGED vars
  <2>1. slot' = slot /\ clientCount' = clientCount /\ CountIsHonest
    BY <1>3 DEF vars, table, TypeInv
  <2> QED
    BY <1>3, <2>1, CountKept
       DEF TypeInv, TypeOK, SlotsInMind, vars, table, flags, signal, Thread, main, accept, api
<1> QED
  BY <1>1, <1>2, <1>3, StepCases

\* The first invariant of the table, on which the others rest.
LEMMA TypeInvAlways == Spec => []TypeInv
BY TypeInvInit, TypeInvStep, PTL DEF Spec

\* Every variable of the three threads keeps its type.
THEOREM SrtTypeCorrect == Spec => []TypeOK
<1>1. TypeInv => TypeOK
  BY DEF TypeInv
<1> QED
  BY <1>1, TypeInvAlways, PTL

\* srt_client_count is the number of active slots, although each of the three threads looks
\* at a slot in one critical section and removes it in another.
THEOREM CountIsHonestHolds == Spec => []CountIsHonest
<1>1. TypeInv => CountIsHonest
  BY DEF TypeInv
<1> QED
  BY <1>1, TypeInvAlways, PTL

-----------------------------------------------------------------------------
(* The client limit: the second inductive invariant *)

\* Between the test of the limit and the addition, no other thread adds a client.
Room ==
  /\ clientCount <= MaxClients
  /\ acceptPc = "add" => clientCount < MaxClients

\* AddClient runs only below the limit, so every step keeps the count within it.
LEMMA RoomStep == TypeInv /\ Room /\ [Next]_vars => Room'
<1> SUFFICES ASSUME TypeInv, Room, [Next]_vars
             PROVE  Room'
  OBVIOUS
<1>0. TypeOK /\ CountIsHonest /\ clientCount \in Nat /\ clientCount' \in Nat /\ MaxClients \in Nat
  BY TypeInvStep, SrtOutputAssumption DEF TypeInv, TypeOK
<1>1. CASE QuietMain
  <2>1. clientCount' = clientCount
    BY <1>1, QuietMainTypes
  <2>2. acceptPc' \in {acceptPc, "loop"}
    BY <1>1 DEF QuietMain, StartAccept, StartApi, StartRunning, SendSkip, SendBegin, SendNext,
         SendError, SendRelock, SendEnd, Turn, LoopTest, ReportStats, StopApi, JoinApi, JoinNoThread, JoinAccept, Exit,
         accept
  <2> QED
    BY <2>1, <2>2 DEF Room
<1>2. CASE QuietAccept
  <2>1. clientCount' = clientCount
    BY <1>2, QuietAcceptTypes
  <2>2. acceptPc' # "add" \/ clientCount < MaxClients
    BY <1>2 DEF QuietAccept, AcceptLoop, EpollTimeout, RejectPeer, AdmitPeer, Admits, TableFull, Added, CheckBegin,
         CheckNext, CheckFindsLost, CheckRelock, CheckEnd, AcceptPeer, ClientEvent
  <2> QED
    BY <2>1, <2>2 DEF Room
<1>3. CASE QuietOther
  <2>1. clientCount' = clientCount
    BY <1>3, QuietOtherTypes
  <2>2. acceptPc' \in {acceptPc, "stopped"}
    BY <1>3 DEF QuietOther, ApiStops, SignalHandler, Receive, ReceiveFails, EpollFails,
         PeerConnects, PeerIsLost, PeerStalls, StallEnds, ApiKick, SignalInLog, BlockedInLog, accept
  <2> QED
    BY <2>1, <2>2 DEF Room
<1>4. CASE SendDrop \/ EventDrop \/ CheckDrop \/ ApiRemove
  <2>1. PICK s \in Slot : RemoveClient(s)
    BY <1>4 DEF SendDrop, EventDrop, CheckDrop, ApiRemove, TypeInv, SlotsInMind
  <2>2. clientCount' <= clientCount
    BY <1>0, <2>1, Removal
  <2>3. acceptPc' = acceptPc \/ acceptPc' # "add"
    BY <1>4 DEF SendDrop, EventDrop, CheckDrop, ApiRemove, accept
  <2> QED
    BY <1>0, <2>2, <2>3 DEF Room
<1>5. ASSUME NEW s \in Slot, AddClient(s)
      PROVE  Room'
  BY <1>0, <1>5 DEF AddClient, Room
<1>6. CASE Cleanup
  <2>1. clientCount' = 0 /\ acceptPc' = acceptPc
    BY <1>6 DEF Cleanup, accept
  <2> QED
    BY <1>0, <2>1 DEF Room
<1>7. CASE UNCHANGED vars
  BY <1>7 DEF Room, vars, table, accept
<1> QED
  BY <1>1, <1>2, <1>3, <1>4, <1>5, <1>6, <1>7, StepCases DEF TableChange

\* The client limit holds although it is tested outside the lock, and although three other
\* places change the count between the test and the addition.
THEOREM NeverOverLimitHolds == Spec => []NeverOverLimit
<1>1. Init => Room
  BY SrtOutputAssumption DEF Init, Room
<1>2. TypeInv /\ Room => NeverOverLimit
  BY DEF TypeInv, CountIsHonest, Room, NeverOverLimit
<1> QED
  BY <1>1, <1>2, RoomStep, TypeInvAlways, PTL DEF Spec

-----------------------------------------------------------------------------
(* Who owns a socket: the third inductive invariant *)

OpenStates == {"up", "stalled", "lost"}

\* The peer in the accept thread's hands is in no slot, and it has one only
\* between the accept and the addition.
InHand ==
  /\ acceptSock # NoSock => acceptPc \in {"admit", "add"}
  /\ \A s \in Active : slot[s] # acceptSock
  /\ mainPc = "boot" => acceptPc = "none"

Owners == SocketsHaveOneOwner /\ InHand

\* Steps that open and close nothing, and leave the table and the accepted peer alone.
LEMMA OwnersKept ==
  ASSUME SocketsHaveOneOwner, slot' = slot, acceptSock' = acceptSock,
         \A k \in Socks : conn'[k] \in OpenStates <=> conn[k] \in OpenStates
  PROVE  SocketsHaveOneOwner' /\ ((\A s \in Active : slot[s] # acceptSock) =>
                                    (\A s \in Active : slot[s] # acceptSock)')
BY DEF SocketsHaveOneOwner, OpenStates, Active

\* Emptying a slot and closing its socket leaves every other owner alone.
LEMMA OwnersAfterRemoval ==
  ASSUME TypeInv, Owners, NEW s \in Slot, RemoveClient(s), acceptSock' = acceptSock
  PROVE  SocketsHaveOneOwner' /\ (\A t \in Active : slot[t] # acceptSock)'
<1>0. TypeOK /\ CountIsHonest
  BY DEF TypeInv
<1>1. /\ slot' = [slot EXCEPT ![s] = NoSock] /\ Active' = Active \ {s}
      /\ conn' = IF s \in Active THEN [conn EXCEPT ![slot[s]] = "closed"] ELSE conn
  BY <1>0, Removal
<1>2. \A t \in Active' : t \in Active /\ t \in Slot /\ t # s /\ slot'[t] = slot[t]
  BY <1>0, <1>1 DEF Active, TypeOK
<1>3. CASE s \in Active
  <2>1. slot[s] \in Socks /\ \A t \in Active' : slot[t] # slot[s]
    BY <1>0, <1>2, <1>3 DEF Active, TypeOK, Owners, SocketsHaveOneOwner
  <2>2. \A k \in Socks : conn'[k] = IF k = slot[s] THEN "closed" ELSE conn[k]
    BY <1>0, <1>1, <1>3 DEF TypeOK
  <2>3. slot[s] # acceptSock
    BY <1>3 DEF Owners, InHand
  <2>4. \A k \in Socks : k # slot[s] =>
          ((\E t \in Active : slot[t] = k) <=> (\E t \in Active' : slot'[t] = k))
    BY <1>1, <1>2
  <2>5. \A k \in Socks :
          conn'[k] \in {"up", "stalled", "lost"}
            <=> (acceptSock' = k \/ \E t \in Active' : slot'[t] = k)
    BY <1>2, <2>1, <2>2, <2>3, <2>4 DEF Owners, SocketsHaveOneOwner
  <2> QED
    BY <1>2, <2>5 DEF Owners, SocketsHaveOneOwner, InHand
<1>4. CASE s \notin Active
  <2>1. Active' = Active /\ conn' = conn
    BY <1>1, <1>4
  <2> QED
    BY <1>2, <2>1 DEF Owners, SocketsHaveOneOwner, InHand
<1> QED
  BY <1>3, <1>4

\* Steps of the main thread that touch neither the table nor a connection.
LEMMA QuietMainOwners == TypeInv /\ Owners /\ QuietMain => Owners'
<1> SUFFICES ASSUME TypeInv, Owners, QuietMain
             PROVE  Owners'
  OBVIOUS
<1>1. slot' = slot
  BY QuietMainTypes
<1>2. conn' = conn /\ acceptSock' = acceptSock /\ mainPc' # "boot"
  BY DEF QuietMain, StartAccept, StartApi, StartRunning, SendSkip, SendBegin, SendNext,
     SendError, SendRelock, SendEnd, Turn, LoopTest, ReportStats, StopApi, JoinApi, JoinNoThread, JoinAccept, Exit,
     accept
<1>3. acceptPc' = acceptPc \/ acceptSock = NoSock
  BY DEF QuietMain, StartAccept, StartApi, StartRunning, SendSkip, SendBegin, SendNext,
     SendError, SendRelock, SendEnd, Turn, LoopTest, ReportStats, StopApi, JoinApi, JoinNoThread, JoinAccept, Exit,
     accept, Owners, InHand
<1> QED
  BY <1>1, <1>2, <1>3, OwnersKept DEF Owners, InHand

\* The accept thread takes a peer out of the backlog and may turn it away.
LEMMA QuietAcceptOwners == TypeInv /\ Owners /\ QuietAccept => Owners'
<1> SUFFICES ASSUME TypeInv, Owners, QuietAccept
             PROVE  Owners'
  OBVIOUS
<1>0. slot' = slot /\ TypeOK /\ mainPc' = mainPc /\ mainPc # "boot"
  BY QuietAcceptTypes
     DEF TypeInv, QuietAccept, AcceptLoop, EpollTimeout, RejectPeer, AdmitPeer, TableFull, Added, CheckBegin,
     CheckNext, CheckFindsLost, CheckRelock, CheckEnd, AcceptPeer, ClientEvent, main,
     Owners, InHand
<1>1. CASE RejectPeer \/ TableFull
  <2>1. /\ acceptSock \in Socks /\ acceptSock' = NoSock /\ NoSock \notin Socks
        /\ conn' = [conn EXCEPT ![acceptSock] = "closed"]
    BY <1>1, SrtOutputAssumption DEF RejectPeer, TableFull, TypeInv, SlotsInMind
  <2>2. \A k \in Socks : conn'[k] = IF k = acceptSock THEN "closed" ELSE conn[k]
    BY <1>0, <2>1 DEF TypeOK
  <2>3. Active' = Active /\ \A s \in Active : slot[s] # NoSock /\ slot[s] # acceptSock
    BY <1>0 DEF Active, Owners, InHand
  <2>4. SocketsHaveOneOwner'
    BY <1>0, <2>1, <2>2, <2>3 DEF Owners, SocketsHaveOneOwner
  <2> QED
    BY <1>0, <2>1, <2>3, <2>4 DEF Owners, InHand
<1>2. ASSUME NEW k \in Socks, AcceptPeer(k)
      PROVE  Owners'
  <2>1. /\ acceptSock = NoSock /\ acceptSock' = k /\ NoSock \notin Socks /\ acceptPc' = "admit"
        /\ conn[k] = "pending" /\ conn' = [conn EXCEPT ![k] = "up"]
    BY <1>2, SrtOutputAssumption DEF AcceptPeer, Owners, InHand
  <2>2. \A j \in Socks : conn'[j] = IF j = k THEN "up" ELSE conn[j]
    BY <1>0, <2>1 DEF TypeOK
  <2>3. Active' = Active /\ \A s \in Active : slot[s] # k
    BY <1>0, <2>1 DEF Active, Owners, SocketsHaveOneOwner
  <2>4. SocketsHaveOneOwner'
    BY <1>0, <2>1, <2>2, <2>3 DEF Owners, SocketsHaveOneOwner
  <2> QED
    BY <1>0, <2>1, <2>3, <2>4 DEF Owners, InHand
<1>3. CASE AcceptLoop \/ EpollTimeout \/ AdmitPeer \/ Added \/ CheckBegin \/ CheckNext \/ CheckFindsLost
           \/ CheckRelock \/ CheckEnd \/ \E s \in Slot : ClientEvent(s)
  <2>1. conn' = conn /\ acceptSock' = acceptSock
    BY <1>3 DEF AcceptLoop, EpollTimeout, AdmitPeer, Added, CheckBegin, CheckNext, CheckFindsLost,
         CheckRelock, CheckEnd, ClientEvent
  <2>2. acceptSock # NoSock => acceptPc' \in {"admit", "add"}
    BY <1>3 DEF AcceptLoop, EpollTimeout, AdmitPeer, Added, CheckBegin, CheckNext, CheckFindsLost,
         CheckRelock, CheckEnd, ClientEvent, Owners, InHand
  <2> QED
    BY <1>0, <2>1, <2>2, OwnersKept DEF Owners, InHand
<1> QED
  BY <1>1, <1>2, <1>3 DEF QuietAccept

\* Peers come, stall and get lost; requests are read; a signal arrives.
LEMMA QuietOtherOwners == TypeInv /\ Owners /\ QuietOther => Owners'
<1> SUFFICES ASSUME TypeInv, Owners, QuietOther
             PROVE  Owners'
  OBVIOUS
<1>0. slot' = slot /\ TypeOK
  BY QuietOtherTypes DEF TypeInv
<1>1. /\ acceptSock' = acceptSock /\ mainPc' \in {mainPc, "send", "stats", "stopApi"}
      /\ acceptPc' = acceptPc \/ (acceptPc = "wait" /\ acceptPc' = "stopped")
  BY DEF QuietOther, ApiStops, SignalHandler, Receive, ReceiveFails, EpollFails,
     PeerConnects, PeerIsLost, PeerStalls, StallEnds, ApiKick, SignalInLog, BlockedInLog, main, accept
<1>2. \A k \in Socks : conn'[k] \in OpenStates <=> conn[k] \in OpenStates
  <2>1. CASE ApiStops \/ SignalHandler \/ Receive \/ ReceiveFails \/ EpollFails
             \/ (\E s \in Slot : ApiKick(s))
             \/ (\E t \in Thread : SignalInLog(t) \/ BlockedInLog(t))
    BY <2>1 DEF ApiStops, SignalHandler, Receive, ReceiveFails, EpollFails, ApiKick, SignalInLog,
       BlockedInLog
  <2>2. ASSUME NEW k \in Socks,
               PeerConnects(k) \/ PeerIsLost(k) \/ PeerStalls(k) \/ StallEnds(k)
        PROVE  \A j \in Socks : conn'[j] \in OpenStates <=> conn[j] \in OpenStates
    BY <1>0, <2>2 DEF PeerConnects, PeerIsLost, PeerStalls, StallEnds, OpenStates, TypeOK
  <2> QED
    BY <2>1, <2>2 DEF QuietOther
<1> QED
  BY <1>0, <1>1, <1>2, OwnersKept DEF Owners, InHand

\* Removal, addition, clean-up.
LEMMA TableOwners ==
  TypeInv /\ Owners /\ TableChange
    => Owners'
<1> SUFFICES ASSUME TypeInv, Owners, TableChange
             PROVE  Owners'
  OBVIOUS
<1>0. TypeOK /\ CountIsHonest /\ NoSock \notin Socks
  BY SrtOutputAssumption DEF TypeInv
<1>1. CASE SendDrop \/ EventDrop \/ CheckDrop \/ ApiRemove
  <2>1. PICK s \in Slot : RemoveClient(s)
    BY <1>1 DEF SendDrop, EventDrop, CheckDrop, ApiRemove, TypeInv, SlotsInMind
  <2>2. /\ acceptSock' = acceptSock
        /\ acceptSock # NoSock => acceptPc' \in {"admit", "add"}
        /\ mainPc' = "boot" => acceptPc' = "none"
    BY <1>1 DEF SendDrop, EventDrop, CheckDrop, ApiRemove, main, accept, Owners, InHand
  <2> QED
    BY <2>1, <2>2, OwnersAfterRemoval DEF Owners, InHand
<1>2. ASSUME NEW s \in Slot, AddClient(s)
      PROVE  Owners'
  <2>1. /\ acceptSock \in Socks /\ acceptSock' = NoSock /\ mainPc' = mainPc /\ mainPc # "boot"
        /\ slot' = [slot EXCEPT ![s] = acceptSock] /\ clientCount' = clientCount + 1
        /\ s \in Slot \ Active /\ conn' = conn
    BY <1>2 DEF AddClient, TypeInv, SlotsInMind, main, Owners, InHand
  <2>2. Active' = Active \cup {s}
    BY <1>0, <2>1, Addition
  <2>3. slot'[s] = acceptSock /\ \A t \in Active : t # s /\ slot'[t] = slot[t] /\ slot[t] # acceptSock
                                                  /\ slot[t] # NoSock
    BY <1>0, <2>1 DEF TypeOK, Active, Owners, InHand
  <2>4. SocketsHaveOneOwner'
    BY <1>0, <2>1, <2>2, <2>3 DEF Owners, SocketsHaveOneOwner
  <2> QED
    BY <1>0, <2>1, <2>2, <2>3, <2>4 DEF Owners, InHand
<1>3. CASE Cleanup
  <2>1. /\ \A k \in Socks : conn'[k] = IF conn[k] = "pending" \/ k \in {slot[s] : s \in Active}
                                         THEN "closed" ELSE conn[k]
        /\ slot' = [s \in Slot |-> NoSock] /\ acceptSock' = acceptSock /\ acceptPc' = acceptPc
        /\ mainPc' = "last"
    BY <1>3 DEF Cleanup, accept
  <2>2. Active' = {}
    BY <2>1 DEF Active
  <2>3. SocketsHaveOneOwner'
    BY <2>1, <2>2 DEF Owners, SocketsHaveOneOwner, InHand
  <2> QED
    BY <2>1, <2>2, <2>3 DEF Owners, InHand
<1> QED
  BY <1>1, <1>2, <1>3 DEF TableChange

\* Every step keeps each open socket with one owner.
LEMMA OwnersStep == TypeInv /\ Owners /\ [Next]_vars => Owners'
<1>1. CASE UNCHANGED vars
  BY <1>1 DEF vars, table, main, accept, Owners, SocketsHaveOneOwner, InHand, Active
<1> QED
  BY <1>1, QuietMainOwners, QuietAcceptOwners, QuietOtherOwners, TableOwners, StepCases

\* No socket leaks, none is used after it was closed, and no two slots share one, whichever
\* thread adds, drops, kicks or cleans up.
THEOREM SocketsHaveOneOwnerHolds == Spec => []SocketsHaveOneOwner
<1>1. Init => Owners
  BY SrtOutputAssumption DEF Init, Owners, SocketsHaveOneOwner, InHand, Active
<1>2. Owners => SocketsHaveOneOwner
  BY DEF Owners
<1> QED
  BY <1>1, <1>2, OwnersStep, TypeInvAlways, PTL DEF Spec

-----------------------------------------------------------------------------
(* Whom the accept thread drops: an action property *)

Gone(k) == conn[k] \in {"lost", "closed"}

\* The slot that the accept thread is about to empty holds nobody who is alive.
DropInv ==
  acceptPc \in {"drop", "checkDrop"} /\ acceptSlot \in Active => Gone(slot[acceptSlot])

\* A connection that is gone does not come back.
LEMMA GoneStays == TypeInv /\ [Next]_vars => \A k \in Socks : Gone(k) => Gone(k)'
<1> SUFFICES ASSUME TypeInv, [Next]_vars, NEW k \in Socks, Gone(k) PROVE conn'[k] \in {"lost", "closed"}
  BY DEF Gone
<1>0. conn[k] \in {"lost", "closed"} /\ TypeOK
  BY DEF Gone, TypeInv
<1>1. CASE QuietMain \/ UNCHANGED vars
  BY <1>0, <1>1 DEF QuietMain, StartAccept, StartApi, StartRunning, SendSkip, SendBegin, SendNext,
     SendError, SendRelock, SendEnd, Turn, LoopTest, ReportStats, StopApi, JoinApi, JoinNoThread, JoinAccept, Exit, vars
<1>2. CASE QuietAccept
  BY <1>0, <1>2 DEF QuietAccept, AcceptLoop, EpollTimeout, RejectPeer, AdmitPeer, TableFull, Added, CheckBegin,
     CheckNext, CheckFindsLost, CheckRelock, CheckEnd, AcceptPeer, ClientEvent, TypeOK
<1>3. CASE QuietOther
  BY <1>0, <1>3 DEF QuietOther, ApiStops, SignalHandler, Receive, ReceiveFails,
     EpollFails, PeerConnects, PeerIsLost, PeerStalls, StallEnds, ApiKick, SignalInLog, BlockedInLog, TypeOK
<1>4. CASE SendDrop \/ EventDrop \/ CheckDrop \/ ApiRemove
  <2>1. PICK s \in Slot : RemoveClient(s)
    BY <1>4 DEF SendDrop, EventDrop, CheckDrop, ApiRemove, TypeInv, SlotsInMind
  <2> QED
    BY <1>0, <2>1 DEF RemoveClient, TypeOK
<1>5. CASE Cleanup \/ \E s \in Slot : AddClient(s)
  BY <1>0, <1>5 DEF AddClient, Cleanup, TypeOK
<1> QED
  BY <1>1, <1>2, <1>3, <1>4, <1>5, StepCases DEF TableChange

\* Nobody but the accept thread moves it, and nobody else fills a slot.
LEMMA SlotsOnlyEmpty ==
  TypeInv /\ InHand /\ [Next]_vars /\ acceptPc \in {"drop", "checkDrop"} =>
    /\ \A s \in Slot : slot'[s] \in {slot[s], NoSock}
    /\ (acceptPc' = acceptPc /\ acceptSlot' = acceptSlot) \/ EventDrop \/ CheckDrop
<1> SUFFICES ASSUME TypeInv, InHand, [Next]_vars, acceptPc \in {"drop", "checkDrop"}
             PROVE  /\ \A s \in Slot : slot'[s] \in {slot[s], NoSock}
                    /\ (acceptPc' = acceptPc /\ acceptSlot' = acceptSlot) \/ EventDrop \/ CheckDrop
  OBVIOUS
<1>0. slot \in [Slot -> Socks \cup {NoSock}] /\ mainPc # "boot"
  BY DEF TypeInv, TypeOK, InHand
<1>1. CASE QuietMain
  <2>1. slot' = slot
    BY <1>1, QuietMainTypes
  <2> QED
    BY <1>0, <1>1, <2>1 DEF QuietMain, StartAccept, StartApi, StartRunning, SendSkip, SendBegin,
       SendNext, SendError, SendRelock, SendEnd, Turn, LoopTest, ReportStats, StopApi, JoinApi, JoinNoThread,
       JoinAccept, Exit, accept
<1>2. CASE QuietAccept
  BY <1>2 DEF QuietAccept, AcceptLoop, EpollTimeout, RejectPeer, AdmitPeer, TableFull, Added, CheckBegin,
     CheckNext, CheckFindsLost, CheckRelock, CheckEnd, AcceptPeer, ClientEvent
<1>3. CASE QuietOther \/ UNCHANGED vars
  BY <1>3 DEF QuietOther, ApiStops, SignalHandler, Receive, ReceiveFails,
     EpollFails, PeerConnects, PeerIsLost, PeerStalls, StallEnds, ApiKick, SignalInLog, BlockedInLog, table, accept, vars
<1>4. CASE SendDrop \/ EventDrop \/ CheckDrop \/ ApiRemove
  <2>1. PICK s \in Slot : RemoveClient(s)
    BY <1>4 DEF SendDrop, EventDrop, CheckDrop, ApiRemove, TypeInv, SlotsInMind
  <2>2. \A t \in Slot : slot'[t] \in {slot[t], NoSock}
    BY <1>0, <2>1 DEF RemoveClient, table
  <2> QED
    BY <1>4, <2>2 DEF SendDrop, ApiRemove, accept
<1>5. CASE \E s \in Slot : AddClient(s)
  BY <1>5 DEF AddClient
<1>6. CASE Cleanup
  BY <1>6 DEF Cleanup, accept
<1> QED
  BY <1>1, <1>2, <1>3, <1>4, <1>5, <1>6, StepCases DEF TableChange

\* A slot picked for dropping holds a lost client until it is emptied.
LEMMA DropInvStep == TypeInv /\ Owners /\ DropInv /\ [Next]_vars => DropInv'
<1> SUFFICES ASSUME TypeInv, Owners, InHand, DropInv, [Next]_vars,
                    acceptPc' \in {"drop", "checkDrop"}, acceptSlot' \in Active'
             PROVE  Gone(slot[acceptSlot])'
  BY DEF DropInv, Owners
<1>1. CASE acceptPc \in {"drop", "checkDrop"}
  <2>1. ~EventDrop /\ ~CheckDrop
    BY DEF EventDrop, CheckDrop
  <2>2. acceptSlot' = acceptSlot /\ acceptSlot \in Slot /\ slot'[acceptSlot] = slot[acceptSlot]
    BY <1>1, <2>1, SlotsOnlyEmpty DEF Active
  <2>3. acceptSlot \in Active /\ slot[acceptSlot] \in Socks
    BY <2>2 DEF Active, TypeInv, TypeOK
  <2> QED
    BY <1>1, <2>2, <2>3, GoneStays DEF DropInv, Gone
<1>2. CASE acceptPc \notin {"drop", "checkDrop"}
  <2>1. CheckFindsLost \/ \E s \in Slot : ClientEvent(s)
    <3>1. ~(QuietMain \/ QuietOther \/ TableChange \/ UNCHANGED vars)
      BY <1>2 DEF QuietMain, StartAccept, StartApi, StartRunning, SendSkip, SendBegin, SendNext,
         SendError, SendRelock, SendEnd, Turn, LoopTest, ReportStats, StopApi, JoinApi, JoinNoThread, JoinAccept, Exit,
         QuietOther, ApiStops, SignalHandler, Receive, ReceiveFails, EpollFails,
         PeerConnects, PeerIsLost, PeerStalls, StallEnds, ApiKick, SignalInLog, BlockedInLog, TableChange,
         SendDrop, EventDrop, CheckDrop, ApiRemove, AddClient, Cleanup, accept, vars
    <3>2. QuietAccept
      BY <3>1, StepCases
    <3> QED
      BY <3>2 DEF QuietAccept, AcceptLoop, EpollTimeout, RejectPeer, AdmitPeer, TableFull, Added, CheckBegin, CheckNext,
         CheckRelock, CheckEnd, AcceptPeer
  <2>2. /\ slot' = slot /\ conn' = conn /\ acceptSlot' \in Active
        /\ slot[acceptSlot'] \in Socks /\ conn[slot[acceptSlot']] \notin {"up", "stalled"}
    BY <2>1 DEF CheckFindsLost, ClientEvent, table, Active, Alive, TypeInv, TypeOK, Slot
  <2>3. conn[slot[acceptSlot']] \in {"lost", "closed"}
    BY <2>2 DEF Owners, SocketsHaveOneOwner, OpenStates, Active
  <2> QED
    BY <2>2, <2>3 DEF Gone
<1> QED
  BY <1>1, <1>2

\* The accept thread lets the lock go between looking at a slot and emptying it, and
\* still drops only clients that are lost, whatever the other two threads do in the gap.
THEOREM CheckDropsOnlyLostHolds == Spec => CheckDropsOnlyLost
<1>1. Init => DropInv /\ Owners
  BY SrtOutputAssumption DEF Init, Owners, SocketsHaveOneOwner, InHand, Active, DropInv
<1>2. Spec => [](TypeInv /\ Owners /\ DropInv)
  BY <1>1, OwnersStep, DropInvStep, TypeInvAlways, PTL DEF Spec
<1>3. TypeInv /\ Owners /\ DropInv /\ [Next]_vars =>
        [acceptPc' # acceptPc /\ acceptPc \in {"drop", "checkDrop"}
           => \A s \in Active : slot'[s] # slot[s] => ~Alive(slot[s])]_vars
  <2> SUFFICES ASSUME TypeInv, Owners, DropInv, [Next]_vars,
                      acceptPc' # acceptPc, acceptPc \in {"drop", "checkDrop"},
                      NEW s \in Active, slot'[s] # slot[s]
               PROVE  ~Alive(slot[s])
    OBVIOUS
  <2>1. EventDrop \/ CheckDrop
    BY SlotsOnlyEmpty DEF Owners
  <2>2. RemoveClient(acceptSlot) /\ acceptSlot \in Slot
    BY <2>1 DEF EventDrop, CheckDrop, TypeInv, SlotsInMind
  <2>3. s = acceptSlot
    BY <2>2 DEF RemoveClient, table, Active, TypeInv, TypeOK
  <2> QED
    BY <2>3 DEF DropInv, Gone, Alive
<1> QED
  BY <1>2, <1>3, PTL DEF Spec, CheckDropsOnlyLost
=============================================================================
