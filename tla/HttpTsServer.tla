---------------------------- MODULE HttpTsServer ----------------------------
(***************************************************************************)
(* http_ts_server.c: one thread puts UDP datagrams into a byte ring, one   *)
(* thread per HTTP connection streams from it, each at its own read_pos.   *)
(* The writer never waits: a slow connection is lapped.                    *)
(*                                                                         *)
(* Data is counted in units of equal size; unit n of the input is the      *)
(* number n, so what a connection received shows which units those were.   *)
(* Everything under ring.lock or clients_lock is one step.  A read that    *)
(* finds nothing waits and tries again: a stutter.                         *)
(***************************************************************************)
EXTENDS Integers, Sequences, FiniteSets

CONSTANTS
  Conns,        \* HTTP connections
  Addr(_),      \* the peer's ip and port, as find_or_create_client sees it
  Size,         \* ring.size, in units
  NClients,     \* MAX_CLIENTS
  MaxRead,      \* what libmicrohttpd asks for at once
  MaxDatagram,  \* units in a datagram, at most
  MaxUnits      \* bound on the units received

ASSUME HttpTsServerAssumption ==
  /\ Size \in Nat \ {0} /\ NClients \in Nat \ {0} /\ MaxRead \in Nat \ {0}
  /\ MaxDatagram \in 1 .. Size /\ MaxUnits \in Nat

VARIABLES
  data,         \* ring.data: the unit in each place, or Garbage
  writePos,     \* ring.write_pos
  received,     \* units received so far
  running,      \* ctx.running
  client,       \* clients[i]: active, address, read_pos
  clientCount,  \* ctx.client_count
  pc,           \* where each connection is
  index,        \* sctx->client_index of each connection
  buf,          \* what the callback of each connection has read and not accounted for
  next,         \* the unit each connection has to be sent next
  server        \* main: "up", "stopping", "down"

ring  == <<data, writePos, received>>
table == <<client, clientCount>>
conns == <<pc, index, buf, next>>
vars  == <<ring, running, table, conns, server>>

Place  == 0 .. Size - 1
Client == 0 .. NClients - 1
Garbage == -1
Active == {i \in Client : client[i].active}
NoClient == [active |-> FALSE, addr |-> Garbage, readPos |-> 0]

TypeOK ==
  /\ data \in [Place -> Garbage .. MaxUnits - 1]
  /\ writePos \in Place /\ received \in 0 .. MaxUnits
  /\ running \in BOOLEAN
  /\ client \in [Client -> [active : BOOLEAN, addr : {Addr(c) : c \in Conns} \cup {Garbage}, readPos : Place]]
  /\ clientCount \in 0 .. NClients
  /\ pc \in [Conns -> {"none", "alloc", "open", "read", "closing", "refused", "leaked", "gone"}]
  /\ index \in [Conns -> Client]
  /\ buf \in [Conns -> Seq(Garbage .. MaxUnits - 1)]
  /\ next \in [Conns -> 0 .. MaxUnits]
  /\ server \in {"up", "stopping", "down"}

Init ==
  /\ data = [p \in Place |-> Garbage] /\ writePos = 0 /\ received = 0
  /\ running = TRUE /\ server = "up"
  /\ client = [i \in Client |-> NoClient] /\ clientCount = 0
  /\ pc = [c \in Conns |-> "none"] /\ index = [c \in Conns |-> 0]
  /\ buf = [c \in Conns |-> <<>>] /\ next = [c \in Conns |-> 0]

-----------------------------------------------------------------------------
(* The ring *)

Available(from) ==
  IF writePos >= from THEN writePos - from ELSE Size - from + writePos

ReadFrom(from, n) == [k \in 1 .. n |-> data[(from + k - 1) % Size]]

\* udp_receiver_thread: one datagram, split at the end of the ring.
Datagram(n) ==
  /\ running /\ received + n <= MaxUnits
  /\ data' = [p \in Place |->
                LET k == (p - writePos + Size) % Size
                IN  IF k < n THEN received + k ELSE data[p]]
  /\ writePos' = (writePos + n) % Size
  /\ received' = received + n
  /\ UNCHANGED <<running, table, conns, server>>

-----------------------------------------------------------------------------
(* The client table *)

\* Mutant of FindClient: the address is not compared.
FindAny(a) == Active

FindClient(a) == {i \in Active : client[i].addr = a}

\* find_or_create_client: the slot with this address, or the first free one,
\* which starts at the writer's position.
Register(c) ==
  /\ pc[c] = "none" /\ server # "down"
  /\ IF FindClient(Addr(c)) # {}
       THEN /\ \E i \in FindClient(Addr(c)) :
                 /\ \A j \in FindClient(Addr(c)) : i <= j
                 /\ index' = [index EXCEPT ![c] = i]
            /\ pc' = [pc EXCEPT ![c] = "alloc"]
            /\ UNCHANGED table
       ELSE \/ /\ Active = Client
               /\ pc' = [pc EXCEPT ![c] = "refused"]
               /\ UNCHANGED <<table, index>>
            \/ \E i \in Client \ Active :
                 /\ \A j \in Client \ Active : i <= j
                 /\ client' = [client EXCEPT ![i] =
                      [active |-> TRUE, addr |-> Addr(c), readPos |-> writePos]]
                 /\ clientCount' = clientCount + 1
                 /\ index' = [index EXCEPT ![c] = i]
                 /\ pc' = [pc EXCEPT ![c] = "alloc"]
  /\ next' = [next EXCEPT ![c] = received]
  /\ UNCHANGED <<ring, running, buf, server>>

\* Mutant of RemoveClient: client_count is not maintained.
RemoveKeepsCount(i) ==
  /\ client' = [client EXCEPT ![i].active = FALSE]
  /\ UNCHANGED clientCount

RemoveClient(i) ==
  IF client[i].active
    THEN /\ client' = [client EXCEPT ![i] = [active |-> FALSE, addr |-> @.addr, readPos |-> @.readPos]]
         /\ clientCount' = clientCount - 1
    ELSE UNCHANGED table

StreamStarts(c) ==
  /\ pc[c] = "alloc"
  /\ pc' = [pc EXCEPT ![c] = "open"]
  /\ UNCHANGED <<ring, running, table, index, buf, next, server>>

\* No memory for the stream context: the slot is given back, the peer is not served.
StreamFails(c) ==
  /\ pc[c] = "alloc"
  /\ RemoveClient(index[c])
  /\ pc' = [pc EXCEPT ![c] = "gone"]
  /\ UNCHANGED <<ring, running, index, buf, next, server>>

\* No memory for the response: MHD_NO to libmicrohttpd, which knows of no
\* context to free, and the slot stays taken.
ResponseFails(c) ==
  /\ pc[c] = "alloc"
  /\ pc' = [pc EXCEPT ![c] = "leaked"]
  /\ UNCHANGED <<ring, running, table, index, buf, next, server>>

-----------------------------------------------------------------------------
(* stream_reader_callback and stream_free_callback *)

\* Mutant of Read: read_pos is ignored.
ReadFromStart(c) ==
  /\ pc[c] = "open" /\ running /\ client[index[c]].active
  /\ LET n == Available(client[index[c]].readPos)
         m == IF n < MaxRead THEN n ELSE MaxRead
     IN  m > 0 /\ buf' = [buf EXCEPT ![c] = [k \in 1 .. m |-> data[(k - 1) % Size]]]
  /\ pc' = [pc EXCEPT ![c] = "read"]
  /\ UNCHANGED <<ring, running, table, index, next, server>>

\* ring_buffer_read copies at most MaxRead units ...
Read(c) ==
  /\ pc[c] = "open" /\ running /\ client[index[c]].active
  /\ LET from == client[index[c]].readPos
         n    == Available(from)
     IN  n > 0 /\ buf' = [buf EXCEPT ![c] = ReadFrom(from, IF n < MaxRead THEN n ELSE MaxRead)]
  /\ pc' = [pc EXCEPT ![c] = "read"]
  /\ UNCHANGED <<ring, running, table, index, next, server>>

\* ... and read_pos moves in a second critical section.
Advance(c) ==
  /\ pc[c] = "read"
  /\ client' = [client EXCEPT ![index[c]] =
       [active |-> @.active, addr |-> @.addr, readPos |-> (@.readPos + Len(buf[c])) % Size]]
  /\ next' = [next EXCEPT ![c] = buf[c][Len(buf[c])] + 1]
  /\ buf' = [buf EXCEPT ![c] = <<>>]
  /\ pc' = [pc EXCEPT ![c] = "open"]
  /\ UNCHANGED <<ring, running, clientCount, index, server>>

\* Mutant of StreamEnds: running is not looked at.
StreamIgnoresStop(c) ==
  /\ pc[c] = "open"
  /\ ~client[index[c]].active
  /\ pc' = [pc EXCEPT ![c] = "closing"]
  /\ UNCHANGED <<ring, running, table, index, buf, next, server>>

\* END_OF_STREAM, or libmicrohttpd finds the peer gone: the context is freed.
StreamEnds(c) ==
  /\ pc[c] = "open"
  /\ ~running \/ ~client[index[c]].active
  /\ pc' = [pc EXCEPT ![c] = "closing"]
  /\ UNCHANGED <<ring, running, table, index, buf, next, server>>

PeerCloses(c) ==
  /\ pc[c] = "open"
  /\ pc' = [pc EXCEPT ![c] = "closing"]
  /\ UNCHANGED <<ring, running, table, index, buf, next, server>>

FreeStream(c) ==
  /\ pc[c] = "closing"
  /\ RemoveClient(index[c])
  /\ pc' = [pc EXCEPT ![c] = "gone"]
  /\ UNCHANGED <<ring, running, index, buf, next, server>>

-----------------------------------------------------------------------------
(* main *)

SignalHandler ==
  /\ running
  /\ running' = FALSE
  /\ UNCHANGED <<ring, table, conns, server>>

MainSeesStop ==
  /\ server = "up" /\ ~running
  /\ server' = "stopping"
  /\ UNCHANGED <<ring, running, table, conns>>

\* MHD_stop_daemon waits for every connection; the receiver is joined.
StopDaemon ==
  /\ server = "stopping"
  /\ \A c \in Conns : pc[c] \in {"none", "refused", "leaked", "gone"}
  /\ server' = "down"
  /\ UNCHANGED <<ring, running, table, conns>>

Finished == server = "down" /\ UNCHANGED vars

ConnStep(c) ==
  \/ StreamStarts(c) \/ StreamFails(c) \/ ResponseFails(c) \/ Read(c) \/ Advance(c)
  \/ StreamEnds(c) \/ FreeStream(c)

Next ==
  \/ \E n \in 1 .. MaxDatagram : Datagram(n)
  \/ \E c \in Conns : Register(c) \/ PeerCloses(c) \/ ConnStep(c)
  \/ SignalHandler \/ MainSeesStop \/ StopDaemon \/ Finished

Spec == Init /\ [][Next]_vars

FairSpec ==
  /\ Spec
  /\ WF_vars(MainSeesStop) /\ WF_vars(StopDaemon)
  /\ \A c \in Conns : WF_vars(ConnStep(c))

-----------------------------------------------------------------------------
(* Properties *)

\* A connection with this slot came to nothing for want of a response (line 514).
Leaked(i) == \E c \in Conns : pc[c] = "leaked" /\ index[c] = i

\* client_count is the number of active slots, and every active slot has the
\* connection that will free it or is one of those that a response which could
\* not be created cost: slots leak through no other way a stream can end or
\* fail to start, and each such failure costs one at most.
SlotsAreOwned ==
  /\ clientCount = Cardinality(Active)
  /\ \A i \in Active :
       Leaked(i) \/ \E c \in Conns : index[c] = i /\ pc[c] \in {"alloc", "open", "read", "closing"}

\* What a connection is sent is a gapless run of the input that starts no
\* earlier than where the last one ended, however often the writer lapped it:
\* units are skipped by whole laps of the ring, never repeated or reordered,
\* and memory no datagram was written to is never sent.
StreamIsOrdered ==
  \A c \in Conns : pc[c] = "read" =>
    /\ \A k \in 1 .. Len(buf[c]) : buf[c][k] = buf[c][1] + k - 1
    /\ buf[c][1] >= next[c]
    /\ (buf[c][1] - next[c]) % Size = 0

\* No two connections stream through the same slot.
SlotServesOneStream ==
  \A c, d \in Conns :
    c # d /\ {pc[c], pc[d]} \subseteq {"alloc", "open", "read", "closing"}
      => index[c] # index[d]

\* A stop signal ends every stream and then the server; no slot is then taken
\* but those that leaked.
StopCompletes == ~running ~> (server = "down" /\ \A i \in Active : Leaked(i))
=============================================================================
