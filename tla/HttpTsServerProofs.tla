------------------------- MODULE HttpTsServerProofs -------------------------
(***************************************************************************)
(* Theorems about HttpTsServer for every set of connections and addresses, *)
(* every size of the ring and of the client table, and every amount of     *)
(* input.  The table is safe because every way out of a stream goes        *)
(* through remove_client exactly once; the stream is in order because *)
(* a connection never reads past a position that is not yet written.       *)
(***************************************************************************)
EXTENDS HttpTsServer, FiniteSetTheorems, TLAPS

\* The connections that hold a slot, and those that cost one for good.
Holds(c) == pc[c] \in {"alloc", "open", "read", "closing", "leaked"}

\* Position arithmetic stays inside the ring.
LEMMA ModIsPlace == ASSUME NEW n \in Nat PROVE n % Size \in Place
  BY HttpTsServerAssumption DEF Place

\* The active slots can be counted, one by one.
LEMMA ActiveIsFinite ==
  /\ IsFiniteSet(Active) /\ Cardinality(Active) \in 0 .. NClients
  /\ Active = Client \/ Cardinality(Active) < NClients
  /\ \A i : i \notin Active => Cardinality(Active \cup {i}) = Cardinality(Active) + 1
  /\ \A i \in Active : Cardinality(Active \ {i}) = Cardinality(Active) - 1 /\ Cardinality(Active) > 0
<1>1. IsFiniteSet(Client) /\ Cardinality(Client) = NClients /\ Active \subseteq Client
  BY HttpTsServerAssumption, FS_Interval DEF Client, Active
<1>2. /\ IsFiniteSet(Active) /\ Cardinality(Active) <= NClients /\ Cardinality(Active) \in Nat
      /\ Active = Client \/ Cardinality(Active) < NClients
  BY <1>1, FS_Subset, FS_CardinalityType, HttpTsServerAssumption
<1>3. \A i \in Active : Cardinality(Active) > 0
  BY <1>2, FS_EmptySet
<1> QED
  BY <1>2, <1>3, FS_AddElement, FS_RemoveElement, HttpTsServerAssumption

-----------------------------------------------------------------------------
(* Types *)

\* What a slot of the client table is.
Entry == [active : BOOLEAN, addr : {Addr(c) : c \in Conns} \cup {Garbage}, readPos : Place]

\* What a callback has read it has read something of.
HttpTypeInv ==
  /\ TypeOK /\ clientCount = Cardinality(Active)
  /\ \A c \in Conns : pc[c] = "read" => buf[c] # <<>>

\* remove_client empties at most the slot it is given, and counts that.
LEMMA Removal ==
  ASSUME HttpTypeInv, NEW i \in Client, RemoveClient(i)
  PROVE  /\ client' \in [Client -> Entry]
         /\ clientCount' \in 0 .. NClients /\ clientCount' = Cardinality(Active')
         /\ Active' = Active \ {i}
         /\ \A j \in Client \ {i} : client'[j] = client[j]
<1>1. CASE client[i].active
  <2>1. /\ client' = [client EXCEPT ![i] = [active |-> FALSE, addr |-> client[i].addr, readPos |-> client[i].readPos]]
        /\ clientCount' = clientCount - 1 /\ i \in Active
    BY <1>1 DEF RemoveClient, Active, HttpTypeInv, TypeOK, Entry
  <2>2. client' \in [Client -> Entry]
    BY <2>1 DEF HttpTypeInv, TypeOK, Entry
  <2>3. Active' = Active \ {i} /\ \A j \in Client \ {i} : client'[j] = client[j]
    BY <2>1 DEF Active, HttpTypeInv, TypeOK, Entry
  <2> QED
    BY <2>1, <2>2, <2>3, ActiveIsFinite, HttpTsServerAssumption DEF HttpTypeInv
<1>2. CASE ~client[i].active
  BY <1>2 DEF RemoveClient, Active, table, HttpTypeInv, TypeOK, Entry
<1> QED
  BY <1>1, <1>2

\* What a connection is given when it registers: a slot of its address, active.
LEMMA Registration ==
  ASSUME HttpTypeInv, NEW c \in Conns, Register(c)
  PROVE  \/ pc' = [pc EXCEPT ![c] = "refused"] /\ UNCHANGED <<table, index>>
         \/ \E i \in Client :
              /\ pc' = [pc EXCEPT ![c] = "alloc"] /\ index' = [index EXCEPT ![c] = i]
              /\ client' \in [Client -> Entry]
              /\ clientCount' \in 0 .. NClients /\ clientCount' = Cardinality(Active')
              /\ Active' = Active \cup {i} /\ client'[i].active /\ client'[i].addr = Addr(c)
              /\ \A j \in Client \ {i} : client'[j] = client[j]
              /\ i \in Active => client'[i] = client[i]
<1>1. CASE FindClient(Addr(c)) # {}
  <2>1. PICK i \in FindClient(Addr(c)) : index' = [index EXCEPT ![c] = i] /\ pc' = [pc EXCEPT ![c] = "alloc"]
    BY <1>1 DEF Register
  <2>2. client' = client /\ clientCount' = clientCount
    BY <1>1 DEF Register, table
  <2>3. i \in Active /\ i \in Client /\ client[i].active /\ client[i].addr = Addr(c)
    BY DEF FindClient, Active
  <2>4. Active' = Active /\ Active = Active \cup {i}
    BY <2>2, <2>3 DEF Active
  <2> QED
    BY <2>1, <2>2, <2>3, <2>4 DEF HttpTypeInv, TypeOK, Entry
<1>2. CASE FindClient(Addr(c)) = {}
  <2>1. CASE pc' = [pc EXCEPT ![c] = "refused"] /\ UNCHANGED <<table, index>>
    BY <2>1
  <2>2. ASSUME NEW i \in Client \ Active,
               client' = [client EXCEPT ![i] = [active |-> TRUE, addr |-> Addr(c), readPos |-> writePos]],
               clientCount' = clientCount + 1,
               index' = [index EXCEPT ![c] = i], pc' = [pc EXCEPT ![c] = "alloc"]
        PROVE  /\ client' \in [Client -> Entry]
               /\ clientCount' \in 0 .. NClients /\ clientCount' = Cardinality(Active')
               /\ Active' = Active \cup {i} /\ client'[i].active /\ client'[i].addr = Addr(c)
               /\ \A j \in Client \ {i} : client'[j] = client[j]
    <3>1. client' \in [Client -> Entry]
      BY <2>2 DEF HttpTypeInv, TypeOK, Entry
    <3>2. /\ client'[i].active /\ client'[i].addr = Addr(c)
          /\ \A j \in Client \ {i} : client'[j] = client[j]
      BY <2>2 DEF HttpTypeInv, TypeOK, Entry
    <3>3. Active' = Active \cup {i}
      BY <3>2 DEF Active
    <3>4. clientCount' \in 0 .. NClients /\ clientCount' = Cardinality(Active')
      BY <2>2, <3>3, ActiveIsFinite, HttpTsServerAssumption DEF HttpTypeInv
    <3> QED BY <3>1, <3>2, <3>3, <3>4
  <2> QED
    BY <1>2, <2>1, <2>2 DEF Register
<1> QED
  BY <1>1, <1>2

\* Every step keeps the types and the count.
LEMMA TypeStep == HttpTypeInv /\ [Next]_vars => HttpTypeInv'
<1> SUFFICES ASSUME HttpTypeInv, [Next]_vars PROVE HttpTypeInv'
  OBVIOUS
<1>1. ASSUME NEW n \in 1 .. MaxDatagram, Datagram(n) PROVE HttpTypeInv'
  <2>1. received' \in 0 .. MaxUnits /\ received \in Nat /\ n \in Nat
    BY <1>1, HttpTsServerAssumption DEF Datagram, HttpTypeInv, TypeOK, Entry
  <2>2. writePos' \in Place
    <3>1. writePos + n \in Nat
      BY <2>1, HttpTsServerAssumption DEF HttpTypeInv, TypeOK, Entry, Place
    <3> QED BY <1>1, <3>1, ModIsPlace DEF Datagram
  <2>3. data' \in [Place -> Garbage .. MaxUnits - 1]
    <3>1. ASSUME NEW p \in Place
          PROVE  (IF (p - writePos + Size) % Size < n THEN received + ((p - writePos + Size) % Size) ELSE data[p])
                   \in Garbage .. MaxUnits - 1
      <4>1. p - writePos + Size \in Nat
        BY HttpTsServerAssumption DEF HttpTypeInv, TypeOK, Entry, Place
      <4>2. (p - writePos + Size) % Size \in Nat
        BY <4>1, ModIsPlace DEF Place
      <4>3. data[p] \in Garbage .. MaxUnits - 1
        BY DEF HttpTypeInv, TypeOK, Entry
      <4>4. received + n <= MaxUnits
        BY <1>1 DEF Datagram
      <4> QED BY <2>1, <4>2, <4>3, <4>4, HttpTsServerAssumption DEF Garbage
    <3> QED BY <1>1, <3>1 DEF Datagram
  <2>4. UNCHANGED <<running, table, conns, server, Active>>
    BY <1>1 DEF Datagram, table, Active
  <2>5. TypeOK'
    BY <2>1, <2>2, <2>3, <2>4 DEF HttpTypeInv, TypeOK, table, conns
  <2> QED
    BY <2>4, <2>5 DEF HttpTypeInv, table, conns
<1>2. ASSUME NEW c \in Conns, Register(c) PROVE HttpTypeInv'
  <2>1. /\ client' \in [Client -> Entry]
        /\ clientCount' \in 0 .. NClients /\ clientCount' = Cardinality(Active')
    BY <1>2, Registration DEF table, Active, HttpTypeInv, TypeOK, Entry
  <2>2. index' \in [Conns -> Client] /\ pc' \in [Conns -> {"none", "alloc", "open", "read", "closing", "refused", "leaked", "gone"}]
        /\ \A d \in Conns : pc'[d] = "read" => pc[d] = "read"
    <3>1. /\ pc \in [Conns -> {"none", "alloc", "open", "read", "closing", "refused", "leaked", "gone"}]
          /\ index \in [Conns -> Client]
      BY DEF HttpTypeInv, TypeOK
    <3>2. CASE pc' = [pc EXCEPT ![c] = "refused"] /\ UNCHANGED <<table, index>>
      BY <3>1, <3>2
    <3>3. CASE \E i \in Client : pc' = [pc EXCEPT ![c] = "alloc"] /\ index' = [index EXCEPT ![c] = i]
      BY <3>1, <3>3
    <3> QED BY <1>2, <3>2, <3>3, Registration
  <2>3. next' \in [Conns -> 0 .. MaxUnits] /\ UNCHANGED <<ring, running, buf, server>>
    BY <1>2 DEF Register, HttpTypeInv, TypeOK, Entry
  <2>4. TypeOK'
    BY <2>1, <2>2, <2>3 DEF HttpTypeInv, TypeOK, Entry, ring
  <2> QED
    BY <2>1, <2>2, <2>3, <2>4 DEF HttpTypeInv
<1>3. ASSUME NEW c \in Conns, StreamFails(c) \/ FreeStream(c) PROVE HttpTypeInv'
  <2>1. index[c] \in Client /\ RemoveClient(index[c]) /\ pc' = [pc EXCEPT ![c] = "gone"]
        /\ UNCHANGED <<ring, running, index, buf, next, server>>
    BY <1>3 DEF StreamFails, FreeStream, HttpTypeInv, TypeOK, Entry
  <2>2. /\ client' \in [Client -> Entry] /\ clientCount' \in 0 .. NClients
        /\ clientCount' = Cardinality(Active')
    BY <2>1, Removal
  <2>3. pc' \in [Conns -> {"none", "alloc", "open", "read", "closing", "refused", "leaked", "gone"}]
        /\ \A d \in Conns : pc'[d] = "read" => pc[d] = "read"
    BY <2>1 DEF HttpTypeInv, TypeOK
  <2>4. TypeOK'
    BY <2>1, <2>2, <2>3 DEF HttpTypeInv, TypeOK, Entry, ring
  <2> QED
    BY <2>1, <2>2, <2>3, <2>4 DEF HttpTypeInv
<1>4. ASSUME NEW c \in Conns, Read(c) PROVE HttpTypeInv'
  <2> DEFINE from == client[index[c]].readPos
             n == Available(from)
             m == IF n < MaxRead THEN n ELSE MaxRead
  <2>0. from \in Place /\ writePos \in Place
    BY DEF HttpTypeInv, TypeOK
  <2>1. n \in Nat /\ from \in Place
    <3> HIDE DEF from
    <3> QED BY <2>0, HttpTsServerAssumption DEF Available, Place
  <2>2. m \in Nat \ {0}
    BY <1>4, <2>1, HttpTsServerAssumption DEF Read
  <2>3. \A k \in 1 .. m : data[(from + k - 1) % Size] \in Garbage .. MaxUnits - 1
    <3> TAKE k \in 1 .. m
    <3> HIDE DEF m, n
    <3>1. from + k - 1 \in Nat
      BY <2>1, <2>2, HttpTsServerAssumption DEF Place
    <3> QED BY <3>1, ModIsPlace DEF HttpTypeInv, TypeOK, Entry
  <2>4. ReadFrom(from, m) \in Seq(Garbage .. MaxUnits - 1) /\ ReadFrom(from, m) # <<>>
    <3> HIDE DEF m, n, from
    <3> QED BY <2>2, <2>3 DEF ReadFrom
  <2>5. buf' = [buf EXCEPT ![c] = ReadFrom(from, m)]
    BY <1>4 DEF Read
  <2>6. /\ buf' \in [Conns -> Seq(Garbage .. MaxUnits - 1)] /\ buf'[c] # <<>>
        /\ \A d \in Conns \ {c} : buf'[d] = buf[d]
    <3> HIDE DEF m, n, from
    <3> QED BY <2>4, <2>5 DEF HttpTypeInv, TypeOK, Entry
  <2> QED
    BY <1>4, <2>6 DEF Read, HttpTypeInv, TypeOK, Entry, ring, table, Active
<1>5. ASSUME NEW c \in Conns, Advance(c) PROVE HttpTypeInv'
  <2>1. buf[c] \in Seq(Garbage .. MaxUnits - 1) /\ Len(buf[c]) \in Nat \ {0} /\ index[c] \in Client
    BY <1>5 DEF Advance, HttpTypeInv, TypeOK, Entry
  <2>2. buf[c][Len(buf[c])] + 1 \in 0 .. MaxUnits
    BY <2>1, HttpTsServerAssumption DEF Garbage
  <2>3. client[index[c]].readPos \in Nat
    BY <2>1, HttpTsServerAssumption DEF HttpTypeInv, TypeOK, Entry, Place
  <2>4. (client[index[c]].readPos + Len(buf[c])) % Size \in Place
    BY <2>1, <2>3, ModIsPlace
  <2>5. client' = [client EXCEPT ![index[c]] =
                     [active |-> client[index[c]].active, addr |-> client[index[c]].addr,
                      readPos |-> (client[index[c]].readPos + Len(buf[c])) % Size]]
    BY <1>5, <2>1 DEF Advance, HttpTypeInv, TypeOK, Entry
  <2>6. /\ client' \in [Client -> Entry]
        /\ Active' = Active
    BY <2>1, <2>4, <2>5 DEF Active, HttpTypeInv, TypeOK, Entry
  <2>7. buf' \in [Conns -> Seq(Garbage .. MaxUnits - 1)] /\ next' \in [Conns -> 0 .. MaxUnits]
    BY <1>5, <2>2 DEF Advance, HttpTypeInv, TypeOK, Entry
  <2>8. /\ pc' \in [Conns -> {"none", "alloc", "open", "read", "closing", "refused", "leaked", "gone"}]
        /\ \A d \in Conns : pc'[d] = "read" => d # c /\ pc[d] = "read" /\ buf'[d] = buf[d]
    BY <1>5 DEF Advance, HttpTypeInv, TypeOK, Entry
  <2> QED
    BY <1>5, <2>6, <2>7, <2>8 DEF Advance, HttpTypeInv, TypeOK, Entry, ring
<1>6. ASSUME NEW c \in Conns, StreamStarts(c) \/ ResponseFails(c) \/ StreamEnds(c) \/ PeerCloses(c) PROVE HttpTypeInv'
  BY <1>6 DEF StreamStarts, ResponseFails, StreamEnds, PeerCloses, HttpTypeInv, TypeOK, Entry, ring, table, Active
<1>7. CASE SignalHandler \/ MainSeesStop \/ StopDaemon
  BY <1>7 DEF SignalHandler, MainSeesStop, StopDaemon, HttpTypeInv, TypeOK, Entry, ring, table, conns, Active
<1>8. CASE UNCHANGED vars
  BY <1>8 DEF vars, HttpTypeInv, TypeOK, Entry, ring, table, conns, Active
<1> QED
  BY <1>1, <1>2, <1>3, <1>4, <1>5, <1>6, <1>7, <1>8 DEF Next, ConnStep, Finished

\* A server that has just started.
LEMMA HttpTypeInit == Init => HttpTypeInv
<1> SUFFICES ASSUME Init PROVE HttpTypeInv
  OBVIOUS
<1>1. Active = {}
  BY DEF Init, Active, NoClient
<1>2. clientCount = Cardinality(Active)
  BY <1>1, FS_EmptySet DEF Init
<1>3. 0 \in Place /\ Garbage \in Garbage .. MaxUnits - 1 /\ 0 \in Client /\ 0 \in 0 .. MaxUnits /\ 0 \in 0 .. NClients
  BY HttpTsServerAssumption DEF Place, Garbage, Client
<1>4. <<>> \in Seq(Garbage .. MaxUnits - 1)
  OBVIOUS
<1> QED
  BY <1>2, <1>3, <1>4 DEF Init, HttpTypeInv, TypeOK, Entry, NoClient

\* The ring, the table and the connections keep their types; in particular every
\* position stays inside the ring and client_count between 0 and MAX_CLIENTS.
THEOREM HttpTypeCorrect == Spec => []TypeOK
<1>1. HttpTypeInv => TypeOK
  BY DEF HttpTypeInv
<1> QED
  BY <1>1, HttpTypeInit, TypeStep, PTL DEF Spec

-----------------------------------------------------------------------------
(* Who holds which slot *)

\* Every active slot is held by a connection.
Owned == \A i \in Active : \E c \in Conns : index[c] = i /\ Holds(c)

\* What a connection holds is active and carries its address.
Theirs == \A c \in Conns : Holds(c) => index[c] \in Active /\ client[index[c]].addr = Addr(c)

\* The steps that neither give nor take a slot leave who holds which.
LEMMA PassingStep ==
  ASSUME HttpTypeInv, [Next]_vars,
         \A c \in Conns : ~(Register(c) \/ StreamFails(c) \/ FreeStream(c))
  PROVE  /\ index' = index /\ Active' = Active
         /\ \A c \in Conns : Holds(c)' <=> Holds(c)
         /\ \A i \in Client : client'[i].addr = client[i].addr
<1>1. ASSUME NEW c \in Conns, Advance(c)
      PROVE  /\ index' = index /\ Active' = Active
             /\ \A d \in Conns : Holds(d)' <=> Holds(d)
             /\ \A i \in Client : client'[i].addr = client[i].addr
  <2>1. client' = [client EXCEPT ![index[c]] =
                     [active |-> client[index[c]].active, addr |-> client[index[c]].addr,
                      readPos |-> (client[index[c]].readPos + Len(buf[c])) % Size]]
    BY <1>1 DEF Advance, HttpTypeInv, TypeOK, Entry
  <2>2. \A i \in Client : client'[i].addr = client[i].addr /\ client'[i].active = client[i].active
    BY <2>1 DEF HttpTypeInv, TypeOK, Entry
  <2>3. \A d \in Conns : Holds(d)' <=> Holds(d)
    BY <1>1 DEF Advance, Holds, HttpTypeInv, TypeOK, Entry
  <2> QED
    BY <1>1, <2>2, <2>3 DEF Advance, Active
<1>2. ASSUME NEW c \in Conns, StreamStarts(c) \/ ResponseFails(c) \/ Read(c) \/ StreamEnds(c) \/ PeerCloses(c)
      PROVE  UNCHANGED <<index, client>> /\ \A d \in Conns : Holds(d)' <=> Holds(d)
  BY <1>2 DEF StreamStarts, ResponseFails, Read, StreamEnds, PeerCloses, table, Holds, HttpTypeInv, TypeOK, Entry
<1>3. CASE UNCHANGED <<index, client, pc>>
  BY <1>3 DEF Active, Holds
<1>4. CASE \E n \in 1 .. MaxDatagram : Datagram(n)
  BY <1>3, <1>4 DEF Datagram, table, conns
<1>5. CASE SignalHandler \/ MainSeesStop \/ StopDaemon \/ UNCHANGED vars
  BY <1>3, <1>5 DEF SignalHandler, MainSeesStop, StopDaemon, vars, table, conns
<1> QED
  BY <1>1, <1>2, <1>4, <1>5 DEF Next, ConnStep, Finished, Active

\* A slot is given and taken back together with its holder.
LEMMA OwnedStep == HttpTypeInv /\ Owned /\ [Next]_vars => Owned'
<1> SUFFICES ASSUME HttpTypeInv, Owned, [Next]_vars PROVE Owned'
  OBVIOUS
<1>1. ASSUME NEW c \in Conns, Register(c) PROVE Owned'
  <2>1. pc[c] = "none"
    BY <1>1 DEF Register
  <2>2. \A d \in Conns \ {c} : index'[d] = index[d] /\ pc'[d] = pc[d]
    <3>t. /\ pc = [d \in Conns |-> pc[d]] /\ index = [d \in Conns |-> index[d]]
      BY DEF HttpTypeInv, TypeOK
    <3>1. CASE pc' = [pc EXCEPT ![c] = "refused"] /\ UNCHANGED <<table, index>>
      BY <3>t, <3>1
    <3>2. CASE \E i \in Client : pc' = [pc EXCEPT ![c] = "alloc"] /\ index' = [index EXCEPT ![c] = i]
      BY <3>t, <3>2
    <3> QED BY <1>1, <3>1, <3>2, Registration
  <2>3. \A i \in Active' : i \in Active \/ (index'[c] = i /\ pc'[c] = "alloc")
    <3>1. CASE UNCHANGED table
      BY <3>1 DEF table, Active
    <3>2. CASE \E i \in Client : /\ index' = [index EXCEPT ![c] = i] /\ pc' = [pc EXCEPT ![c] = "alloc"]
                                  /\ Active' = Active \cup {i}
      BY <3>2 DEF HttpTypeInv, TypeOK, Entry
    <3> QED BY <1>1, <3>1, <3>2, Registration
  <2> QED
    BY <2>1, <2>2, <2>3 DEF Owned, Holds
<1>2. ASSUME NEW c \in Conns, StreamFails(c) \/ FreeStream(c) PROVE Owned'
  <2>1. index[c] \in Client /\ RemoveClient(index[c]) /\ pc' = [pc EXCEPT ![c] = "gone"] /\ index' = index
    BY <1>2 DEF StreamFails, FreeStream, HttpTypeInv, TypeOK, Entry
  <2>2. Active' = Active \ {index[c]}
    BY <2>1, Removal
  <2> QED
    BY <2>1, <2>2 DEF Owned, Holds, HttpTypeInv, TypeOK, Entry
<1>3. CASE \A c \in Conns : ~(Register(c) \/ StreamFails(c) \/ FreeStream(c))
  BY <1>3, PassingStep DEF Owned
<1> QED
  BY <1>1, <1>2, <1>3

\* client_count is the number of active slots, and no slot leaks whatever way a
\* stream ends or fails to start, but by a response that could not be created;
\* also when several peers share an address.
THEOREM SlotsAreOwnedHolds == Spec => []SlotsAreOwned
<1>1. Init => HttpTypeInv /\ Owned
  BY HttpTypeInit DEF Init, Owned, Active, NoClient
<1>2. HttpTypeInv /\ Owned => SlotsAreOwned
  BY DEF HttpTypeInv, Owned, Holds, Leaked, SlotsAreOwned
<1> QED
  BY <1>1, <1>2, TypeStep, OwnedStep, PTL DEF Spec

\* Peers have addresses of their own.
OwnAddresses == \A c, d \in Conns : Addr(c) = Addr(d) => c = d

\* Nobody is given, or takes back, a slot that another one holds.
LEMMA TheirsStep == ASSUME OwnAddresses PROVE HttpTypeInv /\ Theirs /\ [Next]_vars => Theirs'
<1> SUFFICES ASSUME HttpTypeInv, Theirs, [Next]_vars PROVE Theirs'
  OBVIOUS
<1>1. ASSUME NEW c \in Conns, Register(c) PROVE Theirs'
  <2>1. CASE pc' = [pc EXCEPT ![c] = "refused"] /\ UNCHANGED <<table, index>>
    BY <2>1 DEF Theirs, Holds, table, Active, HttpTypeInv, TypeOK, Entry
  <2>2. ASSUME NEW i \in Client,
               pc' = [pc EXCEPT ![c] = "alloc"], index' = [index EXCEPT ![c] = i],
               Active' = Active \cup {i}, client'[i].addr = Addr(c),
               \A j \in Client \ {i} : client'[j] = client[j],
               i \in Active => client'[i] = client[i]
        PROVE  Theirs'
    <3>1. ASSUME NEW d \in Conns, Holds(d)'
          PROVE  index'[d] \in Active' /\ client'[index'[d]].addr = Addr(d)
      <4>1. CASE d = c
        BY <2>2, <4>1 DEF HttpTypeInv, TypeOK, Entry
      <4>2. CASE d # c
        <5>1. index'[d] = index[d] /\ Holds(d) /\ index[d] \in Client
          BY <2>2, <3>1, <4>2 DEF Holds, HttpTypeInv, TypeOK, Entry
        <5>2. client'[index[d]] = client[index[d]]
          BY <2>2, <5>1 DEF Theirs
        <5> QED
          BY <2>2, <5>1, <5>2 DEF Theirs
      <4> QED BY <4>1, <4>2
    <3> QED BY <3>1 DEF Theirs
  <2> QED
    BY <1>1, <2>1, <2>2, Registration
<1>2. ASSUME NEW c \in Conns, StreamFails(c) \/ FreeStream(c) PROVE Theirs'
  <2>1. /\ index[c] \in Client /\ RemoveClient(index[c]) /\ pc' = [pc EXCEPT ![c] = "gone"]
        /\ index' = index /\ Holds(c)
    BY <1>2 DEF StreamFails, FreeStream, Holds, HttpTypeInv, TypeOK, Entry
  <2>2. Active' = Active \ {index[c]} /\ \A j \in Client \ {index[c]} : client'[j] = client[j]
    BY <2>1, Removal
  <2>3. ASSUME NEW d \in Conns, Holds(d)'
        PROVE  index'[d] \in Active' /\ client'[index'[d]].addr = Addr(d)
    <3>1. d # c /\ Holds(d) /\ index[d] \in Client
      BY <2>1, <2>3 DEF Holds, HttpTypeInv, TypeOK, Entry
    <3>2. index[d] # index[c]
      BY <2>1, <3>1, OwnAddresses DEF Theirs, OwnAddresses
    <3> QED
      BY <2>1, <2>2, <3>1, <3>2 DEF Theirs
  <2> QED BY <2>3 DEF Theirs
<1>3. CASE \A c \in Conns : ~(Register(c) \/ StreamFails(c) \/ FreeStream(c))
  <2>1. \A c \in Conns : index[c] \in Client
    BY DEF HttpTypeInv, TypeOK, Entry
  <2> QED
    BY <1>3, <2>1, PassingStep DEF Theirs
<1> QED
  BY <1>1, <1>2, <1>3

\* If every peer has an address of its own, no two connections stream through one
\* slot, and none streams through a slot that was given back.
THEOREM SlotServesOneStreamHolds ==
  ASSUME OwnAddresses
  PROVE  Spec => []SlotServesOneStream
<1>1. Init => HttpTypeInv /\ Theirs
  BY HttpTypeInit DEF Init, Theirs, Holds
<1>2. Theirs => SlotServesOneStream
  <2> SUFFICES ASSUME Theirs, NEW c \in Conns, NEW d \in Conns, c # d,
                      {pc[c], pc[d]} \subseteq {"alloc", "open", "read", "closing"}
               PROVE  index[c] # index[d]
    BY DEF SlotServesOneStream
  <2>1. Holds(c) /\ Holds(d)
    BY DEF Holds
  <2> QED BY <2>1, OwnAddresses DEF Theirs, OwnAddresses
<1> QED
  BY <1>1, <1>2, TypeStep, TheirsStep, PTL DEF Spec

-----------------------------------------------------------------------------
(* Positions in the ring *)

\* Every number is so many laps and a position.
LEMMA LapAndPlace ==
  ASSUME NEW a \in Nat
  PROVE  \E q \in Nat : a = q * Size + (a % Size) /\ a % Size \in Place
<1>1. Size \in Nat \ {0}
  BY HttpTsServerAssumption
<1> DEFINE q == a \div Size
<1>2. q \in Nat
  BY <1>1
<1>3. a = Size * q + (a % Size) /\ a % Size \in Place
  BY <1>1 DEF Place
<1> HIDE DEF q
<1>4. Size * q = q * Size
  BY <1>1, <1>2
<1> QED
  BY <1>2, <1>3, <1>4

\* A lap more or less: the products of two lap counts differ by at least a lap.
LEMMA LapsApart ==
  ASSUME NEW q \in Int, NEW p \in Int, q < p
  PROVE  q * Size + Size <= p * Size
<1>1. Size \in Nat \ {0}
  BY HttpTsServerAssumption
<1>2. PICK d \in Nat : p = q + 1 + d
  <2>1. p - q - 1 \in Nat /\ p = q + 1 + (p - q - 1)
    OBVIOUS
  <2> QED BY <2>1
<1>3. p * Size = (q * Size + Size) + d * Size
  BY <1>1, <1>2
<1>4. d * Size >= 0
  BY <1>1
<1>5. q * Size \in Int /\ d * Size \in Int
  BY <1>1
<1> QED
  BY <1>1, <1>3, <1>4, <1>5

\* The position of a number is the one found by taking laps away.
LEMMA PlaceIsUnique ==
  ASSUME NEW q \in Int, NEW r \in Place, q * Size + r \in Nat
  PROVE  (q * Size + r) % Size = r
<1>1. Size \in Nat \ {0} /\ r \in 0 .. Size - 1
  BY HttpTsServerAssumption DEF Place
<1>2. PICK p \in Nat : /\ q * Size + r = p * Size + ((q * Size + r) % Size)
                       /\ (q * Size + r) % Size \in Place
  BY LapAndPlace
<1>3. /\ q * Size \in Int /\ p * Size \in Int
      /\ q < p => q * Size + Size <= p * Size
      /\ p < q => p * Size + Size <= q * Size
  BY <1>1, LapsApart
<1>4. q = p
  BY <1>1, <1>2, <1>3 DEF Place
<1> QED
  BY <1>1, <1>2, <1>3, <1>4 DEF Place

\* Moving on from a position is moving on from the number.
LEMMA PlaceMoves ==
  ASSUME NEW a \in Nat, NEW b \in Nat
  PROVE  ((a % Size) + b) % Size = (a + b) % Size
<1>1. Size \in Nat \ {0}
  BY HttpTsServerAssumption
<1>2. PICK q \in Nat : a = q * Size + (a % Size) /\ a % Size \in Place
  BY LapAndPlace
<1>3. (a % Size) + b \in Nat
  BY <1>1, <1>2 DEF Place
<1>4. PICK p \in Nat : /\ (a % Size) + b = p * Size + (((a % Size) + b) % Size)
                       /\ ((a % Size) + b) % Size \in Place
  BY <1>3, LapAndPlace
<1> DEFINE r == ((a % Size) + b) % Size
<1>5. a + b = (q + p) * Size + r
  <2>1. (q + p) * Size = q * Size + p * Size
    BY <1>1
  <2>2. q * Size \in Int /\ p * Size \in Int
    BY <1>1
  <2> QED BY <1>1, <1>2, <1>4, <2>1, <2>2 DEF Place
<1>6. q + p \in Int /\ r \in Place
  BY <1>4
<1> HIDE DEF r
<1> QED
  BY <1>5, <1>6, PlaceIsUnique DEF r

\* A full lap leads back to the same position.
LEMMA LapReturns == ASSUME NEW a \in Nat PROVE (a + Size) % Size = a % Size
<1>1. Size \in Nat \ {0}
  BY HttpTsServerAssumption
<1>2. PICK q \in Nat : a = q * Size + (a % Size) /\ a % Size \in Place
  BY LapAndPlace
<1>3. a + Size = (q + 1) * Size + (a % Size)
  <2>1. (q + 1) * Size = q * Size + Size /\ q * Size \in Int
    BY <1>1
  <2> QED BY <1>1, <1>2, <2>1 DEF Place
<1>4. q + 1 \in Int /\ a + Size \in Nat
  BY <1>1
<1> QED
  BY <1>2, <1>3, <1>4, PlaceIsUnique

\* From position to position the distance forward is what lies between, within a lap.
LEMMA Distance ==
  ASSUME NEW a \in Nat, NEW d \in 0 .. Size - 1
  PROVE  ((((a + d) % Size) - (a % Size)) + Size) % Size = d
<1>1. Size \in Nat \ {0}
  BY HttpTsServerAssumption
<1>2. PICK q \in Nat : a = q * Size + (a % Size) /\ a % Size \in Place
  BY LapAndPlace
<1>3. PICK p \in Nat : a + d = p * Size + ((a + d) % Size) /\ (a + d) % Size \in Place
  <2>1. a + d \in Nat
    BY <1>1
  <2> QED BY <2>1, LapAndPlace
<1> DEFINE x == (((a + d) % Size) - (a % Size)) + Size
<1>4. x = ((q - p) + 1) * Size + d
  <2> DEFINE m == a % Size
             n == (a + d) % Size
             qS == q * Size
             pS == p * Size
  <2>1. ((q - p) + 1) * Size = (qS - pS) + Size
    BY <1>1
  <2>2. qS \in Int /\ pS \in Int /\ m \in Int /\ n \in Int /\ d \in Int
    BY <1>1, <1>2, <1>3 DEF Place
  <2>3. a = qS + m /\ a + d = pS + n /\ x = (n - m) + Size
    BY <1>2, <1>3
  <2> HIDE DEF m, n, qS, pS, x
  <2> QED BY <1>1, <2>1, <2>2, <2>3
<1>5. x \in Nat
  BY <1>1, <1>2, <1>3 DEF Place
<1>6. (q - p) + 1 \in Int /\ d \in Place
  BY DEF Place
<1> HIDE DEF x
<1> QED
  BY <1>4, <1>5, <1>6, PlaceIsUnique DEF x

\* Numbers with one position are whole laps apart.
LEMMA SamePlace ==
  ASSUME NEW a \in Nat, NEW b \in Nat, a >= b, a % Size = b % Size
  PROVE  (a - b) % Size = 0
<1>1. Size \in Nat \ {0}
  BY HttpTsServerAssumption
<1>2. PICK q \in Nat : a = q * Size + (a % Size) /\ a % Size \in Place
  BY LapAndPlace
<1>3. PICK p \in Nat : b = p * Size + (b % Size) /\ b % Size \in Place
  BY LapAndPlace
<1>4. a - b = (q - p) * Size + 0
  <2>1. (q - p) * Size = (q * Size) - (p * Size) /\ q * Size \in Int /\ p * Size \in Int
    BY <1>1
  <2> QED BY <1>1, <1>2, <1>3, <2>1 DEF Place
<1>5. q - p \in Int /\ 0 \in Place /\ a - b \in Nat
  BY <1>1 DEF Place
<1> QED
  BY <1>4, <1>5, PlaceIsUnique

\* How far a reader at position a may read: what is available is the newest input
\* that starts at the reader's position, no earlier than where the reader is.
LEMMA Behind ==
  ASSUME NEW a \in Nat, NEW w \in Nat, a <= w,
         NEW n, n = IF w % Size >= a % Size THEN (w % Size) - (a % Size)
                                            ELSE (Size - (a % Size)) + (w % Size)
  PROVE  n \in 0 .. Size - 1 /\ a <= w - n /\ (w - n) % Size = a % Size
<1>1. Size \in Nat \ {0}
  BY HttpTsServerAssumption
<1>2. PICK q \in Nat : a = q * Size + (a % Size) /\ a % Size \in Place
  BY LapAndPlace
<1>3. PICK p \in Nat : w = p * Size + (w % Size) /\ w % Size \in Place
  BY LapAndPlace
<1> DEFINE m == a % Size
           v == w % Size
           qS == q * Size
           pS == p * Size
<1>4. qS \in Int /\ pS \in Int /\ m \in 0 .. Size - 1 /\ v \in 0 .. Size - 1
  BY <1>1, <1>2, <1>3 DEF Place
<1>5. a = qS + m /\ w = pS + v /\ n = IF v >= m THEN v - m ELSE (Size - m) + v
  BY <1>2, <1>3
<1>6. /\ p < q => pS + Size <= qS
      /\ q < p => qS + Size <= pS
      /\ (p - 1) * Size = pS - Size
  BY <1>1, LapsApart
<1>7. m \in Place
  BY <1>2
<1>8. CASE v >= m
  <2>1. w - n = pS + m /\ n \in 0 .. Size - 1
    <3> HIDE DEF m, v, qS, pS
    <3> QED BY <1>1, <1>4, <1>5, <1>8
  <2>2. a <= w - n
    <3>1. q <= p \/ p < q
      OBVIOUS
    <3>2. q = p => qS = pS
      OBVIOUS
    <3> HIDE DEF m, v, qS, pS
    <3> QED BY <1>1, <1>4, <1>5, <1>6, <2>1, <3>1, <3>2
  <2>3. pS + m \in Nat
    <3> HIDE DEF m, v, qS, pS
    <3> QED BY <1>4, <1>5, <2>1, <2>2
  <2> QED
    BY <1>7, <2>1, <2>2, <2>3, PlaceIsUnique
<1>9. CASE ~(v >= m)
  <2>1. w - n = (pS - Size) + m /\ n \in 0 .. Size - 1
    <3> HIDE DEF m, v, qS, pS
    <3> QED BY <1>1, <1>4, <1>5, <1>9
  <2>2. a <= w - n
    <3>1. q < p \/ p < q \/ p = q
      OBVIOUS
    <3>2. q = p => qS = pS
      OBVIOUS
    <3> HIDE DEF m, v, qS, pS
    <3> QED BY <1>1, <1>4, <1>5, <1>6, <1>9, <2>1, <3>1, <3>2
  <2>3. (p - 1) * Size + m \in Nat /\ w - n = (p - 1) * Size + m /\ p - 1 \in Int
    <3>1. (p - 1) * Size = pS - Size /\ p - 1 \in Int
      BY <1>6
    <3> HIDE DEF m, v, qS, pS
    <3> QED BY <1>1, <1>4, <1>5, <2>1, <2>2, <3>1
  <2> QED
    BY <1>7, <2>1, <2>2, <2>3, PlaceIsUnique
<1> QED
  BY <1>8, <1>9

-----------------------------------------------------------------------------
(* The order of a stream *)

\* The ring holds the newest units, each at its position.
Window == \A u \in Nat : u < received /\ received <= u + Size => data[u % Size] = u

\* read_pos is the position of the unit that its connection is owed.
ReaderAt(c) == next[c] <= received /\ client[index[c]].readPos = next[c] % Size

\* What has been read is a run of the input, from a unit with the same position on.
ReadRun(c) ==
  pc[c] = "read" =>
    \E f \in Nat :
      /\ next[c] <= f /\ f % Size = next[c] % Size /\ f + Len(buf[c]) <= received
      /\ \A k \in 1 .. Len(buf[c]) : buf[c][k] = f + (k - 1)

OrderInv ==
  /\ Window /\ writePos = received % Size
  /\ \A c \in Conns : Holds(c) => ReaderAt(c) /\ ReadRun(c)

\* A datagram goes to the positions after the newest unit and leaves the others alone.
LEMMA DatagramKeepsOrder ==
  ASSUME HttpTypeInv, OrderInv, NEW n \in 1 .. MaxDatagram, Datagram(n)
  PROVE  OrderInv'
<1>1. /\ Size \in Nat \ {0} /\ n \in Nat /\ n <= Size /\ received \in Nat
      /\ received' = received + n /\ writePos = received % Size
  BY HttpTsServerAssumption DEF Datagram, HttpTypeInv, TypeOK, OrderInv
<1>2. writePos' = received' % Size
  BY <1>1, PlaceMoves DEF Datagram
<1>3. ASSUME NEW u \in Nat, u < received + n, received + n <= u + Size
      PROVE  data'[u % Size] = u
  <2> DEFINE p == u % Size
             k == ((p - writePos) + Size) % Size
  <2>1. p \in Place
    BY ModIsPlace
  <2>2. data'[p] = IF k < n THEN received + k ELSE data[p]
    BY <2>1 DEF Datagram
  <2>3. CASE u >= received
    <3>1. u - received \in 0 .. Size - 1 /\ received + (u - received) = u
      BY <1>1, <1>3, <2>3
    <3>2. k = u - received
      BY <1>1, <3>1, Distance
    <3> HIDE DEF p, k
    <3> QED BY <1>1, <1>3, <2>2, <3>1, <3>2 DEF p
  <2>4. CASE u < received
    <3> DEFINE d == (u + Size) - received
    <3>1. d \in 0 .. Size - 1 /\ d >= n /\ received + d = u + Size
      BY <1>1, <1>3, <2>4
    <3>2. p = (received + d) % Size
      BY <3>1, LapReturns
    <3>3. k = d
      <4> HIDE DEF d, p
      <4> QED BY <1>1, <3>1, <3>2, Distance
    <3>4. data[p] = u
      BY <1>1, <1>3, <2>4 DEF OrderInv, Window
    <3> HIDE DEF d, p, k
    <3> QED BY <1>1, <2>2, <3>1, <3>3, <3>4 DEF p
  <2> QED BY <1>1, <2>3, <2>4
<1>4. Window'
  BY <1>1, <1>3 DEF Window
<1>5. ASSUME NEW c \in Conns, Holds(c)' PROVE (ReaderAt(c) /\ ReadRun(c))'
  <2>1. UNCHANGED <<pc, index, buf, next, client>> /\ Holds(c)
    BY <1>5 DEF Datagram, conns, table, Holds
  <2>2. ReaderAt(c) /\ ReadRun(c) /\ next[c] \in Nat
    BY <2>1 DEF OrderInv, HttpTypeInv, TypeOK
  <2>3. ReaderAt(c)'
    BY <1>1, <2>1, <2>2 DEF ReaderAt
  <2>4. ReadRun(c)'
    <3> SUFFICES ASSUME pc[c] = "read" PROVE ReadRun(c)'
      BY <2>1 DEF ReadRun
    <3>1. PICK f \in Nat :
            /\ next[c] <= f /\ f % Size = next[c] % Size /\ f + Len(buf[c]) <= received
            /\ \A k \in 1 .. Len(buf[c]) : buf[c][k] = f + (k - 1)
      BY <2>2 DEF ReadRun
    <3>2. Len(buf[c]) \in Nat
      BY DEF HttpTypeInv, TypeOK
    <3>3. f + Len(buf[c]) <= received'
      BY <1>1, <3>1, <3>2
    <3> QED BY <2>1, <3>1, <3>3 DEF ReadRun
  <2> QED BY <2>3, <2>4
<1> QED
  BY <1>2, <1>4, <1>5 DEF OrderInv

\* A stream that starts is owed the next unit, and finds read_pos at the writer's position.
LEMMA RegisterKeepsOrder ==
  ASSUME OwnAddresses, HttpTypeInv, Owned, Theirs, OrderInv, NEW c \in Conns, Register(c)
  PROVE  OrderInv'
<1>1. /\ UNCHANGED <<ring, buf>> /\ pc[c] = "none" /\ next' = [next EXCEPT ![c] = received]
      /\ received \in Nat /\ writePos = received % Size
  BY DEF Register, HttpTypeInv, TypeOK, OrderInv
<1>2. Window' /\ (writePos = received % Size)'
  BY <1>1 DEF ring, OrderInv, Window
<1>3. FindClient(Addr(c)) = {}
  <2> SUFFICES ASSUME NEW i \in FindClient(Addr(c)) PROVE FALSE
    OBVIOUS
  <2>1. i \in Active /\ client[i].addr = Addr(c)
    BY DEF FindClient
  <2>2. PICK d \in Conns : index[d] = i /\ Holds(d)
    BY <2>1 DEF Owned
  <2>3. d = c
    BY <2>1, <2>2 DEF Theirs, OwnAddresses
  <2> QED BY <1>1, <2>2, <2>3 DEF Holds
<1>4. \/ pc' = [pc EXCEPT ![c] = "refused"] /\ client' = client /\ index' = index
      \/ \E i \in Client \ Active :
           /\ client' = [client EXCEPT ![i] = [active |-> TRUE, addr |-> Addr(c), readPos |-> writePos]]
           /\ index' = [index EXCEPT ![c] = i] /\ pc' = [pc EXCEPT ![c] = "alloc"]
  BY <1>3 DEF Register, table
<1>5. ASSUME NEW d \in Conns \ {c}, Holds(d)' PROVE (ReaderAt(d) /\ ReadRun(d))'
  <2>1. pc'[d] = pc[d] /\ index'[d] = index[d] /\ next'[d] = next[d] /\ buf' = buf /\ Holds(d)
    BY <1>1, <1>4, <1>5 DEF HttpTypeInv, TypeOK, Holds
  <2>2. index[d] \in Active /\ index[d] \in Client
    BY <2>1 DEF Theirs, Active
  <2>3. client'[index[d]] = client[index[d]]
    BY <1>4, <2>2 DEF HttpTypeInv, TypeOK
  <2>4. ReaderAt(d) /\ ReadRun(d)
    BY <2>1 DEF OrderInv
  <2> QED
    BY <1>1, <2>1, <2>3, <2>4 DEF ReaderAt, ReadRun, ring
<1>6. ASSUME Holds(c)' PROVE (ReaderAt(c) /\ ReadRun(c))'
  <2>1. pc'[c] = "alloc" /\ client'[index'[c]].readPos = writePos /\ next'[c] = received
    BY <1>1, <1>4, <1>6 DEF HttpTypeInv, TypeOK, Holds
  <2> QED
    BY <1>1, <2>1 DEF ReaderAt, ReadRun, ring
<1> QED
  BY <1>2, <1>5, <1>6 DEF OrderInv

\* A slot that is taken back was its own connection's.
LEMMA RemovalKeepsOrder ==
  ASSUME OwnAddresses, HttpTypeInv, Theirs, OrderInv, NEW c \in Conns, StreamFails(c) \/ FreeStream(c)
  PROVE  OrderInv'
<1>1. /\ UNCHANGED <<ring, index, buf, next>> /\ pc' = [pc EXCEPT ![c] = "gone"]
      /\ RemoveClient(index[c]) /\ index[c] \in Client /\ Holds(c)
  BY DEF StreamFails, FreeStream, Holds, HttpTypeInv, TypeOK
<1>2. Window' /\ (writePos = received % Size)'
  BY <1>1 DEF ring, OrderInv, Window
<1>3. ASSUME NEW d \in Conns, Holds(d)' PROVE (ReaderAt(d) /\ ReadRun(d))'
  <2>1. d # c /\ Holds(d) /\ pc'[d] = pc[d] /\ index[d] \in Client
    BY <1>1, <1>3 DEF Holds, HttpTypeInv, TypeOK
  <2>2. index[d] # index[c]
    BY <1>1, <2>1 DEF Theirs, OwnAddresses
  <2>3. client'[index[d]] = client[index[d]]
    BY <1>1, <2>1, <2>2, Removal
  <2>4. ReaderAt(d) /\ ReadRun(d)
    BY <2>1 DEF OrderInv
  <2> QED
    BY <1>1, <2>1, <2>3, <2>4 DEF ReaderAt, ReadRun, ring
<1> QED
  BY <1>2, <1>3 DEF OrderInv

\* ring_buffer_read copies a run of the input that starts at read_pos.
LEMMA ReadKeepsOrder ==
  ASSUME HttpTypeInv, OrderInv, NEW c \in Conns, Read(c)
  PROVE  OrderInv'
<1> DEFINE from == client[index[c]].readPos
           n == Available(from)
           m == IF n < MaxRead THEN n ELSE MaxRead
           f == received - n
<1>1. /\ UNCHANGED <<ring, index, next, client>> /\ pc' = [pc EXCEPT ![c] = "read"]
      /\ Holds(c) /\ received \in Nat /\ writePos = received % Size
      /\ buf' = [buf EXCEPT ![c] = ReadFrom(from, m)] /\ n > 0
  BY DEF Read, table, Holds, HttpTypeInv, TypeOK, OrderInv
<1>2. from = next[c] % Size /\ next[c] <= received /\ next[c] \in Nat
  BY <1>1 DEF OrderInv, ReaderAt, HttpTypeInv, TypeOK
<1>3. n \in 0 .. Size - 1 /\ next[c] <= f /\ f % Size = next[c] % Size
  <2>1. n = IF received % Size >= next[c] % Size THEN (received % Size) - (next[c] % Size)
                                                 ELSE (Size - (next[c] % Size)) + (received % Size)
    BY <1>1, <1>2 DEF Available
  <2> HIDE DEF n
  <2> QED BY <1>1, <1>2, <2>1, Behind
<1>4. f \in Nat /\ m \in Nat /\ m <= n /\ Size \in Nat \ {0}
  <2> HIDE DEF n, from
  <2> QED BY <1>1, <1>2, <1>3, HttpTsServerAssumption
<1>5. ASSUME NEW k \in 1 .. m PROVE data[(from + (k - 1)) % Size] = f + (k - 1)
  <2> HIDE DEF n, m, from, f
  <2>1. k - 1 \in Nat /\ f + (k - 1) \in Nat
    BY <1>4
  <2>2. (from + (k - 1)) % Size = (f + (k - 1)) % Size
    BY <1>2, <1>3, <1>4, <2>1, PlaceMoves
  <2>3. f + (k - 1) < received /\ received <= (f + (k - 1)) + Size
    BY <1>1, <1>3, <1>4 DEF f
  <2> QED
    BY <2>1, <2>2, <2>3 DEF OrderInv, Window
<1>6. /\ Len(buf'[c]) = m /\ \A k \in 1 .. m : buf'[c][k] = f + (k - 1)
      /\ \A d \in Conns \ {c} : buf'[d] = buf[d]
  <2>1. /\ buf'[c] = [k \in 1 .. m |-> data[(from + (k - 1)) % Size]]
        /\ \A d \in Conns \ {c} : buf'[d] = buf[d]
    BY <1>1 DEF ReadFrom, HttpTypeInv, TypeOK
  <2> HIDE DEF n, m, from, f
  <2> QED BY <1>4, <1>5, <2>1
<1>7. f + m <= received
  <2> HIDE DEF n, m
  <2> QED BY <1>1, <1>3, <1>4
<1>8. ASSUME NEW d \in Conns, Holds(d)' PROVE (ReaderAt(d) /\ ReadRun(d))'
  <2>1. Holds(d)
    BY <1>1, <1>8 DEF Holds, HttpTypeInv, TypeOK
  <2>2. ReaderAt(d) /\ ReadRun(d)
    BY <2>1 DEF OrderInv
  <2>3. ReaderAt(d)'
    BY <1>1, <2>2 DEF ReaderAt, ring
  <2>4. ReadRun(d)'
    <3>1. CASE d = c
      <4>1. /\ Len(buf'[c]) = m /\ \A k \in 1 .. m : buf'[c][k] = f + (k - 1)
            /\ next' = next /\ received' = received
        BY <1>1, <1>6 DEF ring
      <4> HIDE DEF n, m, from, f
      <4>2. /\ f \in Nat /\ next'[c] <= f /\ f % Size = next'[c] % Size
            /\ f + Len(buf'[c]) <= received'
        BY <1>3, <1>4, <1>7, <4>1
      <4>3. \A k \in 1 .. Len(buf'[c]) : buf'[c][k] = f + (k - 1)
        BY <4>1
      <4> QED BY <3>1, <4>2, <4>3 DEF ReadRun
    <3>2. CASE d # c
      BY <1>1, <1>6, <2>2, <3>2 DEF ReadRun, ring, HttpTypeInv, TypeOK
    <3> QED BY <3>1, <3>2
  <2> QED BY <2>3, <2>4
<1>9. Window' /\ (writePos = received % Size)'
  BY <1>1 DEF ring, OrderInv, Window
<1> QED
  BY <1>8, <1>9 DEF OrderInv

\* read_pos moves on by what was read, and the unit that is owed with it.
LEMMA AdvanceKeepsOrder ==
  ASSUME OwnAddresses, HttpTypeInv, Theirs, OrderInv, NEW c \in Conns, Advance(c)
  PROVE  OrderInv'
<1> DEFINE l == Len(buf[c])
<1>1. /\ UNCHANGED <<ring, index>> /\ pc[c] = "read" /\ pc' = [pc EXCEPT ![c] = "open"]
      /\ client' = [client EXCEPT ![index[c]] =
           [active |-> client[index[c]].active, addr |-> client[index[c]].addr,
            readPos |-> (client[index[c]].readPos + l) % Size]]
      /\ next' = [next EXCEPT ![c] = buf[c][l] + 1] /\ buf' = [buf EXCEPT ![c] = <<>>]
      /\ index[c] \in Client /\ Holds(c) /\ received \in Nat /\ l \in Nat \ {0}
  BY DEF Advance, Holds, HttpTypeInv, TypeOK
<1>2. ReaderAt(c) /\ ReadRun(c) /\ next[c] \in Nat
  BY <1>1 DEF OrderInv, HttpTypeInv, TypeOK
<1>3. PICK f \in Nat : /\ next[c] <= f /\ f % Size = next[c] % Size /\ f + l <= received
                       /\ \A k \in 1 .. l : buf[c][k] = f + (k - 1)
  BY <1>1, <1>2 DEF ReadRun
<1>4. next'[c] = f + l
  <2>1. buf[c][l] = f + (l - 1)
    <3> HIDE DEF l
    <3> QED BY <1>1, <1>3
  <2>2. next'[c] = buf[c][l] + 1
    BY <1>1 DEF HttpTypeInv, TypeOK
  <2> HIDE DEF l
  <2> QED BY <1>1, <2>1, <2>2
<1>5. client'[index[c]].readPos = (f + l) % Size
  <2>1. client'[index[c]].readPos = ((f % Size) + l) % Size
    BY <1>1, <1>2, <1>3 DEF ReaderAt, HttpTypeInv, TypeOK
  <2> HIDE DEF l
  <2> QED BY <1>1, <2>1, PlaceMoves
<1>6. ASSUME NEW d \in Conns \ {c}, Holds(d)' PROVE (ReaderAt(d) /\ ReadRun(d))'
  <2>1. Holds(d) /\ pc'[d] = pc[d] /\ next'[d] = next[d] /\ buf'[d] = buf[d] /\ index[d] \in Client
    BY <1>1, <1>6 DEF Holds, HttpTypeInv, TypeOK
  <2>2. index[d] # index[c]
    BY <1>1, <2>1 DEF Theirs, OwnAddresses
  <2>3. client'[index[d]] = client[index[d]]
    BY <1>1, <2>1, <2>2 DEF HttpTypeInv, TypeOK
  <2>4. ReaderAt(d) /\ ReadRun(d)
    BY <2>1 DEF OrderInv
  <2> QED
    BY <1>1, <2>1, <2>3, <2>4 DEF ReaderAt, ReadRun, ring
<1>7. (ReaderAt(c) /\ ReadRun(c))'
  <2>1. pc'[c] = "open"
    BY <1>1 DEF HttpTypeInv, TypeOK
  <2> HIDE DEF l
  <2> QED BY <1>1, <1>3, <1>4, <1>5, <2>1 DEF ReaderAt, ReadRun, ring
<1>8. Window' /\ (writePos = received % Size)'
  BY <1>1 DEF ring, OrderInv, Window
<1> QED
  BY <1>6, <1>7, <1>8 DEF OrderInv

\* Every step keeps the ring in order, and each reader at what it is owed.
LEMMA OrderStep ==
  ASSUME OwnAddresses
  PROVE  HttpTypeInv /\ Owned /\ Theirs /\ OrderInv /\ [Next]_vars => OrderInv'
<1> SUFFICES ASSUME HttpTypeInv, Owned, Theirs, OrderInv, [Next]_vars PROVE OrderInv'
  OBVIOUS
<1>1. ASSUME NEW c \in Conns, StreamStarts(c) \/ ResponseFails(c) \/ StreamEnds(c) \/ PeerCloses(c) PROVE OrderInv'
  <2>1. /\ UNCHANGED <<ring, client, index, buf, next>>
        /\ \A d \in Conns : /\ Holds(d)' => Holds(d)
                            /\ pc'[d] = "read" => pc[d] = "read"
    BY <1>1 DEF StreamStarts, ResponseFails, StreamEnds, PeerCloses, table, Holds, HttpTypeInv, TypeOK
  <2> QED
    BY <2>1 DEF OrderInv, Window, ReaderAt, ReadRun, ring
<1>2. CASE SignalHandler \/ MainSeesStop \/ StopDaemon \/ UNCHANGED vars
  BY <1>2 DEF SignalHandler, MainSeesStop, StopDaemon, vars, ring, table, conns,
     OrderInv, Window, ReaderAt, ReadRun, Holds
<1> QED
  BY <1>1, <1>2, DatagramKeepsOrder, RegisterKeepsOrder, RemovalKeepsOrder, ReadKeepsOrder,
     AdvanceKeepsOrder DEF Next, ConnStep, Finished

\* If every peer has an address of its own, what it is sent is the input in order,
\* without gaps within a read and with whole laps missing between reads at most.
THEOREM StreamIsOrderedHolds ==
  ASSUME OwnAddresses
  PROVE  Spec => []StreamIsOrdered
<1>1. Init => HttpTypeInv /\ Owned /\ Theirs /\ OrderInv
  <2> SUFFICES ASSUME Init PROVE HttpTypeInv /\ Owned /\ Theirs /\ OrderInv
    OBVIOUS
  <2>1. 0 % Size = 0
    <3>1. 0 \in Int /\ 0 \in Place /\ 0 * Size + 0 = 0
      BY HttpTsServerAssumption DEF Place
    <3> QED BY <3>1, PlaceIsUnique
  <2>2. Window
    BY DEF Init, Window
  <2> QED
    BY <2>1, <2>2, HttpTypeInit DEF Init, Owned, Theirs, OrderInv, Holds, Active, NoClient
<1>2. HttpTypeInv /\ OrderInv => StreamIsOrdered
  <2> SUFFICES ASSUME HttpTypeInv, OrderInv, NEW c \in Conns, pc[c] = "read"
               PROVE  /\ \A k \in 1 .. Len(buf[c]) : buf[c][k] = buf[c][1] + (k - 1)
                      /\ buf[c][1] >= next[c]
                      /\ (buf[c][1] - next[c]) % Size = 0
    BY DEF StreamIsOrdered
  <2>1. Len(buf[c]) \in Nat \ {0} /\ next[c] \in Nat
    BY DEF HttpTypeInv, TypeOK
  <2>2. PICK f \in Nat : /\ next[c] <= f /\ f % Size = next[c] % Size
                         /\ \A k \in 1 .. Len(buf[c]) : buf[c][k] = f + (k - 1)
    BY DEF OrderInv, ReadRun, Holds
  <2>3. buf[c][1] = f
    BY <2>1, <2>2
  <2> QED
    BY <2>1, <2>2, <2>3, SamePlace
<1> QED
  BY <1>1, <1>2, TypeStep, OwnedStep, TheirsStep, OrderStep, PTL DEF Spec
=============================================================================
