----------------------------- MODULE BusProofs -----------------------------
(***************************************************************************)
(* The server as a bus: who leaves the client list and what a removal does *)
(* to the others, the order in which the messages of a sender are relayed, *)
(* and that the server implements the abstract bus.                        *)
(***************************************************************************)
EXTENDS RocsServerProofs

(***************************************************************************)
(* A step, as RemovesOnlyDeparted wants every step to be.                  *)
(***************************************************************************)
Orderly ==
  /\ \A c \in Clients : Drops(c) => Gone(c) /\ toServer[c] = <<>>
  /\ OrderKept

(***************************************************************************)
(* A step that leaves the list alone is orderly.                           *)
(***************************************************************************)
LEMMA SameListOrderly == ASSUME UNCHANGED clients PROVE Orderly
  BY DEF Orderly, Drops, Listed, OrderKept, Before

(***************************************************************************)
(* So is one that adds a client at the end.                                *)
(***************************************************************************)
LEMMA LongerListOrderly ==
  ASSUME TypeOK, NEW c0 \in Clients, NEW f \in Filters, AddClient(c0, f)
  PROVE  Orderly
<1>1. /\ Len(clients') = Len(clients) + 1 /\ Len(clients) \in Nat
      /\ \A k \in 1..Len(clients) : clients'[k] = clients[k]
      /\ \A c \in Clients : Listed(c)' <=> Listed(c) \/ c = c0
  BY AppendListed, LenProperties DEF TypeOK
<1>2. \A k \in 1..Len(clients) : k \in 1..Len(clients')
  BY <1>1
<1>3. OrderKept
  BY <1>1, <1>2 DEF OrderKept, Before
<1>4. \A c \in Clients : ~Drops(c)
  BY <1>1 DEF Drops
<1> QED BY <1>3, <1>4 DEF Orderly

(***************************************************************************)
(* And so is a removal: the slot is that of a client that left, and of two *)
(* others the one in front stays in front.                                 *)
(***************************************************************************)
LEMMA RemovalOrderly ==
  ASSUME RegistryInv, RemoveClient
  PROVE  Orderly
<1>1. /\ TypeOK /\ NoDoubleSlot /\ i \in 1..Len(clients) /\ Slot = clients[i].sock
      /\ clients' = RemoveSlot(clients, i) /\ AtEOF(Slot)
  <2>1. Up /\ i \in Nat /\ i >= 1 /\ i <= Len(clients) /\ Len(clients) \in Nat
    BY LenProperties DEF RegistryInv, TypeOK, RemoveClient, Scanning, Up
  <2> QED BY <2>1 DEF RegistryInv, Registered, RemoveClient, Slot
<1>2. /\ Len(clients') = Len(clients) - 1 /\ Len(clients) \in Nat
      /\ \A j \in 1..Len(clients') :
           clients'[j] = IF j < i THEN clients[j] ELSE clients[j + 1]
      /\ \A c \in Clients : Listed(c)' <=> Listed(c) /\ c # clients[i].sock
  BY <1>1, RemoveListed, LenProperties DEF TypeOK
<1>3. \A c \in Clients : Drops(c) => c = Slot
  BY <1>1, <1>2 DEF Drops
<1>4. Gone(Slot) /\ toServer[Slot] = <<>>
  BY <1>1 DEF AtEOF, Gone
<1>5. ASSUME NEW c \in Clients, NEW d \in Clients,
             Before(c, d), Listed(c)', Listed(d)'
      PROVE  Before(c, d)'
  <2>1. PICK j \in 1..Len(clients), k \in 1..Len(clients) :
          j < k /\ clients[j].sock = c /\ clients[k].sock = d
    BY <1>5 DEF Before
  <2>2. j # i /\ k # i
    BY <1>2, <1>5, <2>1
  <2> DEFINE Moved(n) == IF n < i THEN n ELSE n - 1
  <2>3. ASSUME NEW n \in 1..Len(clients), n # i
        PROVE  Moved(n) \in 1..Len(clients') /\ clients'[Moved(n)] = clients[n]
    <3>1. CASE n < i
      BY <1>1, <1>2, <2>3, <3>1
    <3>2. CASE n > i
      <4>1. n - 1 \in 1..Len(clients') /\ ~(n - 1 < i) /\ (n - 1) + 1 = n
        BY <1>1, <1>2, <2>3, <3>2
      <4> QED BY <1>1, <1>2, <3>2, <4>1
    <3> QED BY <1>1, <2>3, <3>1, <3>2
  <2>4. Moved(j) < Moved(k)
    BY <1>1, <1>2, <2>1, <2>2
  <2>5. /\ Moved(j) \in 1..Len(clients') /\ clients'[Moved(j)].sock = c
        /\ Moved(k) \in 1..Len(clients') /\ clients'[Moved(k)].sock = d
    BY <2>1, <2>2, <2>3
  <2> HIDE DEF Moved
  <2> QED BY <2>4, <2>5 DEF Before
<1>6. OrderKept
  BY <1>5 DEF OrderKept
<1> QED BY <1>3, <1>4, <1>6 DEF Orderly

-----------------------------------------------------------------------------
LEMMA DepartureStep == ASSUME RegistryInv, [Next]_vars PROVE Orderly
<1>1. CASE LoginClient
  <2>1. Head(toServer[client_sock]).filter \in Filters /\ client_sock \in Clients
    <3>1. client_sock \in Clients
      BY <1>1 DEF LoginClient, RegistryInv, TypeOK, NoSock
    <3>2. toServer[client_sock] \in Seq(Packets) /\ toServer[client_sock] # <<>>
      BY <1>1, <3>1 DEF LoginClient, RegistryInv, TypeOK
    <3>3. Head(toServer[client_sock]) \in Packets
      BY <3>2, TornHeadType
    <3> QED BY <3>1, <3>3 DEF Packets
  <2> QED BY <1>1, <2>1, LongerListOrderly DEF LoginClient, RegistryInv
<1>2. CASE LoginCut
  <2>1. client_sock \in Clients
    BY <1>2 DEF LoginCut, RegistryInv, TypeOK, NoSock
  <2>2. CASE \E f \in Filters : AddClient(client_sock, f)
    BY <2>1, <2>2, LongerListOrderly DEF RegistryInv
  <2>3. CASE Stop("SIGSEGV")
    BY <2>3, SameListOrderly DEF Stop
  <2> QED BY <1>2, <2>2, <2>3 DEF LoginCut
<1>3. CASE RemoveClient
  BY <1>3, RemovalOrderly
<1>4. CASE \/ Select \/ SelectFails \/ AcceptClient \/ RejectLogin \/ SkipClient
           \/ RecvMessage \/ RecvError \/ RemoveUnfiltered \/ EndScan
           \/ SendToNext \/ EndRelay \/ SignalStep
  BY <1>4, SameListOrderly
  DEF Select, SelectFails, AcceptClient, RejectLogin, SkipClient, RecvMessage,
      RecvError, RemoveUnfiltered, EndScan, SendToNext, EndRelay, SignalStep,
      SignalInSelect, Terminate, Stop, StartRelay
<1>5. CASE \E c \in Clients : ClientStep(c)
  BY <1>5, SameListOrderly
  DEF ClientStep, Connect, SendLogin, SendMessage, Write, ReadMessage,
      Disconnect, serverVars
<1>6. CASE UNCHANGED vars
  BY <1>6, SameListOrderly DEF vars, serverVars
<1> QED BY <1>1, <1>2, <1>3, <1>4, <1>5, <1>6 DEF Next, ServerStep

(***************************************************************************)
(* A running server removes a client only when that client is gone and all *)
(* it wrote was read, and the others keep their order: the removal at the  *)
(* index of the scan takes the right slot, whatever was removed before.    *)
(***************************************************************************)
THEOREM DepartureCorrect == Spec => RemovesOnlyDeparted
<1>1. RegistryInv /\ [Next]_vars => [Orderly]_vars
  BY DepartureStep
<1>2. Spec => []RegistryInv
  BY RegistryInit, RegistryStep, PTL DEF Spec
<1>3. Spec => [][Orderly]_vars
  BY <1>1, <1>2, PTL DEF Spec
<1> QED BY <1>3 DEF RemovesOnlyDeparted, Orderly

-----------------------------------------------------------------------------
(***************************************************************************)
(* The order of the messages of one sender.  Taken(c) packets of c have    *)
(* been read to their end: the packets still in the stream are numbered    *)
(* from there on, and the log has no message of c from there on.  Without  *)
(* short reads the log has all the others, the login apart, and nothing    *)
(* was read of a connection that is not in the list yet.                   *)
(***************************************************************************)
Taken(c) == sent[c] - Len(toServer[c])

StreamInOrder(c) ==
  /\ Taken(c) >= 0
  /\ \A k \in 1..Len(toServer[c]) : toServer[c][k].nr = Taken(c) + k - 1

LogBehindStreams ==
  \A k \in 1..Len(log) : log[k].intact => log[k].nr < Taken(log[k].from)

LogInOrder ==
  \A j, k \in 1..Len(log) :
    j < k /\ FromOneSender(j, k) /\ log[j].intact /\ log[k].intact
      => log[j].nr < log[k].nr

Logged(c, n) ==
  \E k \in 1..Len(log) : log[k].from = c /\ log[k].nr = n /\ log[k].intact

NothingMissing(c) ==
  /\ \A k \in 1..Len(toServer[c]) : toServer[c][k].whole
  /\ ~Listed(c) /\ conn[c] # "closed" => Taken(c) = 0
  /\ conn[c] = "closed" => toServer[c] = <<>>
  /\ \A n \in 1..Taken(c) - 1 : Logged(c, n)

OrderInv ==
  /\ \A c \in Clients : StreamInOrder(c)
  /\ LogBehindStreams
  /\ LogInOrder
  /\ ~ShortReads => \A c \in Clients : NothingMissing(c)

LEMMA StreamType ==
  ASSUME TypeOK, NEW c \in Clients
  PROVE  /\ toServer[c] \in Seq(Packets) /\ Len(toServer[c]) \in Nat
         /\ sent[c] \in Nat /\ Taken(c) \in Int
         /\ Len(toServer[c]) = 0 <=> toServer[c] = <<>>
<1>1. toServer[c] \in Seq(Packets)
  BY DEF TypeOK
<1>2. Len(toServer[c]) \in Nat
  BY <1>1
<1>3. sent[c] \in Nat
  BY BoundAssumption DEF TypeOK
<1>4. Len(toServer[c]) = 0 <=> toServer[c] = <<>>
  BY <1>1, EmptySeq
<1> QED BY <1>1, <1>2, <1>3, <1>4 DEF Taken

LEMMA OrderImpliesSenderOrder ==
  ASSUME TypeOK, OrderInv
  PROVE  SenderOrder
<1>1. ASSUME ~ShortReads, NEW c \in Clients, Listed(c) \/ conn[c] = "closed",
             NEW n \in 1..sent[c] - 1
      PROVE  \/ Logged(c, n)
             \/ Listed(c) /\ \E k \in 1..Len(toServer[c]) : toServer[c][k].nr = n
  <2> DEFINE q == toServer[c]
  <2>1. /\ sent[c] \in Nat /\ q \in Seq(Packets) /\ Len(q) \in Nat
        /\ Taken(c) = sent[c] - Len(q) /\ Taken(c) >= 0
        /\ \A k \in 1..Len(q) : q[k].nr = Taken(c) + k - 1
        /\ conn[c] = "closed" => q = <<>>
        /\ \A m \in 1..Taken(c) - 1 : Logged(c, m)
    BY <1>1, StreamType DEF OrderInv, StreamInOrder, NothingMissing, Taken
  <2>2. n \in Nat /\ n >= 1 /\ n <= sent[c] - 1 /\ Taken(c) \in Int
    BY <1>1, <2>1
  <2> HIDE DEF q
  <2>3. CASE n <= Taken(c) - 1
    BY <2>1, <2>2, <2>3
  <2>4. CASE n > Taken(c) - 1
    <3> DEFINE k == n - Taken(c) + 1
    <3>1. k \in 1..Len(q) /\ Taken(c) + k - 1 = n
      BY <2>1, <2>2, <2>4, SMTT(30)
    <3> HIDE DEF k
    <3>2. k \in 1..Len(q) /\ q[k].nr = n
      BY <2>1, <3>1
    <3>3. conn[c] # "closed"
      BY <2>1, <3>1
    <3> QED BY <1>1, <3>2, <3>3 DEF q
  <2> QED BY <2>2, <2>1, <2>3, <2>4
<1>2. LogInOrder
  BY DEF OrderInv
<1>3. ~ShortReads =>
        \A c \in Clients : Listed(c) \/ conn[c] = "closed" =>
          \A n \in 1..sent[c] - 1 :
            \/ Logged(c, n)
            \/ Listed(c) /\ \E k \in 1..Len(toServer[c]) : toServer[c][k].nr = n
  BY <1>1
<1> QED BY <1>2, <1>3, Zenon DEF SenderOrder, LogInOrder, Logged

LEMMA OrderInit == Init => OrderInv
<1> SUFFICES ASSUME Init PROVE OrderInv
  OBVIOUS
<1>1. Len(<<>>) = 0
  OBVIOUS
<1>2. ASSUME NEW c \in Clients PROVE StreamInOrder(c) /\ NothingMissing(c)
  <2>1. /\ toServer[c] = <<>> /\ Len(toServer[c]) = 0 /\ sent[c] = 0
        /\ conn[c] # "closed" /\ Taken(c) = 0
    BY <1>1 DEF Init, Taken
  <2>2. \A k \in 1..0 : FALSE
    OBVIOUS
  <2>3. \A n \in 1..Taken(c) - 1 : FALSE
    BY <2>1
  <2> QED BY <2>1, <2>2, <2>3 DEF StreamInOrder, NothingMissing
<1>3. \A k \in 1..Len(log) : FALSE
  BY <1>1 DEF Init
<1> QED BY <1>2, <1>3 DEF OrderInv, LogBehindStreams, LogInOrder

(***************************************************************************)
(* What a read leaves of a stream: the head is gone, or the head is torn   *)
(* and nothing intact was read.  Without short reads a whole head is read  *)
(* whole.                                                                  *)
(***************************************************************************)
LEMMA TornHeadNumbers ==
  ASSUME NEW q \in Seq(Packets), q # <<>>
  PROVE  /\ Len(TornHead(q)) = Len(q)
         /\ \A k \in 1..Len(q) : TornHead(q)[k].nr = q[k].nr
<1>1. q[1] \in Packets /\ 1 \in 1..Len(q)
  OBVIOUS
<1>2. [q[1] EXCEPT !.whole = FALSE].nr = q[1].nr
  BY <1>1 DEF Packets
<1>3. TornHead(q) = [q EXCEPT ![1] = [q[1] EXCEPT !.whole = FALSE]]
  BY <1>1 DEF TornHead
<1>4. TornHead(q) \in Seq(Packets) /\ Len(TornHead(q)) = Len(q)
  <2>1. TornHead(q) \in Seq(Packets)
    BY TornHeadType
  <2>2. DOMAIN TornHead(q) = 1..Len(q) /\ Len(q) \in Nat
    BY <1>3
  <2> QED BY <2>1, <2>2, LenProperties
<1>5. \A k \in 1..Len(q) :
        TornHead(q)[k] = IF k = 1 THEN [q[1] EXCEPT !.whole = FALSE] ELSE q[k]
  BY <1>3
<1> QED BY <1>2, <1>4, <1>5

HeadRead(q, r) ==
  /\ Len(r.left) = Len(q) - 1
  /\ \A k \in 1..Len(r.left) : r.left[k].nr = q[k + 1].nr

HeadTorn(q, r) ==
  /\ ~r.intact
  /\ Len(r.left) = Len(q)
  /\ \A k \in 1..Len(q) : r.left[k].nr = q[k].nr

LEMMA RecvNumbers ==
  ASSUME NEW q \in Seq(Packets), q # <<>>, NEW r \in rocsmq_recv(q)
  PROVE  /\ HeadRead(q, r) \/ HeadTorn(q, r)
         /\ ~ShortReads /\ Head(q).whole => r.intact /\ r.left = Tail(q)
<1>1. /\ Tail(q) \in Seq(Packets) /\ Len(q) \in Nat /\ Len(Tail(q)) = Len(q) - 1
      /\ \A k \in 1..Len(Tail(q)) : Tail(q)[k] = q[k + 1]
  BY HeadTailProperties
<1>2. r.left = Tail(q) => HeadRead(q, r)
  BY <1>1 DEF HeadRead
<1>3. CASE Head(q).whole
  <2>1. \/ r = [id |-> Head(q).id, intact |-> TRUE, left |-> Tail(q)]
        \/ ShortReads /\ r = [id |-> Head(q).id, intact |-> FALSE, left |-> TornHead(q)]
    BY <1>3 DEF rocsmq_recv, WholeReads, CutReads
  <2>2. CASE r = [id |-> Head(q).id, intact |-> TRUE, left |-> Tail(q)]
    BY <1>2, <2>2
  <2>3. CASE ShortReads /\ r = [id |-> Head(q).id, intact |-> FALSE, left |-> TornHead(q)]
    <3>1. ~r.intact /\ r.left = TornHead(q)
      BY <2>3
    <3> QED BY <2>3, <3>1, TornHeadNumbers DEF HeadTorn
  <2> QED BY <2>1, <2>2, <2>3
<1>4. CASE ~Head(q).whole
  <2>1. r \in [id : Ids, intact : {FALSE},
               left : {Tail(q)} \cup (IF Len(q) > 1 THEN {TornHead(Tail(q))} ELSE {})]
    BY <1>4 DEF rocsmq_recv, RestReads
  <2>2. r.left \in {Tail(q)} \cup (IF Len(q) > 1 THEN {TornHead(Tail(q))} ELSE {})
    BY <2>1
  <2>3. CASE Len(q) > 1 /\ r.left = TornHead(Tail(q))
    <3>1. Tail(q) # <<>>
      <4>1. \A t \in Seq(Packets) : Len(t) # 0 => t # <<>>
        BY EmptySeq
      <4>2. \A l : \A n \in Nat : n > 1 /\ l = n - 1 => l # 0
        OBVIOUS
      <4>3. Len(Tail(q)) # 0
        BY <1>1, <2>3, <4>2, Zenon
      <4> QED BY <1>1, <4>1, <4>3, Zenon
    <3>2. /\ Len(r.left) = Len(Tail(q))
          /\ \A k \in 1..Len(Tail(q)) : r.left[k].nr = Tail(q)[k].nr
      BY <1>1, <2>3, <3>1, TornHeadNumbers
    <3> QED BY <1>1, <1>4, <3>2 DEF HeadRead
  <2> QED BY <1>2, <1>4, <2>2, <2>3
<1> QED BY <1>3, <1>4

(***************************************************************************)
(* A step that moves no stream and relays nothing intact.                  *)
(***************************************************************************)
StaysUnread(c) ==
  /\ ~Listed(c)' /\ conn'[c] # "closed" => ~Listed(c) /\ conn[c] # "closed"
  /\ conn'[c] = "closed" => conn[c] = "closed" \/ toServer[c] = <<>>

SameStream(c) == toServer'[c] = toServer[c] /\ sent'[c] = sent[c] /\ StaysUnread(c)

(***************************************************************************)
(* A step that moves the stream of c0 at most, forward, and relays at most *)
(* its head.                                                               *)
(***************************************************************************)
RelaysHead(c) ==
  \/ UNCHANGED log
  \/ \E e \in Entries :
       /\ log' = Append(log, e)
       /\ e.from = c
       /\ e.intact => e.nr = Taken(c) /\ Taken(c)' = Taken(c) + 1

LEMMA LogMoves ==
  ASSUME TypeOK, NEW c0, RelaysHead(c0)
  PROVE  /\ Len(log) \in Nat /\ Len(log') \in Nat /\ Len(log) <= Len(log')
         /\ \A k \in 1..Len(log) : log'[k] = log[k]
         /\ \A k \in 1..Len(log') : k \notin 1..Len(log) =>
              /\ k = Len(log) + 1 /\ log'[k].from = c0
              /\ log'[k].intact => log'[k].nr = Taken(c0) /\ Taken(c0)' = Taken(c0) + 1
<1>1. log \in Seq(Entries) /\ Len(log) \in Nat
  BY DEF TypeOK
<1>2. CASE UNCHANGED log
  BY <1>1, <1>2
<1>3. ASSUME NEW e \in Entries, log' = Append(log, e), e.from = c0,
             e.intact => e.nr = Taken(c0) /\ Taken(c0)' = Taken(c0) + 1
      PROVE  /\ Len(log') = Len(log) + 1
             /\ \A k \in 1..Len(log) : log'[k] = log[k]
             /\ log'[Len(log) + 1] = e
  BY <1>1, <1>3, AppendProperties
<1> QED BY <1>1, <1>2, <1>3 DEF RelaysHead

LEMMA EntryType ==
  ASSUME TypeOK, NEW k \in 1..Len(log)
  PROVE  log[k].from \in Clients /\ log[k].nr \in Nat /\ log[k].intact \in BOOLEAN
<1>1. log[k] \in Entries
  BY DEF TypeOK
<1> QED BY <1>1, BoundAssumption DEF Entries

LEMMA OrderMoves ==
  ASSUME TypeOK, TypeOK', OrderInv, NEW c0 \in Clients,
         \A c \in Clients : c # c0 => SameStream(c),
         Taken(c0)' >= Taken(c0), StreamInOrder(c0)',
         ~ShortReads => NothingMissing(c0)',
         RelaysHead(c0)
  PROVE  OrderInv'
<1>1. \A c \in Clients : /\ Taken(c) \in Int /\ Taken(c)' \in Int
                         /\ Taken(c) <= Taken(c)'
                         /\ c # c0 => Taken(c)' = Taken(c)
  <2> SUFFICES ASSUME NEW c \in Clients
               PROVE  /\ Taken(c) \in Int /\ Taken(c)' \in Int
                      /\ Taken(c) <= Taken(c)' /\ (c # c0 => Taken(c)' = Taken(c))
    OBVIOUS
  <2>1. Taken(c) \in Int
    BY StreamType
  <2>2. c # c0 => Taken(c)' = Taken(c)
    BY DEF SameStream, Taken
  <2>3. Taken(c0) \in Int /\ Taken(c0)' \in Int
    <3>1. toServer'[c0] \in Seq(Packets) /\ sent'[c0] \in Nat
      BY BoundAssumption DEF TypeOK
    <3>2. Len(toServer'[c0]) \in Nat
      BY <3>1
    <3> QED BY <3>1, <3>2, StreamType DEF Taken
  <2> QED BY <2>1, <2>2, <2>3
<1>2. /\ Len(log) \in Nat /\ Len(log') \in Nat /\ Len(log) <= Len(log')
      /\ \A k \in 1..Len(log) : log'[k] = log[k]
      /\ \A k \in 1..Len(log') : k \notin 1..Len(log) =>
           /\ k = Len(log) + 1 /\ log'[k].from = c0
           /\ log'[k].intact => log'[k].nr = Taken(c0) /\ Taken(c0)' = Taken(c0) + 1
  BY LogMoves
<1>3. ASSUME NEW k \in 1..Len(log)
      PROVE  /\ log[k].from \in Clients /\ log[k].nr \in Nat
             /\ log[k].intact => log[k].nr < Taken(log[k].from)
  <2>1. log[k].intact => log[k].nr < Taken(log[k].from)
    BY DEF OrderInv, LogBehindStreams
  <2> QED BY <2>1, EntryType
<1>4. \A c \in Clients : StreamInOrder(c)'
  <2> SUFFICES ASSUME NEW c \in Clients, c # c0 PROVE StreamInOrder(c)'
    OBVIOUS
  <2>1. StreamInOrder(c) /\ SameStream(c) /\ Taken(c)' = Taken(c)
    BY <1>1 DEF OrderInv
  <2> QED BY <2>1 DEF StreamInOrder, SameStream
<1>5. LogBehindStreams'
  <2> SUFFICES ASSUME NEW k \in 1..Len(log'), log'[k].intact
               PROVE  log'[k].nr < Taken(log[k].from)'
    BY DEF LogBehindStreams
  <2>1. CASE k \in 1..Len(log)
    <3>1. log'[k] = log[k]
      BY <1>2, <2>1
    <3>2. PICK c \in Clients : c = log[k].from
      BY <1>3, <2>1
    <3>3. log[k].nr \in Nat /\ log[k].nr < Taken(c)
      BY <1>3, <2>1, <3>1, <3>2
    <3>4. Taken(c) \in Int /\ Taken(c)' \in Int /\ Taken(c) <= Taken(c)'
      BY <1>1
    <3>5. log'[k].nr < Taken(c)'
      BY <3>1, <3>3, <3>4
    <3>6. Taken(log[k].from)' = Taken(c)'
      BY <3>1, <3>2 DEF Taken
    <3> QED BY <3>5, <3>6
  <2>2. CASE k \notin 1..Len(log)
    <3>1. /\ log'[k].nr = Taken(c0) /\ Taken(c0)' = Taken(c0) + 1
          /\ log'[k].from = c0
      BY <1>2, <2>2
    <3>2. Taken(log[k].from)' = Taken(c0)'
      BY <3>1 DEF Taken
    <3>3. Taken(c0) \in Int
      BY <1>1
    <3> QED BY <3>1, <3>2, <3>3
  <2> QED BY <2>1, <2>2
<1>6. LogInOrder'
  <2> SUFFICES ASSUME NEW j \in 1..Len(log'), NEW k \in 1..Len(log'), j < k,
                      log'[j].from = log'[k].from, log'[j].intact, log'[k].intact
               PROVE  log'[j].nr < log'[k].nr
    BY DEF LogInOrder, FromOneSender
  <2>1. j \in 1..Len(log)
    BY <1>2
  <2>2. CASE k \in 1..Len(log)
    BY <1>2, <2>1, <2>2 DEF OrderInv, LogInOrder, FromOneSender
  <2>3. CASE k \notin 1..Len(log)
    <3>1. log'[k].from = c0 /\ log'[k].nr = Taken(c0) /\ log'[j] = log[j]
      BY <1>2, <2>1, <2>3
    <3> QED BY <1>3, <2>1, <3>1
  <2> QED BY <2>2, <2>3
<1>7. \A c, n : Logged(c, n) => Logged(c, n)'
  BY <1>2 DEF Logged
<1>8. ~ShortReads => \A c \in Clients : NothingMissing(c)'
  <2> SUFFICES ASSUME ~ShortReads, NEW c \in Clients, c # c0
               PROVE  NothingMissing(c)'
    OBVIOUS
  <2>1. NothingMissing(c) /\ SameStream(c) /\ Taken(c)' = Taken(c)
    BY <1>1 DEF OrderInv
  <2> QED BY <1>7, <2>1 DEF NothingMissing, SameStream, StaysUnread
<1> QED BY <1>4, <1>5, <1>6, <1>8 DEF OrderInv

LEMMA OrderSame ==
  ASSUME TypeOK, TypeOK', OrderInv, NEW c0 \in Clients,
         \A c \in Clients : SameStream(c), RelaysHead(c0)
  PROVE  OrderInv'
<1>1. Taken(c0) \in Int /\ Taken(c0)' = Taken(c0)
  BY StreamType DEF SameStream, Taken
<1>2. StreamInOrder(c0)'
  BY <1>1 DEF OrderInv, StreamInOrder, SameStream
<1>3. \A n : Logged(c0, n) => Logged(c0, n)'
  BY LogMoves DEF Logged
<1>4. ASSUME ~ShortReads PROVE NothingMissing(c0)'
  <2>1. NothingMissing(c0) /\ SameStream(c0)
    BY <1>4 DEF OrderInv
  <2> QED BY <1>1, <1>3, <2>1 DEF NothingMissing, SameStream, StaysUnread
<1> QED BY <1>1, <1>2, <1>4, OrderMoves

LEMMA OrderLogin ==
  ASSUME RegistryInv, OrderInv, TypeOK', LoginClient
  PROVE  OrderInv'
<1> DEFINE q == toServer[client_sock]
<1>1. /\ TypeOK /\ client_sock \in Clients /\ q # <<>>
      /\ ~Listed(client_sock) /\ conn[client_sock] # "closed"
      /\ Head(q).filter \in Filters /\ AddClient(client_sock, Head(q).filter)
      /\ toServer' = [toServer EXCEPT ![client_sock] = Tail(q)]
      /\ UNCHANGED <<conn, sent, log>>
  <2>1. /\ TypeOK /\ pc = "login" /\ q # <<>> /\ Up /\ LoginUnlisted
    BY DEF LoginClient, RegistryInv, Up
  <2>2. client_sock \in Clients /\ ~Listed(client_sock) /\ conn[client_sock] # "closed"
    BY <2>1 DEF TypeOK, LoginUnlisted, Live
  <2>3. Head(q) \in Packets
    BY <2>1, <2>2, StreamType, TornHeadType
  <2> QED BY <2>1, <2>2, <2>3 DEF LoginClient, Packets
<1>2. /\ q \in Seq(Packets) /\ Len(q) \in Nat
      /\ Tail(q) \in Seq(Packets) /\ Len(Tail(q)) = Len(q) - 1
      /\ \A k \in 1..Len(Tail(q)) : Tail(q)[k] = q[k + 1] /\ k + 1 \in 1..Len(q)
  <2>1. q \in Seq(Packets)
    BY <1>1, StreamType
  <2> HIDE DEF q
  <2> QED BY <1>1, <2>1, HeadTailProperties
<1>3. \A c \in Clients : Listed(c)' <=> Listed(c) \/ c = client_sock
  BY <1>1, AppendListed
<1>4. \A c \in Clients :
        toServer'[c] = IF c = client_sock THEN Tail(q) ELSE toServer[c]
  BY <1>1 DEF TypeOK
<1> HIDE DEF q
<1>5. PICK c0 \in Clients : c0 = client_sock
  BY <1>1
<1>6. /\ toServer'[c0] = Tail(q) /\ toServer[c0] = q /\ sent'[c0] = sent[c0]
      /\ sent[c0] \in Nat
  BY <1>1, <1>4, <1>5, StreamType DEF q
<1>7. Taken(c0)' = Taken(c0) + 1 /\ Taken(c0) \in Int
  BY <1>2, <1>6 DEF Taken
<1>8. StreamInOrder(c0)'
  <2>1. StreamInOrder(c0)
    BY DEF OrderInv
  <2>2. Taken(c0) >= 0 /\ \A k \in 1..Len(q) : q[k].nr = Taken(c0) + k - 1
    BY <1>6, <2>1 DEF StreamInOrder
  <2>3. ASSUME NEW k \in 1..Len(Tail(q))
        PROVE  Tail(q)[k].nr = Taken(c0)' + k - 1
    <3>1. Tail(q)[k].nr = q[k + 1].nr /\ k + 1 \in 1..Len(q) /\ k \in Nat
      BY <1>2
    <3>2. q[k + 1].nr = Taken(c0) + (k + 1) - 1
      BY <2>2, <3>1
    <3> QED BY <1>7, <3>1, <3>2
  <2> QED BY <1>6, <1>7, <2>2, <2>3 DEF StreamInOrder
<1>9. ASSUME ~ShortReads PROVE NothingMissing(c0)'
  <2>1. NothingMissing(c0)
    BY <1>9 DEF OrderInv
  <2>2. \A k \in 1..Len(Tail(q)) : Tail(q)[k].whole
    BY <1>2, <1>6, <2>1 DEF NothingMissing
  <2>3. Taken(c0)' = 1
    BY <1>1, <1>5, <1>7, <2>1 DEF NothingMissing
  <2>4. \A n \in 1..Taken(c0)' - 1 : FALSE
    BY <2>3
  <2>5. conn'[c0] # "closed" /\ Listed(c0)'
    BY <1>1, <1>3, <1>5
  <2> QED BY <1>6, <2>2, <2>4, <2>5 DEF NothingMissing
<1>10. \A c \in Clients : c # c0 => SameStream(c)
  BY <1>1, <1>3, <1>4, <1>5 DEF SameStream, StaysUnread
<1>11. Taken(c0)' >= Taken(c0) /\ RelaysHead(c0)
  BY <1>1, <1>7 DEF RelaysHead
<1> QED BY <1>1, <1>8, <1>9, <1>10, <1>11, OrderMoves

LEMMA OrderLoginCut ==
  ASSUME RegistryInv, OrderInv, TypeOK', LoginCut
  PROVE  OrderInv'
<1>1. /\ TypeOK /\ client_sock \in Clients /\ ShortReads
      /\ toServer[client_sock] # <<>>
      /\ toServer' = [toServer EXCEPT ![client_sock] = TornHead(@)]
      /\ UNCHANGED <<conn, sent, log>>
  BY DEF LoginCut, RegistryInv, TypeOK
<1>2. PICK c0 \in Clients : c0 = client_sock
  BY <1>1
<1>3. /\ toServer'[c0] = TornHead(toServer[c0]) /\ sent'[c0] = sent[c0]
      /\ Len(toServer'[c0]) = Len(toServer[c0])
      /\ \A k \in 1..Len(toServer[c0]) : toServer'[c0][k].nr = toServer[c0][k].nr
  <2>1. toServer'[c0] = TornHead(toServer[c0]) /\ sent'[c0] = sent[c0]
    BY <1>1, <1>2 DEF TypeOK
  <2>2. toServer[c0] \in Seq(Packets) /\ toServer[c0] # <<>>
    BY <1>1, <1>2, StreamType
  <2> QED BY <2>1, <2>2, TornHeadNumbers
<1>4. Taken(c0)' = Taken(c0) /\ Taken(c0) \in Int
  BY <1>1, <1>3, StreamType DEF Taken
<1>5. StreamInOrder(c0)'
  <2>1. StreamInOrder(c0)
    BY DEF OrderInv
  <2> QED BY <1>3, <1>4, <2>1 DEF StreamInOrder
<1>6. \A c \in Clients : Listed(c) => Listed(c)'
  <2>1. CASE \E f \in Filters : AddClient(client_sock, f)
    BY <1>1, <2>1, AppendListed
  <2>2. CASE Stop("SIGSEGV")
    BY <2>2 DEF Stop, Listed
  <2> QED BY <2>1, <2>2 DEF LoginCut
<1>7. \A c \in Clients : c # c0 => SameStream(c)
  BY <1>1, <1>2, <1>6 DEF SameStream, StaysUnread, TypeOK
<1>8. Taken(c0)' >= Taken(c0) /\ RelaysHead(c0)
  BY <1>1, <1>4 DEF RelaysHead
<1> QED BY <1>1, <1>5, <1>7, <1>8, OrderMoves

LEMMA OrderRecv ==
  ASSUME RegistryInv, OrderInv, TypeOK', RecvMessage
  PROVE  OrderInv'
<1>1. TypeOK /\ Slot \in Clients /\ Listed(Slot) /\ UNCHANGED <<clients, conn, sent>>
  BY ScanSlotType
  DEF RecvMessage, StartRelay, RegistryInv, Listed, Slot
<1>2. PICK c0 \in Clients : c0 = Slot
  BY <1>1
<1> DEFINE q == toServer[c0]
<1>3. q \in Seq(Packets) /\ q # <<>> /\ Len(q) \in Nat
  BY <1>1, <1>2, StreamType DEF RecvMessage
<1>4. PICK r \in rocsmq_recv(q) :
        /\ toServer' = [toServer EXCEPT ![c0] = r.left]
        /\ log' = Append(log, [from |-> c0, id |-> r.id,
                               nr |-> Head(q).nr, intact |-> r.intact])
  BY <1>2 DEF RecvMessage, StartRelay
<1> DEFINE e == [from |-> c0, id |-> r.id, nr |-> Head(q).nr, intact |-> r.intact]
<1>5. \A c \in Clients : toServer'[c] = IF c = c0 THEN r.left ELSE toServer[c]
  BY <1>1, <1>4 DEF TypeOK
<1>6. /\ Head(q) \in Packets /\ Head(q) = q[1] /\ 1 \in 1..Len(q)
      /\ r.id \in Ids /\ r.intact \in BOOLEAN
      /\ HeadRead(q, r) \/ HeadTorn(q, r)
      /\ ~ShortReads /\ Head(q).whole => r.intact /\ r.left = Tail(q)
      /\ Len(Tail(q)) = Len(q) - 1
      /\ \A k \in 1..Len(Tail(q)) : Tail(q)[k] = q[k + 1] /\ k + 1 \in 1..Len(q)
  <2> HIDE DEF q, e
  <2>1. Head(q) \in Packets /\ Head(q) = q[1] /\ 1 \in 1..Len(q)
    BY <1>3
  <2>2. r.id \in Ids /\ r.intact \in BOOLEAN
    BY <1>3, RecvType
  <2>3. /\ HeadRead(q, r) \/ HeadTorn(q, r)
        /\ ~ShortReads /\ Head(q).whole => r.intact /\ r.left = Tail(q)
    BY <1>3, RecvNumbers
  <2>4. /\ Len(Tail(q)) = Len(q) - 1
        /\ \A k \in 1..Len(Tail(q)) : Tail(q)[k] = q[k + 1] /\ k + 1 \in 1..Len(q)
    BY <1>3, HeadTailProperties
  <2> QED BY <2>1, <2>2, <2>3, <2>4
<1>7. /\ e \in Entries /\ e.from = c0 /\ e.nr = q[1].nr /\ (e.intact <=> r.intact)
      /\ log' = Append(log, e)
  BY <1>4, <1>6 DEF Entries, Packets
<1>8. /\ Taken(c0) \in Int /\ Taken(c0) >= 0 /\ Taken(c0) = sent[c0] - Len(q)
      /\ sent[c0] \in Nat
      /\ \A k \in 1..Len(q) : q[k].nr = Taken(c0) + k - 1
  <2>1. StreamInOrder(c0)
    BY DEF OrderInv
  <2> QED BY <1>1, <2>1, StreamType DEF StreamInOrder, Taken
<1>9. /\ toServer'[c0] = r.left /\ sent'[c0] = sent[c0]
      /\ Taken(c0)' = sent[c0] - Len(r.left)
  BY <1>1, <1>5 DEF Taken
<1>10. q[1].nr = Taken(c0)
  BY <1>6, <1>8
<1> HIDE DEF q, e
<1> HIDE DEF q, e
<1>11. /\ Taken(c0)' >= Taken(c0)
       /\ r.intact => Taken(c0)' = Taken(c0) + 1
       /\ StreamInOrder(c0)'
  <2>1. CASE HeadRead(q, r)
    <3>1. Len(r.left) = Len(q) - 1
      BY <2>1 DEF HeadRead
    <3>2. Taken(c0)' = Taken(c0) + 1
      BY <1>3, <1>8, <1>9, <3>1
    <3>3. ASSUME NEW k \in 1..Len(r.left) PROVE r.left[k].nr = Taken(c0)' + k - 1
      <4>1. k \in Nat /\ k + 1 \in 1..Len(q)
        BY <1>3, <3>1
      <4>2. r.left[k].nr = q[k + 1].nr
        BY <2>1 DEF HeadRead
      <4>3. q[k + 1].nr = Taken(c0) + (k + 1) - 1
        BY <1>8, <4>1
      <4>4. \A t \in Int : t + (k + 1) - 1 = (t + 1) + k - 1
        BY <4>1
      <4> QED BY <1>8, <3>2, <4>2, <4>3, <4>4
    <3> QED BY <1>8, <1>9, <3>2, <3>3 DEF StreamInOrder
  <2>2. CASE HeadTorn(q, r)
    <3>1. ~r.intact /\ Len(r.left) = Len(q)
      BY <2>2 DEF HeadTorn
    <3>2. Taken(c0)' = Taken(c0)
      BY <1>8, <1>9, <3>1
    <3>3. ASSUME NEW k \in 1..Len(r.left) PROVE r.left[k].nr = Taken(c0)' + k - 1
      <4>1. k \in 1..Len(q)
        BY <3>1
      <4> QED BY <1>8, <2>2, <3>2, <4>1 DEF HeadTorn
    <3>4. StreamInOrder(c0)'
      BY <1>8, <1>9, <3>2, <3>3 DEF StreamInOrder
    <3>5. Taken(c0)' >= Taken(c0)
      BY <1>8, <3>2
    <3> QED BY <3>1, <3>4, <3>5
  <2> QED BY <1>6, <2>1, <2>2
<1>12. RelaysHead(c0)
  BY <1>7, <1>10, <1>11 DEF RelaysHead
<1>13. ASSUME ~ShortReads PROVE NothingMissing(c0)'
  <2>1. NothingMissing(c0) /\ toServer[c0] = q
    BY <1>13 DEF OrderInv, q
  <2>2. r.intact /\ r.left = Tail(q)
    <3>1. \A k \in 1..Len(q) : q[k].whole
      BY <2>1 DEF NothingMissing
    <3>2. Head(q).whole
      BY <1>6, <3>1
    <3> QED BY <1>6, <1>13, <3>2
  <2>3. \A k \in 1..Len(r.left) : r.left[k].whole
    BY <1>6, <2>1, <2>2 DEF NothingMissing
  <2>4. Listed(c0)' /\ conn'[c0] # "closed"
    BY <1>1, <1>2, <1>3, <2>1 DEF NothingMissing, Listed
  <2>5. ASSUME NEW n \in 1..Taken(c0)' - 1 PROVE Logged(c0, n)'
    <3>1. /\ Len(log) \in Nat /\ log' = Append(log, e) /\ Len(log') = Len(log) + 1
          /\ log'[Len(log) + 1] = e
          /\ \A k \in 1..Len(log) : log'[k] = log[k] /\ k \in 1..Len(log')
      <4>1. log \in Seq(Entries)
        BY <1>1 DEF TypeOK
      <4>2. Len(log) \in Nat /\ Len(log') = Len(log) + 1
        BY <1>7, <4>1
      <4> QED BY <1>7, <4>1, <4>2
    <3>2. CASE n = Taken(c0)
      <4>1. Len(log) + 1 \in 1..Len(log')
        BY <3>1
      <4> QED BY <1>7, <1>10, <2>2, <3>1, <3>2, <4>1 DEF Logged
    <3>3. CASE n # Taken(c0)
      <4>1. n \in 1..Taken(c0) - 1
        BY <1>8, <1>11, <2>2, <3>3
      <4>2. Logged(c0, n)
        BY <2>1, <4>1 DEF NothingMissing
      <4> QED BY <3>1, <4>2 DEF Logged
    <3> QED BY <3>2, <3>3
  <2> QED BY <1>9, <2>3, <2>4, <2>5 DEF NothingMissing
<1>14. \A c \in Clients : c # c0 => SameStream(c)
  BY <1>1, <1>5 DEF SameStream, StaysUnread, Listed
<1> QED BY <1>1, <1>11, <1>12, <1>13, <1>14, OrderMoves

LEMMA OrderRecvError ==
  ASSUME RegistryInv, OrderInv, TypeOK', RecvError
  PROVE  OrderInv'
<1> DEFINE e == [from |-> Slot, id |-> EmptyId, nr |-> 0, intact |-> FALSE]
<1>1. /\ TypeOK /\ Slot \in Clients /\ conn[Slot] = "reset"
      /\ conn' = [conn EXCEPT ![Slot] = "broken"]
      /\ UNCHANGED <<clients, toServer, sent>>
      /\ log' = Append(log, e)
  BY ScanSlotType DEF RecvError, StartRelay, RegistryInv
<1>2. e \in Entries /\ e.from = Slot /\ ~e.intact
  BY <1>1, IdsAssumption, BoundAssumption DEF Entries
<1>3. \A c \in Clients : conn'[c] = IF c = Slot THEN "broken" ELSE conn[c]
  BY <1>1 DEF TypeOK
<1>4. \A c \in Clients : SameStream(c)
  BY <1>1, <1>3 DEF SameStream, StaysUnread, Listed
<1> HIDE DEF e
<1>5. PICK c0 \in Clients : c0 = Slot
  BY <1>1
<1>6. RelaysHead(c0)
  BY <1>1, <1>2, <1>5 DEF RelaysHead
<1> QED BY <1>1, <1>4, <1>6, OrderSame

LEMMA OrderRemove ==
  ASSUME RegistryInv, OrderInv, TypeOK', RemoveClient
  PROVE  OrderInv'
<1>1. /\ TypeOK /\ NoDoubleSlot /\ Slot \in Clients /\ Slot = clients[i].sock
      /\ i \in 1..Len(clients) /\ toServer[Slot] = <<>>
      /\ clients' = RemoveSlot(clients, i)
      /\ conn' = [conn EXCEPT ![Slot] = "closed"]
      /\ UNCHANGED <<toServer, sent, log>>
  BY ScanSlotType
  DEF RemoveClient, RegistryInv, Registered, Up, Scanning, Slot, AtEOF, historyVars
<1>2. \A c \in Clients : Listed(c)' <=> Listed(c) /\ c # Slot
  BY <1>1, RemoveListed
<1>3. \A c \in Clients : conn'[c] = IF c = Slot THEN "closed" ELSE conn[c]
  BY <1>1 DEF TypeOK
<1>4. \A c \in Clients : SameStream(c)
  BY <1>1, <1>2, <1>3 DEF SameStream, StaysUnread
<1>6. PICK c0 \in Clients : c0 = Slot
  BY <1>1
<1>7. RelaysHead(c0)
  BY <1>1 DEF RelaysHead
<1> QED BY <1>1, <1>4, <1>7, OrderSame

LEMMA OrderWrite ==
  ASSUME TypeOK, TypeOK', OrderInv, NEW c0 \in Clients, NEW p \in Packets,
         p.nr = sent[c0], p.whole, Write(c0, p)
  PROVE  OrderInv'
<1> DEFINE q == toServer[c0]
<1>1. /\ conn[c0] = "open" /\ toServer' = [toServer EXCEPT ![c0] = Append(@, p)]
      /\ sent' = [sent EXCEPT ![c0] = @ + 1]
      /\ UNCHANGED <<clients, conn, log>>
  BY DEF Write, serverVars, historyVars
<1>2. q \in Seq(Packets) /\ Len(q) \in Nat /\ sent[c0] \in Nat
      /\ Taken(c0) = sent[c0] - Len(q) /\ Taken(c0) \in Int
  BY StreamType DEF Taken
<1>3. toServer'[c0] = Append(q, p) /\ sent'[c0] = sent[c0] + 1
  BY <1>1 DEF TypeOK
<1> HIDE DEF q
<1>4. /\ Len(Append(q, p)) = Len(q) + 1
      /\ \A k \in 1..Len(q) : Append(q, p)[k] = q[k]
      /\ Append(q, p)[Len(q) + 1] = p
  BY <1>2, AppendProperties
<1>5. Taken(c0)' = Taken(c0)
  BY <1>2, <1>3, <1>4 DEF Taken
<1>6. \A k \in 1..Len(q) + 1 : k \in Nat /\ (k \in 1..Len(q) \/ k = Len(q) + 1)
  BY <1>2
<1>7. StreamInOrder(c0)'
  <2>1. Taken(c0) >= 0 /\ \A k \in 1..Len(q) : q[k].nr = Taken(c0) + k - 1
    BY DEF OrderInv, StreamInOrder, q
  <2>2. sent[c0] = Taken(c0) + (Len(q) + 1) - 1
    BY <1>2
  <2>3. ASSUME NEW k \in 1..Len(q) + 1
        PROVE  Append(q, p)[k].nr = Taken(c0) + k - 1
    <3>1. CASE k \in 1..Len(q)
      BY <1>4, <2>1, <3>1
    <3>2. CASE k = Len(q) + 1
      BY <1>4, <2>2, <3>2
    <3> QED BY <1>6, <3>1, <3>2
  <2> QED BY <1>3, <1>4, <1>5, <2>1, <2>3 DEF StreamInOrder
<1>8. ASSUME ~ShortReads PROVE NothingMissing(c0)'
  <2>1. NothingMissing(c0) /\ toServer[c0] = q
    BY <1>8 DEF OrderInv, q
  <2>2. \A k \in 1..Len(q) + 1 : Append(q, p)[k].whole
    BY <1>4, <1>6, <2>1 DEF NothingMissing
  <2>3. conn'[c0] # "closed" /\ Listed(c0)' = Listed(c0)
    BY <1>1 DEF Listed
  <2>4. \A n : Logged(c0, n)' = Logged(c0, n)
    BY <1>1 DEF Logged
  <2> QED BY <1>1, <1>3, <1>4, <1>5, <2>1, <2>2, <2>3, <2>4 DEF NothingMissing
<1>9. \A c \in Clients : c # c0 => SameStream(c)
  BY <1>1 DEF SameStream, StaysUnread, Listed, TypeOK
<1>10. Taken(c0)' >= Taken(c0) /\ RelaysHead(c0)
  BY <1>1, <1>2, <1>5 DEF RelaysHead
<1> QED BY <1>7, <1>8, <1>9, <1>10, OrderMoves

LEMMA OrderQuiet ==
  ASSUME TypeOK, TypeOK', OrderInv, UNCHANGED <<clients, toServer, sent, log>>,
         \A c \in Clients : conn'[c] = "closed" <=> conn[c] = "closed"
  PROVE  OrderInv'
<1>1. CASE Clients = {}
  <2>1. \A k \in 1..Len(log) : FALSE
    BY <1>1, EntryType
  <2> QED BY <1>1, <2>1 DEF OrderInv, LogBehindStreams, LogInOrder
<1>2. ASSUME NEW c0 \in Clients PROVE OrderInv'
  <2>1. \A c \in Clients : SameStream(c)
    BY DEF SameStream, StaysUnread, Listed
  <2>2. RelaysHead(c0)
    BY DEF RelaysHead
  <2> QED BY <2>1, <2>2, OrderSame
<1> QED BY <1>1, <1>2

LEMMA OrderStep == RegistryInv /\ OrderInv /\ [Next]_vars => OrderInv'
<1> SUFFICES ASSUME RegistryInv, OrderInv, [Next]_vars PROVE OrderInv'
  OBVIOUS
<1>0. TypeOK /\ TypeOK'
  BY TypeStep DEF RegistryInv
<1>1. CASE LoginClient
  BY <1>0, <1>1, OrderLogin
<1>2. CASE LoginCut
  BY <1>0, <1>2, OrderLoginCut
<1>3. CASE RejectLogin
  <2>1. /\ client_sock \in Clients /\ toServer[client_sock] = <<>> /\ ~Listed(client_sock)
        /\ conn' = [conn EXCEPT ![client_sock] = "closed"]
        /\ UNCHANGED <<clients, toServer, sent, log>>
    BY <1>0, <1>3 DEF RejectLogin, AtEOF, TypeOK, historyVars, RegistryInv, LoginUnlisted, Up
  <2>2. \A c \in Clients : conn'[c] = IF c = client_sock THEN "closed" ELSE conn[c]
    BY <1>0, <2>1 DEF TypeOK
  <2>3. \A c \in Clients : SameStream(c)
    BY <2>1, <2>2 DEF SameStream, StaysUnread, Listed
  <2>4. PICK c0 \in Clients : c0 = client_sock
    BY <2>1
  <2>5. RelaysHead(c0)
    BY <2>1 DEF RelaysHead
  <2> QED BY <1>0, <2>3, <2>5, OrderSame
<1>4. CASE RecvMessage
  BY <1>0, <1>4, OrderRecv
<1>5. CASE RecvError
  BY <1>0, <1>5, OrderRecvError
<1>6. CASE RemoveClient
  BY <1>0, <1>6, OrderRemove
<1>7. CASE SendToNext
  <2>1. UNCHANGED <<clients, toServer, sent, log>>
    BY <1>7 DEF SendToNext
  <2>2. \A c \in Clients : conn'[c] = "closed" <=> conn[c] = "closed"
    <3>1. \A c \in Clients : Live(c)' = Live(c) /\ (conn'[c] = "none" <=> conn[c] = "none")
      BY <1>0, <1>7, SendProperties
    <3>2. \A c \in Clients : conn[c] \in ConnStates /\ conn'[c] \in ConnStates
      BY <1>0 DEF TypeOK
    <3> QED BY <3>1, <3>2 DEF Live, ConnStates
  <2> QED BY <1>0, <2>1, <2>2, OrderQuiet
<1>8. CASE \/ Select \/ SelectFails \/ AcceptClient \/ SkipClient
           \/ RemoveUnfiltered \/ EndScan \/ EndRelay \/ SignalStep
  <2>1. UNCHANGED <<clients, toServer, sent, log, conn>>
    BY <1>8
    DEF Select, SelectFails, AcceptClient, SkipClient, RemoveUnfiltered, EndScan,
        EndRelay, SignalStep, SignalInSelect, Terminate, Stop, socketVars, historyVars
  <2> QED BY <1>0, <2>1, OrderQuiet
<1>9. ASSUME NEW c \in Clients, ClientStep(c) PROVE OrderInv'
  <2>1. CASE SendLogin(c)
    <3>1. PICK f \in Filters : Write(c, Login(f))
      BY <2>1 DEF SendLogin
    <3>2. Login(f) \in Packets /\ Login(f).nr = sent[c] /\ Login(f).whole
      BY <2>1, IdsAssumption, BoundAssumption DEF SendLogin, Login, Packets
    <3> QED BY <1>0, <3>1, <3>2, OrderWrite
  <2>2. CASE SendMessage(c)
    <3>1. PICK id \in Ids : Write(c, Message(id, sent[c]))
      BY <2>2 DEF SendMessage
    <3>2. /\ Message(id, sent[c]) \in Packets /\ Message(id, sent[c]).nr = sent[c]
          /\ Message(id, sent[c]).whole
      BY <2>2, FilterAssumption, BoundAssumption DEF SendMessage, Message, Packets
    <3> QED BY <1>0, <3>1, <3>2, OrderWrite
  <2>3. CASE Connect(c) \/ ReadMessage(c) \/ Disconnect(c)
    <3>1. UNCHANGED <<clients, toServer, sent, log>>
      BY <2>3 DEF Connect, ReadMessage, Disconnect, serverVars, historyVars
    <3>2. \A d \in Clients : conn'[d] = "closed" <=> conn[d] = "closed"
      BY <1>0, <2>3 DEF Connect, ReadMessage, Disconnect, TypeOK
    <3> QED BY <1>0, <3>1, <3>2, OrderQuiet
  <2> QED BY <1>9, <2>1, <2>2, <2>3 DEF ClientStep
<1>10. CASE UNCHANGED vars
  BY <1>0, <1>10, OrderQuiet DEF vars, serverVars, socketVars, historyVars
<1> QED BY <1>1, <1>2, <1>3, <1>4, <1>5, <1>6, <1>7, <1>8, <1>9, <1>10
    DEF Next, ServerStep

(***************************************************************************)
(* The messages of one sender are relayed in the order it wrote them, and  *)
(* without short reads none of them is lost or relayed twice, however the  *)
(* scans of the list, the removals and the departures interleave.          *)
(***************************************************************************)
THEOREM SenderOrderCorrect == Spec => []SenderOrder
<1>1. RegistryInv /\ OrderInv => SenderOrder
  BY OrderImpliesSenderOrder DEF RegistryInv
<1> QED BY RegistryInit, RegistryStep, OrderInit, OrderStep, <1>1, PTL DEF Spec

(***************************************************************************)
(* The strengthening ExactDelivery rests on holds throughout as well.      *)
(***************************************************************************)
THEOREM DeliveryInvariant == Spec => []DeliveryInv
  BY DeliveryInit, DeliveryStep, PTL DEF Spec

-----------------------------------------------------------------------------
(***************************************************************************)
(* The refinement: who is in the list is who joined the bus, under the     *)
(* filter of the one slot it has.                                          *)
(***************************************************************************)
SubscriptionIn(s) ==
  [c \in Clients |-> {s[k].filter : k \in {j \in 1..Len(s) : s[j].sock = c}}]

LEMMA SubscriptionOf ==
  ASSUME NEW s, NEW c \in Clients
  PROVE  /\ (\A j \in 1..Len(s) : s[j].sock # c) => SubscriptionIn(s)[c] = {}
         /\ \A k \in 1..Len(s) :
              s[k].sock = c /\ (\A j \in 1..Len(s) : s[j].sock = c => j = k)
                => SubscriptionIn(s)[c] = {s[k].filter}
<1>1. SubscriptionIn(s)[c] = {s[k].filter : k \in {j \in 1..Len(s) : s[j].sock = c}}
  BY DEF SubscriptionIn
<1> QED BY <1>1

LEMMA SubscriptionNow ==
  /\ subscription = SubscriptionIn(clients)
  /\ subscription' = SubscriptionIn(clients')
  BY DEF subscription, SubscriptionIn

LEMMA Subscribed ==
  ASSUME NoDoubleSlot, NEW k \in 1..Len(clients), clients[k].sock \in Clients
  PROVE  subscription[clients[k].sock] = {clients[k].filter}
<1>1. \A j \in 1..Len(clients) : clients[j].sock = clients[k].sock => j = k
  BY DEF NoDoubleSlot
<1> QED BY <1>1, SubscriptionOf, SubscriptionNow

LEMMA Unsubscribed ==
  ASSUME NEW c \in Clients, ~Listed(c)
  PROVE  subscription[c] = {}
  BY SubscriptionOf, SubscriptionNow DEF Listed

(***************************************************************************)
(* A client that enters the list joins the bus.                            *)
(***************************************************************************)
LEMMA JoinStep ==
  ASSUME DeliveryInv, DeliveryInv', pc = "login", NEW f \in Filters,
         AddClient(client_sock, f), FinishLogin, UNCHANGED <<log, delivered, conn>>
  PROVE  Bus!Next
<1>1. /\ TypeOK /\ NoDoubleSlot /\ Up /\ UnlistedUnserved /\ NoDoubleSlot'
      /\ client_sock \in Clients /\ ~Listed(client_sock) /\ Live(client_sock)
  <2>1. Up /\ Up' /\ pc = "login"
    BY DEF FinishLogin, Up
  <2>2. /\ TypeOK /\ NoDoubleSlot /\ UnlistedUnserved /\ LoginUnlisted /\ NoDoubleSlot'
    BY <2>1 DEF DeliveryInv, RegistryInv, Registered
  <2>3. client_sock \in Clients
    BY <2>1, <2>2 DEF TypeOK
  <2> QED BY <2>1, <2>2, <2>3 DEF LoginUnlisted
<1>2. PICK c0 \in Clients : c0 = client_sock
  BY <1>1
<1>3. /\ Len(clients') = Len(clients) + 1 /\ Len(clients) \in Nat
      /\ \A k \in 1..Len(clients) : clients'[k] = clients[k]
      /\ clients'[Len(clients) + 1] = [sock |-> c0, filter |-> f]
      /\ \A c \in Clients : Listed(c)' <=> Listed(c) \/ c = c0
  <2>1. Len(clients) \in Nat
    BY <1>1 DEF TypeOK
  <2> QED BY <1>1, <1>2, <2>1, AppendListed
<1>4. subscription[c0] = {} /\ delivered[c0] = <<>>
  BY <1>1, <1>2, Unsubscribed DEF UnlistedUnserved, Live
<1>5. SubscriptionIn(clients')[c0] = {f}
  <2>1. /\ Len(clients) + 1 \in 1..Len(clients')
        /\ clients'[Len(clients) + 1].sock = c0
        /\ clients'[Len(clients) + 1].filter = f
    BY <1>3
  <2>2. \A j \in 1..Len(clients') : clients'[j].sock = c0 => j = Len(clients) + 1
    BY <1>1, <2>1 DEF NoDoubleSlot
  <2> QED BY <2>1, <2>2, SubscriptionOf
<1>6. ASSUME NEW c \in Clients, c # c0
      PROVE  SubscriptionIn(clients')[c] = SubscriptionIn(clients)[c]
  <2>1. CASE Listed(c)
    <3>1. PICK k \in 1..Len(clients) : clients[k].sock = c
      BY <2>1 DEF Listed
    <3>2. k \in 1..Len(clients') /\ clients'[k] = clients[k]
      BY <1>3
    <3>3. SubscriptionIn(clients)[c] = {clients[k].filter}
      BY <1>1, <3>1, SubscriptionOf DEF NoDoubleSlot
    <3>4. SubscriptionIn(clients')[c] = {clients'[k].filter}
      BY <1>1, <3>1, <3>2, SubscriptionOf DEF NoDoubleSlot
    <3> QED BY <3>2, <3>3, <3>4
  <2>2. CASE ~Listed(c)
    <3>1. ~Listed(c)'
      BY <1>3, <1>6, <2>2
    <3>2. /\ \A j \in 1..Len(clients) : clients[j].sock # c
          /\ \A j \in 1..Len(clients') : clients'[j].sock # c
      BY <2>2, <3>1 DEF Listed
    <3>3. SubscriptionIn(clients)[c] = {}
      BY <3>2, SubscriptionOf
    <3>4. SubscriptionIn(clients')[c] = {}
      BY <3>2, SubscriptionOf
    <3> QED BY <3>3, <3>4
  <2> QED BY <2>1, <2>2
<1>7. subscription' = [subscription EXCEPT ![c0] = {f}]
  <2>1. /\ subscription = [c \in Clients |-> SubscriptionIn(clients)[c]]
        /\ subscription' = [c \in Clients |-> SubscriptionIn(clients')[c]]
    BY SubscriptionNow DEF SubscriptionIn
  <2> QED BY <1>5, <1>6, <2>1
<1>8. joined' = [joined EXCEPT ![c0] = Len(log)]
  BY <1>2 DEF AddClient
<1>9. Bus!Join(c0)
  BY <1>4, <1>7, <1>8 DEF Bus!Join, Bus!Member
<1> QED BY <1>9 DEF Bus!Next

(***************************************************************************)
(* The client that is removed leaves the bus.                              *)
(***************************************************************************)
LEMMA LeaveStep ==
  ASSUME DeliveryInv, DeliveryInv', RemoveClient
  PROVE  Bus!Next
<1>1. /\ TypeOK /\ NoDoubleSlot /\ Slot \in Clients /\ Slot = clients[i].sock
      /\ i \in 1..Len(clients)
      /\ clients' = RemoveSlot(clients, i)
      /\ UNCHANGED <<log, joined, delivered>>
  <2>1. TypeOK /\ Scanning /\ Up /\ NoDoubleSlot
    BY DEF RemoveClient, DeliveryInv, RegistryInv, Registered, Up, Scanning
  <2>2. i \in 1..Len(clients) /\ Slot \in Clients
    BY <2>1, ScanSlotType
  <2> QED BY <2>1, <2>2 DEF RemoveClient, Slot, historyVars
<1>2. PICK c0 \in Clients : c0 = Slot
  BY <1>1
<1>3. /\ Len(clients') = Len(clients) - 1 /\ Len(clients) \in Nat
      /\ \A j \in 1..Len(clients') :
           clients'[j] = IF j < i THEN clients[j] ELSE clients[j + 1]
      /\ NoDoubleSlot'
      /\ \A c \in Clients : Listed(c)' <=> Listed(c) /\ c # c0
  <2>1. Len(clients) \in Nat
    BY <1>1 DEF TypeOK
  <2> QED BY <1>1, <1>2, <2>1, RemoveListed
<1>4. subscription[c0] # {}
  BY <1>1, <1>2, Subscribed
<1>5. SubscriptionIn(clients')[c0] = {}
  BY <1>3, SubscriptionOf DEF Listed
<1>6. ASSUME NEW c \in Clients, c # c0
      PROVE  SubscriptionIn(clients')[c] = SubscriptionIn(clients)[c]
  <2>1. CASE Listed(c)
    <3>1. PICK m \in 1..Len(clients') : clients'[m].sock = c
      BY <1>3, <1>6, <2>1 DEF Listed
    <3> DEFINE k == IF m < i THEN m ELSE m + 1
    <3>2. k \in 1..Len(clients) /\ clients'[m] = clients[k]
      BY <1>1, <1>3
    <3> HIDE DEF k
    <3>3. SubscriptionIn(clients)[c] = {clients[k].filter}
      BY <1>1, <3>1, <3>2, SubscriptionOf DEF NoDoubleSlot
    <3>4. SubscriptionIn(clients')[c] = {clients'[m].filter}
      BY <1>3, <3>1, SubscriptionOf DEF NoDoubleSlot
    <3> QED BY <3>2, <3>3, <3>4
  <2>2. CASE ~Listed(c)
    <3>1. ~Listed(c)'
      BY <1>3, <2>2
    <3>2. /\ \A j \in 1..Len(clients) : clients[j].sock # c
          /\ \A j \in 1..Len(clients') : clients'[j].sock # c
      BY <2>2, <3>1 DEF Listed
    <3>3. SubscriptionIn(clients)[c] = {}
      BY <3>2, SubscriptionOf
    <3>4. SubscriptionIn(clients')[c] = {}
      BY <3>2, SubscriptionOf
    <3> QED BY <3>3, <3>4
  <2> QED BY <2>1, <2>2
<1>7. subscription' = [subscription EXCEPT ![c0] = {}]
  <2>1. /\ subscription = [c \in Clients |-> SubscriptionIn(clients)[c]]
        /\ subscription' = [c \in Clients |-> SubscriptionIn(clients')[c]]
    BY SubscriptionNow DEF SubscriptionIn
  <2> QED BY <1>5, <1>6, <2>1
<1>8. Bus!Leave(c0)
  BY <1>1, <1>4, <1>7 DEF Bus!Leave, Bus!Member
<1> QED BY <1>8 DEF Bus!Next

(***************************************************************************)
(* A message that enters the log is published by the client it came from.  *)
(***************************************************************************)
LEMMA PublishStep ==
  ASSUME TypeOK, TypeOK', NoDoubleSlot, Scanning, NEW e \in Entries, e.from = Slot,
         log' = Append(log, e), UNCHANGED <<clients, joined, delivered>>
  PROVE  Bus!Next
<1>1. i \in 1..Len(clients) /\ Slot = clients[i].sock
  BY ScanSlotType DEF Slot
<1>2. PICK c0 \in Clients : c0 = Slot
  BY ScanSlotType
<1>3. subscription[c0] # {} /\ subscription' = subscription
  <2>1. subscription[c0] = {clients[i].filter}
    BY <1>1, <1>2, Subscribed
  <2>2. subscription' = subscription
    BY <1>1, SubscriptionNow
  <2> QED BY <2>1, <2>2
<1>4. log \in Seq(Entries) /\ Len(log) \in Nat
  BY DEF TypeOK
<1>5. /\ Len(log') = Len(log) + 1
      /\ \A n \in 1..Len(log) : log'[n] = log[n]
      /\ log'[Len(log) + 1] = e
      /\ log' \in Seq(Entries)
  BY <1>4, AppendProperties
<1>6. SubSeq(log', 1, Len(log)) = log
  BY <1>4, <1>5
<1>7. e.id \in Ids
  BY DEF Entries
<1>8. Bus!Publish(c0)
  BY <1>2, <1>3, <1>5, <1>6, <1>7 DEF Bus!Publish, Bus!Member
<1> QED BY <1>8 DEF Bus!Next

(***************************************************************************)
(* A write of send_all delivers the message at the end of the log: the     *)
(* client in the slot was served everything before it.                     *)
(***************************************************************************)
LEMMA DeliverStep ==
  ASSUME DeliveryInv, pc = "relay", NEW k \in 1..Len(clients), IsNextClient(k),
         SendToOpen(k, clients[k].sock), UNCHANGED <<clients, log, joined>>
  PROVE  Bus!Next
<1> DEFINE f == clients[k].filter
<1>1. /\ TypeOK /\ NoDoubleSlot /\ DeliveredTo(k) /\ JoinedBefore
      /\ log # <<>> /\ joined[clients[k].sock] <= RelayedUpTo(k)
  BY DEF DeliveryInv, RegistryInv, Registered, Up, ExactDelivery, JoinedBefore
<1>2. PICK c \in Clients : c = clients[k].sock
  BY <1>1, SlotType
<1> DEFINE d == delivered[c]
<1>3. /\ k > oldclient /\ log[Len(log)].id \in Accepts[f]
  BY <1>1, NextClient
<1>4. Len(log) \in Nat /\ Len(log) >= 1 /\ RelayedUpTo(k) = Len(log) - 1
  BY <1>1, <1>3, EmptySeq DEF RelayedUpTo, TypeOK
<1>5. joined[c] \in Nat /\ d \in Seq(Nat) /\ Len(d) \in Nat
  BY <1>1 DEF TypeOK
<1>6. /\ Increasing(d)
      /\ \A j \in 1..Len(d) : d[j] \in joined[c] + 1..Len(log) - 1
      /\ \A n \in joined[c] + 1..Len(log) - 1 :
           log[n].id \in Accepts[f] => Holds(d, n)
      /\ joined[c] <= Len(log) - 1
  BY <1>1, <1>2, <1>4, SMTT(30) DEF DeliveredTo, SendToOpen
<1>7. delivered' = [delivered EXCEPT ![c] = Append(d, Len(log))]
  BY <1>2 DEF SendToOpen
<1>8. subscription[c] = {f} /\ subscription' = subscription
  <2>1. subscription[c] = {f}
    BY <1>1, <1>2, Subscribed
  <2>2. subscription' = subscription
    BY SubscriptionNow
  <2> QED BY <2>1, <2>2
<1> HIDE DEF f, d
<1>9. \A n : Bus!Matches(c, n) <=> log[n].id \in Accepts[f]
  BY <1>8 DEF Bus!Matches
<1>10. /\ Bus!Served(c) \in Nat /\ Bus!Served(c) < Len(log)
       /\ joined[c] <= Bus!Served(c)
       /\ \A j \in 1..Len(d) : d[j] <= Bus!Served(c)
  <2>1. CASE d = <<>>
    <3>1. Bus!Served(c) = joined[c]
      BY <2>1 DEF Bus!Served, d
    <3>2. \A j \in 1..Len(d) : FALSE
      BY <2>1
    <3> QED BY <1>4, <1>5, <1>6, <3>1, <3>2
  <2>2. CASE d # <<>>
    <3>1. Bus!Served(c) = d[Len(d)]
      BY <2>2 DEF Bus!Served, d
    <3>2. Len(d) \in 1..Len(d)
      BY <1>5, <2>2, EmptySeq
    <3>3. d[Len(d)] \in joined[c] + 1..Len(log) - 1
      BY <1>6, <3>2
    <3>4. ASSUME NEW j \in 1..Len(d) PROVE d[j] <= d[Len(d)]
      <4>1. d[j] \in Nat /\ d[Len(d)] \in Nat
        BY <1>5, <3>2
      <4>2. j < Len(d) => d[j] < d[Len(d)]
        BY <1>6, <3>2 DEF Increasing
      <4>3. j < Len(d) \/ j = Len(d)
        BY <1>5
      <4> QED BY <4>1, <4>2, <4>3
    <3> QED BY <1>4, <1>5, <3>1, <3>3, <3>4
  <2> QED BY <2>1, <2>2
<1>11. Len(log) \in Bus!Served(c) + 1..Len(log)
  BY <1>4, <1>10
<1>12. ASSUME NEW m \in Bus!Served(c) + 1..Len(log) - 1 PROVE ~Bus!Matches(c, m)
  <2> SUFFICES ASSUME log[m].id \in Accepts[f] PROVE FALSE
    BY <1>9
  <2>1. m \in joined[c] + 1..Len(log) - 1 /\ m > Bus!Served(c)
    BY <1>4, <1>5, <1>10
  <2>2. PICK j \in 1..Len(d) : d[j] = m
    BY <1>6, <2>1 DEF Holds
  <2>3. m <= Bus!Served(c)
    BY <1>10, <2>2
  <2> QED BY <1>10, <2>1, <2>3
<1>13. Bus!Deliver(c)
  BY <1>3, <1>7, <1>8, <1>9, <1>11, <1>12 DEF Bus!Deliver, Bus!Member, d
<1> QED BY <1>13 DEF Bus!Next

LEMMA BusQuiet ==
  ASSUME UNCHANGED <<clients, historyVars>>
  PROVE  UNCHANGED Bus!vars
  BY DEF historyVars, Bus!vars, subscription

LEMMA BusStep == DeliveryInv /\ [Next]_vars => [Bus!Next]_Bus!vars
<1> SUFFICES ASSUME DeliveryInv, [Next]_vars PROVE Bus!Next \/ UNCHANGED Bus!vars
  OBVIOUS
<1>0. DeliveryInv' /\ TypeOK /\ TypeOK'
  BY DeliveryStep, TypeStep DEF DeliveryInv, RegistryInv
<1>1. CASE LoginClient
  <2>1. client_sock \in Clients /\ toServer[client_sock] # <<>> /\ pc = "login"
    BY <1>0, <1>1 DEF LoginClient, TypeOK
  <2>2. Head(toServer[client_sock]) \in Packets
    BY <1>0, <2>1, StreamType, TornHeadType
  <2>3. PICK f \in Filters : f = Head(toServer[client_sock]).filter
    BY <2>2 DEF Packets
  <2>4. AddClient(client_sock, f) /\ FinishLogin /\ UNCHANGED <<log, delivered, conn>>
    BY <1>1, <2>3 DEF LoginClient
  <2> QED BY <1>0, <2>1, <2>4, JoinStep
<1>2. CASE LoginCut
  <2>1. pc = "login" /\ UNCHANGED <<log, delivered, conn>>
    BY <1>2 DEF LoginCut
  <2>2. CASE \E f \in Filters : AddClient(client_sock, f) /\ FinishLogin
    BY <1>0, <2>1, <2>2, JoinStep
  <2>3. CASE Stop("SIGSEGV") /\ UNCHANGED joined
    BY <2>1, <2>3, BusQuiet DEF Stop, historyVars
  <2> QED BY <1>2, <2>2, <2>3 DEF LoginCut
<1>3. CASE RemoveClient
  BY <1>0, <1>3, LeaveStep
<1>4. CASE RecvMessage
  <2>1. /\ Scanning /\ NoDoubleSlot /\ Slot \in Clients /\ toServer[Slot] # <<>>
    BY <1>0, <1>4, ScanSlotType
    DEF RecvMessage, DeliveryInv, RegistryInv, Registered, Up, Scanning
  <2>2. PICK r \in rocsmq_recv(toServer[Slot]) :
          StartRelay(r.id, Head(toServer[Slot]).nr, r.intact)
    BY <1>4 DEF RecvMessage
  <2>3. Head(toServer[Slot]) \in Packets /\ r.id \in Ids /\ r.intact \in BOOLEAN
    BY <1>0, <2>1, StreamType, TornHeadType, RecvType
  <2> DEFINE e == [from |-> Slot, id |-> r.id,
                   nr |-> Head(toServer[Slot]).nr, intact |-> r.intact]
  <2>4. e \in Entries /\ e.from = Slot
    BY <2>1, <2>3 DEF Entries, Packets
  <2>5. log' = Append(log, e) /\ UNCHANGED <<clients, joined, delivered>>
    BY <2>2 DEF StartRelay
  <2> HIDE DEF e
  <2> QED BY <1>0, <2>1, <2>4, <2>5, PublishStep
<1>5. CASE RecvError
  <2>1. Scanning /\ NoDoubleSlot /\ Slot \in Clients
    BY <1>0, <1>5, ScanSlotType
    DEF RecvError, DeliveryInv, RegistryInv, Registered, Up, Scanning
  <2> DEFINE e == [from |-> Slot, id |-> EmptyId, nr |-> 0, intact |-> FALSE]
  <2>2. e \in Entries /\ e.from = Slot
    BY <2>1, IdsAssumption, BoundAssumption DEF Entries
  <2>3. log' = Append(log, e) /\ UNCHANGED <<clients, joined, delivered>>
    BY <1>5 DEF RecvError, StartRelay
  <2> HIDE DEF e
  <2> QED BY <1>0, <2>1, <2>2, <2>3, PublishStep
<1>6. CASE SendToNext
  <2>1. /\ pc = "relay" /\ UNCHANGED <<clients, log, joined>>
        /\ \E k \in 1..Len(clients) :
             /\ IsNextClient(k)
             /\ \/ SendToOpen(k, clients[k].sock)
                \/ SendToGone(k, clients[k].sock)
                \/ SendToBroken(clients[k].sock)
    BY <1>6 DEF SendToNext
  <2>2. CASE UNCHANGED delivered
    BY <2>1, <2>2, BusQuiet DEF historyVars
  <2>3. CASE \E k \in 1..Len(clients) : IsNextClient(k) /\ SendToOpen(k, clients[k].sock)
    BY <2>1, <2>3, DeliverStep
  <2> QED BY <2>1, <2>2, <2>3 DEF SendToGone, SendToBroken
<1>7. CASE \/ Select \/ SelectFails \/ AcceptClient \/ RejectLogin \/ SkipClient
           \/ RemoveUnfiltered \/ EndScan \/ EndRelay \/ SignalStep
  BY <1>7, BusQuiet
  DEF Select, SelectFails, AcceptClient, RejectLogin, FinishLogin, SkipClient,
      RemoveUnfiltered, EndScan, EndRelay, SignalStep, SignalInSelect,
      Terminate, Stop
<1>8. CASE \E c \in Clients : ClientStep(c)
  BY <1>8, BusQuiet
  DEF ClientStep, Connect, SendLogin, SendMessage, Write, ReadMessage, Disconnect,
      serverVars
<1>9. CASE UNCHANGED vars
  BY <1>9, BusQuiet DEF vars, serverVars
<1> QED BY <1>1, <1>2, <1>3, <1>4, <1>5, <1>6, <1>7, <1>8, <1>9 DEF Next, ServerStep

LEMMA BusInit == Init => Bus!Init
<1> SUFFICES ASSUME Init PROVE Bus!Init
  OBVIOUS
<1>1. clients = <<>> /\ \A j \in 1..Len(clients) : FALSE
  BY DEF Init
<1>2. \A c \in Clients : SubscriptionIn(clients)[c] = {}
  BY <1>1, SubscriptionOf
<1>3. subscription = [c \in Clients |-> {}]
  BY <1>2, SubscriptionNow DEF SubscriptionIn
<1> QED BY <1>3 DEF Init, Bus!Init

(***************************************************************************)
(* The server implements the abstract message bus: its array of clients,   *)
(* the passes over it, the cursor of send_all and the removals in between  *)
(* come to members that join and leave, one log, and each member given its *)
(* messages one after the other.                                           *)
(***************************************************************************)
THEOREM BusImplemented == Spec => ImplementsBus
<1>1. Spec => []DeliveryInv
  BY DeliveryInvariant
<1>2. Spec => Bus!Init /\ [][Bus!Next]_Bus!vars
  BY <1>1, BusInit, BusStep, PTL DEF Spec
<1> QED BY <1>2 DEF ImplementsBus, Bus!Spec
=============================================================================
