-------------------------- MODULE RocsServerProofs --------------------------
(***************************************************************************)
(* Theorems about the message server, for any number of clients, messages, *)
(* filters and any socket buffer, with or without short reads.             *)
(***************************************************************************)
EXTENDS RocsServer, SequenceTheorems, TLAPS

(***************************************************************************)
(* What read() leaves in the stream is again a stream of packets.          *)
(***************************************************************************)
LEMMA TornHeadType ==
  ASSUME NEW q \in Seq(Packets), q # <<>>
  PROVE  TornHead(q) \in Seq(Packets) /\ Head(q) \in Packets /\ Tail(q) \in Seq(Packets)
<1>1. q[1] \in Packets /\ Head(q) = q[1] /\ 1 \in 1..Len(q) /\ Tail(q) \in Seq(Packets)
  OBVIOUS
<1>2. [q[1] EXCEPT !.whole = FALSE] \in Packets
  BY <1>1 DEF Packets
<1>3. TornHead(q) = [q EXCEPT ![1] = [q[1] EXCEPT !.whole = FALSE]]
  BY <1>1 DEF TornHead
<1> QED BY <1>1, <1>2, <1>3

LEMMA RecvType ==
  ASSUME NEW q \in Seq(Packets), q # <<>>, NEW r \in rocsmq_recv(q)
  PROVE  r.id \in Ids /\ r.intact \in BOOLEAN /\ r.left \in Seq(Packets)
<1>1. Head(q) \in Packets /\ Tail(q) \in Seq(Packets) /\ TornHead(q) \in Seq(Packets)
  BY TornHeadType
<1>2. Head(q).id \in Ids
  BY <1>1 DEF Packets
<1>3. CASE Head(q).whole
  <2>1. r \in {[id |-> Head(q).id, intact |-> TRUE, left |-> Tail(q)],
               [id |-> Head(q).id, intact |-> FALSE, left |-> TornHead(q)]}
    BY <1>3 DEF rocsmq_recv, WholeReads, CutReads
  <2>2. CASE r = [id |-> Head(q).id, intact |-> TRUE, left |-> Tail(q)]
    BY <1>1, <1>2, <2>2
  <2>3. CASE r = [id |-> Head(q).id, intact |-> FALSE, left |-> TornHead(q)]
    BY <1>1, <1>2, <2>3
  <2> QED BY <2>1, <2>2, <2>3
<1>4. CASE ~Head(q).whole
  <2>1. Len(q) > 1 => TornHead(Tail(q)) \in Seq(Packets)
    <3>1. Len(Tail(q)) = Len(q) - 1
      BY HeadTailProperties
    <3>2. Len(q) > 1 => Tail(q) # <<>>
      BY <1>1, <3>1, EmptySeq
    <3> QED BY <1>1, <3>2, TornHeadType
  <2>2. r \in [id : Ids, intact : {FALSE},
               left : {Tail(q)} \cup (IF Len(q) > 1 THEN {TornHead(Tail(q))} ELSE {})]
    BY <1>4 DEF rocsmq_recv, RestReads
  <2>3. r.id \in Ids /\ r.intact = FALSE
    BY <2>2
  <2>4. r.left \in {Tail(q)} \cup (IF Len(q) > 1 THEN {TornHead(Tail(q))} ELSE {})
    BY <2>2
  <2>5. r.left \in Seq(Packets)
    BY <1>1, <2>1, <2>4
  <2> QED BY <2>3, <2>5
<1> QED BY <1>3, <1>4

LEMMA TypeInit == Init => TypeOK
  BY IdsAssumption, FilterAssumption, BoundAssumption
  DEF Init, TypeOK, ConnStates, NoSock

LEMMA StopType == ASSUME TypeOK, NEW why, Stop(why),
                         why \in {"EBADF", "EINTR", "SIGTERM", "SIGSEGV", "SIGPIPE"},
                         UNCHANGED <<socketVars, historyVars>>
                  PROVE  TypeOK'
  BY DEF TypeOK, Stop, socketVars, historyVars

LEMMA SlotType ==
  ASSUME TypeOK, NEW k \in 1..Len(clients)
  PROVE  clients[k].sock \in Clients /\ clients[k].filter \in Filters
<1> DEFINE R == [sock : Clients, filter : Filters]
<1>1. clients \in Seq(R)
  BY DEF TypeOK
<1> HIDE DEF R
<1>2. clients[k] \in R
  BY <1>1
<1> QED BY <1>2 DEF R

LEMMA ScanSlotType ==
  ASSUME TypeOK, Scanning
  PROVE  i \in 1..Len(clients) /\ Slot \in Clients
<1>1. i \in Nat /\ i >= 1 /\ i <= Len(clients) /\ Len(clients) \in Nat
  BY DEF TypeOK, Scanning
<1>2. i \in 1..Len(clients)
  BY <1>1
<1> QED BY <1>2, SlotType DEF Slot

(***************************************************************************)
(* The array stays an array of clients when one is taken out of it.        *)
(***************************************************************************)
LEMMA RemoveSlotProperties ==
  ASSUME NEW S, NEW s \in Seq(S), NEW k \in 1..Len(s)
  PROVE  /\ RemoveSlot(s, k) \in Seq(S)
         /\ Len(RemoveSlot(s, k)) = Len(s) - 1
         /\ \A j \in 1..Len(s) - 1 :
              RemoveSlot(s, k)[j] = IF j < k THEN s[j] ELSE s[j + 1]
<1> DEFINE a == SubSeq(s, 1, k - 1)
           b == SubSeq(s, k + 1, Len(s))
<1>1. a \in Seq(S) /\ Len(a) = k - 1 /\ \A j \in 1..k - 1 : a[j] = s[j]
  OBVIOUS
<1>2. /\ b \in Seq(S) /\ Len(b) = Len(s) - k
      /\ \A j \in 1..Len(s) - k : b[j] = s[k + j]
  OBVIOUS
<1> HIDE DEF a, b
<1>3. k \in Nat /\ k >= 1 /\ k <= Len(s) /\ Len(s) \in Nat
  OBVIOUS
<1>4. a \o b \in Seq(S) /\ Len(a \o b) = Len(s) - 1
  BY <1>1, <1>2, <1>3, ConcatProperties
<1>5. ASSUME NEW j \in 1..Len(s) - 1
      PROVE  (a \o b)[j] = IF j < k THEN s[j] ELSE s[j + 1]
  <2>1. (a \o b)[j] = IF j <= k - 1 THEN a[j] ELSE b[j - (k - 1)]
    BY <1>1, <1>2, <1>3, ConcatProperties
  <2>2. CASE j < k
    BY <1>1, <1>3, <2>1, <2>2
  <2>3. CASE j >= k
    <3>1. j - (k - 1) \in 1..Len(s) - k /\ k + (j - (k - 1)) = j + 1
      BY <1>3, <2>3
    <3>2. b[j - (k - 1)] = s[j + 1]
      <4> DEFINE m == j - (k - 1)
      <4>1. m \in 1..Len(s) - k /\ k + m = j + 1
        BY <3>1
      <4> HIDE DEF m
      <4>2. b[m] = s[k + m]
        BY <1>2, <4>1
      <4>3. b[m] = s[j + 1]
        BY <4>1, <4>2
      <4> QED BY <4>3 DEF m
    <3>3. ~(j < k) /\ ~(j <= k - 1)
      BY <1>3, <2>3
    <3>4. (a \o b)[j] = b[j - (k - 1)]
      BY <2>1, <3>3
    <3> QED BY <3>2, <3>3, <3>4
  <2>4. j < k \/ j >= k
    BY <1>3
  <2> QED BY <2>2, <2>3, <2>4, Zenon
<1> QED BY <1>4, <1>5 DEF RemoveSlot, a, b

LEMMA TypeStep == TypeOK /\ [Next]_vars => TypeOK'
<1> SUFFICES ASSUME TypeOK, [Next]_vars PROVE TypeOK'
  OBVIOUS
<1> USE IdsAssumption, FilterAssumption, BoundAssumption, ClientsAssumption
<1>1. CASE Select
  BY <1>1, SMTT(30) DEF TypeOK, Select, socketVars, historyVars
<1>2. CASE SelectFails
  BY <1>2, StopType DEF SelectFails
<1>3. CASE AcceptClient
  <2>1. Head(backlog) \in Clients /\ Tail(backlog) \in Seq(Clients)
    BY <1>3 DEF AcceptClient, TypeOK
  <2> QED BY <1>3, <2>1 DEF TypeOK, AcceptClient, historyVars, NoSock
<1>4. CASE LoginClient
  <2>1. client_sock \in Clients
    BY <1>4 DEF LoginClient, TypeOK
  <2>2. toServer[client_sock] \in Seq(Packets)
    BY <2>1 DEF TypeOK
  <2>3. Head(toServer[client_sock]) \in Packets /\ Tail(toServer[client_sock]) \in Seq(Packets)
    BY <1>4, <2>2 DEF LoginClient
  <2>4. AddClient(client_sock, Head(toServer[client_sock]).filter)
    BY <1>4 DEF LoginClient
  <2>5. clients' \in Seq([sock : Clients, filter : Filters]) /\ joined' \in [Clients -> Nat]
    BY <2>1, <2>3, <2>4 DEF TypeOK, AddClient, Packets
  <2>6. toServer' \in [Clients -> Seq(Packets)]
    BY <1>4, <2>1, <2>3 DEF TypeOK, LoginClient
  <2> QED BY <1>4, <2>5, <2>6 DEF TypeOK, LoginClient, FinishLogin
<1>5. CASE LoginCut
  <2>1. client_sock \in Clients
    BY <1>5 DEF LoginCut, TypeOK
  <2>2. toServer' \in [Clients -> Seq(Packets)]
    BY <1>5, <2>1, TornHeadType DEF LoginCut, TypeOK
  <2>3. ASSUME NEW f \in Filters, AddClient(client_sock, f), FinishLogin PROVE TypeOK'
    <3>1. clients' \in Seq([sock : Clients, filter : Filters]) /\ joined' \in [Clients -> Nat]
      BY <2>1, <2>3 DEF TypeOK, AddClient
    <3> QED BY <1>5, <2>2, <2>3, <3>1 DEF TypeOK, LoginCut, FinishLogin
  <2>4. CASE Stop("SIGSEGV") /\ UNCHANGED joined
    BY <1>5, <2>2, <2>4 DEF TypeOK, LoginCut, Stop
  <2> QED BY <1>5, <2>3, <2>4 DEF LoginCut
<1>6. CASE RejectLogin
  BY <1>6 DEF TypeOK, RejectLogin, FinishLogin, historyVars, ConnStates
<1>7. CASE SkipClient
  <2>1. i' \in Nat /\ i' >= 1
    BY <1>7 DEF TypeOK, SkipClient
  <2> QED BY <1>7, <2>1 DEF TypeOK, SkipClient, socketVars, historyVars
<1>8. CASE RecvMessage
  <2>1. Slot \in Clients /\ toServer[Slot] \in Seq(Packets) /\ toServer[Slot] # <<>>
    BY <1>8, ScanSlotType DEF RecvMessage, TypeOK
  <2>2. Head(toServer[Slot]) \in Packets
    BY <2>1, TornHeadType
  <2>3. PICK r \in rocsmq_recv(toServer[Slot]) :
          /\ toServer' = [toServer EXCEPT ![Slot] = r.left]
          /\ StartRelay(r.id, Head(toServer[Slot]).nr, r.intact)
    BY <1>8 DEF RecvMessage
  <2>4. r.id \in Ids /\ r.intact \in BOOLEAN /\ r.left \in Seq(Packets)
    BY <2>1, RecvType
  <2>5. [from |-> Slot, id |-> r.id, nr |-> Head(toServer[Slot]).nr, intact |-> r.intact]
          \in Entries
    BY <2>1, <2>2, <2>4 DEF Entries, Packets
  <2>6. toServer' \in [Clients -> Seq(Packets)]
    BY <2>3, <2>4 DEF TypeOK
  <2>7. log' \in Seq(Entries)
    BY <2>3, <2>5 DEF TypeOK, StartRelay
  <2> QED BY <1>8, <2>3, <2>6, <2>7 DEF TypeOK, RecvMessage, StartRelay
<1>9. CASE RecvError
  <2>1. [from |-> Slot, id |-> EmptyId, nr |-> 0, intact |-> FALSE] \in Entries
    BY <1>9, ScanSlotType DEF RecvError, Entries
  <2>2. log' \in Seq(Entries) /\ conn' \in [Clients -> ConnStates]
    BY <1>9, <2>1 DEF TypeOK, RecvError, StartRelay, ConnStates
  <2> QED BY <1>9, <2>2 DEF TypeOK, RecvError, StartRelay
<1>10. CASE RemoveClient
  <2>1. clients' \in Seq([sock : Clients, filter : Filters])
    <3> DEFINE R == [sock : Clients, filter : Filters]
    <3>1. clients \in Seq(R)
      BY DEF TypeOK
    <3>2. i \in 1..Len(clients)
      BY <1>10, ScanSlotType DEF RemoveClient
    <3>3. clients' = RemoveSlot(clients, i)
      BY <1>10 DEF RemoveClient
    <3> HIDE DEF R
    <3>4. clients' \in Seq(R)
      BY <3>1, <3>2, <3>3, RemoveSlotProperties
    <3> QED BY <3>4 DEF R
  <2>2. conn' \in [Clients -> ConnStates]
    BY <1>10 DEF TypeOK, RemoveClient, ConnStates
  <2>3. i' \in Nat /\ i' >= 1
    BY <1>10 DEF TypeOK, RemoveClient
  <2> QED BY <1>10, <2>1, <2>2, <2>3 DEF TypeOK, RemoveClient, historyVars
<1>11. CASE RemoveUnfiltered
  BY <1>11, StopType DEF RemoveUnfiltered
<1>12. CASE EndScan
  BY <1>12 DEF TypeOK, EndScan, socketVars, historyVars
<1>13. CASE SendToNext
  <2>1. PICK k \in 1..Len(clients) :
          \/ SendToOpen(k, clients[k].sock)
          \/ SendToGone(k, clients[k].sock)
          \/ SendToBroken(clients[k].sock)
    BY <1>13 DEF SendToNext
  <2>2. /\ UNCHANGED <<set, readset, client_sock, clients, i,
                       backlog, toServer, sent, log, joined>>
    BY <1>13 DEF SendToNext
  <2>3. clients[k].sock \in Clients /\ k \in Nat
    BY SlotType
  <2>4. CASE SendToOpen(k, clients[k].sock)
    <3> DEFINE c == clients[k].sock
    <3>1. delivered' \in [Clients -> Seq(Nat)]
      <4>1. Append(delivered[c], Len(log)) \in Seq(Nat)
        <5>1. delivered \in [Clients -> Seq(Nat)] /\ log \in Seq(Entries)
          BY DEF TypeOK
        <5>2. delivered[c] \in Seq(Nat)
          BY <2>3, <5>1
        <5>3. Len(log) \in Nat
          BY <5>1, LenProperties
        <5> QED BY <5>2, <5>3, AppendProperties
      <4>2. delivered' = [delivered EXCEPT ![c] = Append(delivered[c], Len(log))]
        BY <2>4 DEF SendToOpen
      <4> QED BY <2>3, <4>1, <4>2 DEF TypeOK
    <3>2. unread' \in [Clients -> 0..Room]
      <4>1. unread[c] + 1 \in 0..Room
        <5>1. unread[c] \in 0..Room /\ unread[c] < Room /\ Room \in Nat
          BY <2>3, <2>4 DEF TypeOK, SendToOpen
        <5> QED BY <5>1
      <4>2. unread' = [unread EXCEPT ![c] = unread[c] + 1]
        BY <2>4 DEF SendToOpen
      <4> QED BY <2>3, <4>1, <4>2 DEF TypeOK
    <3> QED BY <2>2, <2>3, <2>4, <3>1, <3>2 DEF TypeOK, SendToOpen
  <2>5. CASE SendToGone(k, clients[k].sock)
    <3>1. conn' \in [Clients -> ConnStates]
      BY <2>3, <2>5 DEF TypeOK, SendToGone, ConnStates
    <3> QED BY <2>2, <2>3, <2>5, <3>1 DEF TypeOK, SendToGone
  <2>6. CASE SendToBroken(clients[k].sock)
    BY <2>2, <2>6 DEF TypeOK, SendToBroken
  <2> QED BY <2>1, <2>4, <2>5, <2>6
<1>14. CASE EndRelay
  BY <1>14 DEF TypeOK, EndRelay, socketVars, historyVars
<1>15. CASE SignalStep
  BY <1>15, StopType DEF SignalStep, SignalInSelect, Terminate
<1>16. ASSUME NEW c \in Clients, ClientStep(c) PROVE TypeOK'
  <2>1. CASE Connect(c)
    <3>1. backlog' \in Seq(Clients)
      BY <2>1 DEF TypeOK, Connect
    <3>2. conn' \in [Clients -> ConnStates]
      BY <2>1 DEF TypeOK, Connect, ConnStates
    <3> QED BY <2>1, <3>1, <3>2 DEF TypeOK, Connect, serverVars, historyVars
  <2>2. ASSUME NEW p \in Packets, Write(c, p), sent[c] \in 0..MaxSends PROVE TypeOK'
    <3>1. toServer' \in [Clients -> Seq(Packets)]
      <4>1. Append(toServer[c], p) \in Seq(Packets)
        BY DEF TypeOK
      <4>2. toServer' = [toServer EXCEPT ![c] = Append(toServer[c], p)]
        BY <2>2 DEF Write
      <4> QED BY <4>1, <4>2 DEF TypeOK
    <3>2. sent' \in [Clients -> 0..MaxSends + 1]
      <4>1. sent[c] + 1 \in 0..MaxSends + 1
        BY <2>2
      <4>2. sent' = [sent EXCEPT ![c] = sent[c] + 1]
        BY <2>2 DEF Write
      <4> QED BY <4>1, <4>2 DEF TypeOK
    <3> QED BY <2>2, <3>1, <3>2 DEF TypeOK, Write, serverVars, historyVars
  <2>3. CASE SendLogin(c)
    <3>1. PICK f \in Filters : Write(c, Login(f))
      BY <2>3 DEF SendLogin
    <3>2. Login(f) \in Packets /\ sent[c] \in 0..MaxSends
      BY <2>3 DEF SendLogin, Login, Packets
    <3> QED BY <2>2, <3>1, <3>2
  <2>4. CASE SendMessage(c)
    <3>1. PICK id \in Ids : Write(c, Message(id, sent[c]))
      BY <2>4 DEF SendMessage
    <3>2. sent[c] \in 0..MaxSends
      BY <2>4 DEF SendMessage
    <3>3. Message(id, sent[c]) \in Packets
      BY <3>2 DEF Message, Packets
    <3> QED BY <2>2, <3>1, <3>2, <3>3
  <2>5. CASE ReadMessage(c)
    BY <2>5, SMTT(30) DEF TypeOK, ReadMessage, serverVars, historyVars
  <2>6. CASE Disconnect(c)
    BY <2>6, SMTT(30) DEF TypeOK, Disconnect, serverVars, historyVars, ConnStates
  <2> QED BY <1>16, <2>1, <2>3, <2>4, <2>5, <2>6 DEF ClientStep
<1>17. CASE UNCHANGED vars
  BY <1>17 DEF TypeOK, vars, serverVars, socketVars, historyVars
<1> QED BY <1>1, <1>2, <1>3, <1>4, <1>5, <1>6, <1>7, <1>8, <1>9, <1>10, <1>11,
           <1>12, <1>13, <1>14, <1>15, <1>16, <1>17 DEF Next, ServerStep

(***************************************************************************)
(* Type correctness of the server for every value of the constants.        *)
(***************************************************************************)
THEOREM TypeCorrect == Spec => []TypeOK
  BY TypeInit, TypeStep, PTL DEF Spec

-----------------------------------------------------------------------------
(***************************************************************************)
(* The registry: list, backlog and select set name the same connections.   *)
(***************************************************************************)
RegistryVars == <<clients, set, backlog, client_sock>>

LEMMA RegistryInit == Init => RegistryInv
<1> SUFFICES ASSUME Init PROVE RegistryInv
  OBVIOUS
<1>1. TypeOK
  BY TypeInit
<1>2. Registered /\ BacklogUnknown /\ LoginUnlisted
  BY DEF Init, Registered, NoDoubleSlot, Listed, Live, InBacklog, LoggingIn,
         BacklogUnknown, LoginUnlisted
<1> QED BY <1>1, <1>2 DEF RegistryInv

(***************************************************************************)
(* A step that leaves the registry alone, whatever else it does.           *)
(***************************************************************************)
LEMMA RegistrySame ==
  ASSUME RegistryInv, Up, TypeOK', UNCHANGED RegistryVars,
         \A c \in Clients : Live(c)' = Live(c),
         \A c \in Clients : conn'[c] = "none" <=> conn[c] = "none",
         pc' = "login" <=> pc = "login"
  PROVE  RegistryInv'
<1>1. NoDoubleSlot' /\ \A c \in Clients : Listed(c)' = Listed(c)
  BY DEF RegistryVars, NoDoubleSlot, Listed, RegistryInv, Registered
<1>2. \A c \in Clients : InBacklog(c)' = InBacklog(c) /\ LoggingIn(c)' = LoggingIn(c)
  BY DEF RegistryVars, InBacklog, LoggingIn
<1>3. Registered'
  BY <1>1, <1>2 DEF Registered, RegistryInv, RegistryVars
<1>4. BacklogUnknown'
  BY <1>1, <1>2 DEF BacklogUnknown, RegistryInv, RegistryVars
<1>5. LoginUnlisted'
  <2>1. pc = "login" => client_sock \in Clients
    BY DEF RegistryInv, TypeOK
  <2>2. pc = "login" => client_sock \in set /\ Live(client_sock) /\ ~Listed(client_sock)
    BY DEF RegistryInv, LoginUnlisted
  <2>3. client_sock' = client_sock /\ set' = set /\ clients' = clients
    BY DEF RegistryVars
  <2> QED BY <2>1, <2>2, <2>3 DEF LoginUnlisted, Listed, Live
<1> QED BY <1>3, <1>4, <1>5 DEF RegistryInv

LEMMA StoppedRegistry == ASSUME TypeOK', ~Up' PROVE RegistryInv'
  BY DEF RegistryInv, Registered

(***************************************************************************)
(* The list with one client more.                                          *)
(***************************************************************************)
LEMMA AppendListed ==
  ASSUME TypeOK, NEW c0 \in Clients, NEW f \in Filters, AddClient(c0, f)
  PROVE  /\ Len(clients') = Len(clients) + 1
         /\ \A k \in 1..Len(clients) : clients'[k] = clients[k]
         /\ clients'[Len(clients) + 1] = [sock |-> c0, filter |-> f]
         /\ \A c \in Clients : Listed(c)' <=> Listed(c) \/ c = c0
<1> DEFINE e == [sock |-> c0, filter |-> f]
           R == [sock : Clients, filter : Filters]
<1>1. clients \in Seq(R) /\ e \in R /\ clients' = Append(clients, e)
  BY DEF TypeOK, AddClient
<1> HIDE DEF R, e
<1>2. /\ Len(clients') = Len(clients) + 1 /\ Len(clients) \in Nat
      /\ \A k \in 1..Len(clients) : clients'[k] = clients[k]
      /\ clients'[Len(clients) + 1] = e
  BY <1>1, AppendProperties
<1>3. e.sock = c0
  BY DEF e
<1>4. ASSUME NEW c \in Clients PROVE Listed(c)' <=> Listed(c) \/ c = c0
  <2>1. ASSUME Listed(c) PROVE Listed(c)'
    BY <1>2, <2>1 DEF Listed
  <2>2. c = c0 => Listed(c)'
    BY <1>2, <1>3 DEF Listed
  <2>3. ASSUME Listed(c)', c # c0 PROVE Listed(c)
    BY <1>2, <1>3, <2>3 DEF Listed
  <2> QED BY <2>1, <2>2, <2>3
<1> QED BY <1>2, <1>4 DEF e

(***************************************************************************)
(* The list without the client in slot k.                                  *)
(***************************************************************************)
LEMMA RemoveListed ==
  ASSUME TypeOK, NoDoubleSlot, NEW k \in 1..Len(clients),
         clients' = RemoveSlot(clients, k)
  PROVE  /\ Len(clients') = Len(clients) - 1
         /\ \A j \in 1..Len(clients') :
              clients'[j] = IF j < k THEN clients[j] ELSE clients[j + 1]
         /\ NoDoubleSlot'
         /\ \A c \in Clients : Listed(c)' <=> Listed(c) /\ c # clients[k].sock
<1> DEFINE R == [sock : Clients, filter : Filters]
<1>1. clients \in Seq(R)
  BY DEF TypeOK
<1> HIDE DEF R
<1>2. /\ Len(clients') = Len(clients) - 1
      /\ \A j \in 1..Len(clients') :
           clients'[j] = IF j < k THEN clients[j] ELSE clients[j + 1]
  BY <1>1, RemoveSlotProperties
<1>3. k \in Nat /\ Len(clients) \in Nat /\ k >= 1 /\ k <= Len(clients)
  BY <1>1
<1>4. NoDoubleSlot'
  <2> SUFFICES ASSUME NEW m \in 1..Len(clients'), NEW n \in 1..Len(clients'),
                      clients'[m].sock = clients'[n].sock
               PROVE  m = n
    BY DEF NoDoubleSlot
  <2> DEFINE g(j) == IF j < k THEN j ELSE j + 1
  <2>1. g(m) \in 1..Len(clients) /\ g(n) \in 1..Len(clients)
    BY <1>2, <1>3
  <2>2. clients'[m] = clients[g(m)] /\ clients'[n] = clients[g(n)]
    BY <1>2
  <2>3. g(m) = g(n)
    BY <2>1, <2>2 DEF NoDoubleSlot
  <2> QED BY <1>2, <1>3, <2>3
<1>5. ASSUME NEW c \in Clients PROVE Listed(c)' <=> Listed(c) /\ c # clients[k].sock
  <2>1. ASSUME Listed(c)' PROVE Listed(c) /\ c # clients[k].sock
    <3>1. PICK j \in 1..Len(clients') : clients'[j].sock = c
      BY <2>1 DEF Listed
    <3>2. CASE j < k
      <4>1. clients'[j] = clients[j] /\ j \in 1..Len(clients) /\ j # k
        BY <1>2, <1>3, <3>2
      <4> QED BY <3>1, <4>1 DEF Listed, NoDoubleSlot
    <3>3. CASE ~(j < k)
      <4>1. clients'[j] = clients[j + 1] /\ j + 1 \in 1..Len(clients) /\ j + 1 # k
        BY <1>2, <1>3, <3>3
      <4> QED BY <3>1, <4>1 DEF Listed, NoDoubleSlot
    <3> QED BY <3>2, <3>3
  <2>2. ASSUME Listed(c), c # clients[k].sock PROVE Listed(c)'
    <3>1. PICK j \in 1..Len(clients) : clients[j].sock = c
      BY <2>2 DEF Listed
    <3>2. CASE j < k
      <4>1. j \in 1..Len(clients') /\ clients'[j] = clients[j]
        BY <1>2, <1>3, <3>2
      <4> QED BY <3>1, <4>1 DEF Listed
    <3>3. CASE j > k
      <4>1. j - 1 \in 1..Len(clients') /\ ~(j - 1 < k) /\ j - 1 + 1 = j
        BY <1>2, <1>3, <3>3
      <4>2. clients'[j - 1] = clients[j]
        BY <1>2, <4>1
      <4> QED BY <3>1, <4>1, <4>2 DEF Listed
    <3>4. j # k
      BY <2>2, <3>1
    <3> QED BY <1>3, <3>2, <3>3, <3>4
  <2> QED BY <2>1, <2>2
<1> QED BY <1>2, <1>4, <1>5

(***************************************************************************)
(* The connection being logged in enters the list.                         *)
(***************************************************************************)
LEMMA RegistryLogin ==
  ASSUME RegistryInv, TypeOK', pc = "login", NEW f \in Filters,
         AddClient(client_sock, f), FinishLogin, UNCHANGED <<conn, backlog>>
  PROVE  RegistryInv'
<1>1. /\ client_sock \in Clients /\ client_sock \in set /\ Live(client_sock)
      /\ ~Listed(client_sock) /\ Up
  BY DEF RegistryInv, LoginUnlisted, TypeOK, Up
<1>2. /\ Len(clients') = Len(clients) + 1
      /\ \A k \in 1..Len(clients) : clients'[k] = clients[k]
      /\ clients'[Len(clients) + 1].sock = client_sock
      /\ \A c \in Clients : Listed(c)' <=> Listed(c) \/ c = client_sock
  <2>1. TypeOK
    BY DEF RegistryInv
  <2>2. /\ clients'[Len(clients) + 1] = [sock |-> client_sock, filter |-> f]
        /\ Len(clients') = Len(clients) + 1
        /\ \A k \in 1..Len(clients) : clients'[k] = clients[k]
        /\ \A c \in Clients : Listed(c)' <=> Listed(c) \/ c = client_sock
    BY <1>1, <2>1, AppendListed
  <2>3. clients'[Len(clients) + 1].sock = client_sock
    BY <2>2
  <2> QED BY <2>2, <2>3
<1>3. Len(clients) \in Nat
  BY DEF RegistryInv, TypeOK
<1>4. UNCHANGED <<set, conn, backlog>> /\ pc' = "scan"
  BY DEF FinishLogin
<1>5. NoDoubleSlot'
  <2>1. NoDoubleSlot
    BY <1>1 DEF RegistryInv, Registered
  <2>2. \A k \in 1..Len(clients) : clients[k].sock # client_sock
    BY <1>1 DEF Listed
  <2> QED BY <1>2, <1>3, <2>1, <2>2 DEF NoDoubleSlot
<1>6. Registered'
  BY <1>1, <1>2, <1>4, <1>5 DEF RegistryInv, Registered, Live, InBacklog, LoggingIn, Up
<1>7. BacklogUnknown'
  BY <1>1, <1>2, <1>4 DEF RegistryInv, BacklogUnknown, Live, InBacklog
<1>8. LoginUnlisted'
  BY <1>4 DEF LoginUnlisted
<1> QED BY <1>6, <1>7, <1>8 DEF RegistryInv

LEMMA RegistryAccept ==
  ASSUME RegistryInv, TypeOK', AcceptClient
  PROVE  RegistryInv'
<1> DEFINE h == Head(backlog)
<1>1. /\ backlog \in Seq(Clients) /\ backlog # <<>>
      /\ client_sock' = h /\ backlog' = Tail(backlog) /\ set' = set \cup {h}
      /\ pc = "accept" /\ pc' = "login" /\ UNCHANGED <<clients, conn>>
  BY DEF AcceptClient, RegistryInv, TypeOK
<1>2. /\ h \in Clients /\ h = backlog[1] /\ Len(backlog') = Len(backlog) - 1
      /\ \A k \in 1..Len(backlog') : backlog'[k] = backlog[k + 1]
      /\ Len(backlog) \in Nat /\ Len(backlog) >= 1
  BY <1>1, HeadTailProperties, EmptySeq
<1>3. BacklogUnknown /\ Registered /\ Up
  BY <1>1 DEF RegistryInv, Up
<1> HIDE DEF h
<1>4. InBacklog(h)
  BY <1>2 DEF InBacklog
<1>5. \A c \in Clients : InBacklog(c)' <=> InBacklog(c) /\ c # h
  <2> SUFFICES ASSUME NEW c \in Clients PROVE InBacklog(c)' <=> InBacklog(c) /\ c # h
    OBVIOUS
  <2>1. ASSUME InBacklog(c)' PROVE InBacklog(c) /\ c # h
    <3>1. PICK k \in 1..Len(backlog') : backlog'[k] = c
      BY <2>1 DEF InBacklog
    <3>2. k + 1 \in 1..Len(backlog) /\ k + 1 # 1 /\ 1 \in 1..Len(backlog)
      BY <1>2
    <3> QED BY <1>2, <1>3, <3>1, <3>2 DEF InBacklog, BacklogUnknown
  <2>2. ASSUME InBacklog(c), c # h PROVE InBacklog(c)'
    <3>1. PICK k \in 1..Len(backlog) : backlog[k] = c
      BY <2>2 DEF InBacklog
    <3>2. k # 1
      BY <1>2, <2>2, <3>1
    <3>3. k - 1 \in 1..Len(backlog') /\ k - 1 + 1 = k
      BY <1>2, <3>2
    <3> QED BY <1>2, <3>1, <3>3 DEF InBacklog
  <2> QED BY <2>1, <2>2
<1>6. /\ \A c \in Clients : Listed(c)' = Listed(c) /\ Live(c)' = Live(c)
      /\ \A c \in Clients : LoggingIn(c)' <=> c = h
      /\ \A c \in Clients : ~LoggingIn(c)
  BY <1>1 DEF Listed, Live, LoggingIn
<1>7. Registered'
  BY <1>1, <1>3, <1>4, <1>5, <1>6 DEF Registered, NoDoubleSlot, BacklogUnknown
<1>8. BacklogUnknown'
  <2>1. \A j, k \in 1..Len(backlog') : backlog'[j] = backlog'[k] => j = k
    BY <1>2, <1>3 DEF BacklogUnknown
  <2>2. \A c \in Clients : InBacklog(c)' => Live(c)' /\ c \notin set' /\ ~Listed(c)'
    BY <1>1, <1>3, <1>5, <1>6 DEF BacklogUnknown
  <2>3. \A c \in Clients : conn'[c] = "none" => c \notin set'
    BY <1>1, <1>3, <1>4, <1>2 DEF BacklogUnknown, Live
  <2> QED BY <2>1, <2>2, <2>3 DEF BacklogUnknown
<1>9. LoginUnlisted'
  BY <1>1, <1>2, <1>3, <1>4, <1>6 DEF LoginUnlisted, BacklogUnknown, Listed, Live
<1> QED BY <1>7, <1>8, <1>9 DEF RegistryInv

LEMMA RegistryReject ==
  ASSUME RegistryInv, TypeOK', RejectLogin
  PROVE  RegistryInv'
<1> DEFINE c0 == client_sock
<1>1. /\ c0 \in Clients /\ Live(c0) /\ ~Listed(c0) /\ ~InBacklog(c0) /\ Up
      /\ pc = "login"
  BY DEF RegistryInv, LoginUnlisted, BacklogUnknown, TypeOK, Up, RejectLogin
<1>2. /\ conn' = [conn EXCEPT ![c0] = "closed"] /\ pc' = "scan"
      /\ UNCHANGED <<set, clients, backlog>>
  BY DEF RejectLogin, FinishLogin
<1>3. \A c \in Clients : conn'[c] = IF c = c0 THEN "closed" ELSE conn[c]
  BY <1>2 DEF RegistryInv, TypeOK
<1>4. \A c \in Clients : Listed(c)' = Listed(c) /\ InBacklog(c)' = InBacklog(c)
  BY <1>2 DEF Listed, InBacklog
<1>5. \A c \in Clients : Live(c)' <=> Live(c) /\ c # c0
  BY <1>3 DEF Live
<1>6. \A c \in Clients : LoggingIn(c) => c = c0
  BY DEF LoggingIn
<1> HIDE DEF c0
<1>7. Registered'
  BY <1>1, <1>2, <1>4, <1>5, <1>6 DEF RegistryInv, Registered, NoDoubleSlot
<1>8. BacklogUnknown'
  BY <1>1, <1>2, <1>3, <1>4, <1>5 DEF RegistryInv, BacklogUnknown
<1>9. LoginUnlisted'
  BY <1>2 DEF LoginUnlisted
<1> QED BY <1>7, <1>8, <1>9 DEF RegistryInv

LEMMA RegistryRemove ==
  ASSUME RegistryInv, TypeOK', RemoveClient
  PROVE  RegistryInv'
<1>1. i \in 1..Len(clients) /\ Slot \in Clients /\ Slot = clients[i].sock /\ Up
      /\ pc = "scan"
  BY ScanSlotType DEF RemoveClient, RegistryInv, Slot, Scanning, Up
<1>2. /\ NoDoubleSlot'
      /\ \A c \in Clients : Listed(c)' <=> Listed(c) /\ c # Slot
  BY <1>1, RemoveListed DEF RemoveClient, RegistryInv, Registered
<1>3. /\ conn' = [conn EXCEPT ![Slot] = "closed"] /\ pc' = "scan"
      /\ set' = set \ {Slot} /\ UNCHANGED backlog
  BY <1>1 DEF RemoveClient
<1>4. \A c \in Clients : conn'[c] = IF c = Slot THEN "closed" ELSE conn[c]
  BY <1>3 DEF RegistryInv, TypeOK
<1>5. \A c \in Clients : Live(c)' <=> Live(c) /\ c # Slot
  BY <1>4 DEF Live
<1>6. \A c \in Clients : InBacklog(c)' = InBacklog(c) /\ ~LoggingIn(c)
  BY <1>1, <1>3 DEF InBacklog, LoggingIn
<1>7. Listed(Slot)
  BY <1>1 DEF Listed
<1>8. Registered'
  BY <1>1, <1>2, <1>3, <1>5, <1>6 DEF RegistryInv, Registered
<1>9. BacklogUnknown'
  BY <1>1, <1>2, <1>3, <1>4, <1>5, <1>6, <1>7 DEF RegistryInv, BacklogUnknown
<1>10. LoginUnlisted'
  BY <1>3 DEF LoginUnlisted
<1> QED BY <1>8, <1>9, <1>10 DEF RegistryInv

LEMMA RegistryConnect ==
  ASSUME RegistryInv, TypeOK', NEW c0 \in Clients, Connect(c0)
  PROVE  RegistryInv'
<1>1. /\ conn[c0] = "none" /\ conn' = [conn EXCEPT ![c0] = "open"] /\ Up
      /\ backlog' = Append(backlog, c0) /\ UNCHANGED <<pc, set, clients, client_sock>>
  BY DEF Connect, serverVars
<1>2. /\ Len(backlog') = Len(backlog) + 1 /\ backlog'[Len(backlog) + 1] = c0
      /\ \A k \in 1..Len(backlog) : backlog'[k] = backlog[k]
      /\ Len(backlog) \in Nat
  <2>1. backlog \in Seq(Clients)
    BY DEF RegistryInv, TypeOK
  <2> QED BY <1>1, <2>1, AppendProperties
<1>3. Registered /\ BacklogUnknown /\ LoginUnlisted
  BY <1>1 DEF RegistryInv
<1>4. \A c \in Clients : conn'[c] = IF c = c0 THEN "open" ELSE conn[c]
  BY <1>1 DEF RegistryInv, TypeOK
<1>5. ~Live(c0) /\ ~Listed(c0) /\ c0 \notin set /\ ~InBacklog(c0)
  BY <1>1, <1>3 DEF Live, Registered, BacklogUnknown
<1>6. \A c \in Clients : Live(c)' <=> Live(c) \/ c = c0
  BY <1>4 DEF Live
<1>7. \A c \in Clients : InBacklog(c)' <=> InBacklog(c) \/ c = c0
  BY <1>2 DEF InBacklog
<1>8. \A c \in Clients : Listed(c)' = Listed(c) /\ LoggingIn(c)' = LoggingIn(c)
  BY <1>1 DEF Listed, LoggingIn
<1>9. Registered'
  BY <1>1, <1>3, <1>5, <1>6, <1>7, <1>8 DEF Registered, NoDoubleSlot
<1>10. BacklogUnknown'
  <2>1. \A k \in 1..Len(backlog) : backlog[k] # c0
    BY <1>5 DEF InBacklog
  <2>2. \A j, k \in 1..Len(backlog') : backlog'[j] = backlog'[k] => j = k
    BY <1>2, <1>3, <2>1 DEF BacklogUnknown
  <2> QED BY <1>1, <1>3, <1>4, <1>5, <1>6, <1>7, <1>8, <2>2 DEF BacklogUnknown
<1>11. LoginUnlisted'
  <2>1. pc = "login" => client_sock \in Clients
    BY DEF RegistryInv, TypeOK
  <2>2. client_sock \in Clients => (Live(client_sock) => conn'[client_sock] = conn[client_sock])
    BY <1>4, <1>5
  <2> QED BY <1>1, <1>3, <2>1, <2>2 DEF LoginUnlisted, Listed, Live
<1> QED BY <1>9, <1>10, <1>11 DEF RegistryInv

LEMMA SendProperties ==
  ASSUME TypeOK, SendToNext
  PROVE  /\ pc = "relay" /\ pc' \in {"relay", "stopped"}
         /\ \A c \in Clients : Live(c)' = Live(c)
         /\ \A c \in Clients : conn'[c] = "none" <=> conn[c] = "none"
<1>1. PICK k \in 1..Len(clients) :
        \/ SendToOpen(k, clients[k].sock)
        \/ SendToGone(k, clients[k].sock)
        \/ SendToBroken(clients[k].sock)
  BY DEF SendToNext
<1>2. pc = "relay" /\ clients[k].sock \in Clients
  BY SlotType DEF SendToNext
<1>3. CASE SendToOpen(k, clients[k].sock)
  BY <1>2, <1>3 DEF SendToOpen, Live
<1>4. CASE SendToGone(k, clients[k].sock)
  <2> DEFINE c0 == clients[k].sock
  <2>1. \/ conn' = conn
        \/ conn[c0] \in {"fin", "reset"} /\ conn' = [conn EXCEPT ![c0] = "broken"]
    BY <1>4 DEF SendToGone
  <2>2. pc' = "relay"
    BY <1>2, <1>4 DEF SendToGone
  <2>3. CASE conn' = conn
    BY <1>2, <2>2, <2>3 DEF Live
  <2>4. CASE conn[c0] \in {"fin", "reset"} /\ conn' = [conn EXCEPT ![c0] = "broken"]
    <3>1. \A c \in Clients : conn'[c] = IF c = c0 THEN "broken" ELSE conn[c]
      BY <2>4 DEF TypeOK
    <3> QED BY <1>2, <2>2, <2>4, <3>1 DEF Live
  <2> QED BY <2>1, <2>3, <2>4
<1>5. CASE SendToBroken(clients[k].sock)
  BY <1>2, <1>5 DEF SendToBroken, Live
<1> QED BY <1>1, <1>3, <1>4, <1>5

LEMMA RegistryStep == RegistryInv /\ [Next]_vars => RegistryInv'
<1> SUFFICES ASSUME RegistryInv, [Next]_vars PROVE RegistryInv'
  OBVIOUS
<1>0. TypeOK /\ TypeOK'
  BY TypeStep DEF RegistryInv
<1>1. CASE Select
  BY <1>0, <1>1, RegistrySame DEF Select, RegistryVars, socketVars, Up, Live
<1>2. CASE SelectFails
  BY <1>0, <1>2, StoppedRegistry DEF SelectFails, Stop, Up
<1>3. CASE AcceptClient
  BY <1>0, <1>3, RegistryAccept
<1>4. CASE LoginClient
  <2>1. client_sock \in Clients /\ pc = "login" /\ toServer[client_sock] # <<>>
    BY <1>0, <1>4 DEF LoginClient, TypeOK
  <2>2. toServer[client_sock] \in Seq(Packets)
    BY <1>0, <2>1 DEF TypeOK
  <2>3. Head(toServer[client_sock]) \in Packets
    BY <2>1, <2>2, TornHeadType
  <2>4. Head(toServer[client_sock]).filter \in Filters
    BY <2>3 DEF Packets
  <2> QED BY <1>0, <1>4, <2>1, <2>4, RegistryLogin DEF LoginClient
<1>5. CASE LoginCut
  <2>1. CASE \E f \in Filters : AddClient(client_sock, f) /\ FinishLogin
    BY <1>0, <1>5, <2>1, RegistryLogin DEF LoginCut
  <2>2. CASE Stop("SIGSEGV")
    BY <1>0, <2>2, StoppedRegistry DEF Stop, Up
  <2> QED BY <1>5, <2>1, <2>2 DEF LoginCut
<1>6. CASE RejectLogin
  BY <1>0, <1>6, RegistryReject
<1>7. CASE SkipClient
  BY <1>0, <1>7, RegistrySame
  DEF SkipClient, Scanning, RegistryVars, socketVars, Up, Live
<1>8. CASE RecvMessage
  <2>1. /\ UNCHANGED <<clients, set, backlog, client_sock, conn>>
        /\ pc = "scan" /\ pc' = "relay"
    BY <1>8 DEF RecvMessage, StartRelay, Scanning
  <2> QED BY <1>0, <2>1, RegistrySame DEF RegistryVars, Up, Live
<1>9. CASE RecvError
  <2>1. /\ UNCHANGED RegistryVars /\ pc = "scan" /\ pc' = "relay" /\ Slot \in Clients
        /\ conn[Slot] = "reset" /\ conn' = [conn EXCEPT ![Slot] = "broken"]
    BY <1>0, <1>9, ScanSlotType DEF RecvError, StartRelay, Scanning, RegistryVars
  <2>2. \A c \in Clients : Live(c)' = Live(c) /\ (conn'[c] = "none" <=> conn[c] = "none")
    <3>1. \A c \in Clients : conn'[c] = IF c = Slot THEN "broken" ELSE conn[c]
      BY <1>0, <2>1 DEF TypeOK
    <3> QED BY <2>1, <3>1 DEF Live
  <2> QED BY <1>0, <2>1, <2>2, RegistrySame DEF Up
<1>10. CASE RemoveClient
  BY <1>0, <1>10, RegistryRemove
<1>11. CASE RemoveUnfiltered
  BY <1>0, <1>11, StoppedRegistry DEF RemoveUnfiltered, Stop, Up
<1>12. CASE EndScan
  BY <1>0, <1>12, RegistrySame DEF EndScan, RegistryVars, socketVars, Up, Live
<1>13. CASE SendToNext
  <2>1. UNCHANGED RegistryVars
    BY <1>13 DEF SendToNext, RegistryVars
  <2>2. CASE pc' = "stopped"
    BY <1>0, <2>2, StoppedRegistry DEF Up
  <2>3. CASE pc' = "relay"
    BY <1>0, <1>13, <2>1, <2>3, SendProperties, RegistrySame DEF Up
  <2> QED BY <1>0, <1>13, <2>2, <2>3, SendProperties
<1>14. CASE EndRelay
  BY <1>0, <1>14, RegistrySame DEF EndRelay, RegistryVars, socketVars, Up, Live
<1>15. CASE SignalStep
  BY <1>0, <1>15, StoppedRegistry DEF SignalStep, SignalInSelect, Terminate, Stop, Up
<1>16. ASSUME NEW c \in Clients, ClientStep(c) PROVE RegistryInv'
  <2>1. CASE Connect(c)
    BY <1>0, <2>1, RegistryConnect
  <2>2. CASE SendLogin(c)
    BY <1>0, <2>2, RegistrySame DEF SendLogin, Write, RegistryVars, serverVars, Up, Live
  <2>3. CASE SendMessage(c)
    BY <1>0, <2>3, RegistrySame DEF SendMessage, Write, RegistryVars, serverVars, Up, Live
  <2>4. CASE ReadMessage(c)
    BY <1>0, <2>4, RegistrySame DEF ReadMessage, RegistryVars, serverVars, Up, Live
  <2>5. CASE Disconnect(c)
    <3>1. \A d \in Clients : Live(d)' = Live(d) /\ (conn'[d] = "none" <=> conn[d] = "none")
      <4>1. /\ conn[c] = "open"
            /\ \E st \in {"fin", "reset"} :
                 \A d \in Clients : conn'[d] = IF d = c THEN st ELSE conn[d]
        BY <1>0, <2>5 DEF Disconnect, TypeOK
      <4> QED BY <4>1 DEF Live
    <3> QED BY <1>0, <2>5, <3>1, RegistrySame DEF Disconnect, RegistryVars, serverVars, Up
  <2> QED BY <1>16, <2>1, <2>2, <2>3, <2>4, <2>5 DEF ClientStep
<1>17. CASE UNCHANGED vars
  <2>1. CASE Up
    BY <1>0, <1>17, <2>1, RegistrySame
    DEF vars, serverVars, socketVars, RegistryVars, Up, Live
  <2>2. CASE ~Up
    BY <1>0, <1>17, <2>2, StoppedRegistry DEF vars, serverVars, Up
  <2> QED BY <2>1, <2>2
<1> QED BY <1>1, <1>2, <1>3, <1>4, <1>5, <1>6, <1>7, <1>8, <1>9, <1>10, <1>11,
           <1>12, <1>13, <1>14, <1>15, <1>16, <1>17 DEF Next, ServerStep

(***************************************************************************)
(* The list, the select set and the sockets never disagree about who is    *)
(* connected.                                                              *)
(***************************************************************************)
THEOREM RegistryCorrect == Spec => []Registered
<1>1. RegistryInv => Registered
  BY DEF RegistryInv
<1> QED BY RegistryInit, RegistryStep, <1>1, PTL DEF Spec

-----------------------------------------------------------------------------
(***************************************************************************)
(* What EndsByDeparture rests on: a client that is not in the list wrote   *)
(* what still waits for the server and no more, and one that was refused,  *)
(* and stays in the set, had written nothing.                              *)
(***************************************************************************)
EndsInv ==
  /\ EndsByDeparture
  /\ Up => /\ reason = "none"
           /\ \A c \in Clients :
                ~Listed(c) /\ conn[c] # "closed" => sent[c] = Len(toServer[c])
           /\ \A c \in set : conn[c] = "closed" => sent[c] = 0

LEMMA EndsInit == Init => EndsInv
  BY DEF Init, EndsInv, EndsByDeparture, Up, Listed

(***************************************************************************)
(* While no reason to end was given, none has to be accounted for.         *)
(***************************************************************************)
LEMMA EndsRunning ==
  ASSUME reason' = "none",
         \A c \in Clients :
           ~Listed(c)' /\ conn'[c] # "closed" => sent'[c] = Len(toServer'[c]),
         \A c \in set' : conn'[c] = "closed" => sent'[c] = 0
  PROVE  EndsInv'
  BY DEF EndsInv, EndsByDeparture

(***************************************************************************)
(* A step that touches neither list nor set, closes no descriptor, and     *)
(* reads from a listed client only.                                        *)
(***************************************************************************)
LEMMA EndsQuiet ==
  ASSUME RegistryInv, EndsInv, Up, UNCHANGED <<reason, clients, set>>,
         \A c \in Clients : conn'[c] = "closed" <=> conn[c] = "closed",
         \A c \in Clients :
           ~Listed(c) /\ conn[c] # "closed" => sent'[c] = Len(toServer'[c]),
         \A c \in Clients : conn[c] = "closed" => sent'[c] = sent[c]
  PROVE  EndsInv'
<1>1. \A c \in Clients : Listed(c)' = Listed(c)
  BY DEF Listed
<1>2. set \subseteq Clients
  BY DEF RegistryInv, TypeOK
<1>3. reason' = "none"
  BY DEF EndsInv
<1>4. \A c \in Clients :
        ~Listed(c)' /\ conn'[c] # "closed" => sent'[c] = Len(toServer'[c])
  BY <1>1
<1>5. \A c \in set' : conn'[c] = "closed" => sent'[c] = 0
  BY <1>2 DEF EndsInv
<1> QED BY <1>3, <1>4, <1>5, EndsRunning

(***************************************************************************)
(* The slot the scan is at, and the client being logged in.                *)
(***************************************************************************)
LEMMA SlotListed ==
  ASSUME RegistryInv, Scanning
  PROVE  Slot \in Clients /\ Listed(Slot) /\ conn[Slot] # "closed"
<1>1. TypeOK /\ Up /\ Registered
  BY DEF RegistryInv, Scanning, Up
<1>2. i \in 1..Len(clients) /\ Slot \in Clients
  BY <1>1, ScanSlotType
<1>3. Listed(Slot)
  BY <1>2 DEF Listed, Slot
<1> QED BY <1>1, <1>2, <1>3 DEF Registered, Live

LEMMA LoginSockType ==
  ASSUME RegistryInv, pc = "login"
  PROVE  /\ client_sock \in Clients /\ ~Listed(client_sock)
         /\ conn[client_sock] # "closed"
  BY DEF RegistryInv, TypeOK, LoginUnlisted, Live, Up

(***************************************************************************)
(* A login: whoever is listed, nobody else's stream was touched.           *)
(***************************************************************************)
LEMMA EndsLogin ==
  ASSUME RegistryInv, EndsInv, pc = "login", NEW f \in Filters, NEW q,
         AddClient(client_sock, f), FinishLogin,
         toServer' = [toServer EXCEPT ![client_sock] = q],
         UNCHANGED <<conn, sent>>
  PROVE  EndsInv'
<1>1. TypeOK /\ Up
  BY DEF RegistryInv, Up
<1>2. client_sock \in Clients /\ conn[client_sock] # "closed"
  BY LoginSockType
<1>3. \A c \in Clients : Listed(c)' <=> Listed(c) \/ c = client_sock
  BY <1>1, <1>2, AppendListed
<1>4. \A c \in Clients : c # client_sock => toServer'[c] = toServer[c]
  BY <1>1 DEF TypeOK
<1>5. reason' = "none" /\ set' = set
  BY <1>1 DEF FinishLogin, EndsInv
<1>6. \A c \in Clients :
        ~Listed(c)' /\ conn'[c] # "closed" => sent'[c] = Len(toServer'[c])
  BY <1>1, <1>3, <1>4 DEF EndsInv
<1>7. \A c \in set' : conn'[c] = "closed" => sent'[c] = 0
  BY <1>1, <1>5 DEF EndsInv
<1> QED BY <1>5, <1>6, <1>7, EndsRunning

(***************************************************************************)
(* The server refuses a login only when nothing was written at all.        *)
(***************************************************************************)
LEMMA EndsReject ==
  ASSUME RegistryInv, EndsInv, RejectLogin
  PROVE  EndsInv'
<1>1. TypeOK /\ Up /\ pc = "login"
  BY DEF RegistryInv, Up, RejectLogin
<1>2. /\ client_sock \in Clients /\ ~Listed(client_sock)
      /\ conn[client_sock] # "closed" /\ toServer[client_sock] = <<>>
  BY <1>1, LoginSockType DEF RejectLogin, AtEOF
<1>3. sent[client_sock] = 0
  BY <1>1, <1>2 DEF EndsInv
<1>4. \A c \in Clients : conn'[c] = IF c = client_sock THEN "closed" ELSE conn[c]
  BY <1>1 DEF RejectLogin, TypeOK
<1>5. UNCHANGED <<reason, set, clients, toServer, sent>>
  BY DEF RejectLogin, FinishLogin
<1>6. \A c \in Clients : Listed(c)' = Listed(c)
  BY <1>5 DEF Listed
<1>7. reason' = "none"
  BY <1>1, <1>5 DEF EndsInv
<1>8. \A c \in Clients :
        ~Listed(c)' /\ conn'[c] # "closed" => sent'[c] = Len(toServer'[c])
  BY <1>1, <1>4, <1>5, <1>6 DEF EndsInv
<1>9. \A c \in set' : conn'[c] = "closed" => sent'[c] = 0
  BY <1>1, <1>3, <1>4, <1>5 DEF EndsInv, TypeOK
<1> QED BY <1>7, <1>8, <1>9, EndsRunning

(***************************************************************************)
(* A client that is removed leaves the set before its descriptor could be  *)
(* asked about again.                                                      *)
(***************************************************************************)
LEMMA EndsRemove ==
  ASSUME RegistryInv, EndsInv, RemoveClient
  PROVE  EndsInv'
<1>1. TypeOK /\ Up /\ Scanning /\ NoDoubleSlot
  BY DEF RegistryInv, Registered, Up, RemoveClient, Scanning
<1>2. i \in 1..Len(clients) /\ Slot \in Clients /\ clients[i].sock = Slot
  BY <1>1, ScanSlotType DEF Slot
<1>3. \A c \in Clients : Listed(c)' <=> Listed(c) /\ c # Slot
  <2>1. clients' = RemoveSlot(clients, i)
    BY DEF RemoveClient
  <2> QED BY <1>1, <1>2, <2>1, RemoveListed
<1>4. \A c \in Clients : conn'[c] = IF c = Slot THEN "closed" ELSE conn[c]
  BY <1>1 DEF RemoveClient, TypeOK
<1>5. set' = set \ {Slot} /\ UNCHANGED <<reason, toServer, sent>>
  BY DEF RemoveClient
<1>6. reason' = "none"
  BY <1>1, <1>5 DEF EndsInv
<1>7. \A c \in Clients :
        ~Listed(c)' /\ conn'[c] # "closed" => sent'[c] = Len(toServer'[c])
  BY <1>1, <1>3, <1>4, <1>5 DEF EndsInv
<1>8. \A c \in set' : conn'[c] = "closed" => sent'[c] = 0
  BY <1>1, <1>4, <1>5 DEF EndsInv, TypeOK
<1> QED BY <1>6, <1>7, <1>8, EndsRunning

(***************************************************************************)
(* A client writes: what it sent and what waits for the server grow alike. *)
(***************************************************************************)
LEMMA EndsWrite ==
  ASSUME RegistryInv, EndsInv, Up, NEW c0 \in Clients, NEW p, Write(c0, p)
  PROVE  EndsInv'
<1>1. TypeOK
  BY DEF RegistryInv
<1>2. /\ conn[c0] = "open"
      /\ \A c \in Clients :
           /\ sent'[c] = IF c = c0 THEN sent[c] + 1 ELSE sent[c]
           /\ toServer'[c] = IF c = c0 THEN Append(toServer[c], p) ELSE toServer[c]
  BY <1>1 DEF Write, TypeOK
<1>3. UNCHANGED <<reason, clients, set, conn>>
  BY DEF Write, serverVars
<1>4. Len(Append(toServer[c0], p)) = Len(toServer[c0]) + 1
  <2>1. toServer[c0] \in Seq(Packets)
    BY <1>1 DEF TypeOK
  <2>2. toServer[c0] \in Seq(Packets \cup {p})
    BY <2>1
  <2> QED BY <2>2, AppendProperties
<1>5. \A c \in Clients :
        ~Listed(c) /\ conn[c] # "closed" => sent'[c] = Len(toServer'[c])
  BY <1>2, <1>4 DEF EndsInv
<1>6. \A c \in Clients : conn[c] = "closed" => sent'[c] = sent[c]
  BY <1>2
<1> QED BY <1>3, <1>5, <1>6, EndsQuiet

(***************************************************************************)
(* The server ends in send_all: the write found a broken connection.       *)
(***************************************************************************)
LEMMA EndsSend ==
  ASSUME RegistryInv, EndsInv, SendToNext
  PROVE  EndsInv'
<1>1. TypeOK /\ Up
  BY DEF RegistryInv, SendToNext, Up
<1>2. PICK k \in 1..Len(clients) :
        \/ SendToOpen(k, clients[k].sock)
        \/ SendToGone(k, clients[k].sock)
        \/ SendToBroken(clients[k].sock)
  BY DEF SendToNext
<1>3. UNCHANGED <<set, clients, toServer, sent>>
  BY DEF SendToNext
<1>4. clients[k].sock \in Clients
  BY <1>1, SlotType
<1>5. CASE SendToBroken(clients[k].sock)
  <2>1. /\ pc' = "stopped" /\ reason' = "SIGPIPE" /\ clients' = clients
        /\ conn'[clients[k].sock] = "broken"
    BY <1>3, <1>5 DEF SendToBroken
  <2> QED BY <2>1 DEF EndsInv, EndsByDeparture, Up
<1>6. CASE ~SendToBroken(clients[k].sock)
  <2>1. reason' = reason
    BY <1>2, <1>6 DEF SendToOpen, SendToGone
  <2>2. \A c \in Clients : conn'[c] = "closed" <=> conn[c] = "closed"
    <3>1. \/ conn' = conn
          \/ /\ conn[clients[k].sock] \in {"fin", "reset"}
             /\ conn' = [conn EXCEPT ![clients[k].sock] = "broken"]
      BY <1>2, <1>6 DEF SendToOpen, SendToGone
    <3>2. CASE conn' = conn
      BY <3>2
    <3>3. CASE /\ conn[clients[k].sock] \in {"fin", "reset"}
               /\ conn' = [conn EXCEPT ![clients[k].sock] = "broken"]
      <4>1. \A c \in Clients :
              conn'[c] = IF c = clients[k].sock THEN "broken" ELSE conn[c]
        BY <1>1, <3>3 DEF TypeOK
      <4> QED BY <3>3, <4>1
    <3> QED BY <3>1, <3>2, <3>3
  <2>3. \A c \in Clients :
          ~Listed(c) /\ conn[c] # "closed" => sent'[c] = Len(toServer'[c])
    BY <1>1, <1>3 DEF EndsInv
  <2> QED BY <1>1, <1>3, <2>1, <2>2, <2>3, EndsQuiet
<1> QED BY <1>5, <1>6

LEMMA EndsStep ==
  RegistryInv /\ EndsInv /\ [Next]_vars => EndsInv'
<1> SUFFICES ASSUME RegistryInv, EndsInv, [Next]_vars PROVE EndsInv'
  OBVIOUS
<1>0. /\ TypeOK
      /\ Up => \A c \in Clients :
                 ~Listed(c) /\ conn[c] # "closed" => sent[c] = Len(toServer[c])
  BY DEF RegistryInv, EndsInv
<1>1. CASE Select
  BY <1>0, <1>1, EndsQuiet DEF Select, socketVars, Up
<1>2. CASE SelectFails
  <2>1. PICK c \in set : conn[c] = "closed"
    BY <1>2 DEF SelectFails
  <2>2. sent[c] = 0
    BY <1>2, <2>1 DEF SelectFails, EndsInv, Up
  <2>3. pc' = "stopped" /\ reason' = "EBADF" /\ UNCHANGED <<set, conn, sent>>
    BY <1>2 DEF SelectFails, Stop, socketVars
  <2> QED BY <2>1, <2>2, <2>3 DEF EndsInv, EndsByDeparture, Up
<1>3. CASE AcceptClient
  <2>1. /\ UNCHANGED <<reason, clients, conn, toServer, sent>> /\ Up
        /\ set' = set \cup {Head(backlog)} /\ backlog # <<>>
    BY <1>3 DEF AcceptClient, Up
  <2>2. Head(backlog) \in Clients /\ conn[Head(backlog)] # "closed"
    <3>1. /\ backlog \in Seq(Clients) /\ Head(backlog) = backlog[1]
          /\ 1 \in 1..Len(backlog)
      BY <1>0, <2>1, EmptySeq DEF TypeOK
    <3>2. Head(backlog) \in Clients /\ InBacklog(Head(backlog))
      BY <3>1 DEF InBacklog
    <3> QED BY <2>1, <3>2 DEF RegistryInv, BacklogUnknown, Live
  <2>3. reason' = "none"
    BY <2>1 DEF EndsInv
  <2>4. \A c \in Clients :
          ~Listed(c)' /\ conn'[c] # "closed" => sent'[c] = Len(toServer'[c])
    BY <1>0, <2>1 DEF Listed
  <2>5. \A c \in set' : conn'[c] = "closed" => sent'[c] = 0
    BY <2>1, <2>2 DEF EndsInv
  <2> QED BY <2>3, <2>4, <2>5, EndsRunning
<1>4. CASE LoginClient
  <2>1. client_sock \in Clients /\ pc = "login" /\ toServer[client_sock] # <<>>
    BY <1>0, <1>4 DEF LoginClient, TypeOK
  <2>2. toServer[client_sock] \in Seq(Packets)
    BY <1>0, <2>1 DEF TypeOK
  <2>3. Head(toServer[client_sock]).filter \in Filters
    BY <2>1, <2>2, TornHeadType DEF Packets
  <2>4. /\ toServer' = [toServer EXCEPT ![client_sock] = Tail(toServer[client_sock])]
        /\ AddClient(client_sock, Head(toServer[client_sock]).filter)
        /\ FinishLogin /\ UNCHANGED <<conn, sent>>
    BY <1>4 DEF LoginClient
  <2> QED BY <2>1, <2>3, <2>4, EndsLogin
<1>5. CASE LoginCut
  <2>1. ASSUME NEW f \in Filters, AddClient(client_sock, f), FinishLogin
        PROVE  EndsInv'
    <3>1. /\ toServer' = [toServer EXCEPT ![client_sock] =
                            TornHead(toServer[client_sock])]
          /\ pc = "login" /\ UNCHANGED <<conn, sent>>
      BY <1>5 DEF LoginCut
    <3> QED BY <2>1, <3>1, EndsLogin
  <2>2. CASE Stop("SIGSEGV")
    <3>1. pc' = "stopped" /\ reason' = "SIGSEGV" /\ ShortReads
      BY <1>5, <2>2 DEF LoginCut, Stop
    <3> QED BY <3>1 DEF EndsInv, EndsByDeparture, Up
  <2> QED BY <1>5, <2>1, <2>2 DEF LoginCut
<1>6. CASE RejectLogin
  BY <1>6, EndsReject
<1>7. CASE SkipClient
  BY <1>0, <1>7, EndsQuiet DEF SkipClient, Scanning, socketVars, Up
<1>8. CASE RecvMessage
  <2>1. PICK q : toServer' = [toServer EXCEPT ![Slot] = q]
    BY <1>8 DEF RecvMessage
  <2>2. Listed(Slot) /\ Slot \in Clients
    BY <1>8, SlotListed DEF RecvMessage
  <2>3. \A c \in Clients : c # Slot => toServer'[c] = toServer[c]
    BY <1>0, <2>1 DEF TypeOK
  <2>4. UNCHANGED <<reason, clients, set, conn, sent>> /\ Up
    BY <1>8 DEF RecvMessage, StartRelay, Scanning, Up
  <2> QED BY <1>0, <2>2, <2>3, <2>4, EndsQuiet
<1>9. CASE RecvError
  <2>1. /\ UNCHANGED <<reason, clients, set, toServer, sent>> /\ Up
        /\ conn[Slot] = "reset"
    BY <1>9 DEF RecvError, StartRelay, Scanning, Up
  <2>2. \A c \in Clients : conn'[c] = IF c = Slot THEN "broken" ELSE conn[c]
    BY <1>0, <1>9 DEF RecvError, TypeOK
  <2> QED BY <1>0, <2>1, <2>2, EndsQuiet
<1>10. CASE RemoveClient
  BY <1>10, EndsRemove
<1>11. CASE RemoveUnfiltered
  <2>1. i \in 1..Len(clients) /\ AtEOF(clients[i].sock) /\ clients[i].filter = NoFilter
    BY <1>0, <1>11, ScanSlotType DEF RemoveUnfiltered, Slot
  <2>2. /\ pc' = "stopped" /\ reason' = "SIGSEGV"
        /\ UNCHANGED <<clients, toServer, conn>>
    BY <1>11 DEF RemoveUnfiltered, Stop, socketVars
  <2> QED BY <2>1, <2>2 DEF EndsInv, EndsByDeparture, Up, AtEOF
<1>12. CASE EndScan
  BY <1>0, <1>12, EndsQuiet DEF EndScan, socketVars, Up
<1>13. CASE SendToNext
  BY <1>13, EndsSend
<1>14. CASE EndRelay
  BY <1>0, <1>14, EndsQuiet DEF EndRelay, socketVars, Up
<1>15. CASE SignalStep
  <2>1. pc' = "stopped" /\ reason' \in {"EINTR", "SIGTERM"}
    BY <1>15 DEF SignalStep, SignalInSelect, Terminate, Stop
  <2> QED BY <2>1 DEF EndsInv, EndsByDeparture, Up
<1>16. ASSUME NEW c0 \in Clients, ClientStep(c0) PROVE EndsInv'
  <2>1. CASE Connect(c0)
    <3>1. \A c \in Clients : conn'[c] = IF c = c0 THEN "open" ELSE conn[c]
      BY <1>0, <2>1 DEF Connect, TypeOK
    <3>2. conn[c0] = "none" /\ Up /\ UNCHANGED <<reason, clients, set, toServer, sent>>
      BY <2>1 DEF Connect, serverVars
    <3> QED BY <1>0, <3>1, <3>2, EndsQuiet
  <2>2. CASE SendLogin(c0)
    BY <2>2, EndsWrite DEF SendLogin
  <2>3. CASE SendMessage(c0)
    BY <2>3, EndsWrite DEF SendMessage
  <2>4. CASE ReadMessage(c0)
    BY <1>0, <2>4, EndsQuiet DEF ReadMessage, serverVars
  <2>5. CASE Disconnect(c0)
    <3>1. \E st \in {"fin", "reset"} :
            \A c \in Clients : conn'[c] = IF c = c0 THEN st ELSE conn[c]
      BY <1>0, <2>5 DEF Disconnect, TypeOK
    <3>2. /\ conn[c0] = "open" /\ Up
          /\ UNCHANGED <<reason, clients, set, toServer, sent>>
      BY <2>5 DEF Disconnect, serverVars
    <3> QED BY <1>0, <3>1, <3>2, EndsQuiet
  <2> QED BY <1>16, <2>1, <2>2, <2>3, <2>4, <2>5 DEF ClientStep
<1>17. CASE UNCHANGED vars
  BY <1>17
  DEF vars, serverVars, socketVars, EndsInv, EndsByDeparture, AtEOF, Up, Listed
<1> QED BY <1>1, <1>2, <1>3, <1>4, <1>5, <1>6, <1>7, <1>8, <1>9, <1>10, <1>11,
           <1>12, <1>13, <1>14, <1>15, <1>16, <1>17 DEF Next, ServerStep

(***************************************************************************)
(* Only a client that left, and only in one of three ways, ends a server   *)
(* nobody sent a signal, while reads return whole messages (server.c:      *)
(* 185-198, 221-239).                                                      *)
(***************************************************************************)
THEOREM EndsCorrect == Spec => []EndsByDeparture
<1>1. EndsInv => EndsByDeparture
  BY DEF EndsInv
<1> QED BY RegistryInit, RegistryStep, EndsInit, EndsStep, <1>1,
           PTL DEF Spec

-----------------------------------------------------------------------------
(***************************************************************************)
(* Every client is sent exactly what it should be.  The registry facts     *)
(* tell that a listed client is one slot; here the log, the cursor of      *)
(* send_all and the removals meet.                                         *)
(***************************************************************************)
LEMMA RelayedBound ==
  ASSUME TypeOK, JoinedBefore, NEW k \in 1..Len(clients)
  PROVE  /\ Len(log) \in Nat
         /\ RelayedUpTo(k) \in Nat
         /\ RelayedUpTo(k) <= Len(log)
         /\ RelayedUpTo(k) = Len(log) \/ RelayedUpTo(k) + 1 = Len(log)
<1>1. log \in Seq(Entries) /\ (pc = "relay" => log # <<>>)
  BY DEF TypeOK, JoinedBefore
<1>2. Len(log) \in Nat /\ (pc = "relay" => Len(log) >= 1)
  BY <1>1, EmptySeq
<1> QED BY <1>2 DEF RelayedUpTo

(***************************************************************************)
(* Slot m after a step holds the client that slot k held before it, and    *)
(* nothing that was relayed to it meanwhile was for it.                    *)
(***************************************************************************)
Kept(k, m) ==
  /\ clients'[m] = clients[k]
  /\ conn'[clients[k].sock] = "open" => conn[clients[k].sock] = "open"
  /\ RelayedUpTo(k) <= RelayedUpTo(m)'
  /\ \A n \in RelayedUpTo(k) + 1..RelayedUpTo(m)' :
       conn'[clients[k].sock] = "open" =>
         log'[n].id \notin Accepts[clients[k].filter]

LogGrows ==
  /\ Len(log) <= Len(log')
  /\ \A n \in 1..Len(log) : log'[n] = log[n]

LEMMA KeptServed ==
  ASSUME TypeOK, JoinedBefore, TypeOK', NEW k \in 1..Len(clients),
         NEW m \in 1..Len(clients'), DeliveredTo(k), Kept(k, m), LogGrows,
         RelayedUpTo(m)' \in Nat, joined' = joined,
         delivered'[clients[k].sock] = delivered[clients[k].sock]
  PROVE  /\ DeliveredTo(m)'
         /\ joined'[clients'[m].sock] <= RelayedUpTo(m)'
<1> DEFINE c == clients[k].sock
           f == clients[k].filter
           d == delivered[c]
           r == RelayedUpTo(k)
           s == RelayedUpTo(m)'
<1>1. /\ clients'[m].sock = c /\ clients'[m].filter = f
      /\ joined'[c] = joined[c] /\ delivered'[c] = d
      /\ c \in Clients
  BY SlotType DEF Kept
<1>2. joined[c] \in Nat /\ d \in Seq(Nat)
  BY <1>1 DEF TypeOK
<1>3. /\ r \in Nat /\ s \in Nat /\ r <= s /\ r <= Len(log) /\ Len(log) \in Nat
      /\ joined[c] <= r
  BY RelayedBound DEF Kept, JoinedBefore
<1>4. /\ Increasing(d)
      /\ \A j \in 1..Len(d) : d[j] \in joined[c] + 1..r /\ log[d[j]].id \in Accepts[f]
      /\ conn[c] = "open" =>
           \A n \in joined[c] + 1..r : log[n].id \in Accepts[f] => Holds(d, n)
  BY DEF DeliveredTo
<1>5. /\ conn'[c] = "open" => conn[c] = "open"
      /\ \A n \in r + 1..s : conn'[c] = "open" => log'[n].id \notin Accepts[f]
      /\ \A n \in 1..Len(log) : log'[n] = log[n]
  BY DEF Kept, LogGrows
<1> HIDE DEF c, f, d, r, s
<1>6. \A n \in joined[c] + 1..r : n \in 1..Len(log) /\ n \in joined[c] + 1..s
  BY <1>2, <1>3
<1>7. \A j \in 1..Len(d) : d[j] \in joined[c] + 1..s /\ log'[d[j]].id \in Accepts[f]
  <2> SUFFICES ASSUME NEW j \in 1..Len(d)
               PROVE  d[j] \in joined[c] + 1..s /\ log'[d[j]].id \in Accepts[f]
    OBVIOUS
  <2>1. d[j] \in joined[c] + 1..r /\ log[d[j]].id \in Accepts[f]
    BY <1>4
  <2>2. d[j] \in joined[c] + 1..s /\ d[j] \in 1..Len(log)
    BY <1>6, <2>1
  <2>3. log'[d[j]] = log[d[j]]
    BY <1>5, <2>2
  <2> QED BY <2>1, <2>2, <2>3
<1>8. ASSUME conn'[c] = "open", NEW n \in joined[c] + 1..s, log'[n].id \in Accepts[f]
      PROVE  Holds(d, n)
  <2>1. n \in joined[c] + 1..r
    <3>1. n \notin r + 1..s
      BY <1>5, <1>8
    <3> QED BY <1>2, <1>3, <3>1
  <2>2. log'[n] = log[n]
    BY <1>5, <1>6, <2>1
  <2> QED BY <1>4, <1>5, <1>8, <2>1, <2>2
<1>9. DeliveredTo(m)'
  <2>1. /\ delivered'[clients'[m].sock] = d
        /\ joined'[clients'[m].sock] = joined[c]
        /\ conn'[clients'[m].sock] = conn'[c]
        /\ clients'[m].filter = f
    BY <1>1
  <2>2. /\ Increasing(delivered'[clients'[m].sock])
        /\ \A j \in 1..Len(delivered'[clients'[m].sock]) :
             /\ delivered'[clients'[m].sock][j] \in joined'[clients'[m].sock] + 1..s
             /\ log'[delivered'[clients'[m].sock][j]].id \in Accepts[clients'[m].filter]
    BY <1>4, <1>7, <2>1
  <2>3. conn'[clients'[m].sock] = "open" =>
          \A n \in joined'[clients'[m].sock] + 1..s :
            log'[n].id \in Accepts[clients'[m].filter]
              => Holds(delivered'[clients'[m].sock], n)
    BY <1>8, <2>1
  <2> QED BY <2>2, <2>3 DEF DeliveredTo, Increasing, Holds, s
<1>10. joined'[clients'[m].sock] <= s
  <2>1. joined'[clients'[m].sock] = joined[c]
    BY <1>1
  <2>2. joined[c] <= s
    BY <1>2, <1>3
  <2> QED BY <2>1, <2>2
<1> QED BY <1>9, <1>10 DEF s

(***************************************************************************)
(* A step that appends nothing to what the clients were sent.              *)
(***************************************************************************)
LEMMA DeliveryKept ==
  ASSUME DeliveryInv, Up, RegistryInv', LogGrows, joined' = joined, delivered' = delivered,
         pc' = "relay" => log' # <<>>,
         \A m \in 1..Len(clients') : \E k \in 1..Len(clients) : Kept(k, m),
         \A c \in Clients :
           ~Listed(c)' /\ conn'[c] # "closed" => ~Listed(c) /\ conn[c] # "closed"
  PROVE  DeliveryInv'
<1>1. TypeOK /\ TypeOK' /\ JoinedBefore /\ UnlistedUnserved /\ ExactDelivery
  BY DEF DeliveryInv, RegistryInv
<1>2. ASSUME NEW m \in 1..Len(clients')
      PROVE  DeliveredTo(m)' /\ joined'[clients'[m].sock] <= RelayedUpTo(m)'
  <2>1. PICK k \in 1..Len(clients) : Kept(k, m)
    OBVIOUS
  <2>2. DeliveredTo(k)
    BY <1>1 DEF ExactDelivery
  <2>3. RelayedUpTo(m)' \in Nat
    <3>1. log' \in Seq(Entries)
      BY <1>1 DEF TypeOK
    <3>2. Len(log') \in Nat /\ (pc' = "relay" => Len(log') >= 1)
      BY <3>1, EmptySeq
    <3> QED BY <3>2 DEF RelayedUpTo
  <2> QED BY <1>1, <2>1, <2>2, <2>3, KeptServed
<1>3. ExactDelivery' /\ JoinedBefore'
  BY <1>2 DEF ExactDelivery, JoinedBefore
<1>4. UnlistedUnserved'
  BY <1>1 DEF UnlistedUnserved
<1> QED BY <1>3, <1>4 DEF DeliveryInv

LEMMA StoppedDelivery == ASSUME RegistryInv', ~Up' PROVE DeliveryInv'
  BY DEF DeliveryInv, ExactDelivery

(***************************************************************************)
(* A step outside send_all that leaves the list and the log alone.         *)
(***************************************************************************)
LEMMA DeliveryQuiet ==
  ASSUME DeliveryInv, Up, RegistryInv',
         UNCHANGED <<clients, log, joined, delivered>>,
         \/ pc # "relay" /\ pc' # "relay"
         \/ UNCHANGED <<pc, oldclient>>,
         \A c \in Clients : Listed(c) => (conn'[c] = "open" => conn[c] = "open"),
         \A c \in Clients : conn'[c] # "closed" => conn[c] # "closed"
  PROVE  DeliveryInv'
<1>1. TypeOK /\ JoinedBefore
  BY DEF DeliveryInv, RegistryInv
<1>2. LogGrows
  <2>1. Len(log) \in Nat
    BY <1>1 DEF TypeOK
  <2> QED BY <2>1 DEF LogGrows
<1>3. pc' = "relay" => log' # <<>>
  BY <1>1 DEF JoinedBefore
<1>4. ASSUME NEW m \in 1..Len(clients') PROVE m \in 1..Len(clients) /\ Kept(m, m)
  <2>1. m \in 1..Len(clients) /\ clients' = clients
    OBVIOUS
  <2>2. RelayedUpTo(m)' = RelayedUpTo(m)
    BY DEF RelayedUpTo
  <2>3. clients[m].sock \in Clients /\ Listed(clients[m].sock)
    BY <1>1, <2>1, SlotType DEF Listed
  <2>4. RelayedUpTo(m) \in Nat
    BY <1>1, <2>1, RelayedBound
  <2>5. \A n \in RelayedUpTo(m) + 1..RelayedUpTo(m)' : FALSE
    BY <2>2, <2>4
  <2> QED BY <2>1, <2>2, <2>3, <2>4, <2>5 DEF Kept
<1>5. \A c \in Clients : Listed(c)' = Listed(c)
  BY DEF Listed
<1> QED BY <1>2, <1>3, <1>4, <1>5, DeliveryKept

(***************************************************************************)
(* A new client was sent nothing yet, and nothing was relayed since.       *)
(***************************************************************************)
LEMMA DeliveryLogin ==
  ASSUME DeliveryInv, RegistryInv', pc = "login", NEW f \in Filters,
         AddClient(client_sock, f), FinishLogin, UNCHANGED <<conn, log, delivered>>
  PROVE  DeliveryInv'
<1> DEFINE c0 == client_sock
<1>1. /\ TypeOK /\ TypeOK' /\ JoinedBefore /\ UnlistedUnserved /\ ExactDelivery
      /\ c0 \in Clients /\ ~Listed(c0) /\ Live(c0)
  BY DEF DeliveryInv, RegistryInv, Up, LoginUnlisted, TypeOK
<1>2. /\ Len(clients') = Len(clients) + 1
      /\ \A k \in 1..Len(clients) : clients'[k] = clients[k]
      /\ clients'[Len(clients) + 1] = [sock |-> c0, filter |-> f]
      /\ \A c \in Clients : Listed(c)' <=> Listed(c) \/ c = c0
  BY <1>1, AppendListed
<1>3. joined' = [joined EXCEPT ![c0] = Len(log)] /\ pc' = "scan"
  BY DEF AddClient, FinishLogin
<1>4. Len(clients) \in Nat /\ Len(log) \in Nat
  <2>1. Len(clients) \in Nat
    BY <1>1 DEF TypeOK
  <2>2. log \in Seq(Entries)
    BY <1>1 DEF TypeOK
  <2> QED BY <2>1, <2>2
<1>5. \A k \in Nat : RelayedUpTo(k)' = Len(log) /\ RelayedUpTo(k) = Len(log)
  BY <1>3 DEF RelayedUpTo
<1>6. delivered[c0] = <<>>
  BY <1>1 DEF UnlistedUnserved, Live
<1>7. ASSUME NEW m \in 1..Len(clients)
      PROVE  DeliveredTo(m)' /\ joined'[clients'[m].sock] <= RelayedUpTo(m)'
  <2> DEFINE c == clients[m].sock
  <2>1. clients'[m] = clients[m] /\ c \in Clients /\ c # c0
    BY <1>1, <1>2, SlotType DEF Listed
  <2>2. joined'[clients'[m].sock] = joined[c]
    BY <1>1, <1>3, <2>1 DEF TypeOK
  <2>3. RelayedUpTo(m)' = Len(log) /\ RelayedUpTo(m) = Len(log)
    BY <1>5
  <2>4. DeliveredTo(m)
    BY <1>1 DEF ExactDelivery, Up
  <2>5. DeliveredTo(m)'
    BY <2>1, <2>2, <2>3, <2>4 DEF DeliveredTo
  <2>6. joined[c] <= Len(log)
    BY <1>1, <2>3 DEF JoinedBefore
  <2> QED BY <2>2, <2>3, <2>5, <2>6
<1>8. ASSUME NEW m \in 1..Len(clients'), m = Len(clients) + 1
      PROVE  DeliveredTo(m)' /\ joined'[clients'[m].sock] <= RelayedUpTo(m)'
  <2>1. clients'[m].sock = c0
    BY <1>2, <1>8
  <2>2. joined'[clients'[m].sock] = Len(log) /\ delivered'[clients'[m].sock] = <<>>
    BY <1>1, <1>3, <1>6, <2>1 DEF TypeOK
  <2>3. RelayedUpTo(m)' = Len(log)
    BY <1>5
  <2>4. Increasing(<<>>) /\ \A n \in Len(log) + 1..Len(log) : FALSE
    BY <1>4 DEF Increasing
  <2>5. DeliveredTo(m)'
    BY <2>2, <2>3, <2>4 DEF DeliveredTo, Increasing
  <2> QED BY <1>4, <2>2, <2>3, <2>5
<1>9. \A m \in 1..Len(clients') : m \in 1..Len(clients) \/ m = Len(clients) + 1
  BY <1>2, <1>4
<1>10. ExactDelivery'
  BY <1>7, <1>8, <1>9 DEF ExactDelivery
<1>11. JoinedBefore'
  BY <1>3, <1>7, <1>8, <1>9 DEF JoinedBefore
<1>12. UnlistedUnserved'
  BY <1>1, <1>2 DEF UnlistedUnserved
<1> QED BY <1>10, <1>11, <1>12 DEF DeliveryInv

(***************************************************************************)
(* A message enters the log before send_all has sent it to anyone.         *)
(***************************************************************************)
LEMMA DeliveryStart ==
  ASSUME DeliveryInv, RegistryInv', pc = "scan", pc' = "relay", oldclient' = 0,
         NEW e, log' = Append(log, e), UNCHANGED <<clients, joined, delivered>>,
         \A c \in Clients : conn'[c] = "open" => conn[c] = "open",
         \A c \in Clients : conn'[c] # "closed" => conn[c] # "closed"
  PROVE  DeliveryInv'
<1>1. TypeOK /\ TypeOK' /\ JoinedBefore /\ Up
  BY DEF DeliveryInv, RegistryInv, Up
<1>2. /\ Len(log') = Len(log) + 1 /\ Len(log) \in Nat /\ log' # <<>>
      /\ \A n \in 1..Len(log) : log'[n] = log[n]
  <2>1. log \in Seq(Entries) /\ log' \in Seq(Entries)
    BY <1>1 DEF TypeOK
  <2>2. /\ Len(log') = Len(log) + 1 /\ Len(log) \in Nat
        /\ \A n \in 1..Len(log) : log'[n] = log[n]
    BY <2>1
  <2> QED BY <2>1, <2>2, EmptySeq
<1>3. LogGrows
  BY <1>2 DEF LogGrows
<1>4. ASSUME NEW m \in 1..Len(clients') PROVE m \in 1..Len(clients) /\ Kept(m, m)
  <2>1. m \in 1..Len(clients) /\ m \in Nat /\ m > 0 /\ clients' = clients
    OBVIOUS
  <2>2. RelayedUpTo(m) = Len(log) /\ RelayedUpTo(m)' = Len(log)
    BY <1>2, <2>1 DEF RelayedUpTo
  <2>3. clients[m].sock \in Clients
    BY <1>1, <2>1, SlotType
  <2>4. \A n \in RelayedUpTo(m) + 1..RelayedUpTo(m)' : FALSE
    BY <1>2, <2>2
  <2> QED BY <1>2, <2>1, <2>2, <2>3, <2>4 DEF Kept
<1>5. \A c \in Clients : Listed(c)' = Listed(c)
  BY DEF Listed
<1> QED BY <1>1, <1>2, <1>3, <1>4, <1>5, DeliveryKept

(***************************************************************************)
(* A removal: the clients behind the hole move down with what is theirs.   *)
(***************************************************************************)
LEMMA DeliveryRemove ==
  ASSUME DeliveryInv, RegistryInv', RemoveClient
  PROVE  DeliveryInv'
<1>1. /\ TypeOK /\ JoinedBefore /\ Up /\ NoDoubleSlot
      /\ pc = "scan" /\ pc' = "scan"
      /\ i \in 1..Len(clients) /\ Slot \in Clients /\ Slot = clients[i].sock
  BY ScanSlotType
  DEF DeliveryInv, RegistryInv, Registered, Up, RemoveClient, Scanning, Slot
<1>2. /\ clients' = RemoveSlot(clients, i) /\ conn' = [conn EXCEPT ![Slot] = "closed"]
      /\ UNCHANGED <<log, joined, delivered>>
  BY DEF RemoveClient, historyVars
<1>3. /\ Len(clients') = Len(clients) - 1
      /\ \A j \in 1..Len(clients') :
           clients'[j] = IF j < i THEN clients[j] ELSE clients[j + 1]
      /\ \A c \in Clients : Listed(c)' <=> Listed(c) /\ c # Slot
  BY <1>1, <1>2, RemoveListed
<1>4. \A c \in Clients : conn'[c] = IF c = Slot THEN "closed" ELSE conn[c]
  BY <1>1, <1>2 DEF TypeOK
<1>5. Len(log) \in Nat /\ Len(clients) \in Nat
  <2>1. log \in Seq(Entries)
    BY <1>1 DEF TypeOK
  <2>2. Len(clients) \in Nat
    BY <1>1 DEF TypeOK
  <2> QED BY <2>1, <2>2
<1>6. LogGrows
  BY <1>2, <1>5 DEF LogGrows
<1>7. ASSUME NEW m \in 1..Len(clients')
      PROVE  \E k \in 1..Len(clients) : Kept(k, m)
  <2> DEFINE k == IF m < i THEN m ELSE m + 1
  <2>1. k \in 1..Len(clients) /\ clients'[m] = clients[k]
    BY <1>1, <1>3, <1>5
  <2> HIDE DEF k
  <2>2. clients[k].sock \in Clients
    BY <1>1, <2>1, SlotType
  <2>3. RelayedUpTo(k) = Len(log) /\ RelayedUpTo(m)' = Len(log)
    BY <1>1, <1>2 DEF RelayedUpTo
  <2>4. \A n \in RelayedUpTo(k) + 1..RelayedUpTo(m)' : FALSE
    BY <1>5, <2>3
  <2>5. Kept(k, m)
    BY <1>4, <1>5, <2>1, <2>2, <2>3, <2>4 DEF Kept
  <2> QED BY <2>1, <2>5
<1>8. \A c \in Clients :
        ~Listed(c)' /\ conn'[c] # "closed" => ~Listed(c) /\ conn[c] # "closed"
  BY <1>3, <1>4
<1> QED BY <1>1, <1>2, <1>6, <1>7, <1>8, DeliveryKept

(***************************************************************************)
(* send_all: the cursor passes the clients the message is not for, and     *)
(* stops at the next one it is for.                                        *)
(***************************************************************************)
PassedOver(k) ==
  \A j \in 1..Len(clients) :
    j > oldclient /\ j < k => log[Len(log)].id \notin Accepts[clients[j].filter]

LEMMA NextClient ==
  ASSUME TypeOK, NEW k \in 1..Len(clients), IsNextClient(k)
  PROVE  /\ k > oldclient
         /\ log[Len(log)].id \in Accepts[clients[k].filter]
         /\ PassedOver(k)
<1>1. /\ k > oldclient /\ filter_match(clients[k], message.id)
      /\ \A j \in oldclient + 1..k - 1 : ~filter_match(clients[j], message.id)
  BY DEF IsNextClient
<1>2. oldclient \in Nat /\ k \in Nat
  BY DEF TypeOK
<1>3. \A j \in 1..Len(clients) : j > oldclient /\ j < k => j \in oldclient + 1..k - 1
  BY <1>2
<1> QED BY <1>1, <1>3 DEF filter_match, message, PassedOver

(***************************************************************************)
(* The cursor moves to slot k0; a client passed over, or at k0 and gone,   *)
(* misses nothing.                                                         *)
(***************************************************************************)
LEMMA CursorKept ==
  ASSUME TypeOK, JoinedBefore, pc = "relay", NEW k0 \in Nat,
         k0 > oldclient, PassedOver(k0), UNCHANGED <<clients, log>>,
         \/ pc' = "relay" /\ oldclient' = k0
         \/ pc' = "scan" /\ k0 = Len(clients) + 1,
         NEW k \in 1..Len(clients), k = k0 => conn'[clients[k].sock] # "open",
         conn'[clients[k].sock] = "open" => conn[clients[k].sock] = "open"
  PROVE  Kept(k, k)
<1>1. /\ oldclient \in Nat /\ k \in Nat
      /\ Len(log) \in Nat /\ Len(log) >= 1 /\ Len(clients) \in Nat
  <2>1. log \in Seq(Entries) /\ log # <<>>
    BY DEF TypeOK, JoinedBefore
  <2>2. oldclient \in Nat /\ Len(clients) \in Nat
    BY DEF TypeOK
  <2> QED BY <2>1, <2>2, EmptySeq
<1>2. CASE k <= oldclient
  <2>1. RelayedUpTo(k) = Len(log) /\ RelayedUpTo(k)' = Len(log)
    BY <1>1, <1>2 DEF RelayedUpTo
  <2>2. \A n \in RelayedUpTo(k) + 1..RelayedUpTo(k)' : FALSE
    BY <1>1, <2>1
  <2> QED BY <1>1, <2>1, <2>2 DEF Kept
<1>3. CASE k > oldclient /\ k <= k0
  <2>1. RelayedUpTo(k) = Len(log) - 1 /\ RelayedUpTo(k)' = Len(log)
    BY <1>1, <1>3 DEF RelayedUpTo
  <2>2. \A n \in RelayedUpTo(k) + 1..RelayedUpTo(k)' : n = Len(log)
    BY <1>1, <2>1
  <2>3. k < k0 => log[Len(log)].id \notin Accepts[clients[k].filter]
    BY <1>3 DEF PassedOver
  <2>4. k < k0 \/ conn'[clients[k].sock] # "open"
    BY <1>1, <1>3
  <2>5. RelayedUpTo(k) <= RelayedUpTo(k)'
    BY <1>1, <2>1
  <2> QED BY <2>2, <2>3, <2>4, <2>5 DEF Kept
<1>4. CASE k > k0
  <2>1. pc' = "relay" /\ oldclient' = k0
    BY <1>1, <1>4
  <2>2. RelayedUpTo(k) = Len(log) - 1 /\ RelayedUpTo(k)' = Len(log) - 1
    BY <1>1, <1>4, <2>1 DEF RelayedUpTo
  <2>3. \A n \in RelayedUpTo(k) + 1..RelayedUpTo(k)' : FALSE
    BY <1>1, <2>2
  <2> QED BY <1>1, <2>2, <2>3 DEF Kept
<1> QED BY <1>1, <1>2, <1>3, <1>4

(***************************************************************************)
(* The write itself: one message more for the client in slot k0.           *)
(***************************************************************************)
LEMMA SentServed ==
  ASSUME TypeOK, JoinedBefore, pc = "relay", NEW k0 \in 1..Len(clients),
         IsNextClient(k0), DeliveredTo(k0), pc' = "relay", oldclient' = k0,
         UNCHANGED <<clients, log, joined, conn>>,
         delivered'[clients[k0].sock] = Append(delivered[clients[k0].sock], Len(log))
  PROVE  /\ DeliveredTo(k0)'
         /\ joined'[clients'[k0].sock] <= RelayedUpTo(k0)'
<1> DEFINE c == clients[k0].sock
           f == clients[k0].filter
           d == delivered[c]
           e == Append(d, Len(log))
<1>1. c \in Clients
  BY SlotType
<1>2. joined[c] \in Nat /\ d \in Seq(Nat)
  BY <1>1 DEF TypeOK
<1>3. k0 > oldclient /\ log[Len(log)].id \in Accepts[f]
  BY NextClient
<1>4. oldclient \in Nat /\ k0 \in Nat
  BY DEF TypeOK
<1>5. Len(log) \in Nat /\ Len(log) >= 1
  <2>1. log \in Seq(Entries) /\ log # <<>>
    BY DEF TypeOK, JoinedBefore
  <2> QED BY <2>1, EmptySeq
<1>6. RelayedUpTo(k0) = Len(log) - 1 /\ RelayedUpTo(k0)' = Len(log)
  BY <1>3, <1>4 DEF RelayedUpTo
<1>7. joined[c] <= Len(log) - 1
  BY <1>6 DEF JoinedBefore
<1>8. /\ Increasing(d)
      /\ \A j \in 1..Len(d) :
           d[j] \in joined[c] + 1..Len(log) - 1 /\ log[d[j]].id \in Accepts[f]
      /\ conn[c] = "open" =>
           \A n \in joined[c] + 1..Len(log) - 1 :
             log[n].id \in Accepts[f] => Holds(d, n)
  BY <1>6 DEF DeliveredTo
<1> HIDE DEF c, f, d
<1>9. /\ Len(e) = Len(d) + 1 /\ Len(d) \in Nat /\ e[Len(d) + 1] = Len(log)
      /\ \A j \in 1..Len(d) : e[j] = d[j]
  BY <1>2, <1>5, AppendProperties
<1> HIDE DEF e
<1>10. Increasing(e)
  <2> SUFFICES ASSUME NEW j \in 1..Len(e), NEW k \in 1..Len(e), j < k PROVE e[j] < e[k]
    BY DEF Increasing
  <2>1. j \in 1..Len(d) /\ e[j] = d[j]
    BY <1>9
  <2>2. CASE k \in 1..Len(d)
    BY <1>8, <1>9, <2>1, <2>2 DEF Increasing
  <2>3. CASE k = Len(d) + 1
    <3>1. d[j] \in joined[c] + 1..Len(log) - 1
      BY <1>8, <2>1
    <3>2. d[j] < Len(log)
      BY <1>2, <1>5, <3>1
    <3> QED BY <1>9, <2>1, <2>3, <3>2
  <2> QED BY <1>9, <2>2, <2>3
<1>11. ASSUME NEW j \in 1..Len(e)
       PROVE  e[j] \in joined[c] + 1..Len(log) /\ log[e[j]].id \in Accepts[f]
  <2>1. CASE j \in 1..Len(d)
    <3>1. e[j] = d[j] /\ d[j] \in joined[c] + 1..Len(log) - 1 /\ log[d[j]].id \in Accepts[f]
      BY <1>8, <1>9, <2>1
    <3> QED BY <1>2, <1>5, <3>1
  <2>2. CASE j = Len(d) + 1
    BY <1>2, <1>3, <1>5, <1>7, <1>9, <2>2 DEF f
  <2> QED BY <1>9, <2>1, <2>2
<1>12. ASSUME conn[c] = "open", NEW n \in joined[c] + 1..Len(log), log[n].id \in Accepts[f]
       PROVE  Holds(e, n)
  <2>1. CASE n \in joined[c] + 1..Len(log) - 1
    <3>1. Holds(d, n)
      BY <1>8, <1>12, <2>1
    <3>2. PICK j \in 1..Len(d) : d[j] = n
      BY <3>1 DEF Holds
    <3>3. j \in 1..Len(e) /\ e[j] = n
      BY <1>9, <3>2
    <3> QED BY <3>3 DEF Holds
  <2>2. CASE n = Len(log)
    <3>1. Len(d) + 1 \in 1..Len(e) /\ e[Len(d) + 1] = n
      BY <1>9, <2>2
    <3> QED BY <3>1 DEF Holds
  <2>3. n \in joined[c] + 1..Len(log) - 1 \/ n = Len(log)
    BY <1>2, <1>5
  <2> QED BY <2>1, <2>2, <2>3
<1>13. /\ clients'[k0].sock = c /\ clients'[k0].filter = f
       /\ delivered'[c] = e /\ joined' = joined /\ conn' = conn /\ log' = log
  BY DEF c, f, d, e
<1>14. DeliveredTo(k0)'
  <2>1. /\ delivered'[clients'[k0].sock] = e
        /\ joined'[clients'[k0].sock] = joined[c]
        /\ conn'[clients'[k0].sock] = conn[c]
    BY <1>13
  <2>2. /\ Increasing(delivered'[clients'[k0].sock])
        /\ \A j \in 1..Len(delivered'[clients'[k0].sock]) :
             /\ delivered'[clients'[k0].sock][j]
                  \in joined'[clients'[k0].sock] + 1..RelayedUpTo(k0)'
             /\ log'[delivered'[clients'[k0].sock][j]].id \in Accepts[clients'[k0].filter]
    BY <1>6, <1>10, <1>11, <1>13, <2>1
  <2>3. conn'[clients'[k0].sock] = "open" =>
          \A n \in joined'[clients'[k0].sock] + 1..RelayedUpTo(k0)' :
            log'[n].id \in Accepts[clients'[k0].filter]
              => Holds(delivered'[clients'[k0].sock], n)
    BY <1>6, <1>12, <1>13, <2>1
  <2> QED BY <2>2, <2>3 DEF DeliveredTo, Increasing, Holds
<1>15. joined'[clients'[k0].sock] <= RelayedUpTo(k0)'
  <2>1. joined'[clients'[k0].sock] = joined[c]
    BY <1>13
  <2>2. joined[c] <= Len(log)
    BY <1>2, <1>5, <1>7
  <2> QED BY <1>6, <2>1, <2>2
<1> QED BY <1>14, <1>15

LEMMA DeliverySend ==
  ASSUME DeliveryInv, RegistryInv', SendToNext
  PROVE  DeliveryInv'
<1>1. PICK k0 \in 1..Len(clients) :
        /\ IsNextClient(k0)
        /\ \/ SendToOpen(k0, clients[k0].sock)
           \/ SendToGone(k0, clients[k0].sock)
           \/ SendToBroken(clients[k0].sock)
  BY DEF SendToNext
<1> DEFINE c0 == clients[k0].sock
<1>2. /\ pc = "relay" /\ Up /\ UNCHANGED <<clients, log, joined>>
      /\ TypeOK /\ TypeOK' /\ JoinedBefore /\ UnlistedUnserved /\ ExactDelivery
      /\ NoDoubleSlot
  BY DEF SendToNext, DeliveryInv, RegistryInv, Registered, Up
<1>3. c0 \in Clients /\ k0 \in Nat /\ k0 > oldclient /\ PassedOver(k0)
  BY <1>1, <1>2, SlotType, NextClient
<1>4. LogGrows
  <2>1. log \in Seq(Entries)
    BY <1>2 DEF TypeOK
  <2>2. Len(log) \in Nat
    BY <2>1
  <2> QED BY <1>2, <2>2 DEF LogGrows
<1>5. pc' = "relay" => log' # <<>>
  BY <1>2 DEF JoinedBefore
<1>6. \A c \in Clients : Listed(c)' = Listed(c)
  BY <1>2 DEF Listed
<1>7. CASE SendToBroken(clients[k0].sock)
  BY <1>7, StoppedDelivery DEF SendToBroken, Up
<1>8. CASE SendToGone(k0, clients[k0].sock)
  <2>1. /\ pc' = "relay" /\ oldclient' = k0 /\ delivered' = delivered
        /\ \/ conn[c0] = "fin" /\ conn' = conn
           \/ conn[c0] \in {"fin", "reset"} /\ conn' = [conn EXCEPT ![c0] = "broken"]
    BY <1>2, <1>8 DEF SendToGone
  <2>2. /\ conn'[c0] # "open" /\ \A c \in Clients : conn'[c] = "open" => conn[c] = "open"
        /\ \A c \in Clients : conn'[c] # "closed" => conn[c] # "closed"
    <3>1. CASE conn[c0] = "fin" /\ conn' = conn
      BY <3>1
    <3>2. CASE conn[c0] \in {"fin", "reset"} /\ conn' = [conn EXCEPT ![c0] = "broken"]
      <4>1. \A c \in Clients : conn'[c] = IF c = c0 THEN "broken" ELSE conn[c]
        BY <1>2, <3>2 DEF TypeOK
      <4> QED BY <1>3, <3>2, <4>1
    <3> QED BY <2>1, <3>1, <3>2
  <2>3. ASSUME NEW k \in 1..Len(clients) PROVE Kept(k, k)
    <3>1. clients[k].sock \in Clients
      BY <1>2, SlotType
    <3> QED BY <1>2, <1>3, <2>1, <2>2, <3>1, CursorKept
  <2> QED BY <1>2, <1>4, <1>5, <1>6, <2>1, <2>2, <2>3, DeliveryKept
<1>9. CASE SendToOpen(k0, clients[k0].sock)
  <2>1. /\ pc' = "relay" /\ oldclient' = k0 /\ conn' = conn
        /\ delivered' = [delivered EXCEPT ![c0] = Append(delivered[c0], Len(log))]
    BY <1>2, <1>9 DEF SendToOpen
  <2>2. \A c \in Clients :
          delivered'[c] = IF c = c0 THEN Append(delivered[c0], Len(log)) ELSE delivered[c]
    BY <1>2, <1>3, <2>1 DEF TypeOK
  <2>3. ASSUME NEW k \in 1..Len(clients)
        PROVE  DeliveredTo(k)' /\ joined'[clients'[k].sock] <= RelayedUpTo(k)'
    <3>1. DeliveredTo(k)
      BY <1>2 DEF ExactDelivery
    <3>2. CASE k = k0
      BY <1>1, <1>2, <1>3, <2>1, <2>2, <3>1, <3>2, SentServed
    <3>3. CASE k # k0
      <4>1. clients[k].sock \in Clients /\ clients[k].sock # c0
        BY <1>2, <3>3, SlotType DEF NoDoubleSlot
      <4>2. Kept(k, k)
        BY <1>2, <1>3, <2>1, <3>3, CursorKept
      <4>3. delivered'[clients[k].sock] = delivered[clients[k].sock]
        BY <2>2, <4>1
      <4>4. k \in 1..Len(clients') /\ joined' = joined
        BY <1>2
      <4>5. RelayedUpTo(k)' \in Nat
        <5>1. Len(log) \in Nat /\ Len(log) >= 1
          <6>1. log \in Seq(Entries) /\ log # <<>>
            BY <1>2 DEF TypeOK, JoinedBefore
          <6> QED BY <6>1, EmptySeq
        <5> QED BY <1>2, <5>1 DEF RelayedUpTo
      <4> QED BY <1>2, <1>4, <3>1, <4>2, <4>3, <4>4, <4>5, KeptServed
    <3> QED BY <3>2, <3>3
  <2>4. ExactDelivery' /\ JoinedBefore'
    BY <1>2, <1>5, <2>3 DEF ExactDelivery, JoinedBefore
  <2>5. UnlistedUnserved'
    <3>1. Listed(c0)
      BY DEF Listed
    <3> QED BY <1>2, <1>6, <2>1, <2>2, <3>1 DEF UnlistedUnserved
  <2> QED BY <2>4, <2>5 DEF DeliveryInv
<1> QED BY <1>1, <1>7, <1>8, <1>9

LEMMA DeliveryEndRelay ==
  ASSUME DeliveryInv, RegistryInv', EndRelay
  PROVE  DeliveryInv'
<1>1. /\ pc = "relay" /\ pc' = "scan" /\ Up /\ TypeOK /\ JoinedBefore
      /\ UNCHANGED <<clients, log, joined, delivered, conn, oldclient>>
  BY DEF EndRelay, DeliveryInv, RegistryInv, socketVars, historyVars, Up
<1>2. /\ oldclient \in Nat /\ Len(clients) \in Nat
  BY <1>1 DEF TypeOK
<1>3. Len(log) \in Nat
  <2>1. log \in Seq(Entries)
    BY <1>1 DEF TypeOK
  <2> QED BY <2>1
<1>4. LogGrows
  BY <1>1, <1>3 DEF LogGrows
<1>5. ASSUME NEW m \in 1..Len(clients) PROVE Kept(m, m)
  <2>1. m \in Nat
    OBVIOUS
  <2>2. RelayedUpTo(m)' = Len(log)
    BY <1>1 DEF RelayedUpTo
  <2>3. CASE m > oldclient
    <3>1. m \in oldclient + 1..Len(clients)
      BY <1>2, <2>3
    <3>2. log[Len(log)].id \notin Accepts[clients[m].filter]
      BY <3>1 DEF EndRelay, filter_match, message
    <3>3. RelayedUpTo(m) = Len(log) - 1
      BY <1>1, <2>3 DEF RelayedUpTo
    <3>4. \A n \in RelayedUpTo(m) + 1..RelayedUpTo(m)' : n = Len(log)
      BY <1>3, <2>2, <3>3
    <3> QED BY <1>1, <1>3, <2>2, <3>2, <3>3, <3>4 DEF Kept
  <2>4. CASE ~(m > oldclient)
    <3>1. RelayedUpTo(m) = Len(log)
      BY <2>4 DEF RelayedUpTo
    <3>2. \A n \in RelayedUpTo(m) + 1..RelayedUpTo(m)' : FALSE
      BY <1>3, <2>2, <3>1
    <3> QED BY <1>1, <1>3, <2>2, <3>1, <3>2 DEF Kept
  <2> QED BY <2>3, <2>4
<1>6. \A c \in Clients : Listed(c)' = Listed(c)
  BY <1>1 DEF Listed
<1> QED BY <1>1, <1>4, <1>5, <1>6, DeliveryKept

LEMMA DeliveryInit == Init => DeliveryInv
<1> SUFFICES ASSUME Init PROVE DeliveryInv
  OBVIOUS
<1>1. RegistryInv
  BY RegistryInit
<1>2. ExactDelivery /\ UnlistedUnserved /\ JoinedBefore
  BY DEF Init, ExactDelivery, UnlistedUnserved, JoinedBefore
<1> QED BY <1>1, <1>2 DEF DeliveryInv

LEMMA DeliveryStep == DeliveryInv /\ [Next]_vars => DeliveryInv'
<1> SUFFICES ASSUME DeliveryInv, [Next]_vars PROVE DeliveryInv'
  OBVIOUS
<1>0. TypeOK /\ RegistryInv /\ RegistryInv'
  BY RegistryStep DEF DeliveryInv, RegistryInv
<1>1. CASE Select
  BY <1>0, <1>1, DeliveryQuiet DEF Select, socketVars, historyVars, Up
<1>2. CASE SelectFails
  BY <1>0, <1>2, StoppedDelivery DEF SelectFails, Stop, Up
<1>3. CASE AcceptClient
  BY <1>0, <1>3, DeliveryQuiet DEF AcceptClient, historyVars, Up
<1>4. CASE LoginClient
  <2>1. client_sock \in Clients /\ pc = "login" /\ toServer[client_sock] # <<>>
    BY <1>0, <1>4 DEF LoginClient, TypeOK
  <2>2. toServer[client_sock] \in Seq(Packets)
    BY <1>0, <2>1 DEF TypeOK
  <2>3. Head(toServer[client_sock]).filter \in Filters
    <3>1. Head(toServer[client_sock]) \in Packets
      BY <2>1, <2>2, TornHeadType
    <3> QED BY <3>1 DEF Packets
  <2> QED BY <1>0, <1>4, <2>1, <2>3, DeliveryLogin DEF LoginClient
<1>5. CASE LoginCut
  <2>1. CASE \E f \in Filters : AddClient(client_sock, f) /\ FinishLogin
    BY <1>0, <1>5, <2>1, DeliveryLogin DEF LoginCut
  <2>2. CASE Stop("SIGSEGV")
    BY <1>0, <2>2, StoppedDelivery DEF Stop, Up
  <2> QED BY <1>5, <2>1, <2>2 DEF LoginCut
<1>6. CASE RejectLogin
  <2>1. client_sock \in Clients /\ pc = "login" /\ pc' = "scan" /\ AtEOF(client_sock)
    BY <1>0, <1>6 DEF RejectLogin, FinishLogin, TypeOK
  <2>2. conn' = [conn EXCEPT ![client_sock] = "closed"]
    BY <1>6 DEF RejectLogin
  <2>3. \A c \in Clients : conn'[c] = IF c = client_sock THEN "closed" ELSE conn[c]
    BY <1>0, <2>1, <2>2 DEF TypeOK
  <2>4. /\ \A c \in Clients : Listed(c) => (conn'[c] = "open" => conn[c] = "open")
        /\ \A c \in Clients : conn'[c] # "closed" => conn[c] # "closed"
    <3>1. conn[client_sock] # "closed"
      BY <2>1 DEF AtEOF
    <3> QED BY <2>3, <3>1
  <2>5. UNCHANGED <<clients, log, joined, delivered>>
    BY <1>6 DEF RejectLogin, FinishLogin, historyVars
  <2>6. pc # "relay" /\ pc' # "relay" /\ Up
    BY <2>1 DEF Up
  <2> QED BY <1>0, <2>4, <2>5, <2>6, DeliveryQuiet
<1>7. CASE SkipClient
  BY <1>0, <1>7, DeliveryQuiet DEF SkipClient, Scanning, socketVars, historyVars, Up
<1>8. CASE RecvMessage
  <2>1. PICK e : StartRelay(e.id, e.nr, e.intact) /\ pc = "scan" /\ UNCHANGED conn
    <3>1. PICK r \in rocsmq_recv(toServer[Slot]) :
            StartRelay(r.id, Head(toServer[Slot]).nr, r.intact)
      BY <1>8 DEF RecvMessage
    <3> DEFINE e == [id |-> r.id, nr |-> Head(toServer[Slot]).nr, intact |-> r.intact]
    <3>2. StartRelay(e.id, e.nr, e.intact)
      BY <3>1
    <3> QED BY <1>8, <3>2 DEF RecvMessage, Scanning
  <2>2. /\ log' = Append(log, [from |-> Slot, id |-> e.id, nr |-> e.nr, intact |-> e.intact])
        /\ oldclient' = 0 /\ pc' = "relay" /\ UNCHANGED <<clients, joined, delivered>>
    BY <2>1 DEF StartRelay
  <2> QED BY <1>0, <2>1, <2>2, DeliveryStart
<1>9. CASE RecvError
  <2>1. /\ pc = "scan" /\ Slot \in Clients
        /\ conn[Slot] = "reset" /\ conn' = [conn EXCEPT ![Slot] = "broken"]
        /\ StartRelay(EmptyId, 0, FALSE)
    BY <1>0, <1>9, ScanSlotType DEF RecvError, Scanning
  <2>2. /\ log' = Append(log, [from |-> Slot, id |-> EmptyId, nr |-> 0, intact |-> FALSE])
        /\ oldclient' = 0 /\ pc' = "relay" /\ UNCHANGED <<clients, joined, delivered>>
    BY <2>1 DEF StartRelay
  <2>3. \A c \in Clients : conn'[c] = IF c = Slot THEN "broken" ELSE conn[c]
    BY <1>0, <2>1 DEF TypeOK
  <2>4. \A c \in Clients : /\ conn'[c] = "open" => conn[c] = "open"
                          /\ conn'[c] # "closed" => conn[c] # "closed"
    BY <2>1, <2>3
  <2> QED BY <1>0, <2>1, <2>2, <2>4, DeliveryStart
<1>10. CASE RemoveClient
  BY <1>0, <1>10, DeliveryRemove
<1>11. CASE RemoveUnfiltered
  BY <1>0, <1>11, StoppedDelivery DEF RemoveUnfiltered, Stop, Up
<1>12. CASE EndScan
  BY <1>0, <1>12, DeliveryQuiet DEF EndScan, socketVars, historyVars, Up
<1>13. CASE SendToNext
  BY <1>0, <1>13, DeliverySend
<1>14. CASE EndRelay
  BY <1>0, <1>14, DeliveryEndRelay
<1>15. CASE SignalStep
  BY <1>0, <1>15, StoppedDelivery DEF SignalStep, SignalInSelect, Terminate, Stop, Up
<1>16. ASSUME NEW c \in Clients, ClientStep(c) PROVE DeliveryInv'
  <2>1. CASE Connect(c)
    <3>1. /\ conn[c] = "none" /\ conn' = [conn EXCEPT ![c] = "open"] /\ Up
          /\ UNCHANGED <<pc, oldclient, clients, log, joined, delivered>>
      BY <2>1 DEF Connect, serverVars, historyVars
    <3>2. ~Listed(c)
      BY <1>0, <3>1 DEF RegistryInv, Registered, Live
    <3>3. \A a \in Clients : conn'[a] = IF a = c THEN "open" ELSE conn[a]
      BY <1>0, <3>1 DEF TypeOK
    <3>4. /\ \A a \in Clients : Listed(a) => (conn'[a] = "open" => conn[a] = "open")
          /\ \A a \in Clients : conn'[a] # "closed" => conn[a] # "closed"
      BY <3>1, <3>2, <3>3
    <3> QED BY <1>0, <3>1, <3>4, DeliveryQuiet
  <2>2. CASE SendLogin(c)
    BY <1>0, <2>2, DeliveryQuiet DEF SendLogin, Write, serverVars, historyVars, Up
  <2>3. CASE SendMessage(c)
    BY <1>0, <2>3, DeliveryQuiet DEF SendMessage, Write, serverVars, historyVars, Up
  <2>4. CASE ReadMessage(c)
    BY <1>0, <2>4, DeliveryQuiet DEF ReadMessage, serverVars, historyVars, Up
  <2>5. CASE Disconnect(c)
    <3>1. /\ conn[c] = "open" /\ Up
          /\ \E st \in {"fin", "reset"} :
               \A a \in Clients : conn'[a] = IF a = c THEN st ELSE conn[a]
          /\ UNCHANGED <<pc, oldclient, clients, log, joined, delivered>>
      BY <1>0, <2>5 DEF Disconnect, serverVars, historyVars, TypeOK
    <3>2. \A a \in Clients : /\ conn'[a] = "open" => conn[a] = "open"
                            /\ conn'[a] # "closed" => conn[a] # "closed"
      BY <3>1
    <3> QED BY <1>0, <3>1, <3>2, DeliveryQuiet
  <2> QED BY <1>16, <2>1, <2>2, <2>3, <2>4, <2>5 DEF ClientStep
<1>17. CASE UNCHANGED vars
  <2>1. UNCHANGED <<pc, oldclient, clients, log, joined, delivered, conn>>
    BY <1>17 DEF vars, serverVars, socketVars, historyVars
  <2>2. CASE Up
    BY <1>0, <2>1, <2>2, DeliveryQuiet
  <2>3. CASE ~Up
    BY <1>0, <2>1, <2>3, StoppedDelivery DEF Up
  <2> QED BY <2>2, <2>3
<1> QED BY <1>1, <1>2, <1>3, <1>4, <1>5, <1>6, <1>7, <1>8, <1>9, <1>10, <1>11,
           <1>12, <1>13, <1>14, <1>15, <1>16, <1>17 DEF Next, ServerStep

(***************************************************************************)
(* A running server has sent every client in its list that is still there  *)
(* exactly the messages relayed since it was listed that its filter        *)
(* matches, in the order of the log, none twice.                           *)
(***************************************************************************)
THEOREM DeliveryCorrect == Spec => []ExactDelivery
<1>1. DeliveryInv => ExactDelivery
  BY DEF DeliveryInv
<1> QED BY DeliveryInit, DeliveryStep, <1>1, PTL DEF Spec

=============================================================================
