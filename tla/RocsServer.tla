----------------------------- MODULE RocsServer -----------------------------
(***************************************************************************)
(* The message server of rocs: rocsmq-server/src/server.c and              *)
(* clientlist.c, with the socket calls of rocsmq/src/rocsmq.c they use.    *)
(*                                                                         *)
(* The server is one process.  Its main loop selects the readable sockets, *)
(* accepts and logs in at most one new client, then scans its client list  *)
(* once; a message read from a client is written to every client whose     *)
(* filter matches its id, one blocking write after the other.  pc says     *)
(* where in that loop the server is, so that the clients may connect,      *)
(* send, read and leave between any two of its system calls.               *)
(*                                                                         *)
(* A client stands for one connection of a component: a component that     *)
(* comes back is another client.  A socket descriptor is named by the      *)
(* client at its other end.                                                *)
(***************************************************************************)
EXTENDS Integers, Sequences, FiniteSets

CONSTANTS
  Clients,     \* the connections that may be made
  Ids,         \* message ids
  EmptyId,     \* the id of a zeroed message buffer, and of a login
  Filters,     \* what a client may log in with
  NoFilter,    \* the empty filter string, which leaves client->filters NULL
  Accepts,     \* the ids each filter matches (rocsmq_message_match)
  Signals,     \* the signals the server may be sent: "TERM" and those it
               \* means to ignore, which stand together as "HUP"
  ShortReads,  \* whether a read may return less than a message
  Room,        \* bound: messages a socket buffer holds before writers block
  Backlog,     \* connections the listening socket queues
  MaxSends     \* bound: messages a client sends after its login

ASSUME IdsAssumption == EmptyId \in Ids
ASSUME ClientsAssumption == "none" \notin Clients
ASSUME FilterAssumption ==
  /\ NoFilter \in Filters
  /\ Accepts \in [Filters -> SUBSET Ids]
  /\ Accepts[NoFilter] = {}
ASSUME BoundAssumption ==
  /\ Signals \subseteq {"TERM", "HUP"}
  /\ ShortReads \in BOOLEAN
  /\ Room \in Nat \ {0}
  /\ Backlog \in Nat \ {0}
  /\ MaxSends \in Nat

VARIABLES
  \* the server
  pc,           \* where the main loop is; "stopped" once the process ended
  reason,       \* why it stopped
  set,          \* the descriptors the loop asks select() about, the
                \* listening socket apart: it is always in the set
  readset,      \* those select() reported
  client_sock,  \* the connection accept() returned, until it is logged in
  clients,      \* the client list, in the order of the array
  i,            \* the slot of the list the scan is at (from 1)
  oldclient,    \* the slot send_all wrote to last, 0 before the first
  \* the sockets
  backlog,      \* connections the listening socket queues
  conn,         \* the state of each connection
  toServer,     \* what each client wrote and the server did not read yet
  unread,       \* how many messages wait in the socket for each client
  sent,         \* packets each client wrote, its login included
  \* history
  log,          \* the messages the server relayed, in order
  joined,       \* how long the log was when the client was listed
  delivered     \* places in the log of what was written to each client

serverVars == <<pc, reason, set, readset, client_sock, clients, i, oldclient>>
socketVars == <<backlog, conn, toServer, unread, sent>>
historyVars == <<log, joined, delivered>>
vars == <<serverVars, socketVars, historyVars>>

(***************************************************************************)
(* A message as it travels to the server.  A login is a message too: its   *)
(* id is empty and its tail carries the filter.  nr counts what a client   *)
(* wrote; a packet that is not whole lacks the part already read.          *)
(***************************************************************************)
Packets == [id : Ids, filter : Filters, nr : 0..MaxSends, whole : BOOLEAN]

NoSock == "none"

Login(f) == [id |-> EmptyId, filter |-> f, nr |-> 0, whole |-> TRUE]

Message(id, n) == [id |-> id, filter |-> NoFilter, nr |-> n, whole |-> TRUE]

(***************************************************************************)
(* The states of a connection, seen from the server's end:                 *)
(*   "open"    both ends are open                                          *)
(*   "fin"     the peer closed it                                          *)
(*   "reset"   the peer closed it with unread input, so it was reset: the  *)
(*             next call on it fails with ECONNRESET                       *)
(*   "broken"  the kernel knows it is dead: a read returns 0, a write      *)
(*             raises SIGPIPE                                              *)
(*   "closed"  the server closed its descriptor                            *)
(***************************************************************************)
ConnStates == {"none", "open", "fin", "reset", "broken", "closed"}

Live(c) == conn[c] \in {"open", "fin", "reset", "broken"}

Gone(c) == conn[c] \in {"fin", "reset", "broken"}

Readable(c) == toServer[c] # <<>> \/ Gone(c)

\* Defect: the end of a connection is taken before what is still unread.
HastyEOF(c) == conn[c] \in {"fin", "broken"}

AtEOF(c) == toServer[c] = <<>> /\ conn[c] \in {"fin", "broken"}

Listed(c) == \E k \in 1..Len(clients) : clients[k].sock = c

Entries == [from : Clients, id : Ids, nr : 0..MaxSends, intact : BOOLEAN]

Init ==
  /\ pc = "select"
  /\ reason = "none"
  /\ set = {}
  /\ readset = {}
  /\ client_sock = NoSock
  /\ clients = <<>>
  /\ i = 1
  /\ oldclient = 0
  /\ backlog = <<>>
  /\ conn = [c \in Clients |-> "none"]
  /\ toServer = [c \in Clients |-> <<>>]
  /\ unread = [c \in Clients |-> 0]
  /\ sent = [c \in Clients |-> 0]
  /\ log = <<>>
  /\ joined = [c \in Clients |-> 0]
  /\ delivered = [c \in Clients |-> <<>>]

-----------------------------------------------------------------------------
(***************************************************************************)
(* The process ends.  Nothing of its state matters afterwards.             *)
(***************************************************************************)
Stop(why) ==
  /\ pc' = "stopped"
  /\ reason' = why
  /\ UNCHANGED <<set, readset, client_sock, clients, i, oldclient>>

(***************************************************************************)
(* read() of at most one message from a connection with data: the id the   *)
(* server finds at the start of its buffer, whether it got one whole       *)
(* message, and what stays in the stream.  rocsmq_recv asks once and never *)
(* for the rest of a message that came in two pieces; that rest is read as *)
(* a message of its own, up to the full size, so it may swallow the start  *)
(* of the next one.                                                        *)
(***************************************************************************)
TornHead(q) == [q EXCEPT ![1].whole = FALSE]

WholeReads(q) ==
  {[id |-> Head(q).id, intact |-> TRUE, left |-> Tail(q)]}

CutReads(q) ==
  IF ShortReads
  THEN {[id |-> Head(q).id, intact |-> FALSE, left |-> TornHead(q)]}
  ELSE {}

RestReads(q) ==
  [id : Ids, intact : {FALSE},
   left : {Tail(q)} \cup (IF Len(q) > 1 THEN {TornHead(Tail(q))} ELSE {})]

rocsmq_recv(q) ==
  IF Head(q).whole THEN WholeReads(q) \cup CutReads(q) ELSE RestReads(q)

(***************************************************************************)
(* select(): every readable descriptor of the set, at one instant.  The    *)
(* listening socket is readable when a connection waits.                   *)
(***************************************************************************)
Select ==
  /\ pc = "select"
  /\ \A c \in set : conn[c] # "closed"
  /\ LET ready == {c \in set : Readable(c)}
     IN  /\ ready # {} \/ backlog # <<>>
         /\ readset' = ready
  /\ pc' = IF backlog # <<>> THEN "accept" ELSE "scan"
  /\ i' = 1
  /\ UNCHANGED <<reason, set, client_sock, clients, oldclient,
                 socketVars, historyVars>>

(***************************************************************************)
(* A descriptor of the set that the server closed makes select() fail with *)
(* EBADF: the loop breaks and quit() ends the process.                     *)
(***************************************************************************)
SelectFails ==
  /\ pc = "select"
  /\ \E c \in set : conn[c] = "closed"
  /\ Stop("EBADF")
  /\ UNCHANGED <<socketVars, historyVars>>

(***************************************************************************)
(* A handled signal interrupts select(), which is never restarted: -1 is   *)
(* taken for an error.  Elsewhere the handler only logs.                   *)
(***************************************************************************)
SignalInSelect ==
  /\ pc = "select"
  /\ "HUP" \in Signals
  /\ Stop("EINTR")
  /\ UNCHANGED <<socketVars, historyVars>>

Terminate ==
  /\ pc # "stopped"
  /\ "TERM" \in Signals
  /\ Stop("SIGTERM")
  /\ UNCHANGED <<socketVars, historyVars>>

\* Defect: the new descriptor is never watched (no FD_SET).
AcceptUnwatched ==
  /\ pc = "accept"
  /\ backlog # <<>>
  /\ client_sock' = Head(backlog)
  /\ backlog' = Tail(backlog)
  /\ pc' = "login"
  /\ UNCHANGED <<reason, set, readset, clients, i, oldclient,
                 conn, toServer, unread, sent, historyVars>>

AcceptClient ==
  /\ pc = "accept"
  /\ backlog # <<>>
  /\ client_sock' = Head(backlog)
  /\ backlog' = Tail(backlog)
  /\ set' = set \cup {Head(backlog)}
  /\ pc' = "login"
  /\ UNCHANGED <<reason, readset, clients, i, oldclient,
                 conn, toServer, unread, sent, historyVars>>

(***************************************************************************)
(* read_clientdata blocks until the login, or the end of the connection,   *)
(* is there; add_client appends to the list.                               *)
(***************************************************************************)
AddClient(c, f) ==
  /\ clients' = Append(clients, [sock |-> c, filter |-> f])
  /\ joined' = [joined EXCEPT ![c] = Len(log)]

FinishLogin ==
  /\ client_sock' = NoSock
  /\ pc' = "scan"
  /\ UNCHANGED <<reason, set, readset, i, oldclient>>

LoginClient ==
  /\ pc = "login"
  /\ toServer[client_sock] # <<>>
  /\ AddClient(client_sock, Head(toServer[client_sock]).filter)
  /\ toServer' = [toServer EXCEPT ![client_sock] = Tail(@)]
  /\ FinishLogin
  /\ UNCHANGED <<backlog, conn, unread, sent, log, delivered>>

(***************************************************************************)
(* A login that arrives in two pieces: clientinfo is left uninitialised    *)
(* but the result is not 0, so add_client copies what the stack holds,     *)
(* some filter or a name without an end that runs over the heap.           *)
(***************************************************************************)
LoginCut ==
  /\ pc = "login"
  /\ ShortReads
  /\ toServer[client_sock] # <<>>
  /\ toServer' = [toServer EXCEPT ![client_sock] = TornHead(@)]
  /\ \/ /\ \E f \in Filters : AddClient(client_sock, f)
        /\ FinishLogin
     \/ /\ Stop("SIGSEGV")
        /\ UNCHANGED joined
  /\ UNCHANGED <<backlog, conn, unread, sent, log, delivered>>

(***************************************************************************)
(* The peer closed before its login: the descriptor is closed and stays in *)
(* the set.                                                                *)
(***************************************************************************)
\* Defect: the refused connection is not closed.
RejectUnclosed ==
  /\ pc = "login"
  /\ AtEOF(client_sock)
  /\ FinishLogin
  /\ UNCHANGED <<clients, socketVars, historyVars>>

RejectLogin ==
  /\ pc = "login"
  /\ AtEOF(client_sock)
  /\ conn' = [conn EXCEPT ![client_sock] = "closed"]
  /\ FinishLogin
  /\ UNCHANGED <<clients, backlog, toServer, unread, sent, historyVars>>

-----------------------------------------------------------------------------
(***************************************************************************)
(* The scan: one pass over the list, from slot 1 while the slot exists.    *)
(***************************************************************************)
Scanning == pc = "scan" /\ i <= Len(clients)

Slot == clients[i].sock

SkipClient ==
  /\ Scanning
  /\ Slot \notin readset
  /\ i' = i + 1
  /\ UNCHANGED <<pc, reason, set, readset, client_sock, clients, oldclient,
                 socketVars, historyVars>>

(***************************************************************************)
(* What was read is handed to send_all.                                    *)
(***************************************************************************)
StartRelay(id, n, intact) ==
  /\ log' = Append(log, [from |-> Slot, id |-> id, nr |-> n, intact |-> intact])
  /\ oldclient' = 0
  /\ pc' = "relay"
  /\ UNCHANGED <<reason, set, readset, client_sock, clients, i,
                 backlog, unread, sent, joined, delivered>>

RecvMessage ==
  /\ Scanning
  /\ Slot \in readset
  /\ toServer[Slot] # <<>>
  /\ \E r \in rocsmq_recv(toServer[Slot]) :
       /\ toServer' = [toServer EXCEPT ![Slot] = r.left]
       /\ StartRelay(r.id, Head(toServer[Slot]).nr, r.intact)
  /\ UNCHANGED conn

(***************************************************************************)
(* read() fails with -1, which the loop takes for a message: the zeroed    *)
(* buffer, with an empty id.                                               *)
(***************************************************************************)
RecvError ==
  /\ Scanning
  /\ Slot \in readset
  /\ toServer[Slot] = <<>>
  /\ conn[Slot] = "reset"
  /\ conn' = [conn EXCEPT ![Slot] = "broken"]
  /\ StartRelay(EmptyId, 0, FALSE)
  /\ UNCHANGED toServer

(***************************************************************************)
(* End of the connection: remove_client closes the descriptor and moves    *)
(* the rest of the array down.  i goes on to the next slot all the same,   *)
(* so the client that moved into this one waits for the next pass.         *)
(***************************************************************************)
\* Defect: the slot after the one asked for is removed.
RemoveWrongSlot(s, k) == SubSeq(s, 1, k) \o SubSeq(s, k + 2, Len(s))

\* Defect: the last client fills the hole.
RemoveBySwap(s, k) == SubSeq([s EXCEPT ![k] = s[Len(s)]], 1, Len(s) - 1)

RemoveSlot(s, k) == SubSeq(s, 1, k - 1) \o SubSeq(s, k + 1, Len(s))

\* Defect: the index steps back two slots instead of one.
RemoveAndRewind ==
  /\ Scanning
  /\ Slot \in readset
  /\ AtEOF(Slot)
  /\ clients[i].filter # NoFilter
  /\ set' = set \ {Slot}
  /\ conn' = [conn EXCEPT ![Slot] = "closed"]
  /\ clients' = RemoveSlot(clients, i)
  /\ i' = i - 1
  /\ UNCHANGED <<pc, reason, readset, client_sock, oldclient,
                 backlog, toServer, unread, sent, historyVars>>

\* Defect: the descriptor of a client that left stays in the set.
RemoveWatched ==
  /\ Scanning
  /\ Slot \in readset
  /\ AtEOF(Slot)
  /\ clients[i].filter # NoFilter
  /\ conn' = [conn EXCEPT ![Slot] = "closed"]
  /\ clients' = RemoveSlot(clients, i)
  /\ i' = i + 1
  /\ UNCHANGED <<pc, reason, set, readset, client_sock, oldclient,
                 backlog, toServer, unread, sent, historyVars>>

RemoveClient ==
  /\ Scanning
  /\ Slot \in readset
  /\ AtEOF(Slot)
  /\ clients[i].filter # NoFilter
  /\ set' = set \ {Slot}
  /\ conn' = [conn EXCEPT ![Slot] = "closed"]
  /\ clients' = RemoveSlot(clients, i)
  /\ i' = i + 1
  /\ UNCHANGED <<pc, reason, readset, client_sock, oldclient,
                 backlog, toServer, unread, sent, historyVars>>

(***************************************************************************)
(* remove_client_idx destroys the first filter of the list even when there *)
(* is none: ll_destroy(NULL).                                              *)
(***************************************************************************)
RemoveUnfiltered ==
  /\ Scanning
  /\ Slot \in readset
  /\ AtEOF(Slot)
  /\ clients[i].filter = NoFilter
  /\ Stop("SIGSEGV")
  /\ UNCHANGED <<socketVars, historyVars>>

EndScan ==
  /\ pc = "scan"
  /\ i > Len(clients)
  /\ pc' = "select"
  /\ UNCHANGED <<reason, set, readset, client_sock, clients, i, oldclient,
                 socketVars, historyVars>>

(***************************************************************************)
(* send_all: next_client_by_message returns the first client after         *)
(* oldclient whose filters match; rocsmq_send writes to it.                *)
(***************************************************************************)
message == log[Len(log)]

\* Defect: a client without a filter is sent everything.
MatchWithoutFilter(client, id) ==
  client.filter = NoFilter \/ id \in Accepts[client.filter]

filter_match(client, id) == id \in Accepts[client.filter]

IsNextClient(k) ==
  /\ k > oldclient
  /\ filter_match(clients[k], message.id)
  /\ \A j \in oldclient + 1..k - 1 : ~filter_match(clients[j], message.id)

(***************************************************************************)
(* write() to the client in slot k.  It blocks while the peer, open, lets  *)
(* its buffer stay full.  What is written to a peer that closed is lost;   *)
(* the peer answers with a reset, which may come before or after the next  *)
(* write.  No result of a write is 0, so send_all removes nobody.          *)
(***************************************************************************)
SendToOpen(k, c) ==
  /\ conn[c] = "open"
  /\ unread[c] < Room
  /\ unread' = [unread EXCEPT ![c] = @ + 1]
  /\ delivered' = [delivered EXCEPT ![c] = Append(@, Len(log))]
  /\ oldclient' = k
  /\ UNCHANGED <<conn, pc, reason>>

SendToGone(k, c) ==
  /\ \/ conn[c] = "fin" /\ UNCHANGED conn
     \/ conn[c] \in {"fin", "reset"} /\ conn' = [conn EXCEPT ![c] = "broken"]
  /\ oldclient' = k
  /\ UNCHANGED <<unread, delivered, pc, reason>>

SendToBroken(c) ==
  /\ conn[c] = "broken"
  /\ pc' = "stopped"
  /\ reason' = "SIGPIPE"
  /\ UNCHANGED <<conn, unread, delivered, oldclient>>

SendToNext ==
  /\ pc = "relay"
  /\ \E k \in 1..Len(clients) :
       /\ IsNextClient(k)
       /\ \/ SendToOpen(k, clients[k].sock)
          \/ SendToGone(k, clients[k].sock)
          \/ SendToBroken(clients[k].sock)
  /\ UNCHANGED <<set, readset, client_sock, clients, i,
                 backlog, toServer, sent, log, joined>>

\* Defect: the message goes to one client only.
EndRelayEarly ==
  /\ pc = "relay"
  /\ \/ oldclient > 0
     \/ \A k \in 1..Len(clients) : ~filter_match(clients[k], message.id)
  /\ pc' = "scan"
  /\ i' = i + 1
  /\ UNCHANGED <<reason, set, readset, client_sock, clients, oldclient,
                 socketVars, historyVars>>

EndRelay ==
  /\ pc = "relay"
  /\ \A k \in oldclient + 1..Len(clients) : ~filter_match(clients[k], message.id)
  /\ pc' = "scan"
  /\ i' = i + 1
  /\ UNCHANGED <<reason, set, readset, client_sock, clients, oldclient,
                 socketVars, historyVars>>

-----------------------------------------------------------------------------
(***************************************************************************)
(* The clients: rocsmq_init connects and sends the login, rocsmq_send      *)
(* writes a message and blocks while the socket is full, the listener      *)
(* thread reads, rocsmq_exit or the end of the process closes.             *)
(***************************************************************************)
Up == pc # "stopped"

Connect(c) ==
  /\ Up
  /\ conn[c] = "none"
  /\ Len(backlog) < Backlog
  /\ conn' = [conn EXCEPT ![c] = "open"]
  /\ backlog' = Append(backlog, c)
  /\ UNCHANGED <<serverVars, toServer, unread, sent, historyVars>>

Write(c, p) ==
  /\ conn[c] = "open"
  /\ Len(toServer[c]) < Room
  /\ toServer' = [toServer EXCEPT ![c] = Append(@, p)]
  /\ sent' = [sent EXCEPT ![c] = @ + 1]
  /\ UNCHANGED <<serverVars, backlog, conn, unread, historyVars>>

SendLogin(c) ==
  /\ Up
  /\ sent[c] = 0
  /\ \E f \in Filters : Write(c, Login(f))

SendMessage(c) ==
  /\ Up
  /\ sent[c] \in 1..MaxSends
  /\ \E id \in Ids : Write(c, Message(id, sent[c]))

ReadMessage(c) ==
  /\ Up
  /\ conn[c] = "open"
  /\ unread[c] > 0
  /\ unread' = [unread EXCEPT ![c] = @ - 1]
  /\ UNCHANGED <<serverVars, backlog, conn, toServer, sent, historyVars>>

Disconnect(c) ==
  /\ Up
  /\ conn[c] = "open"
  /\ conn' = [conn EXCEPT ![c] = IF unread[c] > 0 THEN "reset" ELSE "fin"]
  /\ unread' = [unread EXCEPT ![c] = 0]
  /\ UNCHANGED <<serverVars, backlog, toServer, sent, historyVars>>

-----------------------------------------------------------------------------
ServerStep ==
  \/ Select \/ SelectFails
  \/ AcceptClient \/ LoginClient \/ LoginCut \/ RejectLogin
  \/ SkipClient \/ RecvMessage \/ RecvError \/ RemoveClient \/ RemoveUnfiltered
  \/ EndScan
  \/ SendToNext \/ EndRelay

SignalStep == SignalInSelect \/ Terminate

ClientStep(c) ==
  \/ Connect(c) \/ SendLogin(c) \/ SendMessage(c) \/ ReadMessage(c)
  \/ Disconnect(c)

Next == ServerStep \/ SignalStep \/ \E c \in Clients : ClientStep(c)

Spec == Init /\ [][Next]_vars

(***************************************************************************)
(* The operating system runs the server while a system call of it can      *)
(* return; a component that connected sends its login at once              *)
(* (rocsmq_init), and its listener thread reads again and again.  Nothing  *)
(* obliges a component to connect, to send or to leave.                    *)
(***************************************************************************)
Fairness ==
  /\ WF_vars(ServerStep)
  /\ \A c \in Clients : WF_vars(SendLogin(c)) /\ WF_vars(ReadMessage(c))

FairSpec == Spec /\ Fairness

-----------------------------------------------------------------------------
TypeOK ==
  /\ pc \in {"select", "accept", "login", "scan", "relay", "stopped"}
  /\ reason \in {"none", "EBADF", "EINTR", "SIGTERM", "SIGSEGV", "SIGPIPE"}
  /\ set \in SUBSET Clients
  /\ readset \in SUBSET Clients
  /\ client_sock \in Clients \cup {NoSock}
  /\ pc = "login" => client_sock # NoSock
  /\ clients \in Seq([sock : Clients, filter : Filters])
  /\ i \in Nat /\ i >= 1
  /\ oldclient \in Nat
  /\ backlog \in Seq(Clients)
  /\ conn \in [Clients -> ConnStates]
  /\ toServer \in [Clients -> Seq(Packets)]
  /\ unread \in [Clients -> 0..Room]
  /\ sent \in [Clients -> 0..MaxSends + 1]
  /\ log \in Seq(Entries)
  /\ joined \in [Clients -> Nat]
  /\ delivered \in [Clients -> Seq(Nat)]

(***************************************************************************)
(* "Any message will be relayed to all clients (actually, even the         *)
(* sender)" (README.md:15), through their filters.  A client that is there *)
(* was written every message relayed since it was listed that its filter   *)
(* matches, once, in the order of the log, and nothing else: neither a     *)
(* skipped slot nor a departure in the middle of a pass may cost another   *)
(* client a message or bring it one twice.                                 *)
(***************************************************************************)
Increasing(s) == \A j, k \in 1..Len(s) : j < k => s[j] < s[k]

Holds(s, n) == \E j \in 1..Len(s) : s[j] = n

RelayedUpTo(k) ==
  IF pc = "relay" /\ k > oldclient THEN Len(log) - 1 ELSE Len(log)

DeliveredTo(k) ==
  LET c == clients[k].sock
      d == delivered[c]
      Wanted(n) == log[n].id \in Accepts[clients[k].filter]
  IN  /\ Increasing(d)
      /\ \A j \in 1..Len(d) : d[j] \in joined[c] + 1..RelayedUpTo(k) /\ Wanted(d[j])
      /\ conn[c] = "open" =>
           \A n \in joined[c] + 1..RelayedUpTo(k) : Wanted(n) => Holds(d, n)

ExactDelivery == Up => \A k \in 1..Len(clients) : DeliveredTo(k)

(***************************************************************************)
(* While the server runs, a connection it accepted is in the list exactly  *)
(* once, open at the server's end and watched by select(): no client is    *)
(* forgotten by a removal that moves the array, none is served twice.      *)
(***************************************************************************)
NoDoubleSlot ==
  \A j, k \in 1..Len(clients) : clients[j].sock = clients[k].sock => j = k

InBacklog(c) == \E k \in 1..Len(backlog) : backlog[k] = c

LoggingIn(c) == pc = "login" /\ client_sock = c

Registered ==
  Up => /\ NoDoubleSlot
        /\ \A c \in Clients :
             /\ Listed(c) => Live(c) /\ c \in set
             /\ Live(c) => InBacklog(c) \/ LoggingIn(c) \/ Listed(c)
             /\ c \in set /\ Live(c) => LoggingIn(c) \/ Listed(c)

(***************************************************************************)
(* What Registered and ExactDelivery rest on, step by step: the backlog    *)
(* holds distinct connections the loop does not know yet, the connection   *)
(* being logged in is not in the list, one that is not in the list yet was *)
(* written nothing, and a client joined at or before the place in the log  *)
(* up to which it is served.                                               *)
(***************************************************************************)
BacklogUnknown ==
  /\ \A j, k \in 1..Len(backlog) : backlog[j] = backlog[k] => j = k
  /\ \A c \in Clients : InBacklog(c) => Live(c) /\ c \notin set /\ ~Listed(c)
  /\ \A c \in Clients : conn[c] = "none" => c \notin set

LoginUnlisted ==
  pc = "login" => client_sock \in set /\ Live(client_sock) /\ ~Listed(client_sock)

UnlistedUnserved ==
  \A c \in Clients : ~Listed(c) /\ conn[c] # "closed" => delivered[c] = <<>>

JoinedBefore ==
  /\ pc = "relay" => log # <<>>
  /\ \A k \in 1..Len(clients) : joined[clients[k].sock] <= RelayedUpTo(k)

RegistryInv == TypeOK /\ Registered /\ (Up => BacklogUnknown /\ LoginUnlisted)

DeliveryInv ==
  RegistryInv /\ ExactDelivery /\ (Up => UnlistedUnserved /\ JoinedBefore)

(***************************************************************************)
(* The messages of one sender enter the log in the order it wrote them,    *)
(* with none missing and none twice, as long as reads return whole         *)
(* messages.                                                               *)
(***************************************************************************)
FromOneSender(j, k) == log[j].from = log[k].from

SenderOrder ==
  /\ \A j, k \in 1..Len(log) :
       j < k /\ FromOneSender(j, k) /\ log[j].intact /\ log[k].intact
         => log[j].nr < log[k].nr
  /\ ~ShortReads =>
       \A c \in Clients : Listed(c) \/ conn[c] = "closed" =>
         \A n \in 1..sent[c] - 1 :
           \/ \E k \in 1..Len(log) : log[k].from = c /\ log[k].nr = n /\ log[k].intact
           \/ Listed(c) /\ \E k \in 1..Len(toServer[c]) : toServer[c][k].nr = n

(***************************************************************************)
(* A running server drops a client only when that client is gone and all   *)
(* it wrote has been relayed, and the others keep their order.             *)
(***************************************************************************)
Drops(c) == Listed(c) /\ ~Listed(c)' /\ Up'

Before(c, d) ==
  \E j, k \in 1..Len(clients) :
    j < k /\ clients[j].sock = c /\ clients[k].sock = d

OrderKept ==
  \A c, d \in Clients :
    Before(c, d) /\ Listed(c)' /\ Listed(d)' => Before(c, d)'

RemovesOnlyDeparted ==
  [][/\ \A c \in Clients : Drops(c) => Gone(c) /\ toServer[c] = <<>>
     /\ OrderKept]_vars

(***************************************************************************)
(* Every message a listed client wrote is relayed in the end, although a   *)
(* removal makes the pass skip a slot, and although a write may block:     *)
(* unless the server stops.                                                *)
(***************************************************************************)
Pending(c, n) == Listed(c) /\ \E k \in 1..Len(toServer[c]) : toServer[c][k].nr = n

InLog(c, n) == \E k \in 1..Len(log) : log[k].from = c /\ log[k].nr = n

EveryMessageRelayed ==
  \A c \in Clients : \A n \in 1..MaxSends :
    Pending(c, n) ~> InLog(c, n) \/ ~Up

(***************************************************************************)
(* A connection that is waiting is listed or refused in the end, and a     *)
(* client that left leaves the list, unless the server stops.              *)
(***************************************************************************)
EveryoneServed ==
  \A c \in Clients :
    /\ InBacklog(c) ~> Listed(c) \/ conn[c] = "closed" \/ ~Up
    /\ Gone(c) ~> conn[c] = "closed" \/ ~Up

(***************************************************************************)
(* The server implements the message bus: the list is who subscribed, and  *)
(* the writes of send_all, one client at a time and interleaved with       *)
(* everything the clients do, are its deliveries.                          *)
(***************************************************************************)
subscription ==
  [c \in Clients |->
     {clients[k].filter : k \in {j \in 1..Len(clients) : clients[j].sock = c}}]

Bus == INSTANCE MessageBus

ImplementsBus == Bus!Spec

(***************************************************************************)
(* What ends the server but a signal is a client that left: one before its *)
(* login, which then stays in the set; one whose message buffer the server *)
(* still fills; one that had no filter.  Whatever else the clients send,   *)
(* and in whichever order, does not, as long as reads return whole         *)
(* messages.                                                               *)
(***************************************************************************)
EndsByDeparture ==
  /\ reason = "EBADF" => \E c \in set : conn[c] = "closed" /\ sent[c] = 0
  /\ reason = "SIGPIPE" => \E k \in 1..Len(clients) : conn[clients[k].sock] = "broken"
  /\ reason = "SIGSEGV" =>
       \/ ShortReads
       \/ \E k \in 1..Len(clients) :
            AtEOF(clients[k].sock) /\ clients[k].filter = NoFilter

(***************************************************************************)
(* "infinite main loop" (server.c:172): nothing a client does ends the     *)
(* server, only SIGTERM does.                                              *)
(***************************************************************************)
InfiniteMainLoop == ~Up => reason = "SIGTERM"
=============================================================================
