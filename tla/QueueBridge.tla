---------------------------- MODULE QueueBridge -----------------------------
(***************************************************************************)
(* The message queue bridge, rocsmq-queue/src/queuemain.c: it puts every   *)
(* message of the bus into a System V queue as type 2, and publishes what  *)
(* local programs put there as type 1.  Both directions share the room of  *)
(* the one queue.                                                          *)
(*                                                                         *)
(* The server sends what the bridge publishes back to it, like to any      *)
(* client whose filter matches (RocsServer.tla); the bridge's matches all. *)
(***************************************************************************)
EXTENDS Naturals, Sequences, SequencesExt

CONSTANTS
  QueueRoom,     \* messages the System V queue holds
  MaxPuts,       \* bound: messages local programs put into the queue
  MaxPublished   \* bound: messages other components publish

ASSUME QueueAssumption ==
  /\ QueueRoom \in Nat \ {0}
  /\ MaxPuts \in Nat
  /\ MaxPublished \in Nat

TYPE_QUEUE2ROCS == 1
TYPE_ROCS2QUEUE == 2

VARIABLES
  bridgeStep,   \* "connect", "init", "messages", "queue", "delay", "ended"
  fromBus,      \* the messages the listener put in the queue of the bridge
  sysv,         \* the System V queue: [type, message]
  toBus,        \* messages of the bridge on their way to the server
  bus,          \* history: the messages the server distributed
  puts,         \* history: the messages programs put
  forwarded,    \* history: the messages the bridge put into the queue
  lost          \* history: the messages it could not put there

bridgeHistory == <<puts, forwarded, lost>>
bridgeVars == <<bridgeStep, fromBus, sysv, toBus, bus, bridgeHistory>>

BridgeInit ==
  /\ bridgeStep = "connect"
  /\ fromBus = <<>>
  /\ sysv = <<>>
  /\ toBus = <<>>
  /\ bus = <<>>
  /\ puts = <<>>
  /\ forwarded = <<>>
  /\ lost = {}

OfType(t) == {i \in DOMAIN sysv : sysv[i].type = t}

FirstOf(t) == CHOOSE i \in OfType(t) : \A j \in OfType(t) : i <= j

Own(message) == message.from = "bridge"

-----------------------------------------------------------------------------
\* rocsmq_init: from here on the server sends to the bridge.
BridgeConnect ==
  /\ bridgeStep = "connect"
  /\ bridgeStep' = "init"
  /\ UNCHANGED <<fromBus, sysv, toBus, bus, bridgeHistory>>

\* init_queue ends the process when there is no queue.
init_queue ==
  /\ bridgeStep = "init"
  /\ bridgeStep' \in {"messages", "ended"}
  /\ UNCHANGED <<fromBus, sysv, toBus, bus, bridgeHistory>>

BridgeRuns == bridgeStep \in {"init", "messages", "queue", "delay"}

\* The server distributes a message, of another component or of the bridge.
Distribute(message) ==
  /\ bus' = Append(bus, message)
  /\ fromBus' = IF BridgeRuns THEN Append(fromBus, message) ELSE fromBus

OtherPublishes ==
  /\ bridgeStep # "connect"
  /\ Len(SelectSeq(bus, LAMBDA m : ~Own(m))) < MaxPublished
  /\ Distribute([from |-> "other", number |-> Len(bus) + 1])
  /\ UNCHANGED <<bridgeStep, sysv, toBus, bridgeHistory>>

ServerReads ==
  /\ toBus # <<>>
  /\ Distribute(Head(toBus))
  /\ toBus' = Tail(toBus)
  /\ UNCHANGED <<bridgeStep, sysv, bridgeHistory>>

\* Local programs: msgsnd and msgrcv wait for room or for a message.
ProgramPuts ==
  LET message == [from |-> "bridge", number |-> Len(puts) + 1] IN
  /\ bridgeStep \in {"messages", "queue", "delay"}
  /\ Len(puts) < MaxPuts
  /\ Len(sysv) < QueueRoom
  /\ sysv' = Append(sysv, [type |-> TYPE_QUEUE2ROCS, message |-> message])
  /\ puts' = Append(puts, message)
  /\ UNCHANGED <<bridgeStep, fromBus, toBus, bus, forwarded, lost>>

ProgramTakes ==
  /\ OfType(TYPE_ROCS2QUEUE) # {}
  /\ sysv' = RemoveAt(sysv, FirstOf(TYPE_ROCS2QUEUE))
  /\ UNCHANGED <<bridgeStep, fromBus, toBus, bus, bridgeHistory>>

-----------------------------------------------------------------------------
(***************************************************************************)
(* The main loop.                                                          *)
(***************************************************************************)
\* Defect: the message keeps the type the bridge takes itself.
ForwardAsOwn ==
  LET message == Head(fromBus) IN
  /\ bridgeStep = "messages"
  /\ fromBus # <<>>
  /\ fromBus' = Tail(fromBus)
  /\ IF Len(sysv) < QueueRoom
     THEN /\ sysv' = Append(sysv, [type |-> TYPE_QUEUE2ROCS, message |-> message])
          /\ forwarded' = Append(forwarded, message)
          /\ UNCHANGED lost
     ELSE /\ lost' = lost \union {message}
          /\ UNCHANGED <<sysv, forwarded>>
  /\ UNCHANGED <<bridgeStep, toBus, bus, puts>>

\* Defect: a message that finds no room is tried again behind the others.
ForwardLater ==
  LET message == Head(fromBus) IN
  /\ bridgeStep = "messages"
  /\ fromBus # <<>>
  /\ IF Len(sysv) < QueueRoom
     THEN /\ sysv' = Append(sysv, [type |-> TYPE_ROCS2QUEUE, message |-> message])
          /\ forwarded' = Append(forwarded, message)
          /\ fromBus' = Tail(fromBus)
     ELSE /\ fromBus' = Append(Tail(fromBus), message)
          /\ UNCHANGED <<sysv, forwarded>>
  /\ UNCHANGED <<bridgeStep, toBus, bus, puts, lost>>

\* msgsnd with IPC_NOWAIT: without room the message is lost, and the test of
\* the result, 0 < bytes, takes the -1 for success.
Forward ==
  LET message == Head(fromBus) IN
  /\ bridgeStep = "messages"
  /\ fromBus # <<>>
  /\ fromBus' = Tail(fromBus)
  /\ IF Len(sysv) < QueueRoom
     THEN /\ sysv' = Append(sysv, [type |-> TYPE_ROCS2QUEUE, message |-> message])
          /\ forwarded' = Append(forwarded, message)
          /\ UNCHANGED lost
     ELSE /\ lost' = lost \union {message}
          /\ UNCHANGED <<sysv, forwarded>>
  /\ UNCHANGED <<bridgeStep, toBus, bus, puts>>

NoMoreMessages ==
  /\ bridgeStep = "messages"
  /\ fromBus = <<>>
  /\ bridgeStep' = "queue"
  /\ UNCHANGED <<fromBus, sysv, toBus, bus, bridgeHistory>>

\* msgrcv of type 1, and rocsmq_send.
Publish ==
  /\ bridgeStep = "queue"
  /\ OfType(TYPE_QUEUE2ROCS) # {}
  /\ toBus' = Append(toBus, sysv[FirstOf(TYPE_QUEUE2ROCS)].message)
  /\ sysv' = RemoveAt(sysv, FirstOf(TYPE_QUEUE2ROCS))
  /\ UNCHANGED <<bridgeStep, fromBus, bus, bridgeHistory>>

\* Defect: only the first message in the queue is looked at.
QueueEmptyAtHead ==
  /\ bridgeStep = "queue"
  /\ 1 \notin OfType(TYPE_QUEUE2ROCS)
  /\ bridgeStep' = "delay"
  /\ UNCHANGED <<fromBus, sysv, toBus, bus, bridgeHistory>>

QueueEmpty ==
  /\ bridgeStep = "queue"
  /\ OfType(TYPE_QUEUE2ROCS) = {}
  /\ bridgeStep' = "delay"
  /\ UNCHANGED <<fromBus, sysv, toBus, bus, bridgeHistory>>

BridgeTurn ==
  /\ bridgeStep = "delay"
  /\ bridgeStep' = "messages"
  /\ UNCHANGED <<fromBus, sysv, toBus, bus, bridgeHistory>>

\* After a signal the loop ends with a turn, and the queue is removed with
\* what is in it, before the listener is joined.
BridgeStops ==
  /\ bridgeStep = "delay"
  /\ bridgeStep' = "ended"
  /\ sysv' = <<>>
  /\ UNCHANGED <<fromBus, toBus, bus, bridgeHistory>>

BridgeNext ==
  \/ BridgeConnect
  \/ init_queue
  \/ OtherPublishes
  \/ ServerReads
  \/ ProgramPuts
  \/ ProgramTakes
  \/ Forward
  \/ NoMoreMessages
  \/ Publish
  \/ QueueEmpty
  \/ BridgeTurn
  \/ BridgeStops

\* What goes on by itself: the loop of the bridge, and the server.
BridgeLoop == Forward \/ NoMoreMessages \/ Publish \/ QueueEmpty \/ BridgeTurn

BridgeSpec == BridgeInit /\ [][BridgeNext]_bridgeVars

-----------------------------------------------------------------------------
\* A message of the bus or of a program: who published it, and its number.
BridgeMessages == [from : {"bridge", "other"}, number : Nat]

BridgeTypeOK ==
  /\ bridgeStep \in {"connect", "init", "messages", "queue", "delay", "ended"}
  /\ {fromBus, toBus, bus, puts, forwarded} \subseteq Seq(BridgeMessages)
  /\ sysv \in Seq([type : {TYPE_QUEUE2ROCS, TYPE_ROCS2QUEUE},
                   message : BridgeMessages])
  /\ Len(sysv) <= QueueRoom
  /\ Len(puts) <= MaxPuts
  /\ lost \subseteq BridgeMessages

\* Where the bus has what came from the queue.
OwnInBus == {i \in DOMAIN bus : Own(bus[i])}

\* What programs put is published once each, in their order and with none left
\* out, though each message comes back to the bridge: it is taken for one of
\* the bus.
PublishedOnce ==
  /\ \A i \in OwnInBus :
       bus[i].number \in DOMAIN puts /\ puts[bus[i].number] = bus[i]
  /\ \A i, j \in OwnInBus : i < j => bus[i].number < bus[j].number
  /\ \A i \in OwnInBus, n \in DOMAIN puts :
       n < bus[i].number => \E j \in OwnInBus : bus[j].number = n

\* m is in the bus, and n behind it.
Before(m, n) == \E i, j \in DOMAIN bus : i < j /\ bus[i] = m /\ bus[j] = n

\* What the bridge puts into the queue are the messages of the bus in order,
\* without those that met a full queue, as far as it has come: none is there
\* twice, and none is left out.
ForwardedInOrder ==
  LET taken == forwarded \o fromBus
      kept(i) == bus[i] \notin lost
      has(i) == bus[i] \in Range(taken) IN
  /\ \A i, j \in DOMAIN bus : i # j => bus[i] # bus[j]
  /\ \A k, l \in DOMAIN taken : k < l => Before(taken[k], taken[l])
  /\ Range(taken) \intersect lost = {}
  /\ \A i, j \in DOMAIN bus : i < j /\ kept(i) /\ has(j) => has(i)
  /\ bridgeStep # "ended" => \A i \in DOMAIN bus : kept(i) => has(i)

\* Whatever is put is published at last, unless the bridge stops: also when
\* nobody takes the messages of the bus, and the queue is full of them.
PutsArePublished ==
  <>[](bridgeStep # "ended" => Len(SelectSeq(bus, Own)) = Len(puts))
=============================================================================
