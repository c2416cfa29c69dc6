----------------------------- MODULE ClientQueue ----------------------------
(***************************************************************************)
(* The receiving side every component shares: rocsmq/src/rocsmqthread.c    *)
(* with the main loop that all the clients' main functions have.           *)
(*                                                                         *)
(* A listener thread reads messages from the socket and appends them to a  *)
(* queue; the main thread takes them out and handles them.  One mutex      *)
(* guards the queue and the flag "running".  SIGTERM makes the signal      *)
(* handler, which runs on top of whichever thread the kernel picks, clear  *)
(* the flag, and it takes the same mutex to do so.                         *)
(*                                                                         *)
(* A step is what a thread does between two points where another one can   *)
(* be seen to run: taking the mutex is one step, the work done under it    *)
(* and giving it back another.                                             *)
(***************************************************************************)
EXTENDS Naturals, Sequences

CONSTANTS
  MaxMessages,  \* bound: messages the server sends to this client
  MaxSignals    \* bound: SIGTERMs the process gets

ASSUME QueueAssumption == MaxMessages \in Nat /\ MaxSignals \in Nat

VARIABLES
  stream,     \* messages in the socket, numbered as they were sent
  ending,     \* "open", or how the server's end of the connection ended
  sentCount,  \* messages sent to this client
  main,       \* where the main thread is
  listener,   \* where the listener thread is
  inHand,     \* the message the listener read and did not queue yet
  queue,      \* pdata.queue
  running,    \* pdata.running
  mutex,      \* pdata.mutex: who holds it
  signals,    \* SIGTERMs delivered
  handler,    \* what the handler does on top of each thread
  handled     \* history: what the main loop handled

socketVars == <<stream, ending, sentCount>>
signalVars == <<signals, handler>>
vars == <<socketVars, main, listener, inHand, queue, running, mutex,
          signalVars, handled>>

Threads == {"main", "listener"}

(***************************************************************************)
(* A read that fails with -1 leaves a zeroed message, which is queued.     *)
(***************************************************************************)
Zeroed == 0

Init ==
  /\ stream = <<>>
  /\ ending = "open"
  /\ sentCount = 0
  /\ main = "start"
  /\ listener = "unborn"
  /\ inHand = <<>>
  /\ queue = <<>>
  /\ running = TRUE
  /\ mutex = "free"
  /\ signals = 0
  /\ handler = [t \in Threads |-> "none"]
  /\ handled = <<>>

-----------------------------------------------------------------------------
(***************************************************************************)
(* A thread under a signal handler does not move.                          *)
(***************************************************************************)
Runs(t) == handler[t] = "none"

Lock(t) == Runs(t) /\ mutex = "free" /\ mutex' = t

Unlock(t) == Runs(t) /\ mutex = t /\ mutex' = "free"

-----------------------------------------------------------------------------
(***************************************************************************)
(* The listener: rocsmq_thread and rocsmq_add.                             *)
(***************************************************************************)
ListenerChecks ==
  /\ listener = "check"
  /\ Runs("listener")
  /\ listener' = IF running THEN "recv" ELSE "done"
  /\ UNCHANGED <<socketVars, main, inHand, queue, running, mutex, signalVars,
                 handled>>

ListenerReads ==
  /\ listener = "recv"
  /\ Runs("listener")
  /\ stream # <<>>
  /\ inHand' = <<Head(stream)>>
  /\ stream' = Tail(stream)
  /\ listener' = "lock"
  /\ UNCHANGED <<ending, sentCount, main, queue, running, mutex, signalVars,
                 handled>>

\* Defect: the failed read is asked again and fails again.
ReadFailsAgain ==
  /\ listener = "recv"
  /\ Runs("listener")
  /\ stream = <<>>
  /\ ending = "reset"
  /\ inHand' = <<Zeroed>>
  /\ listener' = "lock"
  /\ UNCHANGED <<socketVars, main, queue, running, mutex, signalVars, handled>>

ListenerReadFails ==
  /\ listener = "recv"
  /\ Runs("listener")
  /\ stream = <<>>
  /\ ending = "reset"
  /\ inHand' = <<Zeroed>>
  /\ ending' = "fin"
  /\ listener' = "lock"
  /\ UNCHANGED <<stream, sentCount, main, queue, running, mutex, signalVars,
                 handled>>

(***************************************************************************)
(* read() returns 0: nothing is queued, nobody is told, the loop goes on.  *)
(***************************************************************************)
\* Defect: the end of the connection is taken for a message.
ListenerQueuesEOF ==
  /\ listener = "recv"
  /\ Runs("listener")
  /\ stream = <<>>
  /\ ending = "fin"
  /\ listener' = "lock"
  /\ UNCHANGED <<socketVars, main, inHand, queue, running, mutex, signalVars,
                 handled>>

\* Defect: the listener reads again without asking whether to go on.
ListenerIgnoresEOF ==
  /\ listener = "recv"
  /\ Runs("listener")
  /\ stream = <<>>
  /\ ending = "fin"
  /\ UNCHANGED vars

ListenerReadsEOF ==
  /\ listener = "recv"
  /\ Runs("listener")
  /\ stream = <<>>
  /\ ending = "fin"
  /\ listener' = "check"
  /\ UNCHANGED <<socketVars, main, inHand, queue, running, mutex, signalVars,
                 handled>>

ListenerLocks ==
  /\ listener = "lock"
  /\ Lock("listener")
  /\ listener' = "add"
  /\ UNCHANGED <<socketVars, main, inHand, queue, running, signalVars, handled>>

\* Defect: the newest message is put in front.
AddInFront ==
  /\ listener = "add"
  /\ queue' = inHand \o queue
  /\ inHand' = <<>>
  /\ Unlock("listener")
  /\ listener' = "check"
  /\ UNCHANGED <<socketVars, main, running, signalVars, handled>>

rocsmq_add ==
  /\ listener = "add"
  /\ queue' = queue \o inHand
  /\ inHand' = <<>>
  /\ Unlock("listener")
  /\ listener' = "check"
  /\ UNCHANGED <<socketVars, main, running, signalVars, handled>>

ListenerStep ==
  \/ ListenerChecks \/ ListenerReads \/ ListenerReadFails \/ ListenerReadsEOF
  \/ ListenerLocks \/ rocsmq_add

-----------------------------------------------------------------------------
(***************************************************************************)
(* The main thread: rocsmq_start_thread, then the loop "while running:     *)
(* while there are messages: take one and handle it; sleep", then          *)
(* rocsmq_destroy_thread and the end of the process.  Every function of    *)
(* rocsmqthread.c it calls takes the mutex, works and gives it back.       *)
(***************************************************************************)
Inside ==
  [activate |-> "activating",       \* rocsmq_thread_set_running(1)
   loop     |-> "checking",         \* rocsmq_thread_is_running
   has      |-> "looking",          \* rocsmq_has_messages
   get      |-> "popping",          \* rocsmq_get_message
   stop     |-> "stopping"]         \* rocsmq_thread_set_running(0)

rocsmq_start_thread ==
  /\ main = "start"
  /\ Runs("main")
  /\ listener' = "check"
  /\ main' = "activate"
  /\ UNCHANGED <<socketVars, inHand, queue, running, mutex, signalVars, handled>>

MainLocks ==
  /\ main \in DOMAIN Inside
  /\ Lock("main")
  /\ main' = Inside[main]
  /\ UNCHANGED <<socketVars, listener, inHand, queue, running, signalVars,
                 handled>>

SetRunning ==
  /\ main \in {"activating", "stopping"}
  /\ running' = (main = "activating")
  /\ main' = IF main = "activating" THEN "loop" ELSE "join"
  /\ Unlock("main")
  /\ UNCHANGED <<socketVars, listener, inHand, queue, signalVars, handled>>

IsRunning ==
  /\ main = "checking"
  /\ main' = IF running THEN "has" ELSE "stop"
  /\ Unlock("main")
  /\ UNCHANGED <<socketVars, listener, inHand, queue, running, signalVars,
                 handled>>

\* Defect: the last message does not count.
HasMoreMessages ==
  /\ main = "looking"
  /\ main' = IF Len(queue) > 1 THEN "get" ELSE "loop"
  /\ Unlock("main")
  /\ UNCHANGED <<socketVars, listener, inHand, queue, running, signalVars,
                 handled>>

HasMessages ==
  /\ main = "looking"
  /\ main' = IF queue # <<>> THEN "get" ELSE "loop"
  /\ Unlock("main")
  /\ UNCHANGED <<socketVars, listener, inHand, queue, running, signalVars,
                 handled>>

\* Defect: the loop pops again without looking.
GetAgain ==
  /\ main = "popping"
  /\ queue # <<>>
  /\ queue' = Tail(queue)
  /\ handled' = Append(handled, Head(queue))
  /\ main' = "get"
  /\ Unlock("main")
  /\ UNCHANGED <<socketVars, listener, inHand, running, signalVars>>

(***************************************************************************)
(* rocsmq_get_message pops without looking: on an empty queue it would     *)
(* copy from a null item (PopsNonEmpty says the queue never is).           *)
(***************************************************************************)
GetMessage ==
  /\ main = "popping"
  /\ queue # <<>>
  /\ queue' = Tail(queue)
  /\ handled' = Append(handled, Head(queue))
  /\ main' = "has"
  /\ Unlock("main")
  /\ UNCHANGED <<socketVars, listener, inHand, running, signalVars>>

\* Defect: the mutex is destroyed without waiting for the listener.
DestroyWithoutJoin ==
  /\ main = "join"
  /\ Runs("main")
  /\ mutex = "free"
  /\ mutex' = "destroyed"
  /\ main' = "leaving"
  /\ UNCHANGED <<socketVars, listener, inHand, queue, running, signalVars,
                 handled>>

rocsmq_destroy_thread ==
  /\ main = "join"
  /\ Runs("main")
  /\ listener = "done"
  /\ mutex = "free"
  /\ mutex' = "destroyed"
  /\ main' = "leaving"
  /\ UNCHANGED <<socketVars, listener, inHand, queue, running, signalVars,
                 handled>>

Exit ==
  /\ main = "leaving"
  /\ Runs("main")
  /\ main' = "exited"
  /\ UNCHANGED <<socketVars, listener, inHand, queue, running, mutex,
                 signalVars, handled>>

MainStep ==
  \/ rocsmq_start_thread \/ MainLocks \/ SetRunning \/ IsRunning \/ HasMessages
  \/ GetMessage \/ rocsmq_destroy_thread \/ Exit

-----------------------------------------------------------------------------
(***************************************************************************)
(* SIGTERM.  The handler runs on top of thread t, wherever that is, with   *)
(* SIGTERM blocked in t; a mutex t holds already is never free for it.     *)
(***************************************************************************)
Alive(t) ==
  /\ main # "exited"
  /\ t = "listener" => listener \notin {"unborn", "done"}

Signal(t) ==
  /\ signals < MaxSignals
  /\ Alive(t)
  /\ Runs(t)
  /\ signals' = signals + 1
  /\ handler' = [handler EXCEPT ![t] = "lock"]
  /\ UNCHANGED <<socketVars, main, listener, inHand, queue, running, mutex,
                 handled>>

HandlerLocks(t) ==
  /\ handler[t] = "lock"
  /\ mutex = "free"
  /\ mutex' = t
  /\ handler' = [handler EXCEPT ![t] = "clear"]
  /\ UNCHANGED <<socketVars, main, listener, inHand, queue, running, signals,
                 handled>>

HandlerClears(t) ==
  /\ handler[t] = "clear"
  /\ running' = FALSE
  /\ mutex' = "free"
  /\ handler' = [handler EXCEPT ![t] = "none"]
  /\ UNCHANGED <<socketVars, main, listener, inHand, queue, signals, handled>>

(***************************************************************************)
(* After rocsmq_destroy_thread locking fails and the handler goes on.      *)
(***************************************************************************)
HandlerTooLate(t) ==
  /\ handler[t] = "lock"
  /\ mutex = "destroyed"
  /\ running' = FALSE
  /\ handler' = [handler EXCEPT ![t] = "none"]
  /\ UNCHANGED <<socketVars, main, listener, inHand, queue, mutex, signals,
                 handled>>

HandlerStep(t) == HandlerLocks(t) \/ HandlerClears(t) \/ HandlerTooLate(t)

(***************************************************************************)
(* The server's end of the connection.                                     *)
(***************************************************************************)
ServerSends ==
  /\ ending = "open" /\ main # "exited"
  /\ sentCount < MaxMessages
  /\ sentCount' = sentCount + 1
  /\ stream' = Append(stream, sentCount + 1)
  /\ UNCHANGED <<ending, main, listener, inHand, queue, running, mutex,
                 signalVars, handled>>

ServerEnds ==
  /\ ending = "open" /\ main # "exited"
  /\ ending' \in {"fin", "reset"}
  /\ UNCHANGED <<stream, sentCount, main, listener, inHand, queue, running,
                 mutex, signalVars, handled>>

Next ==
  \/ ListenerStep \/ MainStep
  \/ \E t \in Threads : Signal(t) \/ HandlerStep(t)
  \/ ServerSends \/ ServerEnds

Spec == Init /\ [][Next]_vars

(***************************************************************************)
(* The kernel runs both threads, whatever call they are in as soon as it   *)
(* can return, and a waiter gets the mutex that is freed again and again.  *)
(***************************************************************************)
Fairness ==
  /\ SF_vars(ListenerLocks) /\ SF_vars(MainLocks)
  /\ WF_vars(ListenerStep) /\ WF_vars(MainStep)
  /\ \A t \in Threads : SF_vars(HandlerStep(t))

FairSpec == Spec /\ Fairness

-----------------------------------------------------------------------------
TypeOK ==
  /\ stream \in Seq(Nat)
  /\ ending \in {"open", "fin", "reset"}
  /\ sentCount \in 0..MaxMessages
  /\ main \in DOMAIN Inside \cup {Inside[w] : w \in DOMAIN Inside}
               \cup {"start", "join", "leaving", "exited"}
  /\ listener \in {"unborn", "check", "recv", "lock", "add", "done"}
  /\ inHand \in Seq(Nat)
  /\ Len(inHand) = IF listener \in {"lock", "add"} THEN 1 ELSE 0
  /\ queue \in Seq(Nat)
  /\ running \in BOOLEAN
  /\ mutex \in Threads \cup {"free", "destroyed"}
  /\ signals \in 0..MaxSignals
  /\ handler \in [Threads -> {"none", "lock", "clear"}]
  /\ handled \in Seq(Nat)

(***************************************************************************)
(* "creates a Thread which listens for messages and queues them for the    *)
(* main loop" (README.md:19): from the socket to the handler no message is *)
(* lost, doubled or overtaken; only a connection that was reset adds one   *)
(* message nobody sent, after all the others.                              *)
(***************************************************************************)
InTransit == handled \o queue \o inHand \o stream

NothingLost ==
  /\ \A n \in 1..sentCount : InTransit[n] = n
  /\ Len(InTransit) > sentCount =>
       /\ Len(InTransit) = sentCount + 1
       /\ InTransit[sentCount + 1] = Zeroed
       /\ ending # "open"

(***************************************************************************)
(* What rocsmq_has_messages answered still holds when rocsmq_get_message   *)
(* pops, although the mutex was given back in between.                     *)
(***************************************************************************)
PopsNonEmpty == main \in {"get", "popping"} => queue # <<>>

(***************************************************************************)
(* The mutex and the flag: one holder at a time, handlers included, and    *)
(* once the thread was joined nobody holds it again.                       *)
(***************************************************************************)
Holds(t) ==
  \/ t = "main" /\ main \in {Inside[w] : w \in DOMAIN Inside}
  \/ t = "listener" /\ listener = "add"
  \/ handler[t] = "clear"

MutexHeld ==
  /\ \A t \in Threads : Holds(t) <=> mutex = t
  /\ main \in {"leaving", "exited"} <=> mutex = "destroyed"
  /\ mutex = "destroyed" => listener = "done"

(***************************************************************************)
(* What these rest on, step by step: nobody listens before the main thread *)
(* starts the listener, a handler never has the mutex while the thread     *)
(* under it thinks to have it too, and every message sent is somewhere.    *)
(***************************************************************************)
HoldsItself(t) ==
  IF t = "main" THEN main \in {Inside[w] : w \in DOMAIN Inside}
                ELSE listener = "add"

QueueInv ==
  /\ TypeOK /\ NothingLost /\ PopsNonEmpty /\ MutexHeld
  /\ main = "start" <=> listener = "unborn"
  /\ \A t \in Threads : handler[t] = "clear" => ~HoldsItself(t)
  /\ Len(InTransit) >= sentCount
  /\ ending # "fin" => Len(InTransit) = sentCount

(***************************************************************************)
(* A message sent to the component is handled in the end, unless the       *)
(* component is told to stop.                                              *)
(***************************************************************************)
MessageHandled ==
  \A n \in 1..MaxMessages :
    sentCount >= n ~> signals > 0 \/ Len(handled) >= n

(***************************************************************************)
(* A main thread that waits for the listener gets away as soon as the      *)
(* listener has something to read, be it the end of the connection, unless *)
(* a second SIGTERM catches a thread with the mutex in its hands.          *)
(***************************************************************************)
SelfLocked == \E t \in Threads : handler[t] = "lock" /\ mutex = t

JoinEndsWithTraffic ==
  main = "join" /\ (stream # <<>> \/ ending # "open") ~> main = "exited" \/ SelfLocked

(***************************************************************************)
(* "catch kill signal" (daemonizer.c:77), "shut system down"               *)
(* (rocsmq-cron/src/clientmain.c:118-120): SIGTERM ends a component.       *)
(***************************************************************************)
TermEndsProcess == signals > 0 ~> main = "exited"
=============================================================================
