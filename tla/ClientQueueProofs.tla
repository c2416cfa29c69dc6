------------------------- MODULE ClientQueueProofs --------------------------
(***************************************************************************)
(* Proofs about ClientQueue.tla: the queue between the listener and the    *)
(* main thread of a component, its mutex and its signal handlers.          *)
(***************************************************************************)
EXTENDS ClientQueue, SequenceTheorems, TLAPS

(***************************************************************************)
(* Moving the head of a sequence to the end of the one before it leaves    *)
(* their concatenation as it is.                                           *)
(***************************************************************************)
LEMMA MoveHead ==
  ASSUME NEW S, NEW s \in Seq(S), NEW t \in Seq(S), t # <<>>
  PROVE  Append(s, Head(t)) \o Tail(t) = s \o t
<1>1. Head(t) \in S /\ Tail(t) \in Seq(S) /\ Head(t) = t[1]
  OBVIOUS
<1>2. <<Head(t)>> \in Seq(S) /\ Append(s, Head(t)) = s \o <<Head(t)>>
  BY <1>1, AppendIsConcat
<1>3. <<Head(t)>> \o Tail(t) = t
  <2>1. Len(t) \in 1..Len(t) /\ 1 \in 1..Len(t)
    BY EmptySeq
  <2>2. t = <<t[1]>> \o SubSeq(t, 2, Len(t))
    <3>1. SubSeq(t, 1, Len(t)) = <<t[1]>> \o SubSeq(t, 1 + 1, Len(t))
      BY <2>1, SubSeqRecursiveFirst
    <3> QED BY <3>1, SubSeqFull
  <2> QED BY <1>1, <2>2, TailIsSubSeq
<1>4. (s \o <<Head(t)>>) \o Tail(t) = s \o (<<Head(t)>> \o Tail(t))
  BY <1>1, <1>2, ConcatAssociative
<1> QED BY <1>2, <1>3, <1>4

-----------------------------------------------------------------------------
(***************************************************************************)
(* The types of what the threads pass on, and where they are.              *)
(***************************************************************************)
Critical == {"activating", "checking", "looking", "popping", "stopping"}

LEMMA InsideValues ==
  /\ DOMAIN Inside = {"activate", "loop", "has", "get", "stop"}
  /\ \A w \in DOMAIN Inside : Inside[w] \in Critical
  /\ {Inside[w] : w \in DOMAIN Inside} = Critical
  /\ Inside["activate"] = "activating" /\ Inside["loop"] = "checking"
  /\ Inside["has"] = "looking" /\ Inside["get"] = "popping"
  /\ Inside["stop"] = "stopping"
  BY DEF Inside, Critical

(***************************************************************************)
(* The process starts with an empty queue, the mutex free and one thread.  *)
(***************************************************************************)
LEMMA InitHolds == Init => QueueInv
<1> SUFFICES ASSUME Init PROVE QueueInv
  OBVIOUS
<1>1. TypeOK
  BY QueueAssumption, InsideValues DEF Init, TypeOK, Threads
<1>2. MutexHeld /\ PopsNonEmpty
  BY InsideValues DEF Init, MutexHeld, Holds, Threads, Critical, PopsNonEmpty
<1>3. InTransit = <<>>
  BY DEF Init, InTransit
<1>4. NothingLost /\ Len(InTransit) >= sentCount /\ Len(InTransit) = sentCount
  BY <1>3 DEF Init, NothingLost
<1> QED BY <1>1, <1>2, <1>4 DEF QueueInv, Init, HoldsItself, Threads

(***************************************************************************)
(* A handler touches its own place, the mutex and the flag only.           *)
(***************************************************************************)
LEMMA HandlerType ==
  ASSUME TypeOK, NEW t \in Threads, HandlerStep(t)
  PROVE  TypeOK'
<1>1. /\ \E w \in {"none", "lock", "clear"} : handler' = [handler EXCEPT ![t] = w]
      /\ mutex' \in {mutex, t, "free"}
      /\ running' \in {running, FALSE}
      /\ UNCHANGED <<socketVars, main, listener, inHand, queue, signals, handled>>
  BY DEF HandlerStep, HandlerLocks, HandlerClears, HandlerTooLate
<1>2. handler' \in [Threads -> {"none", "lock", "clear"}]
  BY <1>1 DEF TypeOK
<1>3. mutex' \in Threads \cup {"free", "destroyed"} /\ running' \in BOOLEAN
  BY <1>1 DEF TypeOK
<1> QED BY <1>1, <1>2, <1>3 DEF TypeOK, socketVars

(***************************************************************************)
(* Every step of the threads, the handlers and the server keeps the types. *)
(***************************************************************************)
LEMMA TypeStep == QueueInv /\ [Next]_vars => TypeOK'
<1> SUFFICES ASSUME QueueInv, [Next]_vars PROVE TypeOK'
  OBVIOUS
<1> USE QueueAssumption, InsideValues DEF QueueInv, TypeOK, Critical
<1>1. CASE ListenerStep
  <2>1. CASE ListenerChecks
    BY <2>1 DEF ListenerChecks, socketVars, signalVars
  <2>2. CASE ListenerReads
    <3>1. Head(stream) \in Nat /\ Tail(stream) \in Seq(Nat)
      BY <2>2 DEF ListenerReads
    <3> QED BY <2>2, <3>1 DEF ListenerReads, signalVars
  <2>3. CASE ListenerReadFails
    BY <2>3 DEF ListenerReadFails, signalVars, Zeroed
  <2>4. CASE ListenerReadsEOF
    BY <2>4 DEF ListenerReadsEOF, socketVars, signalVars
  <2>5. CASE ListenerLocks
    BY <2>5 DEF ListenerLocks, Lock, Threads, socketVars, signalVars
  <2>6. CASE rocsmq_add
    BY <2>6, ConcatProperties DEF rocsmq_add, Unlock, socketVars, signalVars
  <2> QED BY <1>1, <2>1, <2>2, <2>3, <2>4, <2>5, <2>6 DEF ListenerStep
<1>2. CASE MainStep
  <2>1. CASE rocsmq_start_thread
    BY <2>1 DEF rocsmq_start_thread, socketVars, signalVars
  <2>2. CASE MainLocks
    BY <2>2 DEF MainLocks, Lock, Threads, socketVars, signalVars
  <2>3. CASE SetRunning
    BY <2>3 DEF SetRunning, Unlock, socketVars, signalVars
  <2>4. CASE IsRunning
    BY <2>4 DEF IsRunning, Unlock, socketVars, signalVars
  <2>5. CASE HasMessages
    BY <2>5 DEF HasMessages, Unlock, socketVars, signalVars
  <2>6. CASE GetMessage
    <3>1. Head(queue) \in Nat /\ Tail(queue) \in Seq(Nat)
      BY <2>6 DEF GetMessage
    <3>2. handled' \in Seq(Nat)
      BY <2>6, <3>1 DEF GetMessage
    <3> QED BY <2>6, <3>1, <3>2 DEF GetMessage, Unlock, socketVars, signalVars
  <2>7. CASE rocsmq_destroy_thread
    BY <2>7 DEF rocsmq_destroy_thread, socketVars, signalVars
  <2>8. CASE Exit
    BY <2>8 DEF Exit, socketVars, signalVars
  <2> QED BY <1>2, <2>1, <2>2, <2>3, <2>4, <2>5, <2>6, <2>7, <2>8 DEF MainStep
<1>3. CASE \E t \in Threads : Signal(t)
  BY <1>3 DEF Signal, socketVars
<1>4. CASE \E t \in Threads : HandlerStep(t)
  BY <1>4, HandlerType
<1>5. CASE ServerSends
  BY <1>5 DEF ServerSends, signalVars
<1>6. CASE ServerEnds
  BY <1>6 DEF ServerEnds, signalVars
<1>7. CASE UNCHANGED vars
  BY <1>7 DEF vars, socketVars, signalVars
<1> QED BY <1>1, <1>2, <1>3, <1>4, <1>5, <1>6, <1>7 DEF Next

-----------------------------------------------------------------------------
(***************************************************************************)
(* The mutex: who is inside is who took it, handlers included, after every *)
(* step.                                                                   *)
(***************************************************************************)
LEMMA MutexStep ==
  QueueInv /\ [Next]_vars
    => /\ MutexHeld'
       /\ (main = "start" <=> listener = "unborn")'
       /\ (\A t \in Threads : handler[t] = "clear" => ~HoldsItself(t))'
<1> SUFFICES ASSUME QueueInv, [Next]_vars
             PROVE  /\ MutexHeld'
                    /\ (main = "start" <=> listener = "unborn")'
                    /\ (\A t \in Threads : handler[t] = "clear" => ~HoldsItself(t))'
  OBVIOUS
<1> USE InsideValues DEF QueueInv, TypeOK, Critical, MutexHeld, Holds, HoldsItself, Threads
<1>1. CASE ListenerStep
  <2>1. CASE ListenerChecks
    BY <2>1 DEF ListenerChecks, signalVars
  <2>2. CASE ListenerReads
    BY <2>2 DEF ListenerReads, signalVars
  <2>3. CASE ListenerReadFails
    BY <2>3 DEF ListenerReadFails, signalVars
  <2>4. CASE ListenerReadsEOF
    BY <2>4 DEF ListenerReadsEOF, signalVars
  <2>5. CASE ListenerLocks
    BY <2>5 DEF ListenerLocks, Lock, Runs, signalVars
  <2>6. CASE rocsmq_add
    BY <2>6 DEF rocsmq_add, Unlock, Runs, signalVars
  <2> QED BY <1>1, <2>1, <2>2, <2>3, <2>4, <2>5, <2>6 DEF ListenerStep
<1>2. CASE MainStep
  <2>1. CASE rocsmq_start_thread
    BY <2>1 DEF rocsmq_start_thread, signalVars
  <2>2. CASE MainLocks
    BY <2>2 DEF MainLocks, Lock, Runs, signalVars
  <2>3. CASE SetRunning
    BY <2>3 DEF SetRunning, Unlock, Runs, signalVars
  <2>4. CASE IsRunning
    BY <2>4 DEF IsRunning, Unlock, Runs, signalVars
  <2>5. CASE HasMessages
    BY <2>5 DEF HasMessages, Unlock, Runs, signalVars
  <2>6. CASE GetMessage
    BY <2>6 DEF GetMessage, Unlock, Runs, signalVars
  <2>7. CASE rocsmq_destroy_thread
    BY <2>7 DEF rocsmq_destroy_thread, Runs, signalVars
  <2>8. CASE Exit
    BY <2>8 DEF Exit, Runs, signalVars
  <2> QED BY <1>2, <2>1, <2>2, <2>3, <2>4, <2>5, <2>6, <2>7, <2>8 DEF MainStep
<1>3. ASSUME NEW t \in Threads, Signal(t)
      PROVE  /\ MutexHeld'
             /\ (main = "start" <=> listener = "unborn")'
             /\ (\A u \in Threads : handler[u] = "clear" => ~HoldsItself(u))'
  BY <1>3 DEF Signal, Runs
<1>4. ASSUME NEW t \in Threads, HandlerStep(t)
      PROVE  /\ MutexHeld'
             /\ (main = "start" <=> listener = "unborn")'
             /\ (\A u \in Threads : handler[u] = "clear" => ~HoldsItself(u))'
  <2>1. CASE HandlerLocks(t)
    BY <2>1 DEF HandlerLocks
  <2>2. CASE HandlerClears(t)
    BY <2>2 DEF HandlerClears
  <2>3. CASE HandlerTooLate(t)
    BY <2>3 DEF HandlerTooLate
  <2> QED BY <1>4, <2>1, <2>2, <2>3 DEF HandlerStep
<1>5. CASE ServerSends
  BY <1>5 DEF ServerSends, signalVars
<1>6. CASE ServerEnds
  BY <1>6 DEF ServerEnds, signalVars
<1>7. CASE UNCHANGED vars
  BY <1>7 DEF vars, signalVars
<1> QED BY <1>1, <1>2, <1>3, <1>4, <1>5, <1>6, <1>7 DEF Next

-----------------------------------------------------------------------------
(***************************************************************************)
(* The way of the messages.  A thread that hands one on leaves what is     *)
(* under way as it is; the server adds one at the end, and so does a read  *)
(* that fails.                                                             *)
(***************************************************************************)
Transit == InTransit \in Seq(Nat) /\ Len(InTransit) \in Nat

(***************************************************************************)
(* What is under way is a sequence of messages.                            *)
(***************************************************************************)
LEMMA TransitType == ASSUME TypeOK PROVE Transit
<1>1. handled \o queue \in Seq(Nat)
  BY ConcatProperties DEF TypeOK
<1>2. handled \o queue \o inHand \in Seq(Nat)
  BY <1>1, ConcatProperties DEF TypeOK
<1>3. InTransit \in Seq(Nat)
  BY <1>2, ConcatProperties DEF TypeOK, InTransit
<1> QED BY <1>3, LenProperties DEF Transit

(***************************************************************************)
(* Concatenation may be grouped either way.                                *)
(***************************************************************************)
LEMMA Regroup ==
  ASSUME NEW s \in Seq(Nat), NEW t \in Seq(Nat), NEW u \in Seq(Nat)
  PROVE  s \o (t \o u) = (s \o t) \o u
  BY ConcatAssociative, SMTT(60)

(***************************************************************************)
(* Reading, queueing and popping leave what is under way as it is.         *)
(***************************************************************************)
LEMMA HandOn ==
  ASSUME TypeOK, ListenerReads \/ rocsmq_add \/ GetMessage
  PROVE  InTransit' = InTransit
<1> USE DEF TypeOK
<1>a. handled \o queue \in Seq(Nat) /\ queue \o inHand \in Seq(Nat)
  BY ConcatProperties
<1>1. CASE ListenerReads
  <2>1. inHand = <<>> /\ stream # <<>> /\ inHand' = <<Head(stream)>>
        /\ stream' = Tail(stream) /\ handled' = handled /\ queue' = queue
    BY <1>1, EmptySeq DEF ListenerReads
  <2>2. Head(stream) \in Nat /\ Tail(stream) \in Seq(Nat)
    BY <2>1
  <2>3. handled \o queue \o inHand = handled \o queue
    BY <1>a, <2>1, ConcatEmptySeq
  <2>4. handled \o queue \o inHand' = Append(handled \o queue, Head(stream))
    BY <1>a, <2>1, <2>2, AppendIsConcat
  <2>5. Append(handled \o queue, Head(stream)) \o Tail(stream)
          = (handled \o queue) \o stream
    BY <1>a, <2>1, MoveHead
  <2> QED BY <2>1, <2>3, <2>4, <2>5 DEF InTransit
<1>2. CASE rocsmq_add
  <2>1. queue' = queue \o inHand /\ inHand' = <<>> /\ handled' = handled
        /\ stream' = stream
    BY <1>2 DEF rocsmq_add, socketVars
  <2>2. handled \o (queue \o inHand) = (handled \o queue) \o inHand
    BY Regroup
  <2>3. (handled \o (queue \o inHand)) \o <<>> = handled \o (queue \o inHand)
    <3>1. handled \o (queue \o inHand) \in Seq(Nat)
      BY <1>a, ConcatProperties
    <3> QED BY <3>1, ConcatEmptySeq
  <2> QED BY <2>1, <2>2, <2>3 DEF InTransit
<1>3. CASE GetMessage
  <2>1. queue # <<>> /\ queue' = Tail(queue) /\ handled' = Append(handled, Head(queue))
        /\ inHand' = inHand /\ stream' = stream
    BY <1>3 DEF GetMessage, socketVars
  <2>2. Append(handled, Head(queue)) \o Tail(queue) = handled \o queue
    BY <2>1, MoveHead
  <2> QED BY <2>1, <2>2 DEF InTransit
<1> QED BY <1>1, <1>2, <1>3

LEMMA AppendOne ==
  ASSUME NEW s \in Seq(Nat), NEW n \in Nat
  PROVE  Append(s, n) = s \o <<n>> /\ <<n>> \in Seq(Nat)
<1>1. Append(s, n) = s \o <<n>>
  OBVIOUS
<1>2. <<n>> \in Seq(Nat)
  OBVIOUS
<1> QED BY <1>1, <1>2

(***************************************************************************)
(* A send, or a failed read, puts one message behind all that is under way. *)
(***************************************************************************)
LEMMA OneMore ==
  ASSUME TypeOK, ServerSends \/ ListenerReadFails
  PROVE  InTransit' = Append(InTransit, IF ServerSends THEN sentCount + 1 ELSE Zeroed)
<1> USE DEF TypeOK
<1>a. handled \o queue \in Seq(Nat)
  BY ConcatProperties
<1>b. handled \o queue \o inHand \in Seq(Nat)
  BY <1>a, ConcatProperties
<1>c. InTransit \in Seq(Nat)
  BY TransitType DEF Transit
<1>1. CASE ServerSends
  <2>1. stream' = Append(stream, sentCount + 1) /\ sentCount + 1 \in Nat
        /\ handled' = handled /\ queue' = queue /\ inHand' = inHand
    BY <1>1, QueueAssumption DEF ServerSends
  <2>2. stream' = stream \o <<sentCount + 1>> /\ <<sentCount + 1>> \in Seq(Nat)
    <3>1. stream \in Seq(Nat)
      OBVIOUS
    <3> QED BY <2>1, <3>1, AppendOne
  <2>3. (handled \o queue \o inHand) \o (stream \o <<sentCount + 1>>)
          = InTransit \o <<sentCount + 1>>
    BY <1>b, <2>2, Regroup, SMTT(60) DEF InTransit
  <2>4. InTransit \o <<sentCount + 1>> = Append(InTransit, sentCount + 1)
    BY <1>c, <2>1, AppendOne
  <2> QED BY <1>1, <2>1, <2>2, <2>3, <2>4 DEF InTransit
<1>2. CASE ListenerReadFails /\ ~ServerSends
  <2>1. inHand = <<>> /\ stream = <<>> /\ inHand' = <<Zeroed>> /\ stream' = <<>>
        /\ handled' = handled /\ queue' = queue
    BY <1>2, EmptySeq DEF ListenerReadFails
  <2>2. InTransit = handled \o queue
    BY <1>a, <2>1, ConcatEmptySeq DEF InTransit
  <2>3. Zeroed \in Nat /\ <<Zeroed>> \in Seq(Nat)
    BY DEF Zeroed
  <2>4. (handled \o queue \o <<Zeroed>>) \o <<>> = handled \o queue \o <<Zeroed>>
    <3>1. handled \o queue \o <<Zeroed>> \in Seq(Nat)
      BY <1>a, <2>3, ConcatProperties
    <3> QED BY <3>1, ConcatEmptySeq
  <2>5. handled \o queue \o <<Zeroed>> = Append(InTransit, Zeroed)
    BY <1>a, <2>2, <2>3, AppendIsConcat
  <2> QED BY <1>2, <2>1, <2>4, <2>5 DEF InTransit
<1> QED BY <1>1, <1>2

(***************************************************************************)
(* Every step keeps NothingLost and the count of what is under way.        *)
(***************************************************************************)
LEMMA TransitStep ==
  QueueInv /\ [Next]_vars
    => /\ NothingLost'
       /\ (Len(InTransit) >= sentCount)'
       /\ (ending # "fin" => Len(InTransit) = sentCount)'
<1> SUFFICES ASSUME QueueInv, [Next]_vars
             PROVE  /\ NothingLost'
                    /\ (Len(InTransit) >= sentCount)'
                    /\ (ending # "fin" => Len(InTransit) = sentCount)'
  OBVIOUS
<1>t. TypeOK /\ InTransit \in Seq(Nat) /\ Len(InTransit) \in Nat /\ sentCount \in Nat
  BY TransitType, QueueAssumption DEF QueueInv, Transit, TypeOK
<1>k. ASSUME InTransit' = InTransit, UNCHANGED <<sentCount, ending>>
      PROVE  /\ NothingLost'
             /\ (Len(InTransit) >= sentCount)'
             /\ (ending # "fin" => Len(InTransit) = sentCount)'
  BY <1>k DEF QueueInv, NothingLost
<1>m. CASE UNCHANGED <<handled, queue, inHand, stream, sentCount, ending>>
  <2>1. InTransit' = InTransit
    BY <1>m DEF InTransit
  <2> QED BY <1>k, <1>m, <2>1
<1>1. CASE ListenerStep
  <2>1. CASE ListenerReads \/ rocsmq_add
    BY <1>k, <1>t, <2>1, HandOn DEF ListenerReads, rocsmq_add, socketVars
  <2>2. CASE ListenerReadFails
    <3>1. Len(InTransit) = sentCount /\ ~ServerSends /\ sentCount' = sentCount
          /\ ending' = "fin"
      BY <2>2 DEF QueueInv, ListenerReadFails, ServerSends
    <3>2. InTransit' = Append(InTransit, Zeroed)
      BY <1>t, <2>2, <3>1, OneMore
    <3>3. Zeroed \in Nat
      BY DEF Zeroed
    <3>4. Len(InTransit') = sentCount + 1 /\ InTransit'[sentCount + 1] = Zeroed
      BY <1>t, <3>1, <3>2, <3>3, AppendProperties
    <3>5. \A n \in 1..sentCount : InTransit'[n] = InTransit[n]
      BY <1>t, <3>1, <3>2, <3>3, AppendProperties
    <3>6. \A n \in 1..sentCount : InTransit[n] = n
      BY DEF QueueInv, NothingLost
    <3> QED BY <1>t, <3>1, <3>4, <3>5, <3>6 DEF NothingLost
  <2>3. CASE ListenerChecks \/ ListenerReadsEOF \/ ListenerLocks
    BY <1>m, <2>3 DEF ListenerChecks, ListenerReadsEOF, ListenerLocks, socketVars
  <2> QED BY <1>1, <2>1, <2>2, <2>3 DEF ListenerStep
<1>2. CASE MainStep
  <2>1. CASE GetMessage
    BY <1>k, <1>t, <2>1, HandOn DEF GetMessage, socketVars
  <2>2. CASE \/ rocsmq_start_thread \/ MainLocks \/ SetRunning \/ IsRunning
             \/ HasMessages \/ rocsmq_destroy_thread \/ Exit
    BY <1>m, <2>2 DEF rocsmq_start_thread, MainLocks, SetRunning, IsRunning,
                      HasMessages, rocsmq_destroy_thread, Exit, socketVars
  <2> QED BY <1>2, <2>1, <2>2 DEF MainStep
<1>3. CASE \E t \in Threads : Signal(t) \/ HandlerStep(t)
  BY <1>m, <1>3 DEF Signal, HandlerStep, HandlerLocks, HandlerClears,
                    HandlerTooLate, socketVars
<1>4. CASE ServerSends
  <2>1. Len(InTransit) = sentCount /\ sentCount' = sentCount + 1 /\ ending' = ending
    BY <1>4 DEF QueueInv, ServerSends
  <2>2. InTransit' = Append(InTransit, sentCount + 1) /\ sentCount + 1 \in Nat
    BY <1>t, <1>4, OneMore
  <2>3. Len(InTransit') = sentCount' /\ InTransit'[sentCount + 1] = sentCount + 1
    BY <1>t, <2>1, <2>2, AppendProperties
  <2>4. \A n \in 1..sentCount : InTransit'[n] = InTransit[n]
    BY <1>t, <2>1, <2>2, AppendProperties
  <2>5. \A n \in 1..sentCount : InTransit[n] = n
    BY DEF QueueInv, NothingLost
  <2>6. \A n \in 1..sentCount' : n \in 1..sentCount \/ n = sentCount + 1
    BY <1>t, <2>1
  <2>7. \A n \in 1..sentCount' : InTransit'[n] = n
    BY <2>3, <2>4, <2>5, <2>6
  <2> QED BY <1>t, <2>1, <2>3, <2>7 DEF NothingLost
<1>5. CASE ServerEnds
  <2>1. InTransit' = InTransit /\ sentCount' = sentCount /\ Len(InTransit) = sentCount
    BY <1>5 DEF ServerEnds, QueueInv, InTransit
  <2> QED BY <1>t, <2>1 DEF QueueInv, NothingLost
<1>6. CASE UNCHANGED vars
  BY <1>m, <1>6 DEF vars, socketVars
<1> QED BY <1>1, <1>2, <1>3, <1>4, <1>5, <1>6 DEF Next

-----------------------------------------------------------------------------
(***************************************************************************)
(* Only the main thread takes from the queue, and it looked before.        *)
(***************************************************************************)
LEMMA PopsStep == QueueInv /\ [Next]_vars => PopsNonEmpty'
<1> SUFFICES ASSUME QueueInv, [Next]_vars PROVE PopsNonEmpty'
  OBVIOUS
<1> USE InsideValues DEF QueueInv, TypeOK, PopsNonEmpty
<1>1. CASE ListenerStep
  <2>1. CASE rocsmq_add
    <3>1. queue # <<>> => queue \o inHand # <<>>
      BY ConcatEqualIffEmpty
    <3> QED BY <2>1, <3>1 DEF rocsmq_add
  <2>2. CASE \/ ListenerChecks \/ ListenerReads \/ ListenerReadFails
             \/ ListenerReadsEOF \/ ListenerLocks
    BY <2>2 DEF ListenerChecks, ListenerReads, ListenerReadFails,
                ListenerReadsEOF, ListenerLocks
  <2> QED BY <1>1, <2>1, <2>2 DEF ListenerStep
<1>2. CASE MainStep
  <2>1. CASE MainLocks
    BY <2>1 DEF MainLocks
  <2>2. CASE HasMessages
    BY <2>2 DEF HasMessages
  <2>3. CASE \/ rocsmq_start_thread \/ SetRunning \/ IsRunning \/ GetMessage
             \/ rocsmq_destroy_thread \/ Exit
    BY <2>3 DEF rocsmq_start_thread, SetRunning, IsRunning, GetMessage,
                rocsmq_destroy_thread, Exit
  <2> QED BY <1>2, <2>1, <2>2, <2>3 DEF MainStep
<1>3. CASE \E t \in Threads : Signal(t) \/ HandlerStep(t)
  BY <1>3 DEF Signal, HandlerStep, HandlerLocks, HandlerClears, HandlerTooLate
<1>4. CASE ServerSends \/ ServerEnds
  BY <1>4 DEF ServerSends, ServerEnds
<1>5. CASE UNCHANGED vars
  BY <1>5 DEF vars
<1> QED BY <1>1, <1>2, <1>3, <1>4, <1>5 DEF Next

-----------------------------------------------------------------------------
(***************************************************************************)
(* The inductive invariant of the two threads and their signal handlers.   *)
(***************************************************************************)
THEOREM QueueInvariant == Spec => []QueueInv
<1>1. QueueInv /\ [Next]_vars => QueueInv'
  BY TypeStep, MutexStep, TransitStep, PopsStep DEF QueueInv
<1> QED BY InitHolds, <1>1, PTL DEF Spec

(***************************************************************************)
(* From the socket to the handler no message is lost, doubled or           *)
(* overtaken, however the listener, the main thread, the signal handlers   *)
(* and the server interleave.                                              *)
(***************************************************************************)
THEOREM QueueKeepsMessages == Spec => []NothingLost
<1>1. QueueInv => NothingLost
  BY DEF QueueInv
<1> QED BY QueueInvariant, <1>1, PTL

(***************************************************************************)
(* rocsmq_get_message never pops from an empty queue, although it does not *)
(* look and the mutex was free since rocsmq_has_messages did.              *)
(***************************************************************************)
THEOREM PopsSafely == Spec => []PopsNonEmpty
<1>1. QueueInv => PopsNonEmpty
  BY DEF QueueInv
<1> QED BY QueueInvariant, <1>1, PTL

(***************************************************************************)
(* Two pieces of code, a signal handler among them, are never inside the   *)
(* mutex at once, and none is after it was destroyed.                      *)
(***************************************************************************)
THEOREM MutualExclusion == Spec => []MutexHeld
<1>1. QueueInv => MutexHeld
  BY DEF QueueInv
<1> QED BY QueueInvariant, <1>1, PTL

(***************************************************************************)
(* The types: among them that the listener holds a message exactly while   *)
(* it waits for the mutex and while it adds.                               *)
(***************************************************************************)
THEOREM QueueTypeCorrect == Spec => []TypeOK
<1>1. QueueInv => TypeOK
  BY DEF QueueInv
<1> QED BY QueueInvariant, <1>1, PTL
=============================================================================
