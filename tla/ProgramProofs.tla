--------------------------- MODULE ProgramProofs ----------------------------
(***************************************************************************)
(* Proofs about client programs: Lua.tla (whose function runs, and that    *)
(* the data base is the store of one key), Cli.tla (what the command line  *)
(* client sends) and QueueBridge.tla (what the bridge publishes and        *)
(* forwards).                                                              *)
(***************************************************************************)
EXTENDS Lua, Cli, QueueBridge, SequenceTheorems, FiniteSetTheorems,
        NaturalsInduction, WellFoundedInduction, TLAPS

\* The global run is the function of the script loaded last, at any time.
RunIsLoaded == run = loaded

\* Before run is called the script was loaded, or its failure was noted.
LoadedOrFailed == luaStep = "run" => run = script \/ script \in failed

RunInv == RunIsLoaded /\ LoadedOrFailed /\ TheLastLoadedRuns

\* Initially nothing was loaded.
LEMMA RunInit == LuaInit => RunInv
  BY DEF LuaInit, RunInv, RunIsLoaded, LoadedOrFailed, TheLastLoadedRuns

\* A command changes the data base and the step, and none of what RunInv is
\* about but a step away from the script.
LEMMA RunStep == RunInv /\ [LuaNext]_luaVars => RunInv'
  <1> SUFFICES ASSUME RunInv, [LuaNext]_luaVars PROVE RunInv'
    OBVIOUS
  <1> USE DEF RunInv, RunIsLoaded, LoadedOrFailed, TheLastLoadedRuns, luaStore,
              luaAnswers
  <1>1. CASE LuaMessage      BY <1>1 DEF LuaMessage
  <1>2. CASE MatchesNot      BY <1>2 DEF MatchesNot
  <1>3. CASE LoadScript      BY <1>3 DEF LoadScript, Error
  <1>4. CASE CallRun         BY <1>4 DEF CallRun, Error
  <1>5. CASE StackOverflow   BY <1>5 DEF StackOverflow
  <1>6. CASE ScriptEnds      BY <1>6 DEF ScriptEnds, Error
  <1>7. CASE LuaHandled      BY <1>7 DEF LuaHandled
  <1>8. CASE lua_persist     BY <1>8 DEF lua_persist, Command
  <1>9. CASE PersistHeader   BY <1>9 DEF PersistHeader
  <1>10. CASE PersistNothing BY <1>10 DEF PersistNothing, Command
  <1>11. CASE lua_retrieve   BY <1>11 DEF lua_retrieve, Command
  <1>12. CASE lua_exists     BY <1>12 DEF lua_exists, Command
  <1>13. CASE ReadWithoutFile BY <1>13 DEF ReadWithoutFile, Command
  <1>14. CASE LuaCrash       BY <1>14 DEF LuaCrash
  <1>15. CASE UNCHANGED luaVars BY <1>15 DEF luaVars
  <1> QED BY <1>1, <1>2, <1>3, <1>4, <1>5, <1>6, <1>7, <1>8, <1>9, <1>10,
             <1>11, <1>12, <1>13, <1>14, <1>15 DEF LuaNext

\* For any scripts, filters, messages and limits, and through crashes: the
\* function that runs for a message is the one of the script loaded last, and
\* of another script than the one that matched only if that one failed to load.
THEOREM LastLoadedRuns == LuaSpec => []TheLastLoadedRuns
  <1>1. RunInv => TheLastLoadedRuns BY DEF RunInv
  <1> QED BY RunInit, RunStep, <1>1, PTL DEF LuaSpec

-----------------------------------------------------------------------------
\* While persist writes, the file is empty.
EmptyWhileMaking == making # {} => file = {}

\* Initially nothing is being written.
LEMMA MakingInit == LuaInit => EmptyWhileMaking
  BY DEF LuaInit, EmptyWhileMaking

\* Only persist begins to write, and clears the file.
LEMMA MakingStep == EmptyWhileMaking /\ [LuaNext]_luaVars => EmptyWhileMaking'
  <1> SUFFICES ASSUME EmptyWhileMaking, [LuaNext]_luaVars
               PROVE EmptyWhileMaking'
    OBVIOUS
  <1> USE DEF EmptyWhileMaking, luaStore
  <1>1. CASE lua_persist   BY <1>1 DEF lua_persist
  <1>2. CASE PersistHeader BY <1>2 DEF PersistHeader
  <1>3. CASE LuaCrash      BY <1>3 DEF LuaCrash
  <1>4. CASE UNCHANGED luaStore BY <1>4
  <1>5. CASE LuaMessage \/ MatchesNot \/ LoadScript \/ CallRun \/ StackOverflow
             \/ ScriptEnds \/ LuaHandled \/ PersistNothing \/ lua_retrieve
             \/ lua_exists \/ ReadWithoutFile
    BY <1>4, <1>5 DEF LuaMessage, MatchesNot, LoadScript, CallRun, StackOverflow,
       ScriptEnds, LuaHandled, PersistNothing, lua_retrieve, lua_exists,
       ReadWithoutFile
  <1>6. CASE UNCHANGED luaVars BY <1>4, <1>6 DEF luaVars
  <1> QED BY <1>1, <1>2, <1>3, <1>5, <1>6 DEF LuaNext

\* What the abstract store holds.
Held == IF making # {} THEN making ELSE file

\* Every step of the client is one of the store, or none.
LEMMA StoreStep ==
  EmptyWhileMaking /\ [LuaNext]_luaVars =>
    [TheStore!Persist \/ TheStore!Retrieve \/ TheStore!Crash]_<<Held, retrieved>>
  <1> SUFFICES ASSUME EmptyWhileMaking, [LuaNext]_luaVars
               PROVE [TheStore!Persist \/ TheStore!Retrieve
                        \/ TheStore!Crash]_<<Held, retrieved>>
    OBVIOUS
  <1>1. CASE lua_persist
    <2>1. PICK k \in DbKeys, v \in DbValues : making' = {[key |-> k, value |-> v]}
      BY <1>1 DEF lua_persist
    <2>2. Held' = {[key |-> k, value |-> v]} BY <2>1 DEF Held
    <2>3. retrieved' = retrieved BY <1>1 DEF lua_persist
    <2> QED BY <2>2, <2>3 DEF TheStore!Persist, Held
  <1>2. CASE lua_retrieve
    <2>1. PICK k \in DbKeys : retrieved' = Stored(k) BY <1>2 DEF lua_retrieve
    <2>2. making = {} /\ Held = file /\ Held' = Held
      BY <1>2 DEF lua_retrieve, Command, Held, luaStore
    <2> QED BY <2>1, <2>2 DEF TheStore!Retrieve, Stored, Held
  <1>3. CASE PersistHeader
    <2>1. Held' = Held /\ retrieved' = retrieved
      BY <1>3 DEF PersistHeader, Held, luaAnswers
    <2> QED BY <2>1
  <1>4. CASE LuaCrash
    <2>1. Held' \in {Held, {}} /\ retrieved' = retrieved
      BY <1>4 DEF LuaCrash, EmptyWhileMaking, Held, luaAnswers
    <2> QED BY <2>1 DEF TheStore!Crash, Held
  <1>5. CASE UNCHANGED <<luaStore, retrieved>>
    BY <1>5 DEF Held, luaStore
  <1>6. CASE LuaMessage \/ MatchesNot \/ LoadScript \/ CallRun \/ StackOverflow
             \/ ScriptEnds \/ LuaHandled \/ PersistNothing \/ lua_exists
             \/ ReadWithoutFile
    BY <1>5, <1>6 DEF LuaMessage, MatchesNot, LoadScript, CallRun, StackOverflow,
       ScriptEnds, LuaHandled, PersistNothing, lua_exists, ReadWithoutFile,
       luaAnswers
  <1>7. CASE UNCHANGED luaVars BY <1>5, <1>7 DEF luaVars, luaAnswers
  <1> QED BY <1>1, <1>2, <1>3, <1>4, <1>6, <1>7 DEF LuaNext

\* The data base of the lua client implements the store of one key, for any
\* keys and values: what was persisted before the last persist is gone.
THEOREM StoreImplemented == LuaSpec => KeepsOneKey
  <1>1. LuaInit => TheStore!StoreInit
    BY DEF LuaInit, TheStore!StoreInit
  <1> QED BY <1>1, MakingInit, MakingStep, StoreStep, PTL
          DEF LuaSpec, KeepsOneKey, TheStore!StoreSpec, Held

-----------------------------------------------------------------------------
(***************************************************************************)
(* The types of lua.  The data base, and what is written to it, hold one   *)
(* pair or none, which is what the cardinalities of LuaTypeOK say.         *)
(***************************************************************************)
Pairs == [key : DbKeys, value : DbValues]

OneOrNone == {{}} \union {{d} : d \in Pairs}

LuaTyped ==
  /\ luaStep \in {"idle", "match", "run", "script", "undefined"}
  /\ script \in 1..Len(Filters) + 1
  /\ luaStep \in {"run", "script"} => script \in Scripts
  /\ run \in Scripts \union {0}
  /\ runs \in Scripts \union {0}
  /\ loaded \in Scripts \union {0}
  /\ open \in 0..FdLimit
  /\ file \in OneOrNone
  /\ making \in OneOrNone
  /\ retrieved \in DbValues \union {NoData}

LEMMA LuaTypedInit == LuaInit => LuaTyped
<1>1. Len(Filters) \in Nat /\ FdLimit \in Nat
  BY LuaAssumption
<1>2. 1 \in 1..Len(Filters) + 1 /\ 0 \in 0..FdLimit
  BY <1>1
<1> QED BY <1>2 DEF LuaInit, LuaTyped, OneOrNone

\* The answer of retrieve is a value, or that there is none.
LEMMA StoredType ==
  ASSUME LuaTyped, NEW k
  PROVE  Stored(k) \in DbValues \union {NoData}
<1>1. CASE \E d \in file : d.key = k
  <2> DEFINE found == CHOOSE d \in file : d.key = k
  <2>1. found \in file
    BY <1>1
  <2>2. found \in Pairs
    BY <2>1 DEF LuaTyped, OneOrNone
  <2>3. Stored(k) = found.value
    BY <1>1 DEF Stored
  <2> HIDE DEF found
  <2> QED BY <2>2, <2>3 DEF Pairs
<1>2. CASE ~\E d \in file : d.key = k
  BY <1>2 DEF Stored
<1> QED BY <1>1, <1>2

LEMMA LuaTypedStep == ASSUME LuaTyped, [LuaNext]_luaVars PROVE LuaTyped'
<1>1. Len(Filters) \in Nat /\ FdLimit \in Nat
  BY LuaAssumption
<1>2. {} \in OneOrNone
  BY DEF OneOrNone
<1> USE DEF LuaTyped, luaStore, luaAnswers, Scripts
<1>3. CASE LuaMessage
  BY <1>1, <1>3 DEF LuaMessage
<1>4. CASE MatchesNot
  BY <1>1, <1>4 DEF MatchesNot
<1>5. CASE LoadScript
  <2>1. run' \in Scripts \union {0} /\ loaded' \in Scripts \union {0}
    BY <1>5 DEF LoadScript
  <2> QED BY <1>5, <2>1 DEF LoadScript
<1>6. CASE CallRun
  BY <1>1, <1>6 DEF CallRun, Error
<1>7. CASE StackOverflow \/ ScriptEnds \/ LuaHandled
  BY <1>1, <1>7 DEF StackOverflow, ScriptEnds, LuaHandled
<1>8. CASE lua_persist
  <2>1. PICK k \in DbKeys, v \in DbValues : making' = {[key |-> k, value |-> v]}
    BY <1>8 DEF lua_persist
  <2>2. [key |-> k, value |-> v] \in Pairs
    BY DEF Pairs
  <2>3. making' \in OneOrNone
    BY <2>1, <2>2 DEF OneOrNone
  <2> QED BY <1>2, <1>8, <2>3 DEF lua_persist, Command
<1>9. CASE PersistHeader
  BY <1>2, <1>9 DEF PersistHeader
<1>10. CASE PersistNothing
  BY <1>10 DEF PersistNothing, Command
<1>11. CASE lua_retrieve
  <2>1. retrieved' \in DbValues \union {NoData}
    BY <1>11, StoredType DEF lua_retrieve
  <2> QED BY <1>11, <2>1 DEF lua_retrieve, Command
<1>12. CASE lua_exists
  BY <1>1, <1>12 DEF lua_exists, Command, CanOpen
<1>13. CASE ReadWithoutFile
  BY <1>13 DEF ReadWithoutFile, Command
<1>14. CASE LuaCrash
  BY <1>1, <1>2, <1>14 DEF LuaCrash
<1>15. CASE UNCHANGED luaVars
  BY <1>15 DEF luaVars
<1> QED BY <1>3, <1>4, <1>5, <1>6, <1>7, <1>8, <1>9, <1>10, <1>11, <1>12, <1>13,
           <1>14, <1>15 DEF LuaNext

\* The types of lua: no run of scripts opens more files than there may be, none
\* takes the index past the script behind the last, and a retrieve answers with
\* data or that there is none.
THEOREM LuaTypeCorrect == LuaSpec => []LuaTypeOK
<1>1. ASSUME NEW pairs \in OneOrNone PROVE Cardinality(pairs) <= 1
  <2>1. CASE pairs = {}
    BY <2>1, FS_EmptySet
  <2>2. CASE pairs # {}
    <3>1. PICK d \in Pairs : pairs = {d}
      BY <2>2 DEF OneOrNone
    <3>2. Cardinality({d}) = 1
      BY FS_Singleton
    <3> QED BY <3>1, <3>2
  <2> QED BY <2>1, <2>2
<1>2. LuaTyped => LuaTypeOK
  BY <1>1 DEF LuaTyped, LuaTypeOK
<1> QED BY LuaTypedInit, LuaTypedStep, <1>2, PTL DEF LuaSpec


-----------------------------------------------------------------------------
(***************************************************************************)
(* The command line client: what is sent, and in which mode.               *)
(***************************************************************************)
\* Only single mode reaches the send, and only once; where it is decided that
\* the mode is single there is no reader, so the message is the arguments'.
SingleSteps == {"arguments", "connect", "single", "join reader", "join", "ended",
                "crashed"}

Beginning ==
  cliStep \in {"arguments", "connect"} => cliSent = <<>> /\ readStep = "none"

SingleMode ==
  mode = "single" =>
    /\ cliStep \in SingleSteps
    /\ readStep = "none"
    /\ cliStep = "single" => cliSent = <<>>
    /\ cliStep \in {"join reader", "join"} => Len(cliSent) = 1

AsGiven ==
  mode = "single" \/ cliStep \in {"arguments", "connect"} =>
    cliMessage \in {"", "given"}

NothingElse ==
  /\ cliStep = "single" => mode = "single"
  /\ cliSent # <<>> => mode = "single" /\ cliSent[1] # "received"

SendsInv == Beginning /\ SingleMode /\ AsGiven /\ NothingElse

\* What is appended to the empty sequence is alone in it.
LEMMA FirstAppended ==
  ASSUME NEW x
  PROVE  Len(Append(<<>>, x)) = 1 /\ Append(<<>>, x)[1] = x
  <1>1. <<>> \in Seq({x}) /\ Len(<<>>) = 0 BY EmptySeq
  <1>2. SUFFICES ASSUME NEW e \in Seq({x}), Len(e) = 0
                 PROVE  Len(Append(e, x)) = 1 /\ Append(e, x)[1] = x
    BY <1>1
  <1> QED BY <1>2, AppendProperties

\* Initially nothing is sent and there is no reader.
LEMMA SendsInit == CliInit => SendsInv
  BY DEF CliInit, SendsInv, Beginning, SingleMode, AsGiven, NothingElse,
     SingleSteps

\* Every step keeps it: the single send is the only one that adds to cliSent,
\* and the reader, which takes a message, is there in interactive mode only.
LEMMA SendsStep == SendsInv /\ [CliNext]_cliVars => SendsInv'
  <1> SUFFICES ASSUME SendsInv, [CliNext]_cliVars PROVE SendsInv'
    OBVIOUS
  <1> USE DEF SendsInv, Beginning, SingleMode, AsGiven, NothingElse,
              SingleSteps
  <1>1. CASE get_parameters BY <1>1 DEF get_parameters
  <1>2. CASE CliConnect     BY <1>2 DEF CliConnect
  <1>3. CASE CliLoop        BY <1>3 DEF CliLoop
  <1>4. CASE ExecuteQuit    BY <1>4 DEF ExecuteQuit
  <1>5. CASE func_send      BY <1>5 DEF func_send
  <1>6. CASE SingleSend
    <2>1. cliSent = <<>> /\ mode = "single" /\ cliMessage \in {"", "given"}
      BY <1>6 DEF SingleSend
    <2>2. cliSent' = Append(<<>>, cliMessage) BY <1>6, <2>1 DEF SingleSend
    <2>3. Len(cliSent') = 1 /\ cliSent'[1] = cliMessage BY <2>2, FirstAppended
    <2> QED BY <1>6, <2>1, <2>3 DEF SingleSend
  <1>7. CASE ReaderTakes    BY <1>7 DEF ReaderTakes
  <1>8. CASE ReaderWaits    BY <1>8 DEF ReaderWaits
  <1>9. CASE ReaderLooks    BY <1>9 DEF ReaderLooks
  <1>10. CASE JoinReader    BY <1>10 DEF JoinReader
  <1>11. CASE CliJoin       BY <1>11 DEF CliJoin
  <1>12. CASE ReadLine \/ ReadNothing BY <1>12 DEF ReadLine, ReadNothing
  <1>13. CASE CliArrives \/ HearsNothing \/ HearsOn \/ ServerCloses
              \/ CloseInput \/ UNCHANGED cliVars
    BY <1>13 DEF CliArrives, HearsNothing, HearsOn, ServerCloses, CloseInput,
       cliVars
  <1> QED BY <1>1, <1>2, <1>3, <1>4, <1>5, <1>6, <1>7, <1>8, <1>9, <1>10, <1>11,
             <1>12, <1>13 DEF CliNext

\* For any number of lines and messages: interactive mode sends nothing, and
\* single mode what the arguments gave, once, never a message that came in.
THEOREM OnlySingleSends == CliSpec => []OnlySingleModeSends
  <1>1. SendsInv => OnlySingleModeSends
    BY DEF SendsInv, SingleMode, NothingElse, OnlySingleModeSends
  <1> QED BY SendsInit, SendsStep, <1>1, PTL DEF CliSpec

-----------------------------------------------------------------------------
Received == {"received"}

\* A sequence of any values, of which one is added or taken.
LEMMA QueueTypes ==
  ASSUME NEW S
  PROVE  /\ <<>> \in Seq(S)
         /\ \A s \in Seq(S), x \in S : Append(s, x) \in Seq(S)
         /\ \A s \in Seq(S) : s # <<>> => Head(s) \in S /\ Tail(s) \in Seq(S)
         /\ \A s \in Seq(S) : Range(s) \subseteq S
  BY DEF Range

CliTyped ==
  /\ cliStep \in {"arguments", "connect", "loop", "read", "execute", "single",
                  "join reader", "join", "ended", "crashed"}
  /\ mode \in {"interactive", "single"}
  /\ input \in CliLines
  /\ typed \in 0..MaxLinesTyped
  /\ cliInbox \in Seq(Received)
  /\ cliMessage \in {"", "given", "received"}
  /\ readStep \in {"none", "drain", "delay", "ended"}
  /\ hearStep \in {"none", "pause", "read", "ended"}

LEMMA CliTypedInit == CliInit => CliTyped
<1> SUFFICES ASSUME CliInit PROVE CliTyped
  OBVIOUS
<1>1. 0 \in 0..MaxLinesTyped
  BY CliAssumption
<1>2. cliInbox \in Seq(Received)
  <2>1. cliInbox = <<>>
    BY DEF CliInit
  <2> QED BY <2>1, QueueTypes
<1> QED BY <1>1, <1>2 DEF CliInit, CliTyped, CliLines

LEMMA CliTypedStep == ASSUME CliTyped, [CliNext]_cliVars PROVE CliTyped'
<1> USE DEF CliTyped, CliLines
<1>1. CASE get_parameters \/ CliConnect
  BY <1>1 DEF get_parameters, CliConnect
<1>2. CASE CliArrives
  <2>1. "received" \in Received
    BY DEF Received
  <2>2. cliInbox' = Append(cliInbox, "received")
    BY <1>2 DEF CliArrives
  <2>3. Append(cliInbox, "received") \in Seq(Received)
    BY <2>1, QueueTypes
  <2> QED BY <1>2, <2>2, <2>3 DEF CliArrives
<1>3. CASE HearsNothing \/ HearsOn \/ ServerCloses
  BY <1>3 DEF HearsNothing, HearsOn, ServerCloses
<1>4. CASE CliLoop \/ CloseInput \/ ReadNothing
  BY <1>4 DEF CliLoop, CloseInput, ReadNothing
<1>5. CASE ReadLine
  <2>1. typed' \in 0..MaxLinesTyped
    <3>1. MaxLinesTyped \in Nat
      BY CliAssumption
    <3>2. typed \in 0..MaxLinesTyped /\ typed < MaxLinesTyped /\ typed' = typed + 1
      BY <1>5 DEF ReadLine
    <3> HIDE DEF CliTyped
    <3> QED BY ONLY <3>1, <3>2
  <2> QED BY <1>5, <2>1 DEF ReadLine
<1>6. CASE ExecuteQuit \/ func_send \/ SingleSend
  BY <1>6 DEF ExecuteQuit, func_send, SingleSend
<1>7. CASE ReaderTakes
  <2>1. Head(cliInbox) \in Received /\ Tail(cliInbox) \in Seq(Received)
    BY <1>7, QueueTypes DEF ReaderTakes
  <2>2. Head(cliInbox) = "received"
    BY <2>1 DEF Received
  <2> QED BY <1>7, <2>1, <2>2 DEF ReaderTakes
<1>8. CASE ReaderWaits \/ ReaderLooks
  BY <1>8 DEF ReaderWaits, ReaderLooks
<1>9. CASE JoinReader \/ CliJoin
  BY <1>9 DEF JoinReader, CliJoin
<1>10. CASE UNCHANGED cliVars
  BY <1>10 DEF cliVars
<1> QED BY <1>1, <1>2, <1>3, <1>4, <1>5, <1>6, <1>7, <1>8, <1>9, <1>10 DEF CliNext

\* The types of the command line client: whatever the three threads do, the
\* shared message is one of the arguments or one that was received.
THEOREM CliTypeCorrect == CliSpec => []CliTypeOK
<1>1. ASSUME CliTyped PROVE CliTypeOK
  <2>1. Range(cliInbox) \subseteq Received
    BY <1>1, QueueTypes DEF CliTyped
  <2> QED BY <1>1, <2>1 DEF CliTyped, CliTypeOK, Received
<1> QED BY CliTypedInit, CliTypedStep, <1>1, PTL DEF CliSpec

-----------------------------------------------------------------------------
(***************************************************************************)
(* The queue bridge: what is published, and what is forwarded.             *)
(***************************************************************************)
\* A set of numbers that is not empty has a least one.
LEMMA LeastPlace ==
  ASSUME NEW S, S \subseteq Nat, S # {}
  PROVE  \E m \in S : \A n \in S : m <= n
  <1> DEFINE R == OpToRel(<, Nat)
  <1>1. IsWellFoundedOn(R, Nat) BY NatLessThanWellFounded
  <1>2. \A x, y \in Nat : x < y => <<x, y>> \in R BY DEF OpToRel
  <1> HIDE DEF R
  <1>3. PICK m \in S : \A n \in S : ~(<<n, m>> \in R) BY <1>1, WFMin
  <1>4. m \in Nat /\ \A n \in S : n \in Nat /\ ~(n < m) BY <1>2, <1>3
  <1> QED BY <1>4

\* What an appended element changes.
LEMMA Appended ==
  ASSUME NEW S, NEW s \in Seq(S), NEW x \in S, NEW r, r = Append(s, x)
  PROVE  /\ r \in Seq(S)
         /\ Len(s) \in Nat /\ Len(r) = Len(s) + 1
         /\ DOMAIN s = 1..Len(s) /\ DOMAIN r = 1..Len(r)
         /\ \A k \in DOMAIN s : k \in DOMAIN r /\ r[k] = s[k] /\ s[k] \in S
         /\ r[Len(r)] = x
         /\ \A k \in DOMAIN r : k \in DOMAIN s \/ k = Len(r)
  <1>1. r \in Seq(S) /\ Len(r) = Len(s) + 1 /\ r[Len(s) + 1] = x
    BY AppendProperties
  <1>2. \A k \in 1..Len(s) : r[k] = s[k] BY AppendProperties
  <1>3. Len(s) \in Nat /\ DOMAIN s = 1..Len(s) /\ DOMAIN r = 1..Len(r)
    BY <1>1, LenProperties
  <1>4. \A k \in 1..Len(s) : s[k] \in S BY ElementOfSeq
  <1>5. \A k \in 1..Len(r) : k \in 1..Len(s) \/ k = Len(r) BY <1>1, <1>3
  <1>6. \A k \in 1..Len(s) : k \in 1..Len(r) BY <1>1, <1>3
  <1> QED BY <1>1, <1>2, <1>3, <1>4, <1>5, <1>6

\* The head is the first element.
LEMMA HeadIsFirst == ASSUME NEW S, NEW s \in Seq(S) PROVE Head(s) = s[1]
  OBVIOUS

\* What the removal of the first element changes.
LEMMA Tailed ==
  ASSUME NEW S, NEW s \in Seq(S), s # <<>>, NEW r, r = Tail(s)
  PROVE  /\ r \in Seq(S)
         /\ Len(s) \in Nat \ {0} /\ Len(r) = Len(s) - 1
         /\ DOMAIN s = 1..Len(s) /\ DOMAIN r = 1..Len(r)
         /\ 1 \in DOMAIN s /\ s[1] = Head(s) /\ Head(s) \in S
         /\ \A k \in DOMAIN r : k + 1 \in DOMAIN s /\ r[k] = s[k + 1]
         /\ \A k \in DOMAIN s : k = 1 \/ (k - 1 \in DOMAIN r /\ r[k - 1] = s[k])
  <1>1. r \in Seq(S) /\ Len(r) = Len(s) - 1 /\ Head(s) \in S
    BY HeadTailProperties
  <1>2. \A k \in 1..Len(r) : r[k] = s[k + 1] BY HeadTailProperties
  <1>3. Len(s) \in Nat \ {0} BY EmptySeq
  <1>4. DOMAIN s = 1..Len(s) /\ DOMAIN r = 1..Len(r) BY <1>1, LenProperties
  <1>5. s[1] = Head(s) BY HeadIsFirst
  <1>6. \A k \in 1..Len(r) : k + 1 \in 1..Len(s) BY <1>1, <1>3
  <1>7. \A k \in 1..Len(s) : k = 1 \/ (k - 1 \in 1..Len(r) /\ r[k - 1] = s[k])
    <2> SUFFICES ASSUME NEW k \in 1..Len(s), k # 1
                 PROVE  k - 1 \in 1..Len(r) /\ r[k - 1] = s[k]
      OBVIOUS
    <2>1. k - 1 \in 1..Len(r) BY <1>1, <1>3
    <2>2. (k - 1) + 1 = k BY <1>3
    <2>3. PICK j \in 1..Len(r) : j = k - 1 BY <2>1
    <2>4. j + 1 = k BY <2>2, <2>3
    <2>5. r[j] = s[j + 1] BY <1>2
    <2> QED BY <2>3, <2>4, <2>5
  <1> QED BY <1>1, <1>2, <1>3, <1>4, <1>5, <1>6, <1>7

\* What the removal of an element changes.
LEMMA Removed ==
  ASSUME NEW S, NEW s \in Seq(S), NEW f \in 1..Len(s), NEW r, r = RemoveAt(s, f)
  PROVE  /\ r \in Seq(S)
         /\ Len(s) \in Nat /\ Len(r) = Len(s) - 1
         /\ DOMAIN s = 1..Len(s) /\ DOMAIN r = 1..Len(r)
         /\ \A k \in DOMAIN r :
              IF k < f THEN k \in DOMAIN s /\ r[k] = s[k]
              ELSE k + 1 \in DOMAIN s /\ r[k] = s[k + 1]
         /\ \A k \in DOMAIN s :
              \/ k < f /\ k \in DOMAIN r /\ r[k] = s[k]
              \/ k = f
              \/ k > f /\ k - 1 \in DOMAIN r /\ r[k - 1] = s[k]
  <1> DEFINE a == SubSeq(s, 1, f - 1)
             b == SubSeq(s, f + 1, Len(s))
  <1>1. Len(s) \in Nat /\ DOMAIN s = 1..Len(s) BY LenProperties
  <1>2. \A i \in 1..Len(s) : s[i] \in S BY ElementOfSeq
  <1>3. a \in Seq(S) /\ Len(a) = f - 1 /\ \A i \in 1..f - 1 : a[i] = s[i]
    <2>1. \A i \in 1..f - 1 : s[i] \in S BY <1>1, <1>2
    <2>2. /\ a \in Seq(S)
          /\ Len(a) = IF 1 <= f - 1 THEN f - 1 - 1 + 1 ELSE 0
          /\ \A i \in 1..f - 1 - 1 + 1 : a[i] = s[1 + i - 1]
      BY <2>1, SubSeqProperties
    <2>3. f - 1 - 1 + 1 = f - 1 BY <1>1
    <2>4. \A i \in 1..f - 1 : 1 + i - 1 = i BY <1>1
    <2> HIDE DEF a
    <2> QED BY <1>1, <2>2, <2>3, <2>4
  <1>4. /\ b \in Seq(S) /\ Len(b) = Len(s) - f
        /\ \A i \in 1..Len(s) - f : b[i] = s[f + i]
    <2>1. \A i \in f + 1..Len(s) : s[i] \in S BY <1>1, <1>2
    <2>2. /\ b \in Seq(S)
          /\ Len(b) = IF f + 1 <= Len(s) THEN Len(s) - (f + 1) + 1 ELSE 0
          /\ \A i \in 1..Len(s) - (f + 1) + 1 : b[i] = s[(f + 1) + i - 1]
      BY <1>1, <2>1, SubSeqProperties
    <2>3. Len(s) - (f + 1) + 1 = Len(s) - f BY <1>1
    <2>4. \A i \in 1..Len(s) - f : (f + 1) + i - 1 = f + i BY <1>1
    <2> HIDE DEF b
    <2>5. ASSUME NEW i \in 1..Len(s) - f PROVE b[i] = s[f + i]
      <3>1. b[i] = s[(f + 1) + i - 1] BY <2>2, <2>3
      <3> QED BY <3>1, <2>4
    <2>6. Len(b) = Len(s) - f
      <3>1. Len(b) = IF f + 1 <= Len(s) THEN Len(s) - f ELSE 0 BY <2>2, <2>3
      <3>2. ~(f + 1 <= Len(s)) => Len(s) - f = 0
        <4>1. Len(s) \in Nat /\ f \in 1..Len(s) BY <1>1
        <4> QED BY <4>1
      <3> QED BY <3>1, <3>2
    <2> QED BY <2>2, <2>5, <2>6
  <1>5. r = a \o b BY DEF RemoveAt
  <1> HIDE DEF a, b
  <1>6. /\ r \in Seq(S) /\ Len(r) = Len(a) + Len(b)
        /\ \A i \in 1..Len(a) + Len(b) :
             r[i] = IF i <= Len(a) THEN a[i] ELSE b[i - Len(a)]
    <2>1. a \in Seq(S) /\ b \in Seq(S) BY <1>3, <1>4
    <2>2. /\ a \o b \in Seq(S) /\ Len(a \o b) = Len(a) + Len(b)
          /\ \A i \in 1..Len(a) + Len(b) :
               (a \o b)[i] = IF i <= Len(a) THEN a[i] ELSE b[i - Len(a)]
      BY <2>1, ConcatProperties, Zenon
    <2> QED BY <2>2, <1>5, Zenon
  <1>7. Len(r) = Len(s) - 1 /\ DOMAIN r = 1..Len(r)
    BY <1>1, <1>3, <1>4, <1>6, LenProperties
  <1>8. \A k \in 1..Len(r) :
          IF k < f THEN k \in 1..Len(s) /\ r[k] = s[k]
          ELSE k + 1 \in 1..Len(s) /\ r[k] = s[k + 1]
    <2> SUFFICES ASSUME NEW k \in 1..Len(r)
                 PROVE  IF k < f THEN k \in 1..Len(s) /\ r[k] = s[k]
                        ELSE k + 1 \in 1..Len(s) /\ r[k] = s[k + 1]
      OBVIOUS
    <2>1. k \in 1..Len(a) + Len(b) BY <1>6
    <2>2. CASE k < f
      <3>1. k <= Len(a) /\ k \in 1..f - 1 /\ k \in 1..Len(s)
        BY <1>1, <1>3, <1>7, <2>2
      <3>2. r[k] = a[k] BY <3>1, <2>1, <1>6
      <3> QED BY <3>1, <3>2, <1>3, <2>2
    <2>3. CASE ~(k < f)
      <3>1. /\ ~(k <= Len(a)) /\ k - Len(a) = k - f + 1
            /\ k - f + 1 \in 1..Len(s) - f /\ f + (k - f + 1) = k + 1
            /\ k + 1 \in 1..Len(s)
        BY <1>1, <1>3, <1>7, <2>3
      <3>2. r[k] = b[k - f + 1] BY <3>1, <2>1, <1>6
      <3>3. PICK j \in 1..Len(s) - f : j = k - f + 1 BY <3>1
      <3>4. b[j] = s[f + j] /\ f + j = k + 1 BY <3>1, <3>3, <1>4
      <3> QED BY <3>1, <3>2, <3>3, <3>4, <2>3
    <2> QED BY <2>2, <2>3
  <1>9. \A k \in 1..Len(s) :
          \/ k < f /\ k \in 1..Len(r) /\ r[k] = s[k]
          \/ k = f
          \/ k > f /\ k - 1 \in 1..Len(r) /\ r[k - 1] = s[k]
    <2> SUFFICES ASSUME NEW k \in 1..Len(s), k # f
                 PROVE  \/ k < f /\ k \in 1..Len(r) /\ r[k] = s[k]
                        \/ k > f /\ k - 1 \in 1..Len(r) /\ r[k - 1] = s[k]
      OBVIOUS
    <2>1. CASE k < f
      <3>1. k \in 1..Len(r) BY <1>1, <1>7, <2>1
      <3> QED BY <3>1, <2>1, <1>8
    <2>2. CASE k > f
      <3>1. k - 1 \in 1..Len(r) /\ ~(k - 1 < f) /\ (k - 1) + 1 = k
        BY <1>1, <1>7, <2>2
      <3>2. PICK j \in 1..Len(r) : j = k - 1 BY <3>1
      <3>3. ~(j < f) /\ j + 1 = k BY <3>1, <3>2
      <3>4. r[j] = s[k] BY <3>3, <1>8
      <3> QED BY <3>1, <3>2, <3>4, <2>2
    <2> QED BY <1>1, <2>1, <2>2
  <1> QED BY <1>1, <1>6, <1>7, <1>8, <1>9

-----------------------------------------------------------------------------
\* Where messages of programs wait in the queue.
Waiting == OfType(TYPE_QUEUE2ROCS)

\* Programs number what they put, and the bus numbers the messages of others
\* by their places.
Numbered ==
  /\ \A n \in DOMAIN puts : puts[n] = [from |-> "bridge", number |-> n]
  /\ \A i \in DOMAIN bus : ~Own(bus[i]) => bus[i].number = i

\* The bus has the first p messages of programs, in order.
InBusUpTo(p) ==
  /\ \A i \in OwnInBus : bus[i].number \in 1..p
  /\ \A i, j \in OwnInBus : i < j => bus[i].number < bus[j].number
  /\ \A n \in 1..p : \E i \in OwnInBus : bus[i].number = n

\* The next ones are on their way to the bus.
OnTheWayFrom(p) ==
  \A k \in DOMAIN toBus : toBus[k] = [from |-> "bridge", number |-> p + k]

\* Those after q wait in the queue, in order; the bridge removes the queue when
\* it ends.
WaitingFrom(q) ==
  /\ q <= Len(puts)
  /\ \A k \in Waiting : /\ Own(sysv[k].message)
                         /\ sysv[k].message.number \in (q + 1)..Len(puts)
  /\ \A k, l \in Waiting :
       k < l => sysv[k].message.number < sysv[l].message.number
  /\ bridgeStep # "ended" =>
       \A n \in (q + 1)..Len(puts) : \E k \in Waiting : sysv[k].message.number = n

\* p messages of programs are on the bus, and the others follow.
Flow(p) == InBusUpTo(p) /\ OnTheWayFrom(p) /\ WaitingFrom(p + Len(toBus))

SomeFlow == \E p \in Nat : Flow(p)

Empty == bridgeStep = "connect" => bus = <<>> /\ toBus = <<>>

FlowInv == BridgeTypeOK /\ Numbered /\ SomeFlow /\ Empty

\* The bridge has taken the messages of the bus in order.
Taken ==
  /\ \A k, l \in DOMAIN forwarded : k < l => Before(forwarded[k], forwarded[l])
  /\ \A k, l \in DOMAIN fromBus : k < l => Before(fromBus[k], fromBus[l])
  /\ \A k \in DOMAIN forwarded, l \in DOMAIN fromBus :
       Before(forwarded[k], fromBus[l])

\* It has m: forwarded, or still to forward.
Has(m) == \/ \E k \in DOMAIN forwarded : forwarded[k] = m
          \/ \E k \in DOMAIN fromBus : fromBus[k] = m

OfTheBus ==
  /\ \A m : Has(m) => \E i \in DOMAIN bus : bus[i] = m
  /\ \A m \in lost : ~Has(m) /\ \E i \in DOMAIN bus : bus[i] = m

NoneLeftOut ==
  /\ \A i, j \in DOMAIN bus : i < j /\ bus[i] \notin lost /\ Has(bus[j]) => Has(bus[i])
  /\ bridgeStep # "ended" => \A i \in DOMAIN bus : bus[i] \notin lost => Has(bus[i])

TakenInv == Taken /\ OfTheBus /\ NoneLeftOut

-----------------------------------------------------------------------------
\* The entries of the queue.
QueueEntries ==
  [type : {TYPE_QUEUE2ROCS, TYPE_ROCS2QUEUE}, message : BridgeMessages]

\* The type of each variable, one by one.
LEMMA BridgeTypes ==
  BridgeTypeOK <=>
    /\ bridgeStep \in {"connect", "init", "messages", "queue", "delay", "ended"}
    /\ fromBus \in Seq(BridgeMessages) /\ toBus \in Seq(BridgeMessages)
    /\ bus \in Seq(BridgeMessages) /\ puts \in Seq(BridgeMessages)
    /\ forwarded \in Seq(BridgeMessages)
    /\ sysv \in Seq(QueueEntries) /\ Len(sysv) <= QueueRoom
    /\ Len(puts) <= MaxPuts
    /\ lost \subseteq BridgeMessages
  BY DEF BridgeTypeOK, QueueEntries

\* The first entry of a type is one of it, and none of it is before.
LEMMA FirstIsFirst ==
  ASSUME NEW t, sysv \in Seq(QueueEntries), OfType(t) # {}
  PROVE  /\ FirstOf(t) \in OfType(t) /\ FirstOf(t) \in DOMAIN sysv
         /\ \A k \in OfType(t) : FirstOf(t) <= k
  <1>1. DOMAIN sysv = 1..Len(sysv) /\ Len(sysv) \in Nat BY LenProperties
  <1>2. OfType(t) \subseteq Nat BY <1>1 DEF OfType
  <1>3. PICK i \in OfType(t) : \A k \in OfType(t) : i <= k
    BY <1>2, LeastPlace
  <1> QED BY <1>3 DEF FirstOf, OfType

\* What the server distributes is of the type.
LEMMA DistributeTyped ==
  ASSUME NEW m \in BridgeMessages, Distribute(m),
         bus \in Seq(BridgeMessages), fromBus \in Seq(BridgeMessages)
  PROVE  bus' \in Seq(BridgeMessages) /\ fromBus' \in Seq(BridgeMessages)
  BY AppendProperties DEF Distribute

\* A step keeps the types.
LEMMA BridgeTypeStep == BridgeTypeOK /\ [BridgeNext]_bridgeVars => BridgeTypeOK'
  <1> SUFFICES ASSUME BridgeTypeOK, [BridgeNext]_bridgeVars PROVE BridgeTypeOK'
    OBVIOUS
  <1> DEFINE T ==
        /\ bridgeStep \in {"connect", "init", "messages", "queue", "delay", "ended"}
        /\ fromBus \in Seq(BridgeMessages) /\ toBus \in Seq(BridgeMessages)
        /\ bus \in Seq(BridgeMessages) /\ puts \in Seq(BridgeMessages)
        /\ forwarded \in Seq(BridgeMessages)
        /\ sysv \in Seq(QueueEntries) /\ Len(sysv) <= QueueRoom
        /\ Len(puts) <= MaxPuts
        /\ lost \subseteq BridgeMessages
  <1>0. T BY BridgeTypes
  <1>a. SUFFICES T'
    BY BridgeTypes, PTL
  <1>1. CASE OtherPublishes
    <2> DEFINE m == [from |-> "other", number |-> Len(bus) + 1]
    <2>1. Len(bus) \in Nat BY <1>0, LenProperties
    <2>2. m \in BridgeMessages BY <2>1 DEF BridgeMessages
    <2>3. Distribute(m) BY <1>1 DEF OtherPublishes
    <2> HIDE DEF m
    <2>4. bus' \in Seq(BridgeMessages) /\ fromBus' \in Seq(BridgeMessages)
      BY <2>2, <2>3, <1>0, DistributeTyped
    <2> QED BY <1>0, <2>4, <1>1 DEF OtherPublishes, bridgeHistory
  <1>2. CASE ServerReads
    <2>1. Head(toBus) \in BridgeMessages /\ toBus' \in Seq(BridgeMessages)
      BY <1>0, <1>2, HeadTailProperties DEF ServerReads
    <2>2. bus' \in Seq(BridgeMessages) /\ fromBus' \in Seq(BridgeMessages)
      BY <2>1, <1>0, <1>2, DistributeTyped DEF ServerReads
    <2> QED BY <1>0, <2>1, <2>2, <1>2 DEF ServerReads, bridgeHistory
  <1>3. CASE ProgramPuts
    <2> DEFINE m == [from |-> "bridge", number |-> Len(puts) + 1]
               e == [type |-> TYPE_QUEUE2ROCS, message |-> m]
    <2>1. Len(puts) \in Nat /\ Len(sysv) \in Nat BY <1>0, LenProperties
    <2>2. m \in BridgeMessages BY <2>1 DEF BridgeMessages
    <2>3. e \in QueueEntries BY <2>2 DEF QueueEntries
    <2>4. sysv' = Append(sysv, e) /\ puts' = Append(puts, m)
      BY <1>3 DEF ProgramPuts
    <2> HIDE DEF m, e
    <2>5. puts' \in Seq(BridgeMessages) /\ Len(puts') = Len(puts) + 1
      BY <1>0, <2>2, <2>4, AppendProperties
    <2>6. sysv' \in Seq(QueueEntries) /\ Len(sysv') = Len(sysv) + 1
      BY <1>0, <2>3, <2>4, AppendProperties
    <2>7. Len(puts) < MaxPuts /\ Len(sysv) < QueueRoom BY <1>3 DEF ProgramPuts
    <2>8. Len(puts') <= MaxPuts /\ Len(sysv') <= QueueRoom
      BY <2>1, <2>5, <2>6, <2>7, QueueAssumption
    <2> QED BY <1>0, <2>5, <2>6, <2>8, <1>3 DEF ProgramPuts
  <1>4. ASSUME NEW t, OfType(t) # {}, sysv' = RemoveAt(sysv, FirstOf(t))
        PROVE  sysv' \in Seq(QueueEntries) /\ Len(sysv') <= QueueRoom
    <2>1. FirstOf(t) \in DOMAIN sysv BY <1>0, <1>4, FirstIsFirst
    <2>2. FirstOf(t) \in 1..Len(sysv) BY <2>1, <1>0, LenProperties
    <2>3. /\ sysv' \in Seq(QueueEntries)
          /\ Len(sysv) \in Nat /\ Len(sysv') = Len(sysv) - 1
      BY <2>2, <1>0, <1>4, Removed
    <2> QED BY <2>3, <1>0, QueueAssumption
  <1>5. CASE ProgramTakes
    BY <1>0, <1>4, <1>5 DEF ProgramTakes, bridgeHistory
  <1>6. CASE Forward
    <2> DEFINE m == Head(fromBus)
               e == [type |-> TYPE_ROCS2QUEUE, message |-> m]
    <2>1. m \in BridgeMessages /\ fromBus' \in Seq(BridgeMessages)
      BY <1>0, <1>6, HeadTailProperties DEF Forward
    <2>2. e \in QueueEntries BY <2>1 DEF QueueEntries
    <2>3. Len(sysv) \in Nat BY <1>0, LenProperties
    <2>4. CASE Len(sysv) < QueueRoom
      <3>1. sysv' = Append(sysv, e) /\ forwarded' = Append(forwarded, m)
            /\ lost' = lost
        BY <1>6, <2>4 DEF Forward
      <3> HIDE DEF m, e
      <3>2. /\ sysv' \in Seq(QueueEntries) /\ Len(sysv') = Len(sysv) + 1
            /\ forwarded' \in Seq(BridgeMessages)
        BY <3>1, <2>1, <2>2, <1>0, AppendProperties
      <3>3. Len(sysv') <= QueueRoom BY <3>2, <2>3, <2>4, QueueAssumption
      <3> QED BY <3>1, <3>2, <3>3, <2>1, <1>0, <1>6 DEF Forward
    <2>5. CASE ~(Len(sysv) < QueueRoom)
      <3>1. sysv' = sysv /\ forwarded' = forwarded /\ lost' = lost \union {m}
        BY <1>6, <2>5 DEF Forward
      <3> QED BY <3>1, <2>1, <1>0, <1>6 DEF Forward
    <2> QED BY <2>4, <2>5
  <1>7. CASE Publish
    <2>1. OfType(TYPE_QUEUE2ROCS) # {}
          /\ sysv' = RemoveAt(sysv, FirstOf(TYPE_QUEUE2ROCS))
      BY <1>7 DEF Publish
    <2>2. sysv' \in Seq(QueueEntries) /\ Len(sysv') <= QueueRoom
      BY <2>1, <1>4
    <2> DEFINE m == sysv[FirstOf(TYPE_QUEUE2ROCS)].message
    <2>3. FirstOf(TYPE_QUEUE2ROCS) \in DOMAIN sysv
      BY <2>1, <1>0, FirstIsFirst
    <2>4. sysv[FirstOf(TYPE_QUEUE2ROCS)] \in QueueEntries
      BY <2>3, <1>0, LenProperties, ElementOfSeq
    <2>5. m \in BridgeMessages BY <2>4 DEF QueueEntries
    <2>6. toBus' = Append(toBus, m) BY <1>7 DEF Publish
    <2> HIDE DEF m
    <2>7. toBus' \in Seq(BridgeMessages)
      BY <2>5, <2>6, <1>0, AppendProperties
    <2> QED BY <2>2, <2>7, <1>0, <1>7 DEF Publish, bridgeHistory
  <1>8. CASE BridgeStops
    <2>1. sysv' = <<>> BY <1>8 DEF BridgeStops
    <2>2. sysv' \in Seq(QueueEntries) /\ Len(sysv') = 0 BY <2>1, EmptySeq
    <2> QED BY <2>2, <1>0, <1>8, QueueAssumption DEF BridgeStops, bridgeHistory
  <1>9. CASE BridgeConnect \/ init_queue \/ NoMoreMessages \/ QueueEmpty
             \/ BridgeTurn \/ UNCHANGED bridgeVars
    BY <1>0, <1>9 DEF BridgeConnect, init_queue, NoMoreMessages, QueueEmpty,
       BridgeTurn, bridgeVars, bridgeHistory
  <1> QED BY <1>1, <1>2, <1>3, <1>5, <1>6, <1>7, <1>8, <1>9 DEF BridgeNext

\* Initially nothing was put, published or forwarded.
LEMMA FlowInit == BridgeInit => FlowInv
  <1> SUFFICES ASSUME BridgeInit PROVE FlowInv
    OBVIOUS
  <1> USE DEF BridgeInit
  <1>1. <<>> \in Seq(BridgeMessages) /\ <<>> \in Seq(QueueEntries) /\ Len(<<>>) = 0
        /\ DOMAIN <<>> = {}
    BY EmptySeq
  <1>2. BridgeTypeOK BY <1>1, BridgeTypes, QueueAssumption
  <1>3. Numbered BY <1>1 DEF Numbered
  <1>4. OwnInBus = {} /\ Waiting = {} /\ Len(puts) = 0 /\ Len(toBus) = 0
    BY <1>1 DEF OwnInBus, Waiting, OfType
  <1>5. Flow(0)
    <2>1. InBusUpTo(0) BY <1>4 DEF InBusUpTo
    <2>2. OnTheWayFrom(0) BY <1>1 DEF OnTheWayFrom
    <2>3. WaitingFrom(0) BY <1>4 DEF WaitingFrom
    <2>4. 0 + Len(toBus) = 0 BY <1>4
    <2> QED BY <2>1, <2>2, <2>3, <2>4 DEF Flow
  <1> QED BY <1>2, <1>3, <1>5 DEF FlowInv, SomeFlow, Empty

\* The bus and its messages of programs after one more.
LEMMA BusGrown ==
  ASSUME bus \in Seq(BridgeMessages), NEW m \in BridgeMessages, Distribute(m)
  PROVE  /\ Len(bus) \in Nat /\ Len(bus') = Len(bus) + 1
         /\ DOMAIN bus = 1..Len(bus) /\ DOMAIN bus' = 1..Len(bus')
         /\ \A i \in DOMAIN bus : i \in DOMAIN bus' /\ bus'[i] = bus[i]
         /\ bus'[Len(bus')] = m
         /\ \A i \in DOMAIN bus' : i \in DOMAIN bus \/ i = Len(bus')
         /\ \A i \in OwnInBus : i \in OwnInBus' /\ i < Len(bus')
         /\ Own(m) => Len(bus') \in OwnInBus'
         /\ \A i \in OwnInBus' : i \in OwnInBus \/ (i = Len(bus') /\ Own(m))
  <1>1. bus' = Append(bus, m) BY DEF Distribute
  <1>2. /\ Len(bus) \in Nat /\ Len(bus') = Len(bus) + 1
        /\ DOMAIN bus = 1..Len(bus) /\ DOMAIN bus' = 1..Len(bus')
        /\ \A i \in DOMAIN bus : i \in DOMAIN bus' /\ bus'[i] = bus[i]
        /\ bus'[Len(bus')] = m
        /\ \A i \in DOMAIN bus' : i \in DOMAIN bus \/ i = Len(bus')
    BY <1>1, Appended
  <1>3. OwnInBus \subseteq DOMAIN bus /\ \A i \in DOMAIN bus : i < Len(bus')
    BY <1>2 DEF OwnInBus
  <1>4. \A i \in DOMAIN bus : i \in OwnInBus <=> i \in OwnInBus'
    BY <1>2 DEF OwnInBus, Own
  <1>5. Len(bus') \in DOMAIN bus' BY <1>2
  <1>6. Own(m) <=> Len(bus') \in OwnInBus'
    BY <1>2, <1>5 DEF OwnInBus, Own
  <1>7. OwnInBus' \subseteq DOMAIN bus' BY DEF OwnInBus
  <1> QED BY <1>2, <1>3, <1>4, <1>6, <1>7

\* A message of another component is not of programs.
LEMMA OtherFlow ==
  ASSUME BridgeTypeOK, Numbered, SomeFlow, OtherPublishes
  PROVE  Numbered' /\ SomeFlow'
  <1> DEFINE m == [from |-> "other", number |-> Len(bus) + 1]
  <1>1. bus \in Seq(BridgeMessages) BY BridgeTypes
  <1>2. Len(bus) \in Nat BY <1>1, LenProperties
  <1>3. m \in BridgeMessages /\ ~Own(m) /\ m.number = Len(bus) + 1
    BY <1>2 DEF BridgeMessages, Own
  <1>4. Distribute(m) BY DEF OtherPublishes
  <1> HIDE DEF m
  <1>5. /\ Len(bus') = Len(bus) + 1
        /\ \A i \in DOMAIN bus : i \in DOMAIN bus' /\ bus'[i] = bus[i]
        /\ bus'[Len(bus')] = m
        /\ \A i \in DOMAIN bus' : i \in DOMAIN bus \/ i = Len(bus')
        /\ \A i \in OwnInBus : i \in OwnInBus'
        /\ \A i \in OwnInBus' : i \in OwnInBus
    BY <1>1, <1>3, <1>4, BusGrown
  <1>6. OwnInBus' = OwnInBus /\ \A i \in OwnInBus : bus'[i] = bus[i]
    BY <1>5 DEF OwnInBus
  <1>7. puts' = puts /\ toBus' = toBus /\ sysv' = sysv /\ bridgeStep' = bridgeStep
    BY DEF OtherPublishes, bridgeHistory
  <1>8. Numbered'
    <2>1. \A i \in DOMAIN bus' : ~Own(bus'[i]) => bus'[i].number = i
      BY <1>3, <1>5 DEF Numbered
    <2> QED BY <2>1, <1>7 DEF Numbered, Own
  <1>9. PICK p \in Nat : Flow(p) BY DEF SomeFlow
  <1>10. InBusUpTo(p)' BY <1>6, <1>9 DEF Flow, InBusUpTo
  <1>11. OnTheWayFrom(p)' BY <1>7, <1>9 DEF Flow, OnTheWayFrom
  <1>12. WaitingFrom(p + Len(toBus))'
    BY <1>7, <1>9 DEF Flow, WaitingFrom, Waiting, OfType, Own
  <1> QED BY <1>8, <1>10, <1>11, <1>12 DEF SomeFlow, Flow

\* The server takes the next message of programs.
LEMMA ServerFlow ==
  ASSUME BridgeTypeOK, Numbered, SomeFlow, ServerReads
  PROVE  Numbered' /\ SomeFlow'
  <1>1. bus \in Seq(BridgeMessages) /\ toBus \in Seq(BridgeMessages)
    BY BridgeTypes
  <1> DEFINE m == Head(toBus)
  <1>2. toBus # <<>> /\ toBus' = Tail(toBus) /\ Distribute(m)
    BY DEF ServerReads
  <1>3. /\ Len(toBus) \in Nat \ {0} /\ Len(toBus') = Len(toBus) - 1
        /\ 1 \in DOMAIN toBus /\ toBus[1] = m /\ m \in BridgeMessages
        /\ DOMAIN toBus' = 1..Len(toBus')
        /\ \A k \in DOMAIN toBus' : k + 1 \in DOMAIN toBus
                                    /\ toBus'[k] = toBus[k + 1]
    BY <1>1, <1>2, Tailed
  <1>4. PICK p \in Nat : Flow(p) BY DEF SomeFlow
  <1>5. m.from = "bridge" /\ m.number = p + 1
    BY <1>3, <1>4 DEF Flow, OnTheWayFrom
  <1>6. Own(m) BY <1>5 DEF Own
  <1> HIDE DEF m
  <1>7. /\ Len(bus) \in Nat /\ Len(bus') = Len(bus) + 1
        /\ \A i \in DOMAIN bus : i \in DOMAIN bus' /\ bus'[i] = bus[i]
        /\ bus'[Len(bus')] = m
        /\ \A i \in DOMAIN bus' : i \in DOMAIN bus \/ i = Len(bus')
        /\ \A i \in OwnInBus : i \in OwnInBus' /\ i < Len(bus')
        /\ Len(bus') \in OwnInBus'
        /\ \A i \in OwnInBus' : i \in OwnInBus \/ i = Len(bus')
    BY <1>1, <1>2, <1>3, <1>6, BusGrown
  <1>8. puts' = puts /\ sysv' = sysv /\ bridgeStep' = bridgeStep
    BY DEF ServerReads, bridgeHistory
  <1>9. \A i \in OwnInBus : bus'[i] = bus[i] BY <1>7 DEF OwnInBus
  <1>10. Numbered'
    <2>1. \A i \in DOMAIN bus' : ~Own(bus'[i]) => bus'[i].number = i
      BY <1>6, <1>7 DEF Numbered
    <2> QED BY <2>1, <1>8 DEF Numbered, Own
  <1>11. InBusUpTo(p + 1)'
    <2>1. \A i \in OwnInBus : bus[i].number \in 1..p
      BY <1>4 DEF Flow, InBusUpTo
    <2>2. \A i \in OwnInBus' : bus'[i].number \in 1..(p + 1)
      BY <2>1, <1>5, <1>7, <1>9
    <2>3. ASSUME NEW i \in OwnInBus', NEW j \in OwnInBus', i < j
          PROVE  bus'[i].number < bus'[j].number
      <3>1. CASE j \in OwnInBus
        <4>1. i \in OwnInBus
          <5>1. j < Len(bus') /\ i \in Nat /\ j \in Nat
            BY <3>1, <1>7, LenProperties, <1>1 DEF OwnInBus
          <5> QED BY <5>1, <2>3, <1>7
        <4> QED BY <4>1, <3>1, <2>3, <1>4, <1>9 DEF Flow, InBusUpTo
      <3>2. CASE j = Len(bus')
        <4>1. i \in OwnInBus BY <3>2, <2>3, <1>7
        <4>2. bus'[i].number \in 1..p /\ bus'[j].number = p + 1
          BY <4>1, <3>2, <2>1, <1>5, <1>7, <1>9
        <4> QED BY <4>2
      <3> QED BY <3>1, <3>2, <1>7
    <2>4. ASSUME NEW n \in 1..(p + 1)
          PROVE  \E i \in OwnInBus' : bus'[i].number = n
      <3>1. CASE n \in 1..p
        <4>1. PICK i \in OwnInBus : bus[i].number = n
          BY <3>1, <1>4 DEF Flow, InBusUpTo
        <4> QED BY <4>1, <1>7, <1>9
      <3>2. CASE n = p + 1 BY <3>2, <1>5, <1>7
      <3> QED BY <3>1, <3>2
    <2> QED BY <2>2, <2>3, <2>4 DEF InBusUpTo
  <1>12. OnTheWayFrom(p + 1)'
    <2>1. ASSUME NEW k \in DOMAIN toBus'
          PROVE  toBus'[k] = [from |-> "bridge", number |-> (p + 1) + k]
      <3>1. PICK l \in DOMAIN toBus : l = k + 1 /\ toBus'[k] = toBus[l] BY <1>3
      <3>2. toBus[l] = [from |-> "bridge", number |-> p + l]
        BY <1>4 DEF Flow, OnTheWayFrom
      <3>3. p + l = (p + 1) + k BY <3>1, <1>3
      <3> QED BY <3>1, <3>2, <3>3
    <2> QED BY <2>1 DEF OnTheWayFrom
  <1>13. WaitingFrom((p + 1) + Len(toBus))'
    <2>1. (p + 1) + Len(toBus') = p + Len(toBus) BY <1>3
    <2>2. WaitingFrom(p + Len(toBus)) BY <1>4 DEF Flow
    <2> DEFINE q == p + Len(toBus)
    <2> HIDE DEF q
    <2>3. WaitingFrom(q) /\ (p + 1) + Len(toBus') = q BY <2>1, <2>2 DEF q
    <2> QED BY <2>3, <1>8 DEF WaitingFrom, Waiting, OfType, Own
  <1> QED BY <1>10, <1>11, <1>12, <1>13 DEF SomeFlow, Flow

\* A program puts the next message behind the others.
LEMMA PutFlow ==
  ASSUME BridgeTypeOK, Numbered, SomeFlow, ProgramPuts
  PROVE  Numbered' /\ SomeFlow'
  <1> DEFINE m == [from |-> "bridge", number |-> Len(puts) + 1]
             e == [type |-> TYPE_QUEUE2ROCS, message |-> m]
  <1>1. puts \in Seq(BridgeMessages) /\ sysv \in Seq(QueueEntries)
        /\ toBus \in Seq(BridgeMessages)
    BY BridgeTypes
  <1>2. Len(puts) \in Nat /\ Len(toBus) \in Nat BY <1>1, LenProperties
  <1>3. m \in BridgeMessages /\ e \in QueueEntries
        /\ e.type = TYPE_QUEUE2ROCS /\ e.message = m /\ Own(m)
        /\ m.number = Len(puts) + 1
    BY <1>2 DEF BridgeMessages, QueueEntries, Own
  <1>4. sysv' = Append(sysv, e) /\ puts' = Append(puts, m)
        /\ bridgeStep # "ended"
    BY DEF ProgramPuts
  <1>5. m = [from |-> "bridge", number |-> Len(puts) + 1] OBVIOUS
  <1> HIDE DEF m, e
  <1>6. /\ Len(puts') = Len(puts) + 1
        /\ \A k \in DOMAIN puts : puts'[k] = puts[k]
        /\ puts'[Len(puts')] = m
        /\ \A k \in DOMAIN puts' : k \in DOMAIN puts \/ k = Len(puts')
    BY <1>1, <1>3, <1>4, Appended
  <1>7. /\ Len(sysv) \in Nat /\ Len(sysv') = Len(sysv) + 1
        /\ DOMAIN sysv = 1..Len(sysv) /\ DOMAIN sysv' = 1..Len(sysv')
        /\ \A k \in DOMAIN sysv : k \in DOMAIN sysv' /\ sysv'[k] = sysv[k]
        /\ sysv'[Len(sysv')] = e
        /\ \A k \in DOMAIN sysv' : k \in DOMAIN sysv \/ k = Len(sysv')
    BY <1>1, <1>3, <1>4, Appended
  <1>8. bus' = bus /\ toBus' = toBus /\ bridgeStep' = bridgeStep
    BY DEF ProgramPuts
  <1>9. Numbered'
    <2>1. \A n \in DOMAIN puts' : puts'[n] = [from |-> "bridge", number |-> n]
      BY <1>5, <1>6 DEF Numbered
    <2> QED BY <2>1, <1>8 DEF Numbered, Own
  <1>10. PICK p \in Nat : Flow(p) BY DEF SomeFlow
  <1>11. InBusUpTo(p)' BY <1>8, <1>10 DEF Flow, InBusUpTo, OwnInBus, Own
  <1>12. OnTheWayFrom(p)' BY <1>8, <1>10 DEF Flow, OnTheWayFrom
  <1>13. PICK q \in Nat : q = p + Len(toBus) /\ WaitingFrom(q)
    BY <1>2, <1>10 DEF Flow
  <1>14. q = p + Len(toBus') BY <1>8, <1>13
  <1> DEFINE s == Len(sysv')
  <1>15. /\ Waiting \subseteq DOMAIN sysv /\ \A k \in Waiting : k < s
         /\ \A k \in Waiting : k \in Waiting' /\ sysv'[k] = sysv[k]
         /\ s \in Waiting' /\ sysv'[s].message = m
         /\ \A k \in Waiting' : k \in Waiting \/ k = s
    <2>1. Waiting \subseteq DOMAIN sysv /\ Waiting' \subseteq DOMAIN sysv'
      BY DEF Waiting, OfType
    <2>2. \A k \in DOMAIN sysv : k \in Waiting <=> k \in Waiting'
      BY <1>7 DEF Waiting, OfType
    <2>3. s \in DOMAIN sysv' /\ sysv'[s] = e /\ \A k \in DOMAIN sysv : k < s
      BY <1>7
    <2>4. s \in Waiting' BY <2>3, <1>3 DEF Waiting, OfType
    <2> QED BY <1>3, <1>7, <2>1, <2>2, <2>3, <2>4
  <1>18. s \in Nat BY <1>7
  <1> HIDE DEF s
  <1>16. WaitingFrom(q)'
    <2>1. q <= Len(puts') BY <1>2, <1>6, <1>13 DEF WaitingFrom
    <2>2. \A k \in Waiting : /\ Own(sysv[k].message)
                             /\ sysv[k].message.number \in (q + 1)..Len(puts)
      BY <1>13 DEF WaitingFrom
    <2>3. \A k \in Waiting' : /\ Own(sysv'[k].message)
                              /\ sysv'[k].message.number \in (q + 1)..Len(puts')
      <3>1. Len(puts) + 1 \in (q + 1)..Len(puts')
        BY <1>2, <1>6, <1>13 DEF WaitingFrom
      <3>2. (q + 1)..Len(puts) \subseteq (q + 1)..Len(puts')
        BY <1>2, <1>6, <1>13
      <3> QED BY <3>1, <3>2, <2>2, <1>3, <1>15
    <2>4. ASSUME NEW k \in Waiting', NEW l \in Waiting', k < l
          PROVE  sysv'[k].message.number < sysv'[l].message.number
      <3>1. CASE l \in Waiting
        <4>1. k \in Waiting
          <5>1. l < s /\ k \in Nat /\ l \in Nat
            BY <3>1, <1>7, <1>15 DEF Waiting, OfType
          <5> QED BY <5>1, <2>4, <1>15
        <4> QED BY <4>1, <3>1, <2>4, <1>13, <1>15 DEF WaitingFrom
      <3>2. CASE l = s
        <4>1. k \in Waiting BY <3>2, <2>4, <1>15, <1>18
        <4>2. sysv'[k].message.number \in (q + 1)..Len(puts)
              /\ sysv'[l].message.number = Len(puts) + 1
          BY <4>1, <3>2, <2>2, <1>3, <1>15
        <4> QED BY <4>2, <1>2, <1>13
      <3> QED BY <3>1, <3>2, <1>15
    <2>5. ASSUME NEW n \in (q + 1)..Len(puts')
          PROVE  \E k \in Waiting' : sysv'[k].message.number = n
      <3>1. CASE n \in (q + 1)..Len(puts)
        <4>1. PICK k \in Waiting : sysv[k].message.number = n
          BY <3>1, <1>4, <1>13 DEF WaitingFrom
        <4> QED BY <4>1, <1>15
      <3>2. CASE n = Len(puts) + 1 BY <3>2, <1>3, <1>15
      <3> QED BY <3>1, <3>2, <1>2, <1>6, <1>13
    <2> QED BY <2>1, <2>3, <2>4, <2>5 DEF WaitingFrom, Own
  <1>17. WaitingFrom(p + Len(toBus))'
    <2>1. (p + Len(toBus))' = q BY <1>14
    <2> QED BY <2>1, <1>16
  <1> QED BY <1>9, <1>11, <1>12, <1>17 DEF SomeFlow, Flow

\* What waits after an entry was taken out of the queue: the others, in their
\* order.
LEMMA TakenOut ==
  ASSUME sysv \in Seq(QueueEntries), NEW f \in DOMAIN sysv,
         sysv' = RemoveAt(sysv, f)
  PROVE  /\ \A k \in Waiting' : \E l \in Waiting \ {f} :
              sysv'[k] = sysv[l] /\ l = IF k < f THEN k ELSE k + 1
         /\ \A l \in Waiting \ {f} : \E k \in Waiting' : sysv'[k] = sysv[l]
         /\ Waiting' \subseteq Nat
  <1>1. f \in 1..Len(sysv) BY LenProperties
  <1>2. /\ Len(sysv) \in Nat
        /\ DOMAIN sysv = 1..Len(sysv) /\ DOMAIN sysv' = 1..Len(sysv')
        /\ \A k \in DOMAIN sysv' :
             IF k < f THEN k \in DOMAIN sysv /\ sysv'[k] = sysv[k]
             ELSE k + 1 \in DOMAIN sysv /\ sysv'[k] = sysv[k + 1]
        /\ \A k \in DOMAIN sysv :
             \/ k < f /\ k \in DOMAIN sysv' /\ sysv'[k] = sysv[k]
             \/ k = f
             \/ k > f /\ k - 1 \in DOMAIN sysv' /\ sysv'[k - 1] = sysv[k]
    BY <1>1, Removed
  <1>3. ASSUME NEW k \in Waiting'
        PROVE  \E l \in Waiting \ {f} :
                 sysv'[k] = sysv[l] /\ l = IF k < f THEN k ELSE k + 1
    <2>1. k \in DOMAIN sysv' /\ sysv'[k].type = TYPE_QUEUE2ROCS
      BY DEF Waiting, OfType
    <2>4. k \in Nat /\ f \in Nat BY <2>1, <1>1, <1>2
    <2>2. CASE k < f
      <3>1. k \in DOMAIN sysv /\ sysv'[k] = sysv[k] BY <2>1, <2>2, <1>2
      <3>2. k \in Waiting BY <2>1, <3>1 DEF Waiting, OfType
      <3>3. k # f BY <2>2, <2>4
      <3> QED BY <3>1, <3>2, <3>3, <2>2
    <2>3. CASE ~(k < f)
      <3>1. k + 1 \in DOMAIN sysv /\ sysv'[k] = sysv[k + 1] BY <2>1, <2>3, <1>2
      <3>2. k + 1 # f BY <2>4, <2>3
      <3>3. k + 1 \in Waiting BY <2>1, <3>1 DEF Waiting, OfType
      <3> QED BY <3>1, <3>2, <3>3, <2>3
    <2> QED BY <2>2, <2>3
  <1>4. ASSUME NEW l \in Waiting \ {f}
        PROVE  \E k \in Waiting' : sysv'[k] = sysv[l]
    <2>1. l \in DOMAIN sysv /\ sysv[l].type = TYPE_QUEUE2ROCS
      BY DEF Waiting, OfType
    <2>3. l # f OBVIOUS
    <2>2. PICK k \in DOMAIN sysv' : sysv'[k] = sysv[l] BY <2>1, <2>3, <1>2
    <2> QED BY <2>1, <2>2 DEF Waiting, OfType
  <1>5. Waiting' \subseteq Nat
    <2>1. DOMAIN sysv' \subseteq Nat BY <1>2
    <2> QED BY <2>1 DEF Waiting, OfType
  <1> QED BY <1>3, <1>4, <1>5

\* The programs' messages that wait stay in order when one of them, or one of
\* the bus, is taken out.
LEMMA TakenOutInOrder ==
  ASSUME sysv \in Seq(QueueEntries), NEW f \in DOMAIN sysv,
         sysv' = RemoveAt(sysv, f), NEW q \in Nat, WaitingFrom(q)
  PROVE  \A k, l \in Waiting' :
           k < l => sysv'[k].message.number < sysv'[l].message.number
  <1> SUFFICES ASSUME NEW k \in Waiting', NEW l \in Waiting', k < l
               PROVE  sysv'[k].message.number < sysv'[l].message.number
    OBVIOUS
  <1>1. PICK x \in Waiting \ {f} :
          sysv'[k] = sysv[x] /\ x = IF k < f THEN k ELSE k + 1
    BY TakenOut
  <1>2. PICK y \in Waiting \ {f} :
          sysv'[l] = sysv[y] /\ y = IF l < f THEN l ELSE l + 1
    BY TakenOut
  <1>3. k \in Nat /\ l \in Nat /\ f \in Nat BY TakenOut, LenProperties
  <1>4. x < y BY <1>1, <1>2, <1>3
  <1> QED BY <1>1, <1>2, <1>4 DEF WaitingFrom

\* A program takes a message of the bus: none of its own.
LEMMA TakeFlow ==
  ASSUME BridgeTypeOK, Numbered, SomeFlow, ProgramTakes
  PROVE  Numbered' /\ SomeFlow'
  <1>1. sysv \in Seq(QueueEntries) /\ toBus \in Seq(BridgeMessages)
    BY BridgeTypes
  <1> DEFINE f == FirstOf(TYPE_ROCS2QUEUE)
  <1>2. OfType(TYPE_ROCS2QUEUE) # {} /\ sysv' = RemoveAt(sysv, f)
    BY DEF ProgramTakes
  <1>3. f \in OfType(TYPE_ROCS2QUEUE) /\ f \in DOMAIN sysv
    BY <1>1, <1>2, FirstIsFirst
  <1>4. f \notin Waiting
    BY <1>3 DEF Waiting, OfType, TYPE_QUEUE2ROCS, TYPE_ROCS2QUEUE
  <1> HIDE DEF f
  <1>5. bus' = bus /\ toBus' = toBus /\ puts' = puts /\ bridgeStep' = bridgeStep
    BY DEF ProgramTakes, bridgeHistory
  <1>6. Numbered' BY <1>5 DEF Numbered, Own
  <1>7. PICK p \in Nat : Flow(p) BY DEF SomeFlow
  <1>8. InBusUpTo(p)' BY <1>5, <1>7 DEF Flow, InBusUpTo, OwnInBus, Own
  <1>9. OnTheWayFrom(p)' BY <1>5, <1>7 DEF Flow, OnTheWayFrom
  <1>10. PICK q \in Nat : q = p + Len(toBus) /\ WaitingFrom(q)
    BY <1>1, <1>7, LenProperties DEF Flow
  <1>11. /\ \A k \in Waiting' : \E l \in Waiting : sysv'[k] = sysv[l]
         /\ \A l \in Waiting : \E k \in Waiting' : sysv'[k] = sysv[l]
    BY <1>1, <1>2, <1>3, <1>4, TakenOut
  <1>12. WaitingFrom(q)'
    <2>1. \A k \in Waiting' : /\ Own(sysv'[k].message)
                              /\ sysv'[k].message.number \in (q + 1)..Len(puts')
      BY <1>5, <1>10, <1>11 DEF WaitingFrom
    <2>2. \A k, l \in Waiting' :
            k < l => sysv'[k].message.number < sysv'[l].message.number
      BY <1>1, <1>2, <1>3, <1>10, TakenOutInOrder
    <2>3. bridgeStep' # "ended" =>
            \A n \in (q + 1)..Len(puts') :
              \E k \in Waiting' : sysv'[k].message.number = n
      BY <1>5, <1>10, <1>11 DEF WaitingFrom
    <2> QED BY <2>1, <2>2, <2>3, <1>5, <1>10 DEF WaitingFrom, Own
  <1>13. WaitingFrom(p + Len(toBus))' BY <1>5, <1>10, <1>12
  <1> QED BY <1>6, <1>8, <1>9, <1>13 DEF SomeFlow, Flow

\* What is forwarded has the other type.
LEMMA ForwardFlow ==
  ASSUME BridgeTypeOK, Numbered, SomeFlow, Forward
  PROVE  Numbered' /\ SomeFlow'
  <1>1. /\ sysv \in Seq(QueueEntries) /\ toBus \in Seq(BridgeMessages)
        /\ fromBus \in Seq(BridgeMessages)
    BY BridgeTypes
  <1> DEFINE e == [type |-> TYPE_ROCS2QUEUE, message |-> Head(fromBus)]
  <1>2. e \in QueueEntries
    <2>1. Head(fromBus) \in BridgeMessages
      BY <1>1, HeadTailProperties DEF Forward
    <2> QED BY <2>1 DEF QueueEntries
  <1>3. e.type # TYPE_QUEUE2ROCS BY DEF TYPE_QUEUE2ROCS, TYPE_ROCS2QUEUE
  <1>4. sysv' = Append(sysv, e) \/ sysv' = sysv BY DEF Forward
  <1> HIDE DEF e
  <1>5. Waiting' = Waiting /\ \A k \in Waiting : sysv'[k] = sysv[k]
    <2>1. CASE sysv' = Append(sysv, e)
      <3>1. /\ \A k \in DOMAIN sysv : k \in DOMAIN sysv' /\ sysv'[k] = sysv[k]
            /\ sysv'[Len(sysv')] = e
            /\ \A k \in DOMAIN sysv' : k \in DOMAIN sysv \/ k = Len(sysv')
        BY <1>1, <1>2, <2>1, Appended
      <3> QED BY <3>1, <1>3 DEF Waiting, OfType
    <2>2. CASE sysv' = sysv BY <2>2 DEF Waiting, OfType
    <2> QED BY <1>4, <2>1, <2>2
  <1>6. bus' = bus /\ toBus' = toBus /\ puts' = puts /\ bridgeStep' = bridgeStep
    BY DEF Forward
  <1>7. Numbered' BY <1>6 DEF Numbered, Own
  <1>8. PICK p \in Nat : Flow(p) BY DEF SomeFlow
  <1>9. InBusUpTo(p)' BY <1>6, <1>8 DEF Flow, InBusUpTo, OwnInBus, Own
  <1>10. OnTheWayFrom(p)' BY <1>6, <1>8 DEF Flow, OnTheWayFrom
  <1>11. PICK q \in Nat : q = p + Len(toBus) /\ WaitingFrom(q)
    BY <1>1, <1>8, LenProperties DEF Flow
  <1>12. WaitingFrom(q)' BY <1>5, <1>6, <1>11 DEF WaitingFrom, Own
  <1>13. WaitingFrom(p + Len(toBus))' BY <1>6, <1>11, <1>12
  <1> QED BY <1>7, <1>9, <1>10, <1>13 DEF SomeFlow, Flow

\* The bridge publishes the first message of programs, which is the next one.
LEMMA PublishFlow ==
  ASSUME BridgeTypeOK, Numbered, SomeFlow, Publish
  PROVE  Numbered' /\ SomeFlow'
  <1>1. /\ sysv \in Seq(QueueEntries) /\ toBus \in Seq(BridgeMessages)
        /\ puts \in Seq(BridgeMessages)
    BY BridgeTypes
  <1> DEFINE f == FirstOf(TYPE_QUEUE2ROCS)
             m == sysv[f].message
  <1>2. /\ Waiting # {} /\ sysv' = RemoveAt(sysv, f) /\ toBus' = Append(toBus, m)
        /\ bridgeStep = "queue"
    BY DEF Publish, Waiting
  <1>3. f \in Waiting /\ f \in DOMAIN sysv /\ \A k \in Waiting : f <= k
    BY <1>1, <1>2, FirstIsFirst DEF Waiting
  <1>4. sysv[f] \in QueueEntries BY <1>1, <1>3, LenProperties, ElementOfSeq
  <1>5. m \in BridgeMessages BY <1>4 DEF QueueEntries
  <1> HIDE DEF f
  <1>6. bus' = bus /\ puts' = puts /\ bridgeStep' = bridgeStep
    BY DEF Publish, bridgeHistory
  <1>7. Numbered' BY <1>6 DEF Numbered, Own
  <1>8. PICK p \in Nat : Flow(p) BY DEF SomeFlow
  <1>9. InBusUpTo(p)' BY <1>6, <1>8 DEF Flow, InBusUpTo, OwnInBus, Own
  <1>10. PICK q \in Nat : q = p + Len(toBus) /\ WaitingFrom(q)
    BY <1>1, <1>8, LenProperties DEF Flow
  <1>11. Waiting \subseteq Nat /\ Len(puts) \in Nat
    <2>1. DOMAIN sysv \subseteq Nat BY <1>1, LenProperties
    <2> QED BY <2>1, <1>1, LenProperties DEF Waiting, OfType
  <1>12. m.number = q + 1 /\ m.from = "bridge" /\ q + 1 \in (q + 1)..Len(puts)
    <2>1. m.number \in (q + 1)..Len(puts) /\ Own(m)
      BY <1>3, <1>10 DEF WaitingFrom
    <2>2. q + 1 \in (q + 1)..Len(puts) BY <2>1, <1>11
    <2>3. PICK k \in Waiting : sysv[k].message.number = q + 1
      BY <2>2, <1>2, <1>10 DEF WaitingFrom
    <2>4. k = f
      <3>1. SUFFICES ASSUME f < k PROVE FALSE
        BY <1>3, <1>11
      <3>2. m.number < q + 1 BY <3>1, <2>3, <1>3, <1>10 DEF WaitingFrom
      <3> QED BY <3>2, <2>1, <1>11
    <2> QED BY <2>1, <2>2, <2>3, <2>4 DEF Own
  <1>13. m = [from |-> "bridge", number |-> q + 1]
    BY <1>5, <1>12 DEF BridgeMessages
  <1>14. \A k \in Waiting \ {f} : sysv[k].message.number \in (q + 2)..Len(puts)
    <2> SUFFICES ASSUME NEW k \in Waiting \ {f}
                 PROVE  sysv[k].message.number \in (q + 2)..Len(puts)
      OBVIOUS
    <2>1. f < k BY <1>3, <1>11
    <2>2. sysv[f].message.number < sysv[k].message.number
      BY <2>1, <1>3, <1>10 DEF WaitingFrom
    <2>3. sysv[k].message.number \in (q + 1)..Len(puts)
      BY <1>10 DEF WaitingFrom
    <2> QED BY <2>2, <2>3, <1>11, <1>12
  <1> HIDE DEF m
  <1>15. /\ Len(toBus) \in Nat /\ Len(toBus') = Len(toBus) + 1
         /\ \A k \in DOMAIN toBus : toBus'[k] = toBus[k]
         /\ toBus'[Len(toBus')] = m
         /\ \A k \in DOMAIN toBus' : k \in DOMAIN toBus \/ k = Len(toBus')
    BY <1>1, <1>2, <1>5, Appended
  <1>16. OnTheWayFrom(p)'
    <2>1. \A k \in DOMAIN toBus :
            toBus'[k] = [from |-> "bridge", number |-> p + k]
      BY <1>8, <1>15 DEF Flow, OnTheWayFrom
    <2>2. p + Len(toBus') = q + 1 BY <1>10, <1>15
    <2> QED BY <2>1, <2>2, <1>13, <1>15 DEF OnTheWayFrom
  <1>17. /\ \A k \in Waiting' : \E l \in Waiting \ {f} : sysv'[k] = sysv[l]
         /\ \A l \in Waiting \ {f} : \E k \in Waiting' : sysv'[k] = sysv[l]
    BY <1>1, <1>2, <1>3, TakenOut
  <1>18. PICK r \in Nat : r = q + 1 OBVIOUS
  <1>19. WaitingFrom(r)'
    <2>1. r <= Len(puts') BY <1>6, <1>11, <1>12, <1>18
    <2>2. \A k \in Waiting' : /\ Own(sysv'[k].message)
                              /\ sysv'[k].message.number \in (r + 1)..Len(puts')
      <3>1. r + 1 = q + 2 BY <1>18
      <3> QED BY <3>1, <1>6, <1>10, <1>14, <1>17 DEF WaitingFrom
    <2>3. \A k, l \in Waiting' :
            k < l => sysv'[k].message.number < sysv'[l].message.number
      BY <1>1, <1>2, <1>3, <1>10, TakenOutInOrder
    <2>4. ASSUME NEW n \in (r + 1)..Len(puts')
          PROVE  \E k \in Waiting' : sysv'[k].message.number = n
      <3>1. n \in (q + 1)..Len(puts) /\ n # q + 1 BY <1>6, <1>11, <1>18
      <3>2. PICK k \in Waiting : sysv[k].message.number = n
        BY <3>1, <1>2, <1>10 DEF WaitingFrom
      <3>3. k # f BY <3>1, <3>2, <1>12 DEF m
      <3> QED BY <3>2, <3>3, <1>17
    <2> QED BY <2>1, <2>2, <2>3, <2>4 DEF WaitingFrom, Own
  <1>20. p + Len(toBus') = r BY <1>10, <1>15, <1>18
  <1>21. WaitingFrom(p + Len(toBus))' BY <1>19, <1>20
  <1> QED BY <1>7, <1>9, <1>16, <1>21 DEF SomeFlow, Flow

\* A step that leaves the messages alone, or ends the bridge, keeps the flow.
LEMMA StillFlow ==
  ASSUME BridgeTypeOK, Numbered, SomeFlow,
         UNCHANGED <<toBus, bus, puts>>,
         sysv' = sysv \/ (sysv' = <<>> /\ bridgeStep' = "ended"),
         bridgeStep' # "ended" => bridgeStep # "ended"
  PROVE  Numbered' /\ SomeFlow'
  <1>1. Numbered' BY DEF Numbered, Own
  <1>2. PICK p \in Nat : Flow(p) BY DEF SomeFlow
  <1>3. InBusUpTo(p)' BY <1>2 DEF Flow, InBusUpTo, OwnInBus, Own
  <1>4. OnTheWayFrom(p)' BY <1>2 DEF Flow, OnTheWayFrom
  <1>5. toBus \in Seq(BridgeMessages) BY BridgeTypes
  <1>6. PICK q \in Nat : q = p + Len(toBus) /\ WaitingFrom(q)
    BY <1>2, <1>5, LenProperties DEF Flow
  <1>7. WaitingFrom(q)'
    <2>1. CASE sysv' = sysv
      BY <2>1, <1>6 DEF WaitingFrom, Waiting, OfType, Own
    <2>2. CASE sysv' = <<>> /\ bridgeStep' = "ended"
      <3>1. Waiting' = {} BY <2>2, EmptySeq DEF Waiting, OfType
      <3> QED BY <2>2, <3>1, <1>6 DEF WaitingFrom
    <2> QED BY <2>1, <2>2
  <1>8. WaitingFrom(p + Len(toBus))' BY <1>6, <1>7
  <1> QED BY <1>1, <1>3, <1>4, <1>8 DEF SomeFlow, Flow

\* Every step keeps the flow.
LEMMA FlowStep == FlowInv /\ [BridgeNext]_bridgeVars => FlowInv'
  <1> SUFFICES ASSUME FlowInv, [BridgeNext]_bridgeVars PROVE FlowInv'
    OBVIOUS
  <1>1. BridgeTypeOK /\ Numbered /\ SomeFlow /\ Empty BY DEF FlowInv
  <1>2. BridgeTypeOK' BY <1>1, BridgeTypeStep
  <1>3. Empty'
    BY <1>1 DEF Empty, BridgeNext, BridgeConnect, init_queue, OtherPublishes,
       ServerReads, ProgramPuts, ProgramTakes, Forward, NoMoreMessages, Publish,
       QueueEmpty, BridgeTurn, BridgeStops, bridgeVars, bridgeHistory
  <1>4. Numbered' /\ SomeFlow'
    <2>1. CASE OtherPublishes BY <1>1, <2>1, OtherFlow
    <2>2. CASE ServerReads    BY <1>1, <2>2, ServerFlow
    <2>3. CASE ProgramPuts    BY <1>1, <2>3, PutFlow
    <2>4. CASE ProgramTakes   BY <1>1, <2>4, TakeFlow
    <2>5. CASE Forward        BY <1>1, <2>5, ForwardFlow
    <2>6. CASE Publish        BY <1>1, <2>6, PublishFlow
    <2>7. CASE BridgeConnect \/ init_queue \/ NoMoreMessages \/ QueueEmpty
               \/ BridgeTurn \/ BridgeStops \/ UNCHANGED bridgeVars
      <3>1. /\ UNCHANGED <<toBus, bus, puts>>
            /\ sysv' = sysv \/ (sysv' = <<>> /\ bridgeStep' = "ended")
            /\ bridgeStep' # "ended" => bridgeStep # "ended"
        BY <2>7 DEF BridgeConnect, init_queue, NoMoreMessages, QueueEmpty,
           BridgeTurn, BridgeStops, bridgeVars, bridgeHistory
      <3> QED BY <1>1, <3>1, StillFlow
    <2> QED BY <2>1, <2>2, <2>3, <2>4, <2>5, <2>6, <2>7 DEF BridgeNext
  <1> QED BY <1>2, <1>3, <1>4 DEF FlowInv

\* For any room and any numbers of messages, every variable of the bridge keeps
\* its type: the System V queue never holds more than it has room for.
THEOREM BridgeTypeCorrect == BridgeSpec => []BridgeTypeOK
  <1>1. FlowInv => BridgeTypeOK BY DEF FlowInv
  <1> QED BY FlowInit, FlowStep, <1>1, PTL DEF BridgeSpec

\* The flow says that what is published was put, once and in order.
LEMMA FlowPublishes == FlowInv => PublishedOnce
  <1> SUFFICES ASSUME FlowInv PROVE PublishedOnce
    OBVIOUS
  <1>1. /\ puts \in Seq(BridgeMessages) /\ bus \in Seq(BridgeMessages)
        /\ toBus \in Seq(BridgeMessages)
    BY BridgeTypes DEF FlowInv
  <1>2. Len(puts) \in Nat /\ DOMAIN puts = 1..Len(puts) /\ Len(toBus) \in Nat
    BY <1>1, LenProperties
  <1>3. PICK p \in Nat : Flow(p) BY DEF FlowInv, SomeFlow
  <1>4. p <= Len(puts) BY <1>2, <1>3 DEF Flow, WaitingFrom
  <1>5. \A i \in OwnInBus : bus[i].number \in 1..p
    BY <1>3 DEF Flow, InBusUpTo
  <1>6. ASSUME NEW i \in OwnInBus
        PROVE  bus[i].number \in DOMAIN puts /\ puts[bus[i].number] = bus[i]
    <2>1. bus[i].number \in DOMAIN puts BY <1>2, <1>4, <1>5
    <2>2. puts[bus[i].number] = [from |-> "bridge", number |-> bus[i].number]
      BY <2>1 DEF FlowInv, Numbered
    <2>3. bus[i] \in BridgeMessages /\ bus[i].from = "bridge"
      BY <1>1, LenProperties, ElementOfSeq DEF OwnInBus, Own
    <2>4. bus[i] = [from |-> "bridge", number |-> bus[i].number]
      BY <2>3 DEF BridgeMessages
    <2> QED BY <2>1, <2>2, <2>4
  <1>7. \A i, j \in OwnInBus : i < j => bus[i].number < bus[j].number
    BY <1>3 DEF Flow, InBusUpTo
  <1>8. ASSUME NEW i \in OwnInBus, NEW n \in DOMAIN puts, n < bus[i].number
        PROVE  \E j \in OwnInBus : bus[j].number = n
    <2>1. n \in 1..p BY <1>2, <1>5, <1>8
    <2> QED BY <2>1, <1>3 DEF Flow, InBusUpTo
  <1> QED BY <1>6, <1>7, <1>8 DEF PublishedOnce

\* For any room, programs and messages of others: what programs put reaches the
\* bus once each, in the order they put it and without a gap, however the echo
\* of the bus, the two directions and the end of the bridge fall.
THEOREM PublishedOnceCorrect == BridgeSpec => []PublishedOnce
  BY FlowInit, FlowStep, FlowPublishes, PTL DEF BridgeSpec

-----------------------------------------------------------------------------
\* No message is on the bus twice, so none is before itself.
Distinct == \A i, j \in DOMAIN bus : i # j => bus[i] # bus[j]

LEMMA FlowDistinct == FlowInv => Distinct
  <1> SUFFICES ASSUME FlowInv, NEW i \in DOMAIN bus, NEW j \in DOMAIN bus, i # j
               PROVE  bus[i] # bus[j]
    BY DEF Distinct
  <1>1. bus \in Seq(BridgeMessages) BY BridgeTypes DEF FlowInv
  <1>2. i \in Nat /\ j \in Nat BY <1>1, LenProperties
  <1>3. CASE Own(bus[i]) /\ Own(bus[j])
    <2>1. PICK p \in Nat : Flow(p) BY DEF FlowInv, SomeFlow
    <2>2. /\ i \in OwnInBus /\ j \in OwnInBus
          /\ bus[i].number \in Nat /\ bus[j].number \in Nat
      BY <1>3, <2>1 DEF OwnInBus, Flow, InBusUpTo
    <2>3. i < j \/ j < i BY <1>2
    <2>4. bus[i].number < bus[j].number \/ bus[j].number < bus[i].number
      BY <2>1, <2>2, <2>3 DEF Flow, InBusUpTo
    <2> QED BY <2>2, <2>4
  <1>4. CASE ~Own(bus[i]) /\ ~Own(bus[j])
    <2>1. bus[i].number = i /\ bus[j].number = j
      BY <1>4 DEF FlowInv, Numbered
    <2> QED BY <2>1
  <1>5. CASE Own(bus[i]) # Own(bus[j]) BY <1>5
  <1> QED BY <1>3, <1>4, <1>5

LEMMA NotBeforeItself ==
  ASSUME Distinct, bus \in Seq(BridgeMessages), NEW m
  PROVE  ~Before(m, m)
  <1>1. DOMAIN bus \subseteq Nat BY LenProperties
  <1> QED BY <1>1 DEF Before, Distinct

\* Initially nothing is on the bus, and nothing is taken.
LEMMA TakenInit == BridgeInit => TakenInv
  <1> SUFFICES ASSUME BridgeInit PROVE TakenInv
    OBVIOUS
  <1>1. DOMAIN <<>> = {} BY EmptySeq
  <1> QED BY <1>1 DEF BridgeInit, TakenInv, Taken, OfTheBus, NoneLeftOut, Has

\* The server distributes one more message: the bridge has it while it runs.
LEMMA TakenDistribute ==
  ASSUME BridgeTypeOK, Distinct', TakenInv, bridgeStep # "connect",
         NEW m \in BridgeMessages, Distribute(m),
         UNCHANGED <<bridgeStep, forwarded, lost>>
  PROVE  TakenInv'
  <1>1. bus \in Seq(BridgeMessages) /\ fromBus \in Seq(BridgeMessages)
        /\ bridgeStep \in {"connect", "init", "messages", "queue", "delay", "ended"}
    BY BridgeTypes
  <1> DEFINE n == Len(bus')
  <1>2. /\ Len(bus) \in Nat /\ n = Len(bus) + 1
        /\ DOMAIN bus = 1..Len(bus) /\ DOMAIN bus' = 1..n
        /\ \A i \in DOMAIN bus : i \in DOMAIN bus' /\ bus'[i] = bus[i]
        /\ bus'[n] = m
        /\ \A i \in DOMAIN bus' : i \in DOMAIN bus \/ i = n
    BY <1>1, BusGrown
  <1>3. n \in DOMAIN bus' /\ n \in Nat /\ \A i \in DOMAIN bus : i < n /\ i \in Nat
    BY <1>2
  <1> HIDE DEF n
  <1>4. \A i \in DOMAIN bus : bus[i] # m
    BY <1>2, <1>3 DEF Distinct
  <1>5. \A x, y : Before(x, y) => Before(x, y)'
    BY <1>2 DEF Before
  <1>6. ASSUME NEW i \in DOMAIN bus PROVE Before(bus[i], m)'
    BY <1>2, <1>3 DEF Before
  <1>7. \A x : Has(x) => \E i \in DOMAIN bus : bus[i] = x
    BY DEF TakenInv, OfTheBus
  <1>8. CASE bridgeStep = "ended"
    <2>1. fromBus' = fromBus BY <1>8 DEF Distribute, BridgeRuns
    <2>2. \A x : Has(x)' <=> Has(x) BY <2>1 DEF Has
    <2>3. Taken' BY <2>1, <1>5 DEF TakenInv, Taken
    <2>4. OfTheBus' BY <2>2, <1>2 DEF TakenInv, OfTheBus
    <2>5. NoneLeftOut'
      <3>1. ASSUME NEW i \in DOMAIN bus', NEW j \in DOMAIN bus', i < j,
                   bus'[i] \notin lost', Has(bus[j])'
            PROVE  Has(bus[i])'
        <4>1. Has(bus'[j]) /\ bus'[i] \notin lost BY <3>1, <2>2 DEF Has
        <4>2. j # n BY <4>1, <1>2, <1>4, <1>7
        <4>3. j \in DOMAIN bus BY <4>2, <1>2
        <4>4. i \in DOMAIN bus
          <5>1. i # n BY <4>3, <3>1, <1>3
          <5> QED BY <5>1, <1>2
        <4>5. Has(bus[i])
          BY <3>1, <4>1, <4>3, <4>4, <1>2 DEF TakenInv, NoneLeftOut
        <4> QED BY <4>5, <4>4, <2>1, <1>2 DEF Has
      <3> QED BY <3>1, <1>8 DEF NoneLeftOut
    <2> QED BY <2>3, <2>4, <2>5 DEF TakenInv
  <1>9. CASE bridgeStep # "ended"
    <2>1. fromBus' = Append(fromBus, m)
      BY <1>1, <1>9 DEF Distribute, BridgeRuns
    <2> DEFINE h == Len(fromBus')
    <2>2. /\ Len(fromBus) \in Nat /\ h = Len(fromBus) + 1
          /\ DOMAIN fromBus = 1..Len(fromBus) /\ DOMAIN fromBus' = 1..h
          /\ \A k \in DOMAIN fromBus : k \in DOMAIN fromBus'
                                       /\ fromBus'[k] = fromBus[k]
          /\ fromBus'[h] = m
          /\ \A k \in DOMAIN fromBus' : k \in DOMAIN fromBus \/ k = h
      BY <2>1, <1>1, Appended
    <2>3. h \in DOMAIN fromBus' /\ h \in Nat
          /\ \A k \in DOMAIN fromBus : k < h /\ k \in Nat
      BY <2>2
    <2> HIDE DEF h
    <2>4. \A x : Has(x)' <=> Has(x) \/ x = m BY <2>2, <2>3 DEF Has
    <2>5. Taken'
      <3>1. \A k, l \in DOMAIN forwarded' :
              k < l => Before(forwarded[k], forwarded[l])'
        BY <1>5 DEF TakenInv, Taken
      <3>2. ASSUME NEW k \in DOMAIN fromBus', NEW l \in DOMAIN fromBus', k < l
            PROVE  Before(fromBus[k], fromBus[l])'
        <4>1. CASE l \in DOMAIN fromBus
          <5>1. k \in DOMAIN fromBus BY <4>1, <3>2, <2>2, <2>3
          <5>2. Before(fromBus[k], fromBus[l])
            BY <5>1, <4>1, <3>2 DEF TakenInv, Taken
          <5>3. fromBus'[k] = fromBus[k] /\ fromBus'[l] = fromBus[l]
            BY <5>1, <4>1, <2>2
          <5> QED BY <5>2, <5>3, <1>5 DEF Before
        <4>2. CASE l = h
          <5>1. k \in DOMAIN fromBus BY <4>2, <3>2, <2>2, <2>3
          <5>2. Has(fromBus[k]) BY <5>1 DEF Has
          <5>3. PICK i \in DOMAIN bus : bus[i] = fromBus[k] BY <5>2, <1>7
          <5>4. fromBus'[k] = bus[i] /\ fromBus'[l] = m
            BY <5>1, <5>3, <4>2, <2>2
          <5>5. Before(bus[i], m)' BY <1>6
          <5> QED BY <5>3, <5>4, <1>2, <1>3 DEF Before
        <4> QED BY <4>1, <4>2, <2>2
      <3>3. ASSUME NEW k \in DOMAIN forwarded', NEW l \in DOMAIN fromBus'
            PROVE  Before(forwarded[k], fromBus[l])'
        <4>1. CASE l \in DOMAIN fromBus
          <5>1. Before(forwarded[k], fromBus[l]) BY <4>1 DEF TakenInv, Taken
          <5>2. fromBus'[l] = fromBus[l] BY <4>1, <2>2
          <5> QED BY <5>1, <5>2, <1>5 DEF Before
        <4>2. CASE l = h
          <5>2. Has(forwarded[k]) BY DEF Has
          <5>3. PICK i \in DOMAIN bus : bus[i] = forwarded[k] BY <5>2, <1>7
          <5>4. forwarded'[k] = bus[i] /\ fromBus'[l] = m
            BY <5>3, <4>2, <2>2
          <5> QED BY <5>3, <5>4, <1>2, <1>3 DEF Before
        <4> QED BY <4>1, <4>2, <2>2
      <3> QED BY <3>1, <3>2, <3>3 DEF Taken
    <2>6. OfTheBus'
      <3>1. \A x : Has(x)' => \E i \in DOMAIN bus' : bus'[i] = x
        BY <2>4, <1>2, <1>3, <1>7
      <3>2. \A x \in lost' : ~Has(x)' /\ \E i \in DOMAIN bus' : bus'[i] = x
        <4>1. \A x \in lost : ~Has(x) /\ \E i \in DOMAIN bus : bus[i] = x
          BY DEF TakenInv, OfTheBus
        <4> QED BY <4>1, <2>4, <1>2, <1>4
      <3> QED BY <3>1, <3>2 DEF OfTheBus
    <2>7. NoneLeftOut'
      <3>1. ASSUME NEW i \in DOMAIN bus', bus'[i] \notin lost'
            PROVE  Has(bus[i])'
        <4>1. CASE i \in DOMAIN bus
          <5>1. Has(bus[i]) /\ bus'[i] = bus[i]
            BY <4>1, <3>1, <1>2, <1>9 DEF TakenInv, NoneLeftOut
          <5> QED BY <5>1, <2>2 DEF Has
        <4>2. CASE i = n
          BY <4>2, <1>2, <2>2, <2>3 DEF Has
        <4> QED BY <4>1, <4>2, <1>2
      <3> QED BY <3>1 DEF NoneLeftOut
    <2> QED BY <2>5, <2>6, <2>7 DEF TakenInv
  <1> QED BY <1>8, <1>9

\* What is taken is in order when it is by the same bus.
LEMMA TakenWhenOrdered ==
  ASSUME bus' = bus,
         \A k, l \in DOMAIN forwarded' :
           k < l => Before(forwarded'[k], forwarded'[l]),
         \A k, l \in DOMAIN fromBus' : k < l => Before(fromBus'[k], fromBus'[l]),
         \A k \in DOMAIN forwarded', l \in DOMAIN fromBus' :
           Before(forwarded'[k], fromBus'[l])
  PROVE  Taken'
  BY DEF Taken, Before

\* The bridge forwards its next message, or loses it.
LEMMA TakenForward ==
  ASSUME BridgeTypeOK, Distinct, TakenInv, Forward
  PROVE  TakenInv'
  <1>1. /\ bus \in Seq(BridgeMessages) /\ fromBus \in Seq(BridgeMessages)
        /\ forwarded \in Seq(BridgeMessages)
    BY BridgeTypes
  <1> DEFINE m == Head(fromBus)
  <1>2. fromBus # <<>> /\ fromBus' = Tail(fromBus) /\ bus' = bus
        /\ bridgeStep = "messages" /\ bridgeStep' = bridgeStep
    BY DEF Forward
  <1>3. /\ 1 \in DOMAIN fromBus /\ fromBus[1] = m /\ m \in BridgeMessages
        /\ DOMAIN fromBus = 1..Len(fromBus) /\ DOMAIN fromBus' = 1..Len(fromBus')
        /\ \A k \in DOMAIN fromBus' : k + 1 \in DOMAIN fromBus
                                      /\ fromBus'[k] = fromBus[k + 1]
        /\ \A k \in DOMAIN fromBus :
             k = 1 \/ (k - 1 \in DOMAIN fromBus' /\ fromBus'[k - 1] = fromBus[k])
    BY <1>1, <1>2, Tailed
  <1>4. \A k \in DOMAIN fromBus : k \in Nat /\ (k # 1 => 1 < k)
    BY <1>1, LenProperties
  <1>5. \/ forwarded' = Append(forwarded, m) /\ lost' = lost
        \/ forwarded' = forwarded /\ lost' = lost \union {m}
    BY DEF Forward
  <1> HIDE DEF m
  <1>6. \A x, y : Before(x, y)' <=> Before(x, y) BY <1>2 DEF Before
  <1>7. \A k \in DOMAIN forwarded : Before(forwarded[k], m)
    BY <1>3 DEF TakenInv, Taken
  <1>8. \A k \in DOMAIN fromBus : k # 1 => Before(m, fromBus[k])
    BY <1>3, <1>4 DEF TakenInv, Taken
  <1>9. \A k, l \in DOMAIN fromBus' :
          k < l => Before(fromBus'[k], fromBus'[l])
    <2> SUFFICES ASSUME NEW k \in DOMAIN fromBus', NEW l \in DOMAIN fromBus', k < l
                 PROVE  Before(fromBus'[k], fromBus'[l])
      OBVIOUS
    <2>1. PICK x \in DOMAIN fromBus : x = k + 1 /\ fromBus'[k] = fromBus[x]
      BY <1>3
    <2>2. PICK y \in DOMAIN fromBus : y = l + 1 /\ fromBus'[l] = fromBus[y]
      BY <1>3
    <2>3. x < y
      <3>1. k \in Int /\ l \in Int BY <1>3
      <3> QED BY <3>1, <2>1, <2>2
    <2> QED BY <2>1, <2>2, <2>3 DEF TakenInv, Taken
  <1>10. \A k \in DOMAIN fromBus' :
           \E x \in DOMAIN fromBus : x # 1 /\ fromBus'[k] = fromBus[x]
    <2> SUFFICES ASSUME NEW k \in DOMAIN fromBus'
                 PROVE  \E x \in DOMAIN fromBus : x # 1 /\ fromBus'[k] = fromBus[x]
      OBVIOUS
    <2>1. k \in Nat /\ k # 0 BY <1>3
    <2>2. k + 1 # 1 BY <2>1
    <2> QED BY <2>2, <1>3
  <1>11. \A x \in DOMAIN fromBus :
           x # 1 => \E k \in DOMAIN fromBus' : fromBus'[k] = fromBus[x]
    BY <1>3
  <1>12. CASE forwarded' = Append(forwarded, m) /\ lost' = lost
    <2> DEFINE h == Len(forwarded')
    <2>1. /\ Len(forwarded) \in Nat /\ h = Len(forwarded) + 1
          /\ DOMAIN forwarded = 1..Len(forwarded) /\ DOMAIN forwarded' = 1..h
          /\ \A k \in DOMAIN forwarded : k \in DOMAIN forwarded'
                                         /\ forwarded'[k] = forwarded[k]
          /\ forwarded'[h] = m
          /\ \A k \in DOMAIN forwarded' : k \in DOMAIN forwarded \/ k = h
      BY <1>1, <1>3, <1>12, Appended
    <2>2. h \in DOMAIN forwarded' /\ h \in Nat
          /\ \A k \in DOMAIN forwarded : k < h /\ k \in Nat
      BY <2>1
    <2> HIDE DEF h
    <2>3. \A x : Has(x)' <=> Has(x)
      <3>1. ASSUME NEW x, Has(x)' PROVE Has(x)
        <4>1. CASE \E k \in DOMAIN forwarded' : forwarded'[k] = x
          BY <4>1, <2>1, <1>3 DEF Has
        <4>2. CASE \E k \in DOMAIN fromBus' : fromBus'[k] = x
          BY <4>2, <1>10 DEF Has
        <4> QED BY <3>1, <4>1, <4>2 DEF Has
      <3>2. ASSUME NEW x, Has(x) PROVE Has(x)'
        <4>1. CASE \E k \in DOMAIN forwarded : forwarded[k] = x
          BY <4>1, <2>1 DEF Has
        <4>2. CASE \E k \in DOMAIN fromBus : fromBus[k] = x
          <5>1. PICK k \in DOMAIN fromBus : fromBus[k] = x BY <4>2
          <5>2. CASE k = 1 BY <5>1, <5>2, <1>3, <2>1, <2>2 DEF Has
          <5>3. CASE k # 1 BY <5>1, <5>3, <1>11 DEF Has
          <5> QED BY <5>2, <5>3
        <4> QED BY <3>2, <4>1, <4>2 DEF Has
      <3> QED BY <3>1, <3>2
    <2>4. Taken'
      <3>1. ASSUME NEW k \in DOMAIN forwarded', NEW l \in DOMAIN forwarded', k < l
            PROVE  Before(forwarded'[k], forwarded'[l])
        <4>1. k \in DOMAIN forwarded BY <3>1, <2>1, <2>2
        <4>2. CASE l \in DOMAIN forwarded
          BY <4>1, <4>2, <3>1, <2>1 DEF TakenInv, Taken
        <4>3. CASE l = h BY <4>1, <4>3, <2>1, <1>7
        <4> QED BY <4>2, <4>3, <2>1
      <3>2. ASSUME NEW k \in DOMAIN forwarded', NEW l \in DOMAIN fromBus'
            PROVE  Before(forwarded'[k], fromBus'[l])
        <4>1. PICK x \in DOMAIN fromBus : x # 1 /\ fromBus'[l] = fromBus[x]
          BY <1>10
        <4>2. CASE k \in DOMAIN forwarded
          BY <4>1, <4>2, <2>1 DEF TakenInv, Taken
        <4>3. CASE k = h BY <4>1, <4>3, <2>1, <1>8
        <4> QED BY <4>2, <4>3, <2>1
      <3> QED BY <3>1, <3>2, <1>2, <1>9, TakenWhenOrdered
    <2>5. OfTheBus' BY <2>3, <1>2, <1>12 DEF TakenInv, OfTheBus
    <2>6. NoneLeftOut'
      <3>1. ASSUME NEW i \in DOMAIN bus', bus'[i] \notin lost'
            PROVE  Has(bus[i])'
        <4>1. PICK x : x = bus[i] OBVIOUS
        <4>2. i \in DOMAIN bus /\ bus'[i] = x /\ x \notin lost
          BY <3>1, <4>1, <1>2, <1>12
        <4>3. Has(x)
          BY <4>1, <4>2, <1>2 DEF TakenInv, NoneLeftOut
        <4>4. Has(x)' BY <4>3, <2>3
        <4> QED BY <4>2, <4>4 DEF Has
      <3> QED BY <3>1 DEF NoneLeftOut
    <2> QED BY <2>4, <2>5, <2>6 DEF TakenInv
  <1>13. CASE forwarded' = forwarded /\ lost' = lost \union {m}
    <2>1. \A x : Has(x)' <=> Has(x) /\ x # m
      <3>1. ~Before(m, m) BY <1>1, NotBeforeItself
      <3>2. ASSUME NEW x, Has(x)' PROVE Has(x) /\ x # m
        <4>1. CASE \E k \in DOMAIN forwarded' : forwarded'[k] = x
          BY <4>1, <3>1, <1>7, <1>13 DEF Has
        <4>2. CASE \E k \in DOMAIN fromBus' : fromBus'[k] = x
          BY <4>2, <3>1, <1>8, <1>10 DEF Has
        <4> QED BY <3>2, <4>1, <4>2 DEF Has
      <3>3. ASSUME NEW x, Has(x), x # m PROVE Has(x)'
        <4>1. CASE \E k \in DOMAIN forwarded : forwarded[k] = x
          BY <4>1, <1>13 DEF Has
        <4>2. CASE \E k \in DOMAIN fromBus : fromBus[k] = x
          BY <4>2, <3>3, <1>3, <1>11 DEF Has
        <4> QED BY <3>3, <4>1, <4>2 DEF Has
      <3> QED BY <3>2, <3>3
    <2>2. Has(m) BY <1>3 DEF Has
    <2>3. Taken'
      <3>1. \A k \in DOMAIN forwarded', l \in DOMAIN fromBus' :
              Before(forwarded'[k], fromBus'[l])
        BY <1>10, <1>13 DEF TakenInv, Taken
      <3>2. \A k, l \in DOMAIN forwarded' :
              k < l => Before(forwarded'[k], forwarded'[l])
        BY <1>13 DEF TakenInv, Taken
      <3> QED BY <3>1, <3>2, <1>2, <1>9, TakenWhenOrdered
    <2>4. OfTheBus'
      <3>1. \A x : Has(x)' => \E i \in DOMAIN bus' : bus'[i] = x
        BY <2>1, <1>2 DEF TakenInv, OfTheBus
      <3>2. \A x \in lost' : ~Has(x)' /\ \E i \in DOMAIN bus' : bus'[i] = x
        BY <2>1, <2>2, <1>2, <1>13 DEF TakenInv, OfTheBus
      <3> QED BY <3>1, <3>2 DEF OfTheBus
    <2>5. NoneLeftOut'
      <3>1. \A i \in DOMAIN bus : bus[i] \notin lost' => Has(bus[i]) /\ bus[i] # m
        BY <1>2, <1>13 DEF TakenInv, NoneLeftOut
      <3>2. ASSUME NEW i \in DOMAIN bus', bus'[i] \notin lost'
            PROVE  Has(bus[i])'
        <4>1. PICK x : x = bus[i] OBVIOUS
        <4>2. bus'[i] = x /\ Has(x) /\ x # m BY <3>1, <3>2, <4>1, <1>2
        <4>3. Has(x)' BY <4>2, <2>1
        <4> QED BY <4>2, <4>3 DEF Has
      <3> QED BY <3>2 DEF NoneLeftOut
    <2> QED BY <2>3, <2>4, <2>5 DEF TakenInv
  <1> QED BY <1>5, <1>12, <1>13

\* Every step keeps what the bridge has taken in the order of the bus.
LEMMA TakenStep ==
  FlowInv /\ TakenInv /\ FlowInv' /\ [BridgeNext]_bridgeVars => TakenInv'
  <1> SUFFICES ASSUME FlowInv, TakenInv, FlowInv', [BridgeNext]_bridgeVars
               PROVE  TakenInv'
    OBVIOUS
  <1>1. BridgeTypeOK /\ Empty BY DEF FlowInv
  <1>2. Distinct BY FlowDistinct
  <1>3. Distinct'
    <2>1. FlowInv' => Distinct' BY FlowDistinct, PTL
    <2> QED BY <2>1
  <1>4. /\ bus \in Seq(BridgeMessages) /\ Len(bus) \in Nat
        /\ toBus \in Seq(BridgeMessages)
    BY <1>1, BridgeTypes, LenProperties
  <1>5. CASE OtherPublishes
    <2> DEFINE m == [from |-> "other", number |-> Len(bus) + 1]
    <2>1. m \in BridgeMessages BY <1>4 DEF BridgeMessages
    <2>2. Distribute(m) /\ bridgeStep # "connect"
          /\ UNCHANGED <<bridgeStep, forwarded, lost>>
      BY <1>5 DEF OtherPublishes, bridgeHistory
    <2> HIDE DEF m
    <2> QED BY <2>1, <2>2, <1>1, <1>3, TakenDistribute
  <1>6. CASE ServerReads
    <2>1. toBus # <<>> /\ Distribute(Head(toBus))
          /\ UNCHANGED <<bridgeStep, forwarded, lost>>
      BY <1>6 DEF ServerReads, bridgeHistory
    <2>2. Head(toBus) \in BridgeMessages BY <2>1, <1>4, HeadTailProperties
    <2>3. bridgeStep # "connect" BY <2>1, <1>1 DEF Empty
    <2> QED BY <2>1, <2>2, <2>3, <1>1, <1>3, TakenDistribute
  <1>7. CASE Forward BY <1>7, <1>1, <1>2, TakenForward
  <1>8. CASE BridgeConnect \/ init_queue \/ ProgramPuts \/ ProgramTakes
             \/ NoMoreMessages \/ Publish \/ QueueEmpty \/ BridgeTurn
             \/ BridgeStops \/ UNCHANGED bridgeVars
    <2>1. UNCHANGED <<bus, fromBus, forwarded, lost>>
          /\ (bridgeStep' # "ended" => bridgeStep # "ended")
      BY <1>8 DEF BridgeConnect, init_queue, ProgramPuts, ProgramTakes,
         NoMoreMessages, Publish, QueueEmpty, BridgeTurn, BridgeStops,
         bridgeVars, bridgeHistory
    <2> QED BY <2>1 DEF TakenInv, Taken, Before, OfTheBus, NoneLeftOut, Has
  <1> QED BY <1>5, <1>6, <1>7, <1>8 DEF BridgeNext

\* What is in a concatenation is in one of the two, and in their order.
LEMMA InEither ==
  ASSUME NEW S, NEW s \in Seq(S), NEW t \in Seq(S), NEW r, r = s \o t
  PROVE  /\ \A k \in DOMAIN r :
              \/ k \in DOMAIN s /\ r[k] = s[k]
              \/ k > Len(s) /\ k - Len(s) \in DOMAIN t /\ r[k] = t[k - Len(s)]
         /\ \A k \in DOMAIN s : k \in DOMAIN r /\ r[k] = s[k] /\ k <= Len(s)
         /\ \A k \in DOMAIN t : Len(s) + k \in DOMAIN r /\ r[Len(s) + k] = t[k]
         /\ Len(s) \in Nat /\ DOMAIN r \subseteq Nat
  <1>1. /\ r \in Seq(S) /\ Len(r) = Len(s) + Len(t)
        /\ \A i \in 1..Len(s) + Len(t) :
             r[i] = IF i <= Len(s) THEN s[i] ELSE t[i - Len(s)]
    <2>1. /\ s \o t \in Seq(S) /\ Len(s \o t) = Len(s) + Len(t)
          /\ \A i \in 1..Len(s) + Len(t) :
               (s \o t)[i] = IF i <= Len(s) THEN s[i] ELSE t[i - Len(s)]
      BY ConcatProperties, Zenon
    <2> QED BY <2>1, Zenon
  <1>2. /\ Len(s) \in Nat /\ Len(t) \in Nat /\ DOMAIN s = 1..Len(s)
        /\ DOMAIN t = 1..Len(t) /\ DOMAIN r = 1..Len(s) + Len(t)
    BY <1>1, LenProperties
  <1>3. ASSUME NEW k \in DOMAIN r
        PROVE  \/ k \in DOMAIN s /\ r[k] = s[k]
               \/ k > Len(s) /\ k - Len(s) \in DOMAIN t /\ r[k] = t[k - Len(s)]
    BY <1>1, <1>2
  <1>4. \A k \in DOMAIN s : k \in DOMAIN r /\ r[k] = s[k] /\ k <= Len(s)
    BY <1>1, <1>2
  <1>5. ASSUME NEW k \in DOMAIN t
        PROVE  Len(s) + k \in DOMAIN r /\ r[Len(s) + k] = t[k]
    <2>1. Len(s) + k \in DOMAIN r /\ ~(Len(s) + k <= Len(s))
          /\ (Len(s) + k) - Len(s) = k
      BY <1>2
    <2> QED BY <2>1, <1>1, <1>2
  <1> QED BY <1>2, <1>3, <1>4, <1>5

\* The two invariants give the property.
LEMMA TakenInOrder == FlowInv /\ TakenInv => ForwardedInOrder
  <1> SUFFICES ASSUME FlowInv, TakenInv PROVE ForwardedInOrder
    OBVIOUS
  <1> DEFINE taken == forwarded \o fromBus
  <1>1. forwarded \in Seq(BridgeMessages) /\ fromBus \in Seq(BridgeMessages)
    BY BridgeTypes DEF FlowInv
  <1>2. /\ \A k \in DOMAIN taken :
             \/ k \in DOMAIN forwarded /\ taken[k] = forwarded[k]
             \/ /\ k > Len(forwarded) /\ k - Len(forwarded) \in DOMAIN fromBus
                /\ taken[k] = fromBus[k - Len(forwarded)]
        /\ \A k \in DOMAIN forwarded :
             k \in DOMAIN taken /\ taken[k] = forwarded[k] /\ k <= Len(forwarded)
        /\ \A k \in DOMAIN fromBus :
             Len(forwarded) + k \in DOMAIN taken
             /\ taken[Len(forwarded) + k] = fromBus[k]
        /\ Len(forwarded) \in Nat /\ DOMAIN taken \subseteq Nat
    BY <1>1, InEither
  <1> HIDE DEF taken
  <1>3. \A x : x \in Range(taken) <=> Has(x)
    BY <1>2 DEF Range, Has
  <1>4. Distinct BY FlowDistinct
  <1>5. ASSUME NEW k \in DOMAIN taken, NEW l \in DOMAIN taken, k < l
        PROVE  Before(taken[k], taken[l])
    <2>1. CASE k \in DOMAIN forwarded /\ l \in DOMAIN forwarded
      BY <2>1, <1>2, <1>5 DEF TakenInv, Taken
    <2>2. CASE k \in DOMAIN forwarded /\ l \notin DOMAIN forwarded
      BY <2>2, <1>2 DEF TakenInv, Taken
    <2>3. CASE k \notin DOMAIN forwarded /\ l \notin DOMAIN forwarded
      <3>1. PICK x \in DOMAIN fromBus :
              x = k - Len(forwarded) /\ taken[k] = fromBus[x]
        BY <2>3, <1>2
      <3>2. PICK y \in DOMAIN fromBus :
              y = l - Len(forwarded) /\ taken[l] = fromBus[y]
        BY <2>3, <1>2
      <3>3. x < y
        <4>1. k \in Nat /\ l \in Nat /\ Len(forwarded) \in Nat BY <1>2
        <4> QED BY <4>1, <3>1, <3>2, <1>5
      <3> QED BY <3>1, <3>2, <3>3 DEF TakenInv, Taken
    <2>4. CASE k \notin DOMAIN forwarded /\ l \in DOMAIN forwarded
      <3>1. k > Len(forwarded) /\ l <= Len(forwarded) BY <2>4, <1>2
      <3>2. k \in Nat /\ l \in Nat /\ Len(forwarded) \in Nat BY <1>2
      <3> QED BY <3>1, <3>2, <1>5
    <2> QED BY <2>1, <2>2, <2>3, <2>4
  <1>6. Range(taken) \intersect lost = {}
    BY <1>3 DEF TakenInv, OfTheBus
  <1>7. \A i, j \in DOMAIN bus :
          i < j /\ bus[i] \notin lost /\ bus[j] \in Range(taken)
            => bus[i] \in Range(taken)
    BY <1>3 DEF TakenInv, NoneLeftOut
  <1>8. bridgeStep # "ended" =>
          \A i \in DOMAIN bus : bus[i] \notin lost => bus[i] \in Range(taken)
    BY <1>3 DEF TakenInv, NoneLeftOut
  <1> QED BY <1>4, <1>5, <1>6, <1>7, <1>8 DEF ForwardedInOrder, Distinct, taken

\* For any room, programs and messages of others: the bridge forwards the
\* messages of the bus in their order, none twice, and leaves out only those
\* that met a full queue.
THEOREM ForwardedInOrderCorrect == BridgeSpec => []ForwardedInOrder
  BY FlowInit, FlowStep, TakenInit, TakenStep, TakenInOrder, PTL DEF BridgeSpec
=============================================================================
