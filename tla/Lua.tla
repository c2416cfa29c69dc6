-------------------------------- MODULE Lua ---------------------------------
(***************************************************************************)
(* The lua client: handle_message of rocsmq-luaclient/src/clientmain.c,    *)
(* which runs the scripts whose filter matches a message, and the commands *)
(* of the scripts to keep data (persist, retrieve, exists).                *)
(*                                                                         *)
(* A script defines a function run when its file is loaded and called; the *)
(* function is a global of the one interpreter.  The data base is tinycdb: *)
(* making one writes an empty header with the data, then the header.       *)
(***************************************************************************)
EXTENDS Naturals, Sequences, FiniteSets

CONSTANTS
  Filters,       \* for each script the ids its filter matches
  MessageIds,    \* the ids of messages that come in
  DbKeys,        \* keys scripts keep data under
  DbValues,      \* the data
  NoData,        \* the answer of retrieve when there is none
  FdLimit,       \* files the process can still open
  StackRoom,     \* errors the stack of the interpreter has room for
  MaxLuaMessages,\* bound: messages that come in
  MaxCommands,   \* bound: commands of all scripts
  MaxCrashes     \* bound: crashes

ASSUME LuaAssumption ==
  /\ Filters \in Seq(SUBSET MessageIds)
  /\ NoData \notin DbValues
  /\ {FdLimit, StackRoom, MaxLuaMessages, MaxCommands, MaxCrashes} \subseteq Nat

VARIABLES
  luaStep,     \* "idle", "match", "run", "script", "undefined"
  luaMessage,  \* the message handled
  script,      \* the index i of its script
  run,         \* the script whose function the global run is; 0: none
  runs,        \* the script that runs
  stack,       \* errors nobody took from the interpreter's stack
  open,        \* files nobody closed
  file,        \* what the data base holds: {} or one [key, value]
  making,      \* what persist is writing: {} or one [key, value]
  retrieved,   \* the last answer of retrieve
  keys,        \* history: the data last persisted under each key
  asked,       \* history: of the last retrieve, its answer and what was
               \* persisted under its key
  loaded,      \* history: the script that was loaded last
  failed,      \* history: the scripts of this message not loaded
  luaCount     \* messages, commands and crashes so far

luaStore == <<file, making>>
luaAnswers == <<retrieved, keys, asked>>
luaVars == <<luaStep, luaMessage, script, run, runs, stack, open, luaStore,
             luaAnswers, loaded, failed, luaCount>>

Scripts == 1..Len(Filters)

LuaInit ==
  /\ luaStep = "idle"
  /\ luaMessage = "none"
  /\ script = 1
  /\ run = 0
  /\ runs = 0
  /\ stack = 0
  /\ open = 0
  /\ file = {}
  /\ making = {}
  /\ retrieved = NoData
  /\ keys = [k \in DbKeys |-> NoData]
  /\ asked = {}
  /\ loaded = 0
  /\ failed = {}
  /\ luaCount = [messages |-> 0, commands |-> 0, crashes |-> 0]

-----------------------------------------------------------------------------
(***************************************************************************)
(* handle_message.                                                         *)
(***************************************************************************)
LuaMessage ==
  /\ luaStep = "idle"
  /\ luaCount.messages < MaxLuaMessages
  /\ luaCount' = [luaCount EXCEPT !.messages = @ + 1]
  /\ luaMessage' \in MessageIds
  /\ script' = 1
  /\ failed' = {}
  /\ luaStep' = "match"
  /\ UNCHANGED <<run, runs, stack, open, luaStore, luaAnswers, loaded>>

MatchesNot ==
  /\ luaStep = "match"
  /\ script \in Scripts
  /\ luaMessage \notin Filters[script]
  /\ script' = script + 1
  /\ UNCHANGED <<luaStep, luaMessage, run, runs, stack, open, luaStore,
                 luaAnswers, loaded, failed, luaCount>>

Error == stack' = stack + 1

\* The file is loaded and called, which makes run the function of the script;
\* or one of the two fails, and mostly leaves run as it was.
LoadScript ==
  /\ luaStep = "match"
  /\ script \in Scripts
  /\ luaMessage \in Filters[script]
  /\ luaStep' = "run"
  /\ \/ run' = script /\ loaded' = script /\ UNCHANGED <<stack, failed>>
     \/ /\ Error
        /\ failed' = failed \union {script}
        /\ run' \in {run, script}
        /\ loaded' = IF run' = script THEN script ELSE loaded
  /\ UNCHANGED <<luaMessage, script, runs, open, luaStore, luaAnswers, luaCount>>

\* Defect: the interpreter starts anew where a script was not loaded.
CallRunOrNone ==
  /\ luaStep = "run"
  /\ stack <= StackRoom
  /\ \/ /\ run # 0
        /\ luaStep' = "script"
        /\ runs' = IF script \in failed THEN 0 ELSE run
        /\ UNCHANGED <<script, stack>>
     \/ /\ run = 0
        /\ Error
        /\ luaStep' = "match"
        /\ script' = script + 1
        /\ UNCHANGED runs
  /\ UNCHANGED <<luaMessage, run, open, luaStore, luaAnswers, loaded, failed,
                 luaCount>>

\* run is called, whoever defined it.
CallRun ==
  /\ luaStep = "run"
  /\ stack <= StackRoom
  /\ \/ /\ run # 0
        /\ luaStep' = "script"
        /\ runs' = run
        /\ UNCHANGED <<script, stack>>
     \/ /\ run = 0
        /\ Error
        /\ luaStep' = "match"
        /\ script' = script + 1
        /\ UNCHANGED runs
  /\ UNCHANGED <<luaMessage, run, open, luaStore, luaAnswers, loaded, failed,
                 luaCount>>

\* Errors were never taken from the stack, until there is no room for more.
StackOverflow ==
  /\ luaStep = "run"
  /\ stack > StackRoom
  /\ luaStep' = "undefined"
  /\ UNCHANGED <<luaMessage, script, run, runs, stack, open, luaStore,
                 luaAnswers, loaded, failed, luaCount>>

\* The function of the script returns, or fails.
ScriptEnds ==
  /\ luaStep = "script"
  /\ making = {}
  /\ luaStep' = "match"
  /\ script' = script + 1
  /\ runs' = 0
  /\ Error \/ UNCHANGED stack
  /\ UNCHANGED <<luaMessage, run, open, luaStore, luaAnswers, loaded, failed,
                 luaCount>>

LuaHandled ==
  /\ luaStep = "match"
  /\ script \notin Scripts
  /\ luaStep' = "idle"
  /\ failed' = {}
  /\ UNCHANGED <<luaMessage, script, run, runs, stack, open, luaStore,
                 luaAnswers, loaded, luaCount>>

-----------------------------------------------------------------------------
(***************************************************************************)
(* The commands of a script.                                               *)
(***************************************************************************)
Command ==
  /\ luaStep = "script"
  /\ making = {}
  /\ luaCount.commands < MaxCommands
  /\ luaCount' = [luaCount EXCEPT !.commands = @ + 1]

CanOpen == open < FdLimit

\* Defect: the pairs that were there are kept.
lua_persist_adds ==
  /\ Command
  /\ CanOpen
  /\ \E k \in DbKeys, v \in DbValues :
       /\ making' = {[key |-> k, value |-> v]}
                      \union {d \in file : d.key # k}
       /\ keys' = [keys EXCEPT ![k] = v]
  /\ file' = {}
  /\ UNCHANGED <<luaStep, luaMessage, script, run, runs, stack, open,
                 retrieved, asked, loaded, failed>>

\* lua_persist up to the flush in cdb_make_finish: the file begins with an
\* empty header, whatever it held is gone.
lua_persist ==
  /\ Command
  /\ CanOpen
  /\ \E k \in DbKeys, v \in DbValues :
       /\ making' = {[key |-> k, value |-> v]}
       /\ keys' = [keys EXCEPT ![k] = v]
  /\ file' = {}
  /\ UNCHANGED <<luaStep, luaMessage, script, run, runs, stack, open,
                 retrieved, asked, loaded, failed>>

\* The header is written, and the file closed.
PersistHeader ==
  /\ making # {}
  /\ file' = making
  /\ making' = {}
  /\ UNCHANGED <<luaStep, luaMessage, script, run, runs, stack, open,
                 luaAnswers, loaded, failed, luaCount>>

\* Without a file nothing is written, and nobody is told.
PersistNothing ==
  /\ Command
  /\ ~CanOpen
  /\ UNCHANGED <<luaStep, luaMessage, script, run, runs, stack, open, luaStore,
                 luaAnswers, loaded, failed>>

Stored(k) == IF \E d \in file : d.key = k
             THEN (CHOOSE d \in file : d.key = k).value ELSE NoData

lua_retrieve ==
  /\ Command
  /\ CanOpen
  /\ \E k \in DbKeys :
       /\ retrieved' = Stored(k)
       /\ asked' = {[answer |-> Stored(k), persisted |-> keys[k]]}
  /\ UNCHANGED <<luaStep, luaMessage, script, run, runs, stack, open, luaStore,
                 keys, loaded, failed>>

\* lua_exists does not close the file, nor does it return a value: what the
\* script gets is open, or the interpreter is lost.
lua_exists ==
  /\ Command
  /\ CanOpen
  /\ open' = open + 1
  /\ luaStep' \in {"script", "undefined"}
  /\ UNCHANGED <<luaMessage, script, run, runs, stack, luaStore,
                 luaAnswers, loaded, failed>>

\* open answers -1, which is not the 0 that is tested for, and the data base
\* is searched through a structure that was not initialised.
ReadWithoutFile ==
  /\ Command
  /\ ~CanOpen
  /\ luaStep' = "undefined"
  /\ UNCHANGED <<luaMessage, script, run, runs, stack, open, luaStore,
                 luaAnswers, loaded, failed>>

\* The process ends at any point, and a new one starts.
LuaCrash ==
  /\ luaCount.crashes < MaxCrashes
  /\ luaCount' = [luaCount EXCEPT !.crashes = @ + 1]
  /\ luaStep' = "idle"
  /\ luaMessage' = "none"
  /\ script' = 1
  /\ run' = 0
  /\ runs' = 0
  /\ stack' = 0
  /\ open' = 0
  /\ making' = {}
  /\ loaded' = 0
  /\ failed' = {}
  /\ UNCHANGED <<file, luaAnswers>>

LuaNext ==
  \/ LuaMessage
  \/ MatchesNot
  \/ LoadScript
  \/ CallRun
  \/ StackOverflow
  \/ ScriptEnds
  \/ LuaHandled
  \/ lua_persist
  \/ PersistHeader
  \/ PersistNothing
  \/ lua_retrieve
  \/ lua_exists
  \/ ReadWithoutFile
  \/ LuaCrash

LuaSpec == LuaInit /\ [][LuaNext]_luaVars

-----------------------------------------------------------------------------
LuaTypeOK ==
  /\ luaStep \in {"idle", "match", "run", "script", "undefined"}
  /\ script \in 1..Len(Filters) + 1
  /\ {run, runs, loaded} \subseteq Scripts \union {0}
  /\ open \in 0..FdLimit
  /\ Cardinality(file) <= 1
  /\ Cardinality(making) <= 1
  /\ retrieved \in DbValues \union {NoData}

\* The function that runs is the one of the script whose file was loaded last:
\* another than the one that matched only when that one could not be loaded,
\* and then perhaps one whose filter does not match (clientmain.c:218).
TheLastLoadedRuns ==
  luaStep = "script" => runs = loaded /\ (runs = script \/ script \in failed)

\* The data base holds the key persisted last; a crash while it is written
\* leaves none.
TheStore == INSTANCE OneKeyStore WITH
  Keys <- DbKeys, Values <- DbValues, NoAnswer <- NoData,
  stored <- IF making # {} THEN making ELSE file,
  answer <- retrieved

KeepsOneKey == TheStore!StoreSpec

\* Data persisted under a key can be retrieved, until something else is
\* persisted under it: "add or replace data" (clientmain.c:355).
RetrievesWhatWasPersisted ==
  \A a \in asked : a.answer = a.persisted
=============================================================================
