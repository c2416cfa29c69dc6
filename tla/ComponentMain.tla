--------------------------- MODULE ComponentMain ----------------------------
(***************************************************************************)
(* How the components start and end: their main functions around the loop, *)
(* the daemonizer, and the part of rocsmqthread.c that starts and joins    *)
(* the listener.  What the loops do is in the module of each component,    *)
(* what the mutex does to a signal handler in ClientQueue.tla.             *)
(*                                                                         *)
(* The processes are components started in one directory, where .pid, the  *)
(* lock file of the daemonizer, is: the name is relative, and chdir("~")   *)
(* finds no directory of that name.  Steps of a main that cannot fail and  *)
(* touch none of this state are left out.                                  *)
(***************************************************************************)
EXTENDS Integers, Sequences, FiniteSets, ConfigParser

CONSTANTS
  Processes,    \* the processes that may run
  Together,     \* which programs run together: functions from Processes
  ConfigFiles,  \* their configuration files: {} or {[rundaemon, loglevel]}
  MaxStarts     \* bound: starts of processes

\* What most mains begin with, where they work, and how they end.
Begin == <<"parseconfig", "daemonize", "openlog">>
Work == <<"start", "activate", "loop">>
End == <<"join", "disconnect">>

cron_main == Begin \o <<"connect">> \o Work \o <<"free">> \o End

gpio_main == Begin \o <<"connect">> \o Work \o End

\* can_open may fail like gpio_init's pins: nobody looks.
can_main == Begin \o <<"connect">> \o Work \o End

tty_main == Begin \o <<"device", "connect">> \o Work \o End

speech_main == Begin \o <<"device", "connect">> \o Work \o End

sphinx_main ==
  <<"parseconfig", "daemonize", "connect">> \o <<"openlog", "device", "connect">>
    \o Work \o End

\* The last rocsmq_error(sock) was to be rocsmq_exit(sock).
queue_main ==
  Begin \o <<"connect">> \o <<"start", "activate", "device">> \o <<"loop", "join">>

lua_main ==
  <<"parseconfig", "openlog">> \o <<"connect", "device">> \o Work \o End

Mains ==
  [cron |-> cron_main, gpio |-> gpio_main, can |-> can_main, tty |-> tty_main,
   speech |-> speech_main, sphinx |-> sphinx_main, queue |-> queue_main,
   lua |-> lua_main]

ASSUME MainAssumption ==
  /\ Together \subseteq [Processes -> DOMAIN Mains]
  /\ Together # {}
  /\ MaxStarts \in Nat

VARIABLES
  program,   \* the program of each process
  process,   \* its state:
             \*   todo: the rest of its main
             \*   baseconfig: [rundaemon, loglevel]
             \*   loglevel: of log.c
             \*   handlers: the signal handlers of the daemonizer are there
             \*   running: pdata.running
             \*   listener: "none", "looks" at running, "reads" or "ended"
             \*   sockets: connections to the server
             \*   fate: "absent", "alive", "exited", "killed", "crashed" or
             \*         "returned"
             \*   terms: history, SIGTERM came "early", with the activation
             \*          still to do, or "late"
  lockfile,  \* the process that has locked .pid: {} or {p}
  starts     \* starts of processes so far

mainVars == <<program, process, lockfile, starts>>

DefaultConfig(prog) ==
  [rundaemon |-> FALSE,
   loglevel |-> log_getlevel(IF prog \in {"can", "sphinx"} THEN "INFO" ELSE "DEBUG")]

\* Defect: the flag is not set before the listener is activated.
RunningAtFirst == FALSE

\* The initial value of pdata.
RunningAtStart == TRUE

NewProcess(prog, fate) ==
  [todo |-> Mains[prog], baseconfig |-> DefaultConfig(prog),
   loglevel |-> log_getlevel("WARNING"), handlers |-> FALSE,
   running |-> RunningAtStart, listener |-> "none", sockets |-> 0,
   fate |-> fate, terms |-> {}]

MainInit ==
  /\ program \in Together
  /\ process = [p \in Processes |-> NewProcess(program[p], "absent")]
  /\ lockfile = {}
  /\ starts = 0

Alive(p) == process[p].fate = "alive"

-----------------------------------------------------------------------------
Start(p) ==
  /\ ~Alive(p)
  /\ starts < MaxStarts
  /\ starts' = starts + 1
  /\ process' = [process EXCEPT ![p] = NewProcess(program[p], "alive")]
  /\ UNCHANGED <<program, lockfile>>

At(p, step) == Alive(p) /\ process[p].todo # <<>> /\ Head(process[p].todo) = step

\* The process goes on in its main with the state s.
Goes(p, s) ==
  /\ process' = [process EXCEPT ![p] = [s EXCEPT !.todo = Tail(@)]]
  /\ UNCHANGED <<program, lockfile, starts>>

\* The process ends, whichever of its threads brought it about.
Ends(p, fate) ==
  /\ process' = [process EXCEPT ![p].fate = fate]
  /\ lockfile' = lockfile \ {p}
  /\ UNCHANGED <<program, starts>>

ReadConfig(p) ==
  /\ At(p, "parseconfig")
  /\ \E file \in ConfigFiles :
       Goes(p, [process[p] EXCEPT !.baseconfig = parseconfig(@, file)])

Foreground(p) ==
  /\ At(p, "daemonize")
  /\ ~process[p].baseconfig.rundaemon
  /\ Goes(p, process[p])

\* Defect: the handlers are installed also where the lock is taken.
daemonize_twice(p) ==
  /\ At(p, "daemonize")
  /\ process[p].baseconfig.rundaemon
  /\ \/ Goes(p, process[p])
     \/ Ends(p, "exited")
     \/ /\ process' = [process EXCEPT ![p].todo = Tail(@), ![p].handlers = TRUE]
        /\ lockfile' = {p}
        /\ UNCHANGED <<program, starts>>

\* A child of init goes on as it is, and so does a process that finds the file
\* locked; fork or open may fail.  The process is the child fork made.
daemonize(p) ==
  /\ At(p, "daemonize")
  /\ process[p].baseconfig.rundaemon
  /\ \/ Goes(p, process[p])
     \/ Ends(p, "exited")
     \/ /\ lockfile = {}
        /\ process' = [process EXCEPT ![p].todo = Tail(@), ![p].handlers = TRUE]
        /\ lockfile' = {p}
        /\ UNCHANGED <<program, starts>>

\* log_setlevel: a level that is none is ignored.
log_setlevel(old, level) == IF level \in 0..3 THEN level ELSE old

OpenLog(p) ==
  /\ At(p, "openlog")
  /\ Goes(p, [process[p] EXCEPT
                !.loglevel = log_setlevel(@, process[p].baseconfig.loglevel)])

\* tty_init, init_espeak, sphinx_init, init_interpreter or init_queue.
OpenDevice(p) ==
  /\ At(p, "device")
  /\ Goes(p, process[p]) \/ Ends(p, "exited")

ConnectServer(p) ==
  /\ At(p, "connect")
  /\ Goes(p, [process[p] EXCEPT !.sockets = @ + 1]) \/ Ends(p, "exited")

-----------------------------------------------------------------------------
(***************************************************************************)
(* rocsmq_start_thread: without a thread it returns before the activation, *)
(* and main goes on.                                                       *)
(***************************************************************************)
CreateListener(p) ==
  /\ At(p, "start")
  /\ \/ Goes(p, [process[p] EXCEPT !.listener = "looks"])
     \/ Goes(p, process[p])

Activate(p) ==
  /\ At(p, "activate")
  /\ Goes(p, [process[p] EXCEPT !.running = @ \/ process[p].listener # "none"])

ListenerLooks(p) ==
  /\ Alive(p)
  /\ process[p].listener = "looks"
  /\ process' = [process EXCEPT ![p].listener =
                   IF process[p].running THEN "reads" ELSE "ended"]
  /\ UNCHANGED <<program, lockfile, starts>>

\* A message, or the end of the connection.
ListenerReads(p) ==
  /\ Alive(p)
  /\ process[p].listener = "reads"
  /\ process' = [process EXCEPT ![p].listener = "looks"]
  /\ UNCHANGED <<program, lockfile, starts>>

LeaveLoop(p) ==
  /\ At(p, "loop")
  /\ ~process[p].running
  /\ Goes(p, process[p])

\* clear_custom_config of cron frees a variable that was not allocated.
FreeConfig(p) ==
  /\ At(p, "free")
  /\ Ends(p, "crashed")

\* Defect: the listener is told to end and not waited for.
JoinAtOnce(p) ==
  /\ At(p, "join")
  /\ Goes(p, [process[p] EXCEPT !.running = FALSE])

\* rocsmq_destroy_thread: a thread that was never there is not joined.
JoinListener(p) ==
  /\ At(p, "join")
  /\ \/ /\ process[p].listener = "ended"
        /\ Goes(p, [process[p] EXCEPT !.running = FALSE])
     \/ /\ process[p].listener = "none"
        /\ Ends(p, "crashed")

Disconnect(p) ==
  /\ At(p, "disconnect")
  /\ Goes(p, [process[p] EXCEPT !.sockets = @ - 1])

Return(p) ==
  /\ Alive(p)
  /\ process[p].todo = <<>>
  /\ Ends(p, "returned")

-----------------------------------------------------------------------------
Activated(p) == \A i \in DOMAIN process[p].todo : process[p].todo[i] # "activate"

\* client_signal_handler.
Terminate(p) ==
  /\ Alive(p)
  /\ process[p].handlers
  /\ process' = [process EXCEPT
       ![p].running = FALSE,
       ![p].terms = @ \union {IF Activated(p) THEN "late" ELSE "early"}]
  /\ UNCHANGED <<program, lockfile, starts>>

\* A signal nobody handles, or a crash in the loop.
Kill(p) ==
  /\ Alive(p)
  /\ Ends(p, "killed")

MainNext ==
  \E p \in Processes :
    \/ Start(p)
    \/ ReadConfig(p)
    \/ Foreground(p)
    \/ daemonize(p)
    \/ OpenLog(p)
    \/ OpenDevice(p)
    \/ ConnectServer(p)
    \/ CreateListener(p)
    \/ Activate(p)
    \/ ListenerLooks(p)
    \/ ListenerReads(p)
    \/ LeaveLoop(p)
    \/ FreeConfig(p)
    \/ JoinListener(p)
    \/ Disconnect(p)
    \/ Return(p)
    \/ Terminate(p)
    \/ Kill(p)

MainSpec == MainInit /\ [][MainNext]_mainVars

-----------------------------------------------------------------------------
MainTypeOK ==
  /\ program \in Together
  /\ lockfile \subseteq Processes
  /\ starts \in 0..MaxStarts
  /\ \A p \in Processes :
       /\ process[p].listener \in {"none", "looks", "reads", "ended"}
       /\ process[p].loglevel \in 0..3
       /\ process[p].baseconfig.loglevel \in -1..3
       /\ process[p].sockets \in 0..2
       /\ process[p].fate \in {"absent", "alive", "exited", "killed", "crashed",
                               "returned"}

\* All daemons of a directory share one lock file, whatever their program: at
\* most one of them at a time can be told to end, over any crashes and
\* restarts; the others die of the signal (daemonizer.c:63).
OneCanBeStopped ==
  \A p, q \in Processes :
    Alive(p) /\ process[p].handlers /\ Alive(q) /\ process[q].handlers =>
      p = q /\ lockfile = {p}

\* A component stays in its loop after SIGTERM, or without its listener, only
\* when the signal came before the activation, which undoes it
\* (rocsmqthread.c:79): the listener never finds running unset as it starts.
OnlyEarlySignalsDeafen ==
  \A p \in Processes :
    At(p, "loop") /\ process[p].running =>
      /\ "late" \notin process[p].terms
      /\ process[p].listener = "ended" => "early" \in process[p].terms

\* What returns from its main was a daemon and told to end, and its listener
\* had ended before the socket was closed.  cron and lua never do; sphinx and
\* the queue bridge leave a connection open.
OrderlyEnds ==
  \A p \in Processes :
    LET s == process[p] IN
    /\ s.fate = "returned" =>
         /\ program[p] \notin {"cron", "lua"}
         /\ s.handlers /\ "late" \in s.terms
         /\ s.sockets = IF program[p] \in {"sphinx", "queue"} THEN 1 ELSE 0
    /\ s.fate = "returned" \/ (Alive(p) /\ s.todo = <<>>) => s.listener = "ended"
=============================================================================
