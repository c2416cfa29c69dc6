----------------------------- MODULE MainProofs -----------------------------
(***************************************************************************)
(* Proofs about the start and the end of the components: one daemon at a   *)
(* time can be stopped, and only a signal before the activation leaves a   *)
(* component deaf.  Both hold whatever the mains do and in which order.    *)
(* That what returns was told to, and joined its listener before, depends  *)
(* on where each main has its steps, counted from its end.                 *)
(***************************************************************************)
EXTENDS ComponentMain, TLAPS

Fields == {"todo", "baseconfig", "loglevel", "handlers", "running", "listener",
           "sockets", "fate", "terms"}

Steps == {"parseconfig", "daemonize", "openlog", "device", "connect", "start",
          "activate", "loop", "free", "join", "disconnect"}

\* Each process is a record, of any values.
Records ==
  /\ process = [p \in Processes |-> process[p]]
  /\ \A p \in Processes : DOMAIN process[p] = Fields

(***************************************************************************)
(* A live process with handlers has locked the file.                       *)
(***************************************************************************)
OwnerOf(p, s) == s.fate = "alive" /\ s.handlers => lockfile = {p}

Owners == \A p \in Processes : OwnerOf(p, process[p])

\* The activation is not among the steps to come.
Past(todo) == \A i \in DOMAIN todo : todo[i] # "activate"

(***************************************************************************)
(* running was unset, and the listener has ended, after a signal only; and *)
(* a signal after the activation unset it for good.                        *)
(***************************************************************************)
SignalledState(s) ==
  /\ s.todo \in Seq(Steps)
  /\ s.running \in BOOLEAN
  /\ s.terms \subseteq {"early", "late"}
  /\ "late" \in s.terms => Past(s.todo) /\ ~s.running
  /\ ~s.running => s.terms # {}
  /\ s.listener = "ended" => s.terms # {}

Signalled == \A p \in Processes : SignalledState(process[p])

MainInv == Records /\ Owners /\ Signalled

MainTyped == program \in [Processes -> DOMAIN Mains]

-----------------------------------------------------------------------------
\* A main is a sequence of steps.
LEMMA MainsType == \A prog \in DOMAIN Mains : Mains[prog] \in Seq(Steps)
<1>1. Begin \in Seq(Steps) /\ Work \in Seq(Steps) /\ End \in Seq(Steps)
  BY DEF Begin, Work, End, Steps
<1>2. /\ <<"connect">> \in Seq(Steps) /\ <<"free">> \in Seq(Steps)
      /\ <<"device", "connect">> \in Seq(Steps)
      /\ <<"connect", "device">> \in Seq(Steps)
      /\ <<"parseconfig", "openlog">> \in Seq(Steps)
      /\ <<"loop", "join">> \in Seq(Steps)
  BY DEF Steps
<1>3. /\ <<"parseconfig", "daemonize", "connect">> \in Seq(Steps)
      /\ <<"openlog", "device", "connect">> \in Seq(Steps)
      /\ <<"start", "activate", "device">> \in Seq(Steps)
  BY DEF Steps
<1>4. \A s, t \in Seq(Steps) : s \o t \in Seq(Steps)
  OBVIOUS
<1>5. /\ cron_main \in Seq(Steps) /\ gpio_main \in Seq(Steps)
      /\ can_main \in Seq(Steps) /\ lua_main \in Seq(Steps)
  BY <1>1, <1>2, <1>4 DEF cron_main, gpio_main, can_main, lua_main
<1>6. /\ tty_main \in Seq(Steps) /\ speech_main \in Seq(Steps)
      /\ sphinx_main \in Seq(Steps) /\ queue_main \in Seq(Steps)
  BY <1>1, <1>2, <1>3, <1>4 DEF tty_main, speech_main, sphinx_main, queue_main
<1> QED BY <1>5, <1>6 DEF Mains

\* A process starts without handlers and signals, and with running set.
LEMMA NewSignalled ==
  ASSUME NEW prog \in DOMAIN Mains, NEW f
  PROVE  /\ DOMAIN NewProcess(prog, f) = Fields
         /\ ~NewProcess(prog, f).handlers
         /\ SignalledState(NewProcess(prog, f))
  BY MainsType DEF NewProcess, Fields, SignalledState, RunningAtStart

LEMMA MainInitInv == MainInit => MainInv
<1> SUFFICES ASSUME MainInit PROVE MainInv
  OBVIOUS
<1>1. program \in [Processes -> DOMAIN Mains]
  BY MainAssumption DEF MainInit
<1>2. process = [p \in Processes |-> NewProcess(program[p], "absent")]
  BY DEF MainInit
<1> QED BY <1>1, <1>2, NewSignalled DEF MainInv, Records, Owners, OwnerOf, Signalled

-----------------------------------------------------------------------------
\* A step that gives one process a state and leaves the lock file alone keeps
\* the invariant, if the state does.
LEMMA OneProcess ==
  ASSUME MainInv, NEW p \in Processes, NEW s,
         process' = [process EXCEPT ![p] = s], lockfile' = lockfile,
         DOMAIN s = Fields, SignalledState(s), OwnerOf(p, s)
  PROVE  MainInv'
  BY DEF MainInv, Records, Owners, OwnerOf, Signalled

\* A process that goes on keeps it, if the state it goes on with has the
\* handlers, the fate and the signals it had.
LEMMA GoesOn ==
  ASSUME MainInv, NEW p \in Processes, NEW s, Goes(p, s),
         DOMAIN s = Fields, SignalledState([s EXCEPT !.todo = Tail(@)]),
         s.handlers = process[p].handlers, s.fate = process[p].fate
  PROVE  MainInv'
<1> DEFINE gone == [s EXCEPT !.todo = Tail(@)]
<1>1. process' = [process EXCEPT ![p] = gone] /\ lockfile' = lockfile
  BY DEF Goes
<1>2. DOMAIN gone = Fields OBVIOUS
<1>3. OwnerOf(p, gone)
  BY DEF Fields, OwnerOf, MainInv, Owners
<1>4. SignalledState(gone) OBVIOUS
<1> HIDE DEF gone
<1> QED BY <1>1, <1>2, <1>3, <1>4, OneProcess

\* What is past stays past.
LEMMA PastTail ==
  ASSUME NEW todo \in Seq(Steps), todo # <<>>
  PROVE  /\ Tail(todo) \in Seq(Steps)
         /\ Past(todo) => Past(Tail(todo))
         /\ Past(todo) => Head(todo) # "activate"
  BY DEF Past

\* The step of a process that ends releases the lock it held, if it did.
LEMMA EndKeeps ==
  ASSUME MainInv, NEW p \in Processes, NEW f, Ends(p, f), f # "alive"
  PROVE  MainInv'
<1>1. process' = [process EXCEPT ![p].fate = f] /\ lockfile' = lockfile \ {p}
  BY DEF Ends
<1>2. Records'
  BY <1>1 DEF MainInv, Records, Fields
<1>3. Owners'
  BY <1>1 DEF MainInv, Records, Fields, Owners, OwnerOf
<1>4. Signalled'
  BY <1>1 DEF MainInv, Records, Fields, Signalled, SignalledState
<1> QED BY <1>2, <1>3, <1>4 DEF MainInv

\* A process that is at a step has it in front.
LEMMA AtStep ==
  ASSUME MainInv, NEW p \in Processes, NEW step, At(p, step)
  PROVE  /\ DOMAIN process[p] = Fields /\ SignalledState(process[p])
         /\ process[p].todo \in Seq(Steps) /\ process[p].todo # <<>>
         /\ Head(process[p].todo) = step
  BY DEF At, MainInv, Records, Signalled, SignalledState

\* Going on with nothing but the step done.
LEMMA GoesPlainly ==
  ASSUME MainInv, NEW p \in Processes, NEW step, At(p, step), Goes(p, process[p])
  PROVE  MainInv'
<1>1. SignalledState([process[p] EXCEPT !.todo = Tail(@)])
  BY AtStep, PastTail DEF SignalledState, Fields
<1> QED BY <1>1, AtStep, GoesOn

-----------------------------------------------------------------------------
\* The steps of main that touch what the invariant is about.

LEMMA StartKeeps ==
  ASSUME MainInv, MainTyped, NEW p \in Processes, Start(p)
  PROVE  MainInv'
<1>1. program[p] \in DOMAIN Mains
  BY DEF MainTyped
<1> DEFINE s == NewProcess(program[p], "alive")
<1>2. DOMAIN s = Fields /\ ~s.handlers /\ SignalledState(s)
  BY <1>1, NewSignalled
<1>3. process' = [process EXCEPT ![p] = s] /\ lockfile' = lockfile
  BY DEF Start
<1>4. OwnerOf(p, s)
  BY <1>2 DEF OwnerOf
<1> HIDE DEF s
<1> QED BY <1>2, <1>3, <1>4, OneProcess

\* A step that changes no field of the invariant but todo.
LEMMA GoesOnWith ==
  ASSUME MainInv, NEW p \in Processes, NEW step, At(p, step), NEW s, Goes(p, s),
         DOMAIN s = Fields, s.todo = process[p].todo,
         s.handlers = process[p].handlers, s.running = process[p].running,
         s.listener = process[p].listener, s.fate = process[p].fate,
         s.terms = process[p].terms
  PROVE  MainInv'
<1>1. SignalledState([s EXCEPT !.todo = Tail(@)])
  BY AtStep, PastTail DEF SignalledState, Fields
<1> QED BY <1>1, GoesOn

LEMMA DaemonizeKeeps ==
  ASSUME MainInv, NEW p \in Processes, daemonize(p)
  PROVE  MainInv'
<1>1. At(p, "daemonize")
  BY DEF daemonize
<1>2. CASE Goes(p, process[p])
  BY <1>1, <1>2, GoesPlainly
<1>3. CASE Ends(p, "exited")
  BY <1>3, EndKeeps
<1>4. CASE /\ lockfile = {}
           /\ process' = [process EXCEPT ![p].todo = Tail(@), ![p].handlers = TRUE]
           /\ lockfile' = {p}
  <2>1. Records'
    BY <1>4 DEF MainInv, Records, Fields
  <2>2. Owners'
    BY <1>4 DEF MainInv, Records, Fields, Owners, OwnerOf
  <2>3. SignalledState(process[p]')
    BY <1>1, <1>4, AtStep, PastTail DEF MainInv, Records, SignalledState, Fields
  <2>4. Signalled'
    BY <1>4, <2>3 DEF MainInv, Records, Signalled
  <2> QED BY <2>1, <2>2, <2>4 DEF MainInv
<1> QED BY <1>2, <1>3, <1>4 DEF daemonize

LEMMA CreateKeeps ==
  ASSUME MainInv, NEW p \in Processes, CreateListener(p)
  PROVE  MainInv'
<1>1. At(p, "start")
  BY DEF CreateListener
<1>2. CASE Goes(p, [process[p] EXCEPT !.listener = "looks"])
  <2> DEFINE s == [process[p] EXCEPT !.listener = "looks"]
  <2>1. SignalledState([s EXCEPT !.todo = Tail(@)])
    BY <1>1, AtStep, PastTail DEF SignalledState, Fields
  <2>2. DOMAIN s = Fields /\ s.handlers = process[p].handlers
                         /\ s.fate = process[p].fate
    BY <1>1, AtStep DEF Fields
  <2> HIDE DEF s
  <2> QED BY <1>2, <2>1, <2>2, GoesOn DEF s
<1>3. CASE Goes(p, process[p])
  BY <1>1, <1>3, GoesPlainly
<1> QED BY <1>2, <1>3 DEF CreateListener

\* The activation undoes an early signal, and cannot meet a late one.
LEMMA ActivateKeeps ==
  ASSUME MainInv, NEW p \in Processes, Activate(p)
  PROVE  MainInv'
<1> DEFINE s == [process[p] EXCEPT !.running = @ \/ process[p].listener # "none"]
<1>1. At(p, "activate") /\ Goes(p, s)
  BY DEF Activate
<1>2. "late" \notin process[p].terms
  BY <1>1, AtStep, PastTail DEF SignalledState
<1>3. SignalledState([s EXCEPT !.todo = Tail(@)])
  BY <1>1, <1>2, AtStep, PastTail DEF SignalledState, Fields
<1>4. DOMAIN s = Fields /\ s.handlers = process[p].handlers
                       /\ s.fate = process[p].fate
  BY <1>1, AtStep DEF Fields
<1> HIDE DEF s
<1> QED BY <1>1, <1>3, <1>4, GoesOn

LEMMA JoinKeeps ==
  ASSUME MainInv, NEW p \in Processes, JoinListener(p)
  PROVE  MainInv'
<1>1. At(p, "join")
  BY DEF JoinListener
<1>2. CASE /\ process[p].listener = "ended"
           /\ Goes(p, [process[p] EXCEPT !.running = FALSE])
  <2> DEFINE s == [process[p] EXCEPT !.running = FALSE]
  <2>1. SignalledState([s EXCEPT !.todo = Tail(@)])
    BY <1>1, <1>2, AtStep, PastTail DEF SignalledState, Fields
  <2>2. DOMAIN s = Fields /\ s.handlers = process[p].handlers
                         /\ s.fate = process[p].fate
    BY <1>1, AtStep DEF Fields
  <2> HIDE DEF s
  <2> QED BY <1>2, <2>1, <2>2, GoesOn DEF s
<1>3. CASE Ends(p, "crashed")
  BY <1>3, EndKeeps
<1> QED BY <1>2, <1>3 DEF JoinListener

-----------------------------------------------------------------------------
\* The steps of the listener and the signals.

LEMMA ListenerKeeps ==
  ASSUME MainInv, NEW p \in Processes, ListenerLooks(p) \/ ListenerReads(p)
  PROVE  MainInv'
<1>1. PICK l : /\ process' = [process EXCEPT ![p].listener = l]
               /\ l = "ended" => ~process[p].running
               /\ lockfile' = lockfile
  BY DEF ListenerLooks, ListenerReads
<1> DEFINE s == [process[p] EXCEPT !.listener = l]
<1>2. process' = [process EXCEPT ![p] = s]
  BY <1>1
<1>3. DOMAIN s = Fields /\ OwnerOf(p, s) /\ SignalledState(s)
  BY <1>1 DEF MainInv, Records, Owners, OwnerOf, Signalled, SignalledState, Fields
<1> HIDE DEF s
<1> QED BY <1>1, <1>2, <1>3, OneProcess

LEMMA TerminateKeeps ==
  ASSUME MainInv, NEW p \in Processes, Terminate(p)
  PROVE  MainInv'
<1> DEFINE s == [process[p] EXCEPT !.running = FALSE,
                   !.terms = @ \union {IF Activated(p) THEN "late" ELSE "early"}]
<1>1. process' = [process EXCEPT ![p] = s] /\ lockfile' = lockfile
  BY DEF Terminate
<1>2. DOMAIN s = Fields /\ OwnerOf(p, s)
  BY DEF MainInv, Records, Owners, OwnerOf, Fields
<1>3. SignalledState(s)
  BY DEF MainInv, Records, Signalled, SignalledState, Fields, Activated, Past
<1> HIDE DEF s
<1> QED BY <1>1, <1>2, <1>3, OneProcess

-----------------------------------------------------------------------------
LEMMA TypedStep == MainTyped /\ [MainNext]_mainVars => MainTyped'
<1>1. ASSUME MainNext PROVE program' = program
  BY <1>1 DEF MainNext, Start, ReadConfig, Foreground, daemonize, OpenLog,
     OpenDevice, ConnectServer, CreateListener, Activate, ListenerLooks,
     ListenerReads, LeaveLoop, FreeConfig, JoinListener, Disconnect, Return,
     Terminate, Kill, Goes, Ends
<1> QED BY <1>1 DEF MainTyped, mainVars

\* The steps that leave the fields of the invariant alone, but for todo, or end
\* the process.
LEMMA PlainKeeps ==
  ASSUME MainInv, NEW p \in Processes,
         \/ ReadConfig(p) \/ Foreground(p) \/ OpenLog(p) \/ OpenDevice(p)
         \/ ConnectServer(p) \/ LeaveLoop(p) \/ FreeConfig(p) \/ Disconnect(p)
         \/ Return(p) \/ Kill(p)
  PROVE  MainInv'
<1>1. CASE Foreground(p) \/ LeaveLoop(p)
  BY <1>1, GoesPlainly DEF Foreground, LeaveLoop
<1>2. CASE OpenDevice(p)
  BY <1>2, GoesPlainly, EndKeeps DEF OpenDevice
<1>3. CASE FreeConfig(p) \/ Return(p) \/ Kill(p)
  BY <1>3, EndKeeps DEF FreeConfig, Return, Kill
<1>4. CASE ReadConfig(p)
  <2>1. At(p, "parseconfig") BY <1>4 DEF ReadConfig
  <2>2. PICK c : Goes(p, [process[p] EXCEPT !.baseconfig = c])
    BY <1>4 DEF ReadConfig
  <2> QED BY <2>1, <2>2, AtStep, GoesOnWith DEF Fields
<1>5. CASE OpenLog(p)
  <2>1. At(p, "openlog") BY <1>5 DEF OpenLog
  <2>2. PICK l : Goes(p, [process[p] EXCEPT !.loglevel = l])
    BY <1>5 DEF OpenLog
  <2> QED BY <2>1, <2>2, AtStep, GoesOnWith DEF Fields
<1>6. CASE ConnectServer(p) \/ Disconnect(p)
  <2>1. At(p, "connect") \/ At(p, "disconnect")
    BY <1>6 DEF ConnectServer, Disconnect
  <2>2. CASE Ends(p, "exited")
    BY <2>2, EndKeeps
  <2>3. CASE \E n : Goes(p, [process[p] EXCEPT !.sockets = n])
    <3>1. PICK n : Goes(p, [process[p] EXCEPT !.sockets = n])
      BY <2>3
    <3> QED BY <2>1, <3>1, AtStep, GoesOnWith DEF Fields
  <2> QED BY <1>6, <2>2, <2>3 DEF ConnectServer, Disconnect
<1> QED BY <1>1, <1>2, <1>3, <1>4, <1>5, <1>6

LEMMA MainInvStep == MainInv /\ MainTyped /\ [MainNext]_mainVars => MainInv'
<1> SUFFICES ASSUME MainInv, MainTyped, [MainNext]_mainVars PROVE MainInv'
  OBVIOUS
<1>1. CASE UNCHANGED mainVars
  BY <1>1 DEF mainVars, MainInv, Records, Owners, OwnerOf, Signalled, SignalledState
<1>2. ASSUME NEW p \in Processes, Start(p) PROVE MainInv'
  BY <1>2, StartKeeps
<1>3. ASSUME NEW p \in Processes, daemonize(p) PROVE MainInv'
  BY <1>3, DaemonizeKeeps
<1>4. ASSUME NEW p \in Processes,
             CreateListener(p) \/ Activate(p) \/ JoinListener(p)
      PROVE  MainInv'
  BY <1>4, CreateKeeps, ActivateKeeps, JoinKeeps
<1>5. ASSUME NEW p \in Processes,
             ListenerLooks(p) \/ ListenerReads(p) \/ Terminate(p)
      PROVE  MainInv'
  BY <1>5, ListenerKeeps, TerminateKeeps
<1> QED BY <1>1, <1>2, <1>3, <1>4, <1>5, PlainKeeps DEF MainNext

\* MainInv is inductive.
THEOREM MainInvariant == MainSpec => []MainInv
<1>1. MainInit => MainInv /\ MainTyped
  BY MainInitInv, MainAssumption DEF MainInit, MainTyped
<1>2. MainInv /\ MainTyped /\ [MainNext]_mainVars => (MainInv /\ MainTyped)'
  BY MainInvStep, TypedStep
<1> QED BY <1>1, <1>2, PTL DEF MainSpec

\* All daemons of a directory share the lock file (daemonizer.c:63): at most
\* one of them at a time can be told to end, for any number of processes and
\* programs, over any crashes and restarts.
THEOREM OneStopped == MainSpec => []OneCanBeStopped
<1>1. MainInv => OneCanBeStopped
  BY DEF MainInv, Owners, OwnerOf, OneCanBeStopped, Alive
<1> QED BY <1>1, MainInvariant, PTL

\* Only a signal before the activation (rocsmqthread.c:79) leaves a component
\* in its loop, with or without its listener.
THEOREM DeafOnlyEarly == MainSpec => []OnlyEarlySignalsDeafen
<1>1. MainInv => OnlyEarlySignalsDeafen
  BY DEF MainInv, Signalled, SignalledState, OnlyEarlySignalsDeafen
<1> QED BY <1>1, MainInvariant, PTL

-----------------------------------------------------------------------------
(***************************************************************************)
(* The steps of each main, from its end: with n steps still to do, what    *)
(* comes next.                                                             *)
(***************************************************************************)
ConnectAt(prog) == IF prog = "sphinx" THEN {9, 6}
                   ELSE IF prog \in {"cron", "lua"} THEN {7} ELSE {6}
StartAt(prog) == IF prog = "cron" THEN 6 ELSE 5
ActivateAt(prog) == IF prog = "cron" THEN 5 ELSE 4
LoopAt(prog) == IF prog = "cron" THEN 4 ELSE IF prog = "queue" THEN 2 ELSE 3
JoinAt(prog) == IF prog = "queue" THEN 1 ELSE 2

\* Where the steps the invariant is about are in the main m of a program.
InPlace(prog, m) ==
  /\ m \in Seq(Steps)
  /\ Len(m) > 8
  /\ \A i \in 1..Len(m) :
       LET n == Len(m) - i + 1 IN
       /\ m[i] = "connect" <=> n \in ConnectAt(prog)
       /\ m[i] = "start" <=> n = StartAt(prog)
       /\ m[i] = "activate" <=> n = ActivateAt(prog)
       /\ m[i] = "loop" <=> n = LoopAt(prog)
       /\ m[i] = "free" <=> prog = "cron" /\ n = 3
       /\ m[i] = "join" <=> n = JoinAt(prog)
       /\ m[i] = "disconnect" <=> prog # "queue" /\ n = 1
       /\ m[i] = "daemonize" => prog # "lua"

LEMMA Joined ==
  ASSUME NEW s \in Seq(Steps), NEW t \in Seq(Steps)
  PROVE  /\ s \o t \in Seq(Steps)
         /\ Len(s \o t) = Len(s) + Len(t) /\ Len(s) \in Nat /\ Len(t) \in Nat
         /\ \A i \in 1..Len(s) : (s \o t)[i] = s[i]
         /\ \A i \in 1..Len(t) : (s \o t)[Len(s) + i] = t[i]
  OBVIOUS

\* Sequences of given steps.
Is1(s, a) == s \in Seq(Steps) /\ Len(s) = 1 /\ s[1] = a
Is2(s, a, b) == s \in Seq(Steps) /\ Len(s) = 2 /\ s[1] = a /\ s[2] = b
Is3(s, a, b, c) == s \in Seq(Steps) /\ Len(s) = 3 /\ s[1] = a /\ s[2] = b /\ s[3] = c
Is4(s, a, b, c, d) ==
  s \in Seq(Steps) /\ Len(s) = 4 /\ s[1] = a /\ s[2] = b /\ s[3] = c /\ s[4] = d
Is5(s, a, b, c, d, e) ==
  /\ s \in Seq(Steps) /\ Len(s) = 5
  /\ s[1] = a /\ s[2] = b /\ s[3] = c /\ s[4] = d /\ s[5] = e

Is6(s, a, b, c, d, e, f) ==
  /\ s \in Seq(Steps) /\ Len(s) = 6
  /\ s[1] = a /\ s[2] = b /\ s[3] = c /\ s[4] = d /\ s[5] = e /\ s[6] = f

LEMMA Pieces ==
  /\ Is3(Begin, "parseconfig", "daemonize", "openlog")
  /\ Is3(Work, "start", "activate", "loop")
  /\ Is2(End, "join", "disconnect")
  /\ Is1(<<"connect">>, "connect") /\ Is1(<<"free">>, "free")
  /\ Is2(<<"device", "connect">>, "device", "connect")
  /\ Is2(<<"loop", "join">>, "loop", "join")
  /\ Is2(<<"parseconfig", "openlog">>, "parseconfig", "openlog")
  /\ Is2(<<"connect", "device">>, "connect", "device")
  /\ Is3(<<"start", "activate", "device">>, "start", "activate", "device")
  /\ Is3(<<"parseconfig", "daemonize", "connect">>, "parseconfig", "daemonize", "connect")
  /\ Is3(<<"openlog", "device", "connect">>, "openlog", "device", "connect")
  BY DEF Is1, Is2, Is3, Begin, Work, End, Steps

\* How such sequences are joined.
LEMMA Join31 ==
  ASSUME NEW s, NEW t, NEW a, NEW b, NEW c, NEW d,
         Is3(s, a, b, c), Is1(t, d)
  PROVE  Is4(s \o t, a, b, c, d)
<1> DEFINE r == s \o t
<1>1. s \in Seq(Steps) /\ t \in Seq(Steps) /\ Len(s) = 3 /\ Len(t) = 1
  BY DEF Is3, Is1
<1>2. /\ r \in Seq(Steps) /\ Len(r) = Len(s) + Len(t)
      /\ \A i \in 1..Len(s) : r[i] = s[i]
      /\ \A i \in 1..Len(t) : r[Len(s) + i] = t[i]
  BY <1>1, Joined
<1> HIDE DEF r
<1>3. /\ Len(r) = 4 /\ \A i \in 1..3 : r[i] = s[i]
      /\ \A i \in 1..1 : r[3 + i] = t[i]
  BY <1>1, <1>2
<1>4. r[1] = s[1] /\ r[2] = s[2] /\ r[3] = s[3]
  BY <1>3
<1>5. r[4] = t[1]
  BY <1>3
<1>6. Is4(r, a, b, c, d)
  BY <1>2, <1>3, <1>4, <1>5 DEF Is3, Is1, Is4
<1> QED BY <1>6 DEF r

LEMMA Join22 ==
  ASSUME NEW s, NEW t, NEW a, NEW b, NEW c, NEW d,
         Is2(s, a, b), Is2(t, c, d)
  PROVE  Is4(s \o t, a, b, c, d)
<1> DEFINE r == s \o t
<1>1. s \in Seq(Steps) /\ t \in Seq(Steps) /\ Len(s) = 2 /\ Len(t) = 2
  BY DEF Is2, Is2
<1>2. /\ r \in Seq(Steps) /\ Len(r) = Len(s) + Len(t)
      /\ \A i \in 1..Len(s) : r[i] = s[i]
      /\ \A i \in 1..Len(t) : r[Len(s) + i] = t[i]
  BY <1>1, Joined
<1> HIDE DEF r
<1>3. /\ Len(r) = 4 /\ \A i \in 1..2 : r[i] = s[i]
      /\ \A i \in 1..2 : r[2 + i] = t[i]
  BY <1>1, <1>2
<1>4. r[1] = s[1] /\ r[2] = s[2]
  BY <1>3
<1>5. r[3] = t[1] /\ r[4] = t[2]
  BY <1>3
<1>6. Is4(r, a, b, c, d)
  BY <1>2, <1>3, <1>4, <1>5 DEF Is2, Is2, Is4
<1> QED BY <1>6 DEF r

LEMMA Join32 ==
  ASSUME NEW s, NEW t, NEW a, NEW b, NEW c, NEW d, NEW e,
         Is3(s, a, b, c), Is2(t, d, e)
  PROVE  Is5(s \o t, a, b, c, d, e)
<1> DEFINE r == s \o t
<1>1. s \in Seq(Steps) /\ t \in Seq(Steps) /\ Len(s) = 3 /\ Len(t) = 2
  BY DEF Is3, Is2
<1>2. /\ r \in Seq(Steps) /\ Len(r) = Len(s) + Len(t)
      /\ \A i \in 1..Len(s) : r[i] = s[i]
      /\ \A i \in 1..Len(t) : r[Len(s) + i] = t[i]
  BY <1>1, Joined
<1> HIDE DEF r
<1>3. /\ Len(r) = 5 /\ \A i \in 1..3 : r[i] = s[i]
      /\ \A i \in 1..2 : r[3 + i] = t[i]
  BY <1>1, <1>2
<1>4. r[1] = s[1] /\ r[2] = s[2] /\ r[3] = s[3]
  BY <1>3
<1>5. r[4] = t[1] /\ r[5] = t[2]
  BY <1>3
<1>6. Is5(r, a, b, c, d, e)
  BY <1>2, <1>3, <1>4, <1>5 DEF Is3, Is2, Is5
<1> QED BY <1>6 DEF r

LEMMA Join33 ==
  ASSUME NEW s, NEW t, NEW a, NEW b, NEW c, NEW d, NEW e, NEW f,
         Is3(s, a, b, c), Is3(t, d, e, f)
  PROVE  Is6(s \o t, a, b, c, d, e, f)
<1> DEFINE r == s \o t
<1>1. s \in Seq(Steps) /\ t \in Seq(Steps) /\ Len(s) = 3 /\ Len(t) = 3
  BY DEF Is3, Is3
<1>2. /\ r \in Seq(Steps) /\ Len(r) = Len(s) + Len(t)
      /\ \A i \in 1..Len(s) : r[i] = s[i]
      /\ \A i \in 1..Len(t) : r[Len(s) + i] = t[i]
  BY <1>1, Joined
<1> HIDE DEF r
<1>3. /\ Len(r) = 6 /\ \A i \in 1..3 : r[i] = s[i]
      /\ \A i \in 1..3 : r[3 + i] = t[i]
  BY <1>1, <1>2
<1>4. r[1] = s[1] /\ r[2] = s[2] /\ r[3] = s[3]
  BY <1>3
<1>5. r[4] = t[1] /\ r[5] = t[2] /\ r[6] = t[3]
  BY <1>3
<1>6. Is6(r, a, b, c, d, e, f)
  BY <1>2, <1>3, <1>4, <1>5 DEF Is3, Is3, Is6
<1> QED BY <1>6 DEF r

\* The main m is b and five steps more.
Ending(m, b, x, y, z, u, v) ==
  /\ m \in Seq(Steps) /\ Len(b) \in Nat /\ Len(m) = Len(b) + 5
  /\ \A i \in 1..Len(b) : m[i] = b[i]
  /\ m[Len(b) + 1] = x /\ m[Len(b) + 2] = y /\ m[Len(b) + 3] = z
  /\ m[Len(b) + 4] = u /\ m[Len(b) + 5] = v

LEMMA JoinEnd ==
  ASSUME NEW b \in Seq(Steps), NEW w, NEW e, NEW x, NEW y, NEW z, NEW u, NEW v,
         Is3(w, x, y, z), Is2(e, u, v)
  PROVE  Ending(b \o w \o e, b, x, y, z, u, v)
<1> DEFINE n == Len(b)
           r == b \o w
           m == r \o e
<1>1. w \in Seq(Steps) /\ e \in Seq(Steps) /\ Len(w) = 3 /\ Len(e) = 2 /\ n \in Nat
  BY DEF Is2, Is3
<1>2. /\ r \in Seq(Steps) /\ Len(r) = n + Len(w)
      /\ \A i \in 1..n : r[i] = b[i]
      /\ \A i \in 1..Len(w) : r[n + i] = w[i]
  BY <1>1, Joined
<1> HIDE DEF r, n
<1>3. /\ m \in Seq(Steps) /\ Len(m) = Len(r) + Len(e)
      /\ \A i \in 1..Len(r) : m[i] = r[i]
      /\ \A i \in 1..Len(e) : m[Len(r) + i] = e[i]
  BY <1>1, <1>2, Joined
<1> HIDE DEF m
<1>4. /\ Len(r) = n + 3 /\ Len(m) = n + 5
      /\ \A i \in 1..n : m[i] = b[i]
      /\ \A i \in 1..3 : r[n + i] = w[i]
      /\ \A i \in 1..2 : m[(n + 3) + i] = e[i]
  BY <1>1, <1>2, <1>3
<1>5. r[n + 1] = x /\ r[n + 2] = y /\ r[n + 3] = z
  BY <1>4 DEF Is3
<1>6. m[n + 1] = x /\ m[n + 2] = y /\ m[n + 3] = z
  BY <1>1, <1>3, <1>4, <1>5
<1>7. m[(n + 3) + 1] = u /\ m[(n + 3) + 2] = v
  BY <1>4 DEF Is2
<1>8. (n + 3) + 1 = n + 4 /\ (n + 3) + 2 = n + 5
  BY <1>1
<1>9. m[n + 4] = u /\ m[n + 5] = v
  BY <1>7, <1>8
<1> QED BY <1>1, <1>3, <1>4, <1>6, <1>9 DEF m, r, n, Ending

\* cron frees its configuration between the loop and the join.
LEMMA CronInPlace == InPlace("cron", cron_main)
<1> DEFINE b == Begin \o <<"connect">>
           f == <<"free">>
           r == b \o Work
           q == r \o f
           m == q \o End
<1>1. /\ Is4(b, "parseconfig", "daemonize", "openlog", "connect")
      /\ Is1(f, "free") /\ Is3(Work, "start", "activate", "loop") /\ Is2(End, "join", "disconnect")
  BY Pieces, Join31
<1>2. /\ b \in Seq(Steps) /\ Len(b) = 4 /\ Work \in Seq(Steps) /\ Len(Work) = 3
      /\ f \in Seq(Steps) /\ Len(f) = 1 /\ End \in Seq(Steps) /\ Len(End) = 2
  BY <1>1 DEF Is1, Is2, Is3, Is4
<1> HIDE DEF b, f
<1>3. /\ r \in Seq(Steps) /\ Len(r) = Len(b) + Len(Work)
      /\ \A i \in 1..Len(b) : r[i] = b[i]
      /\ \A i \in 1..Len(Work) : r[Len(b) + i] = Work[i]
  BY <1>2, Joined
<1> HIDE DEF r
<1>4. /\ q \in Seq(Steps) /\ Len(q) = Len(r) + Len(f)
      /\ \A i \in 1..Len(r) : q[i] = r[i]
      /\ \A i \in 1..Len(f) : q[Len(r) + i] = f[i]
  BY <1>2, <1>3, Joined
<1> HIDE DEF q
<1>5. /\ m \in Seq(Steps) /\ Len(m) = Len(q) + Len(End)
      /\ \A i \in 1..Len(q) : m[i] = q[i]
      /\ \A i \in 1..Len(End) : m[Len(q) + i] = End[i]
  BY <1>2, <1>4, Joined
<1> HIDE DEF m
<1>6. /\ Len(r) = 7 /\ Len(q) = 8 /\ Len(m) = 10
      /\ \A i \in 1..4 : r[i] = b[i]
      /\ \A i \in 1..3 : r[4 + i] = Work[i]
      /\ \A i \in 1..7 : q[i] = r[i]
      /\ \A i \in 1..1 : q[7 + i] = f[i]
      /\ \A i \in 1..8 : m[i] = q[i]
      /\ \A i \in 1..2 : m[8 + i] = End[i]
  BY <1>2, <1>3, <1>4, <1>5
<1>7. /\ r[1] = "parseconfig" /\ r[2] = "daemonize" /\ r[3] = "openlog" /\ r[4] = "connect"
      /\ r[5] = "start" /\ r[6] = "activate" /\ r[7] = "loop"
  <2>1. /\ r[1] = b[1] /\ r[2] = b[2] /\ r[3] = b[3] /\ r[4] = b[4]
        /\ r[4 + 1] = Work[1] /\ r[4 + 2] = Work[2] /\ r[4 + 3] = Work[3]
    BY <1>6
  <2> QED BY <1>1, <2>1 DEF Is3, Is4
<1>8. /\ q[1] = "parseconfig" /\ q[2] = "daemonize" /\ q[3] = "openlog" /\ q[4] = "connect"
      /\ q[5] = "start" /\ q[6] = "activate" /\ q[7] = "loop" /\ q[8] = "free"
  <2>1. q[7 + 1] = f[1]
    BY <1>6
  <2>2. q[8] = "free"
    BY <1>1, <2>1 DEF Is1
  <2> QED BY <1>6, <1>7, <2>2
<1>9. /\ m[1] = "parseconfig" /\ m[2] = "daemonize" /\ m[3] = "openlog" /\ m[4] = "connect"
      /\ m[5] = "start" /\ m[6] = "activate" /\ m[7] = "loop" /\ m[8] = "free"
      /\ m[9] = "join" /\ m[10] = "disconnect"
  <2>1. m[8 + 1] = End[1] /\ m[8 + 2] = End[2]
    BY <1>6
  <2>2. m[9] = "join" /\ m[10] = "disconnect"
    BY <1>1, <2>1 DEF Is2
  <2> QED BY <1>6, <1>8, <2>2
<1>10. m \in Seq(Steps) /\ Len(m) = 10
  BY <1>5, <1>6
<1>11. InPlace("cron", m)
  <2>1. \A i \in 1..10 : i = 1 \/ i = 2 \/ i = 3 \/ i = 4 \/ i = 5 \/ i = 6 \/ i = 7 \/ i = 8 \/ i = 9 \/ i = 10
    OBVIOUS
  <2> QED BY <1>9, <1>10, <2>1 DEF InPlace, ConnectAt, StartAt, ActivateAt, LoopAt, JoinAt
<1> QED BY <1>11 DEF m, q, r, b, f, cron_main

LEMMA ServerInPlace ==
  ASSUME NEW prog \in {"gpio", "can"}
  PROVE  InPlace(prog, Begin \o <<"connect">> \o Work \o End)
<1> DEFINE b == Begin \o <<"connect">>
           m == b \o Work \o End
<1>1. /\ Is4(b, "parseconfig", "daemonize", "openlog", "connect")
      /\ Is3(Work, "start", "activate", "loop") /\ Is2(End, "join", "disconnect")
  BY Pieces, Join31
<1>2. b \in Seq(Steps) /\ Len(b) = 4
  BY <1>1 DEF Is4
<1> HIDE DEF b
<1>m. Ending(m, b, "start", "activate", "loop", "join", "disconnect")
  BY <1>1, <1>2, JoinEnd
<1> HIDE DEF m
<1>3. /\ m \in Seq(Steps) /\ Len(m) = 4 + 5
      /\ \A i \in 1..4 : m[i] = b[i]
      /\ m[4 + 1] = "start" /\ m[4 + 2] = "activate" /\ m[4 + 3] = "loop"
      /\ m[4 + 4] = "join" /\ m[4 + 5] = "disconnect"
  BY <1>2, <1>m DEF Ending
<1>4. /\ Len(m) = 9 /\ m[1] = "parseconfig" /\ m[2] = "daemonize" /\ m[3] = "openlog"
      /\ m[4] = "connect" /\ m[5] = "start" /\ m[6] = "activate" /\ m[7] = "loop"
      /\ m[8] = "join" /\ m[9] = "disconnect"
  BY <1>1, <1>3 DEF Is4
<1>5. InPlace(prog, m)
  <2>1. \A i \in 1..9 : i = 1 \/ i = 2 \/ i = 3 \/ i = 4 \/ i = 5 \/ i = 6 \/ i = 7 \/ i = 8 \/ i = 9
    OBVIOUS
  <2> QED BY <1>3, <1>4, <2>1 DEF InPlace, ConnectAt, StartAt, ActivateAt, LoopAt, JoinAt
<1> QED BY <1>5 DEF m, b

LEMMA DeviceInPlace ==
  ASSUME NEW prog \in {"tty", "speech"}
  PROVE  InPlace(prog, Begin \o <<"device", "connect">> \o Work \o End)
<1> DEFINE b == Begin \o <<"device", "connect">>
           m == b \o Work \o End
<1>1. /\ Is5(b, "parseconfig", "daemonize", "openlog", "device", "connect")
      /\ Is3(Work, "start", "activate", "loop") /\ Is2(End, "join", "disconnect")
  BY Pieces, Join32
<1>2. b \in Seq(Steps) /\ Len(b) = 5
  BY <1>1 DEF Is5
<1> HIDE DEF b
<1>m. Ending(m, b, "start", "activate", "loop", "join", "disconnect")
  BY <1>1, <1>2, JoinEnd
<1> HIDE DEF m
<1>3. /\ m \in Seq(Steps) /\ Len(m) = 5 + 5
      /\ \A i \in 1..5 : m[i] = b[i]
      /\ m[5 + 1] = "start" /\ m[5 + 2] = "activate" /\ m[5 + 3] = "loop"
      /\ m[5 + 4] = "join" /\ m[5 + 5] = "disconnect"
  BY <1>2, <1>m DEF Ending
<1>4. /\ Len(m) = 10 /\ m[1] = "parseconfig" /\ m[2] = "daemonize" /\ m[3] = "openlog"
      /\ m[4] = "device" /\ m[5] = "connect" /\ m[6] = "start" /\ m[7] = "activate"
      /\ m[8] = "loop" /\ m[9] = "join" /\ m[10] = "disconnect"
  BY <1>1, <1>3 DEF Is5
<1>5. InPlace(prog, m)
  <2>1. \A i \in 1..10 : i = 1 \/ i = 2 \/ i = 3 \/ i = 4 \/ i = 5 \/ i = 6 \/ i = 7 \/ i = 8 \/ i = 9 \/ i = 10
    OBVIOUS
  <2> QED BY <1>3, <1>4, <2>1 DEF InPlace, ConnectAt, StartAt, ActivateAt, LoopAt, JoinAt
<1> QED BY <1>5 DEF m, b

LEMMA SphinxInPlace == InPlace("sphinx", sphinx_main)
<1> DEFINE b == <<"parseconfig", "daemonize", "connect">> \o <<"openlog", "device", "connect">>
           m == b \o Work \o End
<1>1. /\ Is6(b, "parseconfig", "daemonize", "connect", "openlog", "device", "connect")
      /\ Is3(Work, "start", "activate", "loop") /\ Is2(End, "join", "disconnect")
  BY Pieces, Join33
<1>2. b \in Seq(Steps) /\ Len(b) = 6
  BY <1>1 DEF Is6
<1> HIDE DEF b
<1>m. Ending(m, b, "start", "activate", "loop", "join", "disconnect")
  BY <1>1, <1>2, JoinEnd
<1> HIDE DEF m
<1>3. /\ m \in Seq(Steps) /\ Len(m) = 6 + 5
      /\ \A i \in 1..6 : m[i] = b[i]
      /\ m[6 + 1] = "start" /\ m[6 + 2] = "activate" /\ m[6 + 3] = "loop"
      /\ m[6 + 4] = "join" /\ m[6 + 5] = "disconnect"
  BY <1>2, <1>m DEF Ending
<1>4. /\ Len(m) = 11 /\ m[1] = "parseconfig" /\ m[2] = "daemonize" /\ m[3] = "connect"
      /\ m[4] = "openlog" /\ m[5] = "device" /\ m[6] = "connect" /\ m[7] = "start"
      /\ m[8] = "activate" /\ m[9] = "loop" /\ m[10] = "join" /\ m[11] = "disconnect"
  BY <1>1, <1>3 DEF Is6
<1>5. InPlace("sphinx", m)
  <2>1. \A i \in 1..11 : i = 1 \/ i = 2 \/ i = 3 \/ i = 4 \/ i = 5 \/ i = 6 \/ i = 7 \/ i = 8 \/ i = 9 \/ i = 10 \/ i = 11
    OBVIOUS
  <2> QED BY <1>3, <1>4, <2>1 DEF InPlace, ConnectAt, StartAt, ActivateAt, LoopAt, JoinAt
<1> QED BY <1>5 DEF m, b, sphinx_main

LEMMA QueueInPlace == InPlace("queue", queue_main)
<1> DEFINE b == Begin \o <<"connect">>
           m == b \o <<"start", "activate", "device">> \o <<"loop", "join">>
<1>1. /\ Is4(b, "parseconfig", "daemonize", "openlog", "connect")
      /\ Is3(<<"start", "activate", "device">>, "start", "activate", "device")
      /\ Is2(<<"loop", "join">>, "loop", "join")
  BY Pieces, Join31
<1>2. b \in Seq(Steps) /\ Len(b) = 4
  BY <1>1 DEF Is4
<1> HIDE DEF b
<1>m. Ending(m, b, "start", "activate", "device", "loop", "join")
  BY <1>1, <1>2, JoinEnd
<1> HIDE DEF m
<1>3. /\ m \in Seq(Steps) /\ Len(m) = 4 + 5
      /\ \A i \in 1..4 : m[i] = b[i]
      /\ m[4 + 1] = "start" /\ m[4 + 2] = "activate" /\ m[4 + 3] = "device"
      /\ m[4 + 4] = "loop" /\ m[4 + 5] = "join"
  BY <1>2, <1>m DEF Ending
<1>4. /\ Len(m) = 9 /\ m[1] = "parseconfig" /\ m[2] = "daemonize" /\ m[3] = "openlog"
      /\ m[4] = "connect" /\ m[5] = "start" /\ m[6] = "activate" /\ m[7] = "device"
      /\ m[8] = "loop" /\ m[9] = "join"
  BY <1>1, <1>3 DEF Is4
<1>5. InPlace("queue", m)
  <2>1. \A i \in 1..9 : i = 1 \/ i = 2 \/ i = 3 \/ i = 4 \/ i = 5 \/ i = 6 \/ i = 7 \/ i = 8 \/ i = 9
    OBVIOUS
  <2> QED BY <1>3, <1>4, <2>1 DEF InPlace, ConnectAt, StartAt, ActivateAt, LoopAt, JoinAt
<1> QED BY <1>5 DEF m, b, queue_main

LEMMA LuaInPlace == InPlace("lua", lua_main)
<1> DEFINE b == <<"parseconfig", "openlog">> \o <<"connect", "device">>
           m == b \o Work \o End
<1>1. /\ Is4(b, "parseconfig", "openlog", "connect", "device")
      /\ Is3(Work, "start", "activate", "loop") /\ Is2(End, "join", "disconnect")
  BY Pieces, Join22
<1>2. b \in Seq(Steps) /\ Len(b) = 4
  BY <1>1 DEF Is4
<1> HIDE DEF b
<1>m. Ending(m, b, "start", "activate", "loop", "join", "disconnect")
  BY <1>1, <1>2, JoinEnd
<1> HIDE DEF m
<1>3. /\ m \in Seq(Steps) /\ Len(m) = 4 + 5
      /\ \A i \in 1..4 : m[i] = b[i]
      /\ m[4 + 1] = "start" /\ m[4 + 2] = "activate" /\ m[4 + 3] = "loop"
      /\ m[4 + 4] = "join" /\ m[4 + 5] = "disconnect"
  BY <1>2, <1>m DEF Ending
<1>4. /\ Len(m) = 9 /\ m[1] = "parseconfig" /\ m[2] = "openlog" /\ m[3] = "connect"
      /\ m[4] = "device" /\ m[5] = "start" /\ m[6] = "activate" /\ m[7] = "loop"
      /\ m[8] = "join" /\ m[9] = "disconnect"
  BY <1>1, <1>3 DEF Is4
<1>5. InPlace("lua", m)
  <2>1. \A i \in 1..9 : i = 1 \/ i = 2 \/ i = 3 \/ i = 4 \/ i = 5 \/ i = 6 \/ i = 7 \/ i = 8 \/ i = 9
    OBVIOUS
  <2> QED BY <1>3, <1>4, <2>1 DEF InPlace, ConnectAt, StartAt, ActivateAt, LoopAt, JoinAt
<1> QED BY <1>5 DEF m, b, lua_main

LEMMA MainsInPlace == \A prog \in DOMAIN Mains : InPlace(prog, Mains[prog])
<1>1. /\ DOMAIN Mains = {"cron", "gpio", "can", "tty", "speech", "sphinx", "queue", "lua"}
      /\ Mains["cron"] = cron_main /\ Mains["sphinx"] = sphinx_main
      /\ Mains["queue"] = queue_main /\ Mains["lua"] = lua_main
      /\ Mains["gpio"] = gpio_main /\ Mains["can"] = can_main
      /\ Mains["tty"] = tty_main /\ Mains["speech"] = speech_main
  BY DEF Mains
<1>2. InPlace("gpio", gpio_main) /\ InPlace("can", can_main)
  BY ServerInPlace DEF gpio_main, can_main
<1>3. InPlace("tty", tty_main) /\ InPlace("speech", speech_main)
  BY DeviceInPlace DEF tty_main, speech_main
<1> QED BY <1>1, <1>2, <1>3, CronInPlace, SphinxInPlace, QueueInPlace, LuaInPlace

-----------------------------------------------------------------------------
(***************************************************************************)
(* Where a process is in its main, and what it has done before it got      *)
(* there.                                                                  *)
(***************************************************************************)
RestOf(prog, todo) ==
  /\ todo \in Seq(Steps)
  /\ Len(todo) <= Len(Mains[prog])
  /\ \A i \in 1..Len(todo) : todo[i] = Mains[prog][(Len(Mains[prog]) - Len(todo)) + i]

\* The connections there are with n steps to do.
SocketsAt(prog, n) ==
  IF prog = "sphinx"
  THEN IF n >= 9 THEN 0 ELSE IF n >= 6 THEN 1 ELSE IF n >= 1 THEN 2 ELSE 1
  ELSE IF prog = "queue"
  THEN IF n >= 6 THEN 0 ELSE 1
  ELSE IF prog \in {"cron", "lua"}
  THEN IF n >= 7 THEN 0 ELSE IF n >= 1 THEN 1 ELSE 0
  ELSE IF n >= 6 THEN 0 ELSE IF n >= 1 THEN 1 ELSE 0

Placed(prog, todo, listener, running, terms, handlers, sockets) ==
  /\ RestOf(prog, todo)
  /\ Len(todo) < JoinAt(prog) => listener = "ended"
  /\ Len(todo) < LoopAt(prog) => ~running
  /\ Len(todo) < ActivateAt(prog) => "late" \in terms \/ listener = "none" \/ running
  /\ terms # {} => handlers
  /\ prog = "cron" => Len(todo) >= 3
  /\ prog = "lua" => ~handlers
  /\ sockets = SocketsAt(prog, Len(todo))

PlacedState(prog, s) ==
  /\ Placed(prog, s.todo, s.listener, s.running, s.terms, s.handlers, s.sockets)
  /\ s.handlers \in BOOLEAN
  /\ s.fate = "returned" => s.todo = <<>>

AllPlaced == \A p \in Processes : PlacedState(program[p], process[p])

PlacedInv == MainInv /\ MainTyped /\ AllPlaced

\* The step that comes next is determined by how many there are still to do.
LEMMA NextInPlace ==
  ASSUME NEW prog \in DOMAIN Mains, NEW todo, RestOf(prog, todo), todo # <<>>,
         NEW n, n = Len(todo)
  PROVE  /\ n \in Nat \ {0} /\ Len(Tail(todo)) = n - 1
         /\ RestOf(prog, Tail(todo))
         /\ Head(todo) = "connect" <=> n \in ConnectAt(prog)
         /\ Head(todo) = "start" <=> n = StartAt(prog)
         /\ Head(todo) = "activate" <=> n = ActivateAt(prog)
         /\ Head(todo) = "loop" <=> n = LoopAt(prog)
         /\ Head(todo) = "free" <=> prog = "cron" /\ n = 3
         /\ Head(todo) = "join" <=> n = JoinAt(prog)
         /\ Head(todo) = "disconnect" <=> prog # "queue" /\ n = 1
         /\ Head(todo) = "daemonize" => prog # "lua"
<1> DEFINE m == Mains[prog]
<1>1. InPlace(prog, m)
  BY MainsInPlace
<1>2. m \in Seq(Steps) /\ Len(m) \in Nat
  BY <1>1 DEF InPlace
<1> HIDE DEF m
<1>3. /\ todo \in Seq(Steps) /\ n <= Len(m)
      /\ \A i \in 1..n : todo[i] = m[(Len(m) - n) + i]
  BY DEF RestOf, m
<1>4. /\ n \in Nat \ {0} /\ Tail(todo) \in Seq(Steps) /\ Len(Tail(todo)) = n - 1
      /\ Head(todo) = todo[1]
  BY <1>3
<1>5. \A i \in 1..(n - 1) : Tail(todo)[i] = todo[i + 1]
  BY <1>3, <1>4
<1>6. RestOf(prog, Tail(todo))
  <2> DEFINE t == Tail(todo)
  <2>1. \A i \in 1..(n - 1) : t[i] = todo[i + 1] /\ i + 1 \in 1..n
    BY <1>4, <1>5
  <2>2. \A i \in 1..(n - 1) : (Len(m) - n) + (i + 1) = (Len(m) - (n - 1)) + i
    BY <1>2, <1>4
  <2>3. \A i \in 1..(n - 1) : t[i] = m[(Len(m) - (n - 1)) + i]
    BY <1>3, <2>1, <2>2
  <2>4. n - 1 <= Len(m)
    BY <1>2, <1>3, <1>4
  <2> QED BY <1>4, <2>3, <2>4 DEF RestOf, m
<1> DEFINE i == (Len(m) - n) + 1
<1>7. i \in 1..Len(m) /\ Len(m) - i + 1 = n /\ Head(todo) = m[i]
  BY <1>2, <1>3, <1>4
<1> HIDE DEF i
<1>8. /\ m[i] = "connect" <=> Len(m) - i + 1 \in ConnectAt(prog)
      /\ m[i] = "start" <=> Len(m) - i + 1 = StartAt(prog)
      /\ m[i] = "activate" <=> Len(m) - i + 1 = ActivateAt(prog)
      /\ m[i] = "loop" <=> Len(m) - i + 1 = LoopAt(prog)
      /\ m[i] = "free" <=> prog = "cron" /\ Len(m) - i + 1 = 3
      /\ m[i] = "join" <=> Len(m) - i + 1 = JoinAt(prog)
      /\ m[i] = "disconnect" <=> prog # "queue" /\ Len(m) - i + 1 = 1
      /\ m[i] = "daemonize" => prog # "lua"
  BY <1>1, <1>7 DEF InPlace
<1> QED BY <1>4, <1>6, <1>7, <1>8

\* Each connection is made, and closed, where SocketsAt has it.
LEMMA NextSockets ==
  ASSUME NEW prog \in DOMAIN Mains, NEW todo, RestOf(prog, todo), todo # <<>>
  PROVE  SocketsAt(prog, Len(Tail(todo))) =
           IF Head(todo) = "connect" THEN SocketsAt(prog, Len(todo)) + 1
           ELSE IF Head(todo) = "disconnect" THEN SocketsAt(prog, Len(todo)) - 1
           ELSE SocketsAt(prog, Len(todo))
<1> DEFINE n == Len(todo)
<1>1. /\ n \in Nat \ {0} /\ Len(Tail(todo)) = n - 1
      /\ Head(todo) = "connect" <=> n \in ConnectAt(prog)
      /\ Head(todo) = "disconnect" <=> prog # "queue" /\ n = 1
  BY NextInPlace
<1> HIDE DEF n
<1>2. CASE prog = "sphinx"
  BY <1>1, <1>2, SMTT(30) DEF SocketsAt, ConnectAt, n
<1>3. CASE prog # "sphinx"
  <2>1. SocketsAt(prog, n - 1) = IF Head(todo) = "connect" THEN SocketsAt(prog, n) + 1
                                 ELSE IF Head(todo) = "disconnect" THEN SocketsAt(prog, n) - 1
                                 ELSE SocketsAt(prog, n)
    BY <1>1, <1>3 DEF SocketsAt, ConnectAt
  <2> QED BY <1>1, <2>1 DEF n
<1> QED BY <1>2, <1>3

\* What a step of main does to the listener, running, the handlers and the
\* connections.
StepDone(step, listener, running, handlers, sockets, l, r, h, k) ==
  /\ step # "free"
  /\ step # "start" => l = listener
  /\ step = "join" => listener = "ended" /\ ~r
  /\ step = "loop" => ~running
  /\ step = "activate" => (listener # "none" => r)
  /\ step \notin {"activate", "join"} => r = running
  /\ step # "daemonize" => h = handlers
  /\ handlers => h
  /\ k = IF step = "connect" THEN sockets + 1
         ELSE IF step = "disconnect" THEN sockets - 1 ELSE sockets

\* A process that does the next step of its main.
LEMMA GoPlaced ==
  ASSUME NEW prog \in DOMAIN Mains, NEW todo, NEW listener, NEW running \in BOOLEAN,
         NEW terms, NEW handlers \in BOOLEAN, NEW sockets,
         Placed(prog, todo, listener, running, terms, handlers, sockets),
         todo # <<>>,
         NEW l, NEW r \in BOOLEAN, NEW h \in BOOLEAN, NEW k,
         StepDone(Head(todo), listener, running, handlers, sockets, l, r, h, k)
  PROVE  Placed(prog, Tail(todo), l, r, terms, h, k)
<1> DEFINE n == Len(todo)
<1>1. RestOf(prog, todo)
  BY DEF Placed
<1>2. /\ n \in Nat \ {0} /\ Len(Tail(todo)) = n - 1
      /\ RestOf(prog, Tail(todo))
      /\ Head(todo) = "start" <=> n = StartAt(prog)
      /\ Head(todo) = "activate" <=> n = ActivateAt(prog)
      /\ Head(todo) = "loop" <=> n = LoopAt(prog)
      /\ ~(prog = "cron" /\ n = 3)
      /\ Head(todo) = "join" <=> n = JoinAt(prog)
      /\ Head(todo) = "daemonize" => prog # "lua"
  BY <1>1, NextInPlace DEF StepDone
<1>3. /\ n < JoinAt(prog) => listener = "ended"
      /\ n < LoopAt(prog) => ~running
      /\ n < ActivateAt(prog) => "late" \in terms \/ listener = "none" \/ running
      /\ prog = "cron" => n >= 3
  BY DEF Placed
<1>4. k = SocketsAt(prog, Len(Tail(todo)))
  BY <1>1, NextSockets DEF Placed, StepDone
<1> HIDE DEF n
<1>5. n - 1 < JoinAt(prog) => l = "ended"
  BY <1>2, <1>3 DEF StepDone, JoinAt, StartAt
<1>6. n - 1 < LoopAt(prog) => ~r
  BY <1>2, <1>3 DEF StepDone, JoinAt, LoopAt, ActivateAt
<1>7. n - 1 < ActivateAt(prog) => "late" \in terms \/ l = "none" \/ r
  BY <1>2, <1>3 DEF StepDone, JoinAt, LoopAt, ActivateAt, StartAt
<1>8. prog = "cron" => n - 1 >= 3
  BY <1>2, <1>3
<1>9. (terms # {} => h) /\ (prog = "lua" => ~h)
  BY <1>2 DEF Placed, StepDone
<1> QED BY <1>2, <1>4, <1>5, <1>6, <1>7, <1>8, <1>9 DEF Placed

LEMMA OnePlaced ==
  ASSUME MainInv, AllPlaced, NEW p \in Processes, NEW s,
         process' = [process EXCEPT ![p] = s], program' = program,
         PlacedState(program[p], s)
  PROVE  AllPlaced'
<1> SUFFICES ASSUME NEW q \in Processes PROVE PlacedState(program[q], process'[q])
  BY DEF AllPlaced
<1>1. CASE q = p
  BY <1>1 DEF MainInv, Records
<1>2. CASE q # p
  <2>1. process'[q] = process[q]
    BY <1>2 DEF MainInv, Records
  <2> QED BY <2>1 DEF AllPlaced
<1> QED BY <1>1, <1>2

\* A process that goes on with the state s.
LEMMA GoesPlaced ==
  ASSUME PlacedInv, NEW p \in Processes, NEW step, At(p, step), NEW s, Goes(p, s),
         DOMAIN s = Fields, s.todo = process[p].todo, s.terms = process[p].terms,
         s.handlers = process[p].handlers, s.fate = process[p].fate,
         s.running \in BOOLEAN, step # "free",
         step # "start" => s.listener = process[p].listener,
         step = "join" => process[p].listener = "ended" /\ ~s.running,
         step = "loop" => ~process[p].running,
         step = "activate" => (process[p].listener # "none" => s.running),
         step \notin {"activate", "join"} => s.running = process[p].running,
         s.sockets = IF step = "connect" THEN process[p].sockets + 1
                     ELSE IF step = "disconnect" THEN process[p].sockets - 1
                     ELSE process[p].sockets
  PROVE  AllPlaced'
<1> DEFINE old == process[p]
           new == [s EXCEPT !.todo = Tail(@)]
<1>1. /\ old.todo # <<>> /\ Head(old.todo) = step /\ old.fate = "alive"
      /\ old.running \in BOOLEAN
  BY DEF At, Alive, PlacedInv, MainInv, Signalled, SignalledState
<1>2. process' = [process EXCEPT ![p] = new] /\ program' = program
  BY DEF Goes
<1>3. /\ new.todo = Tail(old.todo) /\ new.terms = old.terms /\ new.handlers = old.handlers
      /\ new.fate = "alive" /\ new.running = s.running /\ new.listener = s.listener
      /\ new.sockets = s.sockets
  BY <1>1 DEF Fields
<1>4. PlacedState(program[p], old) /\ program[p] \in DOMAIN Mains
  BY DEF PlacedInv, AllPlaced, MainTyped
<1>5. /\ Placed(program[p], old.todo, old.listener, old.running, old.terms, old.handlers,
                old.sockets)
      /\ old.handlers \in BOOLEAN
  BY <1>4 DEF PlacedState
<1>a. StepDone(Head(old.todo), old.listener, old.running, old.handlers, old.sockets,
               s.listener, s.running, old.handlers, s.sockets)
  BY <1>1 DEF StepDone
<1> HIDE DEF old, new
<1>6. Placed(program[p], Tail(old.todo), s.listener, s.running, old.terms, old.handlers, s.sockets)
  BY <1>1, <1>4, <1>5, <1>a, GoPlaced
<1>7. PlacedState(program[p], new)
  BY <1>3, <1>5, <1>6 DEF PlacedState
<1> QED BY <1>2, <1>7, OnePlaced DEF PlacedInv

\* A process that is at a step, with the types of its state.
LEMMA AtPlaced ==
  ASSUME PlacedInv, NEW p \in Processes
  PROVE  /\ DOMAIN process[p] = Fields /\ process[p].running \in BOOLEAN
         /\ program[p] \in DOMAIN Mains /\ PlacedState(program[p], process[p])
         /\ process[p].todo \in Seq(Steps)
  BY DEF PlacedInv, MainInv, Records, Signalled, SignalledState, MainTyped, AllPlaced

LEMMA NewPlaced ==
  ASSUME NEW prog \in DOMAIN Mains, NEW f, f # "returned"
  PROVE  PlacedState(prog, NewProcess(prog, f))
<1> DEFINE s == NewProcess(prog, f)
           m == Mains[prog]
<1>1. /\ s.todo = m /\ s.listener = "none" /\ s.running = TRUE /\ s.terms = {}
      /\ s.handlers = FALSE /\ s.sockets = 0 /\ s.fate = f
  BY DEF NewProcess, RunningAtStart
<1>2. InPlace(prog, m)
  BY MainsInPlace
<1>3. m \in Seq(Steps) /\ Len(m) > 8 /\ Len(m) \in Nat
  BY <1>2 DEF InPlace
<1>4. RestOf(prog, m)
  <2>1. \A i \in 1..Len(m) : (Len(m) - Len(m)) + i = i
    BY <1>3
  <2> QED BY <1>3, <2>1 DEF RestOf
<1>5. prog = "sphinx" => Len(m) >= 9
  BY <1>3
<1> HIDE DEF s, m
<1>6. SocketsAt(prog, Len(m)) = 0
  BY <1>3, <1>5 DEF SocketsAt
<1>7. Placed(prog, m, "none", TRUE, {}, FALSE, 0)
  <2>1. /\ ~(Len(m) < JoinAt(prog)) /\ ~(Len(m) < LoopAt(prog)) /\ Len(m) >= 3
    BY <1>3 DEF JoinAt, LoopAt
  <2> QED BY <1>4, <1>6, <2>1 DEF Placed
<1> QED BY <1>1, <1>7 DEF PlacedState, s

LEMMA InitPlaced == MainInit => PlacedInv
<1> SUFFICES ASSUME MainInit PROVE PlacedInv
  OBVIOUS
<1>1. MainInv /\ MainTyped
  BY MainInitInv, MainAssumption DEF MainInit, MainTyped
<1>2. ASSUME NEW p \in Processes PROVE PlacedState(program[p], process[p])
  <2>1. process[p] = NewProcess(program[p], "absent") /\ program[p] \in DOMAIN Mains
    BY <1>1 DEF MainInit, MainTyped
  <2> QED BY <2>1, NewPlaced
<1> QED BY <1>1, <1>2 DEF PlacedInv, AllPlaced

\* The steps that go on with main.
LEMMA MainPlaced ==
  ASSUME PlacedInv, NEW p \in Processes,
         \/ ReadConfig(p) \/ Foreground(p) \/ OpenLog(p) \/ OpenDevice(p)
         \/ ConnectServer(p) \/ CreateListener(p) \/ Activate(p) \/ LeaveLoop(p)
         \/ JoinListener(p) \/ Disconnect(p)
  PROVE  AllPlaced' \/ \E f \in {"exited", "crashed"} : Ends(p, f)
<1> DEFINE old == process[p]
<1>1. /\ DOMAIN old = Fields /\ old.running \in BOOLEAN
  BY AtPlaced
<1>2. CASE \/ At(p, "daemonize") /\ Goes(p, old)
           \/ At(p, "device") /\ Goes(p, old)
           \/ At(p, "start") /\ Goes(p, old)
           \/ At(p, "loop") /\ ~old.running /\ Goes(p, old)
  BY <1>1, <1>2, GoesPlaced
<1>3. CASE ReadConfig(p)
  <2>1. PICK c : Goes(p, [old EXCEPT !.baseconfig = c])
    BY <1>3 DEF ReadConfig
  <2>2. At(p, "parseconfig")
    BY <1>3 DEF ReadConfig
  <2> DEFINE s == [old EXCEPT !.baseconfig = c]
  <2>3. /\ DOMAIN s = Fields /\ s.todo = old.todo /\ s.terms = old.terms
        /\ s.handlers = old.handlers /\ s.fate = old.fate /\ s.running = old.running
        /\ s.listener = old.listener /\ s.sockets = old.sockets
    BY <1>1 DEF Fields
  <2>4. Goes(p, s)
    BY <2>1
  <2> HIDE DEF s
  <2> QED BY <1>1, <2>2, <2>3, <2>4, GoesPlaced
<1>4. CASE OpenLog(p)
  <2>1. PICK l : Goes(p, [old EXCEPT !.loglevel = l])
    BY <1>4 DEF OpenLog
  <2>2. At(p, "openlog")
    BY <1>4 DEF OpenLog
  <2> DEFINE s == [old EXCEPT !.loglevel = l]
  <2>3. /\ DOMAIN s = Fields /\ s.todo = old.todo /\ s.terms = old.terms
        /\ s.handlers = old.handlers /\ s.fate = old.fate /\ s.running = old.running
        /\ s.listener = old.listener /\ s.sockets = old.sockets
    BY <1>1 DEF Fields
  <2>4. Goes(p, s)
    BY <2>1
  <2> HIDE DEF s
  <2> QED BY <1>1, <2>2, <2>3, <2>4, GoesPlaced
<1>5. CASE At(p, "connect") /\ Goes(p, [old EXCEPT !.sockets = @ + 1])
  <2> DEFINE s == [old EXCEPT !.sockets = @ + 1]
  <2>3. /\ DOMAIN s = Fields /\ s.todo = old.todo /\ s.terms = old.terms
        /\ s.handlers = old.handlers /\ s.fate = old.fate /\ s.running = old.running
        /\ s.listener = old.listener /\ s.sockets = old.sockets + 1
    BY <1>1 DEF Fields
  <2>4. Goes(p, s)
    BY <1>5
  <2> HIDE DEF s
  <2> QED BY <1>1, <1>5, <2>3, <2>4, GoesPlaced
<1>6. CASE Disconnect(p)
  <2> DEFINE s == [old EXCEPT !.sockets = @ - 1]
  <2>3. /\ DOMAIN s = Fields /\ s.todo = old.todo /\ s.terms = old.terms
        /\ s.handlers = old.handlers /\ s.fate = old.fate /\ s.running = old.running
        /\ s.listener = old.listener /\ s.sockets = old.sockets - 1
    BY <1>1 DEF Fields
  <2>4. Goes(p, s) /\ At(p, "disconnect")
    BY <1>6 DEF Disconnect
  <2> HIDE DEF s
  <2> QED BY <1>1, <2>3, <2>4, GoesPlaced
<1>7. CASE At(p, "start") /\ Goes(p, [old EXCEPT !.listener = "looks"])
  <2> DEFINE s == [old EXCEPT !.listener = "looks"]
  <2>3. /\ DOMAIN s = Fields /\ s.todo = old.todo /\ s.terms = old.terms
        /\ s.handlers = old.handlers /\ s.fate = old.fate /\ s.running = old.running
        /\ s.sockets = old.sockets
    BY <1>1 DEF Fields
  <2>4. Goes(p, s)
    BY <1>7
  <2> HIDE DEF s
  <2> QED BY <1>1, <1>7, <2>3, <2>4, GoesPlaced
<1>8. CASE Activate(p)
  <2> DEFINE s == [old EXCEPT !.running = @ \/ old.listener # "none"]
  <2>3. /\ DOMAIN s = Fields /\ s.todo = old.todo /\ s.terms = old.terms
        /\ s.handlers = old.handlers /\ s.fate = old.fate /\ s.listener = old.listener
        /\ s.sockets = old.sockets
    BY <1>1 DEF Fields
  <2>4. s.running \in BOOLEAN /\ (old.listener # "none" => s.running)
    BY <1>1 DEF Fields
  <2>5. Goes(p, s) /\ At(p, "activate")
    BY <1>8 DEF Activate
  <2> HIDE DEF s
  <2> QED BY <2>3, <2>4, <2>5, GoesPlaced
<1>9. CASE At(p, "join") /\ old.listener = "ended" /\ Goes(p, [old EXCEPT !.running = FALSE])
  <2> DEFINE s == [old EXCEPT !.running = FALSE]
  <2>3. /\ DOMAIN s = Fields /\ s.todo = old.todo /\ s.terms = old.terms
        /\ s.handlers = old.handlers /\ s.fate = old.fate /\ s.listener = old.listener
        /\ s.sockets = old.sockets
    BY <1>1 DEF Fields
  <2>4. Goes(p, s) /\ At(p, "join") /\ old.listener = "ended"
    BY <1>9
  <2>5. ~s.running /\ s.running \in BOOLEAN
    BY <1>1 DEF Fields
  <2> HIDE DEF s
  <2> QED BY <2>3, <2>4, <2>5, GoesPlaced
<1>10. CASE \E f \in {"exited", "crashed"} : Ends(p, f)
  BY <1>10
<1>11. CASE Foreground(p) \/ OpenDevice(p) \/ LeaveLoop(p)
  BY <1>2, <1>10, <1>11 DEF Foreground, OpenDevice, LeaveLoop
<1>12. CASE ConnectServer(p)
  BY <1>5, <1>10, <1>12 DEF ConnectServer
<1>13. CASE CreateListener(p) \/ JoinListener(p)
  BY <1>2, <1>7, <1>9, <1>10, <1>13 DEF CreateListener, JoinListener
<1> QED BY <1>3, <1>4, <1>6, <1>8, <1>11, <1>12, <1>13

\* A process that ends keeps its place.
LEMMA EndPlaced ==
  ASSUME PlacedInv, NEW p \in Processes, NEW f, Ends(p, f),
         f = "returned" => process[p].todo = <<>>
  PROVE  AllPlaced'
<1> DEFINE old == process[p]
           s == [old EXCEPT !.fate = f]
<1>1. process' = [process EXCEPT ![p] = s] /\ program' = program
  BY DEF Ends
<1>2. DOMAIN old = Fields /\ PlacedState(program[p], old)
  BY AtPlaced
<1>3. /\ s.todo = old.todo /\ s.terms = old.terms
      /\ s.handlers = old.handlers /\ s.fate = f /\ s.listener = old.listener
      /\ s.sockets = old.sockets /\ s.running = old.running
  BY <1>2 DEF Fields
<1>4. PlacedState(program[p], s)
  BY <1>2, <1>3 DEF PlacedState
<1> HIDE DEF s
<1> QED BY <1>1, <1>4, OnePlaced DEF PlacedInv

LEMMA DaemonPlaced ==
  ASSUME PlacedInv, NEW p \in Processes, daemonize(p)
  PROVE  AllPlaced' \/ Ends(p, "exited")
<1> DEFINE old == process[p]
           s == [old EXCEPT !.todo = Tail(@), !.handlers = TRUE]
<1>1. At(p, "daemonize")
  BY DEF daemonize
<1>2. CASE Goes(p, old)
  BY <1>1, <1>2, AtPlaced, GoesPlaced
<1>3. CASE process' = [process EXCEPT ![p].todo = Tail(@), ![p].handlers = TRUE]
           /\ program' = program
  <2>1. process' = [process EXCEPT ![p] = s]
    BY <1>3, AtPlaced
  <2>2. /\ DOMAIN old = Fields /\ PlacedState(program[p], old) /\ old.running \in BOOLEAN
        /\ program[p] \in DOMAIN Mains
    BY AtPlaced
  <2>3. /\ s.todo = Tail(old.todo) /\ s.terms = old.terms
        /\ s.handlers = TRUE /\ s.fate = old.fate /\ s.listener = old.listener
        /\ s.sockets = old.sockets /\ s.running = old.running
    BY <2>2 DEF Fields
  <2>4. old.todo # <<>> /\ Head(old.todo) = "daemonize" /\ old.fate = "alive"
    BY <1>1 DEF At, Alive
  <2>5. Placed(program[p], old.todo, old.listener, old.running, old.terms, old.handlers,
               old.sockets)
        /\ old.handlers \in BOOLEAN
    BY <2>2 DEF PlacedState
  <2> HIDE DEF s, old
  <2>a. StepDone(Head(old.todo), old.listener, old.running, old.handlers, old.sockets,
                 old.listener, old.running, TRUE, old.sockets)
    BY <2>4 DEF StepDone
  <2>6. Placed(program[p], Tail(old.todo), old.listener, old.running, old.terms, TRUE,
               old.sockets)
    BY <2>2, <2>4, <2>5, <2>a, GoPlaced
  <2>7. PlacedState(program[p], s)
    BY <2>3, <2>4, <2>6 DEF PlacedState
  <2> QED BY <1>3, <2>1, <2>7, OnePlaced DEF PlacedInv
<1> QED BY <1>2, <1>3 DEF daemonize

\* A signal that comes when the activation is done is late.
LEMMA TerminatePlaced ==
  ASSUME PlacedInv, NEW p \in Processes, Terminate(p)
  PROVE  AllPlaced'
<1> DEFINE old == process[p]
           t == old.terms \union {IF Activated(p) THEN "late" ELSE "early"}
           s == [old EXCEPT !.running = FALSE, !.terms = t]
           m == Mains[program[p]]
           n == Len(old.todo)
<1>1. process' = [process EXCEPT ![p] = s] /\ program' = program
      /\ old.handlers /\ old.fate = "alive"
  BY DEF Terminate, Alive
<1>2. /\ DOMAIN old = Fields /\ PlacedState(program[p], old)
      /\ program[p] \in DOMAIN Mains /\ old.todo \in Seq(Steps)
  BY AtPlaced
<1>3. /\ s.todo = old.todo /\ s.terms = t
      /\ s.handlers = old.handlers /\ s.fate = old.fate /\ s.listener = old.listener
      /\ s.sockets = old.sockets
  BY <1>2 DEF Fields
<1>4. ~s.running
  BY <1>2 DEF Fields
<1>5. /\ Placed(program[p], old.todo, old.listener, old.running, old.terms, old.handlers,
                old.sockets)
      /\ old.handlers \in BOOLEAN
  BY <1>2 DEF PlacedState
<1>6. InPlace(program[p], m) /\ RestOf(program[p], old.todo)
  BY <1>2, <1>5, MainsInPlace DEF Placed
<1>7. ASSUME n < ActivateAt(program[p]) PROVE "late" \in t
  <2>1. ASSUME NEW i \in DOMAIN old.todo PROVE old.todo[i] # "activate"
    <3> DEFINE j == (Len(m) - n) + i
    <3>a. n \in Nat /\ i \in 1..n
      BY <1>2
    <3>b. n <= Len(m) /\ \A k \in 1..n : old.todo[k] = m[(Len(m) - n) + k]
      BY <1>6 DEF RestOf
    <3>0. /\ n \in Nat /\ i \in 1..n /\ n <= Len(m) /\ old.todo[i] = m[j]
      BY <3>a, <3>b
    <3>1. /\ Len(m) \in Nat /\ n \in Nat /\ i \in 1..n /\ n <= Len(m)
          /\ old.todo[i] = m[j]
      BY <1>6, <3>0 DEF InPlace
    <3> HIDE DEF n, m
    <3>2. j \in 1..Len(m) /\ Len(m) - j + 1 <= n /\ Len(m) - j + 1 \in Nat
      BY <3>1
    <3> HIDE DEF j
    <3>3. m[j] = "activate" <=> Len(m) - j + 1 = ActivateAt(program[p])
      BY <1>6, <3>2 DEF InPlace
    <3> HIDE DEF n
    <3>4. Len(m) - j + 1 # ActivateAt(program[p])
      BY <1>7, <3>1, <3>2 DEF ActivateAt
    <3> QED BY <3>1, <3>3, <3>4
  <2>2. Activated(p)
    BY <2>1 DEF Activated
  <2> QED BY <2>2
<1> HIDE DEF s, old, t, n
<1>8. Placed(program[p], old.todo, old.listener, s.running, t, old.handlers, old.sockets)
  <2>1. n = Len(old.todo)
    BY DEF n
  <2> QED BY <1>1, <1>4, <1>5, <1>7, <2>1 DEF Placed
<1>9. PlacedState(program[p], s)
  BY <1>1, <1>3, <1>5, <1>8 DEF PlacedState
<1> QED BY <1>1, <1>9, OnePlaced DEF PlacedInv

LEMMA ListenerPlaced ==
  ASSUME PlacedInv, NEW p \in Processes, ListenerLooks(p) \/ ListenerReads(p)
  PROVE  AllPlaced'
<1> DEFINE old == process[p]
<1>1. PICK l : /\ process' = [process EXCEPT ![p].listener = l] /\ program' = program
               /\ old.listener \in {"looks", "reads"} /\ l # "none"
  BY DEF ListenerLooks, ListenerReads
<1> DEFINE s == [old EXCEPT !.listener = l]
<1>2. /\ DOMAIN old = Fields /\ PlacedState(program[p], old)
  BY AtPlaced
<1>3. /\ s.todo = old.todo /\ s.terms = old.terms
      /\ s.handlers = old.handlers /\ s.fate = old.fate /\ s.listener = l
      /\ s.sockets = old.sockets /\ s.running = old.running
  BY <1>2 DEF Fields
<1>4. process' = [process EXCEPT ![p] = s]
  BY <1>1
<1> HIDE DEF s, old
<1>5. Placed(program[p], old.todo, l, old.running, old.terms, old.handlers, old.sockets)
  BY <1>1, <1>2 DEF PlacedState, Placed
<1>6. PlacedState(program[p], s)
  BY <1>2, <1>3, <1>5 DEF PlacedState
<1> QED BY <1>1, <1>4, <1>6, OnePlaced DEF PlacedInv

LEMMA StartPlaced ==
  ASSUME PlacedInv, NEW p \in Processes, Start(p)
  PROVE  AllPlaced'
<1>1. process' = [process EXCEPT ![p] = NewProcess(program[p], "alive")] /\ program' = program
  BY DEF Start
<1>2. PlacedState(program[p], NewProcess(program[p], "alive"))
  BY AtPlaced, NewPlaced
<1> QED BY <1>1, <1>2, OnePlaced DEF PlacedInv

LEMMA PlacedStep == PlacedInv /\ [MainNext]_mainVars => PlacedInv'
<1> SUFFICES ASSUME PlacedInv, [MainNext]_mainVars PROVE PlacedInv'
  OBVIOUS
<1>1. MainInv' /\ MainTyped'
  BY MainInvStep, TypedStep DEF PlacedInv
<1>2. CASE UNCHANGED mainVars
  BY <1>1, <1>2 DEF mainVars, PlacedInv, AllPlaced
<1>3. ASSUME NEW p \in Processes, NEW f \in {"exited", "crashed", "killed"}, Ends(p, f)
      PROVE  AllPlaced'
  BY <1>3, EndPlaced
<1>4. ASSUME NEW p \in Processes, Start(p) \/ Terminate(p) \/ ListenerLooks(p) \/ ListenerReads(p)
      PROVE  AllPlaced'
  BY <1>4, StartPlaced, TerminatePlaced, ListenerPlaced
<1>5. ASSUME NEW p \in Processes,
             \/ ReadConfig(p) \/ Foreground(p) \/ OpenLog(p) \/ OpenDevice(p)
             \/ ConnectServer(p) \/ CreateListener(p) \/ Activate(p) \/ LeaveLoop(p)
             \/ JoinListener(p) \/ Disconnect(p)
      PROVE  AllPlaced'
  BY <1>3, <1>5, MainPlaced
<1>6. ASSUME NEW p \in Processes, daemonize(p) PROVE AllPlaced'
  BY <1>3, <1>6, DaemonPlaced
<1>7. ASSUME NEW p \in Processes, FreeConfig(p) \/ Kill(p) PROVE AllPlaced'
  BY <1>3, <1>7 DEF FreeConfig, Kill
<1>8. ASSUME NEW p \in Processes, Return(p) PROVE AllPlaced'
  BY <1>8, EndPlaced DEF Return
<1>9. ASSUME MainNext PROVE AllPlaced'
  BY <1>4, <1>5, <1>6, <1>7, <1>8, <1>9 DEF MainNext
<1> QED BY <1>1, <1>2, <1>9 DEF PlacedInv

\* What returns from its main was told to end, its listener had ended before,
\* and the connections that are left open are those of sphinx and the queue
\* bridge; cron and lua never return.
THEOREM EndsOrderly == MainSpec => []OrderlyEnds
<1>1. PlacedInv => OrderlyEnds
  <2> SUFFICES ASSUME PlacedInv, NEW p \in Processes
               PROVE  LET s == process[p] IN
                      /\ s.fate = "returned" =>
                           /\ program[p] \notin {"cron", "lua"}
                           /\ s.handlers /\ "late" \in s.terms
                           /\ s.sockets = IF program[p] \in {"sphinx", "queue"} THEN 1 ELSE 0
                      /\ s.fate = "returned" \/ (Alive(p) /\ s.todo = <<>>) =>
                           s.listener = "ended"
    BY DEF OrderlyEnds
  <2> DEFINE s == process[p]
  <2>1. PlacedState(program[p], s)
    BY AtPlaced
  <2>2. CASE s.todo # <<>>
    BY <2>1, <2>2 DEF PlacedState
  <2>3. CASE s.todo = <<>>
    <3>1. Len(s.todo) = 0
      BY <2>3
    <3>2. Placed(program[p], s.todo, s.listener, s.running, s.terms, s.handlers, s.sockets)
      BY <2>1 DEF PlacedState
    <3> HIDE DEF s
    <3>3. s.listener = "ended" /\ ~s.running
      BY <3>1, <3>2 DEF Placed, JoinAt, LoopAt
    <3>4. "late" \in s.terms
      BY <3>1, <3>2, <3>3 DEF Placed, ActivateAt
    <3>5. s.handlers /\ program[p] # "lua"
      BY <3>2, <3>4 DEF Placed
    <3>6. program[p] # "cron"
      BY <3>1, <3>2 DEF Placed
    <3>7. s.sockets = IF program[p] \in {"sphinx", "queue"} THEN 1 ELSE 0
      <4>1. s.sockets = SocketsAt(program[p], 0)
        BY <3>1, <3>2 DEF Placed
      <4> QED BY <4>1 DEF SocketsAt
    <3> QED BY <3>3, <3>4, <3>5, <3>6, <3>7 DEF s
  <2> QED BY <2>2, <2>3
<1> QED BY InitPlaced, PlacedStep, <1>1, PTL DEF MainSpec

-----------------------------------------------------------------------------
(***************************************************************************)
(* The types of the processes.  A level that the configuration file names  *)
(* may be none, and log_setlevel keeps it from the log; the connections    *)
(* are as many as the place in the main says (SocketsAt).                  *)
(***************************************************************************)
TypedState(s) ==
  /\ s.listener \in {"none", "looks", "reads", "ended"}
  /\ s.loglevel \in 0..3
  /\ s.baseconfig.loglevel \in -1..3
  /\ s.fate \in {"absent", "alive", "exited", "killed", "crashed", "returned"}

StatesInv ==
  /\ program \in Together
  /\ lockfile \subseteq Processes
  /\ starts \in 0..MaxStarts
  /\ \A p \in Processes : TypedState(process[p])

\* What a file, or the lack of one, makes of a level.
LEMMA LevelType == ASSUME NEW level PROVE log_getlevel(level) \in -1..3
  BY DEF log_getlevel

LEMMA NewTyped ==
  ASSUME NEW prog, NEW f \in {"absent", "alive"}
  PROVE  TypedState(NewProcess(prog, f))
<1>1. log_getlevel("WARNING") = 2
  BY DEF log_getlevel
<1>2. DefaultConfig(prog).loglevel \in -1..3
  BY LevelType DEF DefaultConfig
<1>3. /\ NewProcess(prog, f).listener = "none" /\ NewProcess(prog, f).fate = f
      /\ NewProcess(prog, f).loglevel = log_getlevel("WARNING")
      /\ NewProcess(prog, f).baseconfig = DefaultConfig(prog)
  BY DEF NewProcess
<1> QED BY <1>1, <1>2, <1>3 DEF TypedState

LEMMA StatesInit == MainInit => StatesInv
<1> SUFFICES ASSUME MainInit PROVE StatesInv
  OBVIOUS
<1>1. 0 \in 0..MaxStarts
  BY MainAssumption
<1>2. \A p \in Processes : TypedState(process[p])
  BY NewTyped DEF MainInit
<1> QED BY <1>1, <1>2 DEF MainInit, StatesInv

\* A step that gives one process a state.
LEMMA OneTyped ==
  ASSUME MainInv, StatesInv, NEW p \in Processes, NEW s, TypedState(s),
         process' = [process EXCEPT ![p] = s],
         program' = program, lockfile' \subseteq Processes, starts' \in 0..MaxStarts
  PROVE  StatesInv'
<1>1. ASSUME NEW q \in Processes PROVE process'[q] = IF q = p THEN s ELSE process[q]
  BY DEF MainInv, Records
<1>2. ASSUME NEW q \in Processes PROVE TypedState(process[q])
  BY DEF StatesInv
<1>3. \A q \in Processes : TypedState(process'[q])
  BY <1>1, <1>2
<1>4. program' \in Together
  BY DEF StatesInv
<1> QED BY <1>3, <1>4 DEF StatesInv, TypedState

LEMMA GoesTyped ==
  ASSUME MainInv, StatesInv, NEW p \in Processes, NEW s, Goes(p, s),
         DOMAIN s = Fields, TypedState(s)
  PROVE  StatesInv'
<1> DEFINE gone == [s EXCEPT !.todo = Tail(@)]
<1>1. TypedState(gone)
  BY DEF TypedState, Fields
<1>2. process' = [process EXCEPT ![p] = gone]
      /\ program' = program /\ lockfile' = lockfile /\ starts' = starts
  BY DEF Goes
<1> HIDE DEF gone
<1> QED BY <1>1, <1>2, OneTyped DEF StatesInv

LEMMA EndsTyped ==
  ASSUME MainInv, StatesInv, NEW p \in Processes,
         NEW f \in {"exited", "killed", "crashed", "returned"}, Ends(p, f)
  PROVE  StatesInv'
<1> DEFINE s == [process[p] EXCEPT !.fate = f]
<1>1. DOMAIN process[p] = Fields /\ TypedState(process[p])
  BY DEF MainInv, Records, StatesInv
<1>2. TypedState(s)
  BY <1>1 DEF TypedState, Fields
<1>3. /\ process' = [process EXCEPT ![p] = s]
      /\ program' = program /\ lockfile' = lockfile \ {p} /\ starts' = starts
  BY DEF Ends
<1> HIDE DEF s
<1> QED BY <1>2, <1>3, OneTyped DEF StatesInv

\* The steps of a main.
LEMMA StepsTyped ==
  ASSUME MainInv, StatesInv, NEW p \in Processes,
         \/ ReadConfig(p) \/ Foreground(p) \/ OpenLog(p) \/ OpenDevice(p)
         \/ ConnectServer(p) \/ CreateListener(p) \/ Activate(p) \/ LeaveLoop(p)
         \/ FreeConfig(p) \/ JoinListener(p) \/ Disconnect(p) \/ Return(p) \/ Kill(p)
  PROVE  StatesInv'
<1>1. DOMAIN process[p] = Fields /\ TypedState(process[p])
  BY DEF MainInv, Records, StatesInv
<1>2. CASE ReadConfig(p)
  <2>1. PICK f \in ConfigFiles :
          Goes(p, [process[p] EXCEPT !.baseconfig = parseconfig(process[p].baseconfig, f)])
    BY <1>2 DEF ReadConfig
  <2> DEFINE c == parseconfig(process[p].baseconfig, f)
  <2>2. c.loglevel \in -1..3
    <3>1. CASE f = {}
      BY <1>1, <3>1 DEF parseconfig, TypedState
    <3>2. CASE f # {}
      BY <3>2, LevelType DEF parseconfig
    <3> QED BY <3>1, <3>2
  <2> HIDE DEF c
  <2>3. DOMAIN [process[p] EXCEPT !.baseconfig = c] = Fields
        /\ TypedState([process[p] EXCEPT !.baseconfig = c])
    BY <1>1, <2>2 DEF TypedState, Fields
  <2> QED BY <2>1, <2>3, GoesTyped DEF c
<1>3. CASE OpenLog(p)
  <2> DEFINE l == log_setlevel(process[p].loglevel, process[p].baseconfig.loglevel)
  <2>1. Goes(p, [process[p] EXCEPT !.loglevel = l])
    BY <1>3 DEF OpenLog
  <2>2. l \in 0..3
    BY <1>1 DEF log_setlevel, TypedState
  <2> HIDE DEF l
  <2>3. DOMAIN [process[p] EXCEPT !.loglevel = l] = Fields
        /\ TypedState([process[p] EXCEPT !.loglevel = l])
    BY <1>1, <2>2 DEF TypedState, Fields
  <2> QED BY <2>1, <2>3, GoesTyped
<1>4. CASE \E n : Goes(p, [process[p] EXCEPT !.sockets = n])
  <2>1. PICK n : Goes(p, [process[p] EXCEPT !.sockets = n])
    BY <1>4
  <2>2. DOMAIN [process[p] EXCEPT !.sockets = n] = Fields
        /\ TypedState([process[p] EXCEPT !.sockets = n])
    BY <1>1 DEF TypedState, Fields
  <2> QED BY <2>1, <2>2, GoesTyped
<1>5. CASE \E b : Goes(p, [process[p] EXCEPT !.running = b])
  <2>1. PICK b : Goes(p, [process[p] EXCEPT !.running = b])
    BY <1>5
  <2>2. DOMAIN [process[p] EXCEPT !.running = b] = Fields
        /\ TypedState([process[p] EXCEPT !.running = b])
    BY <1>1 DEF TypedState, Fields
  <2> QED BY <2>1, <2>2, GoesTyped
<1>6. CASE Goes(p, [process[p] EXCEPT !.listener = "looks"])
  <2>1. DOMAIN [process[p] EXCEPT !.listener = "looks"] = Fields
        /\ TypedState([process[p] EXCEPT !.listener = "looks"])
    BY <1>1 DEF TypedState, Fields
  <2> QED BY <1>6, <2>1, GoesTyped
<1>7. CASE Goes(p, process[p])
  BY <1>1, <1>7, GoesTyped
<1>8. CASE Foreground(p) \/ OpenDevice(p) \/ LeaveLoop(p)
  BY <1>7, <1>8, EndsTyped DEF Foreground, OpenDevice, LeaveLoop
<1>9. CASE ConnectServer(p) \/ Disconnect(p)
  BY <1>4, <1>9, EndsTyped DEF ConnectServer, Disconnect
<1>10. CASE CreateListener(p)
  BY <1>6, <1>7, <1>10 DEF CreateListener
<1>11. CASE Activate(p) \/ JoinListener(p)
  BY <1>5, <1>11, EndsTyped DEF Activate, JoinListener
<1>12. CASE FreeConfig(p) \/ Return(p) \/ Kill(p)
  BY <1>12, EndsTyped DEF FreeConfig, Return, Kill
<1> QED BY <1>2, <1>3, <1>8, <1>9, <1>10, <1>11, <1>12

LEMMA StatesStep ==
  ASSUME MainInv, StatesInv, [MainNext]_mainVars
  PROVE  StatesInv'
<1>1. CASE UNCHANGED mainVars
  BY <1>1 DEF mainVars, StatesInv, TypedState
<1>2. ASSUME NEW p \in Processes PROVE DOMAIN process[p] = Fields /\ TypedState(process[p])
  BY DEF MainInv, Records, StatesInv
<1>3. ASSUME NEW p \in Processes, Start(p) PROVE StatesInv'
  <2>1. TypedState(NewProcess(program[p], "alive"))
    BY NewTyped
  <2>2. starts' \in 0..MaxStarts
    BY <1>3, MainAssumption DEF Start, StatesInv
  <2>3. process' = [process EXCEPT ![p] = NewProcess(program[p], "alive")]
        /\ program' = program /\ lockfile' = lockfile
    BY <1>3 DEF Start
  <2> QED BY <2>1, <2>2, <2>3, OneTyped DEF StatesInv
<1>4. ASSUME NEW p \in Processes, daemonize(p) PROVE StatesInv'
  <2>1. CASE Goes(p, process[p])
    BY <1>2, <2>1, GoesTyped
  <2>2. CASE Ends(p, "exited")
    BY <2>2, EndsTyped
  <2>3. CASE /\ process' = [process EXCEPT ![p].todo = Tail(@), ![p].handlers = TRUE]
             /\ lockfile' = {p}
             /\ UNCHANGED <<program, starts>>
    <3> DEFINE s == [process[p] EXCEPT !.todo = Tail(@), !.handlers = TRUE]
    <3>1. process' = [process EXCEPT ![p] = s]
      BY <2>3 DEF MainInv, Records
    <3>2. TypedState(s)
      BY <1>2 DEF TypedState, Fields
    <3> HIDE DEF s
    <3> QED BY <2>3, <3>1, <3>2, OneTyped DEF StatesInv
  <2> QED BY <1>4, <2>1, <2>2, <2>3 DEF daemonize
<1>5. ASSUME NEW p \in Processes, ListenerLooks(p) \/ ListenerReads(p)
      PROVE  StatesInv'
  <2>1. PICK l \in {"looks", "reads", "ended"} :
          process' = [process EXCEPT ![p].listener = l]
    BY <1>5 DEF ListenerLooks, ListenerReads
  <2>2. UNCHANGED <<program, lockfile, starts>>
    BY <1>5 DEF ListenerLooks, ListenerReads
  <2> DEFINE s == [process[p] EXCEPT !.listener = l]
  <2>3. TypedState(s) /\ process' = [process EXCEPT ![p] = s]
    BY <1>2, <2>1 DEF TypedState, Fields
  <2> HIDE DEF s
  <2> QED BY <2>2, <2>3, OneTyped DEF StatesInv
<1>6. ASSUME NEW p \in Processes, Terminate(p) PROVE StatesInv'
  <2> DEFINE s == [process[p] EXCEPT !.running = FALSE,
                     !.terms = @ \union {IF Activated(p) THEN "late" ELSE "early"}]
  <2>1. process' = [process EXCEPT ![p] = s] /\ UNCHANGED <<program, lockfile, starts>>
    BY <1>6 DEF Terminate
  <2>2. TypedState(s)
    BY <1>2 DEF TypedState, Fields
  <2> HIDE DEF s
  <2> QED BY <2>1, <2>2, OneTyped DEF StatesInv
<1> QED BY <1>1, <1>3, <1>4, <1>5, <1>6, StepsTyped DEF MainNext

\* The types of the processes, for any programs: a configuration without a log
\* level leaves the log its own, and no component ever has more than two
\* connections to the server.
THEOREM MainTypeCorrect == MainSpec => []MainTypeOK
<1>1. ASSUME StatesInv, PlacedInv PROVE MainTypeOK
  <2>1. ASSUME NEW p \in Processes PROVE process[p].sockets \in 0..2
    <3>1. process[p].sockets = SocketsAt(program[p], Len(process[p].todo))
      BY <1>1 DEF PlacedInv, AllPlaced, PlacedState, Placed
    <3>2. \A prog, n : SocketsAt(prog, n) \in {0, 1, 2}
      BY DEF SocketsAt
    <3> QED BY <3>1, <3>2
  <2> QED BY <1>1, <2>1 DEF StatesInv, TypedState, MainTypeOK
<1>2. PlacedInv => MainInv
  BY DEF PlacedInv
<1> QED BY <1>1, <1>2, InitPlaced, PlacedStep, StatesInit, StatesStep, PTL DEF MainSpec
=============================================================================
