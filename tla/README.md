# rocs, a verification development

rocs is a message framework for small robots, written in C. A server relays
messages between components; each component is a process of its own that logs
in with a filter, receives what matches it and sends what it has to say. This
directory holds TLA+ modules of the parts that carry the behaviour of the
system, configurations that check them with TLC, and proofs that TLAPS checks.
The code is the reference: every definition names the lines it stands for
(`PROJECT.json`, "map"), and the comments in the modules say what is done there.

Contents: 1 the system, 2 the modules, 3 how they correspond to the code, 4 the
runs, 5 the proofs, 6 what is not modelled, 7 what was found, 8 the plan.

## 1. The system

### 1.1 Components, their state and their operations

| part | state | operations | hard behaviour |
|---|---|---|---|
| server main loop (`rocsmq-server/src/server.c`) | descriptor sets, loop index, the new connection | select, accept, login, scan, relay, remove, signals, quit | one thread over many sockets: clients act between any two of its calls |
| client list (`clientlist.c`) | an array of clients, a static cursor | `add_client`, `remove_client`, `next_client_by_message`, `filter_match` | the array moves while a scan indexes it |
| socket library (`rocsmq/src/rocsmq.c`) | none | `rocsmq_init`, `rocsmq_send`, `rocsmq_recv`, `rocsmq_exit`, `rocsmq_message_match` | short reads, resets, SIGPIPE, the wildcard match |
| client thread (`rocsmqthread.c`) | queue, flag `running`, mutex | start and destroy, `rocsmq_add`, `rocsmq_has_messages`, `rocsmq_get_message`, `set_running` | two threads and a signal handler on one mutex |
| component main loop (each `clientmain.c`) | | run, handle, stop | check and pop are two critical sections; the stop waits for a blocked reader |
| linked list (`linkedlist.c`) | items with `next` and `last` | `ll_add`, `ll_find`, `ll_remove`, `ll_pop` | removal from the middle, during a walk |
| cron (`rocsmq-cron`) | a clock, a list of jobs | `tick`, `add_cronjob`, `del_cronjob` | jobs removed while the list is walked, a 32 bit clock |
| gpio (`rocsmq-gpio`) | pins with an inhibition counter | configure, read, set | an eight bit countdown; locals that stay between the entries of an order |
| canbus (`rocsmq-canbus`) | a list that maps CAN ids to message ids, a CAN socket | send, add to the map, delete, publish frames | what is put into the map is not what is looked up |
| queue bridge (`rocsmq-queue`) | a System V queue | forward both ways | both ways share its room; its own messages come back |
| command line client (`rocsmq-cli`) | one message buffer | type, send, receive | two threads share the buffer |
| lua client (`rocsmq-luaclient`) | an interpreter, a data base file | run scripts for a message, persist, retrieve, exists | globals and stack stay between scripts; the file is written anew |
| tty (`rocsmq-tty`) | a serial line, a buffer | write, publish lines | what is left in the buffer and in the message |
| speech (`rocsmq-speech`) | what espeak plays | speak, cancel | waiting for the text before |
| sphinx (`rocsmq-sphinx`) | the recognizer, two connections | start, stop, publish texts | listening holds up the orders; a connection nobody reads |
| daemonizer (`rocsmq-daemonizer`), configuration, log | `.pid`, handlers, level | once at start | one lock file for all; a signal before the loop |

i2cbus, tclclient, opencv, testclient and `rocsmq-queue_` are not built
(`CMakeLists.txt` leaves them out); the top level `linkedlist` is an older copy.

### 1.2 How they interact

Components and server share nothing but stream sockets. `rocsmq_init` connects
and writes one login record; from then on both ends write records of the same
size and read with one `read()` each. In a component the listener thread reads
and appends to a queue; the main thread takes from it, and calls the component's
own `handle_message`. Sends are made by the main thread, blocking. SIGTERM is
handled, in the server by ending the process at once, in a component by clearing
`running` under the mutex of the queue.

### 1.3 What makes the parts correct

* Server: every client is in the list once and watched, none is forgotten when
  the array moves; every client gets every message its filter matches, once, in
  the order they were read; a client's messages keep their order; only clients
  that left are removed, after their last message; every message and every
  connection is dealt with in the end; nothing a client does ends the server.
* Client thread: no message is lost, doubled or overtaken on its way from the
  socket to the handler; the pop never meets an empty queue; the mutex has one
  holder; messages are handled in the end; SIGTERM ends the process.
* Cron and its list: a job is sent at its ticks, as often as ordered; deletion
  removes what was asked for; the list never leads to memory that was freed.
* Message match: the wildcard match a star stands for.
* gpio: a pin is measured every n+1 requests, and the answers to an order hold
  what was measured for it.
* canbus: an order on the map finds the entry that was put there.
* Bridge: what local programs put is published once, in order, and in the end;
  what is on the bus comes through in order, as far as there is room.
* Command line client: what is sent is what was given, never what was received.
* Lua client: the script that matched runs, and what it persisted it retrieves.
* tty, speech, sphinx: what is published, played or recognized belongs to its
  own line, order or text.
* The mains: a daemon can be told to end, and ends after its listener.

Where the code does less than this, the property states what it does instead,
and section 7 says so.

The hazards that these properties are for are listed, at their lines, under
"hazards" in `PROJECT.json`.

## 2. The modules

| module | role |
|---|---|
| `MessageBus` | abstract: members join with a filter, publish into a log, are given what matches, in order |
| `RocsServer` | the server, its client list and its sockets; implements `MessageBus` |
| `MCRocsServer` | ids, filters, signals and message records for TLC |
| `RocsServerProofs` | type correctness, the registry of clients, what ends the server, and exact delivery, proved |
| `BusProofs` | who is removed, the order of each sender, and the refinement of `MessageBus`, proved |
| `ClientQueue` | listener thread, queue, mutex, main loop and SIGTERM in a component |
| `ClientQueueProofs` | the queue loses nothing, the pop is safe, the mutex is exclusive, proved |
| `Schedule` | abstract: a plan of jobs, each with its next tick |
| `Cron` | cron's clock, its orders and its list, pointer by pointer; implements `Schedule` while the list is intact |
| `MCCron` | jobs for TLC |
| `CronProofs` | how the list breaks, what is safe, and the refinement of `Schedule`, proved |
| `Match` | `rocsmq_message_match` against the pattern language it stands for |
| `ConfigParser` | what the getters of `configparser.c` leave in their targets; log levels |
| `Gpio` | pins, inhibition, orders and answers |
| `Can` | the map of canbus, its orders and frames |
| `Tty` | lines, orders and the buffers that stay |
| `Speech` | speak and cancel over a player of one text |
| `Sphinx` | recognition, orders, the two connections and the server that writes to them |
| `DeviceProofs` | the invariants of gpio, canbus, tty, speech and sphinx, and when the bus stops, proved |
| `OneKeyStore` | abstract: a store that holds the key persisted last |
| `Lua` | which script runs, and the commands on its store; implements `OneKeyStore` |
| `MCLua` | filters of the scripts for TLC |
| `QueueBridge` | the bridge, its System V queue, local programs and the echo of the bus |
| `Cli` | the three threads of the command line client and the message they share |
| `ProgramProofs` | `Lua`, `QueueBridge` and `Cli`: which function runs, the refinement of `OneKeyStore`, both directions of the bridge, what is sent, proved |
| `ComponentMain` | the mains of eight programs, the daemonizer, start and join of the listener, as processes that start, are killed and start again |
| `MainProofs` | who can be told to end, who stays deaf, and what returns, proved |
| `Components` | the sum of the ten modules above, for one run |
| `MCComponents` | orders, lines and configurations for TLC |
| `ComponentsProofs` | the match is exact; each component of the sum runs as it does alone, so what is proved of it holds there; proved |

`Components` is a sum: its initial states choose a component, and the steps are
those of the one chosen. The components share no state; they meet on the bus,
and what comes from there is an input that may be any message at any time, which
is more than the other components would send. A property of one of them
therefore holds whatever the others do. Where two parts of rocs do share
something besides the bus, they are in one module: the server's write to sphinx
(`Sphinx`), the echo of the bus (`QueueBridge`), the lock file of all daemons
(`ComponentMain`).

## 3. Correspondence with the code

### 3.1 RocsServer

`pc` is the place in the main loop: `select`, `accept`, `login` (inside
`read_clientdata`), `scan` (the `for` over the list) and `relay` (inside
`send_all`). An action is what the server does between two system calls; the
actions of the clients may come in between. `set`, `readset`, `client_sock` and
`i` are the variables of `main`, `clients` is the array of `clientlist.c` in its
order, `oldclient` the static cursor of `next_client_by_message`. Slots count
from 1. A descriptor is named by the client at its other end, and a component
that comes back is a new client, so the reuse of descriptor numbers is not
modelled.

A connection is `open`, `fin` (the peer closed it), `reset` (it closed with
unread input), `broken` (the kernel knows), or `closed` by the server: these
decide what `read()` and `write()` return, and that is all the code looks at. A
read of -1 is taken for a message by the code (`RecvError`), a result of 0 for
the end. With `ShortReads` a read may return the first part of a message, and
the rest is read as a message of its own (`rocsmq_recv`); a login in two pieces
leaves the record uninitialised, so the filter is any, or the process crashes
(`LoginCut`). The second write to a peer that left raises SIGPIPE
(`SendToBroken`), which nobody handles. The removal of a client that has no
filter destroys a null list item (`RemoveUnfiltered`).

Of a message only the id, the sender and its number are kept; `Accepts` stands
for `rocsmq_message_match`. A client has the one filter it logged in with.

`log`, `joined` and `delivered` are history: what was relayed, how long the log
was when a client was listed, and what was written to whom.

### 3.2 ClientQueue

One action per step between two points where another thread can be seen to run:
taking the mutex, then what is done under it together with giving it back.
`main` and `listener` are the places of the two threads, `handler[t]` what the
SIGTERM handler does on top of thread `t`; a thread under a handler does not
move. `rocsmq_thread` tests `running` without the mutex (`ListenerChecks`).
After `read()` returned 0 nothing is queued and the loop goes on. A failed read
queues a zeroed message, once, because the kernel then reports the end.
`pthread_mutex_lock` on a destroyed mutex fails and the code does not look
(`HandlerTooLate`).

### 3.3 Cron

Items are numbered as they were created; `next`, `last`, `job` are their
fields, `list` is `cronlist`, `live` the items that are allocated. A walk
(`tick`, `ll_getlast` in `ll_add`, `ll_find`) is one step per item. `ll_remove`
is the function as written, `item->last` cleared before it is handed on, with
the `ll_destroy` that follows each call. Reading an item that is not live, or
writing to a freed neighbour, is undefined: `TouchesFreed` leads to
`"undefined"`, after which the model says nothing. The clock and the timestamps
count modulo `Width`, which is 2^32 in the code. `ll_find` takes an item when
the compare function returns 0, and `jobequal` returns 0 for other messages.

An order for timestamp -1, which is the tick that just was, is left out: it
would be due after the clock wrapped. Jobs in the configuration file are added
by the same function before the first tick.

### 3.4 Match and ConfigParser

The loop of `rocsmq_message_match` stands at character `p` of the pattern and
`s` of a subject that begins at `b` (the call for the rest of a subject moves
its beginning). `MatchFrom[p]` is the set of these places from which it answers
TRUE; it goes through the pattern from its end, as the code's recursion
returns. `Wild` is the reference, in the same form. In the server the match is the constant
`Accepts`, in gpio and lua the set of what a pattern matches.

A value in a json object is a set with at most one element. No getter touches
its target without a value, and no caller looks at the result, so a target goes
on with what it held: the default, the entry before, or what the stack held.

### 3.5 Gpio

`handle_message` with its two loops: `entry` is `i`, `pin` is `a`, one action
per pin, between which an input may change. The locals `name`, `value`,
`changed` and `tail` live as long as they do in the code. `countdown` is cut to
eight bits (`int8_t`, with `Half` for 128). A pin whose files under
`/sys/class/gpio` do not open reads as -1, which is also the value that asks for
any, so it is reported. `sprintf(tail, ..., tail, ...)` is undefined in C; as
glibc does it without fortification, it appends, and so does the model.

### 3.6 Can

An entry of the map has the id `find_message` would read from it. What
`add_messagemap` copies begins at `&map`, the address of its argument, so the id
is four bytes of a stack address: `Address`, or by `accident` an id in use.
`back` says whether the item has its `last`, which decides if its removal works
(3.3). `get_message` copies from the null pointer `create_rocs_message` hands
it: the first frame ends the process (`CanReceive`).

### 3.7 Tty, Speech, Sphinx

`Tty` keeps what the code keeps between turns: `recvdata` of `main`, over whose
start `tty_read` copies a line without a terminator, and the `sender` of the
last order, which goes out with the next line. `tty_init` writes the speed into
a structure it clears two lines later. `Speech` has one text that plays; `Synth`
waits for it. In `Sphinx` one thread handles orders and recognizes; the server
holds a message (`serverHolds`) until both connections took it, the forgotten
one first, because it logged in first.

### 3.8 Lua and OneKeyStore

`LoadScript` runs the file, which defines the global `run`; when it cannot be
loaded the call after it fails as well, and `run` is still the function of the
script before. The error messages nobody pops stay on the interpreter's stack
until it has no room. `lua_persist` and `PersistHeader` are the two writes of
tinycdb; a crash may come between. `OneKeyStore` is what the scripts get: the
store holds one key. The mapping takes what is being written for what is there.
Assumed of the scripts: each file defines `run` and calls no command while it is
loaded.

### 3.9 QueueBridge, Cli

`sysv` is the one System V queue of both directions; `msgsnd` and `msgrcv` of
the bridge do not wait, those of local programs do. What is published comes back
from the server, since the filter is `*`, and is put into the queue for the local
programs. `Cli` has the main thread, the listener and the reader of interactive
mode; `cliMessage` is the one buffer of `climain.c`. At the end of the input
`fgets` leaves the last line, which is executed again. `func_send` sets a
pointer to null where it means to write a terminator, and reads through it.

### 3.10 ComponentMain

A main is a sequence of named steps, in the order of its code (`cron_main`, ...
`lua_main`); `todo` is what is left of it. `daemonize` has the four ways through
the code: a child of init, a failure of `fork` or `open`, a lock that is taken,
and success; only the last installs the handlers. `rocsmq_start_thread` is two
steps, because the listener and a signal may come before the flag is set. The
mutex is left to `ClientQueue`: here a signal handler always gets it. A lock goes
with the process that holds it, however it ends.

## 4. The runs

All finish in under a minute with two workers.

| run | configuration | what it shows |
|---|---|---|
| `server_short_reads` | 2 clients, one message each, short reads (561,000 states) | types, registry and exact delivery, through torn logins and messages |
| `server_refines_bus` | 3 clients, one message each, whole reads (826,000) | refinement of `MessageBus`, removal of the departed only |
| `server_order` | 2 clients, two messages each, 2 ids, 3 filters (2,100,000) | the order of each sender is kept, nothing is missing or doubled; what ends the server |
| `server_progress` | 2 clients with fairness, all signals (202,000) | every message is relayed, everyone is served |
| `server_ends_by_client` | violation | a client ends the server, see 7 |
| `client_queue` | 3 messages, 2 SIGTERMs (25,840) | nothing lost, safe pop, mutex, `QueueInv`, progress |
| `client_term` | violation | SIGTERM may never end a component, see 7 |
| `cron_schedule` | 3 kinds of jobs, 4 orders, clock of 4 (56,520) | refinement of `Schedule`, what is safe and how it breaks, progress |
| `cron_list` | violation | the list leads to freed memory, see 7 |
| `cron_delete` | violation | deletion takes the wrong jobs, see 7 |
| `components` | ten modules, one at a time (350,000) | eighteen properties, see 4.3 |
| `lua_persist` | violation | what was persisted is gone, see 7 |

### 4.1 Bounds, and why they are enough

Two clients are the least for a relay to someone else, three for a removal that
moves the array under two others and leaves one on either side of the scan.
`Room` (messages in a socket buffer) of 1 makes writers block at once, 2 lets a
message wait behind another, so that the rest of a cut one swallows its start.
`Backlog` 1 makes a connection wait for its place. `MaxSends` bounds what a
client says after its login: two messages have an order (`server_order`), one is
enough where only arrival matters; the rest of a torn login and the zeroed
message of a failed read are relayed besides. Where one id is enough, the filters are "*" and the
empty one, which match it or not; with two ids there is a filter for one of
them. In
`ClientQueue` three messages fill socket, hand and queue at once; two SIGTERMs
let one handler run on each thread, or the second catch the first one's thread.
In `Cron` four orders allow the three jobs the list needs to break and one more
message; a clock of 4 wraps after three ticks, so every job meets the wrap.
The three runs of the server that check safety only permute the clients, which
nothing in the module tells apart; `server_progress` does not.

The bounds of `components`: two letters, subjects of three and patterns of four
characters hold a star in front, inside, behind and twice, with text on each
side. Two pins and orders of up to three entries let an entry without a name or
a value take those of the one before; the inhibitions are none, one, and a
negative one, which with `Half` 2 wraps as -128..127 does with 128. Two entries
of the configuration and three orders on one id add, replace and delete in the
map of canbus. Three lines of one, two and three characters leave the end of a
longer one behind. Three orders to speech are two texts and a cancel. A socket
that holds two messages is full at the third of four. Two scripts, one of which
runs on fewer messages, two messages and three commands with one crash persist,
lose and retrieve; one file descriptor is used up by one `exists` (`lua_persist`
allows three, so that it shows the store and not the descriptors). The System V
queue holds two messages of two from each side: either side fills it alone. Two
processes, three starts: a restart while the other runs; the eight programs run
in four pairs, as a daemon or not.

Deadlock is not checked: the server process and a component may end, a self
locked component stands still (this is what `client_term` is about), and with
bounded messages the clients fall silent.

### 4.2 Fairness

* The operating system runs the server whenever its system call can return
  (`WF_vars(ServerStep)`: it is one sequential process).
* A component that connected sends its login (`rocsmq_init` does both in a row),
  and its listener reads. Without the first, one silent connection blocks the
  server in `read_clientdata`; without the second, one full socket blocks it in
  `rocsmq_send`. Both are hazards, stated in `PROJECT.json`, and the progress
  properties hold only under these assumptions. Nobody is obliged to connect, to
  send or to leave, and the signals have no fairness.
* In a component the kernel runs both threads, and a thread that waits for a
  mutex which is free again and again gets it in the end (strong fairness: a
  plain mutex does not promise it, the kernel's scheduling does in practice,
  since the main loop sleeps between its turns). The server's end is free to
  send nothing and to stay.
* Cron's main loop turns: it ticks, and its walks go on.
* The main loop of the queue bridge goes on, and the server reads what the bridge
  sent (`FairSpec` of `Components`). The main loop never waits for the System V
  queue, and the server reads under the assumptions above. Local programs, other
  components and the end of the bridge have no fairness.

### 4.3 Properties that are not obvious

`ExactDelivery` bounds what a client was given from both sides: everything that
matches since it was listed, up to the message in relay exactly when the cursor
has passed its slot, and nothing else. `SenderOrder` says that of a removed
client nothing is missing. `EndsByDeparture` says what ends the server besides a
signal: a client that left before it wrote anything, one whose connection is dead
while the server still writes to it, or one without a filter; what clients send,
and when, does not, as long as reads return whole messages. It is what is left of
the "infinite main loop" that `server_ends_by_client` refutes. `BreaksByLostLink` characterises the one way the
list can break, `TwoItemsSafe` a use of it that never does. `ImplementsSchedule`
is a step by step refinement, claimed for every step after which the list is
still intact: once it leads to freed memory nothing can be promised.
`JoinEndsWithTraffic` says what ends the join in `rocsmq_destroy_thread`.

Of the run `components`:

| property | says | would break if |
|---|---|---|
| `MatchIsExact` | no match is missed but that of the empty text; one is wrong only for a pattern with text in front of an inner star | the pattern's last star did not match to the end |
| `InhibitionCounts` | a pin is measured after exactly as many requests as its inhibition, modulo the width of the counter | the countdown stopped at zero |
| `AnswersGrow` | each answer to an order holds what the one before held, the last one everything | an entry began with an empty text |
| `MapOnlyGrows` | without an accident nothing is found in the map of canbus | the entry itself were copied |
| `TextsKeepOldEnds` | what tty publishes is the line and the ends of longer lines before | the copy were terminated |
| `OnlyTheLastTextIsCut` | a cancel cuts the text ordered last before it, though another played when it came in | speech did not wait |
| `OneTextTooMany` | at most one text is published between a stop's arrival and its handling | only one message were handled per turn |
| `SphinxStopsTheServer` | with more messages for sphinx than a socket holds, the server stands still until sphinx ends | the first connection were closed |
| `TheLastLoadedRuns` | the function that runs is that of the script loaded last | a failed load left none |
| `KeepsOneKey` | the lua client's store implements `OneKeyStore`, over crashes | the old pairs were kept |
| `PublishedOnce` | what programs put is on the bus once and in order, in spite of the echo | the bridge forwarded with its own type |
| `ForwardedInOrder` | what is forwarded is the bus in order, without what met a full queue | a failed message were tried again |
| `PutsArePublished` | what is put is published in the end, also when the queue is full of messages nobody takes | only the head of the queue were looked at |
| `OnlySingleModeSends` | the message sent is the one given, never one received | `func_send` worked as meant: then two threads share the buffer |
| `OneCanBeStopped` | at most one daemon of a directory has the handlers | the lock were not looked at |
| `OnlyEarlySignalsDeafen` | a component stays in its loop after SIGTERM only if it came before the flag was set | the flag were not set from the start |
| `OrderlyEnds` | what returns from its main was told to, with its listener ended before; cron and lua never do | the join were missing |

Each property of a passing run has a mutant under "mutants": a plausible slip
in one definition (marked `Defect` in the modules) that breaks it.

## 5. The proofs

| theorem | module | says |
|---|---|---|
| `TypeCorrect` | `RocsServerProofs` | `Spec => []TypeOK` |
| `RegistryCorrect` | `RocsServerProofs` | `Spec => []Registered` |
| `EndsCorrect` | `RocsServerProofs` | `Spec => []EndsByDeparture` |
| `DeliveryCorrect` | `RocsServerProofs` | `Spec => []ExactDelivery` |
| `DeliveryInvariant` | `BusProofs` | `Spec => []DeliveryInv` |
| `DepartureCorrect` | `BusProofs` | `Spec => RemovesOnlyDeparted` |
| `SenderOrderCorrect` | `BusProofs` | `Spec => []SenderOrder` |
| `BusImplemented` | `BusProofs` | `Spec => ImplementsBus` |
| `QueueTypeCorrect` | `ClientQueueProofs` | `Spec => []TypeOK` |
| `QueueKeepsMessages` | `ClientQueueProofs` | `Spec => []NothingLost` |
| `PopsSafely` | `ClientQueueProofs` | `Spec => []PopsNonEmpty` |
| `MutualExclusion` | `ClientQueueProofs` | `Spec => []MutexHeld` |
| `QueueInvariant` | `ClientQueueProofs` | `Spec => []QueueInv` |
| `CronTypeCorrect` | `CronProofs` | `Spec => []TypeOK` |
| `BreaksCorrect` | `CronProofs` | `Spec => BreaksByLostLink` |
| `TwoItemsCorrect` | `CronProofs` | `Spec => []TwoItemsSafe` |
| `NothingLeaksCorrect` | `CronProofs` | `Spec => []NothingLeaks` |
| `ScheduleImplemented` | `CronProofs` | `Spec => ImplementsSchedule` |
| `GpioTypeCorrect` | `DeviceProofs` | `GpioSpec => []GpioTypeOK`; likewise `CanTypeCorrect`, `TtyTypeCorrect`, `SpeechTypeCorrect`, `SphinxTypeCorrect` |
| `InhibitionCorrect` | `DeviceProofs` | `GpioSpec => []InhibitionCounts` |
| `AnswersCorrect` | `DeviceProofs` | `GpioSpec => []AnswersGrow` |
| `MapGrows` | `DeviceProofs` | `CanSpec => []MapOnlyGrows` |
| `TextsKeep` | `DeviceProofs` | `TtySpec => []TextsKeepOldEnds` |
| `CancelCutsTheLast` | `DeviceProofs` | `SpeechSpec => []OnlyTheLastTextIsCut` |
| `OneTextWaits` | `DeviceProofs` | `SphinxSpec => []OneTextTooMany` |
| `BusStops` | `DeviceProofs` | `SphinxSpec => SphinxStopsTheServer` |
| `LuaTypeCorrect` | `ProgramProofs` | `LuaSpec => []LuaTypeOK` |
| `LastLoadedRuns` | `ProgramProofs` | `LuaSpec => []TheLastLoadedRuns` |
| `StoreImplemented` | `ProgramProofs` | `LuaSpec => KeepsOneKey` |
| `BridgeTypeCorrect` | `ProgramProofs` | `BridgeSpec => []BridgeTypeOK` |
| `PublishedOnceCorrect` | `ProgramProofs` | `BridgeSpec => []PublishedOnce` |
| `ForwardedInOrderCorrect` | `ProgramProofs` | `BridgeSpec => []ForwardedInOrder` |
| `CliTypeCorrect` | `ProgramProofs` | `CliSpec => []CliTypeOK` |
| `OnlySingleSends` | `ProgramProofs` | `CliSpec => []OnlySingleModeSends` |
| `MainTypeCorrect` | `MainProofs` | `MainSpec => []MainTypeOK` |
| `OneStopped` | `MainProofs` | `MainSpec => []OneCanBeStopped` |
| `DeafOnlyEarly` | `MainProofs` | `MainSpec => []OnlyEarlySignalsDeafen` |
| `EndsOrderly` | `MainProofs` | `MainSpec => []OrderlyEnds` |
| `MatchCorrect` | `ComponentsProofs` | `MatchSpec => []MatchIsExact` |
| `EachComponentRuns` | `ComponentsProofs` | the `Spec` of the sum implies `MatchSpec`, `GpioSpec`, ..., `MainSpec` |
| `ComponentsTypeCorrect` | `ComponentsProofs` | `Spec => []ComponentsTypeOK` |
| `ComponentsCorrect` | `ComponentsProofs` | all safety properties of the run `components`, of the `Spec` of the sum |

They hold for every value of the constants that meets the assumptions of the
modules: any set of clients, ids and filters, any `Accepts`, any signals, short
reads or not, any bound. No other assumption is used; those of `Cron` and `Tty`
say what an order or a line is (a timestamp below the width of the clock, a
sequence of characters).

*Registry.* `Registered` is not inductive: that a client is appended only once
rests on its not being in the list while it logs in, and that on the backlog
holding distinct connections the loop does not know. `RegistryInv` adds
`BacklogUnknown` and `LoginUnlisted`. The one interesting step is the removal,
which moves every later slot: the lemmas about `RemoveSlot` say which slot of
the new array comes from which of the old one.

*What ends the server.* `EndsByDeparture` speaks of the step that ends it, so it
needs to know before what a closed descriptor in the set stands for. `EndsInv`
counts: what a client outside the list wrote is what still waits for the server
(`sent` and the length of its stream), so a refusal, which finds the stream at
its end, means that nothing was written; a removal takes the descriptor out of
the set. `EndsQuiet` serves all steps that only read, write or wait.

*Delivery.* `DeliveryInv` adds that a client outside the list was written
nothing yet, and that it joined no later than the place up to which it is
served. A step that sends moves the cursor from one matching slot to the next;
every slot in between does not match (`IsNextClient`), so `RelayedUpTo` may grow
for all of them at once. This is the lemma `DeliverySend`. The end of a relay
and the start of the next move the bound for the slots behind the cursor.

*Departure.* An action property, from `RegistryInv`: a step drops only the client
in the slot of the scan, which was found at the end of its stream, and of two
others the one in front stays in front (`RemovalOrderly`).

*Order of a sender.* `OrderInv` counts for each client what was taken off its
stream (`Taken`): what is still in it is numbered from there on, what is logged
of it comes before, and without short reads everything before is logged. Each
step of the server or a client then moves one packet of one stream
(`SameStream`, `RelaysHead`), or none.

*Bus.* A client in the list is a member with its filter (`subscription`), and a
step of the server is a join, a leave, a publication, a delivery, or none. That
a delivery is the next one the member is owed is `DeliveryInv` again; that a
leave loses nothing is not claimed by the bus, and is in `SenderOrder`.

*Cron and its list.* Items are numbered as they are created and appended at the
end, so a list that is intact is sorted: the item behind another is the least of
the greater ones (`Chain`). This says what the list is without recursion, and
`ChainReached` that it is what `InList` is. `ListInv`: an intact list is the
chain of the live items, and a link back leads to the item before, if it is there
at all, which is true of a broken list as well. Removing an item from a chain
keeps it one (`Unlinked`), unless the link back is lost: the first item is found
by `list`, so with two items nothing can break. For the refinement `WalkInv`
adds what a walk leaves behind: every item it passed that was due has fired, and
none it has not come to.

*Queue.* `QueueInv` says of `InTransit`, the concatenation of what was handled,
what is queued, what the listener has in hand and what is in the socket, that
its length is the number of messages sent, or one more after a reset. Handing on
leaves `InTransit` as it is (`HandOn`, from the associativity of concatenation);
a send or a failed read adds one at its end (`OneMore`). For the mutex, the
invariant adds that a handler never has the mutex while the thread under it
thinks to have it too.

*Match.* `WildFrom` and `MatchFrom` are filled from the end of the pattern, one
character from the next, so both are tables of the form `IsTable`; that such a
table exists (`TableExists`) gives each its equation (`WildTable`,
`MatchTable`), and what holds of every entry is shown for the last one that could
fail (`FromTheEnd`, from the least element of a set of numbers). So
`MatchMissesNothing`: an entry of the reference that is not at the end of an
empty text is one of the code. For the converse (`MatchIsNoMore`) the code must
not go back to text it has passed, which it does at a star with text in front.

*Inhibition.* `CountInv` ties the countdown to the requests since the last
measurement (`Stands`): it is the inhibition less their number, once around the
counter if that is below its range. From it the window of a negative inhibition
follows by arithmetic on `%` (`Int8Value`, `WindowValue`), for any width.

*Answers.* `AnswersInv`: `tail` is what was to be reported so far, `changed` says
if that is anything, each answer begins it, and between two entries the last
answer is all of it. A measurement makes it longer, so what began it still does
(`BeginsStill`).

*Canbus.* `CanInv`: without an accident every entry has the address for an id, so
no order on an id meets one.

*Tty.* `TtyInv`: the buffer is the text published last, and each text has at
every place the character of the last line that reached it (`KeepsEnds`). A
longer line replaces the buffer, a shorter one its beginning.

*Speech.* `OnlyTheLastTextIsCut` is inductive with the types, once the text that
plays is known to be the last one.

*Lua.* `RunInv`: the global `run` is the script loaded last, and between loading
and calling it is the one that matched or that one has failed. For the store,
the only invariant needed is that the file is empty while something is being
written; each step of the client is then one of `OneKeyStore` or none.

*Sphinx.* `WaitingInv`: while sphinx looks at `record` or listens, the orders in
the queue came in after the last text, so the next text is their first.
`FillInv`: every message for sphinx is on the forgotten connection, but for the
one the server still has to write there; so there are at most `SocketRoom` and
one. When that many came the server cannot write, and every other step of it
needs its hands free (`StuckStep`).

*Bridge.* `FlowInv` finds the messages that programs put: the first `p` are on
the bus, the next ones on the way to it, the others in the System V queue, in
this order and with no gap; each step moves the head of one part to the end of
the one before it, or takes a message of the other type out of the queue.
`TakenInv`: what the bridge forwarded, followed by what it still has to forward, is
in the order of the bus, holds nothing that was lost, and has no gap but that.
It needs `FlowInv` for the bus to have no message twice (`Distinct`).

*Command line client.* `SendsInv`: once the mode is single, only the steps of
single mode follow, there is no reader, and the shared message is what the
arguments gave; the listener writes to it only where nothing is sent after.

*Mains.* `MainInv`: who lives and has the handlers holds the lock; `running` is
unset, or the listener ended, only after a signal; and after a late signal
`running` stays unset, since the activation is over. It holds whatever the
mains are, as long as each is a sequence of the known steps (`MainsType`); the
lemmas `GoesOnWith` and `PlainKeeps` serve all steps that only go on.

For `OrderlyEnds` the order of the steps matters. `PlacedInv` counts them from
the end: with `n` steps to do, the position of each kind of step in each main
(`InPlace`, shown for the eight of them from their definitions) says which comes
next, and `Placed` what was done before: how many connections are open, whether
the listener was joined, whether `running` was cleared. `NextInPlace` and
`MainInvStep` serve all steps.

*The sum.* A step of `Components` is one of the component that was chosen, and of
the others it leaves all variables alone (`StepOfOne`); the initial state is one of
each (`EachBegins`). So a behaviour of the sum is a behaviour of every component
(`EachComponentRuns`), most of the time a stuttering one, and every theorem about
a component (its specification is `GpioSpec`, `BridgeSpec`, `MainSpec`, ...) is one
about the sum, which is what the run `components` checks.

*Types.* The type invariants of the components are inductive with little more: the
stronger parts that their other proofs use (`CanTypes`, `TtyTypes`, `SpeechTypes`), where a
sequence is known to be one and not only its elements.

`QueueInv` is an invariant of its run; `DeliveryInv` and `EndsInv` were checked by
TLC on the instance of `server_short_reads`, `ListInv` and `WalkInv` on that of
`cron_schedule`, `FlowInv` and `TakenInv` on a bridge with a room of three and
three messages of each side, before they were proved.

Only model-checked: liveness (`EveryMessageRelayed`, `EveryoneServed`,
`MessageHandled`, `JoinEndsWithTraffic`, `JobsFire`, `PutsArePublished`), which is
out of the prover's reach, like ENABLED, and what the runs that expect a violation
refute. The library's induction rules take an operator and cannot be used here;
where a proof needs induction over numbers it takes the least counterexample
instead, which a theorem on well-founded relations (`WFMin`) gives.

## 6. What is not modelled

Formatting, the writing of log lines, the syntax of JSON; failures of `socket`,
`bind`, `listen` and `malloc`; partial writes (the sockets are blocking, and a
blocking write of a small record is whole unless a signal cuts it); descriptor
numbers, and with them the first argument 500 of `select()`; several filters per
client (the login carries one string).

Of the components: the fields of a cron order that stay uninitialised, and the
text of what cron sends; of lua `send_message`, the log and base64 commands,
scripts that define no `run`, and the mode `open` gives a new data base file; of
the bridge a System V queue that survived a kill with messages in it; of the
daemonizer file descriptors, the umask and ignored signals; of the command line
client a listener that could not be created; of the linked list `ll_sort`,
`ll_add` at the front and `ll_pop` at the back, which nothing that is built
calls. i2cbus, tclclient, opencv, testclient and `rocsmq-queue_` are not built,
and the top level `linkedlist` is a copy.

## 7. What was found

* **A client can end the server** (`server_ends_by_client`). A connection closed
  before its login is closed by the server at `server.c:209` and stays in the
  descriptor set; the next `select()` fails with EBADF and the loop breaks. The
  trace has seven steps.
* **SIGTERM may never end a component** (`client_term`). Its handler takes the
  mutex of the queue, which the interrupted thread may hold; a signal before
  `rocsmq_start_thread` sets the flag is undone; the join waits for a listener
  that is blocked in `read()`.
* **The list leads to freed memory** (`cron_list`). `ll_remove` clears
  `item->last` at `linkedlist.c:153` before it copies it at `:156`. Three jobs
  that are due together are enough, when the second and the third end.
* **Cron deletes the wrong jobs** (`cron_delete`). `jobequal` returns 1 for equal
  messages where `ll_find` expects 0.

* **Persisted data is gone** (`lua_persist`). `cdb_make_start` at
  `rocsmq-luaclient/src/clientmain.c:353` begins the data base anew, and the
  comment two lines below says "add or replace data". Two keys are enough.

Modelled as it is, and stated by a passing property rather than a finding,
because no comment promises otherwise:

* sphinx connects to the server twice and reads from the second connection only.
  The first fills up, and the server waits in its write with the whole bus
  (`SphinxStopsTheServer`).
* All daemons started in one directory lock the same relative `.pid`; those that
  come later run without handlers, and SIGTERM kills them (`OneCanBeStopped`).
* `add_messagemap` of canbus stores a piece of its stack instead of the entry
  (`MapOnlyGrows`); the first frame that arrives is looked up with a null pointer
  and ends the process (`CanReceive`).
* In the command line client `send` always ends the process
  (`OnlySingleModeSends`), and single mode joins a thread that was never made.
* `tty_init` clears the speed it has just set, so the line runs at speed 0, and
  what is published keeps the ends of older lines (`TextsKeepOldEnds`).
* cron and lua never return from `main`: cron frees a static variable, lua has no
  handlers (`OrderlyEnds`). The bridge calls `rocsmq_error(sock)` for
  `rocsmq_exit(sock)` and leaves its connection to the kernel.
* A configuration without a log level makes it -1, which `log_setlevel` ignores,
  so the program logs warnings only, whatever its default was.

Seen in the models, and weaker than one would like: a removal costs
the client that moves down one pass, never a message; a torn message is relayed
to others, but marks only itself and what follows it from the same sender; a
signal other than SIGTERM ends the server (`EINTR`).

## 8. The plan

Every program that is built is modelled, and every safety property of a passing
run is proved. What is left, in order:

1. Cron: of `BreaksByLostLink`, the converse: which sequences of removals break
   the list.
2. Match: what `rocsmq_message_match` answers for a pattern with text in front of
   an inner star, where it matches too much.
3. Larger instances: three processes that share the lock file, three scripts.
