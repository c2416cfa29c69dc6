-------------------------------- MODULE Cli ---------------------------------
(***************************************************************************)
(* The command line client, rocsmq-cli/src/climain.c and cli_functions.c.  *)
(* In single mode it sends one message.  In interactive mode the main      *)
(* thread reads lines and a second thread shows the messages that come in; *)
(* the listener of the socket library is a third.                          *)
(***************************************************************************)
EXTENDS Naturals, Sequences, SequencesExt

CONSTANTS
  MaxLinesTyped, \* bound: lines the user types
  MaxCliMessages \* bound: messages that come in

ASSUME CliAssumption == MaxLinesTyped \in Nat /\ MaxCliMessages \in Nat

CliLines == {"quit", "send", "other"}

VARIABLES
  cliStep,    \* the main thread: "arguments", "connect", "loop", "read",
              \* "execute", "single", "join reader", "join", "ended", "crashed"
  mode,       \* cliconfig.mode
  input,      \* the local input of main
  typed,      \* lines the user typed so far
  closed,     \* the user has closed the input
  connected,  \* the server has not closed the connection
  isRunning,  \* pdata.running of the socket library
  cliInbox,   \* messages the listener put in the queue
  cliMessage, \* message.id: shared by the threads
  readStep,   \* the reader: "none", "drain", "delay", "ended"
  hearStep,   \* the listener: "none", "pause", "read", "ended"
  cliSent,    \* history: what was sent
  cliCount    \* messages that came in

cliVars == <<cliStep, mode, input, typed, closed, connected, isRunning,
             cliInbox, cliMessage, readStep, hearStep, cliSent, cliCount>>

CliInit ==
  /\ cliStep = "arguments"
  /\ mode = "interactive"
  /\ input = "other"
  /\ typed = 0
  /\ closed = FALSE
  /\ connected = FALSE
  /\ isRunning = TRUE
  /\ cliInbox = <<>>
  /\ cliMessage = ""
  /\ readStep = "none"
  /\ hearStep = "none"
  /\ cliSent = <<>>
  /\ cliCount = 0

-----------------------------------------------------------------------------
\* get_parameters: the last of -S and -I counts, and -i gives the id.
get_parameters ==
  /\ cliStep = "arguments"
  /\ mode' \in {"interactive", "single"}
  /\ cliMessage' \in {"", "given"}
  /\ cliStep' = "connect"
  /\ UNCHANGED <<input, typed, closed, connected, isRunning, cliInbox,
                 readStep, hearStep, cliSent, cliCount>>

\* rocsmq_init, the listener, and in interactive mode the reader; what input
\* holds before the first line is open.
CliConnect ==
  /\ cliStep = "connect"
  /\ \/ /\ cliStep' = "ended"
        /\ UNCHANGED <<connected, readStep, hearStep, input>>
     \/ /\ connected' = TRUE
        /\ cliStep' = IF mode = "single" THEN "single" ELSE "loop"
        /\ readStep' = IF mode = "single" THEN "none" ELSE "drain"
        /\ hearStep' = "pause"
        /\ input' \in CliLines
  /\ UNCHANGED <<mode, typed, closed, isRunning, cliInbox, cliMessage, cliSent,
                 cliCount>>

\* A crash ends the other threads as well.
CliAlive == cliStep \notin {"crashed", "ended"}

\* The listener: a message, or the end of the connection, wakes it; it then
\* looks at isRunning.  That the connection is lost ends nothing.
CliArrives ==
  /\ CliAlive
  /\ hearStep = "read"
  /\ connected
  /\ cliCount < MaxCliMessages
  /\ cliCount' = cliCount + 1
  /\ cliInbox' = Append(cliInbox, "received")
  /\ hearStep' = "pause"
  /\ UNCHANGED <<cliStep, mode, input, typed, closed, connected, isRunning,
                 cliMessage, readStep, cliSent>>

HearsNothing ==
  /\ CliAlive
  /\ hearStep = "read"
  /\ ~connected
  /\ hearStep' = "pause"
  /\ UNCHANGED <<cliStep, mode, input, typed, closed, connected, isRunning,
                 cliInbox, cliMessage, readStep, cliSent, cliCount>>

HearsOn ==
  /\ CliAlive
  /\ hearStep = "pause"
  /\ hearStep' = IF isRunning THEN "read" ELSE "ended"
  /\ UNCHANGED <<cliStep, mode, input, typed, closed, connected, isRunning,
                 cliInbox, cliMessage, readStep, cliSent, cliCount>>

ServerCloses ==
  /\ CliAlive
  /\ connected
  /\ connected' = FALSE
  /\ UNCHANGED <<cliStep, mode, input, typed, closed, isRunning, cliInbox,
                 cliMessage, readStep, hearStep, cliSent, cliCount>>

-----------------------------------------------------------------------------
CliLoop ==
  /\ cliStep = "loop"
  /\ cliStep' = IF isRunning THEN "read" ELSE "join reader"
  /\ UNCHANGED <<mode, input, typed, closed, connected, isRunning, cliInbox,
                 cliMessage, readStep, hearStep, cliSent, cliCount>>

\* fgets waits for a line.
ReadLine ==
  /\ cliStep = "read"
  /\ ~closed
  /\ typed < MaxLinesTyped
  /\ typed' = typed + 1
  /\ input' \in CliLines
  /\ cliStep' = "execute"
  /\ UNCHANGED <<mode, closed, connected, isRunning, cliInbox, cliMessage,
                 readStep, hearStep, cliSent, cliCount>>

CloseInput ==
  /\ cliStep = "read"
  /\ closed' = TRUE
  /\ UNCHANGED <<cliStep, mode, input, typed, connected, isRunning, cliInbox,
                 cliMessage, readStep, hearStep, cliSent, cliCount>>

\* At the end of the input fgets fails and input keeps the last line, which is
\* executed again in each turn.
ReadNothing ==
  /\ cliStep = "read"
  /\ closed
  /\ cliStep' = "execute"
  /\ UNCHANGED <<mode, input, typed, closed, connected, isRunning, cliInbox,
                 cliMessage, readStep, hearStep, cliSent, cliCount>>

\* execute with func_quit; any other line than the two does nothing.
ExecuteQuit ==
  /\ cliStep = "execute"
  /\ input # "send"
  /\ isRunning' = (isRunning /\ input # "quit")
  /\ cliStep' = "loop"
  /\ UNCHANGED <<mode, input, typed, closed, connected, cliInbox, cliMessage,
                 readStep, hearStep, cliSent, cliCount>>

\* Defect: the end of the id is marked, and the message sent.
func_send_marks ==
  /\ cliStep = "execute"
  /\ input = "send"
  /\ cliMessage' = "given"
  /\ cliSent' = Append(cliSent, cliMessage')
  /\ cliStep' = "loop"
  /\ UNCHANGED <<mode, input, typed, closed, connected, isRunning, cliInbox,
                 readStep, hearStep, cliCount>>

\* func_send sets pos_tail to null, where it means to mark the end of the id,
\* and reads what lies behind null.
func_send ==
  /\ cliStep = "execute"
  /\ input = "send"
  /\ cliStep' = "crashed"
  /\ UNCHANGED <<mode, input, typed, closed, connected, isRunning, cliInbox,
                 cliMessage, readStep, hearStep, cliSent, cliCount>>

\* send_message sends with any id, the empty one too.
SingleSend ==
  /\ cliStep = "single"
  /\ cliSent' = Append(cliSent, cliMessage)
  /\ cliStep' = "join reader"
  /\ UNCHANGED <<mode, input, typed, closed, connected, isRunning, cliInbox,
                 cliMessage, readStep, hearStep, cliCount>>

\* read_thread takes all there is, waits, and looks at isRunning.
ReaderTakes ==
  /\ CliAlive
  /\ readStep = "drain"
  /\ cliInbox # <<>>
  /\ cliMessage' = Head(cliInbox)
  /\ cliInbox' = Tail(cliInbox)
  /\ UNCHANGED <<cliStep, mode, input, typed, closed, connected, isRunning,
                 readStep, hearStep, cliSent, cliCount>>

ReaderWaits ==
  /\ CliAlive
  /\ readStep = "drain"
  /\ cliInbox = <<>>
  /\ readStep' = "delay"
  /\ UNCHANGED <<cliStep, mode, input, typed, closed, connected, isRunning,
                 cliInbox, cliMessage, hearStep, cliSent, cliCount>>

ReaderLooks ==
  /\ CliAlive
  /\ readStep = "delay"
  /\ readStep' = IF isRunning THEN "drain" ELSE "ended"
  /\ UNCHANGED <<cliStep, mode, input, typed, closed, connected, isRunning,
                 cliInbox, cliMessage, hearStep, cliSent, cliCount>>

\* In single mode there is no reader, and readprocess was never assigned: the
\* join crashes, hangs or returns.
JoinReader ==
  /\ cliStep = "join reader"
  /\ \/ readStep = "ended" /\ cliStep' = "join"
     \/ readStep = "none" /\ cliStep' \in {"join", "crashed"}
  /\ isRunning' = FALSE
  /\ UNCHANGED <<mode, input, typed, closed, connected, cliInbox, cliMessage,
                 readStep, hearStep, cliSent, cliCount>>

\* rocsmq_destroy_thread, which has cleared isRunning, and rocsmq_exit.
CliJoin ==
  /\ cliStep = "join"
  /\ hearStep = "ended"
  /\ cliStep' = "ended"
  /\ connected' = FALSE
  /\ UNCHANGED <<mode, input, typed, closed, isRunning, cliInbox, cliMessage,
                 readStep, hearStep, cliSent, cliCount>>

CliNext ==
  \/ get_parameters
  \/ CliConnect
  \/ CliArrives
  \/ HearsNothing
  \/ HearsOn
  \/ ServerCloses
  \/ CliLoop
  \/ ReadLine
  \/ CloseInput
  \/ ReadNothing
  \/ ExecuteQuit
  \/ func_send
  \/ SingleSend
  \/ ReaderTakes
  \/ ReaderWaits
  \/ ReaderLooks
  \/ JoinReader
  \/ CliJoin

CliSpec == CliInit /\ [][CliNext]_cliVars

-----------------------------------------------------------------------------
CliTypeOK ==
  /\ cliStep \in {"arguments", "connect", "loop", "read", "execute", "single",
                  "join reader", "join", "ended", "crashed"}
  /\ mode \in {"interactive", "single"}
  /\ input \in CliLines
  /\ typed \in 0..MaxLinesTyped
  /\ Range(cliInbox) \subseteq {"received"}
  /\ cliMessage \in {"", "given", "received"}
  /\ readStep \in {"none", "drain", "delay", "ended"}
  /\ hearStep \in {"none", "pause", "read", "ended"}

\* Nothing is ever sent in interactive mode (climain.c:85), and in single mode
\* what the arguments gave: the reader, which would write over it, runs only
\* where nothing is sent.
OnlySingleModeSends ==
  /\ cliSent # <<>> => mode = "single" /\ cliSent[1] # "received"
  /\ mode = "single" /\ cliStep \in {"join reader", "join"} => Len(cliSent) = 1
=============================================================================
