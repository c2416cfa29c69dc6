-------------------------------- MODULE Tty ---------------------------------
(***************************************************************************)
(* The tty component: rocsmq-tty/src/clientmain.c and tty.c.  A turn of    *)
(* the main loop handles the orders that came in, then publishes a line    *)
(* when the terminal has one.                                              *)
(*                                                                         *)
(* Orders and texts share the variable message of main: a text goes out    *)
(* with what the last order left in it.  The line is copied to a buffer of *)
(* main without a terminator.                                              *)
(***************************************************************************)
EXTENDS Naturals, Sequences, SequencesExt, ConfigParser

CONSTANTS
  Rates,       \* the baud rates a configuration may ask for
  TtyLines,    \* the lines a terminal may give, with their newline
  TtyOrders,   \* the messages that may come in: [id, sender, value]
  MaxLines,    \* bound: lines the terminal gives
  MaxTtyOrders \* bound: messages that come in

ASSUME TtyAssumption ==
  /\ \A l \in TtyLines : l # <<>> /\ l \in Seq(Range(l))
  /\ MaxLines \in Nat
  /\ MaxTtyOrders \in Nat

VARIABLES
  rate,        \* clientconfig.baudrate
  speed,       \* the speed the terminal was set to; 0 is B0
  ttyStep,     \* "config", "init", "orders", "line"
  ttyInbox,    \* the messages the listener put in the queue
  lines,       \* the lines that wait in the terminal
  sender,      \* message.sender of main; "" before the first message
  recvdata,    \* the buffer of main the lines are copied to
  written,     \* what was written to the terminal
  ttyLog,      \* history: the lines and the texts published for them
  arrived      \* history: how many messages and lines there were

ttyDevice == <<rate, speed>>
ttyVars == <<ttyDevice, ttyStep, ttyInbox, lines, sender, recvdata, written,
             ttyLog, arrived>>

Stack == "what the stack held"

TtyInit ==
  /\ rate = 9600
  /\ speed = 0
  /\ ttyStep = "config"
  /\ ttyInbox = <<>>
  /\ lines = <<>>
  /\ sender = Stack
  /\ recvdata = <<>>
  /\ written = <<>>
  /\ ttyLog = <<>>
  /\ arrived = [messages |-> 0, lines |-> 0]

-----------------------------------------------------------------------------
\* custom_config: the default stays when the key is missing.
tty_custom_config ==
  /\ ttyStep = "config"
  /\ \E configured \in {{}} \union {{r} : r \in Rates} :
       rate' = get_val(rate, configured)
  /\ ttyStep' = "init"
  /\ UNCHANGED <<speed, ttyInbox, lines, sender, recvdata, written, ttyLog,
                 arrived>>

\* The rate tty_init finds for the configured one.
Baudrate == IF rate \in {19200, 57600, 115200} THEN rate ELSE 9600

\* tty_init: memset clears the structure after the speeds were put in.
tty_init ==
  LET tio == [speed |-> Baudrate]
      cleared == [tio EXCEPT !.speed = 0]
  IN
  /\ ttyStep = "init"
  /\ speed' = cleared.speed
  /\ ttyStep' = "orders"
  /\ UNCHANGED <<rate, ttyInbox, lines, sender, recvdata, written, ttyLog,
                 arrived>>

\* The listener thread, at any time.
TtyMessage ==
  /\ ttyStep \in {"orders", "line"}
  /\ arrived.messages < MaxTtyOrders
  /\ arrived' = [arrived EXCEPT !.messages = @ + 1]
  /\ \E m \in TtyOrders : ttyInbox' = Append(ttyInbox, m)
  /\ UNCHANGED <<ttyDevice, ttyStep, lines, sender, recvdata, written, ttyLog>>

\* The terminal, at any time.
TtyLine ==
  /\ ttyStep \in {"orders", "line"}
  /\ arrived.lines < MaxLines
  /\ arrived' = [arrived EXCEPT !.lines = @ + 1]
  /\ \E l \in TtyLines : lines' = Append(lines, l)
  /\ UNCHANGED <<ttyDevice, ttyStep, ttyInbox, sender, recvdata, written, ttyLog>>

\* handle_message: senddata is a local, and holds anything without a value.
TtyHandle ==
  LET m == Head(ttyInbox) IN
  /\ ttyStep = "orders"
  /\ ttyInbox # <<>>
  /\ ttyInbox' = Tail(ttyInbox)
  /\ sender' = m.sender
  /\ written' = IF m.id = "tty.write"
                THEN Append(written, get_val(Stack, m.value)) ELSE written
  /\ UNCHANGED <<ttyDevice, ttyStep, lines, recvdata, ttyLog, arrived>>

TtyOrdersDone ==
  /\ ttyStep = "orders"
  /\ ttyInbox = <<>>
  /\ ttyStep' = "line"
  /\ UNCHANGED <<ttyDevice, ttyInbox, lines, sender, recvdata, written, ttyLog,
                 arrived>>

\* tty_read copies the line over the start of the buffer.
Overwrite(buffer, line) ==
  line \o SubSeq(buffer, Len(line) + 1, Len(buffer))

\* Defect: the copy ends with a terminator, the text is the line.
TtyPublishLine ==
  LET line == Head(lines) IN
  /\ ttyStep = "line"
  /\ lines # <<>>
  /\ Len(line) > 1
  /\ lines' = Tail(lines)
  /\ recvdata' = line
  /\ ttyLog' = Append(ttyLog, [line |-> line, text |-> recvdata'])
  /\ ttyStep' = "orders"
  /\ UNCHANGED <<ttyDevice, ttyInbox, sender, written, arrived>>

TtyPublish ==
  LET line == Head(lines) IN
  /\ ttyStep = "line"
  /\ lines # <<>>
  /\ Len(line) > 1
  /\ lines' = Tail(lines)
  /\ recvdata' = Overwrite(recvdata, line)
  /\ ttyLog' = Append(ttyLog, [line |-> line, text |-> recvdata'])
  /\ ttyStep' = "orders"
  /\ UNCHANGED <<ttyDevice, ttyInbox, sender, written, arrived>>

\* tty_hasdata takes a line of one character for none, and has read it.
TtyNoData ==
  /\ ttyStep = "line"
  /\ lines # <<>> => Len(Head(lines)) <= 1
  /\ lines' = IF lines = <<>> THEN <<>> ELSE Tail(lines)
  /\ ttyStep' = "orders"
  /\ UNCHANGED <<ttyDevice, ttyInbox, sender, recvdata, written, ttyLog, arrived>>

TtyNext ==
  \/ tty_custom_config
  \/ tty_init
  \/ TtyMessage
  \/ TtyLine
  \/ TtyHandle
  \/ TtyOrdersDone
  \/ TtyPublish
  \/ TtyNoData

TtySpec == TtyInit /\ [][TtyNext]_ttyVars

-----------------------------------------------------------------------------
TtyTypeOK ==
  /\ rate \in Rates \union {9600}
  /\ speed \in Nat
  /\ ttyStep \in {"config", "init", "orders", "line"}
  /\ Range(ttyInbox) \subseteq TtyOrders
  /\ Range(lines) \subseteq TtyLines
  /\ sender \in {m.sender : m \in TtyOrders} \union {Stack}
  /\ arrived.messages \in 0..MaxTtyOrders
  /\ arrived.lines \in 0..MaxLines

LastOf(indices) == CHOOSE i \in indices : \A j \in indices : j <= i

\* A text published starts with its line and goes on with the ends of the
\* lines before it that were longer, as far as the longest: each character is
\* the one of the last line that reached so far (tty.c:71).
TextsKeepOldEnds ==
  \A i \in DOMAIN ttyLog :
    LET text == ttyLog[i].text
        Reaching(k) == {j \in 1..i : Len(ttyLog[j].line) >= k}
    IN /\ Reaching(Len(text) + 1) = {}
       /\ \A k \in DOMAIN text :
            /\ Reaching(k) # {}
            /\ text[k] = ttyLog[LastOf(Reaching(k))].line[k]
=============================================================================
