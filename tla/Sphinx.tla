------------------------------- MODULE Sphinx -------------------------------
(***************************************************************************)
(* The sphinx component: rocsmq-sphinx/src/clientmain.c and recognizer.c.  *)
(* One thread handles the orders to start and stop and listens to the      *)
(* microphone, which takes until something was said.                       *)
(*                                                                         *)
(* main connects to the server twice and forgets the first connection,     *)
(* which stays in the server's list of clients: every message for sphinx   *)
(* is written to it too, and nobody reads there.  So the part of the       *)
(* server that writes to the two (send_all of server.c, modelled in        *)
(* RocsServer.tla) is here as well.                                        *)
(***************************************************************************)
EXTENDS Naturals, Sequences, SequencesExt

CONSTANTS
  SocketRoom,       \* bound: messages a socket holds before a writer waits
  MaxSphinxOrders,  \* bound: messages for sphinx
  MaxSphinxTexts    \* bound: texts sphinx publishes

ASSUME SphinxAssumption ==
  /\ SocketRoom \in Nat \ {0}
  /\ MaxSphinxOrders \in Nat
  /\ MaxSphinxTexts \in Nat

VARIABLES
  sphinxStep,     \* "connect", "init", "again", "orders", "record",
                  \* "listen" or "exit"
  record,         \* record
  uttStarted,     \* the local utt_started of recognize, not initialised
  heard,          \* history: what utt_started would be if it were
  sphinxInbox,    \* the messages the listener put in the queue:
                  \* [id, texts], texts published since it is there
  forgotten,      \* messages on the connection nobody reads
  serverHolds,    \* the message the server is about to write, if any:
                  \* [id, to]
  toServer,       \* texts on their way to the server
  distributed,    \* texts the server has taken
  sphinxOrders,   \* messages for sphinx so far
  texts           \* texts recognized so far

connections == <<forgotten, serverHolds, sphinxOrders>>
publishing == <<toServer, distributed, texts>>
sphinxVars == <<sphinxStep, record, uttStarted, heard, sphinxInbox,
                connections, publishing>>

SphinxInit ==
  /\ sphinxStep = "connect"
  /\ record = TRUE
  /\ uttStarted = FALSE
  /\ heard = FALSE
  /\ sphinxInbox = <<>>
  /\ forgotten = 0
  /\ serverHolds = {}
  /\ toServer = 0
  /\ distributed = 0
  /\ sphinxOrders = 0
  /\ texts = 0

-----------------------------------------------------------------------------
Connect ==
  /\ sphinxStep = "connect"
  /\ sphinxStep' \in {"init", "exit"}
  /\ UNCHANGED <<record, uttStarted, heard, sphinxInbox, connections, publishing>>

sphinx_init ==
  /\ sphinxStep = "init"
  /\ sphinxStep' \in {"again", "exit"}
  /\ UNCHANGED <<record, uttStarted, heard, sphinxInbox, connections, publishing>>

ConnectAgain ==
  /\ sphinxStep = "again"
  /\ sphinxStep' \in {"orders", "exit"}
  /\ UNCHANGED <<record, uttStarted, heard, sphinxInbox, connections, publishing>>

Connected == sphinxStep \notin {"connect", "exit"}

Listening == sphinxStep \in {"orders", "record", "listen"}

-----------------------------------------------------------------------------
(***************************************************************************)
(* The server and its clients.                                             *)
(***************************************************************************)
\* Some component sends a message to sphinx, and the server reads it.
MessageForSphinx ==
  /\ Connected
  /\ serverHolds = {}
  /\ sphinxOrders < MaxSphinxOrders
  /\ sphinxOrders' = sphinxOrders + 1
  /\ \E id \in {"sphinx.start", "sphinx.stop"} :
       serverHolds' = {[id |-> id, to |-> "forgotten"]}
  /\ UNCHANGED <<sphinxStep, record, uttStarted, heard, sphinxInbox, forgotten,
                 publishing>>

\* Defect: the first connection was closed, and the server skips it.
WriteToNobody ==
  \E m \in serverHolds :
    /\ m.to = "forgotten"
    /\ serverHolds' = IF Listening THEN {[m EXCEPT !.to = "sphinx"]} ELSE {}
    /\ UNCHANGED <<sphinxStep, record, uttStarted, heard, sphinxInbox, forgotten,
                   sphinxOrders, publishing>>

\* The first connection comes first in the list of clients.
WriteToForgotten ==
  \E m \in serverHolds :
    /\ m.to = "forgotten"
    /\ Connected => forgotten < SocketRoom
    /\ forgotten' = IF Connected THEN forgotten + 1 ELSE forgotten
    /\ serverHolds' = IF Listening THEN {[m EXCEPT !.to = "sphinx"]} ELSE {}
    /\ UNCHANGED <<sphinxStep, record, uttStarted, heard, sphinxInbox,
                   sphinxOrders, publishing>>

\* The second is read by the listener thread at any time.
WriteToSphinx ==
  \E m \in serverHolds :
    /\ m.to = "sphinx"
    /\ sphinxInbox' = Append(sphinxInbox, [id |-> m.id, texts |-> 0])
    /\ serverHolds' = {}
    /\ UNCHANGED <<sphinxStep, record, uttStarted, heard, forgotten,
                   sphinxOrders, publishing>>

\* The server reads a text and distributes it: only between two messages.
ServerTakesText ==
  /\ toServer > 0
  /\ serverHolds = {}
  /\ toServer' = toServer - 1
  /\ distributed' = distributed + 1
  /\ UNCHANGED <<sphinxStep, record, uttStarted, heard, sphinxInbox,
                 connections, texts>>

-----------------------------------------------------------------------------
(***************************************************************************)
(* The main loop of sphinx.                                                *)
(***************************************************************************)
SphinxHandle ==
  /\ sphinxStep = "orders"
  /\ sphinxInbox # <<>>
  /\ record' = (Head(sphinxInbox).id = "sphinx.start")
  /\ sphinxInbox' = Tail(sphinxInbox)
  /\ UNCHANGED <<sphinxStep, uttStarted, heard, connections, publishing>>

\* Defect: one message is handled in a turn.
SphinxHandledOne ==
  /\ sphinxStep = "orders"
  /\ sphinxStep' = "record"
  /\ UNCHANGED <<record, uttStarted, heard, sphinxInbox, connections, publishing>>

SphinxHandledAll ==
  /\ sphinxStep = "orders"
  /\ sphinxInbox = <<>>
  /\ sphinxStep' = "record"
  /\ UNCHANGED <<record, uttStarted, heard, sphinxInbox, connections, publishing>>

\* if (record): recognize begins.
StartRecognize ==
  /\ sphinxStep = "record"
  /\ record
  /\ texts < MaxSphinxTexts
  /\ sphinxStep' = "listen"
  /\ uttStarted' \in BOOLEAN
  /\ heard' = FALSE
  /\ UNCHANGED <<record, sphinxInbox, connections, publishing>>

NotRecording ==
  /\ sphinxStep = "record"
  /\ ~record
  /\ sphinxStep' = "orders"
  /\ UNCHANGED <<record, uttStarted, heard, sphinxInbox, connections, publishing>>

SpeechBegins ==
  /\ sphinxStep = "listen"
  /\ ~heard
  /\ uttStarted' = TRUE
  /\ heard' = TRUE
  /\ UNCHANGED <<sphinxStep, record, sphinxInbox, connections, publishing>>

\* Silence, and pocketsphinx has understood nothing: a new utterance starts.
NothingUnderstood ==
  /\ sphinxStep = "listen"
  /\ uttStarted
  /\ uttStarted' = FALSE
  /\ heard' = FALSE
  /\ UNCHANGED <<sphinxStep, record, sphinxInbox, connections, publishing>>

\* Silence, and there is a text: it is published, and the turn is over.
Recognized ==
  /\ sphinxStep = "listen"
  /\ uttStarted
  /\ toServer < SocketRoom
  /\ toServer' = toServer + 1
  /\ texts' = texts + 1
  /\ sphinxInbox' = [i \in DOMAIN sphinxInbox |->
                       [sphinxInbox[i] EXCEPT !.texts = @ + 1]]
  /\ sphinxStep' = "orders"
  /\ uttStarted' = FALSE
  /\ heard' = FALSE
  /\ UNCHANGED <<record, connections, distributed>>

SphinxNext ==
  \/ Connect
  \/ sphinx_init
  \/ ConnectAgain
  \/ MessageForSphinx
  \/ WriteToForgotten
  \/ WriteToSphinx
  \/ ServerTakesText
  \/ SphinxHandle
  \/ SphinxHandledAll
  \/ StartRecognize
  \/ NotRecording
  \/ SpeechBegins
  \/ NothingUnderstood
  \/ Recognized

SphinxSpec == SphinxInit /\ [][SphinxNext]_sphinxVars

-----------------------------------------------------------------------------
SphinxTypeOK ==
  /\ sphinxStep \in {"connect", "init", "again", "orders", "record", "listen",
                     "exit"}
  /\ \A m \in Range(sphinxInbox) : m.id \in {"sphinx.start", "sphinx.stop"}
  /\ forgotten \in 0..SocketRoom
  /\ \A m \in serverHolds : m.to \in {"forgotten", "sphinx"}
  /\ toServer \in 0..SocketRoom
  /\ sphinxOrders \in 0..MaxSphinxOrders
  /\ texts \in 0..MaxSphinxTexts

\* An order waits for one text at most: the one sphinx was listening for, or
\* began to as the order came in between its look at the queue and at record.
OneTextTooMany == \A m \in Range(sphinxInbox) : m.texts <= 1

\* After as many messages as a socket holds the server waits for the forgotten
\* connection, and neither a message nor a text of anybody gets through any
\* more while sphinx runs.
Stuck ==
  /\ Connected
  /\ forgotten = SocketRoom
  /\ \E m \in serverHolds : m.to = "forgotten"

SphinxStopsTheServer ==
  /\ [](Connected => sphinxOrders <= SocketRoom + 1)
  /\ [][Stuck /\ sphinxStep' # "exit" =>
          /\ Stuck'
          /\ distributed' = distributed
          /\ Len(sphinxInbox') <= Len(sphinxInbox)]_sphinxVars
=============================================================================
