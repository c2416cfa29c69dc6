-------------------------------- MODULE Can ---------------------------------
(***************************************************************************)
(* The canbus component: rocs_can_main.c, customconfig.c and canport.c of  *)
(* rocsmq-canbus/src.  It sends frames on order, keeps a map of the names  *)
(* frames are to be published under, and publishes the frames it gets.     *)
(*                                                                         *)
(* add_messagemap copies the bytes where its own argument lies instead of  *)
(* the entry, so the id of an entry of the map is a piece of an address:   *)
(* none that was meant, or by accident one that some order names.  The map *)
(* is a list of linkedlist.c; an item whose neighbour in front was removed *)
(* has lost its way back (Cron.tla has these lists in full).               *)
(***************************************************************************)
EXTENDS Naturals, Sequences, SequencesExt, ConfigParser

CONSTANTS
  CanIds,        \* the ids messages and frames bear
  Address,       \* the id an address makes, if it is none of those
  MaxConfigured, \* bound: entries of the map in the configuration
  MaxCanOrders,  \* bound: orders that come in
  MaxFrames      \* bound: frames that come in

ASSUME CanAssumption ==
  /\ Address \notin CanIds \union {0}
  /\ MaxConfigured \in Nat
  /\ MaxCanOrders \in Nat
  /\ MaxFrames \in Nat

VARIABLES
  canStep,     \* "config", "open", "orders", "read", "crashed"
  messagemap,  \* config->messagemap: [id, back], back: last is right
  configured,  \* entries of the configuration handled
  opened,      \* can_open has bound the socket
  canInbox,    \* the messages the listener put in the queue
  canOrders,   \* messages that came in so far
  frames,      \* frames that wait in the socket
  canFrames,   \* frames that came in so far
  canSent,     \* the ids of the frames sent on the bus
  added,       \* history: entries that were to be added
  accident     \* history: an address has made an id

canTraffic == <<canOrders, frames, canFrames>>
canHistory == <<added, accident>>
canVars == <<canStep, messagemap, configured, opened, canInbox, canTraffic,
             canSent, canHistory>>

CanInit ==
  /\ canStep = "config"
  /\ messagemap = <<>>
  /\ configured = 0
  /\ opened = FALSE
  /\ canInbox = <<>>
  /\ canOrders = 0
  /\ frames = 0
  /\ canFrames = 0
  /\ canSent = <<>>
  /\ added = 0
  /\ accident = FALSE

-----------------------------------------------------------------------------
(***************************************************************************)
(* The map.                                                                *)
(***************************************************************************)
\* The entries ll_find may stop at: the first with the id.
Found(id) == {i \in DOMAIN messagemap :
                /\ messagemap[i].id = id
                /\ \A j \in 1..i - 1 : messagemap[j].id # id}

\* ll_remove: the item behind loses its way back.
Without(i) ==
  [j \in 1..Len(messagemap) - 1 |->
     IF j < i THEN messagemap[j]
     ELSE [messagemap[j + 1] EXCEPT !.back = IF j = i THEN i = 1 ELSE @]]

\* Removing an item that has no way back leaves the one in front pointing to
\* memory that was freed.
Breaks(id) == \E i \in Found(id) : i > 1 /\ ~messagemap[i].back

\* del_messagemap: the map afterwards.
del_messagemap(id) ==
  IF Found(id) = {} THEN messagemap
  ELSE Without(CHOOSE i \in Found(id) : TRUE)

\* Defect: the entry itself is copied.
add_messagemap_entry(id) ==
  /\ messagemap' = Append(del_messagemap(id), [id |-> id, back |-> TRUE])
  /\ accident' = accident
  /\ added' = added + 1

add_messagemap(id) ==
  /\ \E copied \in CanIds \union {Address} :
       /\ messagemap' = Append(del_messagemap(id), [id |-> copied, back |-> TRUE])
       /\ accident' = (accident \/ copied # Address)
  /\ added' = added + 1

-----------------------------------------------------------------------------
\* canbus_custom_config: parse_mapentry returns no value, so what is taken for
\* an error is open, and ends the loop.
ConfigureEntry ==
  /\ canStep = "config"
  /\ configured < MaxConfigured
  /\ configured' = configured + 1
  /\ \E id \in CanIds : ~Breaks(id) /\ add_messagemap(id)
  /\ UNCHANGED <<canStep, opened, canInbox, canTraffic, canSent>>

\* A file without a map: json-c counts no entries, or aborts.
CanConfigured ==
  /\ canStep = "config"
  /\ canStep' \in {"open"} \union (IF configured = 0 THEN {"crashed"} ELSE {})
  /\ UNCHANGED <<messagemap, configured, opened, canInbox, canTraffic, canSent,
                 canHistory>>

\* can_open, whose result main ignores.
can_open ==
  /\ canStep = "open"
  /\ opened' \in BOOLEAN
  /\ canStep' = "orders"
  /\ UNCHANGED <<messagemap, configured, canInbox, canTraffic, canSent, canHistory>>

Running == canStep \in {"orders", "read"}

CanMessage ==
  /\ Running
  /\ canOrders < MaxCanOrders
  /\ canOrders' = canOrders + 1
  /\ \E o \in {"can.send", "can.addmap", "can.delmap"},
        id \in {{}} \union {{c} : c \in CanIds} :
       canInbox' = Append(canInbox, [order |-> o, id |-> id])
  /\ UNCHANGED <<canStep, messagemap, configured, opened, frames, canFrames,
                 canSent, canHistory>>

\* A frame, or an error of the socket, which can_read takes for one.
Frame ==
  /\ Running
  /\ opened
  /\ canFrames < MaxFrames
  /\ canFrames' = canFrames + 1
  /\ frames' = frames + 1
  /\ UNCHANGED <<canStep, messagemap, configured, opened, canInbox, canOrders,
                 canSent, canHistory>>

HandlesCan(order) ==
  /\ canStep = "orders"
  /\ canInbox # <<>>
  /\ Head(canInbox).order = order
  /\ canInbox' = Tail(canInbox)

\* can.send: without an id the frame gets what the stack held; on a socket
\* that is not bound the frame is lost, and nobody notices.
CanSend ==
  /\ HandlesCan("can.send")
  /\ \E id \in IF Head(canInbox).id = {} THEN CanIds \union {Address}
               ELSE Head(canInbox).id :
       canSent' = IF opened THEN Append(canSent, id) ELSE canSent
  /\ UNCHANGED <<canStep, messagemap, configured, opened, canTraffic, canHistory>>

\* The id of an order on the map: memset has put 0 where there was none, and
\* with that id the names are compared, which are garbage as well.
MapId(m) == get_val(0, m.id)

CanAddMap ==
  /\ HandlesCan("can.addmap")
  /\ IF Breaks(MapId(Head(canInbox)))
     THEN /\ canStep' = "crashed"
          /\ UNCHANGED <<messagemap, canHistory>>
     ELSE /\ add_messagemap(MapId(Head(canInbox)))
          /\ UNCHANGED canStep
  /\ UNCHANGED <<configured, opened, canTraffic, canSent>>

CanDelMap ==
  /\ HandlesCan("can.delmap")
  /\ IF Breaks(MapId(Head(canInbox)))
     THEN canStep' = "crashed" /\ UNCHANGED messagemap
     ELSE messagemap' = del_messagemap(MapId(Head(canInbox))) /\ UNCHANGED canStep
  /\ UNCHANGED <<configured, opened, canTraffic, canSent, added, accident>>

CanOrdersDone ==
  /\ canStep = "orders"
  /\ canInbox = <<>>
  /\ canStep' = "read"
  /\ UNCHANGED <<messagemap, configured, opened, canInbox, canTraffic, canSent,
                 canHistory>>

\* can_read without a socket adds descriptor -1 to a set, with any outcome.
CanNothing ==
  /\ canStep = "read"
  /\ frames = 0
  /\ canStep' \in {"orders"} \union (IF opened THEN {} ELSE {"crashed"})
  /\ UNCHANGED <<messagemap, configured, opened, canInbox, canTraffic, canSent,
                 canHistory>>

\* create_rocs_message looks the frame up without a name, and get_message
\* copies from the null pointer.
CanReceive ==
  /\ canStep = "read"
  /\ frames > 0
  /\ frames' = frames - 1
  /\ canStep' = "crashed"
  /\ UNCHANGED <<messagemap, configured, opened, canInbox, canOrders, canFrames,
                 canSent, canHistory>>

CanNext ==
  \/ ConfigureEntry
  \/ CanConfigured
  \/ can_open
  \/ CanMessage
  \/ Frame
  \/ CanSend
  \/ CanAddMap
  \/ CanDelMap
  \/ CanOrdersDone
  \/ CanNothing
  \/ CanReceive

CanSpec == CanInit /\ [][CanNext]_canVars

-----------------------------------------------------------------------------
CanTypeOK ==
  /\ canStep \in {"config", "open", "orders", "read", "crashed"}
  /\ \A i \in DOMAIN messagemap :
       /\ messagemap[i].id \in CanIds \union {Address}
       /\ messagemap[i].back \in BOOLEAN
  /\ configured \in 0..MaxConfigured
  /\ canOrders \in 0..MaxCanOrders
  /\ frames \in 0..canFrames
  /\ Range(canSent) \subseteq CanIds \union {Address}

\* The map only grows: unless an address happens to make an id, no order to
\* delete finds an entry, nor does a second entry for an id replace the first
\* (customconfig.c:62).
MapOnlyGrows == ~accident => Len(messagemap) = added
=============================================================================
