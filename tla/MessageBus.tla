----------------------------- MODULE MessageBus -----------------------------
(***************************************************************************)
(* What the server promises the components (README.md, 1. and 2.): a bus.  *)
(* A component joins with a filter; whatever a member publishes gets one   *)
(* place in a log; every member is given the messages its filter matches,  *)
(* its own ones too, from the place where it joined, in the order of the   *)
(* log, each once.                                                         *)
(***************************************************************************)
EXTENDS Naturals, Sequences

CONSTANTS
  Clients,   \* who may join
  Ids,       \* message ids
  Filters,   \* what a client may join with
  Accepts    \* the ids each filter matches

VARIABLES
  log,           \* what was published
  subscription,  \* the filter of each member, {} for who is not one
  joined,        \* how long the log was when a member joined
  delivered      \* the places in the log given to each client

vars == <<log, subscription, joined, delivered>>

Init ==
  /\ log = <<>>
  /\ subscription = [c \in Clients |-> {}]
  /\ joined = [c \in Clients |-> 0]
  /\ delivered = [c \in Clients |-> <<>>]

Member(c) == subscription[c] # {}

Matches(c, n) == \E f \in subscription[c] : log[n].id \in Accepts[f]

(***************************************************************************)
(* The place up to which c has been served.                                *)
(***************************************************************************)
Served(c) ==
  LET d == delivered[c] IN IF d = <<>> THEN joined[c] ELSE d[Len(d)]

Join(c) ==
  /\ ~Member(c)
  /\ delivered[c] = <<>>
  /\ \E f \in Filters : subscription' = [subscription EXCEPT ![c] = {f}]
  /\ joined' = [joined EXCEPT ![c] = Len(log)]
  /\ UNCHANGED <<log, delivered>>

Leave(c) ==
  /\ Member(c)
  /\ subscription' = [subscription EXCEPT ![c] = {}]
  /\ UNCHANGED <<log, joined, delivered>>

Publish(c) ==
  /\ Member(c)
  /\ Len(log') = Len(log) + 1
  /\ SubSeq(log', 1, Len(log)) = log
  /\ log'[Len(log) + 1].from = c
  /\ log'[Len(log) + 1].id \in Ids
  /\ UNCHANGED <<subscription, joined, delivered>>

Deliver(c) ==
  /\ Member(c)
  /\ \E n \in Served(c) + 1..Len(log) :
       /\ Matches(c, n)
       /\ \A m \in Served(c) + 1..n - 1 : ~Matches(c, m)
       /\ delivered' = [delivered EXCEPT ![c] = Append(@, n)]
  /\ UNCHANGED <<log, subscription, joined>>

Next == \E c \in Clients : Join(c) \/ Leave(c) \/ Publish(c) \/ Deliver(c)

Spec == Init /\ [][Next]_vars
=============================================================================
