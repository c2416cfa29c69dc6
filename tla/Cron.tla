-------------------------------- MODULE Cron --------------------------------
(***************************************************************************)
(* The cron component: rocsmq-cron/src/rocs_cron.c and the orders of its   *)
(* clientmain.c, over the doubly linked list of rocsmq/src/linkedlist.c.   *)
(*                                                                         *)
(* The main thread alternates between tick(), which advances the clock and *)
(* walks the list for the jobs that are due, and the messages that came    *)
(* in, which add a job at the end of the list or delete jobs.  Every step  *)
(* of a walk along the list is a step here, with the item the code holds   *)
(* a pointer to; an item that was destroyed is memory that was freed, and  *)
(* what happens once the code reads it is undefined.                       *)
(***************************************************************************)
EXTENDS Integers, FiniteSets

CONSTANTS
  Orders,      \* the jobs a message may ask for; timestamp counts from the
               \* next tick, and is not -1, which is the tick that just was
  Step,        \* config.tick: ticks per turn of the main loop
  Width,       \* the clock and the timestamps count modulo Width (2^32)
  MaxOrders    \* bound: messages handled

ASSUME CronAssumption ==
  /\ Step \in Nat \ {0}
  /\ Width \in Nat \ {0, 1}
  /\ MaxOrders \in Nat
  /\ \A j \in Orders :
       j \in [message : {j.message}, timestamp : 0..Width - 2,
              period : Nat, repetitions : Int]

VARIABLES
  clock,     \* searchjob.timestamp
  list,      \* cronlist: the first item
  next,      \* item->next
  last,      \* item->last
  job,       \* item->data
  live,      \* the items that were created and not destroyed
  pc,        \* what the main thread is doing
  item,      \* the item its walk is at
  argument,  \* the item to append, or the message of the jobs to delete
  orders,    \* messages handled
  fired,     \* history: the jobs sent since the clock last moved
  peak       \* history: most items there ever were at once

listVars == <<list, next, last, job, live, peak>>
vars == <<clock, listVars, pc, item, argument, orders, fired>>

Items == 1..MaxOrders

Null == 0

NoJob == [message |-> "", timestamp |-> 0, period |-> 0, repetitions |-> 0]

Init ==
  /\ clock = 1
  /\ list = Null
  /\ next = [n \in Items |-> Null]
  /\ last = [n \in Items |-> Null]
  /\ job = [n \in Items |-> NoJob]
  /\ live = {}
  /\ pc = "idle"
  /\ item = Null
  /\ argument = Null
  /\ orders = 0
  /\ fired = {}
  /\ peak = 0

-----------------------------------------------------------------------------
(***************************************************************************)
(* ll_remove and ll_destroy.  item->last is cleared before it is handed to *)
(* the next item, so that one always loses its way back.                   *)
(***************************************************************************)
Neighbours(n) == {last[n], next[n]} \ {Null}

\* Defect: the first item is removed and the list still starts with it.
RemoveKeepsHead(n) ==
  /\ list' = list
  /\ next' = [m \in Items |-> IF m = n THEN Null
                              ELSE IF m = last[n] THEN next[n] ELSE next[m]]
  /\ last' = [m \in Items |-> IF m \in {n, next[n]} THEN Null ELSE last[m]]
  /\ job' = [job EXCEPT ![n] = NoJob]
  /\ live' = live \ {n}
  /\ UNCHANGED peak

\* Defect: the item before is not linked to the item behind.
RemoveKeepsLink(n) ==
  /\ list' = IF list = n THEN next[n] ELSE list
  /\ next' = [next EXCEPT ![n] = Null]
  /\ last' = [m \in Items |-> IF m = n THEN Null
                              ELSE IF m = next[n] THEN last[n] ELSE last[m]]
  /\ job' = [job EXCEPT ![n] = NoJob]
  /\ live' = live \ {n}
  /\ UNCHANGED peak

\* Defect: the item is not destroyed.
RemoveOnly(n) ==
  /\ list' = IF list = n THEN next[n] ELSE list
  /\ next' = [m \in Items |-> IF m = n THEN Null
                              ELSE IF m = last[n] THEN next[n] ELSE next[m]]
  /\ last' = [m \in Items |-> IF m \in {n, next[n]} THEN Null ELSE last[m]]
  /\ UNCHANGED <<job, live, peak>>

ll_remove(n) ==
  /\ list' = IF list = n THEN next[n] ELSE list
  /\ next' = [m \in Items |-> IF m = n THEN Null
                              ELSE IF m = last[n] THEN next[n] ELSE next[m]]
  /\ last' = [m \in Items |-> IF m \in {n, next[n]} THEN Null ELSE last[m]]
  /\ job' = [job EXCEPT ![n] = NoJob]
  /\ live' = live \ {n}
  /\ UNCHANGED peak

(***************************************************************************)
(* The walk reads the item it is at, a removal writes to its neighbours:   *)
(* with one of them freed, anything may follow.                            *)
(***************************************************************************)
Due(n) == job[n].timestamp = clock

Finished(n) == job[n].repetitions \in {0, 1}

ll_find(n) == job[n].message # argument

Removes(n) == (pc = "tick" /\ Due(n) /\ Finished(n)) \/ (pc = "find" /\ ll_find(n))

TouchesFreed ==
  /\ pc \in {"tick", "append", "find"}
  /\ item # Null
  /\ item \in live => Removes(item) /\ ~(Neighbours(item) \subseteq live)
  /\ pc' = "undefined"
  /\ UNCHANGED <<clock, listVars, item, argument, orders, fired>>

At(where) ==
  /\ pc = where
  /\ item \in live
  /\ ~(Removes(item) /\ ~(Neighbours(item) \subseteq live))

-----------------------------------------------------------------------------
(***************************************************************************)
(* tick(): a job that is due is sent; its next time is set, and after its  *)
(* last repetition it is removed.  The item behind is read before that.    *)
(***************************************************************************)
TickStart ==
  /\ pc = "idle"
  /\ clock' = (clock + Step) % Width
  /\ fired' = {}
  /\ item' = list
  /\ pc' = "tick"
  /\ UNCHANGED <<listVars, argument, orders>>

TickPass ==
  /\ At("tick")
  /\ ~Due(item)
  /\ item' = next[item]
  /\ UNCHANGED <<clock, listVars, pc, argument, orders, fired>>

\* Defect: the repetitions are counted down to one below the last.
FireOnceMore ==
  /\ At("tick")
  /\ Due(item)
  /\ job[item].repetitions # 0
  /\ fired' = fired \cup {item}
  /\ job' = [job EXCEPT
               ![item].timestamp = (@ + job[item].period) % Width,
               ![item].repetitions = IF @ > 0 THEN @ - 1 ELSE @]
  /\ item' = next[item]
  /\ UNCHANGED <<clock, list, next, last, live, peak, pc, argument, orders>>

\* Defect: the next time is counted beyond the width of the clock.
FireWide ==
  /\ At("tick")
  /\ Due(item)
  /\ ~Finished(item)
  /\ fired' = fired \cup {item}
  /\ job' = [job EXCEPT
               ![item].timestamp = @ + job[item].period,
               ![item].repetitions = IF @ > 0 THEN @ - 1 ELSE @]
  /\ item' = next[item]
  /\ UNCHANGED <<clock, list, next, last, live, peak, pc, argument, orders>>

FireAgain ==
  /\ At("tick")
  /\ Due(item)
  /\ ~Finished(item)
  /\ fired' = fired \cup {item}
  /\ job' = [job EXCEPT
               ![item].timestamp = (@ + job[item].period) % Width,
               ![item].repetitions = IF @ > 0 THEN @ - 1 ELSE @]
  /\ item' = next[item]
  /\ UNCHANGED <<clock, list, next, last, live, peak, pc, argument, orders>>

FireLast ==
  /\ At("tick")
  /\ Due(item)
  /\ Finished(item)
  /\ fired' = fired \cup {item}
  /\ item' = next[item]
  /\ ll_remove(item)
  /\ UNCHANGED <<clock, pc, argument, orders>>

EndWalk ==
  /\ pc \in {"tick", "find"}
  /\ item = Null
  /\ pc' = "idle"
  /\ argument' = Null
  /\ UNCHANGED <<clock, listVars, item, orders, fired>>

-----------------------------------------------------------------------------
(***************************************************************************)
(* add_cronjob: the time of the order counts from the next tick; ll_add    *)
(* walks to the last item.                                                 *)
(***************************************************************************)
add_cronjob(j) ==
  /\ pc = "idle"
  /\ orders < MaxOrders
  /\ orders' = orders + 1
  /\ LET n == orders + 1
     IN  /\ job' = [job EXCEPT ![n] =
                      [j EXCEPT !.timestamp = (@ + clock + 1) % Width]]
         /\ live' = live \cup {n}
         /\ peak' = IF Cardinality(live) + 1 > peak THEN peak + 1 ELSE peak
         /\ IF list = Null
            THEN list' = n /\ UNCHANGED <<pc, item, argument>>
            ELSE pc' = "append" /\ item' = list /\ argument' = n /\ UNCHANGED list
  /\ UNCHANGED <<clock, next, last, fired>>

AppendWalk ==
  /\ At("append")
  /\ next[item] # Null
  /\ item' = next[item]
  /\ UNCHANGED <<clock, listVars, pc, argument, orders, fired>>

\* Defect: the new item is not linked.
AppendForgets ==
  /\ At("append")
  /\ next[item] = Null
  /\ last' = [last EXCEPT ![argument] = item]
  /\ pc' = "idle"
  /\ item' = Null
  /\ argument' = Null
  /\ UNCHANGED <<clock, list, next, job, live, peak, orders, fired>>

AppendItem ==
  /\ At("append")
  /\ next[item] = Null
  /\ next' = [next EXCEPT ![item] = argument]
  /\ last' = [last EXCEPT ![argument] = item]
  /\ pc' = "idle"
  /\ item' = Null
  /\ argument' = Null
  /\ UNCHANGED <<clock, list, job, live, peak, orders, fired>>

(***************************************************************************)
(* del_cronjob: ll_find takes the item for which the compare function      *)
(* returns 0, and jobequal returns 0 for items of another message.  After  *)
(* each removal the search starts again.                                   *)
(***************************************************************************)
del_cronjob(m) ==
  /\ pc = "idle"
  /\ orders < MaxOrders
  /\ orders' = orders + 1
  /\ pc' = "find"
  /\ item' = list
  /\ argument' = m
  /\ UNCHANGED <<clock, listVars, fired>>

FindPass ==
  /\ At("find")
  /\ ~ll_find(item)
  /\ item' = next[item]
  /\ UNCHANGED <<clock, listVars, pc, argument, orders, fired>>

FindRemove ==
  /\ At("find")
  /\ ll_find(item)
  /\ ll_remove(item)
  /\ item' = list'
  /\ UNCHANGED <<clock, pc, argument, orders, fired>>

-----------------------------------------------------------------------------
Walk ==
  \/ TickPass \/ FireAgain \/ FireLast \/ AppendWalk \/ AppendItem
  \/ FindPass \/ FindRemove \/ EndWalk \/ TouchesFreed

Order ==
  \/ \E j \in Orders : add_cronjob(j)
  \/ \E j \in Orders : del_cronjob(j.message)

Next == TickStart \/ Walk \/ Order

Spec == Init /\ [][Next]_vars

(***************************************************************************)
(* The main loop turns: it ticks again once the messages that came in were *)
(* handled, of which there are MaxOrders.                                  *)
(***************************************************************************)
FairSpec == Spec /\ WF_vars(TickStart) /\ WF_vars(Walk)

-----------------------------------------------------------------------------
TypeOK ==
  /\ clock \in 0..Width - 1
  /\ list \in Items \cup {Null}
  /\ next \in [Items -> Items \cup {Null}]
  /\ last \in [Items -> Items \cup {Null}]
  /\ live \subseteq 1..orders
  /\ pc \in {"idle", "tick", "append", "find", "undefined"}
  /\ item \in Items \cup {Null}
  /\ pc = "idle" => item = Null /\ argument = Null
  /\ pc = "append" => argument \in live /\ argument # item
  /\ orders \in 0..MaxOrders
  /\ \A n \in live : job[n].timestamp \in 0..Width - 1
  /\ fired \subseteq 1..orders
  /\ peak \in Cardinality(live)..MaxOrders

(***************************************************************************)
(* The items the list leads to: those in every set that has the first item *)
(* and the one behind each of its members.                                 *)
(***************************************************************************)
Closed(S) ==
  /\ list \in S \cup {Null}
  /\ \A n \in S : next[n] \in S \cup {Null}

InList == {n \in Items : \A S \in SUBSET Items : Closed(S) => n \in S}

(***************************************************************************)
(* "removes an item from a linked list" (linkedlist.h:69-71): what was     *)
(* removed, and destroyed, is not in the list any more.                    *)
(***************************************************************************)
Intact == InList \subseteq live

(***************************************************************************)
(* The list breaks in one way only: by the removal of an item from the     *)
(* middle that an earlier removal, of the item before it, made lose its    *)
(* link back.                                                              *)
(***************************************************************************)
BreaksByLostLink ==
  [][Intact /\ ~Intact' =>
       \E n \in live \ live' : n # list /\ last[n] = Null]_vars

(***************************************************************************)
(* So two jobs at a time are safe, in whatever order they come, fire, end  *)
(* and are deleted: the first item never needs its link back.              *)
(***************************************************************************)
TwoItemsSafe == peak <= 2 => Intact /\ pc # "undefined"

(***************************************************************************)
(* While the list is intact no job falls out of it without being           *)
(* destroyed: a job that is lost would neither fire nor be deletable.      *)
(***************************************************************************)
Appending(n) == pc = "append" /\ argument = n

NothingLeaks == Intact => \A n \in live : n \in InList \/ Appending(n)

(***************************************************************************)
(* While the list is intact, cron is the schedule: no tick passes a job    *)
(* that is due, none is sent early, late or twice in a tick, and each is   *)
(* sent as often as it was ordered, although the walk removes items from   *)
(* the list it walks along.                                                *)
(***************************************************************************)
Doomed(n) == pc = "find" /\ ll_find(n)

plan == [n \in {m \in InList : ~Doomed(m)} |-> job[n]]

Jobs ==
  [message : {j.message : j \in Orders}, timestamp : 0..Width - 1,
   period : {j.period : j \in Orders}, repetitions : {j.repetitions : j \in Orders}]

TheSchedule == INSTANCE Schedule

ImplementsSchedule ==
  /\ TheSchedule!Init
  /\ [][Intact' => TheSchedule!Next \/ UNCHANGED TheSchedule!vars]_vars

(***************************************************************************)
(* A job is sent in the end, again and again while it is there, unless it  *)
(* is deleted or the list breaks.                                          *)
(***************************************************************************)
JobsFire ==
  \A n \in Items : n \in live ~> n \in fired \/ n \notin live \/ ~Intact

(***************************************************************************)
(* "remove all jobs matching the name.." (rocs_cron.c:71-73): del_cronjob  *)
(* removes jobs of that name, and no others.                               *)
(***************************************************************************)
DeletesMatching ==
  [][pc = "find" => \A n \in live \ live' : job[n].message = argument]_vars
=============================================================================
