------------------------------ MODULE Schedule ------------------------------
(***************************************************************************)
(* What cron promises: a plan of jobs, each with the tick it is next due   *)
(* at.  At every tick each job that is due is sent, once, before the clock *)
(* goes on; a job leaves the plan after its last repetition, or by an      *)
(* order that deletes jobs by name.                                        *)
(***************************************************************************)
EXTENDS Integers

CONSTANTS
  Items,   \* identities of the jobs
  Jobs,    \* what a job may be
  Step,    \* ticks per turn of the main loop
  Width    \* the clock counts modulo Width

VARIABLES
  clock,   \* the current tick
  plan,    \* the jobs, by identity
  fired    \* the jobs sent at the current tick

vars == <<clock, plan, fired>>

Init ==
  /\ clock = 1
  /\ plan = [n \in {} |-> {}]
  /\ fired = {}

Only(S) == [n \in S |-> plan[n]]

Due == {n \in DOMAIN plan : plan[n].timestamp = clock} \ fired

Advance ==
  /\ Due = {}
  /\ clock' = (clock + Step) % Width
  /\ fired' = {}
  /\ UNCHANGED plan

Fire(n) ==
  /\ n \in Due
  /\ fired' = fired \cup {n}
  /\ IF plan[n].repetitions \in {0, 1}
     THEN plan' = Only(DOMAIN plan \ {n})
     ELSE plan' = [plan EXCEPT
                     ![n].timestamp = (@ + plan[n].period) % Width,
                     ![n].repetitions = IF @ > 0 THEN @ - 1 ELSE @]
  /\ UNCHANGED clock

Add(n, j) ==
  /\ n \notin DOMAIN plan
  /\ plan' = [m \in DOMAIN plan \cup {n} |-> IF m = n THEN j ELSE plan[m]]
  /\ j.timestamp # clock
  /\ UNCHANGED <<clock, fired>>

(***************************************************************************)
(* Jobs of one name go together or stay together.                          *)
(***************************************************************************)
Delete(S) ==
  /\ \A m, n \in DOMAIN plan :
       m \in S /\ plan[n].message = plan[m].message => n \in S
  /\ plan' = Only(DOMAIN plan \ S)
  /\ UNCHANGED <<clock, fired>>

Next ==
  \/ Advance
  \/ \E n \in Items : Fire(n) \/ \E j \in Jobs : Add(n, j)
  \/ \E S \in SUBSET Items : Delete(S)

Spec == Init /\ [][Next]_vars
=============================================================================
