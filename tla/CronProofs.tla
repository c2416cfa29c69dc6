----------------------------- MODULE CronProofs -----------------------------
(***************************************************************************)
(* Theorems about cron and its linked list, for any jobs, any number of    *)
(* orders and a clock of any width.                                        *)
(*                                                                         *)
(* Items are numbered in the order they were created and the list only     *)
(* grows at its end, so a list that is intact is sorted: the item behind   *)
(* another is the least of the greater ones.  That says without recursion  *)
(* what the list is, and which item a walk comes to next.                  *)
(***************************************************************************)
EXTENDS Cron, FiniteSetTheorems, WellFoundedInduction, TLAPS

(***************************************************************************)
(* The list l with the links nx has the items L, sorted.                   *)
(***************************************************************************)
First(x, S) == (x = Null /\ S = {}) \/ (x \in S /\ \A m \in S : x <= m)

Behind(n, L) == {m \in L : n < m}

Chain(l, nx, L) ==
  /\ First(l, L)
  /\ \A n \in L : First(nx[n], Behind(n, L))

(***************************************************************************)
(* The items that are linked: the one being appended is not yet.           *)
(***************************************************************************)
Linked == IF pc = "append" THEN live \ {argument} ELSE live

Limit == IF pc = "append" THEN orders - 1 ELSE orders

JobType ==
  [message : {j.message : j \in Orders} \cup {""}, timestamp : 0..Width - 1,
   period : Nat, repetitions : Int]

CronTyped ==
  /\ TypeOK
  /\ job \in [Items -> JobType]
  /\ list <= Limit /\ item <= Limit
  /\ \A n \in Items : /\ next[n] <= Limit /\ last[n] <= Limit
                      /\ n > Limit => next[n] = Null /\ last[n] = Null
  /\ pc = "append" => argument = orders /\ item # Null

(***************************************************************************)
(* A link back leads to the item before, when it is there at all, and an   *)
(* item that is not live has no links.  This holds of a broken list too.   *)
(***************************************************************************)
LinkInv ==
  /\ \A n \in Items : last[n] # Null => next[last[n]] = n
  /\ \A n \in Items \ live : next[n] = Null /\ last[n] = Null

Walking == pc \in {"tick", "find", "append"}

Sound ==
  /\ Chain(list, next, Linked)
  /\ Walking => item \in Linked \cup {Null}
  /\ pc # "undefined"

LinksBack == \A n \in Linked : n # list => last[n] # Null

ListInv ==
  /\ CronTyped
  /\ LinkInv
  /\ Intact => Sound
  /\ peak <= 2 => Intact /\ LinksBack

(***************************************************************************)
(* What a walk of the list leaves behind.                                  *)
(***************************************************************************)
Passed(n) == item = Null \/ n < item

WalkInv ==
  Intact =>
    /\ pc = "tick" =>
         /\ \A n \in Linked : Passed(n) /\ Due(n) => n \in fired
         /\ \A n \in fired : Passed(n)
    /\ pc \in {"idle", "append", "find"} =>
         \A n \in Linked : Due(n) => n \in fired
    /\ pc = "append" => job[argument] \in Jobs /\ ~Due(argument)
    /\ pc = "find" => \A n \in Linked : Passed(n) => ~Doomed(n)

-----------------------------------------------------------------------------
(***************************************************************************)
(* Sets of numbers have a least member, and a greatest one below a bound.  *)
(***************************************************************************)
LEMMA Least ==
  ASSUME NEW S, S \subseteq Nat, S # {}
  PROVE  \E m \in S : \A n \in S : m <= n
<1> DEFINE R == OpToRel(<, Nat)
<1>1. IsWellFoundedOn(R, Nat)
  BY NatLessThanWellFounded
<1>2. \A x, y \in Nat : x < y => <<x, y>> \in R
  BY DEF OpToRel
<1> HIDE DEF R
<1>3. PICK m \in S : \A n \in S : ~(<<n, m>> \in R)
  BY <1>1, WFMin
<1>4. m \in Nat /\ \A n \in S : n \in Nat /\ ~(n < m)
  BY <1>2, <1>3
<1> QED BY <1>4

LEMMA Greatest ==
  ASSUME NEW S, S \subseteq Nat, S # {}, NEW b \in Nat, \A n \in S : n <= b
  PROVE  \E m \in S : \A n \in S : n <= m
<1> DEFINE D == {b - n : n \in S}
<1>0. \A n \in S : n \in Nat /\ b - n \in Nat
  OBVIOUS
<1>1. D \subseteq Nat /\ D # {}
  BY <1>0
<1>2. PICK d \in D : \A e \in D : d <= e
  BY <1>1, Least
<1>3. PICK m \in S : d = b - m
  OBVIOUS
<1>4. \A n \in S : b - m <= b - n /\ n \in Nat /\ m \in Nat
  BY <1>2, <1>3
<1> QED BY <1>4

-----------------------------------------------------------------------------
(***************************************************************************)
(* The items a list l with the links nx leads to.                          *)
(***************************************************************************)
ClosedUnder(l, nx, S) ==
  /\ l \in S \cup {Null}
  /\ \A n \in S : nx[n] \in S \cup {Null}

ReachedBy(l, nx) == {n \in Items : \A S \in SUBSET Items : ClosedUnder(l, nx, S) => n \in S}

LEMMA InListReached ==
  /\ InList = ReachedBy(list, next)
  /\ InList' = ReachedBy(list', next')
  BY DEF InList, ReachedBy, Closed, ClosedUnder

LEMMA ReachedClosed ==
  ASSUME NEW l \in Items \cup {Null}, NEW nx \in [Items -> Items \cup {Null}]
  PROVE  ClosedUnder(l, nx, ReachedBy(l, nx))
  BY DEF ClosedUnder, ReachedBy

LEMMA ReachedLeast ==
  ASSUME NEW l, NEW nx, NEW S \in SUBSET Items, ClosedUnder(l, nx, S)
  PROVE  ReachedBy(l, nx) \subseteq S
  BY DEF ReachedBy

(***************************************************************************)
(* A sorted list leads to its items, all of them and nothing else.         *)
(***************************************************************************)
LEMMA ChainReached ==
  ASSUME NEW l, NEW nx, NEW L \in SUBSET Items, Chain(l, nx, L)
  PROVE  ReachedBy(l, nx) = L
<1>1. Items \subseteq Nat /\ Null \notin Items
  BY DEF Items, Null
<1>2. ClosedUnder(l, nx, L)
  BY <1>1 DEF ClosedUnder, Chain, First, Behind
<1>3. ASSUME NEW S \in SUBSET Items, ClosedUnder(l, nx, S), NEW m \in L, m \notin S
      PROVE  FALSE
  <2> DEFINE P == {p \in L \cap S : p < m}
  <2>1. l \in P
    BY <1>1, <1>3 DEF Chain, First, ClosedUnder, Null
  <2>2. P \subseteq Nat /\ P # {} /\ m \in Nat /\ \A p \in P : p <= m
    <3>1. \A n \in L : n \in Nat
      BY <1>1
    <3> QED BY <2>1, <3>1
  <2>3. PICK p \in P : \A q \in P : q <= p
    BY <2>2, Greatest
  <2>4. m \in Behind(p, L)
    BY <2>3 DEF Behind
  <2>5. nx[p] \in Behind(p, L) /\ nx[p] <= m
    BY <2>3, <2>4 DEF Chain, First
  <2>6. nx[p] \in L /\ p < nx[p] /\ nx[p] \in Nat /\ p \in Nat
    BY <1>1, <2>5 DEF Behind
  <2>7. nx[p] \in S
    BY <1>1, <1>3, <2>3, <2>6 DEF ClosedUnder
  <2>8. nx[p] # m /\ nx[p] \in P
    BY <1>1, <1>3, <2>5, <2>6, <2>7
  <2> QED BY <2>2, <2>3, <2>6, <2>8
<1>4. L \subseteq ReachedBy(l, nx)
  BY <1>3 DEF ReachedBy
<1> QED BY <1>2, <1>4, ReachedLeast

(***************************************************************************)
(* A removal that finds the link back, or takes the first item, leaves a   *)
(* sorted list of the others.                                              *)
(***************************************************************************)
Unlinked(l, nx, n, p, l2, nx2) ==
  /\ l2 = IF l = n THEN nx[n] ELSE l
  /\ \A m \in Items \ {n} : nx2[m] = IF m = p THEN nx[n] ELSE nx[m]

LEMMA ChainRemove ==
  ASSUME NEW l, NEW nx, NEW L \in SUBSET Items, Chain(l, nx, L), NEW n \in L,
         NEW p, p = Null => n = l, p # Null => p \in L /\ nx[p] = n,
         NEW l2, NEW nx2, Unlinked(l, nx, n, p, l2, nx2)
  PROVE  Chain(l2, nx2, L \ {n})
<1>1. /\ Items \subseteq Nat /\ Null \notin Items
      /\ \A m \in L : m \in Nat /\ m # Null
  BY DEF Items, Null
<1>2. /\ First(l, L) /\ l \in L
      /\ \A m \in L : First(nx[m], Behind(m, L))
  BY <1>1 DEF Chain, First
<1>3. ASSUME NEW m \in L, m # n, nx[m] # n
      PROVE  First(nx[m], Behind(m, L \ {n}))
  <2>1. nx[m] \in Behind(m, L) \/ (nx[m] = Null /\ Behind(m, L) = {})
    BY <1>2 DEF First
  <2> QED BY <1>2, <1>3, <2>1 DEF First, Behind
<1>4. ASSUME NEW m \in L, nx[m] = n
      PROVE  First(nx[n], Behind(m, L \ {n}))
  <2>1. n \in Behind(m, L) /\ \A k \in Behind(m, L) : n <= k
    BY <1>1, <1>2, <1>4 DEF First
  <2>2. Behind(m, L \ {n}) = Behind(n, L)
    <3>1. ASSUME NEW k \in L, m < k, k # n PROVE n < k
      BY <1>1, <2>1, <3>1 DEF Behind
    <3>2. ASSUME NEW k \in L, n < k PROVE m < k /\ k # n
      BY <1>1, <2>1, <3>2 DEF Behind
    <3> QED BY <3>1, <3>2 DEF Behind
  <2> QED BY <1>2, <2>2
<1>5. ASSUME NEW m \in L, m # n, nx[m] = n PROVE m = p
  <2>1. n # l
    <3>1. m < n
      BY <1>1, <1>2, <1>5 DEF First, Behind
    <3>2. l <= m
      BY <1>1, <1>2 DEF First
    <3> QED BY <1>1, <1>2, <3>1, <3>2
  <2>2. p \in L /\ nx[p] = n
    BY <2>1
  <2>3. /\ n \in Behind(m, L) /\ \A k \in Behind(m, L) : n <= k
        /\ n \in Behind(p, L) /\ \A k \in Behind(p, L) : n <= k
    BY <1>1, <1>2, <1>5, <2>2 DEF First
  <2>4. ~(m < p) /\ ~(p < m) /\ m \in Nat /\ p \in Nat
    BY <1>1, <2>2, <2>3 DEF Behind
  <2> QED BY <2>4
<1>6. \A m \in L \ {n} : First(nx2[m], Behind(m, L \ {n}))
  <2> SUFFICES ASSUME NEW m \in L \ {n}
               PROVE  First(nx2[m], Behind(m, L \ {n}))
    OBVIOUS
  <2>1. CASE m = p
    <3>1. nx[m] = n /\ nx2[m] = nx[n]
      BY <1>1, <2>1 DEF Unlinked
    <3> QED BY <1>4, <3>1
  <2>2. CASE m # p
    <3>1. nx[m] # n /\ nx2[m] = nx[m]
      BY <1>5, <2>2 DEF Unlinked
    <3> QED BY <1>3, <3>1
  <2> QED BY <2>1, <2>2
<1>7. First(l2, L \ {n})
  <2>1. CASE l = n
    <3>1. ASSUME NEW m \in L, m # n PROVE n < m
      <4>1. n <= m
        BY <1>2, <2>1 DEF First
      <4> QED BY <1>1, <3>1, <4>1
    <3>2. ~(n < n)
      BY <1>1
    <3>3. Behind(n, L) = L \ {n}
      BY <3>1, <3>2 DEF Behind
    <3> QED BY <1>2, <2>1, <3>3 DEF Unlinked
  <2>2. CASE l # n
    BY <1>2, <2>2 DEF First, Unlinked
  <2> QED BY <2>1, <2>2
<1> QED BY <1>6, <1>7 DEF Chain

(***************************************************************************)
(* A greater item behind the last one makes a longer sorted list.          *)
(***************************************************************************)
LEMMA ChainAppend ==
  ASSUME NEW l, NEW nx \in [Items -> Items \cup {Null}], NEW L \in SUBSET Items,
         Chain(l, nx, L), NEW t \in L, nx[t] = Null,
         NEW a \in Items, \A m \in L : m < a, nx[a] = Null
  PROVE  Chain(l, [nx EXCEPT ![t] = a], L \cup {a})
<1> DEFINE nx2 == [nx EXCEPT ![t] = a]
<1>1. /\ Null \notin Items /\ a \in Nat /\ a \notin L
      /\ \A m \in L : m \in Nat /\ m # Null
  BY DEF Items, Null
<1>2. /\ First(l, L) /\ l \in L
      /\ \A m \in L : First(nx[m], Behind(m, L))
  BY <1>1 DEF Chain, First
<1>3. /\ \A m \in Items : nx2[m] = IF m = t THEN a ELSE nx[m]
  OBVIOUS
<1> HIDE DEF nx2
<1>4. ASSUME NEW m \in L PROVE Behind(m, L \cup {a}) = Behind(m, L) \cup {a}
  <2>1. m < a
    OBVIOUS
  <2> QED BY <2>1 DEF Behind
<1>5. Behind(a, L \cup {a}) = {}
  <2>1. \A k \in L \cup {a} : ~(a < k)
    BY <1>1
  <2> QED BY <2>1 DEF Behind
<1>6. Behind(t, L) = {}
  BY <1>1, <1>2 DEF First, Behind
<1>7. First(nx2[a], Behind(a, L \cup {a}))
  BY <1>1, <1>3, <1>5 DEF First
<1>8. ASSUME NEW m \in L PROVE First(nx2[m], Behind(m, L \cup {a}))
  <2>1. CASE m = t
    BY <1>1, <1>3, <1>4, <1>6, <2>1 DEF First
  <2>2. CASE m # t
    <3>1. m < t /\ Behind(m, L) # {}
      <4>1. ~(t < m)
        BY <1>6 DEF Behind
      <4>2. m < t
        BY <1>1, <2>2, <4>1
      <4> QED BY <4>2 DEF Behind
    <3>2. nx[m] \in Behind(m, L) /\ \A k \in Behind(m, L) : nx[m] <= k
      BY <1>2, <3>1 DEF First
    <3>3. nx2[m] = nx[m]
      BY <1>3, <2>2
    <3>4. nx[m] \in L /\ nx[m] < a
      BY <3>2 DEF Behind
    <3>5. nx[m] <= a
      <4>1. nx[m] \in Nat
        BY <1>1, <3>4
      <4> QED BY <1>1, <3>4, <4>1
    <3>6. Behind(m, L \cup {a}) = Behind(m, L) \cup {a}
      BY <1>4
    <3>7. First(nx[m], Behind(m, L) \cup {a})
      BY <3>2, <3>5 DEF First
    <3> QED BY <3>3, <3>6, <3>7
  <2> QED BY <2>1, <2>2
<1>9. First(l, L \cup {a})
  BY <1>1, <1>2 DEF First
<1> QED BY <1>7, <1>8, <1>9 DEF Chain, nx2

(***************************************************************************)
(* A list that leads to a destroyed item goes on leading to one: removing  *)
(* another item does not repair it.                                        *)
(***************************************************************************)
LEMMA RemovalRepairsNothing ==
  ASSUME NEW l \in Items \cup {Null}, NEW nx \in [Items -> Items \cup {Null}],
         NEW l2 \in Items \cup {Null}, NEW nx2 \in [Items -> Items \cup {Null}],
         NEW V \in SUBSET Items, NEW n \in V, NEW p,
         p # Null => p \in Items /\ nx[p] = n,
         Unlinked(l, nx, n, p, l2, nx2),
         ReachedBy(l2, nx2) \subseteq V \ {n}
  PROVE  ReachedBy(l, nx) \subseteq V
<1> DEFINE S == ReachedBy(l2, nx2)
<1>1. ClosedUnder(l2, nx2, S) /\ S \subseteq V \ {n}
  BY ReachedClosed
<1> HIDE DEF S
<1>2. ASSUME NEW m \in S, m # p PROVE nx[m] \in S \cup {Null}
  BY <1>1, <1>2 DEF Unlinked, ClosedUnder
<1>3. p \in S => nx[p] = n /\ nx[n] \in S \cup {Null}
  <2>1. Null \notin Items
    BY DEF Items, Null
  <2> QED BY <1>1, <2>1 DEF Unlinked, ClosedUnder
<1>4. l = n => nx[n] \in S \cup {Null}
  BY <1>1 DEF Unlinked, ClosedUnder
<1>5. l # n => l \in S \cup {Null}
  BY <1>1 DEF Unlinked, ClosedUnder
<1>6. CASE p \in S \/ l = n
  <2>1. ClosedUnder(l, nx, S \cup {n})
    BY <1>2, <1>3, <1>4, <1>5, <1>6 DEF ClosedUnder
  <2>2. S \cup {n} \in SUBSET Items /\ S \cup {n} \subseteq V
    BY <1>1
  <2> QED BY <2>1, <2>2, ReachedLeast
<1>7. CASE p \notin S /\ l # n
  <2>1. ClosedUnder(l, nx, S)
    BY <1>2, <1>5, <1>7 DEF ClosedUnder
  <2>2. S \in SUBSET Items /\ S \subseteq V
    BY <1>1
  <2> QED BY <2>1, <2>2, ReachedLeast
<1> QED BY <1>6, <1>7

-----------------------------------------------------------------------------
(***************************************************************************)
(* Types, and the items no link leads to yet.                              *)
(***************************************************************************)
LEMMA ItemFacts ==
  /\ Items \subseteq Nat /\ Null \notin Items /\ Null = 0 /\ MaxOrders \in Nat
  /\ \A n \in Items : n >= 1 /\ n <= MaxOrders
  BY CronAssumption DEF Items, Null

LEMMA ItemNat == \A n \in Items \cup {Null} : n \in Nat
  BY ItemFacts

LEMMA Modulo ==
  ASSUME NEW n \in Int
  PROVE  n % Width \in 0..Width - 1
  BY CronAssumption

LEMMA CronTypedInit == Init => CronTyped
<1> SUFFICES ASSUME Init PROVE CronTyped
  OBVIOUS
<1>1. Cardinality({}) = 0
  BY FS_EmptySet
<1>2. NoJob \in JobType
  BY CronAssumption DEF NoJob, JobType
<1>3. clock \in 0..Width - 1
  BY CronAssumption DEF Init
<1>4. orders \in 0..MaxOrders /\ peak \in Cardinality(live)..MaxOrders
  BY <1>1, ItemFacts DEF Init
<1>5. TypeOK
  BY <1>3, <1>4 DEF Init, TypeOK
<1> QED BY <1>2, <1>5, ItemFacts, CronAssumption DEF CronTyped, Init, Limit

LEMMA OrderType ==
  ASSUME NEW j \in Orders
  PROVE  /\ [j EXCEPT !.timestamp = (@ + clock + 1) % Width]
              = [message |-> j.message, timestamp |-> (j.timestamp + clock + 1) % Width,
                 period |-> j.period, repetitions |-> j.repetitions]
         /\ j.timestamp \in 0..Width - 2 /\ j.period \in Nat /\ j.repetitions \in Int
<1>1. j \in [message : {j.message}, timestamp : 0..Width - 2,
             period : Nat, repetitions : Int]
  BY CronAssumption
<1>2. j.timestamp \in 0..Width - 2 /\ j.period \in Nat /\ j.repetitions \in Int
  BY <1>1
<1>3. j = [message |-> j.message, timestamp |-> j.timestamp,
           period |-> j.period, repetitions |-> j.repetitions]
  BY <1>1
<1>4. [j EXCEPT !.timestamp = (@ + clock + 1) % Width]
        = [message |-> j.message, timestamp |-> (j.timestamp + clock + 1) % Width,
           period |-> j.period, repetitions |-> j.repetitions]
  BY <1>3
<1> QED BY <1>2, <1>4

(***************************************************************************)
(* The live items are counted by peak.                                     *)
(***************************************************************************)
LEMMA LiveFinite ==
  ASSUME NEW S, NEW n \in Nat, S \subseteq 1..n
  PROVE  IsFiniteSet(S) /\ Cardinality(S) \in Nat /\ Cardinality(S) <= n
<1>1. IsFiniteSet(1..n) /\ Cardinality(1..n) = n
  BY FS_Interval
<1>2. IsFiniteSet(S) /\ Cardinality(S) <= n
  BY <1>1, FS_Subset
<1> QED BY <1>2, FS_CardinalityType

LEMMA LiveItems ==
  ASSUME CronTyped
  PROVE  /\ live \subseteq Items /\ live \subseteq 1..orders
         /\ orders \in Nat /\ orders <= MaxOrders
         /\ \A n \in live : n <= orders
<1>1. live \subseteq 1..orders /\ orders \in 0..MaxOrders
  BY DEF CronTyped, TypeOK
<1>2. \A n \in live : n \in Nat /\ 1 <= n /\ n <= orders
  BY <1>1, ItemFacts
<1>3. orders \in Nat /\ orders <= MaxOrders
  BY <1>1, ItemFacts
<1>4. \A n \in live : n \in 1..MaxOrders
  BY <1>2, <1>3, ItemFacts
<1> QED BY <1>1, <1>2, <1>3, <1>4 DEF Items

LEMMA RemoveTyped ==
  ASSUME CronTyped, pc \in {"tick", "find"}, pc' = pc, NEW n \in live, ll_remove(n),
         UNCHANGED <<clock, orders>>, fired' \subseteq 1..orders,
         item' \in Items \cup {Null}, item' <= Limit
  PROVE  CronTyped'
<1>1. n \in Items /\ list \in Items \cup {Null} /\ orders \in Nat /\ orders <= MaxOrders
      /\ next \in [Items -> Items \cup {Null}] /\ last \in [Items -> Items \cup {Null}]
      /\ live \subseteq 1..orders /\ Limit = orders /\ list <= orders
  BY ItemFacts DEF CronTyped, TypeOK, Items, Limit
<1>2. Limit' = orders
  BY DEF Limit
<1>3. /\ list' \in Items \cup {Null} /\ list' <= orders
      /\ next' \in [Items -> Items \cup {Null}] /\ last' \in [Items -> Items \cup {Null}]
  BY <1>1 DEF CronTyped, ll_remove
<1>4. ASSUME NEW m \in Items
      PROVE  /\ next'[m] <= orders /\ last'[m] <= orders
             /\ m > orders => next'[m] = Null /\ last'[m] = Null
  <2>1. \A k \in Items : /\ next[k] <= orders /\ last[k] <= orders
                         /\ k > orders => next[k] = Null /\ last[k] = Null
    BY <1>1 DEF CronTyped
  <2>2. /\ next'[m] = IF m = n THEN Null ELSE IF m = last[n] THEN next[n] ELSE next[m]
        /\ last'[m] = IF m \in {n, next[n]} THEN Null ELSE last[m]
    BY DEF ll_remove
  <2>3. Null <= orders
    BY <1>1, ItemFacts
  <2>4. m > orders /\ m = last[n] => FALSE
    BY <1>1, <2>1, ItemFacts
  <2> QED BY <1>1, <2>1, <2>2, <2>3, <2>4
<1>5. job' \in [Items -> JobType]
  <2>1. NoJob \in JobType
    BY CronAssumption DEF NoJob, JobType
  <2> QED BY <2>1 DEF CronTyped, ll_remove
<1>6. live' \subseteq 1..orders' /\ peak' \in Cardinality(live')..MaxOrders
  <2>1. live' = live \ {n} /\ peak' = peak /\ orders' = orders
    BY DEF ll_remove
  <2>2. /\ IsFiniteSet(live) /\ Cardinality(live) \in Nat
        /\ Cardinality(live') \in Nat
    BY <1>1, <2>1, LiveFinite
  <2>3. Cardinality(live') <= Cardinality(live)
    <3>1. live' \in SUBSET live
      BY <2>1
    <3> QED BY <2>2, <3>1, FS_Subset
  <2>4. peak \in Cardinality(live)..MaxOrders
    BY DEF CronTyped, TypeOK
  <2>5. peak' \in Cardinality(live')..MaxOrders
    BY <2>1, <2>2, <2>3, <2>4, ItemFacts
  <2>6. live' \subseteq 1..orders'
    BY <1>1, <2>1
  <2> QED BY <2>5, <2>6
<1>7. \A m \in live' : job'[m].timestamp \in 0..Width - 1
  <2>1. \A m \in live' : m \in Items
    BY LiveItems DEF ll_remove
  <2> QED BY <1>5, <2>1 DEF JobType
<1>8. TypeOK'
  BY <1>3, <1>6, <1>7 DEF CronTyped, TypeOK
<1> QED BY <1>1, <1>2, <1>3, <1>4, <1>5, <1>8 DEF CronTyped

(***************************************************************************)
(* Steps that leave the list alone.                                        *)
(***************************************************************************)
LEMMA StillTyped ==
  ASSUME CronTyped, UNCHANGED <<list, next, last, live, peak>>,
         \/ orders' = orders
         \/ orders' = orders + 1 /\ orders < MaxOrders /\ pc' = "find",
         clock' \in 0..Width - 1, job' \in [Items -> JobType],
         pc' \in {"idle", "tick", "append", "find", "undefined"},
         item' \in Items \cup {Null}, item' <= Limit,
         pc' = "idle" => item' = Null /\ argument' = Null,
         pc' = "append" => pc = "append" /\ argument' = argument /\ item' # Null,
         fired' \subseteq 1..orders
  PROVE  CronTyped'
<1>1. /\ live \subseteq Items /\ orders \in Nat /\ Limit \in Int /\ Limit' \in Int
      /\ Limit <= Limit' /\ (pc' = "append" => Limit' = orders - 1)
      /\ orders' \in 0..MaxOrders /\ 1..orders \subseteq 1..orders'
      /\ (pc' = "append" => orders' = orders)
  <2>1. live \subseteq Items /\ orders \in Nat /\ orders <= MaxOrders
    BY LiveItems
  <2>2. orders' \in 0..MaxOrders /\ orders' >= orders
    BY <2>1, ItemFacts
  <2>3. /\ Limit \in Int /\ Limit' \in Int /\ Limit <= Limit'
        /\ (pc' = "append" => orders' = orders /\ Limit' = orders - 1)
    <3>1. orders' \in Nat /\ orders \in Nat
      BY <2>1, <2>2, ItemFacts
    <3>2. pc = "append" => Limit = orders - 1
      BY DEF Limit
    <3>3. pc # "append" => Limit = orders
      BY DEF Limit
    <3>4. pc' = "append" => Limit' = orders' - 1 /\ pc = "append" /\ orders' = orders
      BY DEF Limit
    <3>5. pc' # "append" => Limit' = orders'
      BY DEF Limit
    <3> QED BY <2>2, <3>1, <3>2, <3>3, <3>4, <3>5
  <2>4. 1..orders \subseteq 1..orders'
    BY <2>1, <2>2
  <2> QED BY <2>1, <2>2, <2>3, <2>4
<1>0. \A n \in Items \cup {Null} : n \in Nat
  BY ItemFacts
<1>2. list \in Nat /\ item' \in Nat /\ \A n \in Items : next[n] \in Nat /\ last[n] \in Nat
  <2>1. /\ list \in Items \cup {Null}
        /\ \A n \in Items : next[n] \in Items \cup {Null} /\ last[n] \in Items \cup {Null}
    BY DEF CronTyped, TypeOK
  <2> QED BY <1>0, <2>1
<1> PICK before \in Int, after \in Int : before = Limit /\ after = Limit'
  BY <1>1
<1>9. before <= after
  BY <1>1
<1>3. list' <= Limit' /\ item' <= Limit'
  <2>1. list <= before
    BY DEF CronTyped
  <2>2. list <= after /\ item' <= after
    BY <1>9, <1>2, <2>1
  <2> QED BY <2>2
<1>4. \A n \in Items : /\ next'[n] <= Limit' /\ last'[n] <= Limit'
                       /\ n > Limit' => next'[n] = Null /\ last'[n] = Null
  <2> SUFFICES ASSUME NEW n \in Items
               PROVE  /\ next'[n] <= Limit' /\ last'[n] <= Limit'
                      /\ n > Limit' => next'[n] = Null /\ last'[n] = Null
    OBVIOUS
  <2>1. /\ next[n] <= before /\ last[n] <= before
        /\ n > before => next[n] = Null /\ last[n] = Null
    BY DEF CronTyped
  <2>2. n \in Nat /\ next[n] \in Nat /\ last[n] \in Nat
    BY <1>0, <1>2
  <2>3. /\ next[n] <= after /\ last[n] <= after
        /\ n > after => n > before
    BY <1>9, <2>1, <2>2
  <2> QED BY <2>1, <2>3
<1>5. \A m \in live' : job'[m].timestamp \in 0..Width - 1
  BY <1>1 DEF JobType
<1>6. pc' = "append" => argument' = orders' /\ item' # Null /\ argument' \in live'
                        /\ argument' # item'
  <2> SUFFICES ASSUME pc' = "append"
               PROVE  argument' = orders' /\ item' # Null /\ argument' \in live'
                        /\ argument' # item'
    OBVIOUS
  <2>1. argument = orders /\ item' # Null /\ argument \in live
    BY DEF CronTyped, TypeOK
  <2>2. item' <= orders - 1
    BY <1>1, <1>2, <1>3
  <2>3. item' # orders
    BY <1>1, <1>2, <2>2
  <2> QED BY <2>1, <2>3
<1>7. live' \subseteq 1..orders' /\ fired' \subseteq 1..orders'
  BY <1>1, LiveItems
<1>8. /\ list' \in Items \cup {Null} /\ peak' \in Cardinality(live')..MaxOrders
      /\ next' \in [Items -> Items \cup {Null}] /\ last' \in [Items -> Items \cup {Null}]
  BY DEF CronTyped, TypeOK
<1>10. TypeOK'
  BY <1>1, <1>5, <1>6, <1>7, <1>8 DEF TypeOK
<1>11. pc' = "append" => argument' = orders' /\ item' # Null
  BY <1>6
<1> QED BY <1>3, <1>4, <1>10, <1>11 DEF CronTyped

LEMMA AtFacts ==
  ASSUME CronTyped, item \in live
  PROVE  /\ item \in Items /\ item # Null /\ Limit \in Int
         /\ next[item] \in Items \cup {Null} /\ next[item] <= Limit
         /\ job[item] \in JobType
         /\ fired \subseteq 1..orders /\ fired \cup {item} \subseteq 1..orders
         /\ clock \in 0..Width - 1 /\ list \in Items \cup {Null} /\ list <= Limit
         /\ item <= orders
<1>1. item \in Items
  BY LiveItems
<1>2. item \in 1..orders /\ fired \subseteq 1..orders /\ item <= orders
  BY LiveItems DEF CronTyped, TypeOK
<1>3. Limit \in Int
  BY LiveItems DEF Limit
<1> QED BY <1>1, <1>2, <1>3, ItemFacts DEF CronTyped, TypeOK

LEMMA AddTyped ==
  ASSUME CronTyped, NEW j \in Orders, add_cronjob(j)
  PROVE  CronTyped'
<1> DEFINE n == orders + 1
<1>1. /\ pc = "idle" /\ item = Null /\ orders \in Nat /\ orders < MaxOrders
      /\ orders' = n /\ n \in Items /\ live \subseteq 1..orders /\ Limit = orders
      /\ MaxOrders \in Nat
  <2>1. pc = "idle" /\ orders < MaxOrders /\ orders' = n
    BY DEF add_cronjob
  <2>2. item = Null /\ orders \in Nat /\ live \subseteq 1..orders /\ MaxOrders \in Nat
    BY <2>1, LiveItems, ItemFacts DEF CronTyped, TypeOK
  <2>3. n \in Items
    BY <2>1, <2>2 DEF Items
  <2> QED BY <2>1, <2>2, <2>3 DEF Limit
<1>2. /\ clock \in 0..Width - 1 /\ list \in Items \cup {Null} /\ list <= orders
      /\ fired \subseteq 1..orders /\ peak \in Cardinality(live)..MaxOrders
  BY <1>1 DEF CronTyped, TypeOK
<1>3. UNCHANGED <<clock, next, last, fired>> /\ live' = live \cup {n}
  BY DEF add_cronjob
<1>4. \/ /\ list = Null /\ list' = n /\ UNCHANGED <<pc, item, argument>>
      \/ /\ list # Null /\ pc' = "append" /\ item' = list /\ argument' = n /\ list' = list
  BY DEF add_cronjob
<1>5. \/ Limit' = orders /\ pc' = "append"
      \/ Limit' = n /\ pc' = "idle"
  BY <1>1, <1>4 DEF Limit
<1>6. job' \in [Items -> JobType]
  <2>1. j \in Orders /\ j.timestamp \in 0..Width - 2 /\ j.period \in Nat
        /\ j.repetitions \in Int
    BY OrderType
  <2>2. (j.timestamp + clock + 1) % Width \in 0..Width - 1
    <3>1. j.timestamp + clock + 1 \in Int
      BY <1>2, <2>1, CronAssumption
    <3> QED BY <3>1, Modulo
  <2>3. [j EXCEPT !.timestamp = (@ + clock + 1) % Width] \in JobType
    BY <2>1, <2>2, OrderType DEF JobType
  <2>4. job' = [job EXCEPT ![n] = [j EXCEPT !.timestamp = (@ + clock + 1) % Width]]
    BY DEF add_cronjob
  <2> QED BY <2>3, <2>4 DEF CronTyped
<1>7. live' \subseteq Items /\ live' \subseteq 1..orders'
  <2>1. live \subseteq Items
    BY LiveItems
  <2>2. 1..orders \subseteq 1..n /\ n \in 1..n
    BY <1>1
  <2> QED BY <1>1, <1>3, <2>1, <2>2
<1>8. peak' \in Cardinality(live')..MaxOrders
  <2>1. IsFiniteSet(live) /\ Cardinality(live) \in Nat
    BY <1>1, LiveFinite
  <2>2. n \notin live
    BY <1>1
  <2>3. Cardinality(live') = Cardinality(live) + 1
    BY <1>3, <2>1, <2>2, FS_AddElement
  <2>4. Cardinality(live') <= MaxOrders
    <3>1. n \in Nat /\ n <= MaxOrders
      BY <1>1
    <3>2. Cardinality(live') <= n
      BY <1>1, <1>7, <3>1, LiveFinite
    <3> QED BY <1>1, <2>1, <2>3, <3>1, <3>2
  <2>5. peak' = IF Cardinality(live) + 1 > peak THEN peak + 1 ELSE peak
    BY DEF add_cronjob
  <2>6. peak \in Nat /\ Cardinality(live) <= peak /\ peak <= MaxOrders
    BY <1>1, <1>2, <2>1
  <2> QED BY <1>1, <2>1, <2>3, <2>4, <2>5, <2>6
<1>9. list' \in Items \cup {Null} /\ list' <= Limit' /\ item' \in Items \cup {Null}
      /\ item' <= Limit'
  <2>1. Null <= n /\ Null <= orders
    BY <1>1, ItemFacts
  <2> QED BY <1>1, <1>2, <1>4, <1>5, <2>1
<1>10. pc' = "append" => argument' = orders' /\ item' # Null /\ argument' \in live'
                         /\ argument' # item'
  <2>1. list # n
    BY <1>1, <1>2
  <2> QED BY <1>1, <1>3, <1>4, <2>1
<1>11. ASSUME NEW m \in Items
       PROVE  /\ next'[m] <= Limit' /\ last'[m] <= Limit'
              /\ m > Limit' => next'[m] = Null /\ last'[m] = Null
  <2>1. /\ next[m] <= orders /\ last[m] <= orders
        /\ m > orders => next[m] = Null /\ last[m] = Null
    BY <1>1 DEF CronTyped
  <2>2. m \in Items /\ next[m] \in Items \cup {Null} /\ last[m] \in Items \cup {Null}
    BY DEF CronTyped, TypeOK
  <2>3. m \in Nat /\ next[m] \in Nat /\ last[m] \in Nat
    BY <2>2, ItemNat
  <2> QED BY <1>1, <1>3, <1>5, <2>1, <2>2, <2>3
<1>12. \A m \in live' : job'[m].timestamp \in 0..Width - 1
  BY <1>6, <1>7 DEF JobType
<1>13. fired' \subseteq 1..orders' /\ orders' \in 0..MaxOrders
       /\ pc' \in {"idle", "append"} /\ (pc' = "idle" => item' = Null /\ argument' = Null)
  <2>1. 1..orders \subseteq 1..n
    BY <1>1
  <2>2. argument = Null
    BY <1>1 DEF CronTyped, TypeOK
  <2> QED BY <1>1, <1>2, <1>3, <1>4, <2>1, <2>2
<1>14. TypeOK'
  BY <1>2, <1>3, <1>7, <1>8, <1>9, <1>10, <1>12, <1>13 DEF CronTyped, TypeOK
<1> QED BY <1>6, <1>9, <1>10, <1>11, <1>14 DEF CronTyped

LEMMA AppendTyped ==
  ASSUME CronTyped, AppendItem
  PROVE  CronTyped'
<1>1. /\ pc = "append" /\ item \in live /\ pc' = "idle" /\ item' = Null /\ argument' = Null
      /\ next' = [next EXCEPT ![item] = argument]
      /\ last' = [last EXCEPT ![argument] = item]
      /\ UNCHANGED <<clock, list, job, live, peak, orders, fired>>
  BY DEF AppendItem, At
<1>2. /\ argument = orders /\ orders \in Nat /\ argument \in Items /\ item \in Items
      /\ item <= orders /\ Limit = orders - 1 /\ Limit' = orders
  BY <1>1, LiveItems, AtFacts DEF CronTyped, TypeOK, Limit
<1>3. ASSUME NEW m \in Items
      PROVE  /\ next'[m] <= Limit' /\ last'[m] <= Limit'
             /\ m > Limit' => next'[m] = Null /\ last'[m] = Null
  <2>1. /\ next[m] <= orders - 1 /\ last[m] <= orders - 1
        /\ m > orders - 1 => next[m] = Null /\ last[m] = Null
    BY <1>2 DEF CronTyped
  <2>2. m \in Items /\ next[m] \in Items \cup {Null} /\ last[m] \in Items \cup {Null}
        /\ next \in [Items -> Items \cup {Null}] /\ last \in [Items -> Items \cup {Null}]
    BY DEF CronTyped, TypeOK
  <2>3. m \in Nat /\ next[m] \in Nat /\ last[m] \in Nat
    BY <2>2, ItemNat
  <2>4. /\ next'[m] = IF m = item THEN argument ELSE next[m]
        /\ last'[m] = IF m = argument THEN item ELSE last[m]
    BY <1>1, <2>2
  <2>5. item \in Nat
    BY <1>2, ItemFacts
  <2> QED BY <1>2, <2>1, <2>2, <2>3, <2>4, <2>5
<1>4. /\ next' \in [Items -> Items \cup {Null}] /\ last' \in [Items -> Items \cup {Null}]
  BY <1>1, <1>2 DEF CronTyped, TypeOK
<1>5. TypeOK'
  BY <1>1, <1>4 DEF CronTyped, TypeOK
<1>6. list' <= Limit' /\ item' <= Limit'
  <2>1. list \in Items \cup {Null} /\ list <= orders - 1
    BY <1>2 DEF CronTyped, TypeOK
  <2>2. list \in Nat
    BY <2>1, ItemFacts
  <2> QED BY <1>1, <1>2, <2>1, <2>2, ItemFacts
<1> QED BY <1>1, <1>3, <1>5, <1>6 DEF CronTyped

LEMMA CronTypedStep ==
  ASSUME CronTyped, [Next]_vars
  PROVE  CronTyped'
<1>0. /\ Null \in Items \cup {Null} /\ fired \subseteq 1..orders
      /\ clock \in 0..Width - 1 /\ list \in Items \cup {Null} /\ list <= Limit
      /\ item \in Items \cup {Null} /\ item <= Limit /\ job \in [Items -> JobType]
      /\ Step \in Nat /\ Width \in Nat
  BY CronAssumption DEF CronTyped, TypeOK
<1>1. CASE TickStart
  <2>1. clock' \in 0..Width - 1
    <3>1. clock + Step \in Int /\ clock' = (clock + Step) % Width
      BY <1>0, <1>1 DEF TickStart
    <3> QED BY <3>1, Modulo
  <2> QED BY <1>0, <1>1, <2>1, StillTyped DEF TickStart, listVars
<1>2. CASE TickPass \/ AppendWalk \/ FindPass
  <2>1. item \in live /\ item' = next[item] /\ pc' = pc /\ argument' = argument
        /\ pc \in {"tick", "append", "find"} /\ (pc = "append" => item' # Null)
        /\ UNCHANGED <<clock, listVars, orders, fired>>
    BY <1>2 DEF TickPass, AppendWalk, FindPass, At
  <2>2. item' \in Items \cup {Null} /\ item' <= Limit
    BY <2>1, AtFacts
  <2> QED BY <1>0, <2>1, <2>2, StillTyped DEF listVars
<1>3. CASE FireAgain
  <2>1. item \in live /\ item' = next[item] /\ pc = "tick" /\ pc' = "tick"
        /\ fired' = fired \cup {item} /\ UNCHANGED <<list, next, last, live, peak, orders, clock>>
    BY <1>3 DEF FireAgain, At
  <2>2. item' \in Items \cup {Null} /\ item' <= Limit /\ fired' \subseteq 1..orders
        /\ item \in Items /\ job[item] \in JobType
    BY <2>1, AtFacts
  <2>3. (job[item].timestamp + job[item].period) % Width \in 0..Width - 1
    <3>1. job[item].timestamp \in 0..Width - 1 /\ job[item].period \in Nat
      BY <2>2 DEF JobType
    <3>2. job[item].timestamp + job[item].period \in Int
      BY <1>0, <3>1
    <3> QED BY <3>2, Modulo
  <2>4. job' = [job EXCEPT
               ![item].timestamp = (@ + job[item].period) % Width,
               ![item].repetitions = IF @ > 0 THEN @ - 1 ELSE @]
    BY <1>3 DEF FireAgain
  <2>5. job' \in [Items -> JobType]
    <3> DEFINE t == (job[item].timestamp + job[item].period) % Width
               r == IF job[item].repetitions > 0 THEN job[item].repetitions - 1
                    ELSE job[item].repetitions
               k == [job[item] EXCEPT !.timestamp = t, !.repetitions = r]
    <3>1. r \in Int
      <4>1. job[item].repetitions \in Int
        BY <2>2 DEF JobType
      <4> QED BY <4>1
    <3>2. job' = [job EXCEPT ![item] = k]
      BY <1>0, <2>2, <2>4
    <3> HIDE DEF t, r
    <3>3. k \in JobType
      BY <2>2, <2>3, <3>1 DEF JobType, t
    <3> HIDE DEF k
    <3> QED BY <1>0, <2>2, <3>2, <3>3
  <2> QED BY <1>0, <2>1, <2>2, <2>5, StillTyped
<1>4. CASE FireLast
  <2>1. item \in live /\ item' = next[item] /\ pc = "tick" /\ pc' = pc /\ ll_remove(item)
        /\ fired' = fired \cup {item} /\ UNCHANGED <<clock, orders>>
    BY <1>4 DEF FireLast, At
  <2>2. item' \in Items \cup {Null} /\ item' <= Limit /\ fired' \subseteq 1..orders
    BY <2>1, AtFacts
  <2> QED BY <2>1, <2>2, RemoveTyped
<1>5. CASE FindRemove
  <2>1. item \in live /\ item' = list' /\ pc = "find" /\ pc' = pc /\ ll_remove(item)
        /\ fired' = fired /\ UNCHANGED <<clock, orders>>
    BY <1>5 DEF FindRemove, At
  <2>2. list' = IF list = item THEN next[item] ELSE list
    BY <2>1 DEF ll_remove
  <2>3. item' \in Items \cup {Null} /\ item' <= Limit
    BY <2>1, <2>2, AtFacts
  <2> QED BY <1>0, <2>1, <2>3, RemoveTyped
<1>6. CASE EndWalk
  BY <1>0, <1>6, StillTyped DEF EndWalk, listVars
<1>7. CASE TouchesFreed
  BY <1>0, <1>7, StillTyped DEF TouchesFreed, listVars
<1>8. CASE AppendItem
  BY <1>8, AppendTyped
<1>9. CASE \E j \in Orders : add_cronjob(j)
  BY <1>9, AddTyped
<1>10. ASSUME NEW m, del_cronjob(m) PROVE CronTyped'
  <2>1. /\ orders < MaxOrders /\ orders' = orders + 1 /\ pc' = "find" /\ item' = list
        /\ UNCHANGED <<clock, list, next, last, job, live, peak, fired>>
    BY <1>10 DEF del_cronjob, listVars
  <2> QED BY <1>0, <2>1, StillTyped
<1>11. CASE UNCHANGED vars
  <2>1. UNCHANGED <<list, next, last, live, peak, orders, clock, job, pc, item, argument, fired>>
    BY <1>11 DEF vars, listVars
  <2>2. /\ pc \in {"idle", "tick", "append", "find", "undefined"}
        /\ pc = "idle" => item = Null /\ argument = Null
        /\ pc = "append" => item # Null
    BY DEF CronTyped, TypeOK
  <2> QED BY <1>0, <2>1, <2>2, StillTyped
<1> QED BY <1>1, <1>2, <1>3, <1>4, <1>5, <1>6, <1>7, <1>8, <1>9, <1>10, <1>11
        DEF Next, Walk, Order

(***************************************************************************)
(* The type of every state: the items are those that were created, the     *)
(* pointers and the clock stay within their bounds, and the main thread    *)
(* holds no pointer while it waits.                                        *)
(***************************************************************************)
THEOREM CronTypeCorrect == Spec => []TypeOK
<1>1. CronTyped => TypeOK
  BY DEF CronTyped
<1> QED BY CronTypedInit, CronTypedStep, <1>1, PTL DEF Spec

-----------------------------------------------------------------------------
(***************************************************************************)
(* What a removal does to the list, and what no step does.                 *)
(***************************************************************************)
LEMMA LinkTypes ==
  ASSUME CronTyped
  PROVE  /\ list \in Items \cup {Null}
         /\ next \in [Items -> Items \cup {Null}]
         /\ last \in [Items -> Items \cup {Null}]
  BY DEF CronTyped, TypeOK

LEMMA LinkTypesAfter ==
  ASSUME CronTyped'
  PROVE  /\ list' \in Items \cup {Null}
         /\ next' \in [Items -> Items \cup {Null}]
         /\ last' \in [Items -> Items \cup {Null}]
  BY DEF CronTyped, TypeOK

LEMMA RemovedIsUnlinked ==
  ASSUME NEW n, ll_remove(n)
  PROVE  Unlinked(list, next, n, last[n], list', next')
  BY DEF ll_remove, Unlinked

LEMMA ListStep ==
  ASSUME CronTyped, [Next]_vars
  PROVE  \/ UNCHANGED <<list, next, last, live>> /\ ~AppendItem
            /\ \A j \in Orders : ~add_cronjob(j)
         \/ AppendItem
         \/ \E j \in Orders : add_cronjob(j)
         \/ (FireLast \/ FindRemove) /\ item \in live /\ ll_remove(item)
               /\ live \ live' = {item} /\ pc \in {"tick", "find"}
  BY DEF Next, Walk, Order, TickStart, TickPass, FireAgain, FireLast, EndWalk, At,
         AppendWalk, FindPass, FindRemove, del_cronjob, TouchesFreed, vars, listVars,
         ll_remove

LEMMA LinkInvStep ==
  ASSUME CronTyped, LinkInv, [Next]_vars
  PROVE  LinkInv'
<1> USE LinkTypes
<1>1. CASE UNCHANGED <<list, next, last, live>>
  BY <1>1 DEF LinkInv
<1>2. CASE AppendItem
  <2>1. /\ pc = "append" /\ item \in live /\ next[item] = Null
        /\ next' = [next EXCEPT ![item] = argument]
        /\ last' = [last EXCEPT ![argument] = item] /\ live' = live
    BY <1>2 DEF AppendItem, At
  <2>2. argument \in live /\ argument \in Items /\ item \in Items /\ live \subseteq Items
    BY <2>1, LiveItems DEF CronTyped, TypeOK
  <2>3. ASSUME NEW n \in Items, last'[n] # Null PROVE next'[last'[n]] = n
    <3>1. CASE n = argument
      BY <2>1, <2>2, <3>1
    <3>2. CASE n # argument
      <4>1. last'[n] = last[n] /\ next[last[n]] = n /\ n # Null
        BY <2>1, <2>3, <3>2, ItemFacts DEF LinkInv
      <4>2. last[n] # item /\ last[n] \in Items
        BY <2>1, <2>3, <4>1
      <4> QED BY <2>1, <4>1, <4>2
    <3> QED BY <3>1, <3>2
  <2>4. \A n \in Items \ live' : next'[n] = Null /\ last'[n] = Null
    BY <2>1, <2>2 DEF LinkInv
  <2> QED BY <2>3, <2>4 DEF LinkInv
<1>3. ASSUME NEW j \in Orders, add_cronjob(j) PROVE LinkInv'
  <2>1. UNCHANGED <<next, last>> /\ live \subseteq live'
    BY <1>3 DEF add_cronjob
  <2> QED BY <2>1 DEF LinkInv
<1>4. CASE item \in live /\ ll_remove(item)
  <2>1. /\ item \in Items /\ live' = live \ {item} /\ Null \notin Items
        /\ live \subseteq Items
    BY <1>4, LiveItems, ItemFacts DEF ll_remove
  <2>2. \A m \in Items :
          /\ next'[m] = IF m = item THEN Null ELSE IF m = last[item] THEN next[item] ELSE next[m]
          /\ last'[m] = IF m \in {item, next[item]} THEN Null ELSE last[m]
    BY <1>4 DEF ll_remove
  <2>3. ASSUME NEW n \in Items, last'[n] # Null PROVE next'[last'[n]] = n
    <3>1. n # item /\ n # next[item] /\ last'[n] = last[n] /\ last[n] \in Items
          /\ next[last[n]] = n
      BY <2>2, <2>3 DEF LinkInv
    <3>2. last[n] # item
      BY <3>1
    <3>3. last[n] = last[item] => FALSE
      <4>1. last[n] = last[item] => next[last[item]] = item
        BY <2>1, <2>3, <3>1 DEF LinkInv
      <4> QED BY <3>1, <4>1
    <3> QED BY <2>2, <3>1, <3>2, <3>3
  <2>4. ASSUME NEW n \in Items \ live' PROVE next'[n] = Null /\ last'[n] = Null
    <3>1. CASE n = item
      BY <2>2, <3>1
    <3>2. CASE n # item
      <4>1. n \notin live /\ next[n] = Null /\ last[n] = Null
        BY <2>1, <2>4, <3>2 DEF LinkInv
      <4>2. n # last[item]
        <5>1. n = last[item] => next[n] = item
          BY <2>1 DEF LinkInv
        <5> QED BY <2>1, <4>1, <5>1
      <4> QED BY <2>2, <4>1, <4>2
    <3> QED BY <3>1, <3>2
  <2> QED BY <2>3, <2>4 DEF LinkInv
<1> QED BY <1>1, <1>2, <1>3, <1>4, ListStep

(***************************************************************************)
(* A broken list stays broken.                                             *)
(***************************************************************************)
LEMMA IntactBefore ==
  ASSUME CronTyped, CronTyped', LinkInv, [Next]_vars, Intact'
  PROVE  Intact
<1> USE LinkTypes, LinkTypesAfter
<1>0. live \subseteq Items /\ InList \subseteq Items
  BY LiveItems DEF InList
<1>1. CASE UNCHANGED <<list, next, last, live>>
  BY <1>1 DEF Intact, InList, Closed
<1>2. CASE AppendItem
  <2>1. /\ next[item] = Null /\ next' = [next EXCEPT ![item] = argument]
        /\ list' = list /\ live' = live /\ item \in live
    BY <1>2 DEF AppendItem, At
  <2>2. ClosedUnder(list', next', InList')
    BY InListReached, ReachedClosed
  <2>3. ClosedUnder(list, next, InList')
    BY <2>1, <2>2 DEF ClosedUnder
  <2>4. InList' \in SUBSET Items
    BY DEF InList
  <2>5. InList \subseteq InList'
    BY <2>3, <2>4, InListReached, ReachedLeast
  <2> QED BY <2>1, <2>5 DEF Intact
<1>3. ASSUME NEW j \in Orders, add_cronjob(j) PROVE Intact
  <2>1. CASE list = Null
    <3>1. ClosedUnder(list, next, {})
      BY <2>1 DEF ClosedUnder
    <3>2. InList \subseteq {}
      BY <3>1, InListReached, ReachedLeast
    <3> QED BY <3>2 DEF Intact
  <2>2. CASE list # Null
    <3> DEFINE S == {m \in Items : m <= orders}
    <3>1. pc = "idle" /\ orders \in Nat /\ list' = list /\ next' = next /\ live' = live \cup {orders + 1}
      BY <1>3, <2>2, LiveItems DEF add_cronjob
    <3>2. ClosedUnder(list, next, S)
      <4>1. list <= orders /\ \A m \in Items : next[m] <= orders
        BY <3>1 DEF CronTyped, Limit
      <4> QED BY <4>1 DEF ClosedUnder
    <3>3. InList \subseteq S
      BY <3>2, InListReached, ReachedLeast
    <3>4. InList \subseteq live'
      BY <3>1 DEF Intact, InList, Closed
    <3>5. orders + 1 \notin S
      BY <3>1
    <3> QED BY <3>1, <3>3, <3>4, <3>5 DEF Intact
  <2> QED BY <2>1, <2>2
<1>4. CASE item \in live /\ ll_remove(item)
  <2>1. Unlinked(list, next, item, last[item], list', next')
    BY <1>4, RemovedIsUnlinked
  <2>2. last[item] # Null => last[item] \in Items /\ next[last[item]] = item
    BY <1>0, <1>4 DEF LinkInv
  <2>3. ReachedBy(list', next') \subseteq live \ {item}
    BY <1>4, InListReached DEF Intact, ll_remove
  <2>4. ReachedBy(list, next) \subseteq live
    BY <1>0, <1>4, <2>1, <2>2, <2>3, RemovalRepairsNothing
  <2> QED BY <2>4, InListReached DEF Intact
<1> QED BY <1>1, <1>2, <1>3, <1>4, ListStep

(***************************************************************************)
(* An item of the middle that has lost its link back stays in the list.    *)
(***************************************************************************)
LostLink(n) == n # list /\ last[n] = Null

LEMMA LostLinkBreaks ==
  ASSUME CronTyped, CronTyped', NEW n \in InList, ll_remove(n), LostLink(n)
  PROVE  ~Intact'
<1> USE LinkTypes, LinkTypesAfter
<1> SUFFICES ASSUME Intact' PROVE FALSE
  OBVIOUS
<1>1. Unlinked(list, next, n, Null, list', next')
  BY RemovedIsUnlinked DEF LostLink
<1>2. ClosedUnder(list', next', InList') /\ InList' \in SUBSET Items
  BY InListReached, ReachedClosed DEF InList
<1>3. n \notin InList' /\ Null \notin Items
  BY ItemFacts DEF Intact, ll_remove
<1>4. ClosedUnder(list, next, InList')
  BY <1>1, <1>2, <1>3 DEF ClosedUnder, Unlinked, LostLink
<1> QED BY <1>2, <1>3, <1>4, InListReached, ReachedLeast

-----------------------------------------------------------------------------
(***************************************************************************)
(* An intact list is the sorted list of the linked items.                  *)
(***************************************************************************)
LEMMA LinkedItems ==
  ASSUME CronTyped
  PROVE  /\ Linked \subseteq live /\ Linked \subseteq Items /\ Null \notin Linked
         /\ \A n \in Linked : n \in Nat /\ n <= Limit
<1>1. Linked \subseteq live /\ live \subseteq Items /\ Null \notin Items
  BY LiveItems, ItemFacts DEF Linked
<1>2. ASSUME NEW n \in Linked PROVE n \in Nat /\ n <= Limit
  <2>1. n \in Nat /\ n <= orders /\ orders \in Nat
    BY <1>1, LiveItems, ItemFacts
  <2>2. CASE pc = "append"
    <3>1. n # orders
      BY <2>2 DEF CronTyped, Linked
    <3> QED BY <2>1, <2>2, <3>1 DEF Limit
  <2>3. CASE pc # "append"
    BY <2>1, <2>3 DEF Limit
  <2> QED BY <2>2, <2>3
<1> QED BY <1>1, <1>2

LEMMA SoundIsIntact ==
  ASSUME CronTyped, Sound
  PROVE  InList = Linked /\ Intact
<1>1. ReachedBy(list, next) = Linked
  BY LinkedItems, ChainReached DEF Sound
<1> QED BY <1>1, InListReached, LinkedItems DEF Intact

LEMMA SoundIsIntactAfter ==
  ASSUME CronTyped', Sound'
  PROVE  InList' = Linked' /\ Intact'
<1>1. Linked' \subseteq live' /\ live' \subseteq 1..orders' /\ orders' \in 0..MaxOrders
  BY DEF CronTyped, TypeOK, Linked
<1>2. Linked' \in SUBSET Items
  BY <1>1, ItemFacts DEF Items
<1>3. ReachedBy(list', next') = Linked'
  BY <1>2, ChainReached DEF Sound
<1> QED BY <1>1, <1>3, InListReached DEF Intact

LEMMA SoundNeighbours ==
  ASSUME CronTyped, LinkInv, Sound, NEW n \in Linked
  PROVE  /\ next[n] \in Linked \cup {Null} /\ next[n] # n
         /\ last[n] # Null => last[n] \in Linked /\ next[last[n]] = n
         /\ Neighbours(n) \subseteq live
<1> USE LinkTypes
<1>1. next[n] \in Linked \cup {Null} /\ next[n] # n
  BY LinkedItems DEF Sound, Chain, First, Behind
<1>2. ASSUME last[n] # Null PROVE last[n] \in Linked /\ next[last[n]] = n
  <2>1. last[n] \in Items /\ next[last[n]] = n /\ n # Null
    BY <1>2, LinkedItems DEF LinkInv
  <2>2. last[n] \in live
    BY <2>1 DEF LinkInv
  <2>3. pc = "append" => last[n] # argument
    <3>1. pc = "append" => argument = orders /\ Limit = orders - 1 /\ orders \in Nat
      BY LiveItems DEF CronTyped, Limit
    <3>2. \A m \in Items : m > Limit => next[m] = Null
      BY DEF CronTyped
    <3>3. pc = "append" => argument > Limit
      BY <3>1
    <3> QED BY <2>1, <3>2, <3>3
  <2> QED BY <2>1, <2>2, <2>3 DEF Linked
<1>3. Neighbours(n) \subseteq live
  BY <1>1, <1>2, LinkedItems DEF Neighbours
<1> QED BY <1>1, <1>2, <1>3

(***************************************************************************)
(* Only the removal of an item that lost its link back breaks the list.    *)
(***************************************************************************)
LEMMA SoundTouches ==
  ASSUME CronTyped, LinkInv, Sound
  PROVE  ~TouchesFreed
<1> SUFFICES ASSUME TouchesFreed PROVE FALSE
  OBVIOUS
<1>1. item \in Linked
  BY DEF Sound, TouchesFreed, Walking
<1>2. item \in live /\ Neighbours(item) \subseteq live
  BY <1>1, LinkedItems, SoundNeighbours
<1> QED BY <1>2 DEF TouchesFreed

LEMMA SoundRemoval ==
  ASSUME CronTyped, LinkInv, Sound, NEW n \in Linked, ll_remove(n), ~LostLink(n),
         pc \in {"tick", "find"}, pc' = pc, item' \in {next[n], list'}
  PROVE  Sound'
<1>1. Linked = live /\ Linked' = live \ {n} /\ live' = live \ {n}
  BY DEF Linked, ll_remove
<1>2. Unlinked(list, next, n, last[n], list', next')
  BY RemovedIsUnlinked
<1>3. last[n] # Null => last[n] \in Linked /\ next[last[n]] = n
  BY SoundNeighbours
<1>4. last[n] = Null => n = list
  BY DEF LostLink
<1>5. Chain(list', next', Linked \ {n})
  BY <1>2, <1>3, <1>4, LinkedItems, ChainRemove DEF Sound
<1>6. next[n] \in Linked' \cup {Null}
  BY <1>1, SoundNeighbours
<1>7. list' \in Linked' \cup {Null}
  BY <1>1, <1>5 DEF Chain, First
<1> QED BY <1>1, <1>5, <1>6, <1>7 DEF Sound

LEMMA SoundAppend ==
  ASSUME CronTyped, Sound, AppendItem
  PROVE  Sound'
<1>1. /\ pc = "append" /\ item \in live /\ next[item] = Null /\ pc' = "idle"
      /\ next' = [next EXCEPT ![item] = argument] /\ list' = list /\ live' = live
  BY DEF AppendItem, At
<1>2. /\ argument = orders /\ argument \in live /\ argument \in Items
      /\ Limit = orders - 1 /\ orders \in Nat /\ item \in Linked
  BY <1>1, LiveItems, LinkedItems DEF CronTyped, TypeOK, Limit, Sound, Walking
<1>3. Linked' = Linked \cup {argument}
  BY <1>1, <1>2 DEF Linked
<1>4. \A m \in Linked : m < argument
  BY <1>2, LinkedItems
<1>5. next[argument] = Null
  <2>1. argument > Limit
    BY <1>2
  <2> QED BY <1>2, <2>1 DEF CronTyped
<1>6. Chain(list, next', Linked \cup {argument})
  BY <1>1, <1>2, <1>4, <1>5, LinkTypes, LinkedItems, ChainAppend DEF Sound
<1> QED BY <1>1, <1>3, <1>6 DEF Sound, Walking

LEMMA SoundAdd ==
  ASSUME CronTyped, Sound, NEW j \in Orders, add_cronjob(j)
  PROVE  Sound'
<1> DEFINE n == orders + 1
<1>1. /\ pc = "idle" /\ orders \in Nat /\ n \in Items /\ Linked = live /\ Limit = orders
      /\ live' = live \cup {n} /\ next' = next
  <2>1. pc = "idle" /\ orders < MaxOrders /\ live' = live \cup {n} /\ next' = next
    BY DEF add_cronjob
  <2>2. orders \in Nat
    BY LiveItems
  <2>3. n \in Items
    BY <2>1, <2>2, ItemFacts DEF Items
  <2> QED BY <2>1, <2>2, <2>3 DEF Linked, Limit
<1>2. n \notin Linked
  BY <1>1, LinkedItems
<1>3. CASE list = Null
  <2>1. pc' = "idle" /\ list' = n
    BY <1>1, <1>3 DEF add_cronjob
  <2>2. Linked = {}
    BY <1>3, LinkedItems DEF Sound, Chain, First
  <2>3. Linked' = {n}
    BY <1>1, <2>1, <2>2 DEF Linked
  <2>4. next[n] = Null /\ n <= n /\ ~(n < n)
    <3>1. n > Limit
      BY <1>1
    <3> QED BY <1>1, <3>1 DEF CronTyped
  <2>5. Chain(list', next', {n})
    BY <1>1, <2>1, <2>4 DEF Chain, First, Behind
  <2> QED BY <2>1, <2>3, <2>5 DEF Sound, Walking
<1>4. CASE list # Null
  <2>1. pc' = "append" /\ list' = list /\ argument' = n /\ item' = list
    BY <1>4 DEF add_cronjob
  <2>2. Linked' = Linked
    BY <1>1, <1>2, <2>1 DEF Linked
  <2>3. list \in Linked \cup {Null}
    BY DEF Sound, Chain, First
  <2> QED BY <1>1, <2>1, <2>2, <2>3 DEF Sound
<1> QED BY <1>3, <1>4

LEMMA SoundStep ==
  ASSUME CronTyped, LinkInv, Sound, [Next]_vars,
         \A n \in live \ live' : ~LostLink(n)
  PROVE  Sound'
<1>1. CASE TickStart \/ \E m : del_cronjob(m)
  <2>1. /\ UNCHANGED <<list, next, live>> /\ pc = "idle" /\ pc' \in {"tick", "find"}
        /\ item' = list
    BY <1>1 DEF TickStart, del_cronjob, listVars
  <2>2. Linked' = Linked
    BY <2>1 DEF Linked
  <2>3. list \in Linked \cup {Null}
    BY DEF Sound, Chain, First
  <2> QED BY <2>1, <2>2, <2>3 DEF Sound
<1>2. CASE TickPass \/ AppendWalk \/ FindPass \/ FireAgain
  <2>1. /\ UNCHANGED <<list, next, live, pc, argument>> /\ item' = next[item]
        /\ item \in live /\ Walking
    BY <1>2 DEF TickPass, AppendWalk, FindPass, FireAgain, listVars, At, Walking
  <2>2. Linked' = Linked
    BY <2>1 DEF Linked
  <2>3. item \in Linked
    BY <2>1, LiveItems, ItemFacts DEF Sound
  <2>4. next[item] \in Linked \cup {Null}
    BY <2>3, SoundNeighbours
  <2> QED BY <2>1, <2>2, <2>4 DEF Sound, Walking
<1>3. CASE FireLast \/ FindRemove
  <2>1. /\ ll_remove(item) /\ item \in live /\ pc \in {"tick", "find"} /\ pc' = pc
        /\ item' \in {next[item], list'}
    BY <1>3 DEF FireLast, FindRemove, At
  <2>2. item \in Linked
    BY <2>1 DEF Linked
  <2>3. item \in live \ live'
    BY <2>1 DEF ll_remove
  <2> QED BY <2>1, <2>2, <2>3, SoundRemoval
<1>4. CASE EndWalk
  <2>1. /\ UNCHANGED <<list, next, live>> /\ pc \in {"tick", "find"} /\ pc' = "idle"
    BY <1>4 DEF EndWalk, listVars
  <2>2. Linked' = Linked
    BY <2>1 DEF Linked
  <2> QED BY <2>1, <2>2 DEF Sound, Walking
<1>5. CASE TouchesFreed
  BY <1>5, SoundTouches
<1>6. CASE AppendItem
  BY <1>6, SoundAppend
<1>7. CASE \E j \in Orders : add_cronjob(j)
  BY <1>7, SoundAdd
<1>8. CASE UNCHANGED vars
  <2>1. UNCHANGED <<list, next, live, pc, argument, item>>
    BY <1>8 DEF vars, listVars
  <2> QED BY <2>1 DEF Sound, Linked, Walking
<1> QED BY <1>1, <1>2, <1>3, <1>4, <1>5, <1>6, <1>7, <1>8 DEF Next, Walk, Order

(***************************************************************************)
(* While there are no more than two items, the second one knows the first. *)
(***************************************************************************)
LEMMA OneIsLeft ==
  ASSUME NEW S, IsFiniteSet(S), Cardinality(S) <= 2, NEW n \in S,
         NEW x \in S \ {n}, NEW y \in S \ {n}
  PROVE  x = y
<1>1. IsFiniteSet(S \ {n}) /\ Cardinality(S \ {n}) = Cardinality(S) - 1
  BY FS_RemoveElement
<1>2. IsFiniteSet((S \ {n}) \ {x}) /\ Cardinality((S \ {n}) \ {x}) = Cardinality(S \ {n}) - 1
  BY <1>1, FS_RemoveElement
<1>3. Cardinality(S) \in Nat /\ Cardinality((S \ {n}) \ {x}) \in Nat
  BY <1>2, FS_CardinalityType
<1>4. Cardinality((S \ {n}) \ {x}) = 0
  BY <1>1, <1>2, <1>3
<1>5. (S \ {n}) \ {x} = {}
  BY <1>2, <1>4, FS_EmptySet
<1> QED BY <1>5

LEMMA PeakGrows ==
  ASSUME CronTyped, [Next]_vars
  PROVE  /\ peak \in Nat /\ peak' \in Nat /\ peak <= peak'
         /\ IsFiniteSet(live) /\ Cardinality(live) \in Nat /\ Cardinality(live) <= peak
<1>1. IsFiniteSet(live) /\ Cardinality(live) \in Nat
  BY LiveItems, LiveFinite
<1>2. peak \in Cardinality(live)..MaxOrders
  BY DEF CronTyped, TypeOK
<1>3. peak \in Nat /\ Cardinality(live) <= peak
  BY <1>1, <1>2, ItemFacts
<1>4. peak' = peak \/ peak' = peak + 1
  BY DEF Next, Walk, Order, TickStart, TickPass, FireAgain, FireLast, EndWalk, add_cronjob,
         AppendWalk, AppendItem, FindPass, FindRemove, del_cronjob, TouchesFreed, vars,
         listVars, ll_remove
<1> QED BY <1>1, <1>3, <1>4

LEMMA LinkedSame ==
  ASSUME CronTyped, [Next]_vars
  PROVE  \/ UNCHANGED <<list, next, last, live>> /\ Linked' = Linked
         \/ TouchesFreed
         \/ AppendItem
         \/ \E j \in Orders : add_cronjob(j)
         \/ (FireLast \/ FindRemove) /\ item \in live /\ ll_remove(item)
               /\ live \ live' = {item} /\ pc \in {"tick", "find"} /\ pc' = pc
<1>1. CASE TickStart \/ EndWalk \/ \E m : del_cronjob(m)
  <2>1. UNCHANGED <<list, next, last, live>> /\ pc # "append" /\ pc' # "append"
    BY <1>1 DEF TickStart, EndWalk, del_cronjob, listVars
  <2> QED BY <2>1 DEF Linked
<1>2. CASE TickPass \/ AppendWalk \/ FindPass \/ FireAgain \/ UNCHANGED vars
  <2>1. UNCHANGED <<list, next, last, live, pc, argument>>
    BY <1>2 DEF TickPass, AppendWalk, FindPass, FireAgain, listVars, vars
  <2> QED BY <2>1 DEF Linked
<1>3. CASE FireLast \/ FindRemove
  BY <1>3 DEF FireLast, FindRemove, At, ll_remove
<1> QED BY <1>1, <1>2, <1>3 DEF Next, Walk, Order

LEMMA LinksBackStep ==
  ASSUME CronTyped, LinkInv, Sound, LinksBack, Sound', [Next]_vars, peak' <= 2
  PROVE  LinksBack'
<1> USE LinkTypes
<1>1. CASE UNCHANGED <<list, next, last, live>> /\ Linked' = Linked
  BY <1>1 DEF LinksBack
<1>2. CASE AppendItem
  <2>1. /\ pc = "append" /\ item \in live /\ pc' = "idle" /\ list' = list /\ live' = live
        /\ last' = [last EXCEPT ![argument] = item]
    BY <1>2 DEF AppendItem, At
  <2>2. argument \in live /\ live \subseteq Items /\ item # Null
    BY <2>1, LiveItems, ItemFacts DEF CronTyped, TypeOK
  <2>3. ASSUME NEW n \in live, n # list PROVE last'[n] # Null
    <3>1. CASE n = argument
      BY <2>1, <2>2, <3>1
    <3>2. CASE n # argument
      <4>1. last[n] # Null
        BY <2>1, <2>3, <3>2 DEF LinksBack, Linked
      <4> QED BY <2>1, <2>2, <3>2, <4>1
    <3> QED BY <3>1, <3>2
  <2>4. Linked' = live
    BY <2>1 DEF Linked
  <2> QED BY <2>1, <2>3, <2>4 DEF LinksBack
<1>3. ASSUME NEW j \in Orders, add_cronjob(j) PROVE LinksBack'
  <2>1. /\ pc = "idle" /\ last' = last /\ live' = live \cup {orders + 1} /\ Linked = live
    BY <1>3 DEF add_cronjob, Linked
  <2>2. CASE list = Null
    <3>1. pc' = "idle" /\ list' = orders + 1
      BY <1>3, <2>1, <2>2 DEF add_cronjob
    <3>2. Linked = {}
      BY <2>2, LinkedItems DEF Sound, Chain, First
    <3>3. Linked' = {list'}
      BY <2>1, <3>1, <3>2 DEF Linked
    <3> QED BY <3>3 DEF LinksBack
  <2>3. CASE list # Null
    <3>1. pc' = "append" /\ list' = list /\ argument' = orders + 1
      BY <1>3, <2>3 DEF add_cronjob
    <3>2. Linked' \subseteq Linked
      BY <2>1, <3>1 DEF Linked
    <3> QED BY <2>1, <3>1, <3>2 DEF LinksBack
  <2> QED BY <2>2, <2>3
<1>4. CASE item \in live /\ ll_remove(item) /\ pc \in {"tick", "find"} /\ pc' = pc
  <2>1. Linked' = live \ {item}
    BY <1>4 DEF Linked, ll_remove
  <2>2. IsFiniteSet(live) /\ Cardinality(live) <= 2
    BY PeakGrows
  <2>3. ASSUME NEW n \in Linked', n # list' PROVE FALSE
    <3>1. list' \in Linked'
      BY <2>3 DEF Sound, Chain, First
    <3> QED BY <1>4, <2>1, <2>2, <2>3, <3>1, OneIsLeft
  <2> QED BY <2>3 DEF LinksBack
<1> QED BY <1>1, <1>2, <1>3, <1>4, LinkedSame, SoundTouches

LEMMA ListInvInit == Init => ListInv
<1> SUFFICES ASSUME Init PROVE ListInv
  OBVIOUS
<1>1. CronTyped
  BY CronTypedInit
<1>2. LinkInv /\ Linked = {} /\ list = Null /\ pc = "idle"
  BY DEF Init, LinkInv, Linked
<1>3. Sound
  BY <1>2 DEF Sound, Chain, First, Walking
<1>4. Intact
  BY <1>1, <1>3, SoundIsIntact
<1> QED BY <1>1, <1>2, <1>3, <1>4 DEF ListInv, LinksBack

LEMMA ListInvStep ==
  ASSUME ListInv, [Next]_vars
  PROVE  ListInv'
<1>1. CronTyped /\ CronTyped' /\ LinkInv /\ LinkInv'
  BY CronTypedStep, LinkInvStep DEF ListInv
<1>2. ASSUME Intact' PROVE Sound /\ Sound'
  <2>1. Intact /\ Sound
    BY <1>1, <1>2, IntactBefore DEF ListInv
  <2>2. ASSUME NEW n \in live \ live' PROVE ~LostLink(n)
    <3>1. n = item /\ ll_remove(item) /\ item \in live /\ pc \in {"tick", "find"}
      BY <1>1, <2>2, LinkedSame DEF TouchesFreed, listVars, AppendItem, add_cronjob
    <3>2. item \in InList
      BY <1>1, <2>1, <3>1, SoundIsIntact DEF Linked
    <3> QED BY <1>1, <1>2, <3>1, <3>2, LostLinkBreaks
  <2> QED BY <1>1, <2>1, <2>2, SoundStep
<1>3. ASSUME peak' <= 2 PROVE Intact' /\ LinksBack'
  <2>1. peak <= 2
    BY <1>1, <1>3, PeakGrows
  <2>2. Intact /\ Sound /\ LinksBack
    BY <2>1 DEF ListInv
  <2>3. ASSUME NEW n \in live \ live' PROVE ~LostLink(n)
    <3>1. n = item /\ item \in live /\ pc \in {"tick", "find"}
      BY <1>1, <2>3, LinkedSame DEF TouchesFreed, listVars, AppendItem, add_cronjob
    <3>2. n \in Linked
      BY <3>1 DEF Linked
    <3> QED BY <2>2, <3>2 DEF LinksBack, LostLink
  <2>4. Sound'
    BY <1>1, <2>2, <2>3, SoundStep
  <2>5. LinksBack'
    BY <1>1, <1>3, <2>2, <2>4, LinksBackStep
  <2>6. Intact'
    BY <1>1, <2>4, SoundIsIntactAfter
  <2> QED BY <2>5, <2>6
<1> QED BY <1>1, <1>2, <1>3 DEF ListInv

-----------------------------------------------------------------------------
(***************************************************************************)
(* The list is broken by the removal of an item from the middle that has   *)
(* lost its link back, and by nothing else: ll_remove is correct whenever  *)
(* its caller's item knows the item before it.                             *)
(***************************************************************************)
THEOREM BreaksCorrect == Spec => BreaksByLostLink
<1>1. ASSUME ListInv, [Next]_vars
      PROVE  [Intact /\ ~Intact' => \E n \in live \ live' : n # list /\ last[n] = Null]_vars
  <2>1. CronTyped /\ CronTyped' /\ LinkInv
    BY <1>1, CronTypedStep DEF ListInv
  <2>2. ASSUME Intact, \A n \in live \ live' : ~LostLink(n) PROVE Intact'
    <3>1. Sound
      BY <1>1, <2>2 DEF ListInv
    <3>2. Sound'
      BY <1>1, <2>1, <2>2, <3>1, SoundStep
    <3> QED BY <2>1, <3>2, SoundIsIntactAfter
  <2> QED BY <2>2 DEF LostLink
<1> QED BY <1>1, ListInvInit, ListInvStep, PTL DEF Spec, BreaksByLostLink

(***************************************************************************)
(* Two jobs at a time are safe in cron, whatever they are and in whatever  *)
(* order they come, fire, end and are deleted: no pointer the main thread  *)
(* follows is to memory that was freed.                                    *)
(***************************************************************************)
THEOREM TwoItemsCorrect == Spec => []TwoItemsSafe
<1>1. ListInv => TwoItemsSafe
  BY DEF ListInv, TwoItemsSafe, Sound
<1> QED BY <1>1, ListInvInit, ListInvStep, PTL DEF Spec

(***************************************************************************)
(* While the list is intact it leads to every job that was added and not   *)
(* destroyed, except the one that ll_add is still to link.                 *)
(***************************************************************************)
THEOREM NothingLeaksCorrect == Spec => []NothingLeaks
<1>1. ListInv => NothingLeaks
  <2> SUFFICES ASSUME ListInv, Intact, NEW n \in live, ~Appending(n)
               PROVE  n \in InList
    BY DEF NothingLeaks
  <2>1. InList = Linked
    BY SoundIsIntact DEF ListInv
  <2> QED BY <2>1 DEF Linked, Appending
<1> QED BY <1>1, ListInvInit, ListInvStep, PTL DEF Spec

-----------------------------------------------------------------------------
(***************************************************************************)
(* The walk along an intact list comes to the items in their order.        *)
(***************************************************************************)
LEMMA FirstPassed ==
  ASSUME NEW x, NEW L, L \subseteq Nat, Null \notin L, First(x, L), NEW n \in L
  PROVE  ~(x = Null \/ n < x)
<1>1. x \in L /\ x <= n
  BY DEF First
<1>2. x # Null
  BY <1>1
<1> QED BY <1>1, <1>2

LEMMA NextPassed ==
  ASSUME CronTyped, Sound, item \in Linked
  PROVE  /\ item \in Nat /\ item # Null
         /\ \A n \in Linked : next[item] = Null \/ n < next[item] => n < item \/ n = item
         /\ \A n \in Nat : n <= item => next[item] = Null \/ n < next[item]
<1>1. item \in Nat /\ item # Null /\ \A n \in Linked : n \in Nat
  BY LinkedItems
<1>2. First(next[item], Behind(item, Linked))
  BY DEF Sound, Chain
<1>3. ASSUME NEW n \in Linked, next[item] = Null \/ n < next[item]
      PROVE  n < item \/ n = item
  <2>1. n \notin Behind(item, Linked)
    <3>1. Behind(item, Linked) \subseteq Nat /\ Null \notin Behind(item, Linked)
      BY <1>1, LinkedItems DEF Behind
    <3> QED BY <1>2, <1>3, <3>1, FirstPassed
  <2>2. ~(item < n)
    BY <2>1 DEF Behind
  <2> QED BY <1>1, <2>2
<1>4. ASSUME NEW n \in Nat, n <= item, next[item] # Null PROVE n < next[item]
  <2>1. next[item] \in Linked /\ item < next[item]
    BY <1>2, <1>4 DEF First, Behind
  <2>2. next[item] \in Nat
    BY <1>1, <2>1
  <2> QED BY <1>1, <1>4, <2>1, <2>2
<1> QED BY <1>1, <1>3, <1>4

(***************************************************************************)
(* No order is due at the tick at which it is added.                       *)
(***************************************************************************)
LEMMA NotYetDue ==
  ASSUME NEW W \in Nat \ {0, 1}, NEW c \in 0..W - 1, NEW t \in 0..W - 2
  PROVE  (t + c + 1) % W # c
<1>1. t \in Nat /\ c \in Nat /\ t <= W - 2 /\ c <= W - 1
  OBVIOUS
<1>2. CASE t + c + 1 < W
  <2>1. (t + c + 1) % W = t + c + 1
    BY <1>1, <1>2
  <2> QED BY <1>1, <2>1
<1>3. CASE t + c + 1 >= W
  <2>1. (t + c + 1) % W = t + c + 1 - W
    BY <1>1, <1>3
  <2> QED BY <1>1, <2>1
<1> QED BY <1>1, <1>2, <1>3

LEMMA AddedJob ==
  ASSUME CronTyped, NEW j \in Orders, add_cronjob(j)
  PROVE  /\ pc = "idle" /\ orders \in Nat /\ orders + 1 \in Items /\ orders + 1 \notin live
         /\ job'[orders + 1] \in Jobs /\ job'[orders + 1].timestamp # clock
         /\ \A n \in live : job'[n] = job[n]
         /\ live' = live \cup {orders + 1}
         /\ UNCHANGED <<clock, next, last, fired>>
<1> DEFINE k == [j EXCEPT !.timestamp = (@ + clock + 1) % Width]
<1>1. /\ pc = "idle" /\ orders < MaxOrders /\ job' = [job EXCEPT ![orders + 1] = k]
      /\ live' = live \cup {orders + 1} /\ UNCHANGED <<clock, next, last, fired>>
  BY DEF add_cronjob
<1>2. orders \in Nat /\ live \subseteq Items /\ orders + 1 \notin live
  BY LiveItems
<1>3. orders + 1 \in Items
  BY <1>1, <1>2, ItemFacts DEF Items
<1>4. clock \in 0..Width - 1 /\ j.timestamp \in 0..Width - 2
  BY OrderType DEF CronTyped, TypeOK
<1>5. (j.timestamp + clock + 1) % Width # clock
  BY <1>4, NotYetDue, CronAssumption
<1>6. (j.timestamp + clock + 1) % Width \in 0..Width - 1
  <2>1. j.timestamp + clock + 1 \in Int
    BY <1>4, CronAssumption
  <2> QED BY <2>1, Modulo
<1>7. k = [message |-> j.message, timestamp |-> (j.timestamp + clock + 1) % Width,
           period |-> j.period, repetitions |-> j.repetitions]
  BY OrderType
<1>8. k \in Jobs /\ k.timestamp # clock
  BY <1>5, <1>6, <1>7 DEF Jobs
<1> HIDE DEF k
<1>9. job'[orders + 1] = k /\ \A n \in live : job'[n] = job[n]
  BY <1>1, <1>2, <1>3 DEF CronTyped
<1> QED BY <1>1, <1>2, <1>3, <1>8, <1>9

LEMMA IntactStep ==
  ASSUME ListInv, [Next]_vars, Intact'
  PROVE  /\ CronTyped /\ CronTyped' /\ LinkInv /\ Intact /\ Sound /\ Sound' /\ ~TouchesFreed
         /\ InList = Linked /\ InList' = Linked'
<1>1. CronTyped /\ CronTyped' /\ LinkInv /\ ListInv'
  BY CronTypedStep, ListInvStep DEF ListInv
<1>2. Intact /\ Sound /\ Sound'
  BY <1>1, IntactBefore DEF ListInv
<1> QED BY <1>1, <1>2, SoundTouches, SoundIsIntact, SoundIsIntactAfter

LEMMA LinkedAfter ==
  ASSUME CronTyped, CronTyped', Sound, Sound', [Next]_vars, ~TouchesFreed
  PROVE  /\ ~AppendItem /\ (\A j \in Orders : ~add_cronjob(j)) /\ ~(FireLast \/ FindRemove)
              => Linked' = Linked
         /\ FireLast \/ FindRemove => item \in Linked /\ Linked' = Linked \ {item}
         /\ AppendItem => argument \notin Linked /\ argument \in Items
                            /\ Linked' = Linked \cup {argument}
         /\ \A j \in Orders : add_cronjob(j) =>
              \/ list = Null /\ pc' = "idle" /\ Linked = {} /\ Linked' = {orders + 1}
              \/ list # Null /\ pc' = "append" /\ Linked' = Linked /\ argument' = orders + 1
         /\ \A n \in Linked : n \in Nat /\ n # Null
         /\ \A n \in Linked' : n \in Nat /\ n # Null
<1>1. ~AppendItem /\ (\A j \in Orders : ~add_cronjob(j)) /\ ~(FireLast \/ FindRemove)
              => Linked' = Linked
  BY LinkedSame
<1>2. FireLast \/ FindRemove => item \in Linked /\ Linked' = Linked \ {item}
  BY DEF FireLast, FindRemove, ll_remove, At, Linked
<1>3. ASSUME AppendItem
      PROVE  argument \notin Linked /\ argument \in Items /\ Linked' = Linked \cup {argument}
  <2>1. pc = "append" /\ pc' = "idle" /\ live' = live
    BY <1>3 DEF AppendItem, At
  <2>2. argument \in live /\ live \subseteq Items
    BY <2>1, LiveItems DEF CronTyped, TypeOK
  <2> QED BY <2>1, <2>2 DEF Linked
<1>4. ASSUME NEW j \in Orders, add_cronjob(j)
      PROVE  \/ list = Null /\ pc' = "idle" /\ Linked = {} /\ Linked' = {orders + 1}
             \/ list # Null /\ pc' = "append" /\ Linked' = Linked /\ argument' = orders + 1
  <2>1. pc = "idle" /\ live' = live \cup {orders + 1} /\ orders + 1 \notin live
    BY <1>4, AddedJob
  <2>2. CASE list = Null
    <3>1. pc' = "idle"
      BY <1>4, <2>1, <2>2 DEF add_cronjob
    <3>2. Linked = {}
      BY <2>2, LinkedItems DEF Sound, Chain, First
    <3> QED BY <2>1, <2>2, <3>1, <3>2 DEF Linked
  <2>3. CASE list # Null
    <3>1. pc' = "append" /\ argument' = orders + 1
      BY <1>4, <2>3 DEF add_cronjob
    <3> QED BY <2>1, <2>3, <3>1 DEF Linked
  <2> QED BY <2>2, <2>3
<1>5. \A n \in Linked : n \in Nat /\ n # Null
  BY LinkedItems
<1>6. \A n \in Linked' : n \in Nat /\ n # Null
  <2>1. Linked' \subseteq live' /\ live' \subseteq 1..orders' /\ orders' \in 0..MaxOrders
    BY DEF CronTyped, TypeOK, Linked
  <2> QED BY <2>1, ItemFacts
<1> QED BY <1>1, <1>2, <1>3, <1>4, <1>5, <1>6

LEMMA WalkTick ==
  ASSUME ListInv, WalkInv, [Next]_vars, Intact', pc' = "tick"
  PROVE  /\ \A n \in Linked' : Passed(n)' /\ Due(n)' => n \in fired'
         /\ \A n \in fired' : Passed(n)'
<1>1. /\ CronTyped /\ CronTyped' /\ LinkInv /\ Intact /\ Sound /\ Sound' /\ ~TouchesFreed
  BY IntactStep
<1>2. CASE TickStart
  <2>1. item' = list /\ list' = list /\ fired' = {} /\ First(list', Linked')
    BY <1>1, <1>2 DEF TickStart, listVars, Sound, Chain
  <2>2. Linked' \subseteq Nat /\ Null \notin Linked'
    BY <1>1, LinkedAfter
  <2>3. \A n \in Linked' : ~Passed(n)'
    BY <2>1, <2>2, FirstPassed DEF Passed
  <2> QED BY <2>1, <2>3
<1>3. CASE TickPass \/ FireAgain \/ FireLast
  <2>1. /\ pc = "tick" /\ item \in live /\ item' = next[item] /\ clock' = clock
        /\ \/ ~Due(item) /\ fired' = fired
           \/ fired' = fired \cup {item}
        /\ Linked' \subseteq Linked /\ \A n \in Linked' : n # item => job'[n] = job[n]
        /\ ~Due(item) => job' = job
    <3>1. CASE TickPass
      <4>1. /\ pc = "tick" /\ item \in live /\ item' = next[item] /\ ~Due(item)
            /\ UNCHANGED <<clock, fired, job, live, argument, pc>>
        BY <3>1 DEF TickPass, At, listVars
      <4>2. Linked' = Linked
        BY <4>1 DEF Linked
      <4> QED BY <4>1, <4>2
    <3>2. CASE FireAgain
      <4>1. /\ pc = "tick" /\ item \in live /\ item' = next[item] /\ Due(item)
            /\ UNCHANGED <<clock, live, argument, pc>> /\ fired' = fired \cup {item}
            /\ job' = [job EXCEPT
               ![item].timestamp = (@ + job[item].period) % Width,
               ![item].repetitions = IF @ > 0 THEN @ - 1 ELSE @]
        BY <3>2 DEF FireAgain, At
      <4>2. Linked' = Linked /\ Linked \subseteq Items
        BY <1>1, <4>1, LinkedItems DEF Linked
      <4>3. \A n \in Items : n # item => job'[n] = job[n]
        BY <1>1, <4>1 DEF CronTyped
      <4> QED BY <4>1, <4>2, <4>3
    <3>3. CASE FireLast
      <4>1. /\ pc = "tick" /\ item \in live /\ item' = next[item] /\ Due(item)
            /\ UNCHANGED <<clock, argument, pc>> /\ fired' = fired \cup {item}
            /\ job' = [job EXCEPT ![item] = NoJob]
        BY <3>3 DEF FireLast, At, ll_remove
      <4>2. Linked' \subseteq Linked /\ Linked \subseteq Items
        BY <1>1, <3>3, LinkedItems, LinkedAfter
      <4>3. \A n \in Items : n # item => job'[n] = job[n]
        BY <1>1, <4>1 DEF CronTyped
      <4> QED BY <4>1, <4>2, <4>3
    <3> QED BY <1>3, <3>1, <3>2, <3>3
  <2>2. item \in Linked
    BY <2>1 DEF Linked
  <2>3. /\ item \in Nat /\ item # Null
        /\ \A n \in Linked : next[item] = Null \/ n < next[item] => n < item \/ n = item
        /\ \A n \in Nat : n <= item => next[item] = Null \/ n < next[item]
    BY <1>1, <2>2, NextPassed
  <2>4. /\ \A n \in Linked : Passed(n) /\ Due(n) => n \in fired
        /\ \A n \in fired : Passed(n)
    BY <1>1, <2>1 DEF WalkInv
  <2>5. ASSUME NEW n \in Linked', Passed(n)', Due(n)' PROVE n \in fired'
    <3>1. n \in Linked /\ (n < item \/ n = item)
      BY <2>1, <2>3, <2>5 DEF Passed
    <3>2. CASE n = item
      <4>1. ~Due(item) => ~Due(n)'
        BY <2>1, <3>2 DEF Due
      <4> QED BY <2>1, <2>5, <3>2, <4>1
    <3>3. CASE n # item
      <4>1. Passed(n) /\ Due(n)
        BY <2>1, <2>5, <3>1, <3>3 DEF Passed, Due
      <4> QED BY <2>1, <2>4, <3>1, <4>1
    <3> QED BY <3>2, <3>3
  <2>6. ASSUME NEW n \in fired' PROVE Passed(n)'
    <3>1. n \in Nat /\ n <= item
      <4>1. n \in fired \/ n = item
        BY <2>1, <2>6
      <4>2. CASE n \in fired
        <5>1. fired \subseteq 1..orders /\ orders \in Nat
          BY <1>1, LiveItems DEF CronTyped, TypeOK
        <5>2. n < item
          BY <2>3, <2>4, <4>2 DEF Passed
        <5> QED BY <2>3, <4>2, <5>1, <5>2
      <4> QED BY <2>3, <4>1, <4>2
    <3> QED BY <2>1, <2>3, <3>1 DEF Passed
  <2> QED BY <2>5, <2>6
<1>4. CASE UNCHANGED vars
  <2>1. UNCHANGED <<live, pc, argument, item, job, clock, fired>>
    BY <1>4 DEF vars, listVars
  <2>2. /\ \A n \in Linked : Passed(n) /\ Due(n) => n \in fired
        /\ \A n \in fired : Passed(n)
    BY <1>1, <2>1 DEF WalkInv
  <2> QED BY <2>1, <2>2 DEF Linked, Passed, Due
<1>5. \/ TickStart \/ TickPass \/ FireAgain \/ FireLast \/ UNCHANGED vars
  BY <1>1 DEF Next, Walk, Order, AppendWalk, AppendItem, FindPass, FindRemove, EndWalk,
              add_cronjob, del_cronjob, At
<1> QED BY <1>2, <1>3, <1>4, <1>5

LEMMA WalkRest ==
  ASSUME ListInv, WalkInv, [Next]_vars, Intact', pc' \in {"idle", "append", "find"},
         NEW n \in Linked', Due(n)'
  PROVE  n \in fired'
<1>1. /\ CronTyped /\ CronTyped' /\ LinkInv /\ Intact /\ Sound /\ Sound' /\ ~TouchesFreed
  BY IntactStep
<1>2. pc \in {"idle", "append", "find"} => \A m \in Linked : Due(m) => m \in fired
  BY <1>1 DEF WalkInv
<1>3. CASE EndWalk
  <2>1. /\ UNCHANGED <<clock, job, fired, live>> /\ item = Null /\ pc \in {"tick", "find"}
        /\ pc' = "idle"
    BY <1>3 DEF EndWalk, listVars
  <2>2. Linked' = Linked
    BY <2>1 DEF Linked
  <2>3. Due(n)
    BY <2>1 DEF Due
  <2>4. pc = "tick" => n \in fired
    BY <1>1, <2>1, <2>2, <2>3 DEF WalkInv, Passed
  <2> QED BY <1>2, <2>1, <2>2, <2>3, <2>4
<1>4. CASE \E j \in Orders : add_cronjob(j)
  <2>1. PICK j \in Orders : add_cronjob(j)
    BY <1>4
  <2>2. /\ pc = "idle" /\ job'[orders + 1].timestamp # clock /\ UNCHANGED <<clock, fired>>
        /\ \A m \in live : job'[m] = job[m]
    BY <1>1, <2>1, AddedJob
  <2>3. n # orders + 1
    BY <2>2 DEF Due
  <2>4. n \in Linked
    BY <1>1, <2>1, <2>3, LinkedAfter
  <2>5. Due(n)
    BY <1>1, <2>2, <2>4, LinkedItems DEF Due
  <2> QED BY <1>2, <2>2, <2>4, <2>5
<1>5. CASE AppendItem
  <2>1. pc = "append" /\ UNCHANGED <<clock, job, fired>>
    BY <1>5 DEF AppendItem, At
  <2>2. Due(n)
    BY <2>1 DEF Due
  <2>3. ~Due(argument)
    BY <1>1, <2>1 DEF WalkInv
  <2>4. n \in Linked
    BY <1>1, <1>5, <2>2, <2>3, LinkedAfter
  <2> QED BY <1>2, <2>1, <2>2, <2>4
<1>6. CASE FindRemove
  <2>1. pc = "find" /\ UNCHANGED <<clock, fired>> /\ job' = [job EXCEPT ![item] = NoJob]
    BY <1>6 DEF FindRemove, At, ll_remove
  <2>2. n \in Linked /\ n # item /\ n \in Items
    BY <1>1, <1>6, LinkedAfter, LinkedItems
  <2>3. Due(n)
    BY <1>1, <2>1, <2>2 DEF Due, CronTyped
  <2> QED BY <1>2, <2>1, <2>2, <2>3
<1>7. CASE AppendWalk \/ FindPass \/ (\E m : del_cronjob(m)) \/ UNCHANGED vars
  <2>1. /\ UNCHANGED <<clock, job, fired, live>>
        /\ \/ UNCHANGED <<pc, argument>>
           \/ pc = "idle" /\ pc' = "find"
    BY <1>7 DEF AppendWalk, FindPass, del_cronjob, vars, listVars
  <2>2. Linked' = Linked /\ Due(n)
    BY <2>1 DEF Linked, Due
  <2>3. pc \in {"idle", "append", "find"}
    BY <2>1
  <2> QED BY <1>2, <2>1, <2>2, <2>3
<1>8. \/ EndWalk \/ (\E j \in Orders : add_cronjob(j)) \/ AppendItem \/ FindRemove
      \/ AppendWalk \/ FindPass \/ (\E m : del_cronjob(m)) \/ UNCHANGED vars
  BY <1>1 DEF Next, Walk, Order, TickStart, TickPass, FireAgain, FireLast, At
<1> QED BY <1>3, <1>4, <1>5, <1>6, <1>7, <1>8

LEMMA WalkAppend ==
  ASSUME ListInv, WalkInv, [Next]_vars, Intact', pc' = "append"
  PROVE  job'[argument'] \in Jobs /\ ~Due(argument)'
<1>1. /\ CronTyped /\ CronTyped' /\ Intact /\ Sound /\ Sound' /\ ~TouchesFreed
  BY IntactStep
<1>2. CASE \E j \in Orders : add_cronjob(j)
  <2>1. PICK j \in Orders : add_cronjob(j)
    BY <1>2
  <2>2. argument' = orders + 1
    BY <1>1, <2>1, LinkedAfter
  <2>3. job'[orders + 1] \in Jobs /\ job'[orders + 1].timestamp # clock /\ clock' = clock
    BY <1>1, <2>1, AddedJob
  <2> QED BY <2>2, <2>3 DEF Due
<1>3. CASE AppendWalk \/ UNCHANGED vars
  <2>1. UNCHANGED <<clock, job, pc, argument>>
    BY <1>3 DEF AppendWalk, vars, listVars
  <2>2. job[argument] \in Jobs /\ ~Due(argument)
    BY <1>1, <2>1 DEF WalkInv
  <2> QED BY <2>1, <2>2 DEF Due
<1>4. (\E j \in Orders : add_cronjob(j)) \/ AppendWalk \/ UNCHANGED vars
  BY <1>1 DEF Next, Walk, Order, TickStart, TickPass, FireAgain, FireLast, At, EndWalk,
              AppendItem, FindPass, FindRemove, del_cronjob
<1> QED BY <1>2, <1>3, <1>4

LEMMA WalkFind ==
  ASSUME ListInv, WalkInv, [Next]_vars, Intact', pc' = "find",
         NEW n \in Linked', Passed(n)'
  PROVE  ~Doomed(n)'
<1>1. /\ CronTyped /\ CronTyped' /\ LinkInv /\ Intact /\ Sound /\ Sound' /\ ~TouchesFreed
  BY IntactStep
<1>2. Linked' \subseteq Nat /\ Null \notin Linked'
  BY <1>1, LinkedAfter
<1>3. item' # list'
  <2>1. First(list', Linked')
    BY <1>1 DEF Sound, Chain
  <2> QED BY <1>2, <2>1, FirstPassed DEF Passed
<1>4. pc = "find" => \A m \in Linked : Passed(m) => ~Doomed(m)
  BY <1>1 DEF WalkInv
<1>5. CASE FindPass
  <2>1. /\ pc = "find" /\ item \in live /\ ~ll_find(item) /\ item' = next[item]
        /\ UNCHANGED <<job, live, pc, argument>>
    BY <1>5 DEF FindPass, At, listVars
  <2>2. Linked' = Linked /\ item \in Linked
    BY <2>1 DEF Linked
  <2>3. n < item \/ n = item
    BY <1>1, <2>1, <2>2, NextPassed DEF Passed
  <2>4. ~ll_find(n)
    BY <1>4, <2>1, <2>2, <2>3 DEF Passed, Doomed
  <2> QED BY <2>1, <2>4 DEF Doomed, ll_find
<1>6. CASE UNCHANGED vars
  <2>1. UNCHANGED <<job, live, pc, argument, item>>
    BY <1>6 DEF vars, listVars
  <2>2. Linked' = Linked /\ Passed(n)
    BY <2>1 DEF Linked, Passed
  <2>3. ~Doomed(n)
    BY <1>4, <2>1, <2>2
  <2> QED BY <2>1, <2>3 DEF Doomed, ll_find
<1>7. FindPass \/ UNCHANGED vars
  BY <1>1, <1>3 DEF Next, Walk, Order, TickStart, TickPass, FireAgain, FireLast, At, EndWalk,
              AppendItem, AppendWalk, FindRemove, del_cronjob, add_cronjob, listVars
<1> QED BY <1>5, <1>6, <1>7

LEMMA WalkInvInit == Init => WalkInv
  BY DEF Init, WalkInv, Linked

LEMMA WalkInvStep ==
  ASSUME ListInv, WalkInv, [Next]_vars
  PROVE  WalkInv'
<1> SUFFICES ASSUME Intact' PROVE WalkInv'
  BY DEF WalkInv
<1>1. pc' = "tick" => /\ \A n \in Linked' : Passed(n)' /\ Due(n)' => n \in fired'
                      /\ \A n \in fired' : Passed(n)'
  BY WalkTick
<1>2. pc' \in {"idle", "append", "find"} => \A n \in Linked' : Due(n)' => n \in fired'
  BY WalkRest
<1>3. pc' = "append" => job'[argument'] \in Jobs /\ ~Due(argument)'
  BY WalkAppend
<1>4. pc' = "find" => \A n \in Linked' : Passed(n)' => ~Doomed(n)'
  BY WalkFind
<1> QED BY <1>1, <1>2, <1>3, <1>4 DEF WalkInv

-----------------------------------------------------------------------------
(***************************************************************************)
(* Every step of an intact list is a step of the schedule, or none.        *)
(***************************************************************************)
Planned == {n \in Linked : ~Doomed(n)}

LEMMA PlanIs ==
  ASSUME InList = Linked
  PROVE  plan = [n \in Planned |-> job[n]]
  BY DEF plan, Planned

LEMMA PlanIsAfter ==
  ASSUME InList' = Linked'
  PROVE  plan' = [n \in Planned' |-> job'[n]]
  BY DEF plan, Planned

LEMMA SamePlan ==
  ASSUME InList = Linked, InList' = Linked', Planned' = Planned,
         \A n \in Planned : job'[n] = job[n]
  PROVE  plan' = plan
<1>1. plan = [n \in Planned |-> job[n]] /\ plan' = [n \in Planned' |-> job'[n]]
  BY PlanIs, PlanIsAfter
<1> QED BY <1>1

ScheduleStep == TheSchedule!Next \/ UNCHANGED TheSchedule!vars

LEMMA AdvanceStep ==
  ASSUME ListInv, WalkInv, Intact', [Next]_vars, TickStart
  PROVE  ScheduleStep
<1>1. CronTyped /\ CronTyped' /\ Intact /\ Sound /\ Sound' /\ InList = Linked /\ InList' = Linked'
      /\ ~TouchesFreed
  BY IntactStep
<1>2. /\ pc = "idle" /\ pc' = "tick" /\ clock' = (clock + Step) % Width /\ fired' = {}
      /\ UNCHANGED <<job, live>>
  BY DEF TickStart, listVars
<1>3. Linked' = Linked /\ Planned = Linked /\ Planned' = Linked'
  BY <1>2 DEF Planned, Doomed, Linked
<1>4. plan' = plan
  BY <1>1, <1>2, <1>3, SamePlan
<1>5. plan = [n \in Linked |-> job[n]]
  BY <1>1, <1>3, PlanIs
<1>6. \A n \in Linked : job[n].timestamp = clock => n \in fired
  BY <1>1, <1>2 DEF WalkInv, Due
<1>7. TheSchedule!Due = {}
  BY <1>5, <1>6 DEF TheSchedule!Due
<1>8. TheSchedule!Advance
  BY <1>2, <1>4, <1>7 DEF TheSchedule!Advance
<1> QED BY <1>8 DEF ScheduleStep, TheSchedule!Next

LEMMA FireStep ==
  ASSUME ListInv, WalkInv, Intact', [Next]_vars, FireAgain \/ FireLast
  PROVE  ScheduleStep
<1>1. CronTyped /\ CronTyped' /\ Intact /\ Sound /\ Sound' /\ InList = Linked /\ InList' = Linked'
      /\ ~TouchesFreed
  BY IntactStep
<1>2. /\ pc = "tick" /\ pc' = "tick" /\ item \in live /\ Due(item) /\ clock' = clock
      /\ fired' = fired \cup {item}
  BY DEF FireAgain, FireLast, At
<1>3. item \in Linked /\ Planned = Linked /\ Planned' = Linked'
  BY <1>2 DEF Linked, Planned, Doomed
<1>4. plan = [n \in Linked |-> job[n]] /\ plan' = [n \in Linked' |-> job'[n]]
  BY <1>1, <1>3, PlanIs, PlanIsAfter
<1>5. item \notin fired /\ item \in Items /\ Linked \subseteq Items
  <2>1. item \in Nat /\ item # Null
    BY <1>1, <1>3, LinkedItems
  <2>2. ~Passed(item)
    BY <2>1 DEF Passed
  <2> QED BY <1>1, <1>2, <1>3, <2>2, LinkedItems DEF WalkInv
<1>6. item \in TheSchedule!Due
  BY <1>2, <1>3, <1>4, <1>5 DEF TheSchedule!Due, Due
<1>7. CASE FireLast
  <2>1. Linked' = Linked \ {item} /\ Finished(item) /\ job' = [job EXCEPT ![item] = NoJob]
    BY <1>1, <1>7, LinkedAfter DEF FireLast, ll_remove
  <2>2. plan[item].repetitions \in {0, 1}
    BY <1>3, <1>4, <2>1 DEF Finished
  <2>3. \A n \in Linked' : job'[n] = job[n] /\ plan[n] = job[n]
    BY <1>1, <1>4, <1>5, <2>1 DEF CronTyped
  <2>4. plan' = [n \in Linked' |-> plan[n]]
    BY <1>4, <2>3
  <2>5. DOMAIN plan \ {item} = Linked'
    BY <1>4, <2>1
  <2>6. plan' = TheSchedule!Only(DOMAIN plan \ {item})
    BY <2>4, <2>5 DEF TheSchedule!Only
  <2>7. TheSchedule!Fire(item)
    BY <1>2, <1>6, <2>2, <2>6 DEF TheSchedule!Fire
  <2> QED BY <1>5, <2>7 DEF ScheduleStep, TheSchedule!Next
<1>8. CASE FireAgain
  <2> DEFINE k == [job[item] EXCEPT
                     !.timestamp = (@ + job[item].period) % Width,
                     !.repetitions = IF @ > 0 THEN @ - 1 ELSE @]
  <2>1. /\ UNCHANGED <<live, argument>> /\ ~Finished(item)
        /\ job' = [job EXCEPT
               ![item].timestamp = (@ + job[item].period) % Width,
               ![item].repetitions = IF @ > 0 THEN @ - 1 ELSE @]
    BY <1>8 DEF FireAgain
  <2>2. Linked' = Linked
    BY <1>2, <2>1 DEF Linked
  <2>3. job' = [job EXCEPT ![item] = k]
    BY <1>1, <1>5, <2>1 DEF CronTyped
  <2>4. plan[item] = job[item]
    BY <1>3, <1>4
  <2>5. ~(plan[item].repetitions \in {0, 1})
    BY <2>1, <2>4 DEF Finished
  <2>6. [plan EXCEPT ![item].timestamp = (@ + plan[item].period) % Width,
                     ![item].repetitions = IF @ > 0 THEN @ - 1 ELSE @]
          = [plan EXCEPT ![item] = k]
    BY <1>3, <1>4, <2>4
  <2> HIDE DEF k
  <2>7. plan' = [plan EXCEPT ![item] = k]
    BY <1>1, <1>4, <1>5, <2>2, <2>3 DEF CronTyped
  <2>8. plan' = [plan EXCEPT ![item].timestamp = (@ + plan[item].period) % Width,
                             ![item].repetitions = IF @ > 0 THEN @ - 1 ELSE @]
    BY <2>6, <2>7
  <2>9. TheSchedule!Fire(item)
    BY <1>2, <1>6, <2>5, <2>8 DEF TheSchedule!Fire
  <2> QED BY <1>5, <2>9 DEF ScheduleStep, TheSchedule!Next
<1> QED BY <1>7, <1>8

LEMMA AddStep ==
  ASSUME ListInv, WalkInv, Intact', [Next]_vars, NEW j \in Orders, add_cronjob(j)
  PROVE  ScheduleStep
<1> DEFINE n == orders + 1
<1>1. CronTyped /\ CronTyped' /\ Intact /\ Sound /\ Sound' /\ InList = Linked /\ InList' = Linked'
      /\ ~TouchesFreed
  BY IntactStep
<1>2. /\ pc = "idle" /\ n \in Items /\ n \notin live /\ job'[n] \in Jobs
      /\ job'[n].timestamp # clock /\ (\A m \in live : job'[m] = job[m])
      /\ UNCHANGED <<clock, fired>>
  BY <1>1, AddedJob
<1>3. Planned = Linked /\ Linked \subseteq live
  BY <1>1, <1>2, LinkedItems DEF Planned, Doomed
<1>4. CASE list = Null
  <2>1. pc' = "idle" /\ Linked = {} /\ Linked' = {n}
    BY <1>1, <1>4, LinkedAfter
  <2>2. Planned' = {n} /\ Planned = {}
    BY <1>3, <2>1 DEF Planned, Doomed
  <2>3. plan' = [m \in {n} |-> job'[m]] /\ plan = [m \in {} |-> job[m]]
    BY <1>1, <2>2, PlanIs, PlanIsAfter
  <2>4. DOMAIN plan = {}
    BY <2>3
  <2>5. plan' = [m \in DOMAIN plan \cup {n} |-> IF m = n THEN job'[n] ELSE plan[m]]
    BY <2>3, <2>4
  <2>6. TheSchedule!Add(n, job'[n])
    BY <1>2, <2>4, <2>5 DEF TheSchedule!Add
  <2> QED BY <1>2, <2>6 DEF ScheduleStep, TheSchedule!Next
<1>5. CASE list # Null
  <2>1. pc' = "append" /\ Linked' = Linked
    BY <1>1, <1>5, LinkedAfter
  <2>2. Planned' = Planned
    BY <1>3, <2>1 DEF Planned, Doomed
  <2>3. plan' = plan
    BY <1>1, <1>2, <1>3, <2>2, SamePlan
  <2> QED BY <1>2, <2>3 DEF ScheduleStep, TheSchedule!vars
<1> QED BY <1>4, <1>5

LEMMA AppendStep ==
  ASSUME ListInv, WalkInv, Intact', [Next]_vars, AppendItem
  PROVE  ScheduleStep
<1> DEFINE n == argument
<1>1. CronTyped /\ CronTyped' /\ Intact /\ Sound /\ Sound' /\ InList = Linked /\ InList' = Linked'
      /\ ~TouchesFreed
  BY IntactStep
<1>2. pc = "append" /\ pc' = "idle" /\ UNCHANGED <<clock, fired, job>>
  BY DEF AppendItem, At
<1>3. n \in Items /\ n \notin Linked /\ Linked' = Linked \cup {n}
  BY <1>1, LinkedAfter
<1>4. Planned = Linked /\ Planned' = Linked'
  BY <1>2 DEF Planned, Doomed
<1>5. plan = [m \in Linked |-> job[m]] /\ plan' = [m \in Linked' |-> job[m]]
  BY <1>1, <1>2, <1>4, PlanIs, PlanIsAfter
<1>6. DOMAIN plan = Linked
  BY <1>5
<1>7. job[n] \in Jobs /\ job[n].timestamp # clock
  BY <1>1, <1>2 DEF WalkInv, Due
<1>8. plan' = [m \in DOMAIN plan \cup {n} |-> IF m = n THEN job[n] ELSE plan[m]]
  BY <1>3, <1>5, <1>6
<1>9. TheSchedule!Add(n, job[n])
  BY <1>2, <1>3, <1>6, <1>7, <1>8 DEF TheSchedule!Add
<1> QED BY <1>3, <1>7, <1>9 DEF ScheduleStep, TheSchedule!Next

LEMMA DeleteStep ==
  ASSUME ListInv, WalkInv, Intact', [Next]_vars, NEW m, del_cronjob(m)
  PROVE  ScheduleStep
<1> DEFINE S == {n \in Linked : job[n].message # m}
<1>1. CronTyped /\ Sound /\ InList = Linked /\ InList' = Linked'
  BY IntactStep
<1>2. pc = "idle" /\ pc' = "find" /\ argument' = m /\ UNCHANGED <<clock, fired, job, live>>
  BY DEF del_cronjob, listVars
<1>3. Linked' = Linked /\ Planned = Linked
  BY <1>2 DEF Linked, Planned, Doomed
<1>4. Planned' = Linked \ S
  BY <1>2, <1>3 DEF Planned, Doomed, ll_find
<1>5. plan = [n \in Linked |-> job[n]] /\ plan' = [n \in Linked \ S |-> job[n]]
  BY <1>1, <1>2, <1>3, <1>4, PlanIs, PlanIsAfter
<1>6. DOMAIN plan = Linked /\ S \in SUBSET Items
  BY <1>1, <1>5, LinkedItems
<1>7. \A a, b \in DOMAIN plan : a \in S /\ plan[b].message = plan[a].message => b \in S
  BY <1>5, <1>6
<1>8. plan' = TheSchedule!Only(DOMAIN plan \ S)
  BY <1>5, <1>6 DEF TheSchedule!Only
<1>9. TheSchedule!Delete(S)
  BY <1>2, <1>7, <1>8 DEF TheSchedule!Delete
<1> QED BY <1>6, <1>9 DEF ScheduleStep, TheSchedule!Next

LEMMA QuietStep ==
  ASSUME ListInv, WalkInv, Intact', [Next]_vars,
         TickPass \/ AppendWalk \/ FindPass \/ FindRemove \/ EndWalk
  PROVE  ScheduleStep
<1>1. CronTyped /\ CronTyped' /\ Intact /\ Sound /\ Sound' /\ InList = Linked /\ InList' = Linked'
      /\ ~TouchesFreed
  BY IntactStep
<1>2. UNCHANGED <<clock, fired>>
  BY DEF TickPass, AppendWalk, FindPass, FindRemove, EndWalk
<1>3. CASE TickPass \/ AppendWalk \/ FindPass
  <2>1. UNCHANGED <<pc, argument, live, job>>
    BY <1>3 DEF TickPass, AppendWalk, FindPass, listVars
  <2>2. Planned' = Planned
    BY <2>1 DEF Planned, Linked, Doomed, ll_find
  <2> QED BY <1>1, <1>2, <2>1, <2>2, SamePlan DEF ScheduleStep, TheSchedule!vars
<1>4. CASE FindRemove
  <2>1. pc = "find" /\ UNCHANGED <<pc, argument>> /\ ll_find(item)
        /\ job' = [job EXCEPT ![item] = NoJob]
    BY <1>4 DEF FindRemove, At, ll_remove
  <2>2. Linked' = Linked \ {item} /\ Linked \subseteq Items
    BY <1>1, <1>4, LinkedAfter, LinkedItems
  <2>3. \A n \in Linked' : job'[n] = job[n]
    BY <1>1, <2>1, <2>2 DEF CronTyped
  <2>4. Doomed(item) /\ \A n \in Linked' : Doomed(n)' <=> Doomed(n)
    BY <2>1, <2>3 DEF Doomed, ll_find
  <2>5. Planned' = Planned
    BY <2>2, <2>4 DEF Planned
  <2>6. \A n \in Planned : job'[n] = job[n]
    BY <2>2, <2>3, <2>4 DEF Planned
  <2> QED BY <1>1, <1>2, <2>5, <2>6, SamePlan DEF ScheduleStep, TheSchedule!vars
<1>5. CASE EndWalk
  <2>1. /\ pc \in {"tick", "find"} /\ pc' = "idle" /\ item = Null /\ UNCHANGED <<live, job>>
    BY <1>5 DEF EndWalk, listVars
  <2>2. Linked' = Linked
    BY <2>1 DEF Linked
  <2>3. \A n \in Linked : ~Doomed(n) /\ ~Doomed(n)'
    BY <1>1, <2>1 DEF WalkInv, Passed, Doomed
  <2>4. Planned' = Planned
    BY <2>2, <2>3 DEF Planned
  <2> QED BY <1>1, <1>2, <2>1, <2>4, SamePlan DEF ScheduleStep, TheSchedule!vars
<1> QED BY <1>3, <1>4, <1>5

LEMMA ScheduleInit == Init => TheSchedule!Init
<1> SUFFICES ASSUME Init PROVE TheSchedule!Init
  OBVIOUS
<1>1. clock = 1 /\ fired = {} /\ Linked = {} /\ CronTyped /\ Sound
  <2>1. clock = 1 /\ fired = {} /\ Linked = {} /\ list = Null /\ pc = "idle"
    BY DEF Init, Linked
  <2> QED BY <2>1, CronTypedInit DEF Sound, Chain, First, Walking
<1>2. InList = Linked
  BY <1>1, SoundIsIntact
<1>3. plan = [n \in {} |-> job[n]]
  BY <1>1, <1>2, PlanIs DEF Planned
<1>4. plan = [n \in {} |-> {}]
  BY <1>3
<1> QED BY <1>1, <1>4 DEF TheSchedule!Init

(***************************************************************************)
(* While the list is intact, cron implements the schedule: every job is    *)
(* sent at its ticks, once each, as often as it was ordered, and deleted   *)
(* with the others of its name, although the walk removes the items it     *)
(* walks along.                                                            *)
(***************************************************************************)
THEOREM ScheduleImplemented == Spec => ImplementsSchedule
<1>1. ASSUME ListInv, WalkInv, [Next]_vars
      PROVE  [Intact' => TheSchedule!Next \/ UNCHANGED TheSchedule!vars]_vars
  <2> SUFFICES ASSUME Intact', ~UNCHANGED vars PROVE ScheduleStep
    BY DEF ScheduleStep
  <2>1. ~TouchesFreed
    BY <1>1, IntactStep
  <2>2. CASE TickStart
    BY <1>1, <2>2, AdvanceStep
  <2>3. CASE FireAgain \/ FireLast
    BY <1>1, <2>3, FireStep
  <2>4. CASE \E j \in Orders : add_cronjob(j)
    BY <1>1, <2>4, AddStep
  <2>5. CASE AppendItem
    BY <1>1, <2>5, AppendStep
  <2>6. CASE \E m : del_cronjob(m)
    BY <1>1, <2>6, DeleteStep
  <2>7. CASE TickPass \/ AppendWalk \/ FindPass \/ FindRemove \/ EndWalk
    BY <1>1, <2>7, QuietStep
  <2> QED BY <1>1, <2>1, <2>2, <2>3, <2>4, <2>5, <2>6, <2>7 DEF Next, Walk, Order
<1> QED BY <1>1, ListInvInit, ListInvStep, WalkInvInit, WalkInvStep, ScheduleInit, PTL
        DEF Spec, ImplementsSchedule
=============================================================================
