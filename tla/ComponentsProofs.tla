-------------------------- MODULE ComponentsProofs --------------------------
(***************************************************************************)
(* Proofs about the matching of messages, and about all components in one  *)
(* specification: as each runs as its own specification says, what is      *)
(* proved of that holds of the sum, whichever component was chosen.        *)
(***************************************************************************)
EXTENDS Components, DeviceProofs, ProgramProofs, MainProofs

-----------------------------------------------------------------------------
(***************************************************************************)
(* The matching of messages.                                               *)
(***************************************************************************)
\* A set of numbers that is not empty has a least one.
LEMMA LeastNumber ==
  ASSUME NEW S, S \subseteq Nat, S # {}
  PROVE  \E m \in S : \A n \in S : m <= n
  <1> DEFINE R == OpToRel(<, Nat)
  <1>1. IsWellFoundedOn(R, Nat) BY NatLessThanWellFounded
  <1>2. \A x, y \in Nat : x < y => <<x, y>> \in R BY DEF OpToRel
  <1> HIDE DEF R
  <1>3. PICK m \in S : \A n \in S : ~(<<n, m>> \in R) BY <1>1, WFMin
  <1>4. m \in Nat /\ \A n \in S : n \in Nat /\ ~(n < m) BY <1>2, <1>3
  <1> QED BY <1>4

\* A table that is filled from its end: f[p] is made of f[p + 1] by step[p].
IsTable(f, X, n, base, step) ==
  /\ f \in [1..n + 1 -> SUBSET X]
  /\ \A p \in 1..n + 1 : f[p] = IF p > n THEN base ELSE step[p][f[p + 1]]

MakesTable(X, n, base, step) ==
  /\ n \in Nat
  /\ base \in SUBSET X
  /\ step \in [1..n -> [SUBSET X -> SUBSET X]]

LEMMA TableExists ==
  ASSUME NEW X, NEW n, NEW base, NEW step, MakesTable(X, n, base, step)
  PROVE  \E f : IsTable(f, X, n, base, step)
  <1> DEFINE Filled(k) ==
        \E f \in [1..n + 1 -> SUBSET X] :
          \A p \in 1..n + 1 :
            p >= k => f[p] = IF p > n THEN base ELSE step[p][f[p + 1]]
             Unfilled == {k \in Nat : k <= n /\ ~Filled(n + 1 - k)}
  <1>0. n \in Nat /\ base \in SUBSET X /\ step \in [1..n -> [SUBSET X -> SUBSET X]]
    BY DEF MakesTable
  <1>1. SUFFICES Unfilled = {}
    <2>1. n \in Nat /\ ~(n \in Unfilled) BY <1>0, <1>1
    <2>2. n + 1 - n = 1 BY <1>0
    <2>3. Filled(1) BY <2>1, <2>2
    <2> QED BY <2>3, <1>0 DEF IsTable
  <1>2. SUFFICES ASSUME Unfilled # {} PROVE FALSE
    OBVIOUS
  <1>3. PICK k \in Unfilled : \A l \in Unfilled : k <= l
    BY <1>2, LeastNumber
  <1>4. k \in Nat /\ k <= n /\ ~Filled(n + 1 - k) BY <1>3
  <1>5. k # 0
    <2>0. SUFFICES Filled(n + 1)
      <3>1. SUFFICES ASSUME k = 0 PROVE FALSE
        OBVIOUS
      <3>2. n + 1 - k = n + 1 BY <1>0, <3>1
      <3> QED BY <2>0, <3>2, <1>4
    <2> DEFINE f == [p \in 1..n + 1 |-> base]
    <2>1. f \in [1..n + 1 -> SUBSET X] BY <1>0
    <2>2. \A p \in 1..n + 1 : p >= n + 1 => p > n /\ f[p] = base BY <1>0
    <2> HIDE DEF f
    <2> QED BY <2>1, <2>2
  <1>6. k - 1 \in Nat /\ k - 1 <= n /\ ~(k <= k - 1) BY <1>0, <1>4, <1>5
  <1>7. Filled(n + 1 - (k - 1)) BY <1>3, <1>6
  <1> DEFINE q == n + 1 - k
  <1>8. q \in 1..n /\ q + 1 = n + 1 - (k - 1) /\ q + 1 \in 1..n + 1
    BY <1>0, <1>4, <1>5
  <1>9. Filled(q + 1) BY <1>7, <1>8
  <1>10. PICK f \in [1..n + 1 -> SUBSET X] :
           \A p \in 1..n + 1 :
             p >= q + 1 => f[p] = IF p > n THEN base ELSE step[p][f[p + 1]]
    BY <1>9
  <1> HIDE DEF q
  <1> DEFINE g == [p \in 1..n + 1 |-> IF p = q THEN step[q][f[q + 1]] ELSE f[p]]
  <1>11. f[q + 1] \in SUBSET X /\ step[q] \in [SUBSET X -> SUBSET X]
    BY <1>0, <1>8
  <1>12. g \in [1..n + 1 -> SUBSET X] BY <1>11
  <1>13. \A p \in 1..n + 1 : g[p] = IF p = q THEN step[q][f[q + 1]] ELSE f[p]
    OBVIOUS
  <1> HIDE DEF g
  <1>14. ASSUME NEW p \in 1..n + 1, p >= q
         PROVE  g[p] = IF p > n THEN base ELSE step[p][g[p + 1]]
    <2>1. CASE p = q
      <3>1. ~(p > n) /\ p + 1 # q /\ p + 1 \in 1..n + 1 BY <2>1, <1>0, <1>8
      <3>2. g[p + 1] = f[p + 1] BY <3>1, <1>13
      <3> QED BY <3>1, <3>2, <2>1, <1>13
    <2>2. CASE p # q
      <3>1. p >= q + 1 /\ p + 1 # q BY <2>2, <1>0, <1>8, <1>14
      <3>2. f[p] = IF p > n THEN base ELSE step[p][f[p + 1]] BY <3>1, <1>10
      <3>3. g[p] = f[p] BY <2>2, <1>13
      <3>4. ~(p > n) => g[p + 1] = f[p + 1]
        <4> SUFFICES ASSUME ~(p > n) PROVE g[p + 1] = f[p + 1]
          OBVIOUS
        <4>1. p + 1 \in 1..n + 1 BY <1>0
        <4> QED BY <4>1, <3>1, <1>13
      <3> QED BY <3>2, <3>3, <3>4
    <2> QED BY <2>1, <2>2
  <1>15. Filled(q) BY <1>12, <1>14
  <1> QED BY <1>15, <1>4 DEF q

\* The table of the pattern language is what its definition says.
IsWildTable(w, S, P) ==
  /\ w[Len(P) + 1] = {Len(S) + 1}
  /\ \A p \in 1..Len(P) :
       w[p] = IF P[p] = "*"
              THEN {s \in Places(S) : \E t \in w[p + 1] : s <= t}
              ELSE {s \in 1..Len(S) : P[p] = S[s] /\ s + 1 \in w[p + 1]}

LEMMA WildTable ==
  ASSUME NEW A, NEW S \in Seq(A), NEW B, NEW P \in Seq(B), NEW w,
         w = WildFrom(S, P)
  PROVE  IsWildTable(w, S, P)
  <1> DEFINE Body(f) == [p \in 1..Len(P) + 1 |->
               IF p > Len(P) THEN {Len(S) + 1}
               ELSE IF P[p] = "*"
               THEN {s \in Places(S) : \E t \in f[p + 1] : s <= t}
               ELSE {s \in 1..Len(S) : P[p] = S[s] /\ s + 1 \in f[p + 1]}]
             step == [p \in 1..Len(P) |-> [Y \in SUBSET Places(S) |->
               IF P[p] = "*"
               THEN {s \in Places(S) : \E t \in Y : s <= t}
               ELSE {s \in 1..Len(S) : P[p] = S[s] /\ s + 1 \in Y}]]
  <1>1. w = CHOOSE f : f = Body(f) BY DEF WildFrom
  <1>2. Len(P) \in Nat /\ Len(S) \in Nat BY LenProperties
  <1>3. {Len(S) + 1} \in SUBSET Places(S) BY <1>2 DEF Places
  <1>4. step \in [1..Len(P) -> [SUBSET Places(S) -> SUBSET Places(S)]]
    <2>1. 1..Len(S) \subseteq Places(S) BY <1>2 DEF Places
    <2> QED BY <2>1
  <1>5. \A p \in 1..Len(P), Y \in SUBSET Places(S) :
          step[p][Y] = IF P[p] = "*"
                       THEN {s \in Places(S) : \E t \in Y : s <= t}
                       ELSE {s \in 1..Len(S) : P[p] = S[s] /\ s + 1 \in Y}
    OBVIOUS
  <1> HIDE DEF step
  <1>6. PICK f \in [1..Len(P) + 1 -> SUBSET Places(S)] :
          \A p \in 1..Len(P) + 1 :
            f[p] = IF p > Len(P) THEN {Len(S) + 1} ELSE step[p][f[p + 1]]
    <2>1. PICK n \in Nat : n = Len(P) BY <1>2
    <2>2. PICK X : X = Places(S) OBVIOUS
    <2>3. PICK base : base = {Len(S) + 1} OBVIOUS
    <2>4. MakesTable(X, n, base, step)
      BY <1>3, <1>4, <2>1, <2>2, <2>3 DEF MakesTable
    <2>5. PICK f : IsTable(f, X, n, base, step) BY <2>4, TableExists
    <2>6. f \in [1..Len(P) + 1 -> SUBSET Places(S)]
      BY <2>1, <2>2, <2>5 DEF IsTable
    <2>7. \A p \in 1..Len(P) + 1 :
            f[p] = IF p > Len(P) THEN {Len(S) + 1} ELSE step[p][f[p + 1]]
      BY <2>1, <2>3, <2>5 DEF IsTable
    <2> QED BY <2>6, <2>7
  <1>7. f = Body(f)
    <2>1. \A p \in 1..Len(P) + 1 : ~(p > Len(P)) =>
            p \in 1..Len(P) /\ f[p + 1] \in SUBSET Places(S)
      BY <1>2, <1>6
    <2>2. ASSUME NEW p \in 1..Len(P) + 1 PROVE f[p] = Body(f)[p]
      <3>1. CASE p > Len(P) BY <3>1, <1>6
      <3>2. CASE ~(p > Len(P))
        <4>1. f[p] = step[p][f[p + 1]] BY <3>2, <1>6
        <4>2. p \in 1..Len(P) /\ f[p + 1] \in SUBSET Places(S) BY <2>1, <3>2
        <4>3. PICK Y \in SUBSET Places(S) : Y = f[p + 1] BY <4>2
        <4>4. step[p][Y] = IF P[p] = "*"
                           THEN {s \in Places(S) : \E t \in Y : s <= t}
                           ELSE {s \in 1..Len(S) : P[p] = S[s] /\ s + 1 \in Y}
          BY <4>2, <1>5
        <4> QED BY <4>1, <4>3, <4>4, <3>2
      <3> QED BY <3>1, <3>2
    <2> QED BY <2>2
  <1>8. w = Body(w) BY <1>1, <1>7
  <1>9. \A p \in 1..Len(P) + 1 :
          w[p] = IF p > Len(P) THEN {Len(S) + 1}
                 ELSE IF P[p] = "*"
                 THEN {s \in Places(S) : \E t \in w[p + 1] : s <= t}
                 ELSE {s \in 1..Len(S) : P[p] = S[s] /\ s + 1 \in w[p + 1]}
    BY <1>8
  <1>10. Len(P) + 1 \in 1..Len(P) + 1 /\ Len(P) + 1 > Len(P) BY <1>2
  <1>11. \A p \in 1..Len(P) : p \in 1..Len(P) + 1 /\ ~(p > Len(P)) BY <1>2
  <1>12. w[Len(P) + 1] = {Len(S) + 1} BY <1>9, <1>10
  <1>13. ASSUME NEW p \in 1..Len(P)
         PROVE  w[p] = IF P[p] = "*"
                       THEN {s \in Places(S) : \E t \in w[p + 1] : s <= t}
                       ELSE {s \in 1..Len(S) : P[p] = S[s] /\ s + 1 \in w[p + 1]}
    BY <1>9, <1>11
  <1> QED BY <1>12, <1>13 DEF IsWildTable

\* The table of the code is what its definition says.
IsMatchTable(m, S, P) ==
  /\ m[Len(P) + 1] = {x \in LoopPlaces(S) : x.s > Len(S)}
  /\ \A p \in 1..Len(P) :
       m[p] = IF P[p] = "*" /\ p = Len(P) THEN LoopPlaces(S)
              ELSE IF P[p] = "*"
              THEN {x \in LoopPlaces(S) :
                      \E t \in x.b..Len(S) : [b |-> t, s |-> t] \in m[p + 1]}
              ELSE {x \in LoopPlaces(S) :
                      /\ x.s <= Len(S)
                      /\ P[p] = S[x.s]
                      /\ [b |-> x.b, s |-> x.s + 1] \in m[p + 1]}

LEMMA MatchTable ==
  ASSUME NEW A, NEW S \in Seq(A), NEW B, NEW P \in Seq(B), NEW m,
         m = MatchFrom(S, P)
  PROVE  IsMatchTable(m, S, P)
  <1> DEFINE Row(p, Y) ==
               IF P[p] = "*" /\ p = Len(P) THEN LoopPlaces(S)
               ELSE IF P[p] = "*"
               THEN {x \in LoopPlaces(S) :
                       \E t \in x.b..Len(S) : [b |-> t, s |-> t] \in Y}
               ELSE {x \in LoopPlaces(S) :
                       /\ x.s <= Len(S)
                       /\ P[p] = S[x.s]
                       /\ [b |-> x.b, s |-> x.s + 1] \in Y}
             Over == {x \in LoopPlaces(S) : x.s > Len(S)}
             Body(f) == [p \in 1..Len(P) + 1 |->
                           IF p > Len(P) THEN Over ELSE Row(p, f[p + 1])]
             step == [p \in 1..Len(P) |->
                        [Y \in SUBSET LoopPlaces(S) |-> Row(p, Y)]]
  <1>1. m = CHOOSE f : f = Body(f) BY DEF MatchFrom
  <1>2. Len(P) \in Nat BY LenProperties
  <1>3. Over \in SUBSET LoopPlaces(S) OBVIOUS
  <1>4. \A p, Y : Row(p, Y) \in SUBSET LoopPlaces(S) OBVIOUS
  <1> HIDE DEF Over, Row
  <1>5. step \in [1..Len(P) -> [SUBSET LoopPlaces(S) -> SUBSET LoopPlaces(S)]]
    BY <1>4
  <1>6. \A p \in 1..Len(P), Y \in SUBSET LoopPlaces(S) : step[p][Y] = Row(p, Y)
    OBVIOUS
  <1> HIDE DEF step
  <1>7. MakesTable(LoopPlaces(S), Len(P), Over, step)
    BY <1>2, <1>3, <1>5 DEF MakesTable
  <1>8. PICK f : IsTable(f, LoopPlaces(S), Len(P), Over, step)
    BY <1>7, TableExists
  <1>9. f = Body(f)
    <2>1. f \in [1..Len(P) + 1 -> SUBSET LoopPlaces(S)] BY <1>8 DEF IsTable
    <2>2. ASSUME NEW p \in 1..Len(P) + 1 PROVE f[p] = Body(f)[p]
      <3>1. f[p] = IF p > Len(P) THEN Over ELSE step[p][f[p + 1]]
        BY <1>8 DEF IsTable
      <3>2. CASE p > Len(P) BY <3>1, <3>2
      <3>3. CASE ~(p > Len(P))
        <4>1. p \in 1..Len(P) /\ p + 1 \in 1..Len(P) + 1 BY <1>2, <3>3
        <4>2. f[p + 1] \in SUBSET LoopPlaces(S) BY <2>1, <4>1
        <4>3. step[p][f[p + 1]] = Row(p, f[p + 1]) BY <1>6, <4>1, <4>2
        <4> QED BY <3>1, <3>3, <4>3
      <3> QED BY <3>2, <3>3
    <2> QED BY <2>1, <2>2
  <1>10. m = Body(m) BY <1>1, <1>9
  <1>11. \A p \in 1..Len(P) + 1 :
           m[p] = IF p > Len(P) THEN Over ELSE Row(p, m[p + 1])
    BY <1>10
  <1>12. Len(P) + 1 \in 1..Len(P) + 1 /\ Len(P) + 1 > Len(P) BY <1>2
  <1>13. \A p \in 1..Len(P) : p \in 1..Len(P) + 1 /\ ~(p > Len(P)) BY <1>2
  <1>14. m[Len(P) + 1] = Over BY <1>11, <1>12
  <1>15. \A p \in 1..Len(P) : m[p] = Row(p, m[p + 1]) BY <1>11, <1>13
  <1> QED BY <1>14, <1>15 DEF Over, Row, IsMatchTable

\* What holds at the end, and before each place where it holds, holds from the
\* start.
LEMMA FromTheEnd ==
  ASSUME NEW n \in Nat, NEW G, n + 1 \in G, \A p \in 1..n : p + 1 \in G => p \in G
  PROVE  \A p \in 1..n + 1 : p \in G
  <1> DEFINE Others == {k \in Nat : k <= n /\ n + 1 - k \notin G}
  <1>1. Others = {}
    <2>1. SUFFICES ASSUME Others # {} PROVE FALSE
      OBVIOUS
    <2>2. PICK k \in Others : \A l \in Others : k <= l BY <2>1, LeastNumber
    <2>3. k \in Nat /\ k <= n /\ n + 1 - k \notin G BY <2>2
    <2>4. k # 0
      <3>1. SUFFICES ASSUME k = 0 PROVE FALSE
        OBVIOUS
      <3>2. n + 1 - k = n + 1 BY <3>1
      <3> QED BY <3>2, <2>3
    <2>5. k - 1 \in Nat /\ k - 1 <= n /\ ~(k <= k - 1) BY <2>3, <2>4
    <2>6. n + 1 - (k - 1) \in G BY <2>2, <2>5
    <2>7. n + 1 - k \in 1..n /\ (n + 1 - k) + 1 = n + 1 - (k - 1)
      BY <2>3, <2>4
    <2>8. PICK p \in 1..n : p = n + 1 - k /\ p + 1 = n + 1 - (k - 1) BY <2>7
    <2>9. p + 1 \in G BY <2>6, <2>8
    <2>10. p \in G BY <2>9
    <2>11. p \notin G BY <2>3, <2>8
    <2> QED BY <2>10, <2>11
  <1>2. ASSUME NEW p \in 1..n + 1 PROVE p \in G
    <2>1. PICK k \in Nat : k = n + 1 - p /\ k <= n /\ n + 1 - k = p
      OBVIOUS
    <2>2. k \notin Others BY <1>1
    <2> QED BY <2>1, <2>2
  <1> QED BY <1>2

\* A non-empty text that matches the pattern is never missed: also where a star
\* only stands for what is left, for the code can leave out less.
LEMMA MatchMissesNothing ==
  ASSUME NEW A, NEW S \in Seq(A), NEW B, NEW P \in Seq(B), S # <<>>, Wild(S, P)
  PROVE  rocsmq_message_match(S, P)
  <1> DEFINE n == Len(P)
             l == Len(S)
  <1>1. n \in Nat /\ l \in Nat \ {0} BY LenProperties, EmptySeq
  <1>2. PICK w : w = WildFrom(S, P) OBVIOUS
  <1>3. PICK m : m = MatchFrom(S, P) OBVIOUS
  <1>4. /\ w[n + 1] = {l + 1}
        /\ \A p \in 1..n :
             w[p] = IF P[p] = "*"
                    THEN {s \in Places(S) : \E t \in w[p + 1] : s <= t}
                    ELSE {s \in 1..l : P[p] = S[s] /\ s + 1 \in w[p + 1]}
    <2>1. IsWildTable(w, S, P) BY <1>2, WildTable
    <2> QED BY <2>1 DEF IsWildTable
  <1>5. /\ m[n + 1] = {x \in LoopPlaces(S) : x.s > l}
        /\ \A p \in 1..n :
             m[p] = IF P[p] = "*" /\ p = n THEN LoopPlaces(S)
                    ELSE IF P[p] = "*"
                    THEN {x \in LoopPlaces(S) :
                            \E t \in x.b..l : [b |-> t, s |-> t] \in m[p + 1]}
                    ELSE {x \in LoopPlaces(S) :
                            /\ x.s <= l
                            /\ P[p] = S[x.s]
                            /\ [b |-> x.b, s |-> x.s + 1] \in m[p + 1]}
    <2>1. IsMatchTable(m, S, P) BY <1>3, MatchTable
    <2> QED BY <2>1 DEF IsMatchTable
  <1>6. Places(S) = 1..l + 1 BY DEF Places
  <1> HIDE DEF n, l
  <1>7. \A x, y \in 1..l + 1 : [b |-> x, s |-> y] \in LoopPlaces(S)
    BY <1>6 DEF LoopPlaces
  <1> DEFINE AllStars(p) ==
        p <= n /\ l + 1 \in w[p] =>
          \A x, y \in 1..l + 1 : x <= l => [b |-> x, s |-> y] \in m[p]
             NoneMissed(p) ==
        /\ w[p] \subseteq 1..l + 1
        /\ \A y \in w[p], x \in 1..l : x <= y => [b |-> x, s |-> y] \in m[p]
             Good == {p \in 1..n + 1 : AllStars(p) /\ NoneMissed(p)}
  <1>8. n + 1 \in Good
    <2>1. w[n + 1] = {l + 1} BY <1>4
    <2>2. m[n + 1] = {x \in LoopPlaces(S) : x.s > l} BY <1>5
    <2>3. \A x \in 1..l : [b |-> x, s |-> l + 1] \in m[n + 1]
      BY <2>2, <1>1, <1>7
    <2>4. NoneMissed(n + 1) BY <2>1, <2>3, <1>1
    <2>5. AllStars(n + 1) BY <1>1
    <2>6. n + 1 \in 1..n + 1 BY <1>1
    <2> HIDE DEF AllStars, NoneMissed
    <2> QED BY <2>4, <2>5, <2>6
  <1>9. ASSUME NEW p \in 1..n, p + 1 \in Good PROVE p \in Good
    <2>1. AllStars(p + 1) /\ NoneMissed(p + 1) BY <1>9
    <2>2. /\ w[p] = IF P[p] = "*"
                    THEN {s \in Places(S) : \E t \in w[p + 1] : s <= t}
                    ELSE {s \in 1..l : P[p] = S[s] /\ s + 1 \in w[p + 1]}
          /\ m[p] = IF P[p] = "*" /\ p = n THEN LoopPlaces(S)
                    ELSE IF P[p] = "*"
                    THEN {x \in LoopPlaces(S) :
                            \E t \in x.b..l : [b |-> t, s |-> t] \in m[p + 1]}
                    ELSE {x \in LoopPlaces(S) :
                            /\ x.s <= l
                            /\ P[p] = S[x.s]
                            /\ [b |-> x.b, s |-> x.s + 1] \in m[p + 1]}
      BY <1>4, <1>5
    <2>3. w[p] \subseteq 1..l + 1 BY <2>2, <1>1, <1>6
    <2>4. ASSUME P[p] = "*", p # n, l + 1 \in w[p + 1],
                 NEW x \in 1..l + 1, NEW y \in 1..l + 1, x <= l
          PROVE  [b |-> x, s |-> y] \in m[p]
      <3>1. p + 1 <= n /\ l \in 1..l + 1 /\ l \in x..l BY <2>4, <1>1
      <3>2. [b |-> l, s |-> l] \in m[p + 1] BY <3>1, <2>1, <2>4, <1>1
      <3>3. m[p] = {z \in LoopPlaces(S) :
                      \E t \in z.b..l : [b |-> t, s |-> t] \in m[p + 1]}
        BY <2>2, <2>4
      <3>4. [b |-> x, s |-> y] \in LoopPlaces(S) BY <1>7
      <3> QED BY <3>1, <3>2, <3>3, <3>4
    <2>5. AllStars(p)
      <3> SUFFICES ASSUME l + 1 \in w[p], NEW x \in 1..l + 1, NEW y \in 1..l + 1,
                          x <= l
                   PROVE  [b |-> x, s |-> y] \in m[p]
        OBVIOUS
      <3>1. P[p] = "*" BY <2>2, <1>1
      <3>2. CASE p = n BY <3>1, <3>2, <2>2, <1>7
      <3>3. CASE p # n
        <4>1. PICK t \in w[p + 1] : l + 1 <= t BY <3>1, <2>2
        <4>2. t = l + 1 BY <4>1, <2>1, <1>1
        <4> QED BY <4>1, <4>2, <3>1, <3>3, <2>4
      <3> QED BY <3>2, <3>3
    <2>6. ASSUME NEW y \in w[p], NEW x \in 1..l, x <= y
          PROVE  [b |-> x, s |-> y] \in m[p]
      <3>1. y \in 1..l + 1 /\ x \in 1..l + 1 BY <2>3, <1>1
      <3>2. [b |-> x, s |-> y] \in LoopPlaces(S) BY <3>1, <1>7
      <3>3. CASE P[p] = "*" /\ p = n BY <3>2, <3>3, <2>2
      <3>4. CASE P[p] = "*" /\ p # n
        <4>1. PICK t \in w[p + 1] : y <= t BY <3>4, <2>2
        <4>2. t \in 1..l + 1 BY <4>1, <2>1
        <4>3. CASE t = l + 1 BY <4>1, <4>3, <3>1, <3>4, <2>4, <2>6, <1>1
        <4>4. CASE t # l + 1
          <5>1. t \in 1..l /\ t \in x..l BY <4>1, <4>2, <4>4, <2>6, <3>1, <1>1
          <5>2. [b |-> t, s |-> t] \in m[p + 1] BY <4>1, <5>1, <2>1
          <5>3. m[p] = {z \in LoopPlaces(S) :
                          \E u \in z.b..l : [b |-> u, s |-> u] \in m[p + 1]}
            BY <2>2, <3>4
          <5> QED BY <5>1, <5>2, <5>3, <3>2
        <4> QED BY <4>3, <4>4
      <3>5. CASE P[p] # "*"
        <4>1. y \in 1..l /\ P[p] = S[y] /\ y + 1 \in w[p + 1] BY <3>5, <2>2
        <4>2. x <= y + 1 BY <4>1, <2>6, <1>1
        <4>3. [b |-> x, s |-> y + 1] \in m[p + 1] BY <4>1, <4>2, <2>1
        <4>4. y <= l BY <4>1, <1>1
        <4> QED BY <4>1, <4>3, <4>4, <3>2, <3>5, <2>2
      <3> QED BY <3>3, <3>4, <3>5
    <2>7. p \in 1..n + 1 BY <1>1
    <2>8. NoneMissed(p) BY <2>3, <2>6
    <2> HIDE DEF AllStars, NoneMissed
    <2> QED BY <2>5, <2>7, <2>8
  <1>10. \A p \in 1..n + 1 : p \in Good
    <2> HIDE DEF Good
    <2>1. \A p \in 1..n : p + 1 \in Good => p \in Good BY <1>9
    <2> QED BY <2>1, <1>1, <1>8, FromTheEnd
  <1>11. NoneMissed(1)
    <2>1. 1 \in Good BY <1>1, <1>10
    <2> HIDE DEF NoneMissed, AllStars
    <2> QED BY <2>1
  <1>12. 1 \in w[1] BY <1>2 DEF Wild
  <1>13. 1 \in 1..l BY <1>1
  <1>14. [b |-> 1, s |-> 1] \in m[1] BY <1>11, <1>12, <1>13
  <1> QED BY <1>3, <1>14 DEF rocsmq_message_match

\* No star stands behind some text and before some more.
NoStarInside(P) ==
  \A p \in 2..Len(P) - 1 : P[p] = "*" => P[p - 1] = "*"

\* Where all stars are at the start or at the end, what the code takes for a
\* match is one: there it never goes back to a text it has passed.
LEMMA MatchIsNoMore ==
  ASSUME NEW A, NEW S \in Seq(A), NEW B, NEW P \in Seq(B), NoStarInside(P),
         rocsmq_message_match(S, P)
  PROVE  Wild(S, P)
  <1> DEFINE n == Len(P)
             l == Len(S)
  <1>1. n \in Nat /\ l \in Nat BY LenProperties
  <1>2. PICK w : w = WildFrom(S, P) OBVIOUS
  <1>3. PICK m : m = MatchFrom(S, P) OBVIOUS
  <1>4. /\ w[n + 1] = {l + 1}
        /\ \A p \in 1..n :
             w[p] = IF P[p] = "*"
                    THEN {s \in Places(S) : \E t \in w[p + 1] : s <= t}
                    ELSE {s \in 1..l : P[p] = S[s] /\ s + 1 \in w[p + 1]}
    <2>1. IsWildTable(w, S, P) BY <1>2, WildTable
    <2> QED BY <2>1 DEF IsWildTable
  <1>5. /\ m[n + 1] = {x \in LoopPlaces(S) : x.s > l}
        /\ \A p \in 1..n :
             m[p] = IF P[p] = "*" /\ p = n THEN LoopPlaces(S)
                    ELSE IF P[p] = "*"
                    THEN {x \in LoopPlaces(S) :
                            \E t \in x.b..l : [b |-> t, s |-> t] \in m[p + 1]}
                    ELSE {x \in LoopPlaces(S) :
                            /\ x.s <= l
                            /\ P[p] = S[x.s]
                            /\ [b |-> x.b, s |-> x.s + 1] \in m[p + 1]}
    <2>1. IsMatchTable(m, S, P) BY <1>3, MatchTable
    <2> QED BY <2>1 DEF IsMatchTable
  <1>6. Places(S) = 1..l + 1 BY DEF Places
  <1>0. \A p \in 2..n - 1 : P[p] = "*" => P[p - 1] = "*" BY DEF NoStarInside
  <1> HIDE DEF n, l
  <1>7. \A x, y : [b |-> x, s |-> y] \in LoopPlaces(S) =>
                    x \in 1..l + 1 /\ y \in 1..l + 1
    BY <1>6 DEF LoopPlaces
  <1> DEFINE BehindText(p) == p # 1 /\ P[p - 1] # "*"
             Sound(p) ==
        \A x, y \in 1..l + 1 :
          [b |-> x, s |-> y] \in m[p] /\ (x = y \/ BehindText(p)) => y \in w[p]
             Good == {p \in 1..n + 1 : Sound(p)}
  <1>8. n + 1 \in Good
    <2>1. n + 1 \in 1..n + 1 BY <1>1
    <2>2. \A x, y \in 1..l + 1 : [b |-> x, s |-> y] \in m[n + 1] => y = l + 1
      BY <1>1, <1>5
    <2>3. l + 1 \in w[n + 1] BY <1>4
    <2>4. Sound(n + 1) BY <2>2, <2>3
    <2> HIDE DEF Sound
    <2> QED BY <2>1, <2>4
  <1>9. ASSUME NEW p \in 1..n, p + 1 \in Good PROVE p \in Good
    <2>1. Sound(p + 1) BY <1>9
    <2>2. /\ w[p] = IF P[p] = "*"
                    THEN {s \in Places(S) : \E t \in w[p + 1] : s <= t}
                    ELSE {s \in 1..l : P[p] = S[s] /\ s + 1 \in w[p + 1]}
          /\ m[p] = IF P[p] = "*" /\ p = n THEN LoopPlaces(S)
                    ELSE IF P[p] = "*"
                    THEN {x \in LoopPlaces(S) :
                            \E t \in x.b..l : [b |-> t, s |-> t] \in m[p + 1]}
                    ELSE {x \in LoopPlaces(S) :
                            /\ x.s <= l
                            /\ P[p] = S[x.s]
                            /\ [b |-> x.b, s |-> x.s + 1] \in m[p + 1]}
      BY <1>4, <1>5
    <2>3. ASSUME NEW x \in 1..l + 1, NEW y \in 1..l + 1,
                 [b |-> x, s |-> y] \in m[p], x = y \/ BehindText(p)
          PROVE  y \in w[p]
      <3>1. CASE P[p] = "*" /\ p = n
        <4>1. l + 1 \in w[p + 1] BY <3>1, <1>4
        <4>2. y <= l + 1 BY <1>1
        <4> QED BY <4>1, <4>2, <3>1, <2>2, <1>6
      <3>2. CASE P[p] = "*" /\ p # n
        <4>1. x = y
          <5>1. SUFFICES ASSUME p # 1 PROVE P[p - 1] = "*"
            BY <2>3
          <5>2. p \in 2..n - 1 BY <5>1, <3>2, <1>1
          <5> QED BY <5>2, <3>2, <1>0
        <4>2. m[p] = {z \in LoopPlaces(S) :
                        \E t \in z.b..l : [b |-> t, s |-> t] \in m[p + 1]}
          BY <3>2, <2>2
        <4>3. PICK t \in x..l : [b |-> t, s |-> t] \in m[p + 1]
          BY <4>2, <2>3
        <4>4. t \in 1..l + 1 /\ y <= t BY <4>1, <1>1
        <4>5. t \in w[p + 1] BY <4>3, <4>4, <2>1
        <4> QED BY <4>4, <4>5, <3>2, <2>2, <1>6
      <3>3. CASE P[p] # "*"
        <4>1. m[p] = {z \in LoopPlaces(S) :
                        /\ z.s <= l
                        /\ P[p] = S[z.s]
                        /\ [b |-> z.b, s |-> z.s + 1] \in m[p + 1]}
          BY <3>3, <2>2
        <4>2. y <= l /\ P[p] = S[y] /\ [b |-> x, s |-> y + 1] \in m[p + 1]
          BY <4>1, <2>3
        <4>3. y \in 1..l /\ y + 1 \in 1..l + 1 BY <4>2, <1>1
        <4>4. BehindText(p + 1)
          <5>1. p + 1 # 1 /\ (p + 1) - 1 = p BY <1>1
          <5> QED BY <5>1, <3>3
        <4>5. y + 1 \in w[p + 1] BY <4>2, <4>3, <4>4, <2>1
        <4> QED BY <4>2, <4>3, <4>5, <3>3, <2>2
      <3> QED BY <3>1, <3>2, <3>3
    <2>4. Sound(p) BY <2>3
    <2>5. p \in 1..n + 1 BY <1>1
    <2> HIDE DEF Sound
    <2> QED BY <2>4, <2>5
  <1>10. \A p \in 1..n + 1 : p \in Good
    <2> HIDE DEF Good
    <2>1. \A p \in 1..n : p + 1 \in Good => p \in Good BY <1>9
    <2> QED BY <2>1, <1>1, <1>8, FromTheEnd
  <1>11. Sound(1)
    <2>1. 1 \in Good BY <1>1, <1>10
    <2> HIDE DEF Sound
    <2> QED BY <2>1
  <1>12. [b |-> 1, s |-> 1] \in m[1] BY <1>3 DEF rocsmq_message_match
  <1>13. 1 \in 1..l + 1 BY <1>1
  <1>14. 1 \in w[1] BY <1>11, <1>12, <1>13
  <1> QED BY <1>2, <1>14 DEF Wild

\* What is compared, and what the answer was.
MatchInv ==
  /\ \E A : subject \in Seq(A)
  /\ \E B : pattern \in Seq(B)
  /\ matched <=> rocsmq_message_match(subject, pattern)

\* At the start nothing is compared: the empty text matches the empty pattern.
LEMMA MatchInitInv == MatchInit => MatchInv
  <1> SUFFICES ASSUME MatchInit PROVE MatchInv
    OBVIOUS
  <1>1. <<>> \in Seq({}) /\ Len(<<>>) = 0 BY EmptySeq
  <1>2. PICK m : m = MatchFrom(<<>>, <<>>) OBVIOUS
  <1>3. IsMatchTable(m, <<>>, <<>>) BY <1>1, <1>2, MatchTable
  <1>4. m[1] = {x \in LoopPlaces(<<>>) : x.s > 0}
    <2>1. Len(<<>>) + 1 = 1 BY <1>1
    <2>2. m[Len(<<>>) + 1] = {x \in LoopPlaces(<<>>) : x.s > Len(<<>>)}
      BY <1>3 DEF IsMatchTable
    <2> QED BY <2>1, <2>2, <1>1
  <1>5. [b |-> 1, s |-> 1] \in LoopPlaces(<<>>)
    <2>1. 1 \in Places(<<>>) BY <1>1 DEF Places
    <2> QED BY <2>1 DEF LoopPlaces
  <1>6. rocsmq_message_match(<<>>, <<>>)
    BY <1>2, <1>4, <1>5 DEF rocsmq_message_match
  <1> QED BY <1>1, <1>6 DEF MatchInit, MatchInv

\* A text of a bounded length is a sequence.
LEMMA TextsAreSequences ==
  ASSUME NEW A, NEW k, NEW t \in Texts(A, k), k \in Nat
  PROVE  t \in Seq(A)
  BY DEF Texts

\* The comparison answers what the function answers.
LEMMA MatchStepInv == MatchInv /\ [MatchNext]_matchVars => MatchInv'
  <1> SUFFICES ASSUME MatchInv, [MatchNext]_matchVars PROVE MatchInv'
    OBVIOUS
  <1>1. CASE Compare
    <2>1. subject' \in Seq(Letters) /\ pattern' \in Seq(Letters \union {"*"})
      BY <1>1, TextsAreSequences, MatchAssumption DEF Compare
    <2>2. matched' = rocsmq_message_match(subject', pattern') BY <1>1 DEF Compare
    <2> QED BY <2>1, <2>2 DEF MatchInv
  <1>2. CASE UNCHANGED matchVars BY <1>2 DEF MatchInv, matchVars
  <1> QED BY <1>1, <1>2 DEF MatchNext

\* For texts and patterns of any length over any letters: the code misses no
\* text but the empty one, and takes for a match what is none only when a star
\* stands inside the pattern, behind some text and before some more.
THEOREM MatchCorrect == MatchSpec => []MatchIsExact
  <1>1. MatchInv => MatchIsExact
    <2> SUFFICES ASSUME MatchInv PROVE MatchIsExact
      OBVIOUS
    <2>1. PICK A : subject \in Seq(A) BY DEF MatchInv
    <2>2. PICK B : pattern \in Seq(B) BY DEF MatchInv
    <2>3. Wild(subject, pattern) /\ subject # <<>> => matched
      BY <2>1, <2>2, MatchMissesNothing DEF MatchInv
    <2>4. matched /\ ~StarInside => Wild(subject, pattern)
      <3>1. ~StarInside => NoStarInside(pattern)
        BY DEF StarInside, NoStarInside
      <3> QED BY <3>1, <2>1, <2>2, MatchIsNoMore DEF MatchInv
    <2> QED BY <2>3, <2>4 DEF MatchIsExact
  <1> QED BY MatchInitInv, MatchStepInv, <1>1, PTL DEF MatchSpec

-----------------------------------------------------------------------------
(***************************************************************************)
(* The sum of the components.  A step is one of the component that was     *)
(* chosen and leaves the variables of the others alone.                    *)
(***************************************************************************)
LEMMA EachBegins ==
  Init => /\ MatchInit /\ GpioInit /\ CanInit /\ TtyInit /\ SpeechInit
          /\ SphinxInit /\ LuaInit /\ BridgeInit /\ CliInit /\ MainInit
  BY DEF Init

LEMMA StepOfOne ==
  ASSUME [Next]_vars
  PROVE  /\ [MatchNext]_matchVars /\ [GpioNext]_gpioVars /\ [CanNext]_canVars
         /\ [TtyNext]_ttyVars /\ [SpeechNext]_speechVars
         /\ [SphinxNext]_sphinxVars /\ [LuaNext]_luaVars
         /\ [BridgeNext]_bridgeVars /\ [CliNext]_cliVars /\ [MainNext]_mainVars
<1>1. CASE UNCHANGED vars
  BY <1>1 DEF vars
<1>2. CASE MatchStep
  BY <1>2 DEF MatchStep
<1>3. CASE GpioStep
  BY <1>3 DEF GpioStep
<1>4. CASE CanStep
  BY <1>4 DEF CanStep
<1>5. CASE TtyStep
  BY <1>5 DEF TtyStep
<1>6. CASE SpeechStep
  BY <1>6 DEF SpeechStep
<1>7. CASE SphinxStep
  BY <1>7 DEF SphinxStep
<1>8. CASE LuaStep
  BY <1>8 DEF LuaStep
<1>9. CASE BridgeStep
  BY <1>9 DEF BridgeStep
<1>10. CASE CliStep
  BY <1>10 DEF CliStep
<1>11. CASE MainStep
  BY <1>11 DEF MainStep
<1> QED BY <1>1, <1>2, <1>3, <1>4, <1>5, <1>6, <1>7, <1>8, <1>9, <1>10, <1>11
        DEF Next

\* Every component, seen alone, runs as its own specification says.
THEOREM EachComponentRuns ==
  Spec => /\ MatchSpec /\ GpioSpec /\ CanSpec /\ TtySpec /\ SpeechSpec
          /\ SphinxSpec /\ LuaSpec /\ BridgeSpec /\ CliSpec /\ MainSpec
  BY EachBegins, StepOfOne, PTL
     DEF Spec, MatchSpec, GpioSpec, CanSpec, TtySpec, SpeechSpec, SphinxSpec,
         LuaSpec, BridgeSpec, CliSpec, MainSpec

\* The type invariant of all components.
THEOREM ComponentsTypeCorrect == Spec => []ComponentsTypeOK
<1>1. /\ GpioTypeOK /\ CanTypeOK /\ TtyTypeOK /\ SpeechTypeOK /\ SphinxTypeOK
      /\ LuaTypeOK /\ BridgeTypeOK /\ CliTypeOK /\ MainTypeOK
      => ComponentsTypeOK
  BY DEF ComponentsTypeOK
<1> QED BY <1>1, EachComponentRuns, GpioTypeCorrect, CanTypeCorrect, TtyTypeCorrect,
           SpeechTypeCorrect, SphinxTypeCorrect, LuaTypeCorrect,
           BridgeTypeCorrect, CliTypeCorrect, MainTypeCorrect, PTL

\* What is proved of the components holds in any behaviour of the sum, the
\* component that runs being any of them.
THEOREM ComponentsCorrect ==
  Spec => /\ []MatchIsExact
          /\ [](InhibitionCounts /\ AnswersGrow)
          /\ []MapOnlyGrows
          /\ []TextsKeepOldEnds
          /\ []OnlyTheLastTextIsCut
          /\ []OneTextTooMany
          /\ SphinxStopsTheServer
          /\ []TheLastLoadedRuns
          /\ KeepsOneKey
          /\ [](PublishedOnce /\ ForwardedInOrder)
          /\ []OnlySingleModeSends
          /\ [](OneCanBeStopped /\ OnlyEarlySignalsDeafen /\ OrderlyEnds)
  BY EachComponentRuns, MatchCorrect, InhibitionCorrect, AnswersCorrect, MapGrows,
     TextsKeep, CancelCutsTheLast, OneTextWaits, BusStops, LastLoadedRuns,
     StoreImplemented, PublishedOnceCorrect, ForwardedInOrderCorrect,
     OnlySingleSends, OneStopped, DeafOnlyEarly, EndsOrderly, PTL
=============================================================================
