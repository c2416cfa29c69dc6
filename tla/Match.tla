------------------------------- MODULE Match --------------------------------
(***************************************************************************)
(* rocsmq_message_match of rocsmq/src/rocsmq.c, with which the server      *)
(* filters messages, gpio finds pins by name and the lua client finds the  *)
(* scripts to run, against the pattern language it stands for: a star is   *)
(* any text.                                                               *)
(***************************************************************************)
EXTENDS Naturals, Sequences

CONSTANTS
  Letters,     \* the characters other than the star
  MaxSubject,  \* bound: length of a subject
  MaxPattern   \* bound: length of a pattern

ASSUME MatchAssumption ==
  /\ "*" \notin Letters
  /\ MaxSubject \in Nat
  /\ MaxPattern \in Nat

VARIABLES
  subject,  \* the text compared last
  pattern,  \* the pattern it was compared with
  matched   \* what rocsmq_message_match answered

matchVars == <<subject, pattern, matched>>

Texts(S, n) == UNION {[1..k -> S] : k \in 0..n}

\* The places in a text, the one behind its end among them.
Places(S) == 1..Len(S) + 1

\* wildFrom[p]: the places from where on S matches P from character p on, a
\* star standing for any text.
WildFrom(S, P) ==
  LET wildFrom[p \in 1..Len(P) + 1] ==
        IF p > Len(P) THEN {Len(S) + 1}
        ELSE IF P[p] = "*"
        THEN {s \in Places(S) : \E t \in wildFrom[p + 1] : s <= t}
        ELSE {s \in 1..Len(S) : P[p] = S[s] /\ s + 1 \in wildFrom[p + 1]}
  IN wildFrom

Wild(S, P) == 1 \in WildFrom(S, P)[1]

-----------------------------------------------------------------------------
\* Where the loop stands in the subject: s, called with the subject from b on.
LoopPlaces(S) == [b : Places(S), s : Places(S)]

\* Defect: a star does not match the text up to the end.
match_shortly(S, P) ==
  LET matchFrom[p \in 1..Len(P) + 1] ==
        IF p > Len(P) THEN {x \in LoopPlaces(S) : x.s > Len(S)}
        ELSE IF P[p] = "*"
        THEN {x \in LoopPlaces(S) :
                \E t \in x.s..Len(S) : [b |-> t, s |-> t] \in matchFrom[p + 1]}
        ELSE {x \in LoopPlaces(S) :
                /\ x.s <= Len(S)
                /\ P[p] = S[x.s]
                /\ [b |-> x.b, s |-> x.s + 1] \in matchFrom[p + 1]}
  IN [b |-> 1, s |-> 1] \in matchFrom[1]

\* matchFrom[p]: where the loop can stand, at character p, to answer TRUE.  A
\* star in the middle tries every rest of the subject from b on, not from s,
\* and not the empty one.
MatchFrom(S, P) ==
  LET matchFrom[p \in 1..Len(P) + 1] ==
        IF p > Len(P) THEN {x \in LoopPlaces(S) : x.s > Len(S)}
        ELSE IF P[p] = "*" /\ p = Len(P) THEN LoopPlaces(S)
        ELSE IF P[p] = "*"
        THEN {x \in LoopPlaces(S) :
                \E t \in x.b..Len(S) : [b |-> t, s |-> t] \in matchFrom[p + 1]}
        ELSE {x \in LoopPlaces(S) :
                /\ x.s <= Len(S)
                /\ P[p] = S[x.s]
                /\ [b |-> x.b, s |-> x.s + 1] \in matchFrom[p + 1]}
  IN matchFrom

rocsmq_message_match(S, P) == [b |-> 1, s |-> 1] \in MatchFrom(S, P)[1]

MatchInit ==
  /\ subject = <<>>
  /\ pattern = <<>>
  /\ matched = TRUE

Compare ==
  /\ subject = <<>>
  /\ pattern = <<>>
  /\ subject' \in Texts(Letters, MaxSubject)
  /\ pattern' \in Texts(Letters \union {"*"}, MaxPattern)
  /\ matched' = rocsmq_message_match(subject', pattern')

MatchNext == Compare

MatchSpec == MatchInit /\ [][MatchNext]_matchVars

-----------------------------------------------------------------------------
\* A star stands behind some text and before some more.
StarInside ==
  \E p \in 2..Len(pattern) - 1 : pattern[p] = "*" /\ pattern[p - 1] # "*"

\* No text is missed but the empty one, which a star in the middle does not
\* match; a text is taken for a match that is none only when the pattern has
\* text before a star that is not its last character: the match then goes back
\* to that text (rocsmq.c:152), so "a*a" matches "a".
MatchIsExact ==
  /\ Wild(subject, pattern) => matched \/ subject = <<>>
  /\ matched /\ ~Wild(subject, pattern) => StarInside
=============================================================================
