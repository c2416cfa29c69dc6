---------------------------- MODULE OneKeyStore -----------------------------
(***************************************************************************)
(* What the data base of the lua client comes to: it holds the key that    *)
(* was persisted last, and nothing else, and a crash may empty it.         *)
(***************************************************************************)
CONSTANTS Keys, Values, NoAnswer

VARIABLES
  stored,  \* {} or the one [key, value] there is
  answer   \* what the last retrieve answered

StoreInit == stored = {} /\ answer = NoAnswer

Persist ==
  /\ \E k \in Keys, v \in Values : stored' = {[key |-> k, value |-> v]}
  /\ UNCHANGED answer

Retrieve ==
  /\ \E k \in Keys :
       answer' = IF \E s \in stored : s.key = k
                 THEN (CHOOSE s \in stored : s.key = k).value ELSE NoAnswer
  /\ UNCHANGED stored

Crash == stored' \in {stored, {}} /\ UNCHANGED answer

StoreSpec ==
  StoreInit /\ [][Persist \/ Retrieve \/ Crash]_<<stored, answer>>
=============================================================================
