---------------------------- MODULE MCRocsServer ----------------------------
(***************************************************************************)
(* Small instances of RocsServer for TLC.                                  *)
(***************************************************************************)
EXTENDS RocsServer, TLC

CONSTANTS c1, c2, c3, empty, motor

(***************************************************************************)
(* The filters of the components' configurations: "*" (every id, the empty *)
(* one too), one id, and the empty string.                                 *)
(***************************************************************************)
MCIds == {empty, motor}

AcceptsOf(f) == CASE f = "*" -> MCIds [] f = "motor" -> {motor} [] f = "" -> {}

AllFilters == {"*", "motor", ""}
AllAccepts == [f \in AllFilters |-> AcceptsOf(f)]

OneId == {empty}
StarFilters == {"*", ""}
StarAccepts == [f \in StarFilters |-> IF f = "*" THEN OneId ELSE {}]

NoSignals == {}
TermSignal == {"TERM"}
AllSignals == {"TERM", "HUP"}

Symmetry == Permutations(Clients)
=============================================================================
