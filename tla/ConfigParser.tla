---------------------------- MODULE ConfigParser ----------------------------
(***************************************************************************)
(* How rocsmq/src/configparser.c reads the keys of a json object.  All     *)
(* components read their configuration and the orders they get with it.    *)
(*                                                                         *)
(* A value an object may hold is a set: {} when the key is missing or of   *)
(* another type, {v} when it holds v.  No getter touches its target when   *)
(* the key is missing, so the target goes on with what it held; a local    *)
(* variable that nothing was assigned to holds anything.                   *)
(***************************************************************************)
EXTENDS Integers

\* get_intval, get_boolval, get_doubleval and get_stringval: the target, which
\* held old, afterwards.  Callers ignore the result.
get_val(old, object) ==
  IF object = {} THEN old ELSE CHOOSE v \in object : TRUE

\* log_getlevel: the number of a level, or -1.
log_getlevel(level) ==
  CASE level = "DEBUG" -> 0
    [] level = "INFO" -> 1
    [] level = "WARNING" -> 2
    [] level = "ERROR" -> 3
    [] OTHER -> -1

\* parseconfig: a file that is missing or is no json leaves the defaults of the
\* program, file is {} then.  A json without a log level makes it -1.
parseconfig(defaults, file) ==
  IF file = {} THEN defaults
  ELSE LET json == CHOOSE f \in file : TRUE
       IN [rundaemon |-> get_val(defaults.rundaemon, json.rundaemon),
           loglevel |-> log_getlevel(get_val("", json.loglevel))]
=============================================================================
