----------------------------- MODULE MCDoorbell -----------------------------
(* Doorbell for TLC: submissions numbered up to a bound, calls included.   *)
EXTENDS Doorbell

CONSTANTS
  MaxSubmissions,  \* submissions pushed in one behaviour
  MaxCalls         \* the last id a call takes

MCTags == [port : Ports, id : 0 .. IdMod - 1]

\* A submission starts only where it can still be numbered.
MCNext ==
  /\ BellNext
  /\ Len(book') + (IF task' # None THEN 1 ELSE 0) <= MaxSubmissions
  /\ nextCall' <= MaxCalls

MCSpec == BellInit /\ [][MCNext]_bellVars
MCFairSpec == MCSpec /\ BellFairness
=============================================================================
