------------------------------- MODULE MCDoor -------------------------------
(* Door for TLC: a program's port and the host's, submissions numbered up  *)
(* to a bound.                                                             *)
EXTENDS Door

CONSTANT MaxSubmissions  \* submissions pushed in one behaviour

MCTags == {[port |-> 0, id |-> 0], [port |-> 1, id |-> 0]}

MCNext == Next /\ Len(book') <= MaxSubmissions
MCSpec == Init /\ [][MCNext]_doorVars
=============================================================================
