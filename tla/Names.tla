-------------------------------- MODULE Names --------------------------------
(***************************************************************************)
(* What a handle table promises its program: a bounded set of names, each  *)
(* for one value while it is held, any name not held being as good as      *)
(* another.  A transaction's rollback gives back the names taken since it  *)
(* began and still held: not those given back, nor those taken before.     *)
(***************************************************************************)
EXTENDS Naturals, FiniteSets

CONSTANTS
  MostHeld,  \* names held at once
  Ids,       \* names
  Vals       \* what a name is for

VARIABLES
  held,  \* the value of each name held
  own    \* the names the transaction has taken

Init == held = << >> /\ own = {}

Take(id, v) ==
  /\ Cardinality(DOMAIN held) < MostHeld
  /\ id \notin DOMAIN held
  /\ held' = [n \in DOMAIN held \cup {id} |-> IF n = id THEN v ELSE held[n]]
  /\ own' = own \cup {id}

Only(ids) == [id \in ids |-> held[id]]

Give(id) ==
  /\ held' = Only(DOMAIN held \ {id})
  /\ own' = own \ {id}

BeginOwn == own' = {} /\ UNCHANGED held

GiveOwn ==
  /\ held' = Only(DOMAIN held \ own)
  /\ own' = {}

Next ==
  \/ \E id \in Ids, v \in Vals : Take(id, v)
  \/ \E id \in DOMAIN held : Give(id)
  \/ BeginOwn
  \/ GiveOwn

Spec == Init /\ [][Next]_<<held, own>>
=============================================================================
