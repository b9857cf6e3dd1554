-------------------------------- MODULE Buddy --------------------------------
(***************************************************************************)
(* A guest's pages: blocks of a buddy tree (BuddyTree), given for requests *)
(* of any size and taken back.                                             *)
(***************************************************************************)
EXTENDS BuddyTree

CONSTANTS Requests   \* sizes asked for

RequestsAssumption == Requests \subseteq Nat

VARIABLES
  tree,     \* the buckets' lists, the limit, the split bits and the high-water mark
  handed,   \* the blocks handed out, each with what was asked
  refused   \* history: the requests refused since a block was last given back

buddyVars == <<tree, handed, refused>>

BuddyInit ==
  /\ tree = NewTree
  /\ handed = {}
  /\ refused = {}

Malloc(request) ==
  LET got == Allocated(tree, request)
  IN  /\ tree' = got.tree
      /\ IF got.at = None
           THEN handed' = handed /\ refused' = refused \cup {request}
           ELSE handed' = handed \cup {[at |-> got.at, asked |-> request]} /\ UNCHANGED refused

Free(block) ==
  /\ tree' = Freed(tree, block.at, block.asked)
  /\ handed' = handed \ {block}
  /\ refused' = {}

BuddyNext ==
  \/ \E request \in Requests : Malloc(request)
  \/ \E block \in handed : Free(block)

BuddySpec == BuddyInit /\ [][BuddyNext]_buddyVars
-----------------------------------------------------------------------------
BlockOf(g) == [at |-> g.at, size |-> SizeOf(BucketFor(g.asked))]
ListedIn(t) == UNION {{[at |-> t.lists[b][k], size |-> SizeOf(b)] : k \in DOMAIN t.lists[b]} : b \in Buckets}
Blocks == {BlockOf(g) : g \in handed} \cup ListedIn(tree)

BuddyTypeOK ==
  /\ tree.limit \in Buckets
  /\ tree.max \in LinkBytes .. EndAt
  /\ \A b \in Buckets : \A k \in DOMAIN tree.lists[b] : tree.lists[b][k] \in 0 .. EndAt
  /\ \A g \in handed : g.asked \in Requests

Apart(x, y) == x.at + x.size <= y.at \/ y.at + y.size <= x.at

(***************************************************************************)
(* The blocks handed out and those listed free are apart, each aligned to  *)
(* its own size and listed or given once, and between them they are all    *)
(* that the root spans: no byte is given twice, and none is lost to the    *)
(* splits, merges, growths and refusals that came between.                 *)
(***************************************************************************)
TilesRoot ==
  /\ \A x, y \in Blocks : x # y => Apart(x, y)
  /\ \A g, h \in handed : g.at = h.at => g = h
  /\ \A g \in handed : BlockOf(g) \notin ListedIn(tree)
  /\ \A b \in Buckets : \A j, k \in DOMAIN tree.lists[b] : tree.lists[b][j] = tree.lists[b][k] => j = k
  /\ \A x \in Blocks : x.at % x.size = 0 /\ x.at + x.size <= SizeOf(tree.limit)
  /\ \A byte \in 0 .. SizeOf(tree.limit) - 1 : \E x \in Blocks : byte \in x.at .. x.at + x.size - 1

\* What is handed out, and the links of what is free, lie in the range taken.
WithinTaken ==
  /\ \A g \in handed : g.at + BlockOf(g).size <= tree.max
  /\ \A x \in ListedIn(tree) : x.at + LinkBytes <= tree.max

\* Two buddies are never both free: freed blocks merge as far as they can, so
\* what is freed whole can be asked for whole.
FullyMerged ==
  \A x, y \in ListedIn(tree) : x.size = y.size /\ y.at = x.at + x.size => (x.at \div x.size) % 2 = 1

\* Blocks given and free tile the range, none over another, within the memory
\* the tree has taken, and of two free buddies neither is left apart.
BlocksTile == BuddyTypeOK /\ TilesRoot /\ WithinTaken /\ FullyMerged

\* "A refused request can only be served once this has moved" (releases).  It
\* is not so: malloc pops only the back of a bucket's list and refuses where
\* that block runs past the range, though one further forward fits; a smaller
\* request then takes the back one, and the refused size is served.  No run
\* checks it.
RefusedStays ==
  [][\A g \in handed' \ handed : g.asked \notin refused]_buddyVars
=============================================================================
