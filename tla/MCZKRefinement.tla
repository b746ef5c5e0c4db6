--------------------------- MODULE MCZKRefinement ---------------------------
(***************************************************************************)
(* Instances of ZKRefinement for TLC.                                      *)
(***************************************************************************)
EXTENDS ZKRefinement, MCOps

CONSTANTS v1, v2, c1, c2, c3

\* c1 may die; the others are alike.
Alike == Permutations({c2, c3})

\* Every method that works on one key, those with a version also with the number that a set
\* reports whose key was removed.
KeyOps ==
    {create(KeyA, v1), createLeased(KeyA, v1), set(KeyA, v2), cas(KeyA, v2, 0), cas(KeyA, v1, 1),
     cas(KeyA, v1, LargeVersion), get(KeyA, FALSE), exists(KeyA, FALSE), erase(KeyA, 0), erase(KeyA, 1),
     erase(KeyA, LargeVersion)}

\* Calls that build, walk and tear down a subtree.
TreeOps ==
    {create(KeyAB, v1), set(KeyAC, v1), erase(KeyA, 0), erase(KeyA, 1), erase(KeyAB, 0),
     children(KeyA, FALSE),
     commit(<<>>, <<create(KeyA, v1), create(KeyAB, v1)>>),
     commit(<<check(KeyAB, 1)>>, <<set(KeyAB, v1), txErase(KeyAB), createLeased(KeyAC, v1)>>),
     commit(<<check(KeyA, 0)>>, <<txErase(KeyA), create(KeyA, v1)>>)}

AllOps == KeyOps \cup TreeOps

\* All calls of a behaviour come from one of the two sets.  Those on a subtree are made over a
\* connection that holds, by clients that do not die.
VARIABLE workload

MCInit == RInit /\ workload \in {"key", "tree"}

MCNext ==
    /\ RNext
    /\ \A c \in Clients : op'[c] # Nil => op'[c] \in IF workload = "key" THEN KeyOps ELSE TreeOps
    /\ workload = "tree" => losses' = 0 /\ \A c \in Clients : pc'[c] # "dead"
    /\ UNCHANGED workload

MCSpec == MCInit /\ [][MCNext]_<<vars, absorbed, workload>>

=============================================================================
