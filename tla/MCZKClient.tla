----------------------------- MODULE MCZKClient -----------------------------
(***************************************************************************)
(* Instances of ZKClient for TLC.                                          *)
(***************************************************************************)
EXTENDS ZKClient, MCOps

CONSTANT v1

\* Handles of the three kinds and walks, against calls that change what they look at.
ClientOps ==
    {exists(KeyAB, TRUE), get(KeyA, TRUE), children(KeyA, TRUE),
     createLeased(KeyAB, v1), set(KeyA, v1), cas(KeyA, v1, 1), erase(KeyA, 0), erase(KeyA, 2), erase(KeyAC, 0),
     commit(<<>>, <<create(KeyA, v1), create(KeyAC, v1)>>),
     commit(<<check(KeyA, 1)>>, <<txErase(KeyA), create(KeyA, v1)>>)}

\* A transaction that erases a child and then its parent.
CommitLoopOps ==
    {commit(<<>>, <<create(KeyA, v1), create(KeyAB, v1)>>), commit(<<>>, <<txErase(KeyAB), txErase(KeyA)>>)}

=============================================================================
