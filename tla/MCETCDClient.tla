---------------------------- MODULE MCETCDClient ----------------------------
(***************************************************************************)
(* Instances of ETCDRefinement for TLC.                                    *)
(***************************************************************************)
EXTENDS ETCDRefinement, MCOps

CONSTANTS v1, v2

\* A parent and a child, each with or without a lease: a lease that ends may leave an orphan.
EtcdOps ==
    {create(KeyA, v1), createLeased(KeyA, v1), create(KeyAB, v2), createLeased(KeyAB, v1), set(KeyAB, v2),
     cas(KeyAB, v1, 2), cas(KeyAB, v1, 0), erase(KeyA, 0), erase(KeyAB, 1),
     get(KeyAB, TRUE), exists(KeyAB, TRUE), children(KeyA, TRUE),
     commit(<<check(KeyA, 1)>>, <<set(KeyA, v2), createLeased(KeyAB, v1)>>),
     commit(<<check(KeyA, 2)>>, <<create(KeyAC, v1), set(KeyA, v1), txErase(KeyAB)>>),
     commit(<<>>, <<txErase(KeyAB), set(KeyA, v2)>>)}

\* A check that is to find out only whether the key exists.
CheckZeroOps == {create(KeyA, v1), commit(<<check(KeyA, 0)>>, <<set(KeyA, v2)>>)}

\* The transaction of the usage example: one key is erased, another set.
ExampleOps ==
    {create(KeyA, v1), create(KeyAB, v1), create(KeyAC, v1),
     commit(<<check(KeyAB, 1)>>, <<txErase(KeyAB), set(KeyAC, v2)>>)}

=============================================================================
