--------------------------- MODULE MCConsulClient ---------------------------
(***************************************************************************)
(* An instance of ConsulRefinement for TLC.                                *)
(***************************************************************************)
EXTENDS ConsulRefinement, MCOps

CONSTANTS v1, v2

\* A parent and a child, each with or without a session, and handles of the three kinds.
ConsulOps ==
    {createLeased(KeyA, v1), createLeased(KeyAB, v1), set(KeyAB, v2),
     cas(KeyAB, v1, 2), cas(KeyAB, v1, 0), erase(KeyA, 0), erase(KeyAB, 2),
     get(KeyAB, TRUE), exists(KeyAB, TRUE), children(KeyA, TRUE),
     commit(<<>>, <<create(KeyA, v1), create(KeyAB, v1)>>),
     commit(<<check(KeyA, 1)>>, <<set(KeyA, v2), createLeased(KeyAC, v1)>>),
     commit(<<check(KeyA, 0)>>, <<txErase(KeyAB), set(KeyA, v1), create(KeyAB, v1)>>)}

=============================================================================
