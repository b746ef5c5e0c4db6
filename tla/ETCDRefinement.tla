--------------------------- MODULE ETCDRefinement ---------------------------
(***************************************************************************)
(* ETCDClient implements the contract OffKV.  A call takes effect with its *)
(* transaction; a read that makes a watch is answered later.               *)
(***************************************************************************)
EXTENDS ETCDClient

Store == [k \in Keys |-> kv[AsPath(k)]]

NoSetAbsorbed == [c \in Clients |-> FALSE]

Contract == INSTANCE OffKV WITH
    SomeVersion <- 0, Divergences <- {"ephemeral_parent", "txn_set_ends_lease"},
    Interruptions <- {"ConnectionLoss", "ServiceError"},
    store <- Store, call <- op, answer <- res, taken <- reply, absorbed <- NoSetAbsorbed, clock <- Nil

\* Every call of the etcd client takes effect atomically, with the answer the contract gives
\* it: the comparisons and the range requests of its transaction tell apart the cases the
\* contract does, whichever lease expires and however often set has to start over.
Linearizable == Contract!Spec

=============================================================================
