-------------------------- MODULE ConsulRefinement --------------------------
(***************************************************************************)
(* ConsulClient implements the contract OffKV, with the index of Consul as *)
(* the counter that numbers all versions.  A call takes effect with its    *)
(* request and is answered in the same step.                               *)
(***************************************************************************)
EXTENDS ConsulClient

Store == [k \in Keys |-> kv[AsPath(k)]]

NothingTaken == [c \in Clients |-> Nil]

NoSetAbsorbed == [c \in Clients |-> FALSE]

Contract == INSTANCE OffKV WITH
    SomeVersion <- 0, Divergences <- {"ephemeral_parent", "parent_first", "lost_lease"},
    Interruptions <- {BackendError, "ServiceError"},
    store <- Store, call <- op, answer <- res, taken <- NothingTaken, absorbed <- NoSetAbsorbed,
    clock <- index

\* Every call of the Consul client takes effect atomically, with the answer the contract gives
\* it: the position of the operation that failed, or of a result among the results, is traced
\* back to the right operation of the user, whichever session ends and whichever key is an
\* orphan; and no version number is used for two changes.
Linearizable == Contract!Spec

=============================================================================
