---------------------------- MODULE ZKRefinement ----------------------------
(***************************************************************************)
(* ZKClient implements the contract OffKV.                                 *)
(*                                                                         *)
(* The user's store is the part of the tree below the prefix, with the     *)
(* versions the client reports (the data version plus one).  A call takes  *)
(* effect with the last request it sends.  What other calls did to a set   *)
(* in progress is not in the state of the program: the auxiliary variable  *)
(* absorbed records whether one of them could have hidden it, or took its  *)
(* key away.                                                               *)
(***************************************************************************)
EXTENDS ZKClient

VARIABLE absorbed

Store == [k \in Keys |->
            LET n == tree[AsPath(k)]
            IN  IF n = Nil THEN Nil ELSE [val |-> n.val, ver |-> n.ver + 1, lease |-> n.eph]]

\* Every call is answered in the step in which it takes effect.
Taken == [c \in Clients |-> Nil]

\* What a call ends with when the connection is lost, caught or uncaught.
Losses == {"ConnectionLoss", BackendError}

Contract == INSTANCE OffKV WITH
    SomeVersion <- LargeVersion, Interruptions <- Losses,
    Divergences <- {"lost_set", "any_version", "erase_conflict"},
    store <- Store, call <- op, answer <- res, taken <- Taken, clock <- Nil

\* The call of client c takes effect with this step.
Performs(c) ==
    /\ op[c] # Nil /\ op'[c] = Nil /\ pc'[c] # "dead"
    /\ \/ Store' # Store
       \/ res'[c] = Contract!Execute(Store, op[c], c).answer

RInit == Init /\ absorbed = [c \in Clients |-> FALSE]

RNext ==
    /\ Next
    /\ absorbed' =
         [d \in Clients |->
            /\ op[d] # Nil /\ op'[d] # Nil
            /\ \/ absorbed[d]
               \/ \E c \in Clients : Performs(c) /\ Contract!Absorbs(Store, op[c], c, d)
               \/ \E c \in Clients : session'[c] # session[c] /\ Contract!ExpiryAbsorbs(Store, c, d)]

RSpec == RInit /\ [][RNext]_<<vars, absorbed>>

-----------------------------------------------------------------------------
\* Every call of the ZooKeeper client takes effect atomically between its first and its
\* last request, with the answer the contract gives it there, whatever the other clients
\* do between its requests (set sends two, erase and commit one per node they erase), with
\* three exceptions, in which the code does not do what its comments say:
\*  - a set whose key is removed between its two requests does nothing and reports 1 << 62,
\*    although an erase that expects the version before the set may be what removed the key,
\*    and could not have come after it;
\*  - that number, given to cas, erase or a check, is narrowed to "any version";
\*  - a commit may fail at an erase of a key that is there: the code takes "not_empty" for the
\*    erase of the key itself, raised by a child that appeared after the walk, for a failure
\*    of the user's operation.
LinearizableUpToConflicts == Contract!Spec

=============================================================================
