------------------------------- MODULE Consul -------------------------------
(***************************************************************************)
(* The Consul key-value service as consul_client.hpp uses it through       *)
(* ppconsul: transactions, sessions that hold keys, and the index with     *)
(* which a blocking query is answered.  External to the repository; only   *)
(* what the client relies on is here.                                      *)
(*                                                                         *)
(* A store is a function from Consul's keys to entries or Nil.  The        *)
(* version of an entry is its ModifyIndex.  The session that holds an      *)
(* entry is named by the client it belongs to.  Sessions are created with  *)
(* the behaviour "delete" and no lock delay.                               *)
(***************************************************************************)
EXTENDS Integers, FiniteSetsExt, ClientAPI

Entry == [val : Values, ver : Nat \ {0}, lease : Clients \cup {Nil}]

ASSUME EntriesAssumption == Nil \notin Entry

-----------------------------------------------------------------------------
(* Operations of a transaction.  Those that name a prefix have the set of   *)
(* keys below it as their range.                                            *)

TxnOperation(kind, S, v, index, session) ==
    [kind |-> kind, range |-> S, val |-> v, index |-> index, session |-> session]

Get(p)                    == TxnOperation("get", {p}, Nil, 0, Nil)
GetAll(S)                 == TxnOperation("get-tree", S, Nil, 0, Nil)
CheckNotExists(p)         == TxnOperation("check-not-exists", {p}, Nil, 0, Nil)
CheckIndex(p, index)      == TxnOperation("check-index", {p}, Nil, index, Nil)
PutOp(p, v)               == TxnOperation("set", {p}, v, 0, Nil)
CompareSet(p, index, v)   == TxnOperation("cas", {p}, v, index, Nil)
Lock(p, v, session)       == TxnOperation("lock", {p}, v, 0, session)
Delete(p)                 == TxnOperation("delete", {p}, Nil, 0, Nil)
CompareDelete(p, index)   == TxnOperation("delete-cas", {p}, Nil, index, Nil)
DeleteAll(S)              == TxnOperation("delete-tree", S, Nil, 0, Nil)

Writes  == {"set", "cas", "lock"}
Deletes == {"delete", "delete-cas", "delete-tree"}

\* Whether operation o can be carried out on store s, live being the sessions that exist.
Possible(s, live, o) ==
    \A p \in o.range :
        CASE o.kind = "get"                         -> s[p] # Nil
          [] o.kind = "check-not-exists"            -> s[p] = Nil
          [] o.kind \in {"check-index", "cas", "delete-cas"} -> s[p] # Nil /\ s[p].ver = o.index
          [] o.kind = "lock" -> o.session \in live /\ (s[p] # Nil => s[p].lease \in {Nil, o.session})
          [] OTHER                                  -> TRUE

\* The store after operation o, stamped with index.  A plain write keeps the session.
Written(s, o, index) ==
    [p \in DOMAIN s |->
        IF p \notin o.range THEN s[p]
        ELSE CASE o.kind = "lock"   -> [val |-> o.val, ver |-> index, lease |-> o.session]
               [] o.kind \in Writes \ {"lock"} ->
                    [val |-> o.val, ver |-> index, lease |-> IF s[p] = Nil THEN Nil ELSE s[p].lease]
               [] o.kind \in Deletes -> Nil
               [] OTHER              -> s[p]]

\* The entries operation o contributes to the results, as the store holds them then.
Results(s, o) ==
    IF o.kind \in Deletes \cup {"check-not-exists"} THEN <<>>
    ELSE LET found == SetToSeq({p \in o.range : s[p] # Nil})
         IN  [i \in DOMAIN found |-> [path |-> found[i], entry |-> s[found[i]]]]

\* The operations are carried out in turn, all with the same index.  failed: the 0-based
\* positions of those that could not be; gone: the keys deleted on the way.
Run(s, live, txn, index) ==
    FoldLeft(LAMBDA acc, o :
                LET t == Written(acc.store, o, index) IN
                IF Possible(acc.store, live, o)
                THEN [acc EXCEPT !.store = t, !.results = @ \o Results(t, o), !.pos = @ + 1,
                              !.gone = @ \cup {p \in o.range : acc.store[p] # Nil /\ t[p] = Nil}]
                ELSE [acc EXCEPT !.failed = @ \cup {acc.pos}, !.pos = @ + 1],
             [store |-> s, results |-> <<>>, failed |-> {}, gone |-> {}, pos |-> 0],
             txn)

-----------------------------------------------------------------------------
(* The index of an answer.  tomb[p] is the index at which p was deleted     *)
(* last; table the index of the last change of any key.                     *)

\* Of a single key.
ItemIndex(s, table, p) == IF s[p] # Nil THEN s[p].ver ELSE Max({1, table})

\* Of the keys in S, a prefix.
KeysIndex(s, tomb, table, S) ==
    LET last == Max({0} \cup {s[p].ver : p \in {q \in S : s[q] # Nil}} \cup {tomb[p] : p \in S})
    IN  IF last > 0 THEN last ELSE Max({1, table})

\* The store when the session of client c has been invalidated.
WithoutSession(s, c) == [p \in DOMAIN s |-> IF s[p] # Nil /\ s[p].lease = c THEN Nil ELSE s[p]]

=============================================================================
