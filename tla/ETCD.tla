-------------------------------- MODULE ETCD --------------------------------
(***************************************************************************)
(* The etcd key-value service as etcd_client.hpp uses it: transactions of  *)
(* comparisons and two lists of operations, of which one is carried out.   *)
(* External to the repository; only what the client relies on is here.     *)
(*                                                                         *)
(* A store is a function from etcd's keys to entries or Nil.  The lease of *)
(* an entry is named by the client it was granted to.  etcd refuses a      *)
(* transaction that puts a key twice, or puts a key it also deletes, so    *)
(* the effect of a list of operations does not depend on their order.      *)
(***************************************************************************)
EXTENDS Integers, ClientAPI

Entry == [val : Values, ver : Nat \ {0}, lease : Clients \cup {Nil}]

ASSUME EntriesAssumption == Nil \notin Entry

-----------------------------------------------------------------------------
(* Comparisons. *)

Compare(target, p, num) == [target |-> target, path |-> p, num |-> num]

\* The version of a key that does not exist is 0, and it has no lease.
CompareHolds(s, cmp) ==
    LET e == s[cmp.path] IN
    CASE cmp.target = "exists"     -> e # Nil
      [] cmp.target = "not_exists" -> e = Nil
      [] cmp.target = "version"    -> cmp.num = IF e = Nil THEN 0 ELSE e.ver
      [] cmp.target = "no_lease"   -> e = Nil \/ e.lease = Nil

-----------------------------------------------------------------------------
(* Operations; range is the set of keys an operation is about. *)

RequestOp(kind, S, v, lease, keep) ==
    [kind |-> kind, range |-> S, val |-> v, lease |-> lease, keep |-> keep]

\* keep: ignore_lease
PutRequest(p, v, lease, keep) == RequestOp("put", {p}, v, lease, keep)
RangeRequest(S)               == RequestOp("range", S, Nil, Nil, FALSE)
DeleteRangeRequest(S)         == RequestOp("delete", S, Nil, Nil, FALSE)

Puts(ops)    == {i \in DOMAIN ops : ops[i].kind = "put"}
Deletes(ops) == {i \in DOMAIN ops : ops[i].kind = "delete"}

\* duplicate key given in txn request
Duplicates(ops) ==
    \E i \in Puts(ops), j \in Puts(ops) \cup Deletes(ops) :
        i # j /\ ops[i].range \cap ops[j].range # {}

\* What the store holds for key p once the operations in I have been carried out.
EntryAfter(s, ops, I, p) ==
    IF \E i \in I \cap Puts(ops) : p \in ops[i].range
    THEN LET o == ops[CHOOSE i \in I \cap Puts(ops) : p \in ops[i].range]
         IN  [val   |-> o.val,
              ver   |-> IF s[p] = Nil THEN 1 ELSE s[p].ver + 1,
              lease |-> IF o.keep THEN s[p].lease ELSE o.lease]
    ELSE IF \E i \in I \cap Deletes(ops) : p \in ops[i].range THEN Nil
    ELSE s[p]

\* A range request sees the operations before it; entries maps the keys found.
Response(s, ops, i) ==
    LET At(p) == EntryAfter(s, ops, 1 .. i - 1, p)
    IN  [kind    |-> ops[i].kind,
         entries |-> IF ops[i].kind = "range"
                     THEN [p \in {q \in ops[i].range : At(q) # Nil} |-> At(p)] ELSE <<>>]

-----------------------------------------------------------------------------
(* Transactions. *)

TxnRequest(compare, success, failure) ==
    [compare |-> compare, success |-> success, failure |-> failure]

Succeeds(s, t) == \A cmp \in t.compare : CompareHolds(s, cmp)

Chosen(s, t) == IF Succeeds(s, t) THEN t.success ELSE t.failure

\* The status with which etcd answers, live being the leases it keeps.
StatusOf(s, live, t) ==
    LET ops == Chosen(s, t) IN
    IF \/ Duplicates(t.success) \/ Duplicates(t.failure)
       \/ \E i \in Puts(ops) : ops[i].keep /\ \E p \in ops[i].range : s[p] = Nil
    THEN "INVALID_ARGUMENT"
    ELSE IF \E i \in Puts(ops) : ops[i].lease # Nil /\ ops[i].lease \notin live THEN "NOT_FOUND"
    ELSE "OK"

StoreAfter(s, t) ==
    LET ops == Chosen(s, t) IN [p \in DOMAIN s |-> EntryAfter(s, ops, DOMAIN ops, p)]

Responses(s, t) ==
    LET ops == Chosen(s, t) IN [i \in DOMAIN ops |-> Response(s, ops, i)]

\* The events of one revision, in which s becomes t.
Events(s, t) ==
    {<<"PUT", p>> : p \in {q \in DOMAIN s : t[q] # s[q] /\ t[q] # Nil}}
    \cup {<<"DELETE", p>> : p \in {q \in DOMAIN s : t[q] # s[q] /\ t[q] = Nil}}

\* The store when the lease of client c has expired.
WithoutLease(s, c) == [p \in DOMAIN s |-> IF s[p] # Nil /\ s[p].lease = c THEN Nil ELSE s[p]]

=============================================================================
