----------------------------- MODULE ZooKeeper -----------------------------
(***************************************************************************)
(* The ZooKeeper service as zk_client.hpp uses it through zkpp: a tree of  *)
(* nodes with a data version each, requests that the service answers with  *)
(* an error code, and the watch events a change raises.  The service is    *)
(* external to the repository; only what the client relies on is here.     *)
(*                                                                         *)
(* A tree is a function from Paths to nodes or Nil; the root "/" always    *)
(* exists and is not in Paths.  A data version starts at 0.  A request is  *)
(* a record with the fields of all four request kinds, so that a multi_op  *)
(* is a sequence of records of one shape.                                  *)
(***************************************************************************)
EXTENDS Integers, ClientAPI

CONSTANT Prefix     \* Client::prefix_, a path

\* The paths the prefix and the keys give rise to.
PrefixPaths == {SubSeq(Prefix, 1, i) : i \in 1..Len(Prefix)}
UserPaths   == {Join(Prefix, k) : k \in Keys}
Paths       == PrefixPaths \cup UserPaths

ASSUME PrefixAssumption == Prefix \in Seq(STRING)

\* zk::version::any()
ANY == -1

ZNode == [val : Values \cup {Nil}, ver : Nat, eph : Clients \cup {Nil}]

ASSUME NodesAssumption == Nil \notin ZNode

Tree == [Paths -> ZNode \cup {Nil}]

\* A request: user is the index of the check or operation of the user's transaction
\* that the request belongs to.
Request(kind, path, val, ver, eph, user) ==
    [kind |-> kind, path |-> path, val |-> val, ver |-> ver, eph |-> eph, user |-> user]

Requests ==
    [kind : {"create", "set", "check", "erase"}, path : Paths, val : Values \cup {Nil},
     ver : Int, eph : Clients \cup {Nil}, user : Nat]

CreateReq(p, v, eph, u) == Request("create", p, v, ANY, eph, u)
SetReq(p, v, ver, u)    == Request("set", p, v, ver, Nil, u)
CheckReq(p, ver, u)     == Request("check", p, Nil, ver, Nil, u)
EraseReq(p, u)          == Request("erase", p, Nil, ANY, Nil, u)

-----------------------------------------------------------------------------
NodeExists(t, p) == p = Root \/ t[p] # Nil

\* Paths of the existing direct children of p.
ChildrenOf(t, p) == {q \in Paths : IsChild(p, q) /\ t[q] # Nil}

\* The error code a request meets on tree t, "ok" when it succeeds.
ErrorCode(t, r) ==
    IF r.kind = "create"
    THEN IF ~NodeExists(t, Parent(r.path)) THEN "no_entry"
         ELSE IF t[r.path] # Nil THEN "entry_exists"
         ELSE IF Parent(r.path) # Root /\ t[Parent(r.path)].eph # Nil
              THEN "no_children_for_ephemerals"
         ELSE "ok"
    ELSE IF t[r.path] = Nil THEN "no_entry"
    ELSE IF r.ver \notin {ANY, t[r.path].ver} THEN "version_mismatch"
    ELSE IF r.kind = "erase" /\ ChildrenOf(t, r.path) # {} THEN "not_empty"
    ELSE "ok"

\* The tree after a request that succeeds.
Apply(t, r) ==
    CASE r.kind = "create" -> [t EXCEPT ![r.path] = [val |-> r.val, ver |-> 0, eph |-> r.eph]]
      [] r.kind = "set"    ->
           [t EXCEPT ![r.path] = [val |-> r.val, ver |-> t[r.path].ver + 1, eph |-> t[r.path].eph]]
      [] r.kind = "erase"  -> [t EXCEPT ![r.path] = Nil]
      [] r.kind = "check"  -> t

\* The tree after a request, which does nothing if it fails.
Served(t, r) == IF ErrorCode(t, r) = "ok" THEN Apply(t, r) ELSE t

\* The watch events a request that succeeds raises: "node" events go to the watches
\* set by get and exists on the path, "child" events to those set by get_children.
Events(r) ==
    CASE r.kind = "create" -> {<<"node", r.path>>, <<"child", Parent(r.path)>>}
      [] r.kind = "set"    -> {<<"node", r.path>>}
      [] r.kind = "erase"  -> {<<"node", r.path>>, <<"child", r.path>>, <<"child", Parent(r.path)>>}
      [] r.kind = "check"  -> {}

\* The events of a request on tree t, whether it succeeds or not.
Raised(t, r) == IF ErrorCode(t, r) = "ok" THEN Events(r) ELSE {}

\* What happens to the tree, and to the watches, when the session of c ends.
EphemeralsOf(t, c)   == {p \in Paths : t[p] # Nil /\ t[p].eph = c}
WithoutSession(t, c) == [p \in Paths |-> IF p \in EphemeralsOf(t, c) THEN Nil ELSE t[p]]
SessionEvents(t, c)  == UNION {Events(EraseReq(p, 0)) : p \in EphemeralsOf(t, c)}

=============================================================================
