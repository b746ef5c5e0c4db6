------------------------------- MODULE MCOps -------------------------------
(***************************************************************************)
(* Small instances of the constants of ClientAPI for the model checker.    *)
(***************************************************************************)
EXTENDS ClientAPI

\* Three levels and a sibling: enough for an erase to walk down and back up.
KeyA    == <<"a">>
KeyAB   == <<"a", "b">>
KeyAC   == <<"a", "c">>
KeyABD  == <<"a", "b", "d">>

OneKey    == {KeyA}
TwoKeys   == {KeyA, KeyAB}
ForkKeys  == {KeyA, KeyAB, KeyAC}
ChainKeys == {KeyA, KeyAB, KeyABD}

NoPrefix  == <<>>
Prefix1   == <<"p">>
Prefix2   == <<"p", "q">>

\* Short forms of the calls.
create(k, v)        == [type |-> "create", key |-> k, val |-> v, lease |-> FALSE]
createLeased(k, v)  == [type |-> "create", key |-> k, val |-> v, lease |-> TRUE]
set(k, v)           == [type |-> "set", key |-> k, val |-> v]
cas(k, v, ver)      == [type |-> "cas", key |-> k, val |-> v, ver |-> ver]
erase(k, ver)       == [type |-> "erase", key |-> k, ver |-> ver]
get(k, w)           == [type |-> "get", key |-> k, watch |-> w]
exists(k, w)        == [type |-> "exists", key |-> k, watch |-> w]
children(k, w)      == [type |-> "get_children", key |-> k, watch |-> w]
check(k, ver)       == [key |-> k, ver |-> ver]
txErase(k)          == [type |-> "erase", key |-> k]
commit(checks, ops) == [type |-> "commit", checks |-> checks, ops |-> ops]

=============================================================================
