----------------------------- MODULE ClientAPI -----------------------------
(***************************************************************************)
(* The vocabulary every backend of liboffkv shares: paths and keys         *)
(* (key.hpp), the calls of the Client interface and the answers they give  *)
(* (client.hpp, errors.hpp).                                               *)
(*                                                                         *)
(* A path is the sequence of its segments, so the root (an empty string in *)
(* the code) is the empty sequence.  Values are opaque.  A call is a       *)
(* record whose "type" is the name of the method.  An answer is a tuple    *)
(* whose first component says what it is.                                  *)
(***************************************************************************)
EXTENDS Naturals, FiniteSets, Sequences, SequencesExt

CONSTANTS
    Clients,    \* the client objects; each stands for one process using one Client
    Keys,       \* the keys the clients name: non-empty paths, relative to the prefix
    Values,     \* the values
    Nil,        \* "nothing": no node, no call, no owner
    Ops         \* the calls the clients make

ASSUME KeysAssumption ==
    /\ IsFiniteSet(Keys)
    /\ Keys \subseteq Seq(STRING) \ {<<>>}
    /\ \A k \in Keys : \A i \in 1..Len(k) : SubSeq(k, 1, i) \in Keys

ASSUME NilAssumption ==
    /\ Nil \notin Clients
    /\ Nil \notin Values

-----------------------------------------------------------------------------
(* Paths (key.hpp). *)

Root == <<>>

\* Path::parent(): the root is its own parent.
Parent(p) == IF p = Root THEN p ELSE Front(p)

\* Path::operator/
Join(p, q) == p \o q

\* q is p itself or lies below it.
InSubtree(p, q) == IsPrefix(p, q)

IsChild(p, q) == q # Root /\ Parent(q) = p

-----------------------------------------------------------------------------
(* Calls (client.hpp).  A version of 0 in cas, erase or a check means "no   *)
(* particular version".                                                    *)

CreateOp   == [type : {"create"}, key : Keys, val : Values, lease : BOOLEAN]
SetOp      == [type : {"set"}, key : Keys, val : Values]
CasOp      == [type : {"cas"}, key : Keys, val : Values, ver : Nat]
ReadOp     == [type : {"get", "exists", "get_children"}, key : Keys, watch : BOOLEAN]
EraseOp    == [type : {"erase"}, key : Keys, ver : Nat]

TxnCheck   == [key : Keys, ver : Nat]
TxnOpErase == [type : {"erase"}, key : Keys]
TxnOp      == CreateOp \cup SetOp \cup TxnOpErase
CommitOp   == [type : {"commit"}, checks : Seq(TxnCheck), ops : Seq(TxnOp)]

Op == CreateOp \cup SetOp \cup CasOp \cup ReadOp \cup EraseOp \cup CommitOp

ASSUME OpsAssumption == Ops \subseteq Op /\ Nil \notin Op

-----------------------------------------------------------------------------
(* Answers.  Version(v) answers create, set, cas, exists and (with v = 0)   *)
(* the void method erase; Failure(e) is an exception of type e;             *)
(* TxnFailed(i) carries the 0-based index of the failed check or op.        *)

Version(v)      == <<"version", v>>
Found(v, x)     == <<"found", v, x>>
ChildList(S)    == <<"children", S>>
TxnResult(vs)   == <<"txn", vs>>
Failure(e)      == <<"failure", e>>
TxnFailed(i)    == <<"txn_failed", i>>

\* The exception types of errors.hpp that a store operation can end with.
OffkvErrors == {"NoEntry", "EntryExists", "NoChildrenForEphemeral",
                "ConnectionLoss", "ServiceError"}

\* An exception of the backend's own library that reaches the caller untranslated.
BackendError == "BackendError"

\* One entry of a TransactionResult: TxnOpResult.
OpResult(kind, v) == <<kind, v>>

Answer ==
    ({"version"} \X Nat)
    \cup ({"found"} \X Nat \X (Values \cup {Nil}))
    \cup ({"children"} \X SUBSET Seq(STRING))
    \cup ({"txn"} \X Seq({"create", "set"} \X Nat))
    \cup ({"failure"} \X (OffkvErrors \cup {BackendError}))
    \cup ({"txn_failed"} \X Nat)

=============================================================================
