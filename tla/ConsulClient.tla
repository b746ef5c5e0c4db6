---------------------------- MODULE ConsulClient ----------------------------
(***************************************************************************)
(* ConsulClient (consul_client.hpp): the Client interface on top of        *)
(* Consul.                                                                 *)
(*                                                                         *)
(* Every method sends one request, which is one step; a leased create gets *)
(* a session first.  A watch is a blocking query that wait() sends: Consul *)
(* answers it once its index has passed the one the handle was made with,  *)
(* or after WATCH_TIMEOUT.  A client is used by one thread at a time; its  *)
(* handle has a connection of its own.                                     *)
(***************************************************************************)
EXTENDS Consul

CONSTANTS
    Prefix,         \* Client::prefix_, a path
    MaxCalls,       \* bound: calls made by all clients together
    MaxLosses,      \* bound: requests or replies lost, or refused by Consul
    Mortal          \* the clients that may crash, or whose session may be lost

ASSUME PrefixAssumption == Prefix \in Seq(STRING)

ASSUME BoundsAssumption == MaxCalls \in Nat /\ MaxLosses \in Nat /\ Mortal \subseteq Clients

-----------------------------------------------------------------------------
(* The keys of Consul: "prefix/a/b". *)

\* as_path_string_
AsPath(k) == Join(Prefix, k)

Paths == {AsPath(k) : k \in Keys}

\* The keys that begin with key_string + "/".
Below(k) == {p \in Paths : IsStrictPrefix(AsPath(k), p)}

\* The key of the user, with the "/" it begins with.
UnwrapKey(p) == SubSeq(p, Len(Prefix) + 1, Len(p))

-----------------------------------------------------------------------------
VARIABLES
    kv,         \* the store of Consul
    index,      \* the index of its last change
    tomb,       \* tomb[p]: the index at which p was last deleted, or 0
    live,       \* the clients whose session exists
    session,    \* session[c]: session_id_ of c is set
    pc,         \* pc[c]: the request client c sends next, "idle" between calls
    op,         \* op[c]: the call in progress, or Nil
    res,        \* res[c]: the answer to the last call, Nil while one is in progress
    handle,     \* handle[c]: the WatchHandle c holds and waits on, or Nil
    calls,      \* calls made so far (bounded by MaxCalls)
    losses      \* losses so far (bounded by MaxLosses)

storeVars  == <<kv, index, tomb>>
clientVars == <<session, pc, op, res, calls>>
vars       == <<storeVars, live, clientVars, handle, losses>>

Init ==
    /\ kv = [p \in Paths |-> Nil]
    /\ index = 0
    /\ tomb = [p \in Paths |-> 0]
    /\ live = {}
    /\ session = [c \in Clients |-> FALSE]
    /\ pc = [c \in Clients |-> "idle"]
    /\ op = [c \in Clients |-> Nil]
    /\ res = [c \in Clients |-> Nil]
    /\ handle = [c \in Clients |-> Nil]
    /\ calls = 0
    /\ losses = 0

-----------------------------------------------------------------------------
(* Watches.  seen is what the call observed, old the index it found;        *)
(* changed records whether the observation has ever differed since.         *)

Observation(s, type, k) ==
    CASE type = "exists"       -> s[AsPath(k)] # Nil
      [] type = "get"          -> s[AsPath(k)]
      [] type = "get_children" -> {p \in Below(k) : Len(p) = Len(AsPath(k)) + 1 /\ s[p] # Nil}

\* Mutant: the children are watched through the key itself.
WatchesTheKey(h) == ItemIndex(kv, index, AsPath(h.key))

\* The index of the query that wait() sends, as it would be answered now.
QueryIndex(h) ==
    IF h.type = "get_children" THEN KeysIndex(kv, tomb, index, Below(h.key))
    ELSE ItemIndex(kv, index, AsPath(h.key))

\* Consul answers the query: an index of 0 does not block.
Answered(h) == h.old = 0 \/ QueryIndex(h) > h.old

MakeHandle(o, old) ==
    [type |-> o.type, key |-> o.key, seen |-> Observation(kv, o.type, o.key),
     old |-> old, changed |-> FALSE]

\* The store becomes s; the keys in gone were deleted.
Becomes(s, gone) ==
    /\ kv' = s
    /\ index' = index + 1
    /\ tomb' = [p \in Paths |-> IF p \in gone THEN index + 1 ELSE tomb[p]]
    /\ handle' = [c \in Clients |->
                    IF handle[c] # Nil /\ Observation(s, handle[c].type, handle[c].key) # handle[c].seen
                    THEN [handle[c] EXCEPT !.changed = TRUE] ELSE handle[c]]

Carried(txn) == Run(kv, live, txn, index + 1)

\* Consul carries out a transaction, unless one of its operations fails.
CarryOut(txn) ==
    IF Carried(txn).failed = {} /\ \E i \in DOMAIN txn : txn[i].kind \in Writes \cup Deletes
    THEN Becomes(Carried(txn).store, Carried(txn).gone)
    ELSE UNCHANGED <<storeVars, handle>>

-----------------------------------------------------------------------------
(* The transactions of the methods.  An answer is read off the results, or  *)
(* off the position of the first operation that failed (TxnAborted).        *)

Aborted(r)    == r.failed # {}
OpIndex(r)    == Min(r.failed)
NewIndex(r)   == Version(Last(r.results).entry.ver)

ParentGet(k) == IF Parent(k) = Root THEN <<>> ELSE <<Get(AsPath(Parent(k)))>>

\* create, and cas with version 0
CreateOps(o, c) ==
    LET p == AsPath(o.key)
    IN  ParentGet(o.key)
          \o <<CheckNotExists(p),
               IF o.type = "create" /\ o.lease THEN Lock(p, o.val, c) ELSE PutOp(p, o.val)>>

CreateAnswer(o, r) ==
    LET n == Len(ParentGet(o.key)) IN
    CASE ~Aborted(r)                     -> NewIndex(r)
      [] Aborted(r) /\ OpIndex(r) < n    -> Failure("NoEntry")
      [] Aborted(r) /\ OpIndex(r) = n    -> IF o.type = "cas" THEN Version(0) ELSE Failure("EntryExists")
      [] Aborted(r) /\ OpIndex(r) > n    -> Failure(BackendError)

SetOps(o) == ParentGet(o.key) \o <<PutOp(AsPath(o.key), o.val)>>

SetAnswer(r) == IF Aborted(r) THEN Failure("NoEntry") ELSE NewIndex(r)

CasOps(o) == <<Get(AsPath(o.key)), CompareSet(AsPath(o.key), o.ver, o.val)>>

CasAnswer(r) ==
    IF ~Aborted(r) THEN NewIndex(r)
    ELSE IF OpIndex(r) = 0 THEN Failure("NoEntry") ELSE Version(0)

EraseOps(o) ==
    LET p == AsPath(o.key)
    IN  <<Get(p), IF o.ver # 0 THEN CompareDelete(p, o.ver) ELSE Delete(p), DeleteAll(Below(o.key))>>

EraseAnswer(r) == IF Aborted(r) /\ OpIndex(r) = 0 THEN Failure("NoEntry") ELSE Version(0)

ChildrenOps(k) == <<GetAll(Below(k)), Get(AsPath(k))>>

ChildrenAnswer(k, r) ==
    IF Aborted(r) THEN Failure("NoEntry")
    ELSE ChildList({UnwrapKey(p) : p \in {q \in {x.path : x \in Range(Front(r.results))} :
                                            Len(q) = Len(AsPath(k)) + 1}})

\* max_modify_index
ChildrenIndex(r) == Max({x.entry.ver : x \in Range(r.results)})

-----------------------------------------------------------------------------
(* commit: what each check and each operation adds to the transaction, and  *)
(* the kinds of the results it will produce.                                *)

CheckPart(chk) ==
    IF chk.ver # 0 THEN <<CheckIndex(AsPath(chk.key), chk.ver)>> ELSE <<Get(AsPath(chk.key))>>

OpPart(o, c) ==
    LET p == AsPath(o.key)
    IN  CASE o.type = "create" -> CreateOps(o, c)
          [] o.type = "set"    -> <<Get(p), PutOp(p, o.val)>>
          [] o.type = "erase"  -> <<Get(p), Delete(p), DeleteAll(Below(o.key))>>

Parts(o, c) ==
    [i \in DOMAIN o.checks |-> CheckPart(o.checks[i])] \o [i \in DOMAIN o.ops |-> OpPart(o.ops[i], c)]

\* result_kinds
Kinds(o) ==
    [i \in DOMAIN o.checks |-> "aux"]
      \o FlattenSeq([i \in DOMAIN o.ops |->
            CASE o.ops[i].type = "create" -> [j \in DOMAIN ParentGet(o.ops[i].key) |-> "aux"] \o <<"create">>
              [] o.ops[i].type = "set"    -> <<"aux", "set">>
              [] o.ops[i].type = "erase"  -> <<"aux">>])

\* boundaries: the position of the last operation of part i.
Boundary(o, c, i) == Len(FlattenSeq(SubSeq(Parts(o, c), 1, i))) - 1

\* Mutant: upper_bound for lower_bound.
UpperBound(o, c, pos) == Cardinality({i \in DOMAIN Parts(o, c) : Boundary(o, c, i) <= pos})

\* std::lower_bound: the part that position pos belongs to, counted from 0.
UserOpIndex(o, c, pos) == Cardinality({i \in DOMAIN Parts(o, c) : Boundary(o, c, i) < pos})

CommitAnswer(o, c, r) ==
    IF Aborted(r) THEN TxnFailed(UserOpIndex(o, c, OpIndex(r)))
    ELSE LET all == [i \in DOMAIN r.results |-> OpResult(Kinds(o)[i], r.results[i].entry.ver)]
         IN  TxnResult(SelectSeq(all, LAMBDA x : x[1] # "aux"))

-----------------------------------------------------------------------------
(* Calls. *)

Return(c, r) ==
    /\ pc' = [pc EXCEPT ![c] = "idle"]
    /\ op' = [op EXCEPT ![c] = Nil]
    /\ res' = [res EXCEPT ![c] = r]
    /\ UNCHANGED <<session, calls>>

NeedsSession(o) ==
    \/ o.type = "create" /\ o.lease
    \/ o.type = "commit" /\ \E i \in DOMAIN o.ops : o.ops[i].type = "create" /\ o.ops[i].lease

IsRead(o) == o.type \in {"get", "exists", "get_children"}

Invoke(c, o) ==
    /\ pc[c] = "idle" /\ calls < MaxCalls
    /\ IsRead(o) => (o.watch => handle[c] = Nil)
    /\ calls' = calls + 1
    /\ op' = [op EXCEPT ![c] = o]
    /\ res' = [res EXCEPT ![c] = Nil]
    /\ pc' = [pc EXCEPT ![c] = IF NeedsSession(o) /\ ~session[c] THEN "session" ELSE "txn"]
    /\ UNCHANGED <<storeVars, live, session, handle, losses>>

\* create_session_if_needed_
CreateSession(c) ==
    /\ pc[c] = "session"
    /\ live' = live \cup {c}
    /\ session' = [session EXCEPT ![c] = TRUE]
    /\ pc' = [pc EXCEPT ![c] = "txn"]
    /\ UNCHANGED <<storeVars, op, res, calls, handle, losses>>

\* The transaction of client c's call, if it is one that changes the store.
TxnOf(c) ==
    LET o == op[c] IN
    CASE o.type = "create" \/ (o.type = "cas" /\ o.ver = 0) -> CreateOps(o, c)
      [] o.type = "cas" /\ o.ver # 0                        -> CasOps(o)
      [] o.type = "set"                                     -> SetOps(o)
      [] o.type = "erase"                                   -> EraseOps(o)
      [] o.type = "commit"                                  -> FlattenSeq(Parts(o, c))
      [] OTHER                                              -> <<>>

\* The transaction is carried out and the method returns r.
Send(c, r) ==
    /\ CarryOut(TxnOf(c))
    /\ Return(c, r)
    /\ UNCHANGED <<live, losses>>

Calls(c, type) == pc[c] = "txn" /\ op[c].type = type

Create(c) ==
    /\ Calls(c, "create") \/ (Calls(c, "cas") /\ op[c].ver = 0)
    /\ Send(c, CreateAnswer(op[c], Carried(TxnOf(c))))

Set(c) == Calls(c, "set") /\ Send(c, SetAnswer(Carried(TxnOf(c))))

Cas(c) == Calls(c, "cas") /\ op[c].ver # 0 /\ Send(c, CasAnswer(Carried(TxnOf(c))))

Erase(c) == Calls(c, "erase") /\ Send(c, EraseAnswer(Carried(TxnOf(c))))

Commit(c) == Calls(c, "commit") /\ Send(c, CommitAnswer(op[c], c, Carried(TxnOf(c))))

\* A read returns r, with a handle for the index old if it is to watch and found the key, or
\* need not find it.
ReadReturns(c, r, old) ==
    /\ Return(c, r)
    /\ handle' = IF op[c].watch /\ r # Failure("NoEntry")
                 THEN [handle EXCEPT ![c] = MakeHandle(op[c], old)] ELSE handle
    /\ UNCHANGED <<storeVars, live, losses>>

\* exists and get: the version is the index of the answer.
ReadItem(c) ==
    /\ Calls(c, "exists") \/ Calls(c, "get")
    /\ LET e   == kv[AsPath(op[c].key)]
           ver == IF e = Nil THEN 0 ELSE ItemIndex(kv, index, AsPath(op[c].key))
       IN  ReadReturns(c, IF op[c].type = "exists" THEN Version(ver)
                          ELSE IF e = Nil THEN Failure("NoEntry") ELSE Found(ver, e.val), ver)

GetChildren(c) ==
    /\ Calls(c, "get_children")
    /\ LET r == Carried(ChildrenOps(op[c].key))
       IN  ReadReturns(c, ChildrenAnswer(op[c].key, r), IF Aborted(r) THEN 0 ELSE ChildrenIndex(r))

-----------------------------------------------------------------------------
(* wait(). *)

\* wait() is over and the handle destroyed.
EndWait(c) ==
    /\ handle[c] # Nil
    /\ handle' = [handle EXCEPT ![c] = Nil]
    /\ UNCHANGED <<storeVars, live, clientVars>>

\* Mutant: wait() goes on unless what the call observed is different when the answer comes.
ReturnsIfDifferent(c) ==
    /\ handle[c] # Nil /\ Observation(kv, handle[c].type, handle[c].key) # handle[c].seen
    /\ EndWait(c) /\ UNCHANGED losses

\* The blocking query is answered.
WaitReturns(c) == handle[c] # Nil /\ Answered(handle[c]) /\ EndWait(c) /\ UNCHANGED losses

\* WATCH_TIMEOUT has passed and wait() returns all the same, or nobody waits and the handle
\* is destroyed.
WaitTimesOut(c) == EndWait(c) /\ UNCHANGED losses

-----------------------------------------------------------------------------
(* Losses and failures. *)

\* rethrow_: what the loss of a connection, or a bad status from Consul, becomes.
Raised == {Failure(BackendError), Failure("ServiceError")}

\* The request is lost or refused, or Consul's answer to it is lost.  The request for a
\* session is sent outside of any try block.
LoseRequest(c) ==
    /\ losses < MaxLosses
    /\ losses' = losses + 1
    /\ \/ /\ pc[c] = "txn"
          /\ CarryOut(TxnOf(c)) \/ UNCHANGED <<storeVars, handle>>
          /\ \E r \in Raised : Return(c, r)
       \/ /\ pc[c] = "session"
          /\ UNCHANGED <<storeVars, handle>>
          /\ Return(c, Failure(BackendError))
    /\ UNCHANGED live

\* wait() throws.
LoseWait(c) ==
    /\ losses < MaxLosses
    /\ losses' = losses + 1
    /\ EndWait(c)

\* The client is destroyed, or its process crashes.
Die(c) ==
    /\ c \in Mortal /\ pc[c] # "dead"
    /\ pc' = [pc EXCEPT ![c] = "dead"]
    /\ op' = [op EXCEPT ![c] = Nil]
    /\ handle' = [handle EXCEPT ![c] = Nil]
    /\ UNCHANGED <<storeVars, live, session, res, calls, losses>>

\* The session was not renewed in time.  The client keeps its id.
ExpireSession(c) ==
    /\ c \in Mortal \cap live
    /\ live' = live \ {c}
    /\ LET s == WithoutSession(kv, c)
       IN  IF s = kv THEN UNCHANGED <<storeVars, handle>>
           ELSE Becomes(s, {p \in Paths : s[p] # kv[p]})
    /\ UNCHANGED <<clientVars, losses>>

Progress(c) ==
    \/ CreateSession(c)
    \/ Create(c)
    \/ Set(c)
    \/ Cas(c)
    \/ Erase(c)
    \/ Commit(c)
    \/ ReadItem(c)
    \/ GetChildren(c)

Next ==
    \E c \in Clients :
        \/ \E o \in Ops : Invoke(c, o)
        \/ Progress(c)
        \/ WaitReturns(c)
        \/ WaitTimesOut(c)
        \/ LoseRequest(c)
        \/ LoseWait(c)
        \/ Die(c)
        \/ ExpireSession(c)

Spec == Init /\ [][Next]_vars

\* Consul answers a blocking query whose index has passed.  That the query also ends after
\* WATCH_TIMEOUT is not assumed.
Fairness == \A c \in Clients : WF_vars(WaitReturns(c))

FairSpec == Spec /\ Fairness

-----------------------------------------------------------------------------
(* Properties. *)

\* Once what the call observed has changed, be it only for a moment or through the end of a
\* session, the query of wait() is answered: the index the handle was made with is neither
\* too new nor about other keys than the observation.
WatchComplete ==
    \A c \in Clients : handle[c] # Nil /\ handle[c].changed => Answered(handle[c])

\* A thread in wait() does not depend on WATCH_TIMEOUT to learn of a change.
ChangeNoticed ==
    \A c \in Clients :
        (handle[c] # Nil /\ handle[c].changed) ~> (handle[c] = Nil)

=============================================================================
