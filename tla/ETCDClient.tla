----------------------------- MODULE ETCDClient -----------------------------
(***************************************************************************)
(* ETCDClient, with the ETCDTransactionBuilder and the LeaseIssuer it uses *)
(* (etcd_client.hpp): the Client interface on top of etcd.                 *)
(*                                                                         *)
(* A method sends one transaction, except that set tries two kinds of      *)
(* transaction in turn, a leased create gets a lease first, and a read     *)
(* with a watch creates the watch afterwards, from the revision after the  *)
(* one it has read.  Each request is one step.  A client is used by one    *)
(* thread at a time.                                                       *)
(*                                                                         *)
(* The stream that carries the watches is the subject of ETCDWatchCreator; *)
(* here it delivers the events of a watch revision by revision, or fails.  *)
(***************************************************************************)
EXTENDS ETCD

CONSTANTS
    Prefix,         \* Client::prefix_, a path
    MaxCalls,       \* bound: calls made by all clients together
    MaxLosses,      \* bound: requests, replies or watch streams lost
    Mortal          \* the clients that may crash, or whose keep-alive messages may be lost

\* The byte '\0', which no segment of a path contains.
NUL == "NUL"

ASSUME SegmentsAssumption ==
    /\ Prefix \in Seq(STRING)
    /\ \A k \in Keys \cup {Prefix} : \A i \in DOMAIN k : k[i] # NUL

ASSUME BoundsAssumption == MaxCalls \in Nat /\ MaxLosses \in Nat /\ Mortal \subseteq Clients

-----------------------------------------------------------------------------
(* The keys of etcd.  "/prefix/a/b" becomes "/prefix/a/\0b": the segments,   *)
(* with the NUL that marks the last one as a token of its own.               *)

\* as_path_string_
AsPath(k) == Prefix \o Front(k) \o <<NUL, Last(k)>>

Paths == {AsPath(k) : k \in Keys}

\* make_subtree_range_: from "{root}/" up to "{root}0"
SubtreeRange(k) == {p \in Paths : IsPrefix(Prefix \o k, p)}

\* make_direct_children_range_: from "{root}/\0" up to "{root}/\1"
DirectChildrenRange(k) == {p \in Paths : IsPrefix(Prefix \o k \o <<NUL>>, p)}

\* unwrap_key_: without the prefix and the NUL.
UnwrapKey(p) == SubSeq(p, Len(Prefix) + 1, Len(p) - 2) \o <<Last(p)>>

\* Mutant: a key needs no parent.
NoParentCheck(k) == {}

\* The check that the parent exists, which a key at the top does not need.
ParentExists(k) ==
    IF Parent(k) = Root THEN {} ELSE {Compare("exists", AsPath(Parent(k)), 0)}

-----------------------------------------------------------------------------
VARIABLES
    kv,         \* the store of etcd
    log,        \* log[r]: the events of revision r
    live,       \* the clients whose lease etcd keeps
    lease,      \* lease[c]: LeaseIssuer::lease_id_ of c is set
    pc,         \* pc[c]: the request client c sends next, "idle" between calls
    op,         \* op[c]: the call in progress, or Nil
    expect,     \* expect[c]: expect_lease in set
    reply,      \* reply[c]: what a read with a watch has found, or Nil
    res,        \* res[c]: the answer to the last call, Nil while one is in progress
    handle,     \* handle[c]: the WatchHandle c holds or is making, or Nil
    calls,      \* calls made so far (bounded by MaxCalls)
    losses      \* losses so far (bounded by MaxLosses)

etcdVars   == <<kv, log, live>>
clientVars == <<lease, pc, op, expect, reply, res, calls>>
vars       == <<etcdVars, clientVars, handle, losses>>

Init ==
    /\ kv = [p \in Paths |-> Nil]
    /\ log = <<>>
    /\ live = {}
    /\ lease = [c \in Clients |-> FALSE]
    /\ pc = [c \in Clients |-> "idle"]
    /\ op = [c \in Clients |-> Nil]
    /\ expect = [c \in Clients |-> FALSE]
    /\ reply = [c \in Clients |-> Nil]
    /\ res = [c \in Clients |-> Nil]
    /\ handle = [c \in Clients |-> Nil]
    /\ calls = 0
    /\ losses = 0

-----------------------------------------------------------------------------
(* Watches.  seen is what the call observed; next is the first revision not *)
(* yet delivered; changed records whether the observation has ever differed *)
(* since.                                                                   *)

Observation(s, type, k) ==
    CASE type = "exists"       -> s[AsPath(k)] # Nil
      [] type = "get"          -> s[AsPath(k)]
      [] type = "get_children" -> {p \in DirectChildrenRange(k) : s[p] # Nil}

\* A WatchHandle; what it has seen depends on the method that made it.
Handle ==
    [type : {"get", "exists", "get_children"}, key : Keys,
     seen : Entry \cup {Nil} \cup BOOLEAN \cup SUBSET Paths,
     next : Nat \ {0}, state : {"creating", "waiting", "fired", "failed"}, changed : BOOLEAN]

ASSUME HandlesAssumption == Nil \notin Handle

\* The keys a watch is about.
Watched(h) == IF h.type = "get_children" THEN DirectChildrenRange(h.key) ELSE {AsPath(h.key)}

\* Mutant: exists does not wait for the key to be created.
ExistsMissesPut(h, e) ==
    CASE h.type = "get"          -> TRUE
      [] h.type = "exists"       -> h.seen /\ e[1] = "DELETE"
      [] h.type = "get_children" -> e[1] = (IF e[2] \in h.seen THEN "DELETE" ELSE "PUT")

\* The lambdas given to make_watch_handle_: event e ends the wait.
StopsWaiting(h, e) ==
    CASE h.type = "get"          -> TRUE
      [] h.type = "exists"       -> e[1] = (IF h.seen THEN "DELETE" ELSE "PUT")
      [] h.type = "get_children" -> e[1] = (IF e[2] \in h.seen THEN "DELETE" ELSE "PUT")

\* Mutant: the watch begins at the revision that was read.
ThisRevision == Len(log)

\* response.header().revision() + 1
NextRevision == Len(log) + 1

NewHandle(o) ==
    [type |-> o.type, key |-> o.key, seen |-> Observation(kv, o.type, o.key),
     next |-> NextRevision, state |-> "creating", changed |-> FALSE]

\* The store of etcd becomes s.
Becomes(s) ==
    /\ kv' = s
    /\ log' = IF s = kv THEN log ELSE Append(log, Events(kv, s))
    /\ handle' = [c \in Clients |->
                    IF handle[c] # Nil /\ Observation(s, handle[c].type, handle[c].key) # handle[c].seen
                    THEN [handle[c] EXCEPT !.changed = TRUE] ELSE handle[c]]

-----------------------------------------------------------------------------
(* The transactions of the methods.  Answers are read off the responses. *)

Empty(response) == DOMAIN response.entries = {}

\* create, and cas with version 0
CreateTxn(k, v, owner) ==
    TxnRequest(ParentExists(k) \cup {Compare("not_exists", AsPath(k), 0)},
               <<PutRequest(AsPath(k), v, owner, FALSE)>>,
               <<RangeRequest({AsPath(k)})>>)

CreateAnswer(o, ok, resp) ==
    IF ok THEN Version(1)
    ELSE IF Empty(resp[1]) THEN Failure("NoEntry")
    ELSE IF o.type = "cas" THEN Version(0) ELSE Failure("EntryExists")

\* set, in a round that expects the key to have a lease or not to have one.
SetTxn(o, lsd) ==
    LET p == AsPath(o.key)
    IN  TxnRequest(ParentExists(o.key) \cup (IF lsd THEN {} ELSE {Compare("no_lease", p, 0)}),
                   <<PutRequest(p, o.val, Nil, lsd), RangeRequest({p})>>,
                   IF Parent(o.key) = Root THEN <<>> ELSE <<RangeRequest({AsPath(Parent(o.key))})>>)

\* set goes on to its next round.
SetRepeats(status, ok, resp) ==
    \/ status = "INVALID_ARGUMENT"
    \/ status = "OK" /\ ~ok /\ (resp # <<>> => ~Empty(resp[1]))

SetAnswer(o, ok, resp) ==
    IF ok THEN Version(resp[2].entries[AsPath(o.key)].ver) ELSE Failure("NoEntry")

CasTxn(o) ==
    LET p == AsPath(o.key)
    IN  TxnRequest({Compare("version", p, o.ver)},
                   <<PutRequest(p, o.val, Nil, TRUE), RangeRequest({p})>>,
                   <<RangeRequest({p})>>)

CasAnswer(o, ok, resp) ==
    IF ok THEN Version(resp[2].entries[AsPath(o.key)].ver)
    ELSE IF Empty(resp[1]) THEN Failure("NoEntry") ELSE Version(0)

EraseTxn(o) ==
    LET p == AsPath(o.key)
    IN  TxnRequest({IF o.ver # 0 THEN Compare("version", p, o.ver) ELSE Compare("exists", p, 0)},
                   <<DeleteRangeRequest({p}), DeleteRangeRequest(SubtreeRange(o.key))>>,
                   <<RangeRequest({p})>>)

EraseAnswer(ok, resp) == IF ~ok /\ Empty(resp[1]) THEN Failure("NoEntry") ELSE Version(0)

\* get and exists send a Range request, get_children a transaction.
ReadTxn(o) ==
    IF o.type = "get_children"
    THEN TxnRequest({Compare("exists", AsPath(o.key), 0)}, <<RangeRequest(DirectChildrenRange(o.key))>>, <<>>)
    ELSE TxnRequest({}, <<RangeRequest({AsPath(o.key)})>>, <<>>)

ReadAnswer(o, ok, resp) ==
    CASE o.type = "exists" ->
           Version(IF Empty(resp[1]) THEN 0 ELSE resp[1].entries[AsPath(o.key)].ver)
      [] o.type = "get" ->
           IF Empty(resp[1]) THEN Failure("NoEntry")
           ELSE Found(resp[1].entries[AsPath(o.key)].ver, resp[1].entries[AsPath(o.key)].val)
      [] o.type = "get_children" ->
           IF ~ok THEN Failure("NoEntry") ELSE ChildList({UnwrapKey(p) : p \in DOMAIN resp[1].entries})

-----------------------------------------------------------------------------
(* commit: what each operation adds to the transaction. *)

OpCompares(o) ==
    IF o.type = "create" THEN {Compare("not_exists", AsPath(o.key), 0)} \cup ParentExists(o.key)
    ELSE {Compare("exists", AsPath(o.key), 0)}

OpRequests(o, c) ==
    LET p == AsPath(o.key)
    IN  CASE o.type = "create" -> <<PutRequest(p, o.val, IF o.lease THEN c ELSE Nil, FALSE)>>
          [] o.type = "set"    -> <<PutRequest(p, o.val, Nil, FALSE), RangeRequest({p})>>
          [] o.type = "erase"  -> <<DeleteRangeRequest({p}), DeleteRangeRequest(SubtreeRange(o.key))>>

\* The keys looked up when the transaction fails, and whether each ought to exist.
Expected(o) ==
    IF o.type = "create"
    THEN <<<<o.key, FALSE>>>> \o (IF Parent(o.key) = Root THEN <<>> ELSE <<<<Parent(o.key), TRUE>>>>)
    ELSE <<<<o.key, TRUE>>>>

CommitTxn(o, c) ==
    LET keys == [i \in DOMAIN o.checks |-> o.checks[i].key]
                  \o FlattenSeq([i \in DOMAIN o.ops |-> [j \in DOMAIN Expected(o.ops[i]) |-> Expected(o.ops[i])[j][1]]])
    IN  TxnRequest({Compare("version", AsPath(o.checks[i].key), o.checks[i].ver) : i \in DOMAIN o.checks}
                     \cup UNION {OpCompares(o.ops[i]) : i \in DOMAIN o.ops},
                   FlattenSeq([i \in DOMAIN o.ops |-> OpRequests(o.ops[i], c)]),
                   [i \in DOMAIN keys |-> RangeRequest({AsPath(keys[i])})])

\* Where the responses of operation i begin when the transaction fails.
Offset(o, i) == Len(o.checks) + Len(FlattenSeq([j \in 1 .. i - 1 |-> Expected(o.ops[j])]))

CommitFailure(o, resp) ==
    LET checks == {i \in DOMAIN o.checks :
                     Empty(resp[i]) \/ resp[i].entries[AsPath(o.checks[i].key)].ver # o.checks[i].ver}
        ops    == {i \in DOMAIN o.ops : \E j \in DOMAIN Expected(o.ops[i]) :
                     Expected(o.ops[i])[j][2] = Empty(resp[Offset(o, i) + j])}
    IN  IF checks # {} THEN TxnFailed(Min(checks) - 1)
        ELSE IF ops # {} THEN TxnFailed(Len(o.checks) + Min(ops) - 1)
        ELSE Failure("ServiceError")

\* Mutant: the put request before the range request of a set is not skipped.
PutIndex(o, i) == i + Cardinality({j \in 1 .. i - 1 : o.ops[j].type = "set"})

\* total_op_number counts one request for a create or an erase and two for a set, although
\* an erase adds two; set_indices are found with it.
SetIndex(o, i) == i + 1 + Cardinality({j \in 1 .. i - 1 : o.ops[j].type = "set"})

\* A response that is not one to a range request: a null pointer is dereferenced.
Crash == <<"crash">>

CommitSuccess(o, resp) ==
    LET news == SelectSeq([i \in DOMAIN o.ops |-> <<o.ops[i].type, i>>], LAMBDA x : x[1] # "erase")
        Of(x) == IF x[1] = "create" THEN 1 ELSE resp[SetIndex(o, x[2])].entries[AsPath(o.ops[x[2]].key)].ver
    IN  IF \E i \in DOMAIN o.ops : o.ops[i].type = "set" /\ resp[SetIndex(o, i)].kind # "range"
        THEN Crash
        ELSE TxnResult([n \in DOMAIN news |-> OpResult(news[n][1], Of(news[n]))])

CommitAnswer(o, ok, resp) == IF ok THEN CommitSuccess(o, resp) ELSE CommitFailure(o, resp)

-----------------------------------------------------------------------------
(* Calls. *)

\* The transaction client c sends next.
TxnOf(c) ==
    LET o == op[c] IN
    CASE o.type = "create"            -> CreateTxn(o.key, o.val, IF o.lease THEN c ELSE Nil)
      [] o.type = "cas" /\ o.ver = 0  -> CreateTxn(o.key, o.val, Nil)
      [] o.type = "cas" /\ o.ver # 0  -> CasTxn(o)
      [] o.type = "set"               -> SetTxn(o, expect[c])
      [] o.type = "erase"             -> EraseTxn(o)
      [] o.type = "commit"            -> CommitTxn(o, c)
      [] OTHER                        -> ReadTxn(o)

\* What it makes of the store, when etcd accepts it.
Effect(c) == IF StatusOf(kv, live, TxnOf(c)) = "OK" THEN StoreAfter(kv, TxnOf(c)) ELSE kv

\* ensure_succeeded_
Raise(status) == Failure(IF status = "UNAVAILABLE" THEN "ConnectionLoss" ELSE "ServiceError")

Return(c, r) ==
    /\ pc' = [pc EXCEPT ![c] = "idle"]
    /\ op' = [op EXCEPT ![c] = Nil]
    /\ reply' = [reply EXCEPT ![c] = Nil]
    /\ res' = [res EXCEPT ![c] = r]
    /\ UNCHANGED <<lease, expect, calls>>

NeedsLease(o) ==
    \/ o.type = "create" /\ o.lease
    \/ o.type = "commit" /\ \E i \in DOMAIN o.ops : o.ops[i].type = "create" /\ o.ops[i].lease

IsRead(o) == o.type \in {"get", "exists", "get_children"}

Invoke(c, o) ==
    /\ pc[c] = "idle" /\ calls < MaxCalls
    /\ IsRead(o) => (o.watch => handle[c] = Nil)
    /\ calls' = calls + 1
    /\ op' = [op EXCEPT ![c] = o]
    /\ expect' = [expect EXCEPT ![c] = FALSE]
    /\ res' = [res EXCEPT ![c] = Nil]
    /\ pc' = [pc EXCEPT ![c] = IF NeedsLease(o) /\ ~lease[c] THEN "lease" ELSE "txn"]
    /\ UNCHANGED <<etcdVars, lease, reply, handle, losses>>

\* get_lease, create_lease_
GetLease(c) ==
    /\ pc[c] = "lease"
    /\ live' = live \cup {c}
    /\ lease' = [lease EXCEPT ![c] = TRUE]
    /\ pc' = [pc EXCEPT ![c] = "txn"]
    /\ UNCHANGED <<kv, log, op, expect, reply, res, calls, handle, losses>>

\* What client c learns from etcd's answer: the status, which list was carried out, and the
\* responses to it.
Status(c) == StatusOf(kv, live, TxnOf(c))
Ok(c)     == Succeeds(kv, TxnOf(c))
Resp(c)   == Responses(kv, TxnOf(c))

\* The transaction is carried out and the method returns r.
Send(c, r) ==
    /\ Becomes(Effect(c))
    /\ Return(c, IF Status(c) = "OK" THEN r ELSE Raise(Status(c)))
    /\ UNCHANGED <<live, losses>>

Calls(c, type) == pc[c] = "txn" /\ op[c].type = type

Create(c) ==
    /\ Calls(c, "create") \/ (Calls(c, "cas") /\ op[c].ver = 0)
    /\ Send(c, CreateAnswer(op[c], Ok(c), Resp(c)))

Cas(c) == Calls(c, "cas") /\ op[c].ver # 0 /\ Send(c, CasAnswer(op[c], Ok(c), Resp(c)))

Erase(c) == Calls(c, "erase") /\ Send(c, EraseAnswer(Ok(c), Resp(c)))

\* A null pointer ends the process: the transaction was carried out, nothing is returned.
CommitCrashes(c) == Status(c) = "OK" /\ CommitAnswer(op[c], Ok(c), Resp(c)) = Crash

Commit(c) ==
    /\ Calls(c, "commit") /\ ~CommitCrashes(c)
    /\ Send(c, CommitAnswer(op[c], Ok(c), Resp(c)))

Repeats(c) == SetRepeats(Status(c), Ok(c), Resp(c))

Set(c) == Calls(c, "set") /\ ~Repeats(c) /\ Send(c, SetAnswer(op[c], Ok(c), Resp(c)))

\* Mutant: set never looks for a leased key.
SameRound(b) == b

\* expect_lease = !expect_lease
OtherRound(b) == ~b

SetAgain(c) ==
    /\ Calls(c, "set") /\ Repeats(c)
    /\ expect' = [expect EXCEPT ![c] = OtherRound(@)]
    /\ UNCHANGED <<etcdVars, lease, pc, op, reply, res, calls, handle, losses>>

\* get, exists and get_children: the lookup.
Read(c) ==
    /\ pc[c] = "txn" /\ IsRead(op[c])
    /\ LET r == ReadAnswer(op[c], Ok(c), Resp(c)) IN
       IF op[c].watch /\ r # Failure("NoEntry")
       THEN /\ pc' = [pc EXCEPT ![c] = "watch"]
            /\ reply' = [reply EXCEPT ![c] = r]
            /\ handle' = [handle EXCEPT ![c] = NewHandle(op[c])]
            /\ UNCHANGED <<lease, op, expect, res, calls>>
       ELSE Return(c, r) /\ UNCHANGED handle
    /\ UNCHANGED <<etcdVars, losses>>

\* make_watch_handle_
MakeWatch(c) ==
    /\ pc[c] = "watch"
    /\ handle' = [handle EXCEPT ![c].state = "waiting"]
    /\ Return(c, reply[c])
    /\ UNCHANGED <<etcdVars, losses>>

Progress(c) ==
    \/ GetLease(c)
    \/ Create(c)
    \/ Set(c)
    \/ SetAgain(c)
    \/ Cas(c)
    \/ Erase(c)
    \/ Commit(c)
    \/ Read(c)
    \/ MakeWatch(c)

-----------------------------------------------------------------------------
(* Losses and failures. *)

\* The connection is lost: before or after etcd has carried out the transaction, or with
\* the reply that brings the lease.
LoseConnection(c) ==
    /\ losses < MaxLosses
    /\ losses' = losses + 1
    /\ \/ pc[c] = "txn" /\ (Becomes(kv) \/ Becomes(Effect(c)))
       \/ pc[c] = "lease" /\ Becomes(kv)
    /\ Return(c, Raise("UNAVAILABLE"))
    /\ UNCHANGED live

\* The stream fails: create_watch throws, or the handle gets the exception.
LoseWatch(c) ==
    /\ losses < MaxLosses
    /\ losses' = losses + 1
    /\ \/ /\ pc[c] = "watch"
          /\ handle' = [handle EXCEPT ![c] = Nil]
          /\ Return(c, Failure("ServiceError"))
       \/ /\ handle[c] # Nil /\ handle[c].state = "waiting"
          /\ handle' = [handle EXCEPT ![c].state = "failed"]
          /\ UNCHANGED clientVars
    /\ UNCHANGED etcdVars

\* The resolution thread hands the next revision to the handler.
Deliver(c) ==
    /\ handle[c] # Nil /\ handle[c].state = "waiting" /\ handle[c].next \in DOMAIN log
    /\ LET h == handle[c]
           stops == \E e \in log[h.next] : e[2] \in Watched(h) /\ StopsWaiting(h, e)
       IN  handle' = [handle EXCEPT ![c].next = @ + 1,
                                    ![c].state = IF stops THEN "fired" ELSE @]
    /\ UNCHANGED <<etcdVars, clientVars, losses>>

\* ETCDWatchHandle_::wait returns or throws, or the handle is destroyed.
EndHandle(c) ==
    /\ handle[c] # Nil /\ handle[c].state # "creating"
    /\ handle' = [handle EXCEPT ![c] = Nil]
    /\ UNCHANGED <<etcdVars, clientVars, losses>>

Dies(c) ==
    /\ pc' = [pc EXCEPT ![c] = "dead"]
    /\ op' = [op EXCEPT ![c] = Nil]
    /\ reply' = [reply EXCEPT ![c] = Nil]
    /\ UNCHANGED <<lease, expect, res, calls, losses>>

\* The client is destroyed, or its process crashes.
Die(c) ==
    /\ c \in Mortal /\ pc[c] # "dead"
    /\ Dies(c)
    /\ handle' = [handle EXCEPT ![c] = Nil]
    /\ UNCHANGED etcdVars

\* commit dies of the null pointer.
CrashInCommit(c) ==
    /\ Calls(c, "commit") /\ CommitCrashes(c)
    /\ Dies(c)
    /\ Becomes(Effect(c))
    /\ UNCHANGED live

\* No keep-alive message has reached etcd in time.
ExpireLease(c) ==
    /\ c \in Mortal \cap live
    /\ live' = live \ {c}
    /\ Becomes(WithoutLease(kv, c))
    /\ UNCHANGED <<clientVars, losses>>

Next ==
    \E c \in Clients :
        \/ \E o \in Ops : Invoke(c, o)
        \/ Progress(c)
        \/ LoseConnection(c)
        \/ LoseWatch(c)
        \/ Deliver(c)
        \/ EndHandle(c)
        \/ Die(c)
        \/ CrashInCommit(c)
        \/ ExpireLease(c)

Spec == Init /\ [][Next]_vars

-----------------------------------------------------------------------------
(* Properties. *)

\* wait() returns only if the watched state has differed from what the call that made the
\* handle observed: no event of an earlier revision, or of another key, ends it.
WatchSound == \A c \in Clients : handle[c] # Nil /\ handle[c].state = "fired" => handle[c].changed

\* A watch that has seen all events and still waits has missed nothing, although it was
\* created after the state it starts from was read: neither in between nor in a transaction
\* with several events nor at the end of a lease.
WatchComplete ==
    \A c \in Clients :
        handle[c] # Nil /\ handle[c].state = "waiting" /\ handle[c].next > Len(log) => ~handle[c].changed

\* etcd has been sent the transaction of a commit and carries it out.
CarriedOut(c) == Calls(c, "commit") /\ Status(c) = "OK" /\ Ok(c)

SetAfterErase(o) ==
    \E i, j \in DOMAIN o.ops : i < j /\ o.ops[i].type = "erase" /\ o.ops[j].type = "set"

\* The version of a set is found by counting the requests of the operations before it, and the
\* count leads to the lookup of its own key, whatever creates and sets come before it and
\* whatever follows.  A set after an erase is the exception, for which CommitReturns fails: no
\* other transaction makes the client read a response that is not there.
CommitReadsRightly ==
    \A c \in Clients : CarriedOut(c) =>
        LET o == op[c]
        IN  /\ \A i \in DOMAIN o.ops :
                  o.ops[i].type = "set" /\ (\A j \in 1 .. i - 1 : o.ops[j].type # "erase")
                    => Chosen(kv, TxnOf(c))[SetIndex(o, i)] = RangeRequest({AsPath(o.ops[i].key)})
            /\ CommitCrashes(c) => SetAfterErase(o)

\* What the usage example in the README of the repository says of a transaction whose checks
\* hold: commit returns the results of its sets and creates.
CommitReturns == \A c \in Clients : CarriedOut(c) => ~CommitCrashes(c)

\* set needs at most two rounds unless another client interferes between them: in no state
\* do the round that expects a lease and the one that does not both have to be repeated.
SetSettles ==
    \A c \in Clients : Calls(c, "set") =>
        \E lsd \in {expect[c], OtherRound(expect[c])} :
            LET t == SetTxn(op[c], lsd)
            IN  ~SetRepeats(StatusOf(kv, live, t), Succeeds(kv, t), Responses(kv, t))

=============================================================================
