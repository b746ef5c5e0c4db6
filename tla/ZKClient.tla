------------------------------ MODULE ZKClient ------------------------------
(***************************************************************************)
(* ZKClient (zk_client.hpp): the Client interface on top of ZooKeeper.     *)
(*                                                                         *)
(* Several clients share one service.  Every request a method sends is one *)
(* step, so the methods that send several (set, erase, commit and the      *)
(* constructor) interleave with each other between requests.  A multi_op   *)
(* is executed request by request on a copy of the tree while the service  *)
(* serves nobody else, and then installed or thrown away.                  *)
(*                                                                         *)
(* make_recursive_erase_query_ is a depth-first walk with one get_children *)
(* request per node.  The multi_op under construction is the sequence      *)
(* plan[c], in which a node still to be walked is a "visit" entry; the     *)
(* walk always continues at the first one.                                 *)
(***************************************************************************)
EXTENDS ZooKeeper

CONSTANTS
    VersionModulus, \* 2^w where w is the width of a ZooKeeper version (32 in the service)
    MaxCalls,       \* bound: calls made by all clients together
    MaxLosses,      \* bound: requests or replies lost with the connection
    Mortal          \* the clients that may crash or be destroyed

ASSUME BoundsAssumption ==
    /\ VersionModulus \in Nat \ {0} /\ VersionModulus % 2 = 0
    /\ MaxCalls \in Nat /\ MaxLosses \in Nat
    /\ Mortal \subseteq Clients

VARIABLES
    tree,       \* the nodes of the service
    session,    \* session[c]: the service still holds c's session
    multi,      \* the multi_op being executed by the service, or Nil
    pc,         \* pc[c]: the request client c sends next, "idle" between calls
    opened,     \* opened[c]: segments of the prefix the constructor has dealt with
    op,         \* op[c]: the call in progress, or Nil
    plan,       \* plan[c]: the multi_op under construction in erase and commit
    res,        \* res[c]: the answer to the last call, Nil while one is in progress
    handle,     \* handle[c]: the WatchHandle c holds, or Nil
    calls,      \* calls made so far (bounded by MaxCalls)
    losses      \* connection losses so far (bounded by MaxLosses)

clientVars == <<pc, opened, op, plan, res, calls>>
vars == <<tree, session, multi, clientVars, handle, losses>>

-----------------------------------------------------------------------------
(* Conversions between the user's world and ZooKeeper's. *)

\* as_path_string_
AsPath(k) == Join(Prefix, k)

\* A 64-bit integer narrowed to the width of a ZooKeeper version.
Narrow(n) ==
    LET m == n % VersionModulus
    IN  IF m >= VersionModulus \div 2 THEN m - VersionModulus ELSE m

\* version ? zk::version(version - 1) : zk::version::any()
ZkVersion(v) == IF v = 0 THEN ANY ELSE Narrow(v - 1)

\* 1 << 62, what set returns when it lost a race: a quarter of the 64-bit range.
LargeVersion == (VersionModulus * VersionModulus) \div 4

\* Mutant: the codes of zkpp leave the client as they are.
RethrowRaw(code) == code

\* rethrow_
Rethrow(code) ==
    CASE code = "no_entry"                   -> "NoEntry"
      [] code = "entry_exists"               -> "EntryExists"
      [] code = "connection_loss"            -> "ConnectionLoss"
      [] code = "no_children_for_ephemerals" -> "NoChildrenForEphemeral"
      [] OTHER                               -> "ServiceError"

-----------------------------------------------------------------------------
(* The multi_op built by erase and commit. *)

EraseQueryFailures == {"IGNORE_NO_ENTRY", "THROW_NO_ENTRY", "FAIL_TXN_ON_NO_ENTRY"}

\* An entry of a plan that stands for a call of make_recursive_erase_query_ yet to be made.
Visit(mode, p, u) == Request(mode, p, Nil, ANY, Nil, u)

IsVisit(r) == r.kind \in EraseQueryFailures

\* The places of a plan where a visit is still to be made.
Unvisited(q) == {i \in DOMAIN q : IsVisit(q[i])}

\* Mutant: the version asked for never gets into the multi_op.
ErasePlanUnversioned(o) ==
    LET p == AsPath(o.key)
    IN  <<CheckReq(p, ANY, 0), CheckReq(p, ANY, 0), Visit("THROW_NO_ENTRY", p, 0)>>

ErasePlan(o) ==
    LET p == AsPath(o.key)
    IN  <<CheckReq(p, ANY, 0), CheckReq(p, ZkVersion(o.ver), 0), Visit("THROW_NO_ENTRY", p, 0)>>

TxnOpRequest(o, c, u) ==
    LET p == AsPath(o.key)
    IN  CASE o.type = "create" -> CreateReq(p, o.val, IF o.lease THEN c ELSE Nil, u)
          [] o.type = "set"    -> SetReq(p, o.val, ANY, u)
          [] o.type = "erase"  -> Visit("FAIL_TXN_ON_NO_ENTRY", p, u)

CheckPart(o) ==
    [i \in 1..Len(o.checks) |-> CheckReq(AsPath(o.checks[i].key), ZkVersion(o.checks[i].ver), i - 1)]

OpPart(o, c) ==
    [i \in 1..Len(o.ops) |-> TxnOpRequest(o.ops[i], c, Len(o.checks) + i - 1)]

CommitPlan(o, c) == CheckPart(o) \o OpPart(o, c)

\* The plan at the head of each round of the loop in erase and commit.
FreshPlan(o, c) ==
    CASE o.type = "erase"  -> ErasePlan(o)
      [] o.type = "commit" -> CommitPlan(o, c)
      [] OTHER             -> <<>>

\* The service lists children in no particular order.
Listings(S) == {f \in [1..Cardinality(S) -> S] : \A i, j \in DOMAIN f : f[i] = f[j] => i = j}

\* What a visit turns into when its node exists and has the children kids: each child
\* is visited before the node is erased.
Expansion(r, kids) ==
    [i \in DOMAIN kids |-> Visit("IGNORE_NO_ENTRY", kids[i], r.user)] \o <<EraseReq(r.path, r.user)>>

\* Mutant: a key that is gone is skipped in a transaction too.
NoEntrySkipped(r) == <<>>

\* What it turns into when the node is gone; a THROW_NO_ENTRY visit throws instead.
NoEntryExpansion(r) ==
    IF r.kind = "FAIL_TXN_ON_NO_ENTRY" THEN <<EraseReq(r.path, r.user)>> ELSE <<>>

Splice(q, i, mid) == SubSeq(q, 1, i - 1) \o mid \o SubSeq(q, i + 1, Len(q))

\* boundaries[user_index] == real_index: no later request belongs to the same operation.
IsBoundary(q, i) == \A j \in i + 1 .. Len(q) : q[j].user # q[i].user

-----------------------------------------------------------------------------
(* Watches.  seen is what the call that made the handle observed. *)

\* Mutant: get_children registers the watch that get and exists do.
WatchEventOfNode(type) == "node"

WatchEvent(type) == IF type = "get_children" THEN "child" ELSE "node"

Observation(t, type, p) ==
    [there |-> NodeExists(t, p),
     node  |-> IF type = "get" THEN t[p] ELSE Nil,
     kids  |-> IF type = "get_children" THEN ChildrenOf(t, p) ELSE {}]

NewHandle(type, p) ==
    [type |-> type, path |-> p, seen |-> Observation(tree, type, p), fired |-> FALSE]

Triggered(h, events) == h # Nil /\ <<WatchEvent(h.type), h.path>> \in events

Notify(events) ==
    handle' = [c \in Clients |-> IF Triggered(handle[c], events)
                                 THEN [handle[c] EXCEPT !.fired = TRUE] ELSE handle[c]]

-----------------------------------------------------------------------------
Init ==
    /\ tree = [p \in Paths |-> Nil]
    /\ session = [c \in Clients |-> TRUE]
    /\ multi = Nil
    /\ pc = [c \in Clients |-> IF Prefix = Root THEN "idle" ELSE "opening"]
    /\ opened = [c \in Clients |-> 0]
    /\ op = [c \in Clients |-> Nil]
    /\ plan = [c \in Clients |-> <<>>]
    /\ res = [c \in Clients |-> Nil]
    /\ handle = [c \in Clients |-> Nil]
    /\ calls = 0
    /\ losses = 0

\* The code the client sees for a request the service answered with code: the reply may
\* be lost with the connection.
Seen(code) == {code} \cup (IF losses < MaxLosses THEN {"connection_loss"} ELSE {})

CountLoss(code) == losses' = IF code = "connection_loss" THEN losses + 1 ELSE losses

\* The method returns, or throws if r is a Failure or TxnFailed.
Return(c, r) ==
    /\ pc' = [pc EXCEPT ![c] = "idle"]
    /\ op' = [op EXCEPT ![c] = Nil]
    /\ plan' = [plan EXCEPT ![c] = <<>>]
    /\ res' = [res EXCEPT ![c] = r]
    /\ UNCHANGED <<opened, calls>>

Goto(c, label) ==
    /\ pc' = [pc EXCEPT ![c] = label]
    /\ UNCHANGED <<opened, op, plan, res, calls>>

\* The service is not in the middle of a multi_op and client c is about to send a request.
Ready(c, label) == multi = Nil /\ pc[c] = label

\* The service is executing the multi_op of client c.
Executing(c) == multi # Nil /\ multi.client = c

\* The service executes one request on its own.
Serve(r) ==
    /\ tree' = Served(tree, r)
    /\ Notify(Raised(tree, r))
    /\ UNCHANGED <<session, multi>>

-----------------------------------------------------------------------------
(* The constructor: create every node of the prefix that is not there yet. *)

\* Mutant: the last segment of the prefix is left out.
AllButOneOpened(n) == n + 1 >= Len(Prefix)

\* The loop over prefix_.segments() is over after n rounds.
AllOpened(n) == n = Len(Prefix)

Open(c) ==
    /\ Ready(c, "opening")
    /\ LET r == CreateReq(SubSeq(Prefix, 1, opened[c] + 1), Nil, Nil, 0) IN
       /\ Serve(r)
       /\ \E code \in Seen(ErrorCode(tree, r)) :
            /\ CountLoss(code)
            /\ IF code \in {"ok", "entry_exists"}
               THEN /\ opened' = [opened EXCEPT ![c] = @ + 1]
                    /\ pc' = [pc EXCEPT ![c] = IF AllOpened(opened'[c]) THEN "idle" ELSE @]
               ELSE /\ pc' = [pc EXCEPT ![c] = "dead"]
                    /\ UNCHANGED opened
    /\ UNCHANGED <<op, plan, res, calls>>

-----------------------------------------------------------------------------
(* A call begins.  The label is the first request the method sends. *)

FirstRequest(o) ==
    CASE o.type = "create"               -> "create"
      [] o.type = "cas" /\ o.ver = 0     -> "create"
      [] o.type = "cas" /\ o.ver # 0     -> "cas_set"
      [] o.type = "set"                  -> "set_create"
      [] o.type \in {"erase", "commit"}  -> "build"
      [] OTHER                           -> "read"

Invoke(c, o) ==
    /\ pc[c] = "idle" /\ calls < MaxCalls
    /\ FirstRequest(o) = "read" => (o.watch => handle[c] = Nil)
    /\ calls' = calls + 1
    /\ op' = [op EXCEPT ![c] = o]
    /\ plan' = [plan EXCEPT ![c] = FreshPlan(o, c)]
    /\ pc' = [pc EXCEPT ![c] = FirstRequest(o)]
    /\ res' = [res EXCEPT ![c] = Nil]
    /\ UNCHANGED <<tree, session, multi, opened, handle, losses>>

\* create, and cas with version 0, which turns EntryExists into the answer 0.
Create(c) ==
    /\ Ready(c, "create")
    /\ LET o == op[c]
           r == CreateReq(AsPath(o.key), o.val,
                          IF o.type = "create" /\ o.lease THEN c ELSE Nil, 0)
       IN  /\ Serve(r)
           /\ \E code \in Seen(ErrorCode(tree, r)) :
                /\ CountLoss(code)
                /\ Return(c, IF code = "ok" THEN Version(1)
                             ELSE IF o.type = "cas" /\ code = "entry_exists" THEN Version(0)
                             ELSE Failure(Rethrow(code)))

\* set, first request: try to create the key.
SetCreate(c) ==
    /\ Ready(c, "set_create")
    /\ LET r == CreateReq(AsPath(op[c].key), op[c].val, Nil, 0) IN
       /\ Serve(r)
       /\ \E code \in Seen(ErrorCode(tree, r)) :
            /\ CountLoss(code)
            /\ CASE code = "ok"           -> Return(c, Version(1))
                 [] code = "entry_exists" -> Goto(c, "set_set")
                 [] OTHER                 -> Return(c, Failure(Rethrow(code)))

\* Mutant: a set that finds the key gone reports it.
LostSetThrows == Failure("NoEntry")

\* The key was removed between the two requests: "set must not throw NoEntry".
LostSet == Version(LargeVersion)

\* set, second request: it exists, so overwrite it.  This runs inside the handler of
\* entry_exists, where only no_entry is caught: any other error leaves untranslated.
SetSet(c) ==
    /\ Ready(c, "set_set")
    /\ LET p == AsPath(op[c].key)
           r == SetReq(p, op[c].val, ANY, 0)
       IN  /\ Serve(r)
           /\ \E code \in Seen(ErrorCode(tree, r)) :
                /\ CountLoss(code)
                /\ Return(c, CASE code = "ok"       -> Version(tree'[p].ver + 1)
                               [] code = "no_entry" -> LostSet
                               [] OTHER             -> Failure(BackendError))

CasSet(c) ==
    /\ Ready(c, "cas_set")
    /\ LET p == AsPath(op[c].key)
           r == SetReq(p, op[c].val, Narrow(op[c].ver - 1), 0)
       IN  /\ Serve(r)
           /\ \E code \in Seen(ErrorCode(tree, r)) :
                /\ CountLoss(code)
                /\ Return(c, CASE code = "ok"               -> Version(tree'[p].ver + 1)
                               [] code = "version_mismatch" -> Version(0)
                               [] OTHER                     -> Failure(Rethrow(code)))

-----------------------------------------------------------------------------
(* get, exists and get_children: one request, which may leave a watch. *)

ReadCode(o) == IF o.type = "exists" \/ tree[AsPath(o.key)] # Nil THEN "ok" ELSE "no_entry"

\* get_children appends the names the service returns to the key.
ChildKeys(k) == {Append(k, Last(p)) : p \in ChildrenOf(tree, AsPath(k))}

ReadAnswer(o) ==
    LET n == tree[AsPath(o.key)] IN
    CASE o.type = "exists"       -> Version(IF n = Nil THEN 0 ELSE n.ver + 1)
      [] o.type = "get"          -> Found(n.ver + 1, n.val)
      [] o.type = "get_children" -> ChildList(ChildKeys(o.key))

Read(c) ==
    /\ Ready(c, "read")
    /\ \E code \in Seen(ReadCode(op[c])) :
         /\ CountLoss(code)
         /\ Return(c, IF code = "ok" THEN ReadAnswer(op[c]) ELSE Failure(Rethrow(code)))
         /\ handle' = IF code = "ok" /\ op[c].watch
                      THEN [handle EXCEPT ![c] = NewHandle(op[c].type, AsPath(op[c].key))]
                      ELSE handle
    /\ UNCHANGED <<tree, session, multi>>

-----------------------------------------------------------------------------
(* erase and commit: walk the subtrees to erase, then submit the multi_op. *)

\* One get_children request of make_recursive_erase_query_.  Errors other than no_entry
\* are not caught there, nor around the calls in erase and commit.
Walk(c) ==
    /\ Ready(c, "build")
    /\ \E i \in Unvisited(plan[c]) :
         /\ \A j \in Unvisited(plan[c]) : i <= j
         /\ LET r == plan[c][i] IN
            \E code \in Seen(IF tree[r.path] # Nil THEN "ok" ELSE "no_entry") :
              /\ CountLoss(code)
              /\ CASE code = "connection_loss" -> Return(c, Failure(BackendError))
                   [] code = "no_entry" /\ r.kind = "THROW_NO_ENTRY" -> Return(c, Failure("NoEntry"))
                   [] OTHER ->
                        /\ \E kids \in Listings(ChildrenOf(tree, r.path)) :
                             plan' = [plan EXCEPT ![c] =
                                        Splice(@, i, IF code = "ok" THEN Expansion(r, kids)
                                                     ELSE NoEntryExpansion(r))]
                        /\ UNCHANGED <<pc, opened, op, res, calls>>
    /\ UNCHANGED <<tree, session, multi, handle>>

\* client_.commit(txn): the service begins to execute the multi_op.
Submit(c) ==
    /\ Ready(c, "build") /\ Unvisited(plan[c]) = {}
    /\ multi' = [client |-> c, next |-> 1, tree |-> tree, events |-> {}, versions |-> <<>>]
    /\ UNCHANGED <<tree, session, clientVars, handle, losses>>

\* What the successful request r adds to the TransactionResult: the version of a created
\* key is not read from the reply.
ResultOf(r, t) ==
    CASE r.kind = "create" -> <<OpResult("create", 1)>>
      [] r.kind = "set"    -> <<OpResult("set", t[r.path].ver + 1)>>
      [] OTHER             -> <<>>

MultiStep(c) ==
    /\ Executing(c) /\ multi.next <= Len(plan[c])
    /\ LET r == plan[c][multi.next]
           t == Apply(multi.tree, r)
       IN  /\ ErrorCode(multi.tree, r) = "ok"
           /\ multi' = [client |-> c, next |-> multi.next + 1, tree |-> t,
                        events |-> multi.events \cup Events(r),
                        versions |-> multi.versions \o ResultOf(r, t)]
    /\ UNCHANGED <<tree, session, clientVars, handle, losses>>

\* Mutant: erase repeats on a version mismatch too.
EraseFailedRepeats(i) == IF i = 1 THEN Failure("NoEntry") ELSE <<"retry">>

\* The reaction to transaction_failed with index i (counted from 1): "retry" or an answer.
EraseFailed(i) ==
    CASE i = 1 -> Failure("NoEntry")
      [] i = 2 -> Version(0)
      [] OTHER -> <<"retry">>

CommitFailed(q, i) == IF IsBoundary(q, i) THEN TxnFailed(q[i].user) ELSE <<"retry">>

\* Request number multi.next fails: the multi_op is rolled back.
MultiFail(c) ==
    /\ Executing(c) /\ multi.next <= Len(plan[c])
    /\ ErrorCode(multi.tree, plan[c][multi.next]) # "ok"
    /\ multi' = Nil
    /\ \E code \in Seen("transaction_failed") :
         /\ CountLoss(code)
         /\ LET verdict == IF op[c].type = "erase" THEN EraseFailed(multi.next)
                           ELSE CommitFailed(plan[c], multi.next)
            IN  CASE code = "connection_loss" -> Return(c, Failure(Rethrow(code)))
                  [] code # "connection_loss" /\ verdict = <<"retry">> ->
                       /\ plan' = [plan EXCEPT ![c] = FreshPlan(op[c], c)]
                       /\ UNCHANGED <<pc, opened, op, res, calls>>
                  [] OTHER -> Return(c, verdict)
    /\ UNCHANGED <<tree, session, handle>>

\* Every request succeeded: the multi_op takes effect.
MultiDone(c) ==
    /\ Executing(c) /\ multi.next > Len(plan[c])
    /\ tree' = multi.tree
    /\ multi' = Nil
    /\ Notify(multi.events)
    /\ \E code \in Seen("ok") :
         /\ CountLoss(code)
         /\ Return(c, IF code # "ok" THEN Failure(Rethrow(code))
                      ELSE IF op[c].type = "erase" THEN Version(0)
                      ELSE TxnResult(multi.versions))
    /\ UNCHANGED session

-----------------------------------------------------------------------------
\* A request is lost before it reaches the service.
LoseRequest(c) ==
    /\ ~Executing(c)
    /\ losses < MaxLosses
    /\ losses' = losses + 1
    /\ \/ /\ pc[c] = "opening"
          /\ Goto(c, "dead")
       \/ /\ pc[c] = "set_set" \/ (pc[c] = "build" /\ Unvisited(plan[c]) # {})
          /\ Return(c, Failure(BackendError))
       \/ /\ \/ pc[c] \in {"create", "set_create", "cas_set", "read"}
             \/ pc[c] = "build" /\ Unvisited(plan[c]) = {}
          /\ Return(c, Failure("ConnectionLoss"))
    /\ UNCHANGED <<tree, session, multi, handle>>

\* ZKWatchHandle_::wait returns when the event of its watch arrives, or rethrows the error
\* that came in its place.
WaitEnds(c) ==
    /\ handle[c] # Nil
    /\ \/ handle[c].fired /\ UNCHANGED losses
       \/ losses < MaxLosses /\ losses' = losses + 1
    /\ handle' = [handle EXCEPT ![c] = Nil]
    /\ UNCHANGED <<tree, session, multi, clientVars>>

\* A handle is destroyed without having been waited for.
DropHandle(c) ==
    /\ handle[c] # Nil
    /\ handle' = [handle EXCEPT ![c] = Nil]
    /\ UNCHANGED <<tree, session, multi, clientVars, losses>>

\* The client object is destroyed, or its process crashes, at any point.
Die(c) ==
    /\ c \in Mortal /\ pc[c] # "dead"
    /\ ~Executing(c)
    /\ pc' = [pc EXCEPT ![c] = "dead"]
    /\ op' = [op EXCEPT ![c] = Nil]
    /\ plan' = [plan EXCEPT ![c] = <<>>]
    /\ handle' = [handle EXCEPT ![c] = Nil]
    /\ UNCHANGED <<tree, session, multi, opened, res, calls, losses>>

\* The service closes the session of a dead client and removes its ephemeral nodes.
EndSession(c) ==
    /\ Ready(c, "dead") /\ session[c]
    /\ session' = [session EXCEPT ![c] = FALSE]
    /\ tree' = WithoutSession(tree, c)
    /\ Notify(SessionEvents(tree, c))
    /\ UNCHANGED <<multi, clientVars, losses>>

-----------------------------------------------------------------------------
\* The steps that carry a call, or the constructor, forward.
Progress(c) ==
    \/ Open(c)
    \/ Create(c)
    \/ SetCreate(c)
    \/ SetSet(c)
    \/ CasSet(c)
    \/ Read(c)
    \/ Walk(c)
    \/ Submit(c)
    \/ MultiStep(c)
    \/ MultiFail(c)
    \/ MultiDone(c)

Next ==
    \E c \in Clients :
        \/ \E o \in Ops : Invoke(c, o)
        \/ Progress(c)
        \/ LoseRequest(c)
        \/ WaitEnds(c)
        \/ DropHandle(c)
        \/ Die(c)
        \/ EndSession(c)

Spec == Init /\ [][Next]_vars

\* A thread inside a method keeps running, the service answers, and it closes the
\* sessions of dead clients; nobody is obliged to make calls or to fail.
Fairness == \A c \in Clients : WF_vars(Progress(c)) /\ WF_vars(EndSession(c))

FairSpec == Spec /\ Fairness

-----------------------------------------------------------------------------
(* Properties. *)

Labels == {"opening", "idle", "dead", "create", "set_create", "set_set", "cas_set", "read", "build"}

Visits ==
    [kind : EraseQueryFailures, path : Paths, val : {Nil}, ver : {ANY}, eph : {Nil}, user : Nat]

MultiType ==
    [client : Clients, next : Nat \ {0}, tree : Tree,
     events : SUBSET ({"node", "child"} \X (Paths \cup {Root})),
     versions : Seq({"create", "set"} \X Nat)]

Sight == [there : BOOLEAN, node : ZNode \cup {Nil}, kids : SUBSET Paths]

HandleType ==
    [type : {"get", "exists", "get_children"}, path : Paths, seen : Sight, fired : BOOLEAN]

\* Every variable keeps its type; a call in progress is at a request its method sends.
TypeOK ==
    /\ tree \in Tree
    /\ session \in [Clients -> BOOLEAN]
    /\ multi \in MultiType \cup {Nil}
    /\ pc \in [Clients -> Labels]
    /\ opened \in [Clients -> 0..Len(Prefix)]
    /\ op \in [Clients -> Op \cup {Nil}]
    /\ plan \in [Clients -> Seq(Requests \cup Visits)]
    /\ res \in [Clients -> Answer \cup {Nil}]
    /\ handle \in [Clients -> HandleType \cup {Nil}]
    /\ calls \in 0..MaxCalls
    /\ losses \in 0..MaxLosses

\* As long as the event of a watch has not been raised, get, exists or get_children would
\* observe what the call that made the handle observed: wait() misses no change, even one
\* between that call and wait(), or one made by a multi_op or by the end of a session.
WatchFaithful ==
    \A c \in Clients : handle[c] # Nil /\ ~handle[c].fired =>
        Observation(tree, handle[c].type, handle[c].path) = handle[c].seen

\* Once the constructor of a client has finished, every node of the prefix exists and stays,
\* whatever this or another client erases and whichever session ends.
PrefixReady ==
    \A c \in Clients : pc[c] \notin {"opening", "dead"} =>
        \A i \in 1..Len(Prefix) : tree[SubSeq(Prefix, 1, i)] # Nil

\* An erase that returns normally has removed the key with everything below it and nothing
\* else, in one step, although it walked the subtree with other clients at work; or it has
\* changed nothing because the version of the key was not the one asked for.
EraseReturns(c) ==
    /\ op[c] # Nil /\ op[c].type = "erase"
    /\ op'[c] = Nil /\ pc'[c] = "idle" /\ res'[c] = Version(0)

EraseExact ==
    [][\A c \in Clients : EraseReturns(c) =>
         LET p == AsPath(op[c].key)
         IN  /\ tree[p] # Nil
             /\ tree' = IF ZkVersion(op[c].ver) \in {ANY, tree[p].ver}
                        THEN [q \in Paths |-> IF InSubtree(p, q) THEN Nil ELSE tree[q]]
                        ELSE tree]_vars

\* Every call returns or throws: the retry loops of erase and commit end once the other
\* clients stop interfering, and nobody waits for anybody else.
EveryCallReturns == \A c \in Clients : op[c] # Nil ~> op[c] = Nil

=============================================================================
