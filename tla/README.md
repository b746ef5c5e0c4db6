# Verification of liboffkv

liboffkv gives one interface (`Client`) to three services that keep a hierarchy of versioned
keys: ZooKeeper, etcd and Consul. This directory models the library in TLA+: what the
interface promises, how the backends implement it on top of their services, and the threads
the backends run. TLC checks the models on small instances and TLAPS proves the most
important invariants for every value of the constants.

`PROJECT.json` lists components, runs, mutants, hazards, findings and theorems, and maps each
definition to the lines it models. Paths below are relative to `src/liboffkv/`.

## 1. The system

| Component | State it keeps | Operations | Talks to |
|---|---|---|---|
| `Client` (`client.hpp`, `errors.hpp`) | `prefix_` | create, exists, get_children, set, cas, get, erase, commit; answers with versions, children, `TransactionResult`, or an exception | the user |
| `Path`, `Key` (`key.hpp`) | a string | parsing, validation, parent, `/` | everybody |
| `ZKClient` (`zk_client.hpp`) | the zkpp client | every method as one or several ZooKeeper requests; constructor creates the prefix | ZooKeeper |
| `ETCDWatchCreator` (`etcd_client.hpp` 34-245) | stream, handlers by watch id, the pending handler, the write that is out, one resolution thread | create_watch, watch_resolution_loop_, destructor | gRPC, caller threads |
| `LeaseIssuer` (248-307) | `lease_id_`, a `PingSender` | get_lease, keep-alive callback | etcd, `PingSender` |
| `ETCDTransactionBuilder`, `ETCDClient` (310-937) | channel, watch creator, lease issuer | every method as an etcd transaction | etcd |
| `ConsulClient` (`consul_client.hpp`) | session id, a `PingSender` | every method as a Consul transaction; blocking queries as watches | Consul |
| `PingSender` (`ping_sender.hpp`) | a heap block shared with a detached thread | construct, move, destroy; the thread waits and calls back | LeaseIssuer, ConsulClient |
| C binding (`clib.cpp`, `clib.h`) | handles | the methods as C functions with error codes | C callers |
| `open` (`liboffkv.hpp`), `util.hpp` | none | chooses the backend by address | the user |

What is hard about it, and the properties that make each part correct:

- **Contract.** Every call takes effect atomically at one instant and its answer fits that
  instant; a failed call changes nothing unless the connection was lost.
- **ZKClient.** `set` sends two requests, `erase` and `commit` walk a subtree with one request
  per node before they commit: other clients change the tree in between. The index of the
  failed request decides what a method does next. Versions are 64 bits wide for the user and
  32 for ZooKeeper. Watches must not lose a change. Retry loops must end.
- **ETCDWatchCreator.** Callers and the resolution thread share a stream on which one write at
  a time may be out; handlers are matched to watch ids by order alone; the stream may fail and
  the object be destroyed at any point.
- **ETCDClient.** A transaction must tell apart all the cases of the contract with comparisons
  evaluated up front; leases expire; `set` guesses whether a key is leased; a watch starts
  after the state it watches was read.
- **PingSender.** Owner and detached thread share a block that the thread deletes: no use
  after free, no lost wakeup, no leak.
- **LeaseIssuer**, and the session of **ConsulClient**. What was handed out must be renewed in
  time, by one thread, across delays and outages, and must end with the client.
- **ConsulClient.** The position of a failed operation, or of a result, has to be traced back to
  the user's operation; blocking queries compare an index, and end by timeout as well.
- **C binding, Path, open.** Any allocation may fail half way; every exception has to become a
  code; the text of a key has to mean the path the backends make of it.

The complete list, line by line, is under `hazards` in `PROJECT.json`.

## 2. The modules

| Module | Models |
|---|---|
| `ClientAPI` | calls, answers and paths: the vocabulary of all backends |
| `OffKV` | the contract: an atomic hierarchical store |
| `ZooKeeper` | the service `ZKClient` relies on (external) |
| `ZKClient` | `zk_client.hpp`, several clients on one service |
| `ZKRefinement` | `ZKClient` implements `OffKV` |
| `ETCD` | etcd's transactions (external), and the requests `ETCDTransactionBuilder` puts into them |
| `ETCDClient` | `ETCDClient` with its transactions, leases and watches |
| `ETCDRefinement` | `ETCDClient` implements `OffKV` |
| `ETCDWatchCreator` | the watch stream of one etcd client and its threads |
| `Consul` | the service `ConsulClient` relies on (external) |
| `ConsulClient` | `consul_client.hpp`, several clients on one service |
| `ConsulRefinement` | `ConsulClient` implements `OffKV` |
| `LeaseIssuer` | how an etcd client keeps its lease and a Consul client its session, in time |
| `PingSender` | `ping_sender.hpp` |
| `PathText` | `key.hpp` on texts |
| `CBinding` | `clib.cpp`, `clib.h`, and `open` with `split_url` |
| `ZKClientProofs`, `ZKSafetyProofs`, `ETCDClientProofs`, `ETCDWatchProofs`, `ConsulProofs`, `LeaseIssuerProofs`, `PingSenderProofs`, `CBindingProofs` | theorems and lemmas |
| `MCOps`, `MCZKClient`, `MCZKRefinement`, `MCETCDClient`, `MCConsulClient`, `MCLeaseIssuer`, `MCCBinding` | instances for TLC |

Operators whose comment begins with "Mutant" are not part of the model: each is a plausible
bug, named in `PROJECT.json`, with which TLC must find the property it is paired with violated.

### The contract: `OffKV`

`Execute(s, o, c)` says what call `o` of client `c` does to store `s` and answers. A call is
invoked, takes effect (`Perform`, or `Effect` and later `Respond`) and is answered. What the
contract says comes from the repository's README and `tests/unit_tests.cpp`; where both are
silent, from what the ZooKeeper backend answers (a cas with a version on a missing key throws
`NoEntry`, `unit_tests.cpp:234`; `NoChildrenForEphemeral`). What is left open is explicit:

- `Interruptions`: exceptions that leave open whether the call took effect;
- an *absorbed* set: if another call, at the instant it took effect, would have hidden a set in
  progress completely, that set may be answered without a trace (the key was removed while it
  ran). Linearizability allows this, and `zk_client.hpp:205-209` relies on it;
- `clock`: whether each key counts its own changes (ZooKeeper, etcd) or a change takes the next
  number of one counter (Consul), which then never repeats;
- `Divergences`: the ways in which a backend is known to differ. A refinement names those of its
  backend and no other, so that it shows that there are no more:

| Liberty | Taken by | Because of |
|---|---|---|
| `erase_conflict` | ZooKeeper | a commit takes a child that appeared after its walk for a failure of the erase (`zk_client.hpp:341`) |
| `lost_set` | ZooKeeper | a set whose key was removed does nothing and reports success (`zk_client.hpp:208`) |
| `any_version` | ZooKeeper | the number it reports is narrowed to "any version" (`zk_client.hpp:232`) |
| `ephemeral_parent` | etcd, Consul | nothing looks whether the parent has a lease (`etcd_client.hpp:600`, `consul_client.hpp:138`) |
| `txn_set_ends_lease` | etcd | `etcd_client.hpp:861` puts without `ignore_lease` |
| `parent_first` | Consul | the parent of an orphan is looked up before the key (`consul_client.hpp:138`, 227) |
| `lost_lease` | Consul | a Lock with a session that has expired fails (`consul_client.hpp:369`) |

### `ZKClient`

One step per request. `pc[c]` is the request client `c` sends next: `opening` (a segment of the
prefix), `create`, `set_create`, `set_set`, `cas_set`, `read`, `build`. `plan[c]` is the
`multi_op` under construction: a node that `make_recursive_erase_query_` has still to look at
is a visit entry, and `Walk` replaces the first one by visits of the children and the erase of
the node, in any order of children. `Submit`, `MultiStep`, `MultiFail` and `MultiDone` execute
the `multi_op` on a copy of the tree while the service serves nobody else. `IsBoundary` is
`boundaries[user_index] == real_index`. Errors outside a `try` that translates them
(`set_set`, the walk) are the answer `BackendError`. A connection can be lost before the request
reaches the service (`LoseRequest`) or with the reply (`Seen`). A handle records what its call
observed; the service raises "node" and "child" events. `WaitEnds` is `wait()` returning because
the event has come, or throwing because the connection was lost. A client may die at any point outside
a `multi_op`, and its session ends some time later with its ephemeral nodes. The session of a
client that is alive does not expire.

Conversions: paths are sequences of segments; versions are off by one and narrowed
(`Narrow`) as `zk::version(version - 1)` does, with `VersionModulus` for 2^32 and `LargeVersion`,
a quarter of its square, for `1 << 62`.

### `ETCDClient`

`ETCD` models a transaction by what it does: comparisons on the store, one of two lists of
operations, a response per operation. etcd refuses lists that put a key twice or put what they
delete, so the effect of a list needs no order. `ETCDClient` translates each method into its
transaction (`CreateTxn`, `SetTxn`, `CommitTxn`...) and the responses back
(`CreateAnswer`...), with the positions of the responses computed as the code computes them.
Keys of etcd keep the NUL the code puts before the last segment, as a token of its own; the two
ranges and `unwrap_key_` work on it. `set` is a loop over `expect`. A leased create gets the
lease in a step of its own. A read with a watch is two steps, the lookup and `MakeWatch`; the
events of every revision are in `log` and `Deliver` hands them to the handle one revision at a
time. The field `changed` of a handle is history, for the two watch properties only. The lease
of a client in `Mortal` may expire at any time, dead or alive. A commit that dereferences a null
pointer ends the client (`CrashInCommit`), after etcd has carried the transaction out.

### `ConsulClient`

`Consul` runs the operations of a transaction in turn on a copy of the store, all with one new
index; any failure leaves the store alone and reports the positions that failed. Keys know their
ModifyIndex and session, deleted keys leave a tombstone. `ConsulClient` translates each method into
its operations and the results, or the first position that failed, back: `Boundary` and
`UserOpIndex` are `boundaries` and `std::lower_bound`, `Kinds` is `result_kinds`. `create` and
`commit` with a lease ask for a session first, in a step of their own, outside of any `try`. A
watch is a blocking query that Consul answers when the index of the answer has passed the one the
handle was made with (`Answered`); `WaitTimesOut` is `WATCH_TIMEOUT`. Lost requests and replies end
as exceptions of ppconsul (`BackendError`), refusals as `ServiceError`. The session of a client in
`Mortal` may expire at any time; its id is kept.

What is assumed of Consul, from its documentation: a write of the same value takes a new index; the
index of a query for a missing key or an empty prefix is that of the last change of any key;
tombstones are not reaped while a watch is out; nothing else in Consul moves the index.

### `LeaseIssuer`

Both backends do the same: the first call that needs a lease gets one, stores its id and assigns a
new `PingSender`, whose thread renews the lease every `(TTL + 1) / 2`. `backend` chooses between
the two orders (etcd starts the thread and then stores the id, Consul the other way round) and what
an outage does (etcd's stream is broken for good). User threads, ping threads and the service
interleave at every request, reply and assignment. Time is a tick that waits until everything
that is due has happened: threads and the service are prompt, a request with its reply takes at most
`MaxDelay`, an outage at most `MaxOutage`. A callback that failed returns zero and is called again
at once; of the attempts of such a spinning thread only the one that succeeds is a step. The wait of
`PingSender` is in the module of that name.

`ping_sender_ = PingSender(...)` is three steps, since no lock protects it: the construction (`SetUp`),
`destroy_()` of what is there (`DestroySender`) and the assignment of the pointer (`Assign`). Two threads
can both find nothing to close and both assign; the block that is overwritten is then out of reach and
its thread renews for ever. They can also both close the same block: when its thread has deleted it
after the first close, the second is undefined behaviour (`DestroyFreed`), which does no harm or ends
the process. `pinged` is the lease a thread renews: the callback of Consul copies `session_id_`
after it was stored, and may copy the other thread's. That two threads write one pointer or one
string at the same instant is not looked into further than that; `raced` marks such behaviours.

`SlackAssumption` is what the code relies on without saying so: half the time to live, two delays
(that of the last reply and that of the renewal), and a delay and an outage for every outage must stay
below the time to live. With one delay less TLC finds a lease that is lost.

### `PathText` and `CBinding`

`PathText` follows the loops of `key.hpp` on sequences of characters; the characters are a slash, a
dot, a printable and an unprintable one, and a short text stands for the name `zookeeper`.

`CBinding` is one C program that opens a handle, calls, waits, frees and closes in any order. A
call parses its keys (`Start`); then the client's method throws, or returns and its results are
copied, each allocation with a way to fail. What the methods of each backend may throw (`Throws`) is
read off the three clients; the `std::system_error` of a thread that cannot be started is among it, where
the method may start one (`LeaseThread`, `WatchThread`). The heap is a number of blocks; `held` counts the objects the caller
has been given. An exception that `to_errcode` does not know leaves through the `extern "C"`
function and ends the process (`escaped`). `open` converts the prefix before it looks at the URL;
URLs are sequences of tokens of which `://` is one.

### `ETCDWatchCreator`

All members are guarded by `lock_`, so what a thread does between taking and giving back the
mutex is one step; waits on condition variables are the guards of the next step, since each
change of a condition notifies a waiter. Operations of the stream complete in any order into a
queue that is first in, first out. A broken stream fails the operations that are out; what was
received before can still be read. Undefined behaviour (a null stream, a null promise, work on a
queue that was shut down, reuse of the `ClientContext`, a response deleted while a `Read` into it is
out) ends in `crashed`. `cancelling` is the
resolution thread waiting at line 203: it has no step, because no other thread resolves writes.

### `PingSender`

Heap, mutex, condition variable, owner and thread, one step between two operations on them.
A block that was deleted is not allocated again, so a use after free shows. Spurious wakeups,
timeouts, failing thread creation, self-moves and moves between senders are actions.

## 3. What TLC checks

| Run | Instance | Shows |
|---|---|---|
| `zk_calls` | 3 clients, 4 calls; 1 key, all single-key methods with the versions 0, 1 and `1 << 62`, 1 loss, 1 crash, or 3 keys, erases and transactions over a subtree | `LinearizableUpToConflicts`: ZKClient implements OffKV with three named exceptions |
| `zk_client` | 2 clients, prefix of 2 segments, 3 keys, 4 calls, 1 loss, 1 crash | `TypeOK`, `WatchFaithful`, `PrefixReady`, `EraseExact`, `EveryCallReturns` |
| `etcd_client` | 2 clients, 3 keys, 4 calls, 1 loss, 1 crash or expired lease | `Linearizable`, `WatchSound`, `WatchComplete`, `CommitReadsRightly`, `SetSettles` |
| `consul_client` | 2 clients, prefix of 1 segment, 3 keys, 4 calls, 1 loss, 1 crash or expired session | `Linearizable`, `WatchComplete`, `ChangeNoticed` |
| `etcd_watch` | 2 callers, 2 events, 1 failure | `HandlersPaired`, `SettledAtJoin`, `CancelWaitsForEver`, `WritesInTurn`, `CreateReturns`, `DestructorReturns` |
| `lease_issuer` | 2 threads, 2 leases, TTL 10, delays up to 1, 1 outage of 1, or 3 threads and 3 leases at one instant | `LeaseKept`, `SenderUsable`, `LeasesEnd` |
| `ping_sender` | 3 senders, 2 blocks | `NoUseAfterFree`, `NoLostWakeup`, `Reclaimed` |
| `c_binding` | 6 URLs, 3 prefixes, 4 keys, lists of up to 2 children, a heap of 5 blocks; texts of up to 5 characters | `HeapBalanced`, `ErrorsCoded`, `CallerTold`, `PathsAgree` |
| `zk_commit_loop`, `etcd_watch_stuck`, `etcd_check_zero`, `etcd_set_after_erase` | 1 or 2 clients | violations of what a document of the repository says; see section 5 |

Bounds, and why they are enough:

- `MaxCalls` = 4: one call to build what the others work on, and three that overlap. A race in
  the code is between two calls, or between a call and two changes during its walk.
- `MaxLosses` = 1: nothing in the code counts losses; after one the client is as before.
- keys `a`, `a/b`, `a/c`: a parent, and two children so that a walk can be disturbed after the
  first and before the second.
- `VersionModulus` = 16: versions stay far below it; only `LargeVersion` reaches the wraparound.
- `MaxEvents` = 2: one event that makes the resolution thread write and one that meets the write.
  `MaxFailures` = 1: after one failure the `ClientContext` is used up.
- 2 control blocks and 3 senders: two owners to move between, and a third as the source.
- 2 leases and 2 threads: the race in `get_lease` takes two of each. Three are what it takes to close
  a block twice: one thread to install it and two to replace it. They do so while the clock stands
  still, since none of their steps takes time; what time does to leases is left to two. TTL 10 is the code's number;
  delay and outage of 1 are the largest that `SlackAssumption` allows for it.
- a heap of 5 blocks: the handle, a watch and a list of two children fit, a second list does not.
- texts of 5 characters: two segments with an empty one or a trailing slash, `..` and the reserved
  name below another segment.

`zk_calls` uses that the two clients that do not die are alike (`Alike`): its property is about single
steps, for which symmetry is sound. `lease_issuer` has the service grant the first of the leases it can
grant, since leases are alike (`InOrder`).

`CHECK_DEADLOCK FALSE` is set in all runs because the bounds stop the systems.

Fairness:

- `ZKClient`: `WF` of `Progress(c)` and of `EndSession(c)`. A thread inside a method runs, the
  service answers every request and ends sessions of dead clients. Nobody is obliged to call.
- `ETCDWatchCreator`: `WF` of the resolution thread, of etcd and of the completion of each
  operation; `SF` of a caller, which competes for the mutex and for conditions that other callers
  may take away; the condition variables wake waiters in some fair order.
- `PingSender`: `WF` of the threads (timeouts are finite and callbacks return), `SF` of locking
  the mutex.
- `ConsulClient`: `WF` of `WaitReturns(c)`: Consul answers a blocking query whose index has passed.
  That the query also ends after `WATCH_TIMEOUT` is not assumed.
- `LeaseIssuer`: `WF` of time, of the end of an outage, of each user thread inside a call and of each
  ping thread. Nobody is obliged to call or to destroy the client.

Properties worth a word:

- `EraseExact` relates the step in which an erase returns to the tree before it: exactly the
  subtree is gone, or nothing if the version did not fit, whatever happened during the walk.
- `WatchFaithful` (ZooKeeper) and `WatchComplete` (etcd): a watch that is still waiting has missed
  nothing. `WatchSound` (etcd): it does not fire for nothing. The ZooKeeper backend does not
  have the latter (section 5).
- `SetSettles`: in no state do both rounds of etcd's `set` have to be repeated, so it ends after two
  rounds unless others interfere.
- `CreateReturns` and `DestructorReturns` hold except for a client that is `Stuck`, which the run
  `etcd_watch_stuck` shows it can be.
- `CommitReadsRightly`: the version of a set in an etcd transaction is read from the response to the
  lookup of its own key, and no response is missing, unless a set comes after an erase. `CommitReturns`,
  which is what the usage example of the repository relies on, has no exception and fails
  (`etcd_set_after_erase`).
- `LinearizableUpToConflicts` names three exceptions and says that there is no fourth. None is idle: with any
  one of `lost_set`, `any_version` and `erase_conflict` taken out, TLC finds a call of `zk_calls` that needs
  it (section 5).
- `WatchComplete` of Consul speaks about the index: if the observation has ever changed, the query
  is answerable, even if the change was undone. `ChangeNoticed` is the liveness that follows from it.
- `LeaseKept` names the three ways in which a lease can be lost under a living client, and says
  that there is no fourth: a broken stream (etcd), two threads in `get_lease` at once, a ping thread that
  could not be started (Consul).
- `LeasesEnd` leaves out a lease whose ping thread was leaked by racing threads (`Leaked`); without that
  exception it fails. `SenderUsable` says what the race cannot do: leave a pointer to a closed block behind,
  on which the destructor would call `close()` again.
- `ErrorsCoded` names what can leave a C function as an exception, against what `clib.h` says: one of
  ppconsul or zkpp, and the `std::system_error` of a thread that cannot be started; and that nothing else can.
- `CallerTold`: a call that took effect returns an error only for want of memory, and `*p_result` is
  written as `clib.h` says.
- `PathsAgree` compares `PathText` with the definition of paths as sequences of segments that all
  other modules use, for all texts up to the bound and for the keys of the calls.

## 4. What TLAPS proves

For every number of clients, threads, callers and senders, every prefix, every finite set of keys,
values and calls, every bound, and every time within `SlackAssumption`:

| Theorem | Module | States |
|---|---|---|
| `TypeCorrect` | `ZKClientProofs` | `Spec => []TypeOK` |
| `HierarchyKept` | `ZKSafetyProofs` | every node has its ancestors, ephemeral nodes are leaves |
| `PrefixStays`, `NoMissedChange` | `ZKSafetyProofs` | `Spec => []PrefixReady`, `Spec => []WatchFaithful` |
| `ErasesExactly` | `ZKSafetyProofs` | `Spec => EraseExact` |
| `NoFalseAlarm`, `NoMissedChange` | `ETCDClientProofs` | `Spec => []WatchSound`, `Spec => []WatchComplete` |
| `SetNeedsTwoRounds` | `ETCDClientProofs` | `Spec => []SetSettles` |
| `SetsAreReadRightly` | `ETCDClientProofs` | `Spec => []CommitReadsRightly` |
| `CrashesAfterErase` | `ETCDClientProofs` | a commit that etcd carried out dereferences null if and only if it has a set after an erase: the extent of the finding |
| `IdsGoToTheirCallers`, `CancelNeverReturns`, `NoHandleLeftWaiting` | `ETCDWatchProofs` | `[]HandlersPaired`, `[]CancelWaitsForEver`, `[]SettledAtJoin` |
| `OneWriteAtATime` | `ETCDWatchProofs` | `Spec => WritesInTurn` (an action property) |
| `NoMissedChange` | `ConsulProofs` | `Spec => []WatchComplete` |
| `HandedOutLeasesLive` | `LeaseIssuerProofs` | `Spec => []LeaseKept` |
| `SenderStaysUsable` | `LeaseIssuerProofs` | `Spec => []SenderUsable` |
| `MemorySafe`, `Woken` | `PingSenderProofs` | `Spec => []NoUseAfterFree`, `Spec => []NoLostWakeup` |
| `NothingLeaks`, `DeclaredErrorsAreCoded`, `CallersAreTold` | `CBindingProofs` | `[]HeapBalanced`, `[]ErrorsCoded`, `[]CallerTold` |
| `TextsMeanPaths` | `CBindingProofs` | `Spec => []PathsAgree` |

### ZooKeeper

`ZKClientProofs` begins with what is true of paths and of one request on one tree (frames, presence,
`ApplyWellFormed`). The invariants about `ZKClient` rest on three lemmas that say once what the
seventeen actions can do: to the tree, the `multi_op` in execution and the handles (`StepKinds`), to
the plan and the call of one client (`PlanSteps`), to its progress through the constructor
(`ConstructorSteps`). Each invariant is then shown step kind by step kind.

- `TypeInv` = `TypeOK` and `CallOK`. The types alone are not inductive: which answer a step gives,
  and that a request in execution is not a visit, depends on the call being at a label its method
  reaches and on the `multi_op` being fully built when it is submitted.
- `HierarchyInv`: the tree and the copy on which a `multi_op` works are both hierarchies.
- `PlanPaths` and `PrefixInv`: plans name user's paths only, since a walk starts at one and goes
  down; what a constructor has passed is there; nodes of the prefix are not ephemeral; the copy
  agrees with the tree on them.
- `WatchInv`: handles that are not notified observe what they did, and the events collected by
  the `multi_op` so far report every difference between tree and copy (`Reported`, which is
  transitive). A watch of `get_children` also needs that its node exists.
- `EraseInv`: the plan of an erase is two checks of the key, then erases and visits in its subtree,
  then the erase of the key (`ErasePlanOK`); after n requests the copy differs from the tree only in the
  subtree, and after the last one the subtree is empty (`EraseRun`). The last part needs
  `HierarchyInv`: the erase of the key succeeds only without children, and in a hierarchy that
  means without descendants. A child the walk did not see therefore makes the `multi_op` fail.

### etcd

- Watches. Neither property is inductive: what matters is what is still to be delivered. `HandleOK`
  says that the observation of a handle whose wait is not over has changed if, and only if, one of
  the revisions from `next` on holds an event that will end the wait, and that while it has not
  changed the store still gives what was seen. The second half is what makes the first inductive: the
  first change happens to a store that looks as it did at the lookup, so the lambda of each method,
  which remembers only the lookup, recognises the event of that very revision
  (`etcd_client.hpp:642`, 681, 790). The lookup and the creation of the watch are two steps; the handle
  is in the invariant from the first.
- `SetSettles`: which of the comparisons of the two kinds of round hold is worked out from the store. If
  the parent is missing, both rounds end with `NoEntry` (`SetFindsNoParent`); otherwise the round that
  expects a lease exactly when the key has one succeeds (`SetSucceeds`).
- `CommitReadsRightly` and `CrashesAfterErase`: `Place(o, m)` is where the requests of operation `m` end, `Count` the number of
  operations of one type before it. A set is read at `Place(o, i - 1) + 2` less the number of erases
  before it. Without an erase that is its own range request. At the first set after an erase it is
  smaller; the range requests of earlier sets are too far to the left, because those have no erase
  before them and their places count fewer operations; its own and later ones are too far to the
  right. So the response there is of another kind, the code dereferences null, and later sets do not
  matter.

### The watch stream

`Inv` = types, the three properties, and, as long as the object is `Sane` (not in undefined behaviour),
`ControlInv`. Responses carry no name of the request they answer, so `HandlersPaired` needs that at most
one create request is under way: unanswered at etcd, or answered in the inbox, never both, and that
it belongs to the caller whose handler is pending (`CreateInv`). This needs to know which operations are
out and where: in flight or in the queue, each once (`StreamInv`); that etcd has given out ids in order and
one per caller (`OwnerInv`); and for `SettledAtJoin` that a handle that waits is registered with a
stream that works, or else was failed together with it (`HandleInv`). `OneWriteAtATime` is proved from
the same invariant for each action that writes.

### Consul

`StoreInv`: nothing in the store or among the tombstones is newer than the index. `HandleInv`: the index
a handle was made with is not newer than the store; while the observation has not changed it is what it
was; once it has, the query is answerable. The last needs that the index of a query never falls (keys are
restamped, or leave a tombstone in the same range) and that a change of the observation stamps a watched
key or tombstone with a new index (`Changed`, for transactions and for expired sessions). Consul's
transaction is a fold over its operations: `RunDef` says what the fold computes, `RunRule` is the
induction over the operations done so far.

### Leases and sessions

`Inv` = types, `OutageInv`, and `LeaseInv` unless the client is gone or two threads raced. It is a budget:
`TimeLeft` says for each point of the loop of the ping thread how much of the time to live must be
left, `Cost(k)` is what `k` more outages may take, `ToCome` what those still to come may. Between a
renewal and the next the lease loses a delay, a period and another delay, and for every outage its
length and one more delay: `SlackAssumption` is exactly what makes the budget positive when the thread
wakes up. `UserOK` follows the lease from the grant through the three steps of the assignment to the
thread; it holds because one thread at a time gets a lease, which is what `raced` says, and for the same
reason the thread renews the lease it was started for (`pinged`).

`SenderUsable` has to hold when threads race, so it has an invariant of its own, `SenderInv`: if the
sender holds a closed block, some thread is between `destroy_()` and the assignment; the block a thread is
about to assign is its own, is not closed and is not in the sender yet; and no two threads have the
same lease.

### `PingSender`

Who owns which block, that the source of a move does not share it, and where the thread stands
(`OwnerInv`, `SingleOwner`, `SourceInv`, `ThreadInv`).

### The C binding and `Path`

`Inv` = `TypeInv` and the three properties on memory and errors. The heap is a sum over the objects of the caller, so the
first part of `CBindingProofs` shows what `SumFunction` computes: any element can be taken first
(`SumFunctionOnSet` takes one by `CHOOSE`), and giving or freeing an object changes the sum by its
blocks. Then each function of `clib.cpp` keeps the balance, on each of its ways out, for lists of every
length.

`PathsAgree` rests on one lemma about the loop of `segments()`, `SegmentsJoin`: a text followed by one that
begins with a slash is cut at that slash. It is shown by induction from the end of the text, since what
the loop finds from a position on depends on later positions only. With it a text is its parent, a slash
and a name (`ParentAndSegment`), and the loop finds the segments of the parent and then the name. That
`segments()` and writing are inverse, and that a text of `n` characters has at most `n / 2` segments, are
inductions over the length. `PathInv` says that only paths reach a client. TLC checks texts of up to 5
characters; the theorem holds for every length and every set of characters.

### Assumptions and method

Assumptions are those of the modules, and TLC evaluates them in every run: keys are non-empty
sequences of strings closed under parents; no segment is the NUL of etcd (`SegmentsAssumption`, which
`Path::validate_segment_` ensures; no proof cites it);
`VersionModulus` is even; bounds are naturals; the callers of
`create_watch` are finitely many (`CallersAssumption`); `SlackAssumption` for the times. The others
(`HandlesAssumption`, `NilAssumption`, `ClientsAssumption`, part of `BindingAssumption`) say that `Nil`, the
model value for "nothing", is none of the values it stands beside.

Induction over numbers, sequences and finite sets is done with sets instead of predicates
(`NatSetInduction`, `DownInduction`, from the theorem that the order of the naturals is
well-founded): the folds of the models are first shown to satisfy their recursion (`RunDef`,
`FlattenDef`, `SegmentsDef`, the lemmas on sums), then the set of lengths for which a fact holds is
shown to be all of them.

Before they were proved, the inductive invariants were checked by TLC on instances like those of the
runs.

Only model-checked:

- liveness (`EveryCallReturns`, `CreateReturns`, `DestructorReturns`, `Reclaimed`, `LeasesEnd`,
  `ChangeNoticed`), because the prover does not do fairness;
- the refinements of `OffKV`, which relate whole transactions of the services to the fold that
  `OffKV` makes of the same operations, with an absorbed set as an existential over other clients.

## 5. Findings

Each of the first four has a run in which TLC finds the violation of what a document of the repository
says.

1. `zk_commit_loop`: `commit {erase a/b, erase a}` on ZooKeeper never returns
   (`zk_client.hpp:341`).
2. `etcd_watch_stuck`: the resolution thread waits for a write only it can complete
   (`etcd_client.hpp:157`, 203).
3. `etcd_check_zero`: a check with version 0 holds when the key does *not* exist
   (`etcd_client.hpp:831`).
4. `etcd_set_after_erase`: a set after an erase in a transaction makes the client dereference a null
   pointer, because an erase adds two requests and is counted as one (`etcd_client.hpp:874-880`, 925). The
   usage example in the repository's README (233-242) is such a transaction. `CrashesAfterErase` proves
   which transactions are concerned.

Named as exceptions in the properties; TLC finds each when the exception is taken out:

- ZooKeeper, `set` is not linearizable against an erase that asks for the version
  (`zk_client.hpp:208`), in spite of the comment at 191 (`lost_set`). The set finds the key, `erase(a, 1)`
  removes it, and the set answers `1 << 62` although it can stand neither before nor after the erase.
- ZooKeeper: a version of `1 << 62`, which `set` itself returns, is narrowed to "any version", so that
  cas, erase and checks with it are unconditional (232; `any_version`).
- ZooKeeper, `commit` with an erase: a child created after the walk makes the whole transaction
  fail with `TxnFailed` although the key exists, against the comment at `zk_client.hpp:340`
  (`erase_conflict`).
- etcd, Consul: `get_lease` and `create_session_if_needed_` are not synchronised
  (`etcd_client.hpp:304`, `consul_client.hpp:96`). Two threads that need a lease get one each, and the first
  is no longer renewed (`raced` in `LeaseKept`). If both assign to `ping_sender_` at once
  (`ping_sender.hpp:82`), the ping thread of one is leaked, and its lease outlives the client
  (`Leaked` in `LeasesEnd`), although the repository's README (27) says that a leased key is deleted when the
  client disconnects.
- C binding: an exception that `to_errcode` does not know ends the process of the caller (`clib.cpp:88`), who
  was promised a negative value (`clib.h:83`): a lost connection to Consul, errors of ZooKeeper in the
  walk and in the second request of `set`, a thread that cannot be started (`ErrorsCoded`).

Met while modelling, without a run of their own:

- etcd: if the watch stream cannot be set up, the caller waiting at 203 goes on and writes through a
  null pointer (`etcd_client.hpp:206`), against the comment at 105: `crashed` becomes "null stream" in
  `etcd_watch`.
- ZooKeeper: the watch of `exists` also ends when only the value changed (149), while the
  repository's README (217) says that the existence must be different.
- etcd, `commit`: a set takes the lease off the key (861); comparisons are evaluated up front, so `{create a, create a/b}` fails, and operations on
  overlapping keys are refused with `ServiceError`. The last two are not among the calls of
  `etcd_client`, so its `Linearizable` is about the other transactions.
- etcd: after a failed stream the `ClientContext` is reused (107), and the destructor may meet a
  response in the queue and read again (240): `crashed` in the model.
- etcd: if the resolution thread cannot be started, its flag and the write that stands for the set-up of the
  stream stay set (`etcd_client.hpp:105-110`): every later `create_watch` waits for ever, and the
  destructor joins a thread that does not exist.
- etcd, Consul: a lease or session that expired is never replaced; a ping that fails is repeated without a pause. Consul stores the id
  before the thread that renews the session exists (`consul_client.hpp:101`).
- Consul: `wait()` returns without a change after `WATCH_TIMEOUT`, at once if the key did not exist
  (index 0), and for `get_children` also when a grandchild changes or when nothing is below the
  key and anything else changes; the repository's README (217) says that the state must be different.
- Consul: a lost connection reaches the user as an exception of ppconsul, not as `ConnectionLoss`
  (`consul_client.hpp:38`, which also slices it). With ZooKeeper the same happens to errors of the walk
  and of the second request of `set`.
- C binding: `OFFKV_ENOMEM` may mean that a commit took effect (313), or come with a watch that the
  caller has to drop (171, 190).

## 6. Plan

Done: the contract; ZKClient, ETCDClient and ConsulClient, each with its refinement of the contract;
ETCDWatchCreator; LeaseIssuer; PingSender; Path and Key; the C binding with `open`. Proofs of every
invariant that a run checks, and of two action properties.

Next, in this order:

1. Theorems: that the contract itself keeps a hierarchy; the refinement of the contract for the steps
   of one request (`create`, `get`, `cas` of ZKClient) as far as it goes without the fold.
2. Composition of `ETCDClient` with `ETCDWatchCreator`: the events of the former delivered by the latter.
3. ZooKeeper sessions that expire under a living client; several threads on one client.

## 7. Not modelled

The bytes of values; logging and the texts of exceptions and of `offkv_error_descr`; the internals of
zkpp, gRPC and ppconsul, of which only what the clients rely on is in `ZooKeeper`, `ETCD` and
`Consul`. Several threads inside one C handle or one client, except in `LeaseIssuer` and
`ETCDWatchCreator`; there, that the resolution thread cannot be started. The value of a string or pointer
that two threads write at once. `always_false` and `equal_as_unordered` of `util.hpp` are helpers of the build and of
the tests. Tests and build files are not part of the program.
