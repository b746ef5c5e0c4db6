------------------------------ MODULE CBinding ------------------------------
(***************************************************************************)
(* The C binding (clib.cpp, clib.h) and the selection of a backend         *)
(* (liboffkv.hpp, util.hpp): how a call from C is parsed, what becomes of  *)
(* the exceptions of the client, and who owns the memory.                  *)
(*                                                                         *)
(* The client behind the handle is abstracted to what its methods may      *)
(* return or throw.  The heap is the number of blocks that are live;       *)
(* every allocation may fail, and fails when the heap is full.  The C      *)
(* caller owns the objects in held, and frees each with the function made  *)
(* for it.  One thread: the binding itself keeps no state.                 *)
(***************************************************************************)
EXTENDS Integers, PathText

CONSTANTS
    Urls,           \* the URLs given to offkv_open: sequences of tokens, "://" one of them
    OpenPrefixes,   \* the prefixes given to offkv_open
    Keys,           \* the keys given to the other functions
    MaxChildren,    \* the longest list of children
    MaxVersion,     \* the highest version
    MaxLive,        \* the size of the heap, in blocks
    Nil             \* nullptr, no call

ASSUME BindingAssumption ==
    /\ OpenPrefixes \cup Keys \subseteq Texts
    /\ MaxChildren \in Nat /\ MaxVersion \in Nat /\ MaxLive \in Nat
    /\ Nil \notin Int

VARIABLES
    handle,         \* Nil, or the client offkv_open has made: its backend, address and prefix
    call,           \* the call whose client method is running: function, keys, whether p_watch or
                    \* p_result is given; Nil when there is none
    live,           \* the number of live blocks
    held,           \* held[x]: how many objects of sort x the caller has to free
    last,           \* what the latest call told its caller; Nil while one is running
    escaped         \* the exception that left an extern "C" function and ended the process, or Nil

vars == <<handle, call, live, held, last, escaped>>

-----------------------------------------------------------------------------
(* Errors. *)

EADDR  == -1
EKEY   == -2
ENOENT == -3
EEXIST == -4
EEPHEM == -5
ECONN  == -6
ETXN   == -7
ESRV   == -8
ENOMEM == -9

\* Mutant: one type of errors.hpp is missing from the chain of casts.
NoConnectionLoss ==
    [InvalidAddress |-> EADDR, InvalidKey |-> EKEY, NoEntry |-> ENOENT, EntryExists |-> EEXIST,
     NoChildrenForEphemeral |-> EEPHEM, TxnFailed |-> ETXN, ServiceError |-> ESRV, bad_alloc |-> ENOMEM]

\* to_errcode: the codes of the types it knows.  An exception of another type it throws on.
Errcode ==
    [InvalidAddress |-> EADDR, InvalidKey |-> EKEY, NoEntry |-> ENOENT, EntryExists |-> EEXIST,
     NoChildrenForEphemeral |-> EEPHEM, ConnectionLoss |-> ECONN, TxnFailed |-> ETXN,
     ServiceError |-> ESRV, bad_alloc |-> ENOMEM]

\* The exceptions of the client's methods.  ppconsul's own (a refused connection, say) pass
\* through ConsulClient::rethrow_ as they are; ZooKeeper's do in the nested handler of set and
\* in the walk of erase and commit.  ThreadError is the std::system_error of a thread that
\* cannot be started: the PingSender of the first lease (create and commit, whose flags and
\* operations are abstracted, may ask for one), the resolution thread of the first etcd watch.
BackendError == "BackendError"
ThreadError  == "system_error"

Usual(b) == {"bad_alloc", "ServiceError", IF b = "consul" THEN BackendError ELSE "ConnectionLoss"}

Ephemeral(b) == IF b = "zk" THEN {"NoChildrenForEphemeral"} ELSE {}
Untranslated(b) == IF b = "zk" THEN {BackendError} ELSE {}
LeaseThread(b) == IF b = "zk" THEN {} ELSE {ThreadError}
WatchThread(b, ptr) == IF b = "etcd" /\ ptr THEN {ThreadError} ELSE {}

Throws(b, f, ptr) ==
    Usual(b) \cup
    CASE f = "create"              -> {"NoEntry", "EntryExists"} \cup Ephemeral(b) \cup LeaseThread(b)
      [] f = "set"                 -> {"NoEntry"} \cup Ephemeral(b) \cup Untranslated(b)
      [] f = "cas"                 -> {"NoEntry"} \cup Ephemeral(b)
      [] f \in {"get", "children"} -> {"NoEntry"} \cup WatchThread(b, ptr)
      [] f = "exists"              -> WatchThread(b, ptr)
      [] f = "erase"               -> {"NoEntry"} \cup Untranslated(b)
      [] f = "commit"              -> {"TxnFailed"} \cup Untranslated(b) \cup LeaseThread(b)
      [] f = "watch"               -> {}

\* The constructors: only that of ZKClient talks to its service.
OpenThrows(b) ==
    {"bad_alloc"} \cup IF b = "zk" THEN {"ConnectionLoss", "ServiceError", "NoEntry",
                                         "NoChildrenForEphemeral"} ELSE {}

-----------------------------------------------------------------------------
(* Memory. *)

Backends == {"zk", "consul", "etcd"}

Watch(b) == <<"watch", b>>
ValueOf  == <<"value">>             \* offkv_GetResult
ListOf(n) == <<"children", n>>      \* offkv_Children with n keys
TxnOf    == <<"txn">>               \* offkv_TxnResult
Objects == {Watch(b) : b \in Backends} \cup {ValueOf, TxnOf} \cup {ListOf(n) : n \in 0..MaxChildren}

\* The blocks an object consists of: those of the strings and their array, or a single one.
Blocks(x) == IF x[1] = "children" THEN x[2] + 1 ELSE 1

\* free_strings
FreeStrings(n) == n + 1

\* Mutant: the exception of dup_string is not caught.
LeavesStrings(i) == 1 + i

\* dup_strings when the copy of string i fails (counting from 0): the blocks it leaves behind.
DupStringsFails(i) == (1 + i) - FreeStrings(i)

\* The caller gets the objects in xs, and junk blocks nobody has a pointer to are left.
Give(xs, junk) ==
    /\ held' = [x \in Objects |-> IF x \in xs THEN held[x] + 1 ELSE held[x]]
    /\ live' = live + SumFunctionOnSet([x \in Objects |-> Blocks(x)], xs) + junk
    /\ live' <= MaxLive

-----------------------------------------------------------------------------
(* Calls and their returns. *)

Init ==
    /\ handle = Nil
    /\ call = Nil
    /\ live = 0
    /\ held = [x \in Objects |-> 0]
    /\ last = Nil
    /\ escaped = Nil

\* What a call tells its caller: code is the number returned, or the errcode or version field;
\* done says that the client's method returned; gave are the objects the caller now owns; and
\* failed_op is that of *p_result, Nil when it was not written to.  NoOp is (size_t) -1.
NoOp == -1

Tell(f, code, done, gave, failed_op) ==
    last' = [f |-> f, code |-> code, done |-> done, gave |-> gave, failed_op |-> failed_op]

\* catch (const std::exception &e) of the function f, after the objects gave were handed over.
Catch(f, e, done, gave) ==
    IF e \in DOMAIN Errcode
    THEN Tell(f, Errcode[e], done, gave, Nil) /\ UNCHANGED escaped
    ELSE escaped' = e /\ UNCHANGED last

Idle == call = Nil /\ escaped = Nil

\* detail::split_url: the tokens before the first "://", and all that follow it.
Delimiters(url) == {i \in DOMAIN url : url[i] = "://"}
Protocol(url) == SubSeq(url, 1, Min(Delimiters(url)) - 1)
Address(url) == SubSeq(url, Min(Delimiters(url)) + 1, Len(url))

\* liboffkv::open: prefix is converted to a Path before the body runs; the ZooKeeper client
\* gets the URL, the others the address in it.
Selected(url) == {b \in Backends : Delimiters(url) # {} /\ Protocol(url) = <<b>>}
OpenError(prefix) == IF IsPath(prefix) THEN "InvalidAddress" ELSE "InvalidKey"

\* The clients open can return.
Clients == [backend : Backends, prefix : OpenPrefixes,
            address : Urls \cup {Address(url) : url \in {u \in Urls : Delimiters(u) # {}}}]

ASSUME ClientsAssumption == Nil \notin Clients

Open(url, prefix) ==
    /\ Idle /\ handle = Nil
    /\ \/ /\ ~IsPath(prefix) \/ Selected(url) = {}
          /\ \E e \in {OpenError(prefix), "bad_alloc"} : Catch("open", e, FALSE, {})
          /\ UNCHANGED <<handle, live>>
       \/ /\ IsPath(prefix)
          /\ \E b \in Selected(url) :
                \/ \E e \in OpenThrows(b) : Catch("open", e, FALSE, {}) /\ UNCHANGED <<handle, live>>
                \/ /\ live < MaxLive
                   /\ live' = live + 1
                   /\ handle' = [backend |-> b, prefix |-> prefix,
                                 address |-> IF b = "zk" THEN url ELSE Address(url)]
                   /\ Tell("open", 0, TRUE, {}, Nil)
                   /\ UNCHANGED escaped
    /\ UNCHANGED <<call, held>>

\* A function is called; the arguments of the client's method, the keys among them, are made
\* first (for commit the vectors of checks and operations).
KeyFunctions  == {"create", "set", "cas", "erase"}
ReadFunctions == {"exists", "get", "children"}

Start(f, keys, ptr) ==
    /\ Idle /\ handle # Nil
    /\ IF \A i \in DOMAIN keys : IsKey(keys[i])
       THEN call' = [f |-> f, keys |-> keys, ptr |-> ptr] /\ last' = Nil /\ UNCHANGED escaped
       ELSE \E e \in {"InvalidKey", "bad_alloc"} : Catch(f, e, FALSE, {}) /\ UNCHANGED call
    /\ UNCHANGED <<handle, live, held>>

Returns(f) == call # Nil /\ call.f = f /\ call' = Nil /\ UNCHANGED handle

\* The method throws: catch (const std::exception &).
MethodThrows(e) ==
    /\ call # Nil
    /\ e \in Throws(handle.backend, call.f, call.ptr) /\ ~(call.f = "commit" /\ e = "TxnFailed")
    /\ Catch(call.f, e, FALSE, {})
    /\ call' = Nil
    /\ UNCHANGED <<handle, live, held>>

\* The watch a read hands to its caller.
WatchGiven == IF call.ptr THEN {Watch(handle.backend)} ELSE {}

\* return r.version; cas and exists may say 0, erase always does.
VersionReturned(f, v) ==
    /\ Returns(f)
    /\ f \in {"create", "set"} => v > 0
    /\ f = "erase" => v = 0
    /\ LET gave == IF f = "exists" THEN WatchGiven ELSE {}
       IN  Give(gave, 0) /\ Tell(f, v, TRUE, gave, Nil)
    /\ UNCHANGED escaped

\* offkv_get: *p_watch is written before the value is copied.
GetReturned(v) ==
    /\ Returns("get")
    /\ LET gave == WatchGiven \cup {ValueOf}
       IN  Give(gave, 0) /\ Tell("get", v, TRUE, gave, Nil)
    /\ UNCHANGED escaped

GetCopyFails ==
    /\ Returns("get")
    /\ Give(WatchGiven, 0)
    /\ Catch("get", "bad_alloc", TRUE, WatchGiven)

\* offkv_children: the same, with n copies and their array.
ChildrenReturned(n) ==
    /\ Returns("children")
    /\ LET gave == WatchGiven \cup {ListOf(n)}
       IN  Give(gave, 0) /\ Tell("children", 0, TRUE, gave, Nil)
    /\ UNCHANGED escaped

\* The array, or string i of the list, cannot be allocated.
ChildrenCopyFails(i) ==
    /\ Returns("children")
    /\ Give(WatchGiven, IF i = Nil THEN 0 ELSE DupStringsFails(i))
    /\ Catch("children", "bad_alloc", TRUE, WatchGiven)

\* offkv_commit: the results are copied only for a caller that asks for them.
CommitReturned ==
    /\ Returns("commit")
    /\ LET gave == IF call.ptr THEN {TxnOf} ELSE {}
       IN  Give(gave, 0) /\ Tell("commit", 0, TRUE, gave, IF call.ptr THEN NoOp ELSE Nil)
    /\ UNCHANGED escaped

CommitCopyFails ==
    /\ Returns("commit") /\ call.ptr
    /\ Catch("commit", "bad_alloc", TRUE, {})
    /\ UNCHANGED <<live, held>>

\* Mutant: the handler for TxnFailed says which operation failed and no more.
TxnCaughtSilently(i) == Tell("commit", 0, FALSE, {}, IF call.ptr THEN i ELSE Nil)

\* catch (const liboffkv::TxnFailed &e)
TxnCaught(i) == Tell("commit", ETXN, FALSE, {}, IF call.ptr THEN i ELSE Nil)

CommitFailed(i) ==
    /\ Returns("commit") /\ i < Len(call.keys)
    /\ TxnCaught(i)
    /\ UNCHANGED <<live, held, escaped>>

\* offkv_watch on a watch of the open handle; it does not consume the watch.
WatchWait ==
    /\ Idle /\ handle # Nil /\ held[Watch(handle.backend)] > 0
    /\ \/ Tell("watch", 0, TRUE, {}, Nil) /\ UNCHANGED escaped
       \/ \E e \in Throws(handle.backend, "watch", FALSE) : Catch("watch", e, FALSE, {})
    /\ UNCHANGED <<handle, call, live, held>>

\* offkv_watch_drop, offkv_get_result_free, offkv_children_free, offkv_txn_result_free
Free(x) ==
    /\ Idle /\ held[x] > 0
    /\ held' = [held EXCEPT ![x] = @ - 1]
    /\ live' = live - (IF x[1] = "children" THEN FreeStrings(x[2]) ELSE 1)
    /\ UNCHANGED <<handle, call, last, escaped>>

\* offkv_close
Close ==
    /\ Idle /\ handle # Nil
    /\ handle' = Nil
    /\ live' = live - 1
    /\ UNCHANGED <<call, held, last, escaped>>

Next ==
    \/ \E url \in Urls, prefix \in OpenPrefixes : Open(url, prefix)
    \/ \E f \in KeyFunctions, k \in Keys : Start(f, <<k>>, FALSE)
    \/ \E f \in ReadFunctions, k \in Keys, ptr \in BOOLEAN : Start(f, <<k>>, ptr)
    \/ \E ks \in BoundedSeq(Keys, 2), ptr \in BOOLEAN : Start("commit", ks, ptr)
    \/ \E e \in DOMAIN Errcode \cup {BackendError, ThreadError} : MethodThrows(e)
    \/ \E f \in KeyFunctions \cup {"exists"}, v \in 0..MaxVersion : VersionReturned(f, v)
    \/ \E v \in 1..MaxVersion : GetReturned(v)
    \/ GetCopyFails
    \/ \E n \in 0..MaxChildren : ChildrenReturned(n)
    \/ \E i \in {Nil} \cup 0..MaxChildren - 1 : ChildrenCopyFails(i)
    \/ CommitReturned
    \/ CommitCopyFails
    \/ \E i \in 0..1 : CommitFailed(i)
    \/ WatchWait
    \/ \E x \in Objects : Free(x)
    \/ Close

Spec == Init /\ [][Next]_vars

-----------------------------------------------------------------------------
(* Properties. *)

(***************************************************************************)
(* Nothing leaks and nothing is freed twice: the live blocks are exactly   *)
(* those of the handle and of the objects the caller has been given and    *)
(* not freed yet, whichever allocation of whichever call failed (the       *)
(* clean-up in dup_strings, and the order of wrap_watch and the copies).   *)
(***************************************************************************)
HeapBalanced ==
    live = (IF handle = Nil THEN 0 ELSE 1)
             + SumFunction([x \in Objects |-> held[x] * Blocks(x)])

(***************************************************************************)
(* An exception that errors.hpp declares, or bad_alloc, never leaves a     *)
(* function of the C interface: to_errcode knows them all, whichever call, *)
(* client or copy of a result throws them.  What can leave one is named:   *)
(* an exception of a backend's own library, and the system_error of a      *)
(* thread that could not be started, which ZooKeeper's client starts none  *)
(* of.  These end the process, where clib.h promises a negative value; no  *)
(* other exception does.                                                   *)
(***************************************************************************)
ErrorsCoded ==
    escaped # Nil =>
        \/ escaped = BackendError /\ handle.backend # "etcd"
        \/ escaped = ThreadError /\ handle.backend # "zk"

(***************************************************************************)
(* The caller is told what happened.  A call whose client method threw     *)
(* returns a negative code; one whose method returned does so only for     *)
(* want of memory for the copies of its results, and then gives no result  *)
(* to free, though it may give a watch.  *p_result is written to on        *)
(* success, with -1, and on OFFKV_ETXN, with the index of the failed       *)
(* operation, and on no other error (clib.h, offkv_commit).                *)
(***************************************************************************)
CallerTold ==
    last # Nil =>
        /\ ~last.done => last.code < 0 /\ last.gave = {}
        /\ last.done /\ last.code < 0 =>
              /\ last.code = ENOMEM /\ last.f \in {"get", "children", "commit"}
              /\ last.gave \subseteq {Watch(b) : b \in Backends}
        /\ last.failed_op = NoOp => last.code = 0
        /\ last.failed_op # Nil => last.code \in {0, ETXN}
        /\ last.code = 0 /\ TxnOf \in last.gave => last.failed_op = NoOp

(***************************************************************************)
(* Texts and sequences of segments are two ways to see the same paths      *)
(* (TextsAgree, for all short texts), and so are the key that a call       *)
(* passes down and the node the client makes of it: under the prefix of    *)
(* the handle, the key and its parent are the prefix followed by the key   *)
(* and by the key without its last segment.  A key that is no path never   *)
(* reaches the client.                                                     *)
(***************************************************************************)
PathsAgree ==
    /\ TextsAgree
    /\ call # Nil => \A i \in DOMAIN call.keys :
          LET key  == call.keys[i]
              node == JoinText(handle.prefix, key)
          IN  /\ IsKey(key) /\ IsPath(node)
              /\ Segments(node) = Segments(handle.prefix) \o Segments(key)
              /\ Segments(ParentText(node)) = Segments(handle.prefix) \o Front(Segments(key))

=============================================================================
