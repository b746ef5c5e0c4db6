-------------------------- MODULE ETCDWatchCreator --------------------------
(***************************************************************************)
(* ETCDWatchCreator (etcd_client.hpp): the watches of all threads of one   *)
(* client share one gRPC stream, whose completions are handled by one      *)
(* resolution thread.                                                      *)
(*                                                                         *)
(* All members are guarded by lock_, so what a thread does between taking  *)
(* the mutex (or waking from a condition variable) and giving it back is   *)
(* one step.  A wait on a condition variable is the guard of the step that *)
(* follows it: every change of the condition notifies a waiter.            *)
(*                                                                         *)
(* External: the stream, whose operations complete in any order, into a    *)
(* completion queue that is first in, first out; and etcd, which answers   *)
(* requests in order and sends the events of the watches it keeps.  A step *)
(* that cannot be taken without undefined behaviour ends in "crashed".     *)
(***************************************************************************)
EXTENDS Naturals, FiniteSets, Sequences

CONSTANTS
    Callers,        \* threads, each of which calls create_watch once
    Nil,            \* no caller
    MaxEvents,      \* bound: events etcd sends
    MaxFailures     \* bound: times the stream breaks

ASSUME CallersAssumption ==
    IsFiniteSet(Callers) /\ Callers \cap {Nil, "none", "init", "cancel"} = {}

ASSUME BoundsAssumption == MaxEvents \in Nat /\ MaxFailures \in Nat

WatchIds == 1..Cardinality(Callers)

VARIABLES
    \* the members of ETCDWatchCreator
    stream,     \* watch_stream_: "null", "init" (tag_init_stream is out) or "up"
    buffer,     \* pending_watch_response_: "null", "empty" (a Read is out) or "full"
    handlers,   \* watch_handlers_: the caller each watch id belongs to, or Nil
    write,      \* current_watch_write_: "none", "init", "cancel" or the caller who wrote
    pending,    \* pending_watch_handler_: a caller or Nil
    \* the threads
    resolver,   \* the resolution thread: "none", "polling", "cancelling" or "ended"
    pc,         \* pc[c]: "idle", "calling", "wait_write", "wait_future", "returned" or "threw"
    future,     \* future[c]: the future of c's write: "pending", "ready" or "error"
    handle,     \* handle[c]: the promise behind c's WatchHandle: "pending", "fired" or "failed"
    life,       \* "alive", "shutdown" (the destructor is joining) or "joined"
    crashed,    \* "no", or what undefined behaviour was reached
    \* gRPC and etcd
    flight,     \* the operations of the stream that are out
    cq,         \* the completion queue
    broken,     \* the call has failed or was cancelled
    requests,   \* written, not yet handled by etcd
    inbox,      \* sent by etcd, not yet read; the head is what a full buffer holds
    owner,      \* owner[w]: the caller whose request made watch w, or Nil
    active,     \* the watches etcd keeps
    due,        \* the callers for whom etcd has sent the event they wait for
    events,     \* events sent so far (bounded by MaxEvents)
    failures    \* failures so far (bounded by MaxFailures)

members  == <<stream, buffer, handlers, write, pending>>
threads  == <<resolver, pc, future, handle, life, crashed>>
external == <<flight, cq, broken, requests, inbox, owner, active, due, events, failures>>
vars     == <<members, threads, external>>

-----------------------------------------------------------------------------
Tags == {"init", "write", "read"}

Completion(tag, ok) == [tag |-> tag, ok |-> ok]

Created(w)  == [kind |-> "created", watch |-> w, match |-> FALSE]
Canceled(w) == [kind |-> "canceled", watch |-> w, match |-> FALSE]
\* match: process_event of the handler answers true.
Event(w, m) == [kind |-> "event", watch |-> w, match |-> m]

Init ==
    /\ stream = "null" /\ buffer = "null" /\ write = "none" /\ pending = Nil
    /\ handlers = [w \in WatchIds |-> Nil]
    /\ resolver = "none" /\ life = "alive" /\ crashed = "no"
    /\ pc = [c \in Callers |-> "idle"]
    /\ future = [c \in Callers |-> "pending"]
    /\ handle = [c \in Callers |-> "pending"]
    /\ flight = {} /\ cq = <<>> /\ broken = FALSE
    /\ requests = <<>> /\ inbox = <<>>
    /\ owner = [w \in WatchIds |-> Nil]
    /\ active = {} /\ due = {} /\ events = 0 /\ failures = 0

\* The client object is in use, or its resolution thread still runs, and nothing went wrong.
Sane == crashed = "no" /\ life # "joined"

-----------------------------------------------------------------------------
(* create_watch *)

Call(c) ==
    /\ Sane /\ pc[c] = "idle" /\ life = "alive"
    /\ pc' = [pc EXCEPT ![c] = "calling"]
    /\ UNCHANGED <<members, resolver, future, handle, life, crashed, external>>

\* Mutant: a caller waits neither for the handler before its own nor for a write.
AnyTime == TRUE

\* while (pending_watch_handler_) create_watch_wait_cv_.wait(lock)
MayRegister == pending = Nil

\* while (current_watch_write_) write_wait_cv_.wait(lock)
MayWrite == write = "none"

\* write_to_watch_stream_m once no write is out: who writes req.
Write(req, who) ==
    /\ write' = who
    /\ flight' = flight \cup {"write"}
    /\ requests' = IF broken THEN requests ELSE Append(requests, req)

\* The caller registers its handler and finds the stream there, or sets it up:
\* setup_watch_infrastructure_m.
Register(c) ==
    /\ Sane /\ pc[c] = "calling" /\ MayRegister
    /\ pending' = c
    /\ \/ /\ stream # "null" /\ write = "none"
          /\ Write(<<"create", c>>, c)
          /\ pc' = [pc EXCEPT ![c] = "wait_future"]
          /\ UNCHANGED <<stream, resolver, crashed>>
       \/ /\ stream # "null" /\ write # "none"
          /\ pc' = [pc EXCEPT ![c] = "wait_write"]
          /\ UNCHANGED <<stream, write, resolver, crashed, flight, requests>>
       \/ /\ stream = "null"
          /\ write' = "init" /\ stream' = "init"
          /\ flight' = flight \cup {"init"}
          /\ resolver' = IF resolver = "none" THEN "polling" ELSE resolver
          /\ pc' = [pc EXCEPT ![c] = "wait_write"]
          \* watch_context_ serves one call only.
          /\ crashed' = IF resolver = "none" THEN crashed ELSE "context reused"
          /\ UNCHANGED requests
    /\ UNCHANGED <<buffer, handlers, future, handle, life,
                   cq, broken, inbox, owner, active, due, events, failures>>

\* The wait for the write before is over.
WriteCreate(c) ==
    /\ Sane /\ pc[c] = "wait_write" /\ MayWrite
    /\ Write(<<"create", c>>, c)
    /\ pc' = [pc EXCEPT ![c] = "wait_future"]
    /\ crashed' = IF stream = "null" THEN "null stream" ELSE crashed
    /\ UNCHANGED <<stream, buffer, handlers, pending, resolver, future, handle, life,
                   cq, broken, inbox, owner, active, due, events, failures>>

\* watch_write_future.get()
FutureGet(c) ==
    /\ Sane /\ pc[c] = "wait_future" /\ future[c] # "pending"
    /\ pc' = [pc EXCEPT ![c] = IF future[c] = "ready" THEN "returned" ELSE "threw"]
    /\ UNCHANGED <<members, resolver, future, handle, life, crashed, external>>

-----------------------------------------------------------------------------
(* watch_resolution_loop_ *)

Takes(tag, ok) ==
    /\ Sane /\ resolver = "polling" /\ cq # <<>> /\ Head(cq) = Completion(tag, ok)
    /\ cq' = Tail(cq)

\* Mutant: only the handler that waits for its watch to be created hears of it.
PendingOnly == {pending}

\* The callers whose handlers are told of a failure.
Registered == {handlers[w] : w \in WatchIds} \cup {pending}

\* Those of them whose handle is still waited for.
Failing == {c \in Callers : c \in Registered /\ handle[c] = "pending"}

\* A completion that did not succeed: fail_all_watches.  If a Read is out, the buffer it reads
\* into is deleted under it, which may do no harm.
OnFailure ==
    /\ \E tag \in Tags : Takes(tag, FALSE)
    /\ crashed' \in {crashed} \cup IF "read" \in flight THEN {"buffer deleted"} ELSE {}
    /\ stream' = "null" /\ buffer' = "null"
    /\ handle' = [c \in Callers |-> IF c \in Failing THEN "failed" ELSE handle[c]]
    /\ handlers' = [w \in WatchIds |-> Nil]
    /\ future' = [c \in Callers |-> IF write = c THEN "error" ELSE future[c]]
    /\ write' = "none" /\ pending' = Nil
    /\ UNCHANGED <<resolver, pc, life,
                   flight, broken, requests, inbox, owner, active, due, events, failures>>

\* resolve_write_m
ResolveWrite ==
    /\ future' = [c \in Callers |-> IF write = c THEN "ready" ELSE future[c]]
    /\ write' = "none"

\* request_read_next_watch_response_m; the operations in ops are out besides.
ReadNext(ops) ==
    /\ buffer' = "empty"
    /\ flight' = ops \cup {"read"}
    /\ crashed' = CASE stream = "null" -> "null stream"
                    [] stream # "null" /\ life # "alive" -> "work after shutdown"
                    [] OTHER -> crashed

OnInit ==
    /\ Takes("init", TRUE)
    /\ stream' = IF stream = "init" THEN "up" ELSE stream
    /\ ResolveWrite
    /\ ReadNext(flight)
    /\ UNCHANGED <<handlers, pending, resolver, pc, handle, life,
                   broken, requests, inbox, owner, active, due, events, failures>>

OnWriteFinished ==
    /\ Takes("write", TRUE)
    /\ ResolveWrite
    /\ crashed' = IF write = "none" THEN "null write" ELSE crashed
    /\ UNCHANGED <<stream, buffer, handlers, pending, resolver, pc, handle, life,
                   flight, broken, requests, inbox, owner, active, due, events, failures>>

Response == Head(inbox)

\* The buffer was thrown away by fail_all_watches, but reading goes on.
OnLostResponse ==
    /\ Takes("read", TRUE) /\ buffer = "null"
    /\ ReadNext(flight)
    /\ UNCHANGED <<stream, handlers, write, pending, resolver, pc, future, handle, life,
                   broken, requests, inbox, owner, active, due, events, failures>>

\* Mutant: the handler remains pending when its watch is created.
KeepPending == pending

\* pending_watch_handler_ = nullptr
ClearPending == Nil

OnCreated ==
    /\ Takes("read", TRUE) /\ buffer = "full" /\ Response.kind = "created"
    /\ handlers' = [handlers EXCEPT ![Response.watch] = pending]
    /\ pending' = ClearPending
    /\ inbox' = Tail(inbox)
    /\ IF pending = Nil
       THEN crashed' = "null handler" /\ UNCHANGED <<buffer, flight>>
       ELSE ReadNext(flight)
    /\ UNCHANGED <<stream, write, resolver, pc, future, handle, life,
                   broken, requests, owner, active, due, events, failures>>

\* canceled, or events none of which the handler waits for.
OnNothing ==
    /\ Takes("read", TRUE) /\ buffer = "full"
    /\ \/ Response.kind = "canceled"
       \/ Response.kind = "event" /\ ~Response.match /\ handlers[Response.watch] # Nil
    /\ inbox' = Tail(inbox)
    /\ ReadNext(flight)
    /\ UNCHANGED <<stream, handlers, write, pending, resolver, pc, future, handle, life,
                   broken, requests, owner, active, due, events, failures>>

\* Mutant: the resolution thread waits when it need not.
CancelTimidly(w) ==
    /\ resolver' = "cancelling"
    /\ buffer' = "null"
    /\ UNCHANGED <<write, requests, flight, crashed>>

\* cancel_watch_m.  If a write is out, the thread waits for it to complete with the lock
\* given up; but no other thread takes completions from the queue, so there is no step
\* in which this wait is over (CancelWaitsForEver).
Cancel(w) ==
    IF write = "none"
    THEN /\ write' = "cancel"
         /\ requests' = IF broken THEN requests ELSE Append(requests, <<"cancel", w>>)
         /\ ReadNext(flight \cup {"write"})
         /\ UNCHANGED resolver
    ELSE /\ resolver' = "cancelling"
         /\ buffer' = "null"
         /\ UNCHANGED <<write, requests, flight, crashed>>

\* process_watch_response_m answers true: the handler's event has come, or nobody waits.
OnEvent ==
    /\ Takes("read", TRUE) /\ buffer = "full" /\ Response.kind = "event"
    /\ LET w == Response.watch
           c == handlers[w]
       IN  /\ Response.match \/ c = Nil
           /\ handlers' = [handlers EXCEPT ![w] = Nil]
           /\ handle' = [d \in Callers |-> IF d = c THEN "fired" ELSE handle[d]]
           /\ Cancel(w)
    /\ inbox' = Tail(inbox)
    /\ UNCHANGED <<stream, pending, pc, future, life, broken, owner, active, due, events, failures>>

Resolve ==
    \/ OnFailure
    \/ OnInit
    \/ OnWriteFinished
    \/ OnLostResponse
    \/ OnCreated
    \/ OnNothing
    \/ OnEvent

-----------------------------------------------------------------------------
(* ~ETCDWatchCreator *)

\* Mutant: the destructor does not cancel the call.
LeaveCall == broken

\* if (watch_stream_) watch_context_.TryCancel()
TryCancel == broken \/ stream # "null"

Shutdown ==
    /\ Sane /\ life = "alive"
    /\ \A c \in Callers : pc[c] \in {"idle", "returned", "threw"}
    /\ broken' = TryCancel
    /\ life' = IF resolver = "none" THEN "joined" ELSE "shutdown"
    /\ UNCHANGED <<members, resolver, pc, future, handle, crashed,
                   flight, cq, requests, inbox, owner, active, due, events, failures>>

\* cq_.Next answers false and the thread is joined.
Join ==
    /\ Sane /\ life = "shutdown" /\ resolver = "polling" /\ cq = <<>> /\ flight = {}
    /\ resolver' = "ended" /\ life' = "joined"
    /\ UNCHANGED <<members, pc, future, handle, crashed, external>>

-----------------------------------------------------------------------------
(* External: gRPC and etcd. *)

Completes(tag, ok) ==
    /\ Sane /\ tag \in flight
    /\ flight' = flight \ {tag}
    /\ cq' = Append(cq, Completion(tag, ok))
    /\ UNCHANGED <<stream, handlers, write, pending, threads,
                   broken, requests, inbox, owner, active, due, events, failures>>

\* What had been received before the call broke can still be read.
Succeeds(tag) ==
    /\ IF tag = "read" THEN inbox # <<>> ELSE ~broken
    /\ Completes(tag, TRUE)
    /\ buffer' = IF tag = "read" /\ buffer = "empty" THEN "full" ELSE buffer

Fails(tag) == broken /\ Completes(tag, FALSE) /\ UNCHANGED buffer

Break ==
    /\ Sane /\ failures < MaxFailures /\ stream # "null" /\ ~broken
    /\ broken' = TRUE /\ failures' = failures + 1
    /\ UNCHANGED <<members, threads, flight, cq, requests, inbox, owner, active, due, events>>

\* etcd handles a request.
Serve ==
    /\ Sane /\ ~broken /\ requests # <<>>
    /\ requests' = Tail(requests)
    /\ \/ /\ Head(requests)[1] = "create"
          /\ LET w == Cardinality({v \in WatchIds : owner[v] # Nil}) + 1 IN
             /\ owner' = [owner EXCEPT ![w] = Head(requests)[2]]
             /\ active' = active \cup {w}
             /\ inbox' = Append(inbox, Created(w))
       \/ /\ Head(requests)[1] = "cancel"
          /\ LET w == Head(requests)[2] IN
             /\ active' = active \ {w}
             /\ inbox' = IF w \in active THEN Append(inbox, Canceled(w)) ELSE inbox
          /\ UNCHANGED owner
    /\ UNCHANGED <<members, threads, flight, cq, broken, due, events, failures>>

SendEvent(w, m) ==
    /\ Sane /\ ~broken /\ w \in active /\ events < MaxEvents
    /\ events' = events + 1
    /\ inbox' = Append(inbox, Event(w, m))
    /\ due' = IF m THEN due \cup {owner[w]} ELSE due
    /\ UNCHANGED <<members, threads, flight, cq, broken, requests, owner, active, failures>>

-----------------------------------------------------------------------------
CallerStep(c) == Register(c) \/ WriteCreate(c) \/ FutureGet(c)

Transport == Serve \/ \E tag \in Tags : Succeeds(tag) \/ Fails(tag)

Next ==
    \/ \E c \in Callers : Call(c) \/ CallerStep(c)
    \/ Resolve
    \/ Shutdown
    \/ Join
    \/ Transport
    \/ Break
    \/ \E w \in WatchIds, m \in BOOLEAN : SendEvent(w, m)

Spec == Init /\ [][Next]_vars

\* Threads that can go on do, operations complete and etcd answers; a caller that waits for
\* a mutex or a condition again and again gets its turn.
Fairness ==
    /\ \A c \in Callers : SF_vars(CallerStep(c))
    /\ WF_vars(Resolve)
    /\ WF_vars(Join)
    /\ WF_vars(Serve)
    /\ \A tag \in Tags : WF_vars(Succeeds(tag) \/ Fails(tag))

FairSpec == Spec /\ Fairness

-----------------------------------------------------------------------------
(* Properties. *)

\* Responses carry a watch id and requests do not, so a handler is matched to an id by the
\* order in which requests are answered: it always gets the id of its own watch.
HandlersPaired ==
    \A w \in WatchIds : handlers[w] # Nil => handlers[w] = owner[w]

NewRequest == write' \in Callers \cup {"cancel"} /\ write' # write

\* Whoever writes to the stream, a caller or the resolution thread, does so after it has been
\* set up and after the write before has completed and been taken from the queue.
WritesInTurn ==
    [][NewRequest /\ stream # "null" =>
         /\ stream = "up"
         /\ "write" \notin flight
         /\ \A i \in DOMAIN cq' : cq'[i].tag # "write"]_vars

\* If the resolution thread has to wait before it can write a cancel request, it waits for
\* ever: only the resolution thread resolves writes and fails watches.
CancelWaitsForEver == resolver = "cancelling" => write # "none"

\* A WatchHandle that outlives its client does not wait for ever: when the destructor is
\* done, it has had its event or the news of the failure.
SettledAtJoin ==
    life = "joined" => \A c \in Callers : pc[c] = "returned" => handle[c] # "pending"

\* The client is past help: undefined behaviour, or the resolution thread in its eternal wait.
Stuck == crashed # "no" \/ resolver = "cancelling"

\* create_watch returns or throws, with several threads contending for the stream and the
\* stream failing at any point, unless the client gets stuck.
CreateReturns ==
    \A c \in Callers : pc[c] = "calling" ~> (pc[c] \in {"returned", "threw"} \/ Stuck)

\* The destructor gets the resolution thread to end, with whatever is out on the stream,
\* unless the client is stuck.
DestructorReturns == life = "shutdown" ~> (life = "joined" \/ Stuck)

\* The event that a WatchHandle waits for reaches it, unless the client is destroyed first.
WatchFires ==
    \A c \in Callers : c \in due ~> (handle[c] # "pending" \/ life # "alive" \/ crashed # "no")

=============================================================================
