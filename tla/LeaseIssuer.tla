---------------------------- MODULE LeaseIssuer ----------------------------
(***************************************************************************)
(* How a client keeps the lease of its ephemeral keys alive: LeaseIssuer   *)
(* of etcd_client.hpp, and its counterpart in ConsulClient, whose session  *)
(* is called a lease here.  User threads ask for the lease; the first      *)
(* makes the client get one and start a PingSender, whose thread renews it *)
(* every half of its time to live.                                         *)
(*                                                                         *)
(* Time advances in ticks.  Threads and the service act promptly: what is  *)
(* due happens before the next tick.  A request and its reply take at most *)
(* MaxDelay together, unless the connection is down.  The wait of the      *)
(* PingSender itself is the subject of module PingSender; here it ends     *)
(* when its time has come or when the sender is closed.                    *)
(***************************************************************************)
EXTENDS Naturals, FiniteSets

CONSTANTS
    Threads,        \* the threads that use the client
    Leases,         \* bound: the leases the service can grant
    Nil,            \* lease_id_ is 0, session_id_ is empty
    TTL,            \* LEASE_TIMEOUT, ConsulClient::TTL
    MaxDelay,       \* bound on the time of a request and its reply
    MaxOutage,      \* bound on the time for which the connection is down
    MaxOutages      \* bound: how often it goes down

ASSUME NilAssumption == Nil \notin Leases /\ Nil \notin Nat

\* (ttl + 1) / 2
Period == (TTL + 1) \div 2

\* What the code relies on without saying so: the second half of the time to live is enough
\* for the last reply, a renewal and, after each outage, another.
ASSUME SlackAssumption ==
    /\ {TTL, MaxDelay, MaxOutage, MaxOutages} \subseteq Nat
    /\ Period + (MaxOutages + 2) * MaxDelay + MaxOutages * MaxOutage < TTL

VARIABLES
    backend,    \* "etcd" or "consul"
    id,         \* lease_id_ or session_id_
    sender,     \* the lease whose thread ping_sender_ controls, or Nil
    pc,         \* pc[t]: what user thread t does next
    mine,       \* mine[t]: the lease it was granted
    wait,       \* wait[t]: for how long its request has been out
    left,       \* left[l]: how long the service will still keep l; 0: not at all
    thread,     \* thread[l]: what the ping thread started for the grant of l does; "done": it
                \* has ended and deleted its PingControl
    pinged,     \* pinged[l]: the lease that thread renews, which is l unless threads raced
    timer,      \* timer[l]: how long it will sleep, or for how long its request has been out
    closed,     \* the leases whose PingControl is closed
    broken,     \* the leases whose LeaseKeepAlive stream is broken
    outage,     \* for how long the connection has been down, Nil if it is not
    outages,    \* how often it went down
    got,        \* the leases that were handed out
    gone,       \* the client was destroyed
    raced,      \* two threads were getting a lease at the same time
    unstarted   \* the sessions whose ping thread could not be started

userVars    == <<id, sender, pc, mine, wait, got, gone, raced, unstarted>>
pingVars    == <<thread, pinged, timer, closed, broken>>
linkVars    == <<outage, outages>>
vars        == <<backend, userVars, left, pingVars, linkVars>>

Init ==
    /\ backend \in {"etcd", "consul"}
    /\ id = Nil /\ sender = Nil
    /\ pc = [t \in Threads |-> "idle"]
    /\ mine = [t \in Threads |-> Nil]
    /\ wait = [t \in Threads |-> 0]
    /\ left = [l \in Leases |-> 0]
    /\ thread = [l \in Leases |-> "none"]
    /\ pinged = [l \in Leases |-> l]
    /\ timer = [l \in Leases |-> 0]
    /\ closed = {} /\ broken = {}
    /\ outage = Nil /\ outages = 0
    /\ got = {}
    /\ gone = FALSE /\ raced = FALSE /\ unstarted = {}

Up == outage = Nil

-----------------------------------------------------------------------------
(* get_lease and create_session_if_needed_. *)

Goes(t, label) == pc' = [pc EXCEPT ![t] = label]

\* Mutant: every call creates a lease.
AlwaysCreate(t) ==
    /\ pc[t] = "idle" /\ ~gone
    /\ Goes(t, "request")
    /\ raced' = (raced \/ \E u \in Threads \ {t} : pc[u] # "idle")
    /\ UNCHANGED <<backend, id, sender, mine, wait, got, gone, unstarted, left, pingVars, linkVars>>

\* A lease that is there is handed out, whether or not the service still knows it.
Check(t) ==
    /\ pc[t] = "idle" /\ ~gone
    /\ IF id # Nil
       THEN got' = got \cup {id} /\ UNCHANGED <<pc, raced>>
       ELSE /\ Goes(t, "request")
            /\ raced' = (raced \/ \E u \in Threads \ {t} : pc[u] # "idle")
            /\ UNCHANGED got
    /\ UNCHANGED <<backend, id, sender, mine, wait, gone, unstarted, left, pingVars, linkVars>>

\* LeaseGrant, Sessions::create: the service grants lease l, or cannot be reached.
Grant(t, l) ==
    /\ pc[t] = "request" /\ Up
    /\ left[l] = 0 /\ thread[l] = "none" /\ l \notin {mine[u] : u \in Threads}
    /\ Goes(t, "granted")
    /\ mine' = [mine EXCEPT ![t] = l]
    /\ wait' = [wait EXCEPT ![t] = 0]
    /\ left' = [left EXCEPT ![l] = TTL]
    /\ UNCHANGED <<backend, id, sender, got, gone, raced, unstarted, pingVars, linkVars>>

GrantFails(t) ==
    /\ pc[t] = "request" /\ ~Up
    /\ Goes(t, "idle")
    /\ UNCHANGED <<backend, id, sender, mine, wait, got, gone, raced, unstarted, left, pingVars, linkVars>>

\* etcd: the thread is started, then the id stored; Consul: the other way round.
MaySetUp(t) == pc[t] = IF backend = "etcd" THEN "granted" ELSE "set_up"
AfterSetUp  == IF backend = "etcd" THEN "store" ELSE "return"
MayStore(t) == pc[t] = IF backend = "etcd" THEN "store" ELSE "granted"
AfterStore  == IF backend = "etcd" THEN "return" ELSE "set_up"

\* setup_lease_renewal_: ping_sender_ = PingSender(...), of which the construction comes first.
\* The thread renews the lease it was granted for; with Consul, the one session_id_ names now.
SetUp(t) ==
    /\ MaySetUp(t)
    /\ thread' = [thread EXCEPT ![mine[t]] = "sleeping"]
    /\ pinged' = [pinged EXCEPT ![mine[t]] = IF backend = "etcd" THEN mine[t] ELSE id]
    /\ timer' = [timer EXCEPT ![mine[t]] = Period]
    /\ Goes(t, "close")
    /\ UNCHANGED <<backend, id, sender, mine, wait, got, gone, raced, unstarted, left, closed, broken, linkVars>>

\* The thread cannot be started and the exception leaves the method.
SetUpFails(t) ==
    /\ MaySetUp(t)
    /\ Goes(t, "idle")
    /\ unstarted' = IF backend = "consul" THEN unstarted \cup {mine[t]} ELSE unstarted
    /\ UNCHANGED <<backend, id, sender, mine, wait, got, gone, raced, left, pingVars, linkVars>>

\* A thread that waits learns at once that its sender was closed.
Stopped(l) == thread[l] \in {"sleeping", "spinning"}

CloseSender ==
    /\ closed' = closed \cup ({sender} \ {Nil})
    /\ thread' = [l \in Leases |-> IF l = sender /\ Stopped(l) THEN "done" ELSE thread[l]]
    /\ UNCHANGED <<pinged, timer, broken>>

\* The move assignment, which no lock protects: destroy_() closes the sender it finds, and
\* then ctl_ is overwritten.
Freed == sender # Nil /\ thread[sender] = "done"

DestroySender(t) ==
    /\ pc[t] = "close" /\ ~Freed
    /\ CloseSender
    /\ Goes(t, "assign")
    /\ UNCHANGED <<backend, id, sender, mine, wait, got, gone, raced, unstarted, left, linkVars>>

\* Another thread has closed the sender already and its PingControl is deleted: close() on it
\* is undefined behaviour, which does no harm or ends the process.
DestroyFreed(t) ==
    /\ pc[t] = "close" /\ Freed
    /\ \/ Goes(t, "assign") /\ UNCHANGED <<sender, gone, thread>>
       \/ /\ gone' = TRUE /\ sender' = Nil
          /\ pc' = [u \in Threads |-> "idle"]
          /\ thread' = [l \in Leases |-> IF thread[l] = "none" THEN "none" ELSE "done"]
    /\ UNCHANGED <<backend, id, mine, wait, got, raced, unstarted, left, pinged, timer, closed, broken, linkVars>>

\* Mutant: a sender that was closed is kept, and only an empty one is replaced.
KeepsPointer(t) ==
    /\ pc[t] = "assign"
    /\ sender' = IF sender = Nil THEN mine[t] ELSE sender
    /\ Goes(t, AfterSetUp)
    /\ UNCHANGED <<backend, id, mine, wait, got, gone, raced, unstarted, left, pingVars, linkVars>>

Assign(t) ==
    /\ pc[t] = "assign"
    /\ sender' = mine[t]
    /\ Goes(t, AfterSetUp)
    /\ UNCHANGED <<backend, id, mine, wait, got, gone, raced, unstarted, left, pingVars, linkVars>>

\* The id is stored.
Store(t) ==
    /\ MayStore(t)
    /\ id' = mine[t]
    /\ Goes(t, AfterStore)
    /\ UNCHANGED <<backend, sender, mine, wait, got, gone, raced, unstarted, left, pingVars, linkVars>>

\* The id is read again and used.
Return(t) ==
    /\ pc[t] = "return"
    /\ got' = got \cup {id}
    /\ Goes(t, "idle")
    /\ UNCHANGED <<backend, id, sender, mine, wait, gone, raced, unstarted, left, pingVars, linkVars>>

\* Mutant: the ping thread is not told to stop.
LeavesSender ==
    /\ \A t \in Threads : pc[t] = "idle"
    /\ ~gone /\ gone' = TRUE
    /\ sender' = Nil
    /\ UNCHANGED <<backend, id, pc, mine, wait, got, raced, unstarted, left, pingVars, linkVars>>

\* The client is destroyed, between calls.
Destroy ==
    /\ \A t \in Threads : pc[t] = "idle"
    /\ ~gone /\ gone' = TRUE
    /\ sender' = Nil
    /\ CloseSender
    /\ UNCHANGED <<backend, id, pc, mine, wait, got, raced, unstarted, left, linkVars>>

-----------------------------------------------------------------------------
(* The ping thread.  A callback that failed returns zero, so that it is     *)
(* called again at once ("spinning").                                       *)

InCallback == {"sent", "renewed", "refused"}

CanSend(l) == Up /\ l \notin broken

Wake(l) ==
    /\ thread[l] = "sleeping" /\ timer[l] = 0
    /\ thread' = [thread EXCEPT ![l] = IF CanSend(l) THEN "sent" ELSE "spinning"]
    /\ UNCHANGED <<backend, userVars, left, pinged, timer, closed, broken, linkVars>>

\* The next attempt of a spinning thread that is not in vain.
Retry(l) ==
    /\ thread[l] = "spinning" /\ CanSend(l) /\ left[pinged[l]] > 0
    /\ thread' = [thread EXCEPT ![l] = "sent"]
    /\ timer' = [timer EXCEPT ![l] = 0]
    /\ UNCHANGED <<backend, userVars, left, pinged, closed, broken, linkVars>>

\* The service renews the lease, if it still has it.
Renew(l) ==
    /\ thread[l] = "sent"
    /\ left' = [left EXCEPT ![pinged[l]] = IF @ > 0 THEN TTL ELSE 0]
    /\ thread' = [thread EXCEPT ![l] = IF left[pinged[l]] > 0 THEN "renewed" ELSE "refused"]
    /\ UNCHANGED <<backend, userVars, pinged, timer, closed, broken, linkVars>>

\* The callback returns; the thread sleeps, spins, or sees that it was closed.
Reply(l) ==
    /\ thread[l] \in {"renewed", "refused"}
    /\ thread' = [thread EXCEPT ![l] = IF l \in closed THEN "done"
                                       ELSE IF @ = "renewed" THEN "sleeping" ELSE "spinning"]
    /\ timer' = [timer EXCEPT ![l] = IF thread[l] = "renewed" THEN Period ELSE 0]
    /\ UNCHANGED <<backend, userVars, left, pinged, closed, broken, linkVars>>

-----------------------------------------------------------------------------
(* The connection and the clock. *)

\* Calls in progress fail, and every stream is broken for good.
GoDown ==
    /\ Up /\ outages < MaxOutages
    /\ outage' = 0 /\ outages' = outages + 1
    /\ thread' = [l \in Leases |-> IF thread[l] \in InCallback
                                   THEN IF l \in closed THEN "done" ELSE "spinning"
                                   ELSE thread[l]]
    /\ broken' = IF backend = "etcd" THEN broken \cup {l \in Leases : thread[l] # "none"} ELSE broken
    /\ pc' = [t \in Threads |-> IF pc[t] = "granted" THEN "idle" ELSE pc[t]]
    /\ UNCHANGED <<backend, id, sender, mine, wait, got, gone, raced, unstarted, left, pinged, timer, closed>>

ComeUp ==
    /\ ~Up
    /\ outage' = Nil
    /\ UNCHANGED <<backend, userVars, left, pingVars, outages>>

\* Something has to happen before the clock moves on.
Due ==
    \/ \E t \in Threads : pc[t] \notin {"idle", "granted"} \/ (pc[t] = "granted" /\ wait[t] = MaxDelay)
    \/ \E l \in Leases : \/ thread[l] = "sleeping" /\ timer[l] = 0
                         \/ thread[l] = "spinning" /\ CanSend(l) /\ left[pinged[l]] > 0
                         \/ thread[l] \in InCallback /\ timer[l] = MaxDelay
    \/ outage = MaxOutage

Less(n) == IF n > 0 THEN n - 1 ELSE 0

Tick ==
    /\ ~Due
    /\ left' = [l \in Leases |-> Less(left[l])]
    /\ timer' = [l \in Leases |-> IF thread[l] \in InCallback THEN timer[l] + 1 ELSE Less(timer[l])]
    /\ wait' = [t \in Threads |-> IF pc[t] = "granted" THEN wait[t] + 1 ELSE wait[t]]
    /\ outage' = IF Up THEN Nil ELSE outage + 1
    /\ UNCHANGED <<backend, id, sender, pc, mine, got, gone, raced, unstarted, thread, pinged, closed, broken, outages>>

UserStep(t) ==
    \/ \E l \in Leases : Grant(t, l)
    \/ GrantFails(t)
    \/ SetUp(t)
    \/ SetUpFails(t)
    \/ DestroySender(t)
    \/ DestroyFreed(t)
    \/ Assign(t)
    \/ Store(t)
    \/ Return(t)

ThreadStep(l) == Wake(l) \/ Retry(l) \/ Renew(l) \/ Reply(l)

Next ==
    \/ \E t \in Threads : Check(t) \/ UserStep(t)
    \/ \E l \in Leases : ThreadStep(l)
    \/ Destroy
    \/ GoDown
    \/ ComeUp
    \/ Tick

Spec == Init /\ [][Next]_vars

\* Time passes, threads and the service act and outages end; nobody has to call or to destroy.
Fairness ==
    /\ WF_vars(Tick) /\ WF_vars(ComeUp)
    /\ \A t \in Threads : WF_vars(UserStep(t))
    /\ \A l \in Leases : WF_vars(ThreadStep(l))

FairSpec == Spec /\ Fairness

-----------------------------------------------------------------------------
(* Properties. *)

\* A lease that was handed out lives as long as the client does: delays and, with Consul, an
\* outage do not end it.  What can: that the stream to etcd broke, that two threads were
\* getting a lease at once, that the ping thread of a session could not be started.
LeaseKept ==
    gone \/ raced \/ \A l \in got \ (broken \cup unstarted) : left[l] > 0

\* Between calls ping_sender_ never holds a block that was closed, and that its thread may have
\* deleted, however the assignments of racing threads interleave: whoever closed a block has
\* overwritten the pointer to it since, so that the destructor does not close it again.
SenderUsable == (\A t \in Threads : pc[t] = "idle") /\ ~gone => sender \notin closed

\* Two threads have assigned to ping_sender_ at once, and the ping thread of one of them, which
\* renews l, is out of everybody's reach.
Leaked(l) == raced /\ \E m \in Leases : pinged[m] = l /\ thread[m] # "none" /\ m \notin closed

\* Once the client is destroyed none of its leases is kept and its ephemeral keys disappear,
\* even if a renewal was on its way, an outage came between, or another thread had the lease
\* replaced.  A lease whose ping thread was leaked by racing threads is the exception.
LeasesEnd == \A l \in Leases : gone /\ ~Leaked(l) ~> left[l] = 0

=============================================================================
