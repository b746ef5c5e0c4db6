----------------------------- MODULE PingSender -----------------------------
(***************************************************************************)
(* PingSender and PingControl (ping_sender.hpp): the detached thread that  *)
(* keeps a lease or a session alive, and the object through which it is    *)
(* told to stop.                                                           *)
(*                                                                         *)
(* A PingControl is allocated by a PingSender and used by both the sender  *)
(* and the thread; it is the thread that deletes it.  Every step between   *)
(* two operations on the mutex, the condition variable or the heap is one  *)
(* action, so that the owner and the thread interleave in all the ways     *)
(* they can.  A control block that was deleted is never allocated again:   *)
(* any later use of it is a use after free.                                *)
(***************************************************************************)
EXTENDS Naturals

CONSTANTS
    Senders,    \* the PingSender objects of the program
    Ctls,       \* the PingControl blocks the heap has to give
    Nil         \* nullptr

ASSUME NilIsNoObject == Nil \notin Senders \cup Ctls

VARIABLES
    mem,        \* mem[x]: "free", "live" or "deleted"
    closed,     \* closed[x]: PingControl::closed_
    mtx,        \* mtx[x]: who holds PingControl::mtx_: "nobody", "thread" or "owner"
    thread,     \* thread[x]: what the thread of x does next
    ctl,        \* ctl[s]: PingSender::ctl_
    pc,         \* pc[s]: what is being done to sender s
    source      \* source[s]: the object move-assigned to s, Nil when s is being destroyed

vars == <<mem, closed, mtx, thread, ctl, pc, source>>

-----------------------------------------------------------------------------
Init ==
    /\ mem = [x \in Ctls |-> "free"]
    /\ closed = [x \in Ctls |-> FALSE]
    /\ mtx = [x \in Ctls |-> "nobody"]
    /\ thread = [x \in Ctls |-> "none"]
    /\ ctl = [s \in Senders |-> Nil]
    /\ pc = [s \in Senders |-> "absent"]
    /\ source = [s \in Senders |-> Nil]

-----------------------------------------------------------------------------
(* The life of a PingSender. *)

\* PingSender(): no thread.
ConstructEmpty(s) ==
    /\ pc[s] = "absent"
    /\ pc' = [pc EXCEPT ![s] = "idle"]
    /\ UNCHANGED <<mem, closed, mtx, thread, ctl, source>>

\* PingSender(first_timeout, callback): the thread begins with a wait.
Construct(s, x) ==
    /\ pc[s] = "absent" /\ mem[x] = "free"
    /\ mem' = [mem EXCEPT ![x] = "live"]
    /\ thread' = [thread EXCEPT ![x] = "entering"]
    /\ ctl' = [ctl EXCEPT ![s] = x]
    /\ pc' = [pc EXCEPT ![s] = "idle"]
    /\ UNCHANGED <<closed, mtx, source>>

\* std::thread cannot be started: the block is deleted and the constructor throws.
ConstructFails(s, x) ==
    /\ pc[s] = "absent" /\ mem[x] = "free"
    /\ mem' = [mem EXCEPT ![x] = "deleted"]
    /\ UNCHANGED <<closed, mtx, thread, ctl, pc, source>>

\* ctl_ = that.ctl_; that.ctl_ = nullptr, in this order, so that s = t ends empty.
MoveCtl(s, t) == [u \in Senders |-> IF u = t THEN Nil ELSE IF u = s THEN ctl[t] ELSE ctl[u]]

MoveConstruct(s, t) ==
    /\ pc[s] = "absent" /\ pc[t] = "idle"
    /\ ctl' = MoveCtl(s, t)
    /\ pc' = [pc EXCEPT ![s] = "idle"]
    /\ UNCHANGED <<mem, closed, mtx, thread, source>>

\* Mutant: the thread of the object assigned to is not told to stop.
MoveAssignOnly(s, t) ==
    /\ pc[s] = "idle" /\ pc[t] = "idle"
    /\ ctl' = MoveCtl(s, t)
    /\ UNCHANGED <<mem, closed, mtx, thread, pc, source>>

\* While s is being assigned to, nobody else uses the object it is assigned from.
MoveAssign(s, t) ==
    /\ pc[s] = "idle" /\ pc[t] = "idle"
    /\ IF ctl[s] = Nil
       THEN /\ ctl' = MoveCtl(s, t)
            /\ UNCHANGED <<pc, source>>
       ELSE /\ pc' = [u \in Senders |-> IF u = s THEN "locking" ELSE IF u = t THEN "lent" ELSE pc[u]]
            /\ source' = [source EXCEPT ![s] = t]
            /\ UNCHANGED ctl
    /\ UNCHANGED <<mem, closed, mtx, thread>>

Destroy(s) ==
    /\ pc[s] = "idle"
    /\ pc' = [pc EXCEPT ![s] = IF ctl[s] = Nil THEN "absent" ELSE "locking"]
    /\ source' = [source EXCEPT ![s] = Nil]
    /\ UNCHANGED <<mem, closed, mtx, thread, ctl>>

-----------------------------------------------------------------------------
(* PingControl::close, called by destroy_. *)

Lock(s) ==
    /\ pc[s] = "locking" /\ mtx[ctl[s]] = "nobody"
    /\ mtx' = [mtx EXCEPT ![ctl[s]] = "owner"]
    /\ pc' = [pc EXCEPT ![s] = "closing"]
    /\ UNCHANGED <<mem, closed, thread, ctl, source>>

\* Mutant: the mutex is released before the thread is notified.
SetClosedAndUnlock(s) ==
    /\ pc[s] = "closing"
    /\ closed' = [closed EXCEPT ![ctl[s]] = TRUE]
    /\ mtx' = [mtx EXCEPT ![ctl[s]] = "nobody"]
    /\ pc' = [pc EXCEPT ![s] = "notifying"]
    /\ UNCHANGED <<mem, thread, ctl, source>>

SetClosed(s) ==
    /\ pc[s] = "closing"
    /\ closed' = [closed EXCEPT ![ctl[s]] = TRUE]
    /\ pc' = [pc EXCEPT ![s] = "notifying"]
    /\ UNCHANGED <<mem, mtx, thread, ctl, source>>

\* Mutant: close does not wake the thread.
WakesNobody(label) == label

\* cv_.notify_one() on a thread that does label.
Wakes(label) == IF label = "asleep" THEN "entering" ELSE label

NotifyOne(s) ==
    /\ pc[s] = "notifying"
    /\ thread' = [thread EXCEPT ![ctl[s]] = Wakes(@)]
    /\ pc' = [pc EXCEPT ![s] = "unlocking"]
    /\ UNCHANGED <<mem, closed, mtx, ctl, source>>

\* The lock_guard releases the mutex; the destructor, or the assignment, then completes.
Unlock(s) ==
    /\ pc[s] = "unlocking"
    /\ mtx' = [mtx EXCEPT ![ctl[s]] = "nobody"]
    /\ IF source[s] = Nil
       THEN /\ ctl' = [ctl EXCEPT ![s] = Nil]
            /\ pc' = [pc EXCEPT ![s] = "absent"]
       ELSE /\ ctl' = MoveCtl(s, source[s])
            /\ pc' = [u \in Senders |-> IF u \in {s, source[s]} THEN "idle" ELSE pc[u]]
    /\ source' = [source EXCEPT ![s] = Nil]
    /\ UNCHANGED <<mem, closed, thread>>

-----------------------------------------------------------------------------
(* The thread: while (!ctl->wait(timeout)) timeout = callback(); delete ctl. *)

\* wait takes the mutex, at first and whenever it wakes up: "entering" comes back to the
\* loop over the predicate, "expired" to its last evaluation.
ThreadLocks(x) ==
    /\ thread[x] \in {"entering", "expired"} /\ mtx[x] = "nobody"
    /\ mtx' = [mtx EXCEPT ![x] = "thread"]
    /\ thread' = [thread EXCEPT ![x] = IF @ = "entering" THEN "checking" ELSE "last_check"]
    /\ UNCHANGED <<mem, closed, ctl, pc, source>>

\* The predicate is evaluated and the mutex released: wait returns true if closed_ is set;
\* otherwise the thread sleeps, or, at the last evaluation, calls back.
ThreadChecks(x) ==
    /\ thread[x] \in {"checking", "last_check"}
    /\ mtx' = [mtx EXCEPT ![x] = "nobody"]
    /\ thread' = [thread EXCEPT ![x] = IF closed[x] THEN "leaving"
                                       ELSE IF @ = "checking" THEN "asleep" ELSE "calling"]
    /\ UNCHANGED <<mem, closed, ctl, pc, source>>

TimesOut(x) ==
    /\ thread[x] = "asleep"
    /\ thread' = [thread EXCEPT ![x] = "expired"]
    /\ UNCHANGED <<mem, closed, mtx, ctl, pc, source>>

WakesSpuriously(x) ==
    /\ thread[x] = "asleep"
    /\ thread' = [thread EXCEPT ![x] = "entering"]
    /\ UNCHANGED <<mem, closed, mtx, ctl, pc, source>>

CallbackReturns(x) ==
    /\ thread[x] = "calling"
    /\ thread' = [thread EXCEPT ![x] = "entering"]
    /\ UNCHANGED <<mem, closed, mtx, ctl, pc, source>>

DeleteCtl(x) ==
    /\ thread[x] = "leaving"
    /\ mem' = [mem EXCEPT ![x] = "deleted"]
    /\ thread' = [thread EXCEPT ![x] = "done"]
    /\ UNCHANGED <<closed, mtx, ctl, pc, source>>

-----------------------------------------------------------------------------
OwnerStep(s) ==
    \/ ConstructEmpty(s)
    \/ \E x \in Ctls : Construct(s, x) \/ ConstructFails(s, x)
    \/ \E t \in Senders : MoveConstruct(s, t) \/ MoveAssign(s, t)
    \/ Destroy(s)

CloseStep(s) == Lock(s) \/ SetClosed(s) \/ NotifyOne(s) \/ Unlock(s)

ThreadStep(x) ==
    \/ ThreadLocks(x)
    \/ ThreadChecks(x)
    \/ TimesOut(x)
    \/ CallbackReturns(x)
    \/ DeleteCtl(x)

Next ==
    \/ \E s \in Senders : OwnerStep(s) \/ CloseStep(s)
    \/ \E x \in Ctls : ThreadStep(x) \/ WakesSpuriously(x)

Spec == Init /\ [][Next]_vars

\* Threads run, timeouts are finite, callbacks return (each is a request that the service
\* answers or that fails) and a mutex that is free again and again is obtained in the end.
\* Nobody is obliged to create or destroy senders.
Fairness ==
    /\ \A s \in Senders : WF_vars(CloseStep(s)) /\ SF_vars(Lock(s))
    /\ \A x \in Ctls : WF_vars(ThreadStep(x))

FairSpec == Spec /\ Fairness

-----------------------------------------------------------------------------
(* Properties. *)

Closing == {"locking", "closing", "notifying", "unlocking"}

Running == {"entering", "checking", "asleep", "expired", "last_check", "calling", "leaving"}

TypeOK ==
    /\ mem \in [Ctls -> {"free", "live", "deleted"}]
    /\ closed \in [Ctls -> BOOLEAN]
    /\ mtx \in [Ctls -> {"nobody", "thread", "owner"}]
    /\ thread \in [Ctls -> Running \cup {"none", "done"}]
    /\ ctl \in [Senders -> Ctls \cup {Nil}]
    /\ pc \in [Senders -> Closing \cup {"absent", "idle", "lent"}]
    /\ source \in [Senders -> Senders \cup {Nil}]

\* Neither close(), down to the release of the mutex, nor the thread ever touches a control
\* block that has been deleted, a sender never points to one, and none is deleted while its
\* mutex is held: the thread cannot leave wait() before close() is over.
NoUseAfterFree ==
    /\ \A s \in Senders : ctl[s] # Nil => mem[ctl[s]] = "live"
    /\ \A x \in Ctls : thread[x] \in Running => mem[x] = "live"
    /\ \A x \in Ctls : thread[x] \in {"leaving", "done"} => mtx[x] = "nobody"

\* Once the destructor or the assignment that called close() is over, the thread is not
\* left sleeping until the timeout: it was notified, or it has yet to look at closed_.
NoLostWakeup ==
    \A x \in Ctls : closed[x] /\ (\A s \in Senders : ctl[s] # x) => thread[x] # "asleep"

\* A control block that no sender points to any more, or whose sender is being destroyed or
\* assigned to, is in the end deleted by its thread: nothing leaks and the thread exits.
Reclaimed ==
    \A x \in Ctls :
        (mem[x] = "live" /\ \A s \in Senders : ctl[s] = x => pc[s] \in Closing)
            ~> (mem[x] = "deleted")

=============================================================================
