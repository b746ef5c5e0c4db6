-------------------------- MODULE PingSenderProofs --------------------------
(***************************************************************************)
(* For any number of senders and control blocks: no use after free, no     *)
(* lost wakeup.                                                            *)
(*                                                                         *)
(* The argument: a block has at most one owner; the mutex has the holder   *)
(* the program counters say; and the only way for the thread to leave      *)
(* wait() is to find closed_ set with the mutex in its hand, when the      *)
(* owner has already given up both the mutex and the pointer.              *)
(***************************************************************************)
EXTENDS PingSender, TLAPS

\* What relates a sender to its block.
OwnerInv ==
    \A s \in Senders :
        /\ pc[s] = "absent" => ctl[s] = Nil
        /\ pc[s] \in Closing => ctl[s] # Nil
        /\ ctl[s] # Nil =>
             /\ mem[ctl[s]] = "live"
             /\ thread[ctl[s]] \in Running \ {"leaving"}
             /\ mtx[ctl[s]] = "owner" <=> pc[s] \in {"closing", "notifying", "unlocking"}
             /\ closed[ctl[s]] <=> pc[s] \in {"notifying", "unlocking"}
             /\ pc[s] = "unlocking" => thread[ctl[s]] # "asleep"

\* No block has two owners.
SingleOwner ==
    \A s, t \in Senders : ctl[s] # Nil /\ ctl[s] = ctl[t] => s = t

\* s is being assigned to from another object.
AssignedFrom(s, t) == pc[s] \in Closing /\ source[s] = t /\ t # s

\* An object being assigned from is at rest, and assigned to one object only.
SourceInv ==
    \A s, t \in Senders : AssignedFrom(s, t) =>
        /\ pc[t] = "lent"
        /\ \A u \in Senders : AssignedFrom(u, t) => u = s

\* What relates a thread to its block.
ThreadInv ==
    \A x \in Ctls :
        /\ thread[x] \in Running => mem[x] = "live"
        /\ mtx[x] = "thread" <=> thread[x] \in {"checking", "last_check"}
        /\ mtx[x] = "owner" => \E s \in Senders : ctl[s] = x
        /\ thread[x] = "leaving" => closed[x]
        /\ mem[x] = "free" => thread[x] = "none" /\ ~closed[x]
        /\ thread[x] = "none" => mtx[x] = "nobody"
        /\ closed[x] /\ (\A s \in Senders : ctl[s] # x) => thread[x] # "asleep"

Inv == TypeOK /\ OwnerInv /\ SingleOwner /\ SourceInv /\ ThreadInv

-----------------------------------------------------------------------------
LEMMA ConstructEmptyPreserves ==
    ASSUME Inv, NEW s \in Senders, ConstructEmpty(s) PROVE Inv'
<1> USE NilIsNoObject DEF Inv, ConstructEmpty, Closing, Running
<1>1. TypeOK'
    BY DEF TypeOK
<1>2. OwnerInv'
    BY DEF TypeOK, OwnerInv, SingleOwner, SourceInv, AssignedFrom, ThreadInv
<1>3. SingleOwner'
    BY DEF TypeOK, OwnerInv, SingleOwner, ThreadInv
<1>4. SourceInv'
    BY DEF TypeOK, SourceInv, AssignedFrom
<1>5. ThreadInv'
    BY DEF TypeOK, OwnerInv, SingleOwner, SourceInv, AssignedFrom, ThreadInv
<1> QED BY <1>1, <1>2, <1>3, <1>4, <1>5

LEMMA ConstructPreserves ==
    ASSUME Inv, NEW s \in Senders, NEW x \in Ctls, Construct(s, x) PROVE Inv'
<1> USE NilIsNoObject DEF Inv, Construct, Closing, Running
<1>1. TypeOK'
    BY DEF TypeOK
<1>2. OwnerInv'
    BY DEF TypeOK, OwnerInv, SingleOwner, SourceInv, AssignedFrom, ThreadInv
<1>3. SingleOwner'
    BY DEF TypeOK, OwnerInv, SingleOwner, ThreadInv
<1>4. SourceInv'
    BY DEF TypeOK, SourceInv, AssignedFrom
<1>5. ThreadInv'
    BY DEF TypeOK, OwnerInv, SingleOwner, SourceInv, AssignedFrom, ThreadInv
<1> QED BY <1>1, <1>2, <1>3, <1>4, <1>5

LEMMA ConstructFailsPreserves ==
    ASSUME Inv, NEW s \in Senders, NEW x \in Ctls, ConstructFails(s, x) PROVE Inv'
<1> USE NilIsNoObject DEF Inv, ConstructFails, Closing, Running
<1>1. TypeOK'
    BY DEF TypeOK
<1>2. OwnerInv'
    BY DEF TypeOK, OwnerInv, SingleOwner, SourceInv, AssignedFrom, ThreadInv
<1>3. SingleOwner'
    BY DEF TypeOK, OwnerInv, SingleOwner, ThreadInv
<1>4. SourceInv'
    BY DEF TypeOK, SourceInv, AssignedFrom
<1>5. ThreadInv'
    BY DEF TypeOK, OwnerInv, SingleOwner, SourceInv, AssignedFrom, ThreadInv
<1> QED BY <1>1, <1>2, <1>3, <1>4, <1>5

LEMMA MoveConstructPreserves ==
    ASSUME Inv, NEW s \in Senders, NEW t \in Senders, MoveConstruct(s, t) PROVE Inv'
<1> USE NilIsNoObject DEF Inv, MoveConstruct, MoveCtl, Closing, Running
<1>1. TypeOK'
    BY DEF TypeOK
<1>2. OwnerInv'
    BY DEF TypeOK, OwnerInv, SingleOwner, SourceInv, AssignedFrom, ThreadInv
<1>3. SingleOwner'
    BY DEF TypeOK, OwnerInv, SingleOwner, ThreadInv
<1>4. SourceInv'
    BY DEF TypeOK, SourceInv, AssignedFrom
<1>5. ThreadInv'
    BY DEF TypeOK, OwnerInv, SingleOwner, SourceInv, AssignedFrom, ThreadInv
<1> QED BY <1>1, <1>2, <1>3, <1>4, <1>5

LEMMA MoveAssignPreserves ==
    ASSUME Inv, NEW s \in Senders, NEW t \in Senders, MoveAssign(s, t) PROVE Inv'
<1> USE NilIsNoObject DEF Inv, MoveAssign, MoveCtl, Closing, Running
<1>1. TypeOK'
    BY DEF TypeOK
<1>2. OwnerInv'
    BY DEF TypeOK, OwnerInv, SingleOwner, SourceInv, AssignedFrom, ThreadInv
<1>3. SingleOwner'
    BY DEF TypeOK, OwnerInv, SingleOwner, ThreadInv
<1>4. SourceInv'
    BY DEF TypeOK, SourceInv, AssignedFrom
<1>5. ThreadInv'
    BY DEF TypeOK, OwnerInv, SingleOwner, SourceInv, AssignedFrom, ThreadInv
<1> QED BY <1>1, <1>2, <1>3, <1>4, <1>5

LEMMA DestroyPreserves ==
    ASSUME Inv, NEW s \in Senders, Destroy(s) PROVE Inv'
<1> USE NilIsNoObject DEF Inv, Destroy, Closing, Running
<1>1. TypeOK'
    BY DEF TypeOK
<1>2. OwnerInv'
    BY DEF TypeOK, OwnerInv, SingleOwner, SourceInv, AssignedFrom, ThreadInv
<1>3. SingleOwner'
    BY DEF TypeOK, OwnerInv, SingleOwner, ThreadInv
<1>4. SourceInv'
    BY DEF TypeOK, SourceInv, AssignedFrom
<1>5. ThreadInv'
    BY DEF TypeOK, OwnerInv, SingleOwner, SourceInv, AssignedFrom, ThreadInv
<1> QED BY <1>1, <1>2, <1>3, <1>4, <1>5

LEMMA LockPreserves ==
    ASSUME Inv, NEW s \in Senders, Lock(s) PROVE Inv'
<1> USE NilIsNoObject DEF Inv, Lock, Closing, Running
<1>1. TypeOK'
    BY DEF TypeOK
<1>2. OwnerInv'
    BY DEF TypeOK, OwnerInv, SingleOwner, SourceInv, AssignedFrom, ThreadInv
<1>3. SingleOwner'
    BY DEF TypeOK, OwnerInv, SingleOwner, ThreadInv
<1>4. SourceInv'
    BY DEF TypeOK, SourceInv, AssignedFrom
<1>5. ThreadInv'
    BY DEF TypeOK, OwnerInv, SingleOwner, SourceInv, AssignedFrom, ThreadInv
<1> QED BY <1>1, <1>2, <1>3, <1>4, <1>5

LEMMA SetClosedPreserves ==
    ASSUME Inv, NEW s \in Senders, SetClosed(s) PROVE Inv'
<1> USE NilIsNoObject DEF Inv, SetClosed, Closing, Running
<1>1. TypeOK'
    BY DEF TypeOK
<1>2. OwnerInv'
    BY DEF TypeOK, OwnerInv, SingleOwner, SourceInv, AssignedFrom, ThreadInv
<1>3. SingleOwner'
    BY DEF TypeOK, OwnerInv, SingleOwner, ThreadInv
<1>4. SourceInv'
    BY DEF TypeOK, SourceInv, AssignedFrom
<1>5. ThreadInv'
    BY DEF TypeOK, OwnerInv, SingleOwner, SourceInv, AssignedFrom, ThreadInv
<1> QED BY <1>1, <1>2, <1>3, <1>4, <1>5

LEMMA NotifyOnePreserves ==
    ASSUME Inv, NEW s \in Senders, NotifyOne(s) PROVE Inv'
<1> USE NilIsNoObject DEF Inv, NotifyOne, Wakes, Closing, Running
<1>1. TypeOK'
    BY DEF TypeOK
<1>2. OwnerInv'
    BY DEF TypeOK, OwnerInv, SingleOwner, SourceInv, AssignedFrom, ThreadInv
<1>3. SingleOwner'
    BY DEF TypeOK, OwnerInv, SingleOwner, ThreadInv
<1>4. SourceInv'
    BY DEF TypeOK, SourceInv, AssignedFrom
<1>5. ThreadInv'
    BY DEF TypeOK, OwnerInv, SingleOwner, SourceInv, AssignedFrom, ThreadInv
<1> QED BY <1>1, <1>2, <1>3, <1>4, <1>5

LEMMA UnlockPreserves ==
    ASSUME Inv, NEW s \in Senders, Unlock(s) PROVE Inv'
<1> USE NilIsNoObject DEF Inv, Unlock, MoveCtl, Closing, Running
<1>1. TypeOK'
    <2>1. CASE source[s] = Nil BY <2>1 DEF TypeOK
    <2>2. CASE source[s] # Nil
        <3>1. source[s] \in Senders
            BY <2>2 DEF TypeOK
        <3>2. ctl' \in [Senders -> Ctls \cup {Nil}]
            BY <2>2, <3>1 DEF TypeOK
        <3>3. pc' \in [Senders -> Closing \cup {"absent", "idle", "lent"}]
            BY <2>2, <3>1 DEF TypeOK
        <3> QED BY <2>2, <3>2, <3>3 DEF TypeOK
    <2> QED BY <2>1, <2>2
<1>2. OwnerInv'
    BY DEF TypeOK, OwnerInv, SingleOwner, SourceInv, AssignedFrom, ThreadInv
<1>3. SingleOwner'
    BY DEF TypeOK, OwnerInv, SingleOwner, ThreadInv
<1>4. SourceInv'
    BY DEF TypeOK, SourceInv, AssignedFrom
<1>5. ThreadInv'
    BY DEF TypeOK, OwnerInv, SingleOwner, SourceInv, AssignedFrom, ThreadInv
<1> QED BY <1>1, <1>2, <1>3, <1>4, <1>5

LEMMA ThreadLocksPreserves ==
    ASSUME Inv, NEW x \in Ctls, ThreadLocks(x) PROVE Inv'
<1> USE NilIsNoObject DEF Inv, ThreadLocks, Closing, Running
<1>1. TypeOK'
    BY DEF TypeOK
<1>2. OwnerInv'
    BY DEF TypeOK, OwnerInv, SingleOwner, SourceInv, AssignedFrom, ThreadInv
<1>3. SingleOwner'
    BY DEF TypeOK, OwnerInv, SingleOwner, ThreadInv
<1>4. SourceInv'
    BY DEF TypeOK, SourceInv, AssignedFrom
<1>5. ThreadInv'
    BY DEF TypeOK, OwnerInv, SingleOwner, SourceInv, AssignedFrom, ThreadInv
<1> QED BY <1>1, <1>2, <1>3, <1>4, <1>5

LEMMA ThreadChecksPreserves ==
    ASSUME Inv, NEW x \in Ctls, ThreadChecks(x) PROVE Inv'
<1> USE NilIsNoObject DEF Inv, ThreadChecks, Closing, Running
<1>1. TypeOK'
    BY DEF TypeOK
<1>2. OwnerInv'
    BY DEF TypeOK, OwnerInv, SingleOwner, SourceInv, AssignedFrom, ThreadInv
<1>3. SingleOwner'
    BY DEF TypeOK, OwnerInv, SingleOwner, ThreadInv
<1>4. SourceInv'
    BY DEF TypeOK, SourceInv, AssignedFrom
<1>5. ThreadInv'
    BY DEF TypeOK, OwnerInv, SingleOwner, SourceInv, AssignedFrom, ThreadInv
<1> QED BY <1>1, <1>2, <1>3, <1>4, <1>5

LEMMA TimesOutPreserves ==
    ASSUME Inv, NEW x \in Ctls, TimesOut(x) PROVE Inv'
<1> USE NilIsNoObject DEF Inv, TimesOut, Closing, Running
<1>1. TypeOK'
    BY DEF TypeOK
<1>2. OwnerInv'
    BY DEF TypeOK, OwnerInv, SingleOwner, SourceInv, AssignedFrom, ThreadInv
<1>3. SingleOwner'
    BY DEF TypeOK, OwnerInv, SingleOwner, ThreadInv
<1>4. SourceInv'
    BY DEF TypeOK, SourceInv, AssignedFrom
<1>5. ThreadInv'
    BY DEF TypeOK, OwnerInv, SingleOwner, SourceInv, AssignedFrom, ThreadInv
<1> QED BY <1>1, <1>2, <1>3, <1>4, <1>5

LEMMA WakesSpuriouslyPreserves ==
    ASSUME Inv, NEW x \in Ctls, WakesSpuriously(x) PROVE Inv'
<1> USE NilIsNoObject DEF Inv, WakesSpuriously, Closing, Running
<1>1. TypeOK'
    BY DEF TypeOK
<1>2. OwnerInv'
    BY DEF TypeOK, OwnerInv, SingleOwner, SourceInv, AssignedFrom, ThreadInv
<1>3. SingleOwner'
    BY DEF TypeOK, OwnerInv, SingleOwner, ThreadInv
<1>4. SourceInv'
    BY DEF TypeOK, SourceInv, AssignedFrom
<1>5. ThreadInv'
    BY DEF TypeOK, OwnerInv, SingleOwner, SourceInv, AssignedFrom, ThreadInv
<1> QED BY <1>1, <1>2, <1>3, <1>4, <1>5

LEMMA CallbackReturnsPreserves ==
    ASSUME Inv, NEW x \in Ctls, CallbackReturns(x) PROVE Inv'
<1> USE NilIsNoObject DEF Inv, CallbackReturns, Closing, Running
<1>1. TypeOK'
    BY DEF TypeOK
<1>2. OwnerInv'
    BY DEF TypeOK, OwnerInv, SingleOwner, SourceInv, AssignedFrom, ThreadInv
<1>3. SingleOwner'
    BY DEF TypeOK, OwnerInv, SingleOwner, ThreadInv
<1>4. SourceInv'
    BY DEF TypeOK, SourceInv, AssignedFrom
<1>5. ThreadInv'
    BY DEF TypeOK, OwnerInv, SingleOwner, SourceInv, AssignedFrom, ThreadInv
<1> QED BY <1>1, <1>2, <1>3, <1>4, <1>5

LEMMA DeleteCtlPreserves ==
    ASSUME Inv, NEW x \in Ctls, DeleteCtl(x) PROVE Inv'
<1> USE NilIsNoObject DEF Inv, DeleteCtl, Closing, Running
<1>1. TypeOK'
    BY DEF TypeOK
<1>2. OwnerInv'
    BY DEF TypeOK, OwnerInv, SingleOwner, SourceInv, AssignedFrom, ThreadInv
<1>3. SingleOwner'
    BY DEF TypeOK, OwnerInv, SingleOwner, ThreadInv
<1>4. SourceInv'
    BY DEF TypeOK, SourceInv, AssignedFrom
<1>5. ThreadInv'
    BY DEF TypeOK, OwnerInv, SingleOwner, SourceInv, AssignedFrom, ThreadInv
<1> QED BY <1>1, <1>2, <1>3, <1>4, <1>5

-----------------------------------------------------------------------------
LEMMA InvImplies == Inv => NoUseAfterFree /\ NoLostWakeup
<1> SUFFICES ASSUME Inv PROVE NoUseAfterFree /\ NoLostWakeup
    OBVIOUS
<1>1. \A x \in Ctls : thread[x] \in {"leaving", "done"} => mtx[x] = "nobody"
    <2> SUFFICES ASSUME NEW x \in Ctls, thread[x] \in {"leaving", "done"} PROVE mtx[x] = "nobody"
        OBVIOUS
    <2>1. mtx[x] # "thread"
        BY DEF Inv, ThreadInv
    <2>2. mtx[x] # "owner"
        BY NilIsNoObject DEF Inv, ThreadInv, OwnerInv, Running
    <2> QED BY <2>1, <2>2 DEF Inv, TypeOK
<1>2. NoUseAfterFree
    BY <1>1 DEF Inv, OwnerInv, ThreadInv, NoUseAfterFree
<1>3. NoLostWakeup
    BY DEF Inv, ThreadInv, NoLostWakeup
<1> QED BY <1>2, <1>3

LEMMA InvInductive == Spec => []Inv
<1>1. Init => Inv
    BY NilIsNoObject DEF Init, Inv, TypeOK, OwnerInv, SingleOwner, SourceInv, AssignedFrom, ThreadInv, Closing, Running
<1>2. Inv /\ [Next]_vars => Inv'
    <2> SUFFICES ASSUME Inv, [Next]_vars PROVE Inv'
        OBVIOUS
    <2>1. CASE UNCHANGED vars
        BY <2>1 DEF vars, Inv, TypeOK, OwnerInv, SingleOwner, SourceInv, AssignedFrom, ThreadInv
    <2>2. ASSUME NEW s \in Senders, OwnerStep(s) PROVE Inv'
        BY <2>2, ConstructEmptyPreserves, ConstructPreserves, ConstructFailsPreserves,
           MoveConstructPreserves, MoveAssignPreserves, DestroyPreserves DEF OwnerStep
    <2>3. ASSUME NEW s \in Senders, CloseStep(s) PROVE Inv'
        BY <2>3, LockPreserves, SetClosedPreserves, NotifyOnePreserves, UnlockPreserves DEF CloseStep
    <2>4. ASSUME NEW x \in Ctls, ThreadStep(x) \/ WakesSpuriously(x) PROVE Inv'
        BY <2>4, ThreadLocksPreserves, ThreadChecksPreserves, TimesOutPreserves, WakesSpuriouslyPreserves,
           CallbackReturnsPreserves, DeleteCtlPreserves DEF ThreadStep
    <2> QED BY <2>1, <2>2, <2>3, <2>4 DEF Next
<1> QED BY <1>1, <1>2, PTL DEF Spec

\* Neither the owner nor the thread touches a PingControl after the thread deleted it.
THEOREM MemorySafe == Spec => []NoUseAfterFree
BY InvInductive, InvImplies, PTL

\* close() never leaves the thread asleep.
THEOREM Woken == Spec => []NoLostWakeup
BY InvInductive, InvImplies, PTL

=============================================================================
