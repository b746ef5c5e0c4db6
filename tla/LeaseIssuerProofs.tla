-------------------------- MODULE LeaseIssuerProofs --------------------------
(***************************************************************************)
(* For any number of threads and leases, and any times that satisfy        *)
(* SlackAssumption: a lease that was handed out is kept.                   *)
(*                                                                         *)
(* The argument is a budget.  Between a renewal and the next attempt the   *)
(* lease loses at most one delay and a period; the attempt may take one    *)
(* more delay; and each outage still to come may cost its own length and   *)
(* another attempt.  TimeLeft says how much of the time to live must be    *)
(* left at each point of the loop of the ping thread for all of that.      *)
(* That it is the right thread, and that nobody closed it, rests on one    *)
(* thread at a time getting a lease.                                       *)
(***************************************************************************)
EXTENDS LeaseIssuer, TLAPS

PingStates == {"none", "sleeping", "spinning", "sent", "renewed", "refused", "done"}

Labels == {"idle", "request", "granted", "close", "assign", "store", "set_up", "return"}

TypeOK ==
    /\ backend \in {"etcd", "consul"}
    /\ id \in Leases \cup {Nil} /\ sender \in Leases \cup {Nil}
    /\ pc \in [Threads -> Labels]
    /\ mine \in [Threads -> Leases \cup {Nil}]
    /\ wait \in [Threads -> Nat]
    /\ left \in [Leases -> Nat]
    /\ thread \in [Leases -> PingStates]
    /\ pinged \in [Leases -> Leases \cup {Nil}]
    /\ timer \in [Leases -> Nat]
    /\ closed \subseteq Leases /\ broken \subseteq Leases
    /\ outage \in Nat \cup {Nil} /\ outages \in 0 .. MaxOutages
    /\ got \subseteq Leases \cup {Nil}
    /\ gone \in BOOLEAN /\ raced \in BOOLEAN
    /\ unstarted \subseteq Leases \cup {Nil}

\* An outage is one of those that were counted, and not too long.
OutageInv == ~Up => outages > 0 /\ outage <= MaxOutage

\* What k more outages can cost.
Cost(k) == k * (MaxOutage + MaxDelay)

\* What the outages still to come can cost.
ToCome == Cost(MaxOutages - outages)

\* The time to live that is left of lease l, wherever its thread is.
TimeLeft(l) ==
    /\ thread[l] \in {"sleeping", "sent", "renewed", "spinning"}
    /\ thread[l] = "sleeping" => left[l] + MaxDelay + Period >= timer[l] + TTL
    /\ thread[l] = "sent" => timer[l] <= MaxDelay /\ left[l] + timer[l] > MaxDelay + ToCome
    /\ thread[l] = "renewed" => timer[l] <= MaxDelay /\ left[l] + timer[l] >= TTL
    /\ thread[l] = "spinning" /\ Up => left[l] > MaxDelay + ToCome
    /\ thread[l] = "spinning" /\ ~Up => left[l] + outage > MaxOutage + MaxDelay + ToCome

\* Where user thread t is, when it is alone.
UserOK(t) ==
    /\ pc[t] = "request" => id = Nil /\ sender = Nil
    /\ pc[t] = "granted" =>
          /\ id = Nil /\ sender = Nil /\ mine[t] \in Leases
          /\ wait[t] <= MaxDelay /\ left[mine[t]] + wait[t] >= TTL
    /\ pc[t] \in {"close", "assign"} =>
          /\ sender = Nil /\ mine[t] \in Leases /\ id = (IF backend = "etcd" THEN Nil ELSE mine[t])
          /\ thread[mine[t]] = "sleeping" /\ timer[mine[t]] = Period
          /\ left[mine[t]] + MaxDelay >= TTL
    /\ pc[t] = "store" => backend = "etcd" /\ id = Nil /\ sender = mine[t] /\ sender # Nil
    /\ pc[t] = "set_up" =>
          /\ backend = "consul" /\ sender = Nil /\ id = mine[t] /\ id # Nil
          /\ left[id] + MaxDelay >= TTL
    /\ pc[t] = "return" => id # Nil

\* The lease that was stored is the one that is renewed, or will be, or never was.
LeaseInv ==
    /\ closed = {}
    /\ got \subseteq {id} \ {Nil}
    /\ \A t, u \in Threads : t # u => pc[t] = "idle" \/ pc[u] = "idle"
    /\ \A t \in Threads : UserOK(t)
    /\ \A l \in Leases : thread[l] # "none" => pinged[l] = l
    /\ sender # Nil => id = sender \/ \E t \in Threads : pc[t] = "store"
    /\ id # Nil => id = sender \/ id \in unstarted \/ \E t \in Threads : pc[t] \in {"set_up", "close", "assign"}
    /\ sender # Nil /\ sender \notin broken => TimeLeft(sender)

Inv == TypeOK /\ OutageInv /\ (gone \/ raced \/ LeaseInv)


-----------------------------------------------------------------------------
(* The budget. *)

\* The second half of the time to live pays for two delays and the outages to come, and during
\* an outage for that one too.
LEMMA Budget ==
    ASSUME TypeOK
    PROVE  /\ ToCome \in Nat /\ Period \in Nat
           /\ TTL \in Nat /\ MaxDelay \in Nat /\ MaxOutage \in Nat /\ MaxOutages \in Nat
           /\ Period + 2 * MaxDelay + ToCome < TTL
           /\ outages > 0 => Period + 3 * MaxDelay + MaxOutage + ToCome < TTL
<1>  DEFINE X == MaxOutage + MaxDelay
            k == MaxOutages - outages
<1>1. TTL \in Nat /\ MaxDelay \in Nat /\ MaxOutage \in Nat /\ MaxOutages \in Nat
      BY SlackAssumption
<1>2. Period \in Nat /\ X \in Nat
      BY <1>1 DEF Period
<1>3. outages \in Nat /\ k \in Nat
      BY <1>1 DEF TypeOK
<1>4. k * X \in Nat /\ outages * X \in Nat /\ MaxOutages * X \in Nat
      BY <1>1, <1>2, <1>3
<1>5. k * X + outages * X = MaxOutages * X
      BY <1>1, <1>2, <1>3
<1>6. (MaxOutages + 2) * MaxDelay + MaxOutages * MaxOutage = 2 * MaxDelay + MaxOutages * X
      BY <1>1
<1>7. Period + 2 * MaxDelay + MaxOutages * X < TTL
  <2>1. Period + (MaxOutages + 2) * MaxDelay + MaxOutages * MaxOutage < TTL
        BY SlackAssumption
  <2>  QED
        BY <1>1, <1>2, <1>4, <1>6, <2>1
<1>8. outages > 0 => outages * X >= X
      BY <1>2, <1>3
<1>9. ToCome = k * X
      BY DEF ToCome, Cost
<1>  HIDE DEF X, k
<1>10. ToCome \in Nat /\ Period + 2 * MaxDelay + ToCome < TTL
      BY <1>1, <1>2, <1>4, <1>5, <1>7, <1>9
<1>11. outages > 0 => Period + 2 * MaxDelay + X + ToCome < TTL
      BY <1>1, <1>2, <1>4, <1>5, <1>7, <1>8, <1>9
<1>  QED
      BY <1>1, <1>2, <1>10, <1>11 DEF X

\* An outage that begins is no longer one to come.
LEMMA Spend ==
    ASSUME TypeOK, outages < MaxOutages, outages' = outages + 1
    PROVE  ToCome' \in Nat /\ ToCome = ToCome' + MaxOutage + MaxDelay
<1>  DEFINE X == MaxOutage + MaxDelay
            k == MaxOutages - outages'
<1>1. MaxDelay \in Nat /\ MaxOutage \in Nat /\ MaxOutages \in Nat /\ outages \in Nat
      BY SlackAssumption DEF TypeOK
<1>2. k \in Nat /\ X \in Nat /\ MaxOutages - outages = k + 1
      BY <1>1
<1>3. (k + 1) * X = k * X + X /\ k * X \in Nat
      BY <1>2
<1>4. ToCome = (k + 1) * X /\ ToCome' = k * X
      BY <1>2 DEF ToCome, Cost
<1>  QED
      BY <1>1, <1>2, <1>3, <1>4

LEMMA SameToCome ==
    ASSUME outages' = outages
    PROVE  ToCome' = ToCome
BY DEF ToCome

-----------------------------------------------------------------------------
(* Types, and outages. *)

LEMMA TypeInit == Init => TypeOK
<1>  SUFFICES ASSUME Init PROVE TypeOK
      OBVIOUS
<1>1. MaxOutages \in Nat
      BY SlackAssumption
<1>2. outages \in 0 .. MaxOutages
      BY <1>1 DEF Init
<1>3. /\ wait \in [Threads -> Nat] /\ left \in [Leases -> Nat] /\ timer \in [Leases -> Nat]
      /\ thread \in [Leases -> PingStates] /\ pinged \in [Leases -> Leases \cup {Nil}]
      BY DEF Init, PingStates
<1>4. /\ pc \in [Threads -> Labels]
      /\ mine \in [Threads -> Leases \cup {Nil}]
      BY DEF Init, Labels
<1>  QED
      BY <1>2, <1>3, <1>4 DEF Init, TypeOK

LEMMA TypeUser ==
    ASSUME TypeOK, NEW t \in Threads, Check(t) \/ UserStep(t)
    PROVE  TypeOK'
<1>0. Period \in Nat /\ TTL \in Nat
      BY Budget
<1>1. CASE Check(t)
      BY <1>1 DEF Check, Goes, Labels, TypeOK, pingVars, linkVars
<1>2. ASSUME NEW l \in Leases, Grant(t, l) PROVE TypeOK'
      BY <1>0, <1>2 DEF Grant, Goes, Labels, TypeOK, pingVars, linkVars
<1>3. CASE GrantFails(t)
      BY <1>3 DEF GrantFails, Goes, Labels, TypeOK, pingVars, linkVars
<1>4. CASE SetUp(t)
  <2>1. pc' \in [Threads -> Labels] /\ thread' \in [Leases -> PingStates]
        BY <1>4 DEF SetUp, Goes, TypeOK, Labels, PingStates
  <2>2. pinged' \in [Leases -> Leases \cup {Nil}] /\ timer' \in [Leases -> Nat]
        BY <1>0, <1>4 DEF SetUp, TypeOK
  <2>  QED
        BY <1>4, <2>1, <2>2 DEF SetUp, TypeOK, linkVars
<1>5. CASE SetUpFails(t)
      BY <1>5 DEF SetUpFails, Goes, Labels, TypeOK, pingVars, linkVars
<1>6. CASE Store(t)
      BY <1>6 DEF Store, Goes, AfterStore, Labels, TypeOK, pingVars, linkVars
<1>7. CASE Return(t)
      BY <1>7 DEF Return, Goes, Labels, TypeOK, pingVars, linkVars
<1>8. CASE DestroySender(t)
  <2>1. pc' \in [Threads -> Labels] /\ thread' \in [Leases -> PingStates]
        BY <1>8 DEF DestroySender, CloseSender, Goes, TypeOK, Labels, PingStates
  <2>  QED
        BY <1>8, <2>1 DEF DestroySender, CloseSender, TypeOK, linkVars
<1>9. CASE DestroyFreed(t)
  <2>1. pc' \in [Threads -> Labels] /\ thread' \in [Leases -> PingStates]
        BY <1>9 DEF DestroyFreed, Goes, TypeOK, Labels, PingStates
  <2>  QED
        BY <1>9, <2>1 DEF DestroyFreed, TypeOK, linkVars
<1>10. CASE Assign(t)
      BY <1>10 DEF Assign, Goes, AfterSetUp, Labels, TypeOK, pingVars, linkVars
<1>  QED
      BY <1>1, <1>2, <1>3, <1>4, <1>5, <1>6, <1>7, <1>8, <1>9, <1>10 DEF UserStep

LEMMA TypeThread ==
    ASSUME TypeOK, NEW l \in Leases, ThreadStep(l)
    PROVE  TypeOK'
<1>0. Period \in Nat /\ TTL \in Nat
      BY Budget
<1>1. CASE Wake(l)
      BY <1>1 DEF Wake, TypeOK, PingStates, userVars, linkVars
<1>2. CASE Retry(l)
      BY <1>2 DEF Retry, TypeOK, PingStates, userVars, linkVars
<1>3. CASE Renew(l)
      BY <1>0, <1>3 DEF Renew, TypeOK, PingStates, userVars, linkVars
<1>4. CASE Reply(l)
      BY <1>0, <1>4 DEF Reply, TypeOK, PingStates, userVars, linkVars
<1>  QED
      BY <1>1, <1>2, <1>3, <1>4 DEF ThreadStep

LEMMA TypeWorld ==
    ASSUME TypeOK, Destroy \/ GoDown \/ ComeUp \/ Tick
    PROVE  TypeOK'
<1>1. CASE Destroy
  <2>1. thread' \in [Leases -> PingStates]
        BY <1>1 DEF Destroy, CloseSender, TypeOK, PingStates
  <2>  QED
        BY <1>1, <2>1 DEF Destroy, CloseSender, TypeOK, linkVars
<1>2. CASE GoDown
  <2>1. thread' \in [Leases -> PingStates]
        BY <1>2 DEF GoDown, TypeOK, PingStates
  <2>2. pc' \in [Threads -> Labels]
        BY <1>2 DEF GoDown, TypeOK, Labels
  <2>3. broken' \subseteq Leases
        BY <1>2 DEF GoDown, TypeOK
  <2>4. outage' \in Nat \cup {Nil} /\ outages' \in 0 .. MaxOutages
        BY <1>2, Budget DEF GoDown, TypeOK
  <2>  QED
        BY <1>2, <2>1, <2>2, <2>3, <2>4 DEF GoDown, TypeOK
<1>3. CASE ComeUp
      BY <1>3 DEF ComeUp, TypeOK, userVars, pingVars
<1>4. CASE Tick
  <2>1. \A n \in Nat : Less(n) \in Nat
        BY DEF Less
  <2>2. left' \in [Leases -> Nat] /\ timer' \in [Leases -> Nat]
        BY <1>4, <2>1 DEF Tick, TypeOK
  <2>3. wait' \in [Threads -> Nat]
        BY <1>4 DEF Tick, TypeOK
  <2>4. outage' \in Nat \cup {Nil}
        BY <1>4 DEF Tick, TypeOK, Up
  <2>  QED
        BY <1>4, <2>2, <2>3, <2>4 DEF Tick, TypeOK
<1>  QED
      BY <1>1, <1>2, <1>3, <1>4

LEMMA TypeNext ==
    ASSUME TypeOK, [Next]_vars
    PROVE  TypeOK'
<1>1. CASE UNCHANGED vars
      BY <1>1 DEF vars, userVars, pingVars, linkVars, TypeOK
<1>  QED
      BY <1>1, TypeUser, TypeThread, TypeWorld DEF Next

LEMMA OutageNext ==
    ASSUME TypeOK, OutageInv, [Next]_vars
    PROVE  OutageInv'
<1>1. CASE UNCHANGED linkVars
      BY <1>1 DEF linkVars, OutageInv, Up
<1>2. CASE GoDown
      BY <1>2, NilAssumption, Budget DEF GoDown, OutageInv, Up, TypeOK
<1>3. CASE ComeUp
      BY <1>3 DEF ComeUp, OutageInv, Up
<1>4. CASE Tick
      BY <1>4, Budget, NilAssumption DEF Tick, Due, OutageInv, Up, TypeOK
<1>5. ASSUME NEW t \in Threads, Check(t) \/ UserStep(t) PROVE UNCHANGED linkVars
      BY <1>5 DEF Check, UserStep, Grant, GrantFails, SetUp, SetUpFails, DestroySender,
         DestroyFreed, Assign, Store, Return
<1>6. ASSUME NEW l \in Leases, ThreadStep(l) PROVE UNCHANGED linkVars
      BY <1>6 DEF ThreadStep, Wake, Retry, Renew, Reply
<1>7. Destroy => UNCHANGED linkVars
      BY DEF Destroy
<1>8. UNCHANGED vars => UNCHANGED linkVars
      BY DEF vars
<1>  QED
      BY <1>1, <1>2, <1>3, <1>4, <1>5, <1>6, <1>7, <1>8 DEF Next

-----------------------------------------------------------------------------
(* The user threads. *)

\* What concerns the sender is a matter of its own thread, timer and lease.
LEMMA TimeLeftSame ==
    ASSUME NEW l,
           thread'[l] = thread[l], left'[l] = left[l], timer'[l] = timer[l],
           UNCHANGED linkVars, TimeLeft(l)
    PROVE  TimeLeft(l)'
BY SameToCome DEF TimeLeft, Up, linkVars

\* A thread that asks for the lease gets it, or is the only one to request one.
LEMMA CheckKeeps ==
    ASSUME TypeOK, LeaseInv, NEW t \in Threads, Check(t)
    PROVE  raced' \/ LeaseInv'
<1>  USE DEF Check, pingVars, linkVars
<1>0. UNCHANGED ToCome
      BY SameToCome
<1>1. CASE id # Nil
  <2>1. \A u \in Threads : UserOK(u)'
        BY <1>1 DEF LeaseInv, UserOK
  <2>2. sender # Nil /\ sender \notin broken => TimeLeft(sender)'
        BY <1>0, <1>1 DEF LeaseInv, TimeLeft, Up
  <2>  QED
        BY <1>1, <2>1, <2>2 DEF LeaseInv
<1>2. CASE id = Nil /\ \E u \in Threads \ {t} : pc[u] # "idle"
      BY <1>2
<1>3. CASE id = Nil /\ \A u \in Threads \ {t} : pc[u] = "idle"
  <2>1. sender = Nil
        BY <1>3 DEF LeaseInv, UserOK
  <2>2. \A u \in Threads \ {t} : pc'[u] = "idle"
        BY <1>3 DEF Goes, TypeOK
  <2>3. pc'[t] = "request"
        BY <1>3 DEF Goes, TypeOK
  <2>4. \A u \in Threads : UserOK(u)'
        BY <1>3, <2>1, <2>2, <2>3 DEF UserOK
  <2>  QED
        BY <1>3, <2>1, <2>2, <2>4 DEF LeaseInv
<1>  QED
      BY <1>1, <1>2, <1>3

\* The others do nothing while t gets a lease.
Alone(t) == \A u \in Threads \ {t} : pc[u] = "idle"

LEMMA GrantKeeps ==
    ASSUME TypeOK, LeaseInv, NEW t \in Threads, NEW l \in Leases, Grant(t, l)
    PROVE  LeaseInv'
<1>  USE DEF Grant, pingVars, linkVars
<1>1. Alone(t) /\ id = Nil /\ sender = Nil
      BY DEF LeaseInv, UserOK, Alone
<1>2. Alone(t)' /\ pc'[t] = "granted"
      BY <1>1 DEF Alone, Goes, TypeOK
<1>3. mine'[t] = l /\ wait'[t] = 0 /\ left'[l] = TTL
      BY DEF TypeOK
<1>4. UserOK(t)'
      BY <1>1, <1>2, <1>3, Budget DEF UserOK
<1>5. \A u \in Threads : UserOK(u)'
      BY <1>2, <1>4 DEF UserOK, Alone
<1>  QED
      BY <1>1, <1>2, <1>5 DEF LeaseInv, Alone

LEMMA GrantFailsKeeps ==
    ASSUME TypeOK, LeaseInv, NEW t \in Threads, GrantFails(t)
    PROVE  LeaseInv'
<1>  USE DEF GrantFails, pingVars, linkVars
<1>1. Alone(t) /\ id = Nil /\ sender = Nil
      BY DEF LeaseInv, UserOK, Alone
<1>2. \A u \in Threads : pc'[u] = "idle"
      BY <1>1 DEF Alone, Goes, TypeOK
<1>  QED
      BY <1>1, <1>2 DEF LeaseInv, UserOK

\* The thread of a lease that was granted not long ago sleeps for a period.
LEMMA SetUpKeeps ==
    ASSUME TypeOK, LeaseInv, NEW t \in Threads, SetUp(t)
    PROVE  LeaseInv'
<1>  USE DEF SetUp, linkVars
<1>0. /\ pc[t] # "idle" /\ sender = Nil /\ mine[t] \in Leases /\ left[mine[t]] + MaxDelay >= TTL
      /\ id = (IF backend = "etcd" THEN Nil ELSE mine[t])
  <2>1. UserOK(t)
        BY DEF LeaseInv
  <2>2. left \in [Leases -> Nat] /\ wait[t] \in Nat /\ mine[t] \in Leases \cup {Nil}
        BY DEF TypeOK
  <2>3. CASE pc[t] = "granted"
        BY <2>1, <2>2, <2>3, Budget DEF UserOK, MaySetUp
  <2>4. CASE pc[t] = "set_up"
        BY <2>1, <2>2, <2>4, Budget DEF UserOK
  <2>  QED
        BY <2>3, <2>4 DEF MaySetUp
<1>1. Alone(t) /\ Alone(t)' /\ pc'[t] = "close"
      BY <1>0 DEF LeaseInv, Alone, Goes, TypeOK
<1>2. /\ thread'[mine[t]] = "sleeping" /\ timer'[mine[t]] = Period /\ pinged'[mine[t]] = mine[t]
      /\ \A l \in Leases \ {mine[t]} : thread'[l] = thread[l] /\ pinged'[l] = pinged[l]
      BY <1>0 DEF TypeOK
<1>3. \A u \in Threads : UserOK(u)'
      BY <1>0, <1>1, <1>2 DEF UserOK, Alone
<1>4. \A l \in Leases : thread'[l] # "none" => pinged'[l] = l
      BY <1>2 DEF LeaseInv
<1>  QED
      BY <1>0, <1>1, <1>3, <1>4 DEF LeaseInv, Alone

\* There is no other sender to close.
LEMMA DestroySenderKeeps ==
    ASSUME TypeOK, LeaseInv, NEW t \in Threads, DestroySender(t) \/ DestroyFreed(t)
    PROVE  LeaseInv'
<1>1. sender = Nil /\ pc[t] = "close"
      BY DEF DestroySender, DestroyFreed, LeaseInv, UserOK
<1>2. /\ DestroySender(t)
      /\ UNCHANGED <<thread, pinged, timer, left, broken, closed, id, sender, mine, backend, got, unstarted>>
  <2>1. DestroySender(t)
        BY <1>1 DEF DestroyFreed, Freed
  <2>2. closed' = closed /\ UNCHANGED <<pinged, timer, broken>>
        BY <1>1, <2>1 DEF DestroySender, CloseSender
  <2>3. \A l \in Leases : l # sender
        BY <1>1, NilAssumption
  <2>4. thread' = thread
        BY <2>1, <2>3 DEF DestroySender, CloseSender, TypeOK
  <2>  QED
        BY <2>1, <2>2, <2>4 DEF DestroySender
<1>3. Alone(t) /\ Alone(t)' /\ pc'[t] = "assign"
      BY <1>1, <1>2 DEF LeaseInv, Alone, DestroySender, Goes, TypeOK
<1>4. UserOK(t)'
      BY <1>1, <1>2, <1>3 DEF LeaseInv, UserOK
<1>5. \A u \in Threads : UserOK(u)'
      BY <1>3, <1>4 DEF Alone, UserOK
<1>  QED
      BY <1>1, <1>2, <1>3, <1>5 DEF LeaseInv, Alone

LEMMA AssignKeeps ==
    ASSUME TypeOK, LeaseInv, NEW t \in Threads, Assign(t)
    PROVE  LeaseInv'
<1>  USE DEF Assign, pingVars, linkVars
<1>1. /\ Alone(t) /\ mine[t] \in Leases /\ mine[t] # Nil
      /\ id = (IF backend = "etcd" THEN Nil ELSE mine[t])
      /\ thread[mine[t]] = "sleeping" /\ timer[mine[t]] = Period /\ left[mine[t]] + MaxDelay >= TTL
      BY NilAssumption DEF LeaseInv, UserOK, Alone
<1>2. Alone(t)' /\ pc'[t] = AfterSetUp
      BY <1>1 DEF Alone, Goes, TypeOK
<1>3. TimeLeft(mine[t])'
  <2>1. left[mine[t]] \in Nat
        BY <1>1 DEF TypeOK
  <2>  QED
        BY <1>1, <2>1, Budget DEF TimeLeft
<1>4. CASE backend = "etcd"
  <2>1. pc'[t] = "store"
        BY <1>2, <1>4 DEF AfterSetUp
  <2>2. \A u \in Threads : UserOK(u)'
        BY <1>1, <1>2, <1>4, <2>1 DEF UserOK, Alone
  <2>  QED
        BY <1>1, <1>2, <1>3, <1>4, <2>1, <2>2 DEF LeaseInv, Alone
<1>5. CASE backend = "consul"
  <2>1. pc'[t] = "return"
        BY <1>2, <1>5 DEF AfterSetUp
  <2>2. \A u \in Threads : UserOK(u)'
        BY <1>1, <1>2, <1>5, <2>1 DEF UserOK, Alone
  <2>  QED
        BY <1>1, <1>2, <1>3, <1>5, <2>1, <2>2 DEF LeaseInv, Alone
<1>  QED
      BY <1>4, <1>5 DEF TypeOK

LEMMA SetUpFailsKeeps ==
    ASSUME TypeOK, LeaseInv, NEW t \in Threads, SetUpFails(t)
    PROVE  LeaseInv'
<1>  USE DEF SetUpFails, pingVars, linkVars
<1>1. Alone(t) /\ sender = Nil
      BY DEF LeaseInv, UserOK, Alone, MaySetUp
<1>2. \A u \in Threads : pc'[u] = "idle"
      BY <1>1 DEF Alone, Goes, TypeOK
<1>3. id # Nil => id \in unstarted'
  <2>1. CASE backend = "etcd"
        BY <2>1 DEF MaySetUp, LeaseInv, UserOK
  <2>2. CASE backend = "consul"
        BY <2>2 DEF MaySetUp, LeaseInv, UserOK
  <2>  QED
        BY <2>1, <2>2 DEF TypeOK
<1>  QED
      BY <1>1, <1>2, <1>3 DEF LeaseInv, UserOK

LEMMA StoreKeeps ==
    ASSUME TypeOK, LeaseInv, NEW t \in Threads, Store(t)
    PROVE  LeaseInv'
<1>  USE DEF Store, pingVars, linkVars
<1>1. Alone(t) /\ id = Nil
      BY DEF LeaseInv, UserOK, Alone, MayStore
<1>2. Alone(t)'
      BY <1>1 DEF Alone, Goes, TypeOK
<1>3. sender # Nil /\ sender \notin broken => TimeLeft(sender)'
      BY TimeLeftSame DEF LeaseInv
<1>4. CASE backend = "etcd"
  <2>1. pc'[t] = "return" /\ sender = mine[t] /\ sender # Nil
        BY <1>4 DEF MayStore, LeaseInv, UserOK, Goes, AfterStore, TypeOK
  <2>2. \A u \in Threads : UserOK(u)'
        BY <1>2, <2>1 DEF UserOK, Alone
  <2>  QED
        BY <1>1, <1>2, <1>3, <2>1, <2>2 DEF LeaseInv, Alone
<1>5. CASE backend = "consul"
  <2>1. /\ pc'[t] = "set_up" /\ sender = Nil /\ mine[t] \in Leases
        /\ wait[t] <= MaxDelay /\ left[mine[t]] + wait[t] >= TTL
        BY <1>5 DEF MayStore, LeaseInv, UserOK, Goes, AfterStore, TypeOK
  <2>2. left[mine[t]] + MaxDelay >= TTL
    <3>1. left[mine[t]] \in Nat /\ wait[t] \in Nat
          BY <2>1 DEF TypeOK
    <3>  QED
          BY <2>1, <3>1, Budget
  <2>3. \A u \in Threads : UserOK(u)'
        BY <1>2, <1>5, <2>1, <2>2, NilAssumption DEF UserOK, Alone
  <2>  QED
        BY <1>1, <1>2, <1>3, <2>1, <2>3 DEF LeaseInv, Alone
<1>  QED
      BY <1>4, <1>5 DEF TypeOK

LEMMA ReturnKeeps ==
    ASSUME TypeOK, LeaseInv, NEW t \in Threads, Return(t)
    PROVE  LeaseInv'
<1>  USE DEF Return, pingVars, linkVars
<1>1. Alone(t) /\ id # Nil
      BY DEF LeaseInv, UserOK, Alone
<1>2. \A u \in Threads : pc'[u] = "idle"
      BY <1>1 DEF Alone, Goes, TypeOK
<1>3. sender # Nil /\ sender \notin broken => TimeLeft(sender)'
      BY TimeLeftSame DEF LeaseInv
<1>4. sender # Nil => id = sender
      BY <1>1 DEF LeaseInv, Alone
<1>5. id = sender \/ id \in unstarted
      BY <1>1 DEF LeaseInv, Alone
<1>  QED
      BY <1>1, <1>2, <1>3, <1>4, <1>5 DEF LeaseInv, UserOK

-----------------------------------------------------------------------------
(* The ping thread. *)

\* A thread that acts was started, and has slept for as long as it was to.
Acts(l) == thread[l] # "none" /\ (thread[l] = "sleeping" => timer[l] = 0)

\* The user threads do not look at the ping thread, unless it has just been started, and a
\* lease is never renewed for less.
LEMMA ThreadFrame ==
    ASSUME TypeOK, LeaseInv, UNCHANGED <<backend, userVars, pinged, closed, broken, linkVars>>,
           NEW l \in Leases, Acts(l),
           \A m \in Leases \ {l} : thread'[m] = thread[m] /\ timer'[m] = timer[m],
           \A m \in Leases : left'[m] = left[m] \/ left'[m] = TTL,
           sender # Nil /\ sender \notin broken => TimeLeft(sender)'
    PROVE  LeaseInv'
<1>  USE DEF userVars, linkVars
<1>1. ASSUME NEW t \in Threads PROVE UserOK(t)'
  <2>1. UserOK(t) /\ wait[t] \in Nat /\ id \in Leases \cup {Nil}
        BY DEF LeaseInv, TypeOK
  <2>2. CASE pc[t] = "granted"
        BY <2>1, <2>2, Budget DEF UserOK
  <2>3. CASE pc[t] = "set_up"
        BY <2>1, <2>3, Budget DEF UserOK
  <2>4. CASE pc[t] \in {"close", "assign"}
    <3>1. mine[t] \in Leases /\ thread[mine[t]] = "sleeping" /\ timer[mine[t]] = Period
          BY <2>1, <2>4 DEF UserOK
    <3>2. Period # 0
          BY Budget DEF Period
    <3>3. mine[t] # l
          BY <3>1, <3>2 DEF Acts
    <3>4. thread'[mine[t]] = "sleeping" /\ timer'[mine[t]] = Period
          BY <3>1, <3>3
    <3>  QED
          BY <2>1, <2>4, <3>1, <3>4, Budget DEF UserOK
  <2>  QED
        BY <2>1, <2>2, <2>3, <2>4 DEF UserOK
<1>2. \A m \in Leases : thread'[m] # "none" => pinged'[m] = m
      BY DEF LeaseInv, Acts
<1>  QED
      BY <1>1, <1>2 DEF LeaseInv

\* A thread that is not the sender's matters to nobody.
LEMMA OtherThread ==
    ASSUME TypeOK, LeaseInv, NEW l \in Leases, Acts(l), l # sender \/ sender \in broken,
           UNCHANGED <<backend, userVars, pinged, closed, broken, linkVars>>,
           \A m \in Leases \ {l} :
               thread'[m] = thread[m] /\ timer'[m] = timer[m] /\ left'[m] = left[m],
           left'[l] = left[l] \/ left'[l] = TTL
    PROVE  LeaseInv'
<1>1. ASSUME sender # Nil, sender \notin broken PROVE TimeLeft(sender)'
  <2>1. sender \in Leases \ {l}
        BY <1>1 DEF TypeOK
  <2>2. TimeLeft(sender)
        BY <1>1 DEF LeaseInv
  <2>  QED
        BY <2>1, <2>2, TimeLeftSame DEF userVars
<1>  QED
      BY <1>1, ThreadFrame

LEMMA WakeKeeps ==
    ASSUME TypeOK, OutageInv, LeaseInv, NEW l \in Leases, Wake(l)
    PROVE  LeaseInv'
<1>  USE DEF Wake
<1>0. \A m \in Leases \ {l} : thread'[m] = thread[m]
      BY DEF TypeOK
<1>1. CASE l # sender \/ sender \in broken
      BY <1>0, <1>1, OtherThread DEF Acts
<1>2. CASE l = sender /\ sender \notin broken
  <2>1. TimeLeft(l) /\ ToCome' = ToCome
        BY <1>2, NilAssumption, SameToCome DEF LeaseInv, linkVars
  <2>2. left[l] \in Nat /\ left[l] + MaxDelay + Period >= TTL
        BY <2>1, Budget DEF TimeLeft, TypeOK
  <2>3. CASE Up
    <3>1. thread'[l] = "sent"
          BY <1>2, <2>3 DEF CanSend, TypeOK
    <3>2. left[l] > MaxDelay + ToCome
          BY <2>2, Budget
    <3>3. TimeLeft(l)'
          BY <2>1, <2>2, <3>1, <3>2, Budget DEF TimeLeft, TypeOK
    <3>  QED
          BY <1>0, <1>2, <3>3, ThreadFrame DEF userVars, Acts
  <2>4. CASE ~Up
    <3>1. thread'[l] = "spinning"
          BY <2>4 DEF CanSend, TypeOK
    <3>2. outages > 0 /\ outage \in Nat
          BY <2>4 DEF OutageInv, TypeOK, Up
    <3>3. left[l] + outage > MaxOutage + MaxDelay + ToCome
          BY <2>2, <3>2, Budget
    <3>4. TimeLeft(l)'
          BY <2>1, <2>4, <3>1, <3>3 DEF TimeLeft, Up, linkVars
    <3>  QED
          BY <1>0, <1>2, <3>4, ThreadFrame DEF userVars, Acts
  <2>  QED
        BY <2>3, <2>4
<1>  QED
      BY <1>1, <1>2

LEMMA RetryKeeps ==
    ASSUME TypeOK, LeaseInv, NEW l \in Leases, Retry(l)
    PROVE  LeaseInv'
<1>  USE DEF Retry
<1>0. \A m \in Leases \ {l} : thread'[m] = thread[m] /\ timer'[m] = timer[m]
      BY DEF TypeOK
<1>1. CASE l # sender \/ sender \in broken
      BY <1>0, <1>1, OtherThread DEF Acts
<1>2. CASE l = sender /\ sender \notin broken
  <2>1. TimeLeft(l) /\ ToCome' = ToCome
        BY <1>2, NilAssumption, SameToCome DEF LeaseInv, linkVars
  <2>2. thread'[l] = "sent" /\ timer'[l] = 0 /\ left[l] \in Nat
        BY DEF TypeOK
  <2>3. left[l] > MaxDelay + ToCome
        BY <2>1 DEF TimeLeft, CanSend
  <2>4. TimeLeft(l)'
        BY <2>1, <2>2, <2>3, Budget DEF TimeLeft
  <2>  QED
        BY <1>0, <1>2, <2>4, ThreadFrame DEF userVars, Acts
<1>  QED
      BY <1>1, <1>2

LEMMA RenewKeeps ==
    ASSUME TypeOK, LeaseInv, NEW l \in Leases, Renew(l)
    PROVE  LeaseInv'
<1>  USE DEF Renew
<1>  pinged[l] = l
      BY DEF LeaseInv
<1>0. /\ \A m \in Leases \ {l} : thread'[m] = thread[m] /\ left'[m] = left[m]
      /\ left[l] \in Nat /\ left'[l] = IF left[l] > 0 THEN TTL ELSE 0
      BY DEF TypeOK
<1>1. left'[l] = left[l] \/ left'[l] = TTL
      BY <1>0
<1>2. CASE l # sender \/ sender \in broken
      BY <1>0, <1>1, <1>2, OtherThread DEF Acts
<1>3. CASE l = sender /\ sender \notin broken
  <2>1. TimeLeft(l) /\ timer[l] \in Nat
        BY <1>3, NilAssumption DEF LeaseInv, TypeOK
  <2>2. timer[l] <= MaxDelay /\ left[l] + timer[l] > MaxDelay + ToCome
        BY <2>1 DEF TimeLeft
  <2>3. left[l] > 0
        BY <1>0, <2>1, <2>2, Budget
  <2>4. thread'[l] = "renewed" /\ left'[l] = TTL
        BY <2>3 DEF TypeOK
  <2>5. TimeLeft(l)'
        BY <2>1, <2>2, <2>4, Budget DEF TimeLeft
  <2>  QED
        BY <1>0, <1>1, <1>3, <2>5, ThreadFrame DEF userVars, Acts
<1>  QED
      BY <1>2, <1>3

LEMMA ReplyKeeps ==
    ASSUME TypeOK, LeaseInv, NEW l \in Leases, Reply(l)
    PROVE  LeaseInv'
<1>  USE DEF Reply
<1>0. \A m \in Leases \ {l} : thread'[m] = thread[m] /\ timer'[m] = timer[m]
      BY DEF TypeOK
<1>1. CASE l # sender \/ sender \in broken
      BY <1>0, <1>1, OtherThread DEF Acts
<1>2. CASE l = sender /\ sender \notin broken
  <2>1. TimeLeft(l) /\ closed = {} /\ left[l] \in Nat /\ timer[l] \in Nat
        BY <1>2, NilAssumption DEF LeaseInv, TypeOK
  <2>2. thread[l] = "renewed" /\ timer[l] <= MaxDelay /\ left[l] + timer[l] >= TTL
        BY <2>1 DEF TimeLeft
  <2>3. thread'[l] = "sleeping" /\ timer'[l] = Period
        BY <2>1, <2>2 DEF TypeOK
  <2>4. left'[l] + MaxDelay + Period >= timer'[l] + TTL
        BY <2>1, <2>2, <2>3, Budget
  <2>5. TimeLeft(l)'
        BY <2>3, <2>4 DEF TimeLeft
  <2>  QED
        BY <1>0, <1>2, <2>5, ThreadFrame DEF userVars, Acts
<1>  QED
      BY <1>1, <1>2

-----------------------------------------------------------------------------
(* The connection and the clock. *)

\* An outage that begins is paid for: a renewal in progress had that much to spare.
LEMMA GoDownKeeps ==
    ASSUME TypeOK, LeaseInv, GoDown
    PROVE  LeaseInv'
<1>  USE DEF GoDown
<1>1. ToCome' \in Nat /\ ToCome = ToCome' + MaxOutage + MaxDelay
      BY Spend
<1>2. \A t \in Threads : pc'[t] = IF pc[t] = "granted" THEN "idle" ELSE pc[t]
      BY DEF TypeOK
<1>3. \A t \in Threads : UserOK(t)'
  <2>  SUFFICES ASSUME NEW t \in Threads PROVE UserOK(t)'
        OBVIOUS
  <2>1. UserOK(t)
        BY DEF LeaseInv
  <2>2. CASE pc[t] \in {"close", "assign"}
    <3>1. mine[t] \in Leases /\ thread[mine[t]] = "sleeping"
          BY <2>1, <2>2 DEF UserOK
    <3>2. thread'[mine[t]] = "sleeping"
          BY <3>1 DEF InCallback
    <3>  QED
          BY <1>2, <2>1, <2>2, <3>2 DEF UserOK
  <2>  QED
        BY <1>2, <2>1, <2>2 DEF UserOK
<1>4. \A l \in Leases : thread'[l] # "none" => pinged'[l] = l
      BY DEF LeaseInv, TypeOK, InCallback
<1>5. ASSUME sender # Nil, sender \notin broken' PROVE TimeLeft(sender)'
  <2>  DEFINE l == sender
  <2>1. l \in Leases /\ TimeLeft(l) /\ left[l] \in Nat /\ timer[l] \in Nat /\ closed = {}
        BY <1>5 DEF LeaseInv, TypeOK
  <2>2. ~Up' /\ outage' = 0
        BY NilAssumption DEF Up
  <2>3. thread'[l] = IF thread[l] \in InCallback THEN "spinning" ELSE thread[l]
        BY <2>1 DEF TypeOK
  <2>4. CASE thread[l] = "sleeping"
        BY <2>1, <2>3, <2>4 DEF TimeLeft, InCallback
  <2>5. CASE thread[l] = "sent"
    <3>1. left[l] > ToCome
          BY <2>1, <2>5, Budget DEF TimeLeft
    <3>2. left'[l] + outage' > MaxOutage + MaxDelay + ToCome'
          BY <1>1, <2>1, <2>2, <3>1, Budget
    <3>  QED
          BY <2>2, <2>3, <2>5, <3>2 DEF TimeLeft, InCallback
  <2>6. CASE thread[l] = "renewed"
    <3>1. left[l] > ToCome
          BY <2>1, <2>6, Budget DEF TimeLeft
    <3>2. left'[l] + outage' > MaxOutage + MaxDelay + ToCome'
          BY <1>1, <2>1, <2>2, <3>1, Budget
    <3>  QED
          BY <2>2, <2>3, <2>6, <3>2 DEF TimeLeft, InCallback
  <2>7. CASE thread[l] = "spinning"
    <3>1. left[l] > ToCome
          BY <2>1, <2>7, Budget DEF TimeLeft
    <3>2. left'[l] + outage' > MaxOutage + MaxDelay + ToCome'
          BY <1>1, <2>1, <2>2, <3>1, Budget
    <3>  QED
          BY <2>2, <2>3, <2>7, <3>2 DEF TimeLeft, InCallback
  <2>  QED
        BY <2>1, <2>4, <2>5, <2>6, <2>7 DEF TimeLeft
<1>  QED
      BY <1>2, <1>3, <1>4, <1>5 DEF LeaseInv

\* An outage that ends leaves enough for the renewal that follows.
LEMMA ComeUpKeeps ==
    ASSUME TypeOK, OutageInv, LeaseInv, ComeUp
    PROVE  LeaseInv'
<1>  USE DEF ComeUp, userVars, pingVars
<1>1. \A t \in Threads : UserOK(t)'
      BY DEF LeaseInv, UserOK
<1>2. ASSUME sender # Nil, sender \notin broken PROVE TimeLeft(sender)'
  <2>1. sender \in Leases /\ TimeLeft(sender) /\ left[sender] \in Nat /\ ToCome' = ToCome
        BY <1>2, SameToCome DEF LeaseInv, TypeOK
  <2>2. outage \in Nat /\ outage <= MaxOutage /\ Up'
        BY DEF OutageInv, TypeOK, Up
  <2>3. thread[sender] = "spinning" => left[sender] > MaxDelay + ToCome
        BY <2>1, <2>2, Budget DEF TimeLeft
  <2>  QED
        BY <2>1, <2>2, <2>3 DEF TimeLeft
<1>  QED
      BY <1>1, <1>2 DEF LeaseInv

\* The clock moves on only when nothing is due.
LEMMA TickKeeps ==
    ASSUME TypeOK, OutageInv, LeaseInv, Tick
    PROVE  LeaseInv'
<1>  USE DEF Tick
<1>0. ToCome' = ToCome
      BY SameToCome
<1>1. \A l \in Leases : left[l] \in Nat /\ left'[l] \in Nat /\ left'[l] + 1 >= left[l]
      BY DEF TypeOK, Less
<1>2. \A t \in Threads : pc[t] = "idle" \/ (pc[t] = "granted" /\ wait[t] # MaxDelay)
      BY DEF Due
<1>3. ASSUME NEW t \in Threads PROVE UserOK(t)'
  <2>1. CASE pc[t] = "idle"
        BY <2>1 DEF UserOK
  <2>2. CASE pc[t] = "granted" /\ wait[t] # MaxDelay
    <3>1. UserOK(t) /\ wait[t] \in Nat
          BY DEF LeaseInv, TypeOK
    <3>2. wait'[t] = wait[t] + 1
          BY <2>2 DEF TypeOK
    <3>3. wait'[t] <= MaxDelay /\ left'[mine[t]] + wait'[t] >= TTL
          BY <1>1, <2>2, <3>1, <3>2, Budget DEF UserOK
    <3>  QED
          BY <2>2, <3>1, <3>3 DEF UserOK
  <2>  QED
        BY <1>2, <2>1, <2>2
<1>4. ASSUME sender # Nil, sender \notin broken PROVE TimeLeft(sender)'
  <2>  DEFINE l == sender
  <2>1. l \in Leases /\ TimeLeft(l) /\ timer[l] \in Nat
        BY <1>4 DEF LeaseInv, TypeOK
  <2>2. left[l] \in Nat /\ left'[l] \in Nat /\ left'[l] + 1 >= left[l]
        BY <1>1, <2>1
  <2>3. timer'[l] = IF thread[l] \in InCallback THEN timer[l] + 1 ELSE Less(timer[l])
        BY <2>1 DEF TypeOK
  <2>4. CASE thread[l] = "sleeping"
    <3>1. timer[l] # 0
          BY <2>1, <2>4 DEF Due
    <3>2. timer'[l] = timer[l] - 1
          BY <2>1, <2>3, <2>4, <3>1 DEF InCallback, Less
    <3>3. left'[l] + MaxDelay + Period >= timer'[l] + TTL
          BY <2>1, <2>2, <2>4, <3>1, <3>2, Budget DEF TimeLeft
    <3>  QED
          BY <2>4, <3>3 DEF TimeLeft
  <2>5. CASE thread[l] = "sent"
    <3>1. timer[l] # MaxDelay /\ timer'[l] = timer[l] + 1
          BY <2>1, <2>3, <2>5 DEF Due, InCallback
    <3>2. timer'[l] <= MaxDelay /\ left'[l] + timer'[l] > MaxDelay + ToCome'
          BY <1>0, <2>1, <2>2, <2>5, <3>1, Budget DEF TimeLeft
    <3>  QED
          BY <2>5, <3>2 DEF TimeLeft
  <2>6. CASE thread[l] = "renewed"
    <3>1. timer[l] # MaxDelay /\ timer'[l] = timer[l] + 1
          BY <2>1, <2>3, <2>6 DEF Due, InCallback
    <3>2. timer'[l] <= MaxDelay /\ left'[l] + timer'[l] >= TTL
          BY <2>1, <2>2, <2>6, <3>1, Budget DEF TimeLeft
    <3>  QED
          BY <2>6, <3>2 DEF TimeLeft
  <2>7. CASE thread[l] = "spinning"
    <3>1. ~Up
      <4>1. Up => left[l] > 0
            BY <2>1, <2>2, <2>7, Budget DEF TimeLeft
      <4>2. pinged[l] = l
            BY <2>1, <2>7 DEF LeaseInv
      <4>  QED
            BY <1>4, <2>1, <2>7, <4>1, <4>2 DEF Due, CanSend
    <3>2. outage \in Nat /\ outage' = outage + 1 /\ ~Up'
          BY <3>1, NilAssumption DEF Up, TypeOK
    <3>3. left'[l] + outage' > MaxOutage + MaxDelay + ToCome'
          BY <1>0, <2>1, <2>2, <2>7, <3>1, <3>2, Budget DEF TimeLeft
    <3>  QED
          BY <2>7, <3>2, <3>3 DEF TimeLeft
  <2>  QED
        BY <2>1, <2>4, <2>5, <2>6, <2>7 DEF TimeLeft
<1>  QED
      BY <1>2, <1>3, <1>4 DEF LeaseInv

-----------------------------------------------------------------------------
LEMMA InitInv == Init => Inv
<1>  SUFFICES ASSUME Init PROVE Inv
      OBVIOUS
<1>1. TypeOK
      BY TypeInit
<1>2. OutageInv
      BY DEF Init, OutageInv, Up
<1>3. LeaseInv
      BY DEF Init, LeaseInv, UserOK
<1>  QED
      BY <1>1, <1>2, <1>3 DEF Inv

LEMMA NextInv == Inv /\ [Next]_vars => Inv'
<1>  SUFFICES ASSUME Inv, [Next]_vars PROVE Inv'
      OBVIOUS
<1>  USE DEF Inv
<1>1. TypeOK' /\ OutageInv'
      BY TypeNext, OutageNext
<1>2. ASSUME gone \/ raced PROVE gone' \/ raced'
  <2>1. ASSUME NEW t \in Threads, Check(t) \/ UserStep(t) PROVE gone' \/ raced'
        BY <1>2, <2>1 DEF Check, UserStep, Grant, GrantFails, SetUp, SetUpFails, DestroySender,
         DestroyFreed, Assign, Store, Return
  <2>2. ASSUME NEW l \in Leases, ThreadStep(l) PROVE gone' \/ raced'
        BY <1>2, <2>2 DEF ThreadStep, Wake, Retry, Renew, Reply, userVars
  <2>3. CASE Destroy \/ GoDown \/ ComeUp \/ Tick
        BY <1>2, <2>3 DEF Destroy, GoDown, ComeUp, Tick, userVars
  <2>4. CASE UNCHANGED vars
        BY <1>2, <2>4 DEF vars, userVars
  <2>  QED
        BY <2>1, <2>2, <2>3, <2>4 DEF Next
<1>3. ASSUME LeaseInv PROVE gone' \/ raced' \/ LeaseInv'
  <2>1. ASSUME NEW t \in Threads, Check(t) \/ UserStep(t) PROVE raced' \/ LeaseInv'
        BY <1>3, <2>1, CheckKeeps, GrantKeeps, GrantFailsKeeps, SetUpKeeps, SetUpFailsKeeps,
           DestroySenderKeeps, AssignKeeps, StoreKeeps, ReturnKeeps DEF UserStep
  <2>2. ASSUME NEW l \in Leases, ThreadStep(l) PROVE LeaseInv'
        BY <1>3, <2>2, WakeKeeps, RetryKeeps, RenewKeeps, ReplyKeeps DEF ThreadStep
  <2>3. CASE Destroy
        BY <2>3 DEF Destroy
  <2>4. CASE GoDown \/ ComeUp \/ Tick
        BY <1>3, <2>4, GoDownKeeps, ComeUpKeeps, TickKeeps
  <2>5. CASE UNCHANGED vars
    <3>1. sender # Nil /\ sender \notin broken => TimeLeft(sender)'
          BY <1>3, <2>5, TimeLeftSame DEF LeaseInv, vars, userVars, pingVars
    <3>2. \A t \in Threads : UserOK(t)'
          BY <1>3, <2>5 DEF LeaseInv, UserOK, vars, userVars, pingVars
    <3>  QED
          BY <1>3, <2>5, <3>1, <3>2 DEF LeaseInv, vars, userVars, pingVars
  <2>  QED
        BY <2>1, <2>2, <2>3, <2>4, <2>5 DEF Next
<1>  QED
      BY <1>1, <1>2, <1>3

\* A lease that was handed out and whose sender is sound has time left.
LEMMA InvImpliesKept == Inv => LeaseKept
<1>  SUFFICES ASSUME Inv, ~gone, ~raced, NEW l \in got, l \notin broken, l \notin unstarted
              PROVE  left[l] > 0
      BY DEF LeaseKept
<1>1. TypeOK /\ LeaseInv /\ OutageInv
      BY DEF Inv
<1>2. l = id /\ l # Nil /\ l \in Leases /\ left[l] \in Nat
      BY <1>1 DEF LeaseInv, TypeOK
<1>3. CASE l = sender
  <2>1. TimeLeft(l) /\ timer[l] \in Nat
        BY <1>1, <1>2, <1>3 DEF LeaseInv, TypeOK
  <2>2. ~Up => outage \in Nat /\ outage <= MaxOutage
        BY <1>1 DEF OutageInv, TypeOK, Up
  <2>3. CASE thread[l] = "sleeping"
        BY <1>1, <1>2, <2>1, <2>3, Budget DEF TimeLeft
  <2>4. CASE thread[l] = "sent" \/ thread[l] = "renewed"
        BY <1>1, <1>2, <2>1, <2>4, Budget DEF TimeLeft
  <2>5. CASE thread[l] = "spinning"
        BY <1>1, <1>2, <2>1, <2>2, <2>5, Budget DEF TimeLeft
  <2>  QED
        BY <2>1, <2>3, <2>4, <2>5 DEF TimeLeft
<1>4. ASSUME NEW t \in Threads, pc[t] \in {"set_up", "close", "assign"} PROVE left[l] > 0
      BY <1>1, <1>2, <1>4, Budget DEF LeaseInv, UserOK
<1>  QED
      BY <1>1, <1>2, <1>3, <1>4 DEF LeaseInv

\* The budget and the roles hold in every state.
THEOREM LeaseInvariance == Spec => []Inv
BY InitInv, NextInv, PTL DEF Spec

\* A lease that get_lease or create_session_if_needed_ handed out is alive as long as the client
\* is, for every number of threads, every delay and every outage within SlackAssumption, unless
\* the stream to etcd broke, two threads were getting a lease at once, or its ping thread could
\* not be started.
THEOREM HandedOutLeasesLive == Spec => []LeaseKept
BY LeaseInvariance, InvImpliesKept, PTL

-----------------------------------------------------------------------------
(* The move assignment of racing threads. *)

\* Every block has one thread that is to assign it; it has not been closed before, and whoever
\* closed the sender is about to replace it.
SenderInv ==
    /\ \A t, u \in Threads : t # u /\ mine[t] # Nil => mine[t] # mine[u]
    /\ \A t \in Threads : pc[t] \in {"granted", "set_up"} => mine[t] \in Leases /\ thread[mine[t]] = "none"
    /\ \A t \in Threads : pc[t] \in {"close", "assign"} =>
          mine[t] \in Leases /\ mine[t] # sender /\ mine[t] \notin closed /\ thread[mine[t]] # "none"
    /\ \A l \in Leases : l \in closed \/ l = sender => thread[l] # "none"
    /\ sender \in closed => \E t \in Threads : pc[t] = "assign"

LEMMA SenderUser ==
    ASSUME TypeOK, SenderInv, NEW t \in Threads, Check(t) \/ UserStep(t)
    PROVE  SenderInv'
<1>1. CASE Check(t)
      BY <1>1 DEF Check, Goes, TypeOK, SenderInv, pingVars
<1>2. ASSUME NEW l \in Leases, Grant(t, l) PROVE SenderInv'
  <2>1. /\ mine'[t] = l /\ pc'[t] = "granted" /\ pc[t] = "request" /\ thread[l] = "none"
        /\ \A u \in Threads : mine[u] # l
        /\ \A u \in Threads \ {t} : mine'[u] = mine[u] /\ pc'[u] = pc[u]
        BY <1>2 DEF Grant, Goes, TypeOK
  <2>2. UNCHANGED <<sender, thread, closed>>
        BY <1>2 DEF Grant, pingVars
  <2>  QED
        BY <2>1, <2>2 DEF SenderInv
<1>3. CASE GrantFails(t)
      BY <1>3 DEF GrantFails, Goes, TypeOK, SenderInv, pingVars
<1>4. CASE SetUp(t)
  <2>1. pc[t] \in {"granted", "set_up"} /\ mine[t] \in Leases /\ thread[mine[t]] = "none"
        BY <1>4 DEF SetUp, MaySetUp, SenderInv
  <2>2. /\ pc'[t] = "close" /\ thread'[mine[t]] = "sleeping"
        /\ \A u \in Threads \ {t} : pc'[u] = pc[u]
        /\ \A l \in Leases \ {mine[t]} : thread'[l] = thread[l]
        /\ UNCHANGED <<sender, mine, closed>>
        BY <1>4, <2>1 DEF SetUp, Goes, TypeOK
  <2>3. mine[t] # Nil /\ \A u \in Threads \ {t} : mine[u] # mine[t]
        BY <2>1, NilAssumption DEF SenderInv
  <2>4. mine[t] # sender /\ mine[t] \notin closed
        BY <2>1 DEF SenderInv
  <2>  QED
        BY <2>1, <2>2, <2>3, <2>4 DEF SenderInv
<1>5. CASE SetUpFails(t)
      BY <1>5 DEF SetUpFails, MaySetUp, Goes, TypeOK, SenderInv, pingVars
<1>6. CASE DestroySender(t)
  <2>1. /\ pc[t] = "close" /\ pc'[t] = "assign" /\ \A u \in Threads \ {t} : pc'[u] = pc[u]
        /\ closed' = closed \cup ({sender} \ {Nil})
        /\ UNCHANGED <<sender, mine>>
        BY <1>6 DEF DestroySender, CloseSender, Goes, TypeOK
  <2>2. \A l \in Leases : thread'[l] = "none" <=> thread[l] = "none"
        BY <1>6 DEF DestroySender, CloseSender, Stopped, TypeOK
  <2>  QED
        BY <2>1, <2>2 DEF SenderInv
<1>7. CASE DestroyFreed(t)
  <2>1. UNCHANGED <<mine, closed>>
        BY <1>7 DEF DestroyFreed
  <2>2. \A l \in Leases : thread'[l] = "none" <=> thread[l] = "none"
        BY <1>7 DEF DestroyFreed
  <2>3. CASE Goes(t, "assign") /\ UNCHANGED sender
    <3>1. pc[t] = "close" /\ pc'[t] = "assign" /\ \A u \in Threads \ {t} : pc'[u] = pc[u]
          BY <1>7, <2>3 DEF DestroyFreed, Goes, TypeOK
    <3>  QED
          BY <2>1, <2>2, <2>3, <3>1 DEF SenderInv
  <2>4. CASE sender' = Nil /\ pc' = [u \in Threads |-> "idle"]
    <3>1. Nil \notin closed /\ Nil \notin Leases
          BY NilAssumption DEF TypeOK
    <3>2. \A u \in Threads : pc'[u] = "idle"
          BY <2>4
    <3>  QED
          BY <2>1, <2>2, <2>4, <3>1, <3>2 DEF SenderInv
  <2>  QED
        BY <1>7, <2>3, <2>4 DEF DestroyFreed
<1>8. CASE Assign(t)
  <2>1. /\ mine[t] \in Leases /\ mine[t] \notin closed /\ thread[mine[t]] # "none"
        /\ sender' = mine[t] /\ UNCHANGED <<mine, thread, closed>>
        BY <1>8 DEF Assign, SenderInv, pingVars
  <2>2. pc'[t] \in {"store", "return"} /\ \A u \in Threads \ {t} : pc'[u] = pc[u]
        BY <1>8 DEF Assign, AfterSetUp, Goes, TypeOK
  <2>3. \A u \in Threads \ {t} : mine[u] # mine[t]
        BY <2>1, NilAssumption DEF SenderInv
  <2>  QED
        BY <2>1, <2>2, <2>3 DEF SenderInv
<1>9. CASE Store(t)
  <2>1. /\ pc[t] \in {"store", "granted"} /\ pc'[t] \in {"return", "set_up"}
        /\ pc'[t] = "set_up" => pc[t] = "granted"
        /\ \A u \in Threads \ {t} : pc'[u] = pc[u]
        BY <1>9 DEF Store, MayStore, AfterStore, Goes, TypeOK
  <2>2. UNCHANGED <<sender, mine, thread, closed>>
        BY <1>9 DEF Store, pingVars
  <2>  QED
        BY <2>1, <2>2 DEF SenderInv
<1>10. CASE Return(t)
      BY <1>10 DEF Return, Goes, TypeOK, SenderInv, pingVars
<1>  QED
      BY <1>1, <1>2, <1>3, <1>4, <1>5, <1>6, <1>7, <1>8, <1>9, <1>10 DEF UserStep

LEMMA SenderNext ==
    ASSUME TypeOK, SenderInv, [Next]_vars
    PROVE  SenderInv'
<1>1. ASSUME UNCHANGED <<sender, pc, mine, closed>>,
             \A l \in Leases : thread'[l] = "none" <=> thread[l] = "none"
      PROVE  SenderInv'
      BY <1>1 DEF SenderInv
<1>2. ASSUME NEW l \in Leases, ThreadStep(l) PROVE SenderInv'
      BY <1>1, <1>2 DEF ThreadStep, Wake, Retry, Renew, Reply, userVars, TypeOK
<1>3. CASE Destroy
  <2>1. Nil \notin closed' /\ Nil \notin Leases /\ sender' = Nil /\ UNCHANGED <<pc, mine>>
        BY <1>3, NilAssumption DEF Destroy, CloseSender, TypeOK
  <2>2. \A l \in Leases : thread'[l] = "none" <=> thread[l] = "none"
        BY <1>3 DEF Destroy, CloseSender, Stopped, TypeOK
  <2>3. \A u \in Threads : pc[u] = "idle"
        BY <1>3 DEF Destroy
  <2>4. \A l \in Leases : l \in closed' => l \in closed \/ l = sender
        BY <1>3 DEF Destroy, CloseSender
  <2>  QED
        BY <2>1, <2>2, <2>3, <2>4 DEF SenderInv
<1>4. CASE GoDown
  <2>1. UNCHANGED <<sender, mine, closed>>
        BY <1>4 DEF GoDown
  <2>2. \A l \in Leases : thread'[l] = "none" <=> thread[l] = "none"
        BY <1>4 DEF GoDown, InCallback
  <2>3. \A u \in Threads : (pc'[u] = "idle" /\ pc[u] = "granted") \/ pc'[u] = pc[u]
        BY <1>4 DEF GoDown, TypeOK
  <2>  QED
        BY <2>1, <2>2, <2>3 DEF SenderInv
<1>5. CASE ComeUp \/ Tick \/ UNCHANGED vars
      BY <1>1, <1>5 DEF ComeUp, Tick, vars, userVars, pingVars
<1>  QED
      BY <1>2, <1>3, <1>4, <1>5, SenderUser DEF Next

\* However many threads get a lease at once and however the steps of their assignments to
\* ping_sender_ interleave, it holds no closed block between calls: the destructor of the
\* client closes a block that is still there.
THEOREM SenderStaysUsable == Spec => []SenderUsable
<1>1. Init => TypeOK /\ SenderInv
      BY TypeInit, NilAssumption DEF Init, SenderInv
<1>2. TypeOK /\ SenderInv /\ [Next]_vars => TypeOK' /\ SenderInv'
      BY TypeNext, SenderNext
<1>3. SenderInv => SenderUsable
      BY DEF SenderInv, SenderUsable
<1>  QED
      BY <1>1, <1>2, <1>3, PTL DEF Spec

=============================================================================
