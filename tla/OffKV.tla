------------------------------- MODULE OffKV -------------------------------
(***************************************************************************)
(* What the Client interface promises: a hierarchical key-value store on   *)
(* which every call takes effect atomically, at one instant between the    *)
(* moment it is made and the moment it is answered.  This is the contract  *)
(* that README.md and tests/unit_tests.cpp state; the backend modules are  *)
(* shown to implement it.                                                  *)
(*                                                                         *)
(* A call may take effect and be answered in one step or in two.           *)
(*                                                                         *)
(* A set may be answered without a trace if some other call, at the        *)
(* instant it took effect, would have hidden it: had the set happened just *)
(* before that call, the answer of that call and the store it leaves would *)
(* be the same ("absorbed").  That is what linearizability allows when a   *)
(* key is removed while a set of it is in progress.                        *)
(*                                                                         *)
(* The backends number versions in one of two ways: each key counts its    *)
(* own changes (clock is Nil), or a change takes the next number of a      *)
(* counter that all changes share (clock).                                 *)
(***************************************************************************)
EXTENDS ClientAPI

CONSTANTS
    SomeVersion,    \* the version reported by an absorbed set
    Interruptions,  \* the exceptions that leave open whether the call took effect
    Divergences     \* the liberties a backend takes, a subset of Liberties

Liberties ==
    {"erase_conflict",      \* a transaction may give up at an erase for no visible reason
     "lost_lease",          \* a transaction may give up at a create with a lease
     "lost_set",            \* a set whose key is removed meanwhile may do nothing, and say it was done
     "any_version",         \* the version such a set reports is, to the service, every version
     "ephemeral_parent",    \* a key with a lease may have children, which stay when it goes
     "parent_first",        \* what is said of such an orphan is that the parent is missing
     "txn_set_ends_lease"}  \* a set inside a transaction takes the key's lease away

VARIABLES
    store,      \* [Keys -> node or Nil]
    call,       \* call[c]: the call client c has in progress, or Nil
    answer,     \* answer[c]: the answer to its last call, Nil while one is in progress
    taken,      \* taken[c]: the answer of a call that has taken effect, or Nil
    absorbed,   \* absorbed[c]: c's set in progress could have taken effect unseen
    clock       \* the last version number that was given out, or Nil

vars == <<store, call, answer, taken, absorbed, clock>>

-----------------------------------------------------------------------------
Node == [val : Values, ver : Nat \ {0}, lease : Clients \cup {Nil}]

\* The version of key k after its next change.
NewVersion(s, k) ==
    IF clock # Nil THEN clock + 1 ELSE IF s[k] = Nil THEN 1 ELSE s[k].ver + 1

Present(s, k) == k = Root \/ s[k] # Nil

Outcome(s, r) == [store |-> s, answer |-> r]

\* The node has the version a call expects.
Fits(node, ver) == ver = node.ver \/ (ver = SomeVersion /\ "any_version" \in Divergences)

\* The store with every key below k, and k itself, gone.
Without(s, k) == [q \in Keys |-> IF InSubtree(k, q) THEN Nil ELSE s[q]]

\* Nothing can be created at k for want of its parent.
LacksParent(s, k) == ~Present(s, Parent(k)) /\ (s[k] = Nil \/ "parent_first" \in Divergences)

Create(s, k, v, owner) ==
    IF LacksParent(s, k) THEN Outcome(s, Failure("NoEntry"))
    ELSE IF s[k] # Nil THEN Outcome(s, Failure("EntryExists"))
    ELSE IF Parent(k) # Root /\ s[Parent(k)].lease # Nil /\ "ephemeral_parent" \notin Divergences
         THEN Outcome(s, Failure("NoChildrenForEphemeral"))
    ELSE Outcome([s EXCEPT ![k] = [val |-> v, ver |-> NewVersion(s, k), lease |-> owner]],
                 Version(NewVersion(s, k)))

Overwrite(s, k, v, owner) ==
    Outcome([s EXCEPT ![k] = [val |-> v, ver |-> NewVersion(s, k), lease |-> owner]],
            Version(NewVersion(s, k)))

\* An orphan cannot be set.
Set(s, k, v) ==
    IF ~Present(s, Parent(k)) THEN Outcome(s, Failure("NoEntry"))
    ELSE IF s[k] = Nil THEN Create(s, k, v, Nil)
    ELSE Overwrite(s, k, v, s[k].lease)

Cas(s, k, v, ver) ==
    IF ver = 0
    THEN IF s[k] = Nil \/ LacksParent(s, k) THEN Create(s, k, v, Nil) ELSE Outcome(s, Version(0))
    ELSE IF s[k] = Nil THEN Outcome(s, Failure("NoEntry"))
    ELSE IF Fits(s[k], ver) THEN Overwrite(s, k, v, s[k].lease) ELSE Outcome(s, Version(0))

Erase(s, k, ver) ==
    IF s[k] = Nil THEN Outcome(s, Failure("NoEntry"))
    ELSE Outcome(IF ver = 0 \/ Fits(s[k], ver) THEN Without(s, k) ELSE s, Version(0))

Read(s, o) ==
    LET k == o.key IN
    Outcome(s,
        CASE o.type = "exists" -> Version(IF s[k] = Nil THEN 0 ELSE s[k].ver)
          [] s[k] = Nil /\ o.type # "exists" -> Failure("NoEntry")
          [] o.type = "get" /\ s[k] # Nil -> Found(s[k].ver, s[k].val)
          [] o.type = "get_children" /\ s[k] # Nil ->
               ChildList({q \in Keys : IsChild(k, q) /\ s[q] # Nil}))

-----------------------------------------------------------------------------
(* Transactions: the checks, then the operations one after the other, each  *)
(* seeing the effects of those before it; the first that cannot be done     *)
(* makes the whole transaction fail with its index.  A set inside a         *)
(* transaction does not create the key.                                     *)

CheckHolds(s, chk) == s[chk.key] # Nil /\ (chk.ver = 0 \/ Fits(s[chk.key], chk.ver))

TxnStep(s, o, c) ==
    CASE o.type = "create" -> Create(s, o.key, o.val, IF o.lease THEN c ELSE Nil)
      [] o.type = "set"    -> IF s[o.key] = Nil THEN Outcome(s, Failure("NoEntry"))
                              ELSE Overwrite(s, o.key, o.val,
                                             IF "txn_set_ends_lease" \in Divergences THEN Nil
                                             ELSE s[o.key].lease)
      [] o.type = "erase"  -> Erase(s, o.key, 0)

\* done: how many operations were carried out; versions: the new versions so far.
TxnRun(s, ops, c) ==
    FoldLeft(LAMBDA acc, o :
                LET out == TxnStep(acc.store, o, c) IN
                IF acc.failed \/ out.answer[1] = "failure"
                THEN [acc EXCEPT !.failed = TRUE]
                ELSE [store    |-> out.store,
                      done     |-> acc.done + 1,
                      failed   |-> FALSE,
                      versions |-> IF o.type = "erase" THEN acc.versions
                                   ELSE Append(acc.versions, OpResult(o.type, out.answer[2]))],
             [store |-> s, done |-> 0, failed |-> FALSE, versions |-> <<>>],
             ops)

Commit(s, o, c) ==
    LET broken == {i \in DOMAIN o.checks : ~CheckHolds(s, o.checks[i])}
        run    == TxnRun(s, o.ops, c)
    IN  IF broken # {} THEN Outcome(s, TxnFailed(Min(broken) - 1))
        ELSE IF run.failed THEN Outcome(s, TxnFailed(Len(o.checks) + run.done))
        ELSE Outcome(run.store, TxnResult(run.versions))

-----------------------------------------------------------------------------
\* What call o of client c does to store s, and what it answers.
Execute(s, o, c) ==
    CASE o.type = "create" -> Create(s, o.key, o.val, IF o.lease THEN c ELSE Nil)
      [] o.type = "set"    -> Set(s, o.key, o.val)
      [] o.type = "cas"    -> Cas(s, o.key, o.val, o.ver)
      [] o.type = "erase"  -> Erase(s, o.key, o.ver)
      [] o.type = "commit" -> Commit(s, o, c)
      [] OTHER             -> Read(s, o)

\* Call o of client c takes the key of client d's set away.
Removes(s, o, c, d) == s[call[d].key] # Nil /\ Execute(s, o, c).store[call[d].key] = Nil

\* Client d's set would go unnoticed if it happened just before call o of client c.
Absorbs(s, o, c, d) ==
    /\ call[d] # Nil /\ call[d].type = "set"
    /\ \/ LET first == Set(s, call[d].key, call[d].val) IN
          /\ first.answer[1] = "version"
          /\ Execute(first.store, o, c) = Execute(s, o, c)
       \/ "lost_set" \in Divergences /\ Removes(s, o, c, d)

\* A set of a key that is leased to client c goes unnoticed when c's leases end.
ExpiryAbsorbs(s, c, d) ==
    /\ call[d] # Nil /\ call[d].type = "set"
    /\ s[call[d].key] # Nil /\ s[call[d].key].lease = c

-----------------------------------------------------------------------------
\* The counter only grows, and no two changes of the store share a number.
ClockRuns ==
    IF clock = Nil THEN clock' = Nil
    ELSE clock' >= clock /\ (store' # store => clock' > clock)

Init ==
    /\ store = [k \in Keys |-> Nil]
    /\ call = [c \in Clients |-> Nil]
    /\ answer = [c \in Clients |-> Nil]
    /\ taken = [c \in Clients |-> Nil]
    /\ absorbed = [c \in Clients |-> FALSE]
    /\ clock \in Nat \cup {Nil}

Invoke(c, o) ==
    /\ call[c] = Nil
    /\ call' = [call EXCEPT ![c] = o]
    /\ answer' = [answer EXCEPT ![c] = Nil]
    /\ absorbed' = [absorbed EXCEPT ![c] = FALSE]
    /\ UNCHANGED <<store, taken>>

\* The call of client c ends with answer r.
Ends(c, r) ==
    /\ call' = [call EXCEPT ![c] = Nil]
    /\ answer' = [answer EXCEPT ![c] = r]
    /\ taken' = [taken EXCEPT ![c] = Nil]

\* The call of client c takes effect; sets it would have hidden may count as done.
Happens(c) ==
    /\ call[c] # Nil /\ taken[c] = Nil
    /\ store' = Execute(store, call[c], c).store
    /\ absorbed' \in [Clients -> BOOLEAN]
    /\ \A d \in Clients : absorbed'[d] => d # c /\ (absorbed[d] \/ Absorbs(store, call[c], c, d))

\* It takes effect and is answered; a lost connection may hide the answer.
Perform(c) ==
    /\ Happens(c)
    /\ \E r \in {Execute(store, call[c], c).answer} \cup {Failure(e) : e \in Interruptions} : Ends(c, r)

\* It takes effect and is answered later.
Effect(c) ==
    /\ Happens(c)
    /\ taken' = [taken EXCEPT ![c] = Execute(store, call[c], c).answer]
    /\ UNCHANGED <<call, answer>>

Respond(c) ==
    /\ call[c] # Nil /\ taken[c] # Nil
    /\ Ends(c, taken[c])
    /\ UNCHANGED <<store, absorbed>>

\* The call ends with nothing done, or nothing further.
Interrupt(c) ==
    /\ call[c] # Nil
    /\ \E e \in Interruptions : Ends(c, Failure(e))
    /\ absorbed' = [absorbed EXCEPT ![c] = FALSE]
    /\ UNCHANGED store

\* What makes a transaction give up at operation o although it could be carried out.
GivesUp(o) ==
    \/ o.type = "erase" /\ "erase_conflict" \in Divergences
    \/ o.type = "create" /\ o.lease /\ "lost_lease" \in Divergences

\* A transaction gives up at an operation it has come to.
Conflict(c) ==
    /\ call[c] # Nil /\ call[c].type = "commit"
    /\ \A i \in DOMAIN call[c].checks : CheckHolds(store, call[c].checks[i])
    /\ \E i \in DOMAIN call[c].ops :
         /\ GivesUp(call[c].ops[i])
         /\ ~TxnRun(store, SubSeq(call[c].ops, 1, i - 1), c).failed
         /\ Ends(c, TxnFailed(Len(call[c].checks) + i - 1))
    /\ absorbed' = [absorbed EXCEPT ![c] = FALSE]
    /\ UNCHANGED store

\* A set that was absorbed is answered with no effect of its own.
AnswerAbsorbed(c) ==
    /\ call[c] # Nil /\ absorbed[c]
    /\ Ends(c, Version(SomeVersion))
    /\ absorbed' = [absorbed EXCEPT ![c] = FALSE]
    /\ UNCHANGED store

\* A client disappears, with or without a call in progress, which may have taken effect.
Vanish(c) ==
    /\ call' = [call EXCEPT ![c] = Nil]
    /\ taken' = [taken EXCEPT ![c] = Nil]
    /\ \/ Happens(c)
       \/ absorbed' = [absorbed EXCEPT ![c] = FALSE] /\ UNCHANGED store
    /\ UNCHANGED answer

\* The keys leased to client c are removed.
Expire(c) ==
    /\ store' = [k \in Keys |-> IF store[k] # Nil /\ store[k].lease = c THEN Nil ELSE store[k]]
    /\ absorbed' \in [Clients -> BOOLEAN]
    /\ \A d \in Clients : absorbed'[d] => absorbed[d] \/ ExpiryAbsorbs(store, c, d)
    /\ UNCHANGED <<call, answer, taken>>

\* Something the clients do not see takes a number.
Tick == UNCHANGED <<store, call, answer, taken, absorbed>>

Step ==
    \/ Tick
    \/ \E c \in Clients :
        \/ \E o \in Ops : Invoke(c, o)
        \/ Perform(c)
        \/ Effect(c)
        \/ Respond(c)
        \/ Interrupt(c)
        \/ Conflict(c)
        \/ AnswerAbsorbed(c)
        \/ Vanish(c)
        \/ Expire(c)

Next == Step /\ ClockRuns

Spec == Init /\ [][Next]_vars

=============================================================================
