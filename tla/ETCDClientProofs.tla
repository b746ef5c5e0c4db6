-------------------------- MODULE ETCDClientProofs --------------------------
(***************************************************************************)
(* For any number of clients, any keys and calls and every bound: the      *)
(* watches of the etcd client are sound and complete, set needs no third   *)
(* round of its own making, and a commit reads the wrong responses exactly *)
(* when it has a set after an erase.                                       *)
(*                                                                         *)
(* The argument for watches: until its wait is over, a watch has an event  *)
(* that will end it among the revisions not yet delivered if, and only if, *)
(* the observation has ever changed; and while it has not, the store still *)
(* looks as it did when the handle was made.  The first change after that  *)
(* therefore shows in the events of its own revision, for each of the      *)
(* three conditions that the lambdas test.                                 *)
(*                                                                         *)
(* The argument for commit: operation i starts at the request Place(i - 1) *)
(* + 1.  The client looks for the version of a set one place too early for *)
(* every erase before it; at the first set after an erase that is a        *)
(* response which is not a range.                                          *)
(***************************************************************************)
EXTENDS ETCDClient, WellFoundedInduction, FiniteSetTheorems, TLAPS

\* The calls in progress.
CallsOK ==
    /\ pc = [c \in Clients |-> pc[c]]
    /\ op = [c \in Clients |-> op[c]]
    /\ expect \in [Clients -> BOOLEAN]
    /\ \A c \in Clients : pc[c] \in {"txn", "lease", "watch"} => op[c] \in Ops

CallInv ==
    /\ kv \in [Paths -> Entry \cup {Nil}]
    /\ log \in Seq(SUBSET ({"PUT", "DELETE"} \X Paths))
    /\ CallsOK

\* The event that ends the wait of h is in revision r.
EndsAt(h, r) == \E e \in log[r] : e[2] \in Watched(h) /\ StopsWaiting(h, e)

\* What is true of a handle h until it is destroyed.
HandleOK(h) ==
    /\ h \in Handle /\ h.next <= Len(log) + 1
    /\ h.state = "fired" => h.changed
    /\ ~h.changed => Observation(kv, h.type, h.key) = h.seen
    /\ h.state \in {"creating", "waiting"} =>
          (h.changed <=> \E r \in h.next .. Len(log) : EndsAt(h, r))

HandleInv ==
    /\ handle \in [Clients -> Handle \cup {Nil}]
    /\ \A c \in Clients : handle[c] # Nil => HandleOK(handle[c])
    /\ \A c \in Clients : pc[c] = "watch" => handle[c] # Nil /\ handle[c].state = "creating"

Inv == CallInv /\ HandleInv

-----------------------------------------------------------------------------
(* Induction over the naturals, for a set rather than a predicate. *)

LEMMA NatSetInduction ==
    ASSUME NEW S, 0 \in S, \A n \in Nat : n \in S => n + 1 \in S
    PROVE  \A n \in Nat : n \in S
<1> DEFINE T == Nat \ S
<1>1. SUFFICES ASSUME T # {} PROVE FALSE
    OBVIOUS
<1>2. \E x \in T : \A y \in T : ~(<<y, x>> \in OpToRel(<, Nat))
    <2>1. T \subseteq Nat
        OBVIOUS
    <2> HIDE DEF T
    <2> QED BY <1>1, <2>1, WFMin, NatLessThanWellFounded
<1>3. PICK x \in T : \A y \in T : ~(y < x)
    BY <1>2 DEF OpToRel
<1>4. x # 0 /\ x - 1 \in Nat /\ x - 1 < x
    BY <1>3
<1>5. x - 1 \in S
    BY <1>3, <1>4
<1> QED BY <1>3, <1>4, <1>5

\* The concatenation of the first i sequences is f[i].
Concats(f, seqs) ==
    \A i \in 1 .. Len(seqs) : f[i] = IF i = 1 THEN seqs[i] ELSE f[i - 1] \o seqs[i]

LEMMA FlattenDef ==
    ASSUME NEW T, NEW seqs \in Seq(Seq(T)), Len(seqs) # 0
    PROVE  \E f \in [1 .. Len(seqs) -> Seq(T)] : Concats(f, seqs) /\ FlattenSeq(seqs) = f[Len(seqs)]
<1> DEFINE n == Len(seqs)
           Step(g, i) == IF i = 1 THEN seqs[i] ELSE g[i - 1] \o seqs[i]
           Good(m, g) == g \in [1 .. m -> Seq(T)] /\ \A i \in 1 .. m : g[i] = Step(g, i)
           S == {m \in Nat : m <= n => \E g : Good(m, g)}
<1>1. 0 \in S
    <2>1. Good(0, [i \in 1 .. 0 |-> <<>>])
        OBVIOUS
    <2> QED BY <2>1
<1>2. ASSUME NEW m \in Nat, m \in S PROVE m + 1 \in S
    <2>1. SUFFICES ASSUME m + 1 <= n PROVE \E g : Good(m + 1, g)
        <3> HIDE DEF Good
        <3> QED OBVIOUS
    <2>2. PICK g : Good(m, g)
        <3> HIDE DEF Good
        <3> QED BY <1>2, <2>1
    <2> DEFINE h == [i \in 1 .. m + 1 |-> IF i <= m THEN g[i] ELSE Step(g, i)]
    <2>3. seqs[m + 1] \in Seq(T)
        BY <2>1
    <2>4. ASSUME NEW i \in 1 .. m + 1 PROVE h[i] \in Seq(T) /\ h[i] = Step(h, i)
        <3>1. CASE i <= m
            <4>1. i \in 1 .. m /\ h[i] = g[i]
                BY <3>1
            <4>2. i # 1 => i - 1 \in 1 .. m + 1 /\ i - 1 <= m
                BY <3>1
            <4>3. i # 1 => h[i - 1] = g[i - 1]
                BY <4>2
            <4> HIDE DEF h
            <4> QED BY <2>2, <4>1, <4>3
        <3>2. CASE i = m + 1
            <4>1. CASE m = 0
                BY <2>3, <3>2, <4>1
            <4>2. CASE m # 0
                <5>1. h[i] = g[m] \o seqs[m + 1]
                    <6>1. ~(i <= m) /\ i # 1 /\ i - 1 = m
                        BY <3>2, <4>2
                    <6>2. Step(g, i) = g[m] \o seqs[m + 1]
                        BY <3>2, <6>1
                    <6> HIDE DEF Step
                    <6> QED BY <6>1, <6>2
                <5>2. h[m] = g[m] /\ g[m] \in Seq(T)
                    BY <2>2, <4>2
                <5> QED BY <2>3, <3>2, <4>2, <5>1, <5>2
            <4> QED BY <4>1, <4>2
        <3> QED BY <3>1, <3>2
    <2>5. Good(m + 1, h)
        BY <2>4
    <2> QED BY <2>5
<1>3. PICK g : Good(n, g)
    <2> HIDE DEF Good
    <2>1. \A m \in Nat : m \in S
        <3> HIDE DEF S
        <3> QED BY <1>1, <1>2, NatSetInduction
    <2> QED BY <2>1
<1> DEFINE f == CHOOSE h : h = [i \in 1 .. n |-> Step(h, i)]
<1>4. g = [i \in 1 .. n |-> Step(g, i)]
    BY <1>3
<1>5. f = [i \in 1 .. n |-> Step(f, i)]
    BY <1>4
<1>6. FlattenSeq(seqs) = f[n]
    BY DEF FlattenSeq
<1> HIDE DEF f
<1> DEFINE V == {m \in Nat : m + 1 <= n => f[m + 1] \in Seq(T)}
<1>7. 0 \in V
    BY <1>5
<1>8. ASSUME NEW m \in Nat, m \in V PROVE m + 1 \in V
    <2>1. SUFFICES ASSUME m + 2 <= n PROVE f[m + 2] \in Seq(T)
        OBVIOUS
    <2>2. f[m + 2] = f[m + 1] \o seqs[m + 2]
        <3>1. m + 2 \in 1 .. n /\ m + 2 # 1 /\ (m + 2) - 1 = m + 1
            BY <2>1
        <3> QED BY <1>5, <3>1
    <2> QED BY <1>8, <2>1, <2>2
<1>9. \A m \in Nat : m \in V
    <2> HIDE DEF V
    <2> QED BY <1>7, <1>8, NatSetInduction
<1>10. ASSUME NEW i \in 1 .. n PROVE f[i] \in Seq(T)
    <2>1. i - 1 \in Nat /\ (i - 1) + 1 = i
        OBVIOUS
    <2> QED BY <1>9, <2>1
<1>11. f \in [1 .. n -> Seq(T)]
    BY <1>5, <1>10
<1>12. Concats(f, seqs)
    BY <1>5 DEF Concats
<1> QED BY <1>6, <1>11, <1>12

\* The concatenation of sequences over T is a sequence over T.
LEMMA FlattenType ==
    ASSUME NEW T, NEW seqs \in Seq(Seq(T))
    PROVE  FlattenSeq(seqs) \in Seq(T)
<1>1. CASE Len(seqs) = 0
    BY <1>1 DEF FlattenSeq
<1>2. CASE Len(seqs) # 0
    <2>1. PICK f \in [1 .. Len(seqs) -> Seq(T)] : FlattenSeq(seqs) = f[Len(seqs)]
        BY <1>2, FlattenDef
    <2>2. Len(seqs) \in 1 .. Len(seqs)
        BY <1>2
    <2> QED BY <2>1, <2>2
<1> QED BY <1>1, <1>2

-----------------------------------------------------------------------------
(* What one revision does to the handles. *)

\* The keys of a watch are keys of the store.
LEMMA WatchedKeys ==
    ASSUME NEW h, h.key \in Keys PROVE Watched(h) \subseteq Paths
BY DEF Watched, DirectChildrenRange, Paths

\* The events of a revision: the keys of the store whose entry changed.
LEMMA EventsAre ==
    ASSUME DOMAIN kv = Paths, NEW s
    PROVE  /\ \A e \in Events(kv, s) :
                 \E tag \in {"PUT", "DELETE"}, q \in Paths : e = <<tag, q>> /\ e[1] = tag /\ e[2] = q
           /\ \A q \in Paths : <<"PUT", q>> \in Events(kv, s) <=> s[q] # kv[q] /\ s[q] # Nil
           /\ \A q \in Paths : <<"DELETE", q>> \in Events(kv, s) <=> s[q] # kv[q] /\ s[q] = Nil
BY DEF Events

\* The event of a revision about a given key.
LEMMA EventAt ==
    ASSUME DOMAIN kv = Paths, NEW s, NEW q \in Paths
    PROVE  /\ (\E e \in Events(kv, s) : e[2] = q /\ e[1] = "PUT") <=> (s[q] # kv[q] /\ s[q] # Nil)
           /\ (\E e \in Events(kv, s) : e[2] = q /\ e[1] = "DELETE") <=> (s[q] # kv[q] /\ s[q] = Nil)
           /\ (\E e \in Events(kv, s) : e[2] = q) <=> s[q] # kv[q]
<1>1. ASSUME NEW e \in Events(kv, s), e[2] = q
      PROVE  /\ e[1] \in {"PUT", "DELETE"}
             /\ e[1] = "PUT" => s[q] # kv[q] /\ s[q] # Nil
             /\ e[1] = "DELETE" => s[q] # kv[q] /\ s[q] = Nil
    <2>1. PICK tag \in {"PUT", "DELETE"}, r \in Paths : e = <<tag, r>> /\ e[1] = tag /\ e[2] = r
        BY EventsAre
    <2>2. r = q
        BY <1>1, <2>1
    <2>3. CASE tag = "PUT"
        BY <2>1, <2>2, <2>3, EventsAre
    <2>4. CASE tag = "DELETE"
        BY <2>1, <2>2, <2>4, EventsAre
    <2> QED BY <2>1, <2>3, <2>4
<1>2. ASSUME s[q] # kv[q], s[q] # Nil
      PROVE  \E e \in Events(kv, s) : e[2] = q /\ e[1] = "PUT"
    <2>1. <<"PUT", q>> \in Events(kv, s)
        BY <1>2, EventsAre
    <2>2. <<"PUT", q>>[2] = q /\ <<"PUT", q>>[1] = "PUT"
        OBVIOUS
    <2> QED BY <2>1, <2>2
<1>3. ASSUME s[q] # kv[q], s[q] = Nil
      PROVE  \E e \in Events(kv, s) : e[2] = q /\ e[1] = "DELETE"
    <2>1. <<"DELETE", q>> \in Events(kv, s)
        BY <1>3, EventsAre
    <2>2. <<"DELETE", q>>[2] = q /\ <<"DELETE", q>>[1] = "DELETE"
        OBVIOUS
    <2> QED BY <2>1, <2>2
<1> QED BY <1>1, <1>2, <1>3

\* While a watch has seen nothing, a revision changes what it observes exactly if one of the
\* events of this revision ends the wait.
LEMMA FirstChange ==
    ASSUME DOMAIN kv = Paths, NEW s, NEW h,
           h.type \in {"get", "exists", "get_children"}, h.key \in Keys,
           Observation(kv, h.type, h.key) = h.seen
    PROVE  Observation(s, h.type, h.key) # h.seen
             <=> \E e \in Events(kv, s) : e[2] \in Watched(h) /\ StopsWaiting(h, e)
<1> DEFINE p == AsPath(h.key)
<1>1. p \in Paths
    BY DEF Paths
<1>2. CASE h.type = "get"
    <2>1. Watched(h) = {p} /\ \A e : StopsWaiting(h, e)
        BY <1>2 DEF Watched, StopsWaiting
    <2>2. h.seen = kv[p] /\ Observation(s, h.type, h.key) = s[p]
        BY <1>2 DEF Observation
    <2> HIDE DEF p
    <2>3. s[p] # kv[p] <=> \E e \in Events(kv, s) : e[2] = p
        BY <1>1, EventAt
    <2> QED BY <2>1, <2>2, <2>3
<1>3. CASE h.type = "exists"
    <2>1. Watched(h) = {p} /\ \A e : StopsWaiting(h, e) <=> e[1] = IF h.seen THEN "DELETE" ELSE "PUT"
        BY <1>3 DEF Watched, StopsWaiting
    <2>2. h.seen = (kv[p] # Nil) /\ Observation(s, h.type, h.key) = (s[p] # Nil)
        BY <1>3 DEF Observation
    <2> HIDE DEF p
    <2>3. CASE h.seen
        <3>1. (\E e \in Events(kv, s) : e[2] = p /\ e[1] = "DELETE") <=> (s[p] # kv[p] /\ s[p] = Nil)
            BY <1>1, EventAt
        <3> QED BY <2>1, <2>2, <2>3, <3>1
    <2>4. CASE ~h.seen
        <3>1. (\E e \in Events(kv, s) : e[2] = p /\ e[1] = "PUT") <=> (s[p] # kv[p] /\ s[p] # Nil)
            BY <1>1, EventAt
        <3> QED BY <2>1, <2>2, <2>4, <3>1
    <2> QED BY <2>2, <2>3, <2>4
<1>4. CASE h.type = "get_children"
    <2> DEFINE D == DirectChildrenRange(h.key)
    <2>1. /\ Watched(h) = D
          /\ \A e : StopsWaiting(h, e) <=> e[1] = IF e[2] \in h.seen THEN "DELETE" ELSE "PUT"
        BY <1>4 DEF Watched, StopsWaiting
    <2>2. /\ h.seen = {q \in D : kv[q] # Nil}
          /\ Observation(s, h.type, h.key) = {q \in D : s[q] # Nil}
        BY <1>4 DEF Observation
    <2>3. D \subseteq Paths
        BY DEF DirectChildrenRange
    <2> HIDE DEF D
    <2>4. Observation(s, h.type, h.key) # h.seen <=> \E q \in D : (s[q] = Nil) # (kv[q] = Nil)
        BY <2>2
    <2>5. ASSUME NEW q \in D, (s[q] = Nil) # (kv[q] = Nil)
          PROVE  \E e \in Events(kv, s) : e[2] \in Watched(h) /\ StopsWaiting(h, e)
        <3>1. CASE q \in h.seen
            <4>1. PICK e \in Events(kv, s) : e[2] = q /\ e[1] = "DELETE"
                BY <2>2, <2>3, <2>5, <3>1, EventAt
            <4> QED BY <2>1, <3>1, <4>1
        <3>2. CASE q \notin h.seen
            <4>1. PICK e \in Events(kv, s) : e[2] = q /\ e[1] = "PUT"
                BY <2>2, <2>3, <2>5, <3>2, EventAt
            <4> QED BY <2>1, <3>2, <4>1
        <3> QED BY <3>1, <3>2
    <2>6. ASSUME NEW e \in Events(kv, s), e[2] \in Watched(h), StopsWaiting(h, e)
          PROVE  \E q \in D : (s[q] = Nil) # (kv[q] = Nil)
        <3>1. e[2] \in D /\ (e[1] = IF e[2] \in h.seen THEN "DELETE" ELSE "PUT")
            BY <2>1, <2>6
        <3>2. CASE e[2] \in h.seen
            <4>1. s[e[2]] = Nil /\ kv[e[2]] # Nil
                BY <2>2, <2>3, <3>1, <3>2, EventAt
            <4> QED BY <3>1, <4>1
        <3>3. CASE e[2] \notin h.seen
            <4>1. s[e[2]] # Nil /\ kv[e[2]] = Nil
                BY <2>2, <2>3, <3>1, <3>3, EventAt
            <4> QED BY <3>1, <4>1
        <3> QED BY <3>2, <3>3
    <2> QED BY <2>4, <2>5, <2>6
<1> QED BY <1>2, <1>3, <1>4

\* The wait of h, in a log that has grown by one revision.
LEMMA EndsInLongerLog ==
    ASSUME log \in Seq(SUBSET ({"PUT", "DELETE"} \X Paths)), NEW E, log' = Append(log, E), NEW h
    PROVE  /\ Len(log') = Len(log) + 1
           /\ \A r \in 1 .. Len(log) : EndsAt(h, r)' <=> EndsAt(h, r)
           /\ \A r : r = Len(log) + 1 =>
                 (EndsAt(h, r)' <=> \E e \in E : e[2] \in Watched(h) /\ StopsWaiting(h, e))
<1>1. /\ Len(log') = Len(log) + 1
      /\ \A r \in 1 .. Len(log) : log'[r] = log[r]
      /\ log'[Len(log) + 1] = E
    OBVIOUS
<1> QED BY <1>1 DEF EndsAt, Watched, StopsWaiting

\* A handle remains what it should be when the store becomes s.
LEMMA HandleFollows ==
    ASSUME CallInv, NEW s, Becomes(s), NEW h, HandleOK(h), NEW g,
           g = IF Observation(s, h.type, h.key) # h.seen THEN [h EXCEPT !.changed = TRUE] ELSE h
    PROVE  HandleOK(g)'
<1>1. /\ g \in Handle
      /\ g.type = h.type /\ g.key = h.key /\ g.seen = h.seen /\ g.next = h.next /\ g.state = h.state
      /\ g.changed = (h.changed \/ Observation(s, h.type, h.key) # h.seen)
    BY DEF HandleOK, Handle
<1>2. kv' = s
    BY DEF Becomes
<1>3. \A r : EndsAt(g, r)' <=> EndsAt(h, r)'
    BY <1>1 DEF EndsAt, Watched, StopsWaiting
<1>4. CASE s = kv
    <2>1. log' = log /\ kv' = kv
        BY <1>4 DEF Becomes
    <2>2. g.changed = h.changed
        BY <1>1, <1>4 DEF HandleOK, Handle
    <2>3. \A r : EndsAt(h, r)' <=> EndsAt(h, r)
        BY <2>1 DEF EndsAt, Watched, StopsWaiting
    <2>4. Observation(kv', g.type, g.key) = Observation(kv, h.type, h.key)
        BY <1>1, <2>1
    <2> QED BY <1>1, <1>3, <2>1, <2>2, <2>3, <2>4 DEF HandleOK
<1>5. CASE s # kv
    <2> DEFINE E == Events(kv, s)
               Ends == \E e \in E : e[2] \in Watched(h) /\ StopsWaiting(h, e)
    <2>1. log' = Append(log, E)
        BY <1>5 DEF Becomes
    <2>2. /\ Len(log') = Len(log) + 1
          /\ \A r \in 1 .. Len(log) : EndsAt(h, r)' <=> EndsAt(h, r)
          /\ \A r : r = Len(log) + 1 => (EndsAt(h, r)' <=> Ends)
        BY <2>1, EndsInLongerLog DEF CallInv
    <2>3. h.next \in 1 .. Len(log) + 1 /\ Len(log) \in Nat
        BY DEF HandleOK, Handle, CallInv
    <2>4. (\E r \in h.next .. Len(log') : EndsAt(g, r)')
            <=> (\E r \in h.next .. Len(log) : EndsAt(h, r)) \/ Ends
        <3> HIDE DEF Ends
        <3>1. ASSUME NEW r \in h.next .. Len(log'), EndsAt(g, r)'
              PROVE  (\E q \in h.next .. Len(log) : EndsAt(h, q)) \/ Ends
            <4>1. r \in 1 .. Len(log) \/ r = Len(log) + 1
                BY <2>2, <2>3
            <4>2. EndsAt(h, r)'
                BY <1>3, <3>1
            <4> QED BY <2>2, <2>3, <4>1, <4>2
        <3>2. ASSUME NEW r \in h.next .. Len(log), EndsAt(h, r)
              PROVE  \E q \in h.next .. Len(log') : EndsAt(g, q)'
            <4>1. r \in 1 .. Len(log) /\ r \in h.next .. Len(log')
                BY <2>2, <2>3
            <4>2. EndsAt(g, r)'
                BY <1>3, <2>2, <3>2, <4>1
            <4> QED BY <4>1, <4>2
        <3>3. ASSUME Ends
              PROVE  \E q \in h.next .. Len(log') : EndsAt(g, q)'
            <4>1. PICK q \in Nat : q = Len(log) + 1
                BY <2>3
            <4>2. q \in h.next .. Len(log')
                BY <2>2, <2>3, <4>1
            <4>3. EndsAt(g, q)'
                BY <1>3, <2>2, <3>3, <4>1
            <4> QED BY <4>2, <4>3
        <3> QED BY <3>1, <3>2, <3>3
    <2>5. ~h.changed => (Observation(s, h.type, h.key) # h.seen <=> Ends)
        <3>1. SUFFICES ASSUME ~h.changed PROVE Observation(s, h.type, h.key) # h.seen <=> Ends
            OBVIOUS
        <3>2. /\ DOMAIN kv = Paths
              /\ h.type \in {"get", "exists", "get_children"} /\ h.key \in Keys
              /\ Observation(kv, h.type, h.key) = h.seen
            BY <3>1 DEF CallInv, HandleOK, Handle
        <3> QED BY <3>2, FirstChange
    <2> HIDE DEF E, Ends
    <2>6. h.state \in {"creating", "waiting"} =>
             (g.changed <=> \E r \in h.next .. Len(log') : EndsAt(g, r)')
        BY <1>1, <2>4, <2>5 DEF HandleOK, Handle
    <2>7. ~g.changed => Observation(kv', g.type, g.key) = g.seen
        BY <1>1, <1>2
    <2>8. g.next <= Len(log') + 1
        BY <1>1, <2>2, <2>3
    <2>9. g.state = "fired" => g.changed
        BY <1>1 DEF HandleOK
    <2> QED BY <1>1, <2>6, <2>7, <2>8, <2>9 DEF HandleOK
<1> QED BY <1>4, <1>5

\* The store may become any store without disturbing the handles.
LEMMA BecomesPreserves ==
    ASSUME Inv, NEW s \in [Paths -> Entry \cup {Nil}], Becomes(s)
    PROVE  /\ kv' \in [Paths -> Entry \cup {Nil}]
           /\ log' \in Seq(SUBSET ({"PUT", "DELETE"} \X Paths))
           /\ handle' \in [Clients -> Handle \cup {Nil}]
           /\ \A c \in Clients : handle'[c] # Nil => HandleOK(handle[c])'
           /\ \A c \in Clients : handle[c] # Nil =>
                 handle'[c] # Nil /\ handle'[c].state = handle[c].state
<1>1. kv' = s
    BY DEF Becomes
<1>2. log' \in Seq(SUBSET ({"PUT", "DELETE"} \X Paths))
    <2>1. Events(kv, s) \in SUBSET ({"PUT", "DELETE"} \X Paths)
        BY DEF Inv, CallInv, Events
    <2> QED BY <2>1 DEF Inv, CallInv, Becomes
<1>3. ASSUME NEW c \in Clients, handle[c] # Nil
      PROVE  /\ handle'[c] \in Handle
             /\ HandleOK(handle[c])'
             /\ handle'[c].state = handle[c].state
    <2> DEFINE h == handle[c]
    <2>1. PICK g : g = IF Observation(s, h.type, h.key) # h.seen THEN [h EXCEPT !.changed = TRUE] ELSE h
        OBVIOUS
    <2>2. handle'[c] = g
        BY <1>3, <2>1 DEF Becomes
    <2>3. HandleOK(h)
        BY <1>3 DEF Inv, HandleInv
    <2>4. HandleOK(g)'
        BY <2>1, <2>3, HandleFollows DEF Inv
    <2>5. g.state = h.state /\ g \in Handle
        BY <2>1, <2>3 DEF HandleOK, Handle
    <2> QED BY <2>2, <2>4, <2>5
<1>4. ASSUME NEW c \in Clients, handle[c] = Nil PROVE handle'[c] = Nil
    BY <1>4 DEF Becomes
<1>5. handle' \in [Clients -> Handle \cup {Nil}]
    BY <1>3, <1>4 DEF Becomes
<1> QED BY <1>1, <1>2, <1>3, <1>4, <1>5, HandlesAssumption

-----------------------------------------------------------------------------
(* What the transactions of the methods make of the store. *)

\* The requests the client puts into a transaction.
Put   == [kind : {"put"}, range : SUBSET Paths, val : Values, lease : Clients \cup {Nil}, keep : BOOLEAN]
Other == [kind : {"range", "delete"}, range : SUBSET Paths, val : {Nil}, lease : {Nil}, keep : {FALSE}]

\* The operations of txn: puts of values in one list, nothing but lookups in the other.
TxnTyped(t) ==
    /\ t.success \in Seq(Put \cup Other)
    /\ \A i \in DOMAIN t.failure : t.failure[i].kind = "range"

LEMMA ShortLists ==
    ASSUME NEW T, NEW x \in T, NEW y \in T PROVE <<x>> \in Seq(T) /\ <<x, y>> \in Seq(T)
OBVIOUS

LEMMA Lookup ==
    ASSUME NEW S
    PROVE  RangeRequest(S).kind = "range" /\ \A i \in DOMAIN <<RangeRequest(S)>> : <<RangeRequest(S)>>[i].kind = "range"
BY DEF RangeRequest, RequestOp

LEMMA TxnRequestTyped ==
    ASSUME NEW C, NEW ops \in Seq(Put \cup Other), NEW fs, \A i \in DOMAIN fs : fs[i].kind = "range"
    PROVE  TxnTyped(TxnRequest(C, ops, fs))
BY DEF TxnTyped, TxnRequest

\* An accepted transaction leaves a store.
LEMMA StoreAfterType ==
    ASSUME NEW s \in [Paths -> Entry \cup {Nil}], NEW t, TxnTyped(t), NEW L,
           StatusOf(s, L, t) = "OK"
    PROVE  StoreAfter(s, t) \in [Paths -> Entry \cup {Nil}]
<1> DEFINE ops == Chosen(s, t)
<1>1. SUFFICES ASSUME NEW p \in Paths PROVE EntryAfter(s, ops, DOMAIN ops, p) \in Entry \cup {Nil}
    BY DEF StoreAfter
<1>2. CASE \E i \in DOMAIN ops \cap Puts(ops) : p \in ops[i].range
    <2> DEFINE i == CHOOSE j \in DOMAIN ops \cap Puts(ops) : p \in ops[j].range
    <2>1. i \in DOMAIN ops /\ i \in Puts(ops) /\ p \in ops[i].range
        BY <1>2
    <2> HIDE DEF i
    <2>2. ops = t.success
        BY <2>1 DEF Chosen, TxnTyped, Puts
    <2>3. ops[i] \in Put
        <3> HIDE DEF ops
        <3>1. ops[i] \in Put \cup Other /\ ops[i].kind = "put"
            BY <2>1, <2>2 DEF TxnTyped, Puts
        <3> QED BY <3>1 DEF Other
    <2>4. ops[i].keep => s[p] # Nil
        BY <2>1 DEF StatusOf
    <2>5. EntryAfter(s, ops, DOMAIN ops, p) =
            [val |-> ops[i].val, ver |-> IF s[p] = Nil THEN 1 ELSE s[p].ver + 1,
             lease |-> IF ops[i].keep THEN s[p].lease ELSE ops[i].lease]
        BY <1>2 DEF EntryAfter, i
    <2> HIDE DEF ops
    <2>6. s[p] \in Entry \cup {Nil}
        OBVIOUS
    <2>7. CASE s[p] = Nil
        BY <2>3, <2>4, <2>5, <2>7 DEF Entry, Put
    <2>8. CASE s[p] \in Entry
        <3>1. (IF s[p] = Nil THEN 1 ELSE s[p].ver + 1) \in Nat \ {0}
            BY <2>8 DEF Entry
        <3>2. (IF ops[i].keep THEN s[p].lease ELSE ops[i].lease) \in Clients \cup {Nil}
            BY <2>3, <2>8 DEF Entry, Put
        <3> QED BY <2>3, <2>5, <3>1, <3>2 DEF Entry, Put
    <2> QED BY <2>6, <2>7, <2>8
<1>3. CASE ~\E i \in DOMAIN ops \cap Puts(ops) : p \in ops[i].range
    BY <1>3 DEF EntryAfter
<1> QED BY <1>2, <1>3

\* The key of a call is a key of the store.
LEMMA PathsOfKeys == \A k \in Keys : AsPath(k) \in Paths
BY DEF Paths

\* Calls of each kind carry the arguments of that kind.
LEMMA OpTypes ==
    ASSUME NEW o \in Ops
    PROVE  /\ o.type \in {"create", "set", "cas", "get", "exists", "get_children", "erase", "commit"}
           /\ o.type = "create" => o \in CreateOp
           /\ o.type = "set" => o \in SetOp
           /\ o.type = "cas" => o \in CasOp
           /\ o.type \in {"get", "exists", "get_children"} => o \in ReadOp
           /\ o.type = "erase" => o \in EraseOp
           /\ o.type = "commit" => o \in CommitOp
BY OpsAssumption DEF Op, CreateOp, SetOp, CasOp, ReadOp, EraseOp, CommitOp

LEMMA OpRequestsType ==
    ASSUME NEW o \in TxnOp, NEW c \in Clients
    PROVE  OpRequests(o, c) \in Seq(Put \cup Other)
<1> USE PathsOfKeys
<1>1. SubtreeRange(o.key) \subseteq Paths
    BY DEF SubtreeRange
<1>2. CASE o \in CreateOp
    <2>1. PutRequest(AsPath(o.key), o.val, IF o.lease THEN c ELSE Nil, FALSE) \in Put
        BY <1>2 DEF PutRequest, RequestOp, Put, CreateOp
    <2>2. OpRequests(o, c) = <<PutRequest(AsPath(o.key), o.val, IF o.lease THEN c ELSE Nil, FALSE)>>
        BY <1>2 DEF OpRequests, CreateOp
    <2> QED BY <2>1, <2>2, ShortLists
<1>3. CASE o \in SetOp
    <2>1. /\ PutRequest(AsPath(o.key), o.val, Nil, FALSE) \in Put
          /\ RangeRequest({AsPath(o.key)}) \in Other
        BY <1>3 DEF PutRequest, RangeRequest, RequestOp, Put, Other, SetOp
    <2>2. OpRequests(o, c) = <<PutRequest(AsPath(o.key), o.val, Nil, FALSE), RangeRequest({AsPath(o.key)})>>
        BY <1>3 DEF OpRequests, SetOp
    <2> QED BY <2>1, <2>2, ShortLists
<1>4. CASE o \in TxnOpErase
    <2>1. DeleteRangeRequest({AsPath(o.key)}) \in Other /\ DeleteRangeRequest(SubtreeRange(o.key)) \in Other
        BY <1>1, <1>4 DEF DeleteRangeRequest, RequestOp, Other, TxnOpErase
    <2>2. OpRequests(o, c) = <<DeleteRangeRequest({AsPath(o.key)}), DeleteRangeRequest(SubtreeRange(o.key))>>
        BY <1>4 DEF OpRequests, TxnOpErase
    <2> QED BY <2>1, <2>2, ShortLists
<1> QED BY <1>2, <1>3, <1>4 DEF TxnOp

LEMMA TxnOfTyped ==
    ASSUME CallInv, NEW c \in Clients, op[c] \in Ops
    PROVE  TxnTyped(TxnOf(c))
<1> DEFINE o == op[c]
           p == AsPath(o.key)
<1> USE PathsOfKeys
<1>1. ASSUME o.key \in Keys PROVE RangeRequest({p}) \in Other
    BY <1>1 DEF RangeRequest, RequestOp, Other
<1>2. ASSUME o.key \in Keys, o.val \in Values, NEW owner \in Clients \cup {Nil}
      PROVE  TxnTyped(CreateTxn(o.key, o.val, owner))
    <2>1. PutRequest(p, o.val, owner, FALSE) \in Put
        BY <1>2 DEF PutRequest, RequestOp, Put
    <2>2. <<PutRequest(p, o.val, owner, FALSE)>> \in Seq(Put \cup Other)
        BY <2>1, ShortLists
    <2> QED BY <2>2, Lookup, TxnRequestTyped DEF CreateTxn
<1>3. CASE o.type = "create"
    <2>1. o \in CreateOp
        BY <1>3, OpTypes
    <2>2. TxnOf(c) = CreateTxn(o.key, o.val, IF o.lease THEN c ELSE Nil)
        BY <1>3 DEF TxnOf
    <2> QED BY <1>2, <2>1, <2>2 DEF CreateOp
<1>4. CASE o.type = "cas"
    <2>1. o \in CasOp
        BY <1>4, OpTypes
    <2>2. CASE o.ver = 0
        <3>1. TxnOf(c) = CreateTxn(o.key, o.val, Nil)
            BY <1>4, <2>2 DEF TxnOf
        <3> QED BY <1>2, <2>1, <3>1 DEF CasOp
    <2>3. CASE o.ver # 0
        <3>1. TxnOf(c) = CasTxn(o)
            BY <1>4, <2>3 DEF TxnOf
        <3>2. PutRequest(p, o.val, Nil, TRUE) \in Put /\ RangeRequest({p}) \in Other
            BY <1>1, <2>1 DEF PutRequest, RequestOp, Put, CasOp
        <3>3. <<PutRequest(p, o.val, Nil, TRUE), RangeRequest({p})>> \in Seq(Put \cup Other)
            BY <3>2, ShortLists
        <3> QED BY <3>1, <3>3, Lookup, TxnRequestTyped DEF CasTxn
    <2> QED BY <2>2, <2>3
<1>5. CASE o.type = "set"
    <2>1. o \in SetOp
        BY <1>5, OpTypes
    <2>2. TxnOf(c) = SetTxn(o, expect[c])
        BY <1>5 DEF TxnOf
    <2>3. PutRequest(p, o.val, Nil, expect[c]) \in Put /\ RangeRequest({p}) \in Other
        BY <1>1, <2>1 DEF PutRequest, RequestOp, Put, SetOp, CallInv, CallsOK
    <2>4. <<PutRequest(p, o.val, Nil, expect[c]), RangeRequest({p})>> \in Seq(Put \cup Other)
        BY <2>3, ShortLists
    <2> DEFINE fs == IF Parent(o.key) = Root THEN <<>> ELSE <<RangeRequest({AsPath(Parent(o.key))})>>
    <2>5. \A i \in DOMAIN fs : fs[i].kind = "range"
        BY Lookup
    <2> QED BY <2>2, <2>4, <2>5, TxnRequestTyped DEF SetTxn
<1>6. CASE o.type = "erase"
    <2>1. o \in EraseOp
        BY <1>6, OpTypes
    <2>2. TxnOf(c) = EraseTxn(o)
        BY <1>6 DEF TxnOf
    <2>3. DeleteRangeRequest({p}) \in Other /\ DeleteRangeRequest(SubtreeRange(o.key)) \in Other
        BY <2>1 DEF DeleteRangeRequest, RequestOp, Other, EraseOp, SubtreeRange
    <2>4. <<DeleteRangeRequest({p}), DeleteRangeRequest(SubtreeRange(o.key))>> \in Seq(Put \cup Other)
        BY <2>3, ShortLists
    <2> QED BY <2>2, <2>4, Lookup, TxnRequestTyped DEF EraseTxn
<1>7. CASE o.type = "commit"
    <2>1. o \in CommitOp
        BY <1>7, OpTypes
    <2>2. TxnOf(c) = CommitTxn(o, c)
        BY <1>7 DEF TxnOf
    <2>3. o.ops \in Seq(TxnOp)
        BY <2>1 DEF CommitOp
    <2>4. [i \in DOMAIN o.ops |-> OpRequests(o.ops[i], c)] \in Seq(Seq(Put \cup Other))
        BY <2>3, OpRequestsType
    <2>5. FlattenSeq([i \in DOMAIN o.ops |-> OpRequests(o.ops[i], c)]) \in Seq(Put \cup Other)
        BY <2>4, FlattenType
    <2> QED BY <2>2, <2>5, Lookup, TxnRequestTyped DEF CommitTxn
<1>8. CASE o.type \in {"get", "exists", "get_children"}
    <2>1. o \in ReadOp
        BY <1>8, OpTypes
    <2>2. TxnOf(c) = ReadTxn(o)
        BY <1>8 DEF TxnOf
    <2>3. RangeRequest({p}) \in Other /\ RangeRequest(DirectChildrenRange(o.key)) \in Other
        BY <1>1, <2>1 DEF RangeRequest, RequestOp, Other, ReadOp, DirectChildrenRange
    <2>4. /\ <<RangeRequest({p})>> \in Seq(Put \cup Other)
          /\ <<RangeRequest(DirectChildrenRange(o.key))>> \in Seq(Put \cup Other)
        BY <2>3, ShortLists
    <2>5. \A i \in DOMAIN <<>> : <<>>[i].kind = "range"
        OBVIOUS
    <2> QED BY <2>2, <2>4, <2>5, TxnRequestTyped DEF ReadTxn
<1> QED BY <1>3, <1>4, <1>5, <1>6, <1>7, <1>8, OpTypes

LEMMA EffectType ==
    ASSUME CallInv, NEW c \in Clients, op[c] \in Ops
    PROVE  Effect(c) \in [Paths -> Entry \cup {Nil}]
BY TxnOfTyped, StoreAfterType DEF Effect, CallInv

LEMMA WithoutLeaseType ==
    ASSUME CallInv, NEW c PROVE WithoutLease(kv, c) \in [Paths -> Entry \cup {Nil}]
BY DEF CallInv, WithoutLease

-----------------------------------------------------------------------------
(* The steps. *)

\* No client is making a watch now that was not before.
NoNewWatch == \A c \in Clients : pc'[c] = "watch" => pc[c] = "watch"

LEMMA HandleStays ==
    ASSUME kv' = kv, log' = log, NEW h, HandleOK(h) PROVE HandleOK(h)'
<1>1. \A r : EndsAt(h, r)' <=> EndsAt(h, r)
    BY DEF EndsAt, Watched, StopsWaiting
<1> QED BY <1>1 DEF HandleOK

\* A step that leaves the store and the handles alone.
LEMMA Quiet ==
    ASSUME Inv, kv' = kv, log' = log, handle' = handle, CallsOK', NoNewWatch
    PROVE  Inv'
<1>1. CallInv'
    BY DEF Inv, CallInv, CallsOK
<1>2. ASSUME NEW c \in Clients, handle'[c] # Nil PROVE HandleOK(handle[c])'
    <2>1. PICK h : h = handle[c]
        OBVIOUS
    <2>2. HandleOK(h)
        BY <1>2, <2>1 DEF Inv, HandleInv
    <2>3. HandleOK(h)'
        BY <2>2, HandleStays
    <2> QED BY <2>1, <2>3
<1> QED BY <1>1, <1>2 DEF Inv, HandleInv, NoNewWatch

\* A step in which the store becomes s.
LEMMA Changing ==
    ASSUME Inv, NEW s \in [Paths -> Entry \cup {Nil}], Becomes(s), CallsOK', NoNewWatch
    PROVE  Inv'
BY BecomesPreserves DEF Inv, CallInv, HandleInv, CallsOK, NoNewWatch

\* A step that replaces one handle, by none or by one that is what it should be.
LEMMA Replacing ==
    ASSUME Inv, kv' = kv, log' = log, CallsOK', NEW c \in Clients, NEW h \in Handle \cup {Nil},
           handle' = [handle EXCEPT ![c] = h], h # Nil => HandleOK(h)',
           \A d \in Clients \ {c} : pc'[d] = "watch" => pc[d] = "watch",
           pc'[c] = "watch" => h # Nil /\ h.state = "creating"
    PROVE  Inv'
<1>1. CallInv'
    BY DEF Inv, CallInv, CallsOK
<1>2. ASSUME NEW d \in Clients, handle'[d] # Nil PROVE HandleOK(handle[d])'
    <2>1. CASE d = c
        <3>1. handle'[d] = h
            BY <2>1 DEF Inv, HandleInv
        <3> QED BY <1>2, <3>1
    <2>2. CASE d # c
        <3>1. PICK g : g = handle[d]
            OBVIOUS
        <3>2. handle'[d] = g
            BY <2>2, <3>1 DEF Inv, HandleInv
        <3>3. HandleOK(g)'
            BY <1>2, <3>1, <3>2, HandleStays DEF Inv, HandleInv
        <3> QED BY <3>2, <3>3
    <2> QED BY <2>1, <2>2
<1> QED BY <1>1, <1>2 DEF Inv, HandleInv

\* What Return leaves of the calls.
LEMMA ReturnCalls ==
    ASSUME CallsOK, NEW c \in Clients, NEW r, Return(c, r)
    PROVE  /\ CallsOK'
           /\ pc'[c] = "idle" /\ \A d \in Clients \ {c} : pc'[d] = pc[d]
           /\ NoNewWatch
BY DEF CallsOK, Return, NoNewWatch

LEMMA SendPreserves ==
    ASSUME Inv, NEW c \in Clients, pc[c] = "txn", NEW r, Send(c, r) PROVE Inv'
<1>1. CallsOK' /\ NoNewWatch
    BY ReturnCalls DEF Inv, CallInv, CallsOK, Send
<1>2. Effect(c) \in [Paths -> Entry \cup {Nil}]
    BY EffectType DEF Inv, CallInv, CallsOK
<1> QED BY <1>1, <1>2, Changing DEF Send

LEMMA InvokePreserves ==
    ASSUME Inv, NEW c \in Clients, NEW o \in Ops, Invoke(c, o) PROVE Inv'
<1>1. CallsOK' /\ NoNewWatch
    BY DEF Inv, CallInv, CallsOK, NoNewWatch, Invoke
<1> QED BY <1>1, Quiet DEF Invoke, etcdVars

LEMMA GetLeasePreserves ==
    ASSUME Inv, NEW c \in Clients, GetLease(c) PROVE Inv'
<1>1. CallsOK' /\ NoNewWatch
    BY DEF Inv, CallInv, CallsOK, NoNewWatch, GetLease
<1> QED BY <1>1, Quiet DEF GetLease

LEMMA SetAgainPreserves ==
    ASSUME Inv, NEW c \in Clients, SetAgain(c) PROVE Inv'
<1>1. CallsOK' /\ NoNewWatch
    BY DEF Inv, CallInv, CallsOK, NoNewWatch, SetAgain, OtherRound
<1> QED BY <1>1, Quiet DEF SetAgain, etcdVars

\* The handle that a lookup begins describes what the lookup found.
LEMMA NewHandleOK ==
    ASSUME Inv, NEW o \in ReadOp PROVE NewHandle(o) \in Handle /\ HandleOK(NewHandle(o))
<1> DEFINE h == NewHandle(o)
<1>1. /\ o.type \in {"get", "exists", "get_children"} /\ o.key \in Keys
      /\ AsPath(o.key) \in Paths
    BY PathsOfKeys DEF ReadOp
<1>2. Observation(kv, o.type, o.key) \in Entry \cup {Nil} \cup BOOLEAN \cup SUBSET Paths
    <2>1. CASE o.type = "get"
        BY <1>1, <2>1 DEF Observation, Inv, CallInv
    <2>2. CASE o.type = "exists"
        BY <1>1, <2>2 DEF Observation
    <2>3. CASE o.type = "get_children"
        BY <1>1, <2>3 DEF Observation, DirectChildrenRange
    <2> QED BY <1>1, <2>1, <2>2, <2>3
<1>3. Len(log) \in Nat
    BY DEF Inv, CallInv
<1>4. h \in Handle
    BY <1>1, <1>2, <1>3 DEF NewHandle, Handle, NextRevision
<1>5. /\ h.type = o.type /\ h.key = o.key /\ h.seen = Observation(kv, o.type, o.key)
      /\ h.next = Len(log) + 1 /\ h.state = "creating" /\ h.changed = FALSE
    BY DEF NewHandle, NextRevision
<1> HIDE DEF h
<1>6. HandleOK(h)
    BY <1>3, <1>4, <1>5 DEF HandleOK
<1> QED BY <1>4, <1>6 DEF h

LEMMA ReadPreserves ==
    ASSUME Inv, NEW c \in Clients, Read(c) PROVE Inv'
<1> DEFINE r == ReadAnswer(op[c], Ok(c), Resp(c))
<1>1. op[c] \in ReadOp
    BY OpTypes DEF Read, IsRead, Inv, CallInv, CallsOK
<1>2. CASE op[c].watch /\ r # Failure("NoEntry")
    <2>1. PICK h : h = NewHandle(op[c])
        OBVIOUS
    <2>2. h \in Handle /\ HandleOK(h) /\ h.state = "creating"
        BY <1>1, <2>1, NewHandleOK DEF NewHandle
    <2>3. kv' = kv /\ log' = log /\ handle' = [handle EXCEPT ![c] = h]
        BY <1>2, <2>1 DEF Read, etcdVars
    <2>4. CallsOK' /\ pc' = [pc EXCEPT ![c] = "watch"]
        BY <1>2 DEF Read, Inv, CallInv, CallsOK
    <2>5. HandleOK(h)'
        BY <2>2, <2>3, HandleStays
    <2> QED BY <2>2, <2>3, <2>4, <2>5, Replacing, HandlesAssumption DEF Inv, CallInv, CallsOK
<1>3. CASE ~(op[c].watch /\ r # Failure("NoEntry"))
    <2>1. Return(c, r) /\ handle' = handle /\ kv' = kv /\ log' = log
        BY <1>3 DEF Read, etcdVars
    <2>2. CallsOK' /\ NoNewWatch
        BY <2>1, ReturnCalls DEF Inv, CallInv, CallsOK
    <2> QED BY <2>1, <2>2, Quiet
<1> QED BY <1>2, <1>3

\* A handle that has not ended may change its state, or go on to the next revision.
LEMMA MakeWatchPreserves ==
    ASSUME Inv, NEW c \in Clients, MakeWatch(c) PROVE Inv'
<1>1. PICK g : g = handle[c]
    OBVIOUS
<1>2. g # Nil /\ HandleOK(g) /\ g.state = "creating"
    BY <1>1 DEF MakeWatch, Inv, HandleInv
<1>3. PICK h : h = [g EXCEPT !.state = "waiting"]
    OBVIOUS
<1>4. /\ h \in Handle /\ h.state = "waiting"
      /\ h.type = g.type /\ h.key = g.key /\ h.seen = g.seen /\ h.next = g.next /\ h.changed = g.changed
    BY <1>2, <1>3 DEF HandleOK, Handle
<1>5. HandleOK(h)
    <2>1. \A r : EndsAt(h, r) <=> EndsAt(g, r)
        BY <1>4 DEF EndsAt, Watched, StopsWaiting
    <2> QED BY <1>2, <1>4, <2>1 DEF HandleOK
<1>6. kv' = kv /\ log' = log /\ handle' = [handle EXCEPT ![c] = h]
    BY <1>1, <1>3 DEF MakeWatch, etcdVars
<1>7. HandleOK(h)'
    BY <1>5, <1>6, HandleStays
<1>8. /\ CallsOK' /\ pc'[c] = "idle" /\ \A d \in Clients \ {c} : pc'[d] = pc[d]
    BY ReturnCalls DEF MakeWatch, Inv, CallInv
<1> QED BY <1>4, <1>6, <1>7, <1>8, Replacing

LEMMA LoseConnectionPreserves ==
    ASSUME Inv, NEW c \in Clients, LoseConnection(c) PROVE Inv'
<1>1. CallsOK' /\ NoNewWatch
    BY ReturnCalls DEF Inv, CallInv, LoseConnection
<1>2. kv \in [Paths -> Entry \cup {Nil}]
    BY DEF Inv, CallInv
<1>3. pc[c] = "txn" => Effect(c) \in [Paths -> Entry \cup {Nil}]
    BY EffectType DEF Inv, CallInv, CallsOK
<1> QED BY <1>1, <1>2, <1>3, Changing DEF LoseConnection

LEMMA LoseWatchPreserves ==
    ASSUME Inv, NEW c \in Clients, LoseWatch(c) PROVE Inv'
<1>1. kv' = kv /\ log' = log
    BY DEF LoseWatch, etcdVars
<1>2. CASE pc[c] = "watch" /\ handle' = [handle EXCEPT ![c] = Nil] /\ Return(c, Failure("ServiceError"))
    <2>1. CallsOK' /\ pc'[c] = "idle" /\ \A d \in Clients \ {c} : pc'[d] = pc[d]
        BY <1>2, ReturnCalls DEF Inv, CallInv
    <2> QED BY <1>1, <1>2, <2>1, Replacing
<1>3. CASE /\ handle[c] # Nil /\ handle[c].state = "waiting"
           /\ handle' = [handle EXCEPT ![c].state = "failed"]
           /\ UNCHANGED clientVars
    <2>1. PICK g : g = handle[c]
        OBVIOUS
    <2>2. HandleOK(g) /\ g.state = "waiting"
        BY <1>3, <2>1 DEF Inv, HandleInv
    <2>3. PICK h : h = [g EXCEPT !.state = "failed"]
        OBVIOUS
    <2>4. /\ h \in Handle /\ h.state = "failed"
          /\ h.type = g.type /\ h.key = g.key /\ h.seen = g.seen /\ h.next = g.next /\ h.changed = g.changed
        BY <2>2, <2>3 DEF HandleOK, Handle
    <2>5. HandleOK(h)'
        <3>1. HandleOK(h)
            BY <2>2, <2>4 DEF HandleOK
        <3> QED BY <1>1, <3>1, HandleStays
    <2>6. handle' = [handle EXCEPT ![c] = h] /\ pc' = pc /\ CallsOK'
        BY <1>3, <2>1, <2>3 DEF clientVars, CallsOK, Inv, CallInv
    <2>7. pc[c] # "watch"
        BY <1>3 DEF Inv, HandleInv
    <2> QED BY <1>1, <2>4, <2>5, <2>6, <2>7, Replacing
<1> QED BY <1>2, <1>3 DEF LoseWatch

LEMMA DeliverPreserves ==
    ASSUME Inv, NEW c \in Clients, Deliver(c) PROVE Inv'
<1>1. PICK g : g = handle[c]
    OBVIOUS
<1>2. g # Nil /\ HandleOK(g) /\ g.state = "waiting" /\ g.next \in DOMAIN log
    BY <1>1 DEF Deliver, Inv, HandleInv
<1>3. PICK st, h : /\ st = IF EndsAt(g, g.next) THEN "fired" ELSE g.state
                   /\ h = [g EXCEPT !.next = g.next + 1, !.state = st]
    OBVIOUS
<1>4. /\ h \in Handle /\ h.next = g.next + 1
      /\ h.state = IF EndsAt(g, g.next) THEN "fired" ELSE "waiting"
      /\ h.type = g.type /\ h.key = g.key /\ h.seen = g.seen /\ h.changed = g.changed
    <2>1. st \in {"fired", "waiting"} /\ st = IF EndsAt(g, g.next) THEN "fired" ELSE "waiting"
        BY <1>2, <1>3
    <2>2. g \in Handle
        BY <1>2 DEF HandleOK
    <2>3. g.next + 1 \in Nat \ {0}
        BY <2>2 DEF Handle
    <2>4. PICK n : n = g.next + 1
        OBVIOUS
    <2>5. h = [g EXCEPT !.next = n, !.state = st] /\ n \in Nat \ {0}
        BY <1>3, <2>3, <2>4
    <2>6. /\ h \in Handle /\ h.next = n /\ h.state = st
          /\ h.type = g.type /\ h.key = g.key /\ h.seen = g.seen /\ h.changed = g.changed
        BY <2>1, <2>2, <2>5 DEF Handle
    <2> QED BY <2>1, <2>4, <2>6
<1>5. handle' = [handle EXCEPT ![c] = h] /\ kv' = kv /\ log' = log /\ pc' = pc /\ CallsOK'
    BY <1>1, <1>3 DEF Deliver, EndsAt, etcdVars, clientVars, Inv, CallInv, CallsOK, HandleInv
<1>6. /\ Len(log) \in Nat /\ DOMAIN log = 1 .. Len(log)
      /\ g.next \in 1 .. Len(log)
    BY <1>2 DEF Inv, CallInv
<1>7. \A r : EndsAt(h, r) <=> EndsAt(g, r)
    BY <1>4 DEF EndsAt, Watched, StopsWaiting
<1>8. g.changed <=> EndsAt(g, g.next) \/ \E r \in g.next + 1 .. Len(log) : EndsAt(g, r)
    <2>1. g.changed <=> \E r \in g.next .. Len(log) : EndsAt(g, r)
        BY <1>2 DEF HandleOK
    <2>2. \A r : r \in g.next .. Len(log) <=> r = g.next \/ r \in g.next + 1 .. Len(log)
        BY <1>6
    <2> QED BY <2>1, <2>2
<1>9. HandleOK(h)
    <2>1. h.next <= Len(log) + 1
        BY <1>4, <1>6
    <2>2. h.state = "fired" => h.changed
        BY <1>4, <1>8
    <2>3. h.state \in {"creating", "waiting"} =>
             (h.changed <=> \E r \in h.next .. Len(log) : EndsAt(h, r))
        BY <1>4, <1>7, <1>8
    <2>4. ~h.changed => Observation(kv, h.type, h.key) = h.seen
        BY <1>2, <1>4 DEF HandleOK
    <2> QED BY <1>4, <2>1, <2>2, <2>3, <2>4 DEF HandleOK
<1>10. HandleOK(h)'
    BY <1>5, <1>9, HandleStays
<1>11. pc[c] # "watch"
    BY <1>1, <1>2 DEF Inv, HandleInv
<1> QED BY <1>4, <1>5, <1>10, <1>11, Replacing

LEMMA EndHandlePreserves ==
    ASSUME Inv, NEW c \in Clients, EndHandle(c) PROVE Inv'
<1>1. kv' = kv /\ log' = log /\ pc' = pc /\ CallsOK'
    BY DEF EndHandle, etcdVars, clientVars, Inv, CallInv, CallsOK
<1>2. pc[c] # "watch"
    BY DEF EndHandle, Inv, HandleInv
<1> QED BY <1>1, <1>2, Replacing DEF EndHandle

LEMMA DiePreserves ==
    ASSUME Inv, NEW c \in Clients, Die(c) PROVE Inv'
<1>1. CallsOK' /\ pc'[c] = "dead" /\ \A d \in Clients \ {c} : pc'[d] = pc[d]
    BY DEF Die, Dies, Inv, CallInv, CallsOK
<1> QED BY <1>1, Replacing DEF Die, etcdVars

LEMMA CrashInCommitPreserves ==
    ASSUME Inv, NEW c \in Clients, CrashInCommit(c) PROVE Inv'
<1>1. CallsOK' /\ NoNewWatch
    BY DEF CrashInCommit, Dies, Inv, CallInv, CallsOK, NoNewWatch
<1>2. Effect(c) \in [Paths -> Entry \cup {Nil}]
    BY EffectType DEF CrashInCommit, Calls, Inv, CallInv, CallsOK
<1> QED BY <1>1, <1>2, Changing DEF CrashInCommit

LEMMA ExpireLeasePreserves ==
    ASSUME Inv, NEW c \in Clients, ExpireLease(c) PROVE Inv'
<1>1. CallsOK' /\ NoNewWatch
    BY DEF ExpireLease, clientVars, Inv, CallInv, CallsOK, NoNewWatch
<1>2. WithoutLease(kv, c) \in [Paths -> Entry \cup {Nil}]
    BY WithoutLeaseType DEF Inv
<1> QED BY <1>1, <1>2, Changing DEF ExpireLease

LEMMA InvInit == Init => Inv
BY DEF Init, Inv, CallInv, CallsOK, HandleInv

LEMMA InvNext == Inv /\ [Next]_vars => Inv'
<1> SUFFICES ASSUME Inv, [Next]_vars PROVE Inv'
    OBVIOUS
<1>1. ASSUME NEW c \in Clients, NEW o \in Ops, Invoke(c, o) PROVE Inv'
    BY <1>1, InvokePreserves
<1>2. ASSUME NEW c \in Clients, Progress(c) PROVE Inv'
    <2>1. ASSUME NEW r, pc[c] = "txn", Send(c, r) PROVE Inv'
        BY <2>1, SendPreserves
    <2>2. CASE Create(c) \/ Set(c) \/ Cas(c) \/ Erase(c) \/ Commit(c)
        BY <2>1, <2>2 DEF Create, Set, Cas, Erase, Commit, Calls
    <2> QED BY <1>2, <2>2, GetLeasePreserves, SetAgainPreserves, ReadPreserves, MakeWatchPreserves
         DEF Progress
<1>3. ASSUME NEW c \in Clients,
             LoseConnection(c) \/ LoseWatch(c) \/ Deliver(c) \/ EndHandle(c) \/ Die(c)
               \/ CrashInCommit(c) \/ ExpireLease(c)
      PROVE  Inv'
    BY <1>3, LoseConnectionPreserves, LoseWatchPreserves, DeliverPreserves, EndHandlePreserves,
       DiePreserves, CrashInCommitPreserves, ExpireLeasePreserves
<1>4. CASE UNCHANGED vars
    BY <1>4, Quiet DEF vars, etcdVars, clientVars, Inv, CallInv, CallsOK, NoNewWatch
<1> QED BY <1>1, <1>2, <1>3, <1>4 DEF Next

LEMMA Invariance == Spec => []Inv
BY InvInit, InvNext, PTL DEF Spec

-----------------------------------------------------------------------------
(* The rounds of set. *)

\* The two lists of the transaction of a round.
LEMMA SetLists ==
    ASSUME NEW o \in SetOp, NEW lsd \in BOOLEAN, NEW t, t = SetTxn(o, lsd)
    PROVE  /\ Puts(t.success) = {1} /\ t.success[1].keep = lsd /\ t.success[1].lease = Nil
           /\ t.success[1].range = {AsPath(o.key)}
           /\ ~Duplicates(t.success)
           /\ Puts(t.failure) = {} /\ ~Duplicates(t.failure)
<1> DEFINE p == AsPath(o.key)
<1>1. t.success = <<PutRequest(p, o.val, Nil, lsd), RangeRequest({p})>>
    BY DEF SetTxn, TxnRequest
<1>2. t.failure = IF Parent(o.key) = Root THEN <<>> ELSE <<RangeRequest({AsPath(Parent(o.key))})>>
    BY DEF SetTxn, TxnRequest
<1>3. Puts(t.success) = {1} /\ Deletes(t.success) = {}
    BY <1>1 DEF Puts, Deletes, PutRequest, RangeRequest, RequestOp
<1>4. Puts(t.failure) = {}
    BY <1>2 DEF Puts, RangeRequest, RequestOp
<1>5. t.success[1].keep = lsd /\ t.success[1].lease = Nil /\ t.success[1].range = {p}
    BY <1>1 DEF PutRequest, RequestOp
<1> QED BY <1>3, <1>4, <1>5 DEF Duplicates

\* When the parent is missing, a round finds that out.
LEMMA SetFindsNoParent ==
    ASSUME NEW s, NEW L, NEW o \in SetOp, NEW lsd \in BOOLEAN, NEW t, t = SetTxn(o, lsd),
           Parent(o.key) # Root, s[AsPath(Parent(o.key))] = Nil
    PROVE  ~SetRepeats(StatusOf(s, L, t), Succeeds(s, t), Responses(s, t))
<1> DEFINE q == AsPath(Parent(o.key))
<1>1. ~Succeeds(s, t)
    <2>1. Compare("exists", q, 0) \in t.compare
        BY DEF SetTxn, TxnRequest, ParentExists
    <2>2. ~CompareHolds(s, Compare("exists", q, 0))
        BY DEF CompareHolds, Compare
    <2> QED BY <2>1, <2>2 DEF Succeeds
<1>2. Chosen(s, t) = <<RangeRequest({q})>> /\ Chosen(s, t) = t.failure
    BY <1>1 DEF Chosen, SetTxn, TxnRequest
<1>3. StatusOf(s, L, t) = "OK"
    BY <1>2, SetLists DEF StatusOf
<1>4. Responses(s, t) = [i \in {1} |-> Response(s, <<RangeRequest({q})>>, i)]
    BY <1>2 DEF Responses
<1>5. Empty(Response(s, <<RangeRequest({q})>>, 1))
    <2>1. EntryAfter(s, <<RangeRequest({q})>>, 1 .. 0, q) = s[q]
        BY DEF EntryAfter
    <2>2. <<RangeRequest({q})>>[1].kind = "range" /\ <<RangeRequest({q})>>[1].range = {q}
        BY DEF RangeRequest, RequestOp
    <2> HIDE DEF q
    <2>3. {x \in {q} : EntryAfter(s, <<RangeRequest({q})>>, 1 .. 1 - 1, x) # Nil} = {}
        BY <2>1 DEF q
    <2> QED BY <2>2, <2>3 DEF Empty, Response
<1>6. Responses(s, t) # <<>> /\ Empty(Responses(s, t)[1])
    BY <1>4, <1>5
<1> QED BY <1>1, <1>3, <1>6 DEF SetRepeats

\* When it is not, a round that expects of the key what is true of it succeeds.
LEMMA SetSucceeds ==
    ASSUME NEW s, NEW L, NEW o \in SetOp, NEW lsd \in BOOLEAN, NEW t, t = SetTxn(o, lsd),
           Parent(o.key) # Root => s[AsPath(Parent(o.key))] # Nil,
           IF lsd THEN s[AsPath(o.key)] # Nil
                  ELSE s[AsPath(o.key)] = Nil \/ s[AsPath(o.key)].lease = Nil
    PROVE  ~SetRepeats(StatusOf(s, L, t), Succeeds(s, t), Responses(s, t))
<1> DEFINE p == AsPath(o.key)
<1>1. Succeeds(s, t)
    <2>1. t.compare = ParentExists(o.key) \cup (IF lsd THEN {} ELSE {Compare("no_lease", p, 0)})
        BY DEF SetTxn, TxnRequest
    <2>2. \A cmp \in ParentExists(o.key) : CompareHolds(s, cmp)
        <3>1. CASE Parent(o.key) = Root
            BY <3>1 DEF ParentExists
        <3>2. CASE Parent(o.key) # Root
            <4>1. CompareHolds(s, Compare("exists", AsPath(Parent(o.key)), 0))
                BY <3>2 DEF CompareHolds, Compare
            <4> QED BY <3>2, <4>1 DEF ParentExists
        <3> QED BY <3>1, <3>2
    <2>3. ~lsd => CompareHolds(s, Compare("no_lease", p, 0))
        BY DEF CompareHolds, Compare
    <2> QED BY <2>1, <2>2, <2>3 DEF Succeeds
<1>2. Chosen(s, t) = t.success
    BY <1>1 DEF Chosen
<1>3. StatusOf(s, L, t) = "OK"
    BY <1>2, SetLists DEF StatusOf
<1> QED BY <1>1, <1>3 DEF SetRepeats

-----------------------------------------------------------------------------
(* commit: where the responses to an operation are, and where they are read. *)

\* The operations of a type among the first m.
Count(o, m, type) == Cardinality({j \in 1 .. m : o.ops[j].type = type})

\* The number of requests for the first m operations: two for a set or an erase.
Place(o, m) == m + Count(o, m, "set") + Count(o, m, "erase")

LEMMA CountStep ==
    ASSUME NEW o, NEW m \in Nat, NEW type
    PROVE  /\ Count(o, m, type) \in Nat
           /\ Count(o, 0, type) = 0
           /\ Count(o, m + 1, type) = Count(o, m, type) + IF o.ops[m + 1].type = type THEN 1 ELSE 0
<1> DEFINE S(n) == {j \in 1 .. n : o.ops[j].type = type}
<1>1. IsFiniteSet(S(m)) /\ Cardinality(S(m)) \in Nat
    <2>1. IsFiniteSet(1 .. m) /\ S(m) \subseteq 1 .. m
        BY FS_Interval
    <2> HIDE DEF S
    <2> QED BY <2>1, FS_Subset, FS_CardinalityType
<1>2. S(0) = {}
    OBVIOUS
<1> DEFINE C(n) == Count(o, n, type)
<1>3. C(m) = Cardinality(S(m)) /\ C(0) = Cardinality(S(0)) /\ C(m + 1) = Cardinality(S(m + 1))
    BY DEF Count
<1>4. C(m) \in Nat /\ C(0) = 0
    <2> HIDE DEF S, C
    <2> QED BY <1>1, <1>2, <1>3, FS_EmptySet
<1>5. CASE o.ops[m + 1].type = type
    <2>1. S(m + 1) = S(m) \cup {m + 1} /\ m + 1 \notin S(m)
        BY <1>5
    <2> HIDE DEF S
    <2>2. Cardinality(S(m + 1)) = Cardinality(S(m)) + 1
        BY <1>1, <2>1, FS_AddElement
    <2> QED BY <1>5, <1>3, <1>4, <2>2
<1>6. CASE o.ops[m + 1].type # type
    <2>1. S(m + 1) = S(m)
        BY <1>6
    <2> HIDE DEF S
    <2>2. C(m + 1) = C(m)
        <3> HIDE DEF C
        <3> QED BY <1>3, <2>1
    <2> QED BY <1>6, <1>4, <2>2
<1> QED BY <1>5, <1>6

LEMMA CountGrows ==
    ASSUME NEW o, NEW m \in Nat, NEW n \in Nat, m <= n, NEW type
    PROVE  Count(o, m, type) <= Count(o, n, type)
<1> DEFINE S(x) == {j \in 1 .. x : o.ops[j].type = type}
<1>1. S(n) \subseteq 1 .. n /\ S(m) \subseteq S(n) /\ IsFiniteSet(1 .. n)
    BY FS_Interval
<1> HIDE DEF S
<1> QED BY <1>1, FS_Subset DEF Count, S

\* No such operation among the first m, or there is one.
LEMMA CountNone ==
    ASSUME NEW o, NEW m \in Nat, NEW type
    PROVE  Count(o, m, type) = 0 <=> \A j \in 1 .. m : o.ops[j].type # type
<1> DEFINE S == {j \in 1 .. m : o.ops[j].type = type}
<1>1. IsFiniteSet(S)
    <2>1. IsFiniteSet(1 .. m) /\ S \subseteq 1 .. m
        BY FS_Interval
    <2> HIDE DEF S
    <2> QED BY <2>1, FS_Subset
<1>2. S = {} <=> \A j \in 1 .. m : o.ops[j].type # type
    OBVIOUS
<1> HIDE DEF S
<1> QED BY <1>1, <1>2, FS_EmptySet DEF Count, S

LEMMA PlaceStep ==
    ASSUME NEW o, NEW m \in Nat
    PROVE  /\ Place(o, m) \in Nat /\ Place(o, m) >= m /\ Place(o, 0) = 0
           /\ o.ops[m + 1].type \notin {"set", "erase"} => Place(o, m + 1) = Place(o, m) + 1
           /\ o.ops[m + 1].type \in {"set", "erase"} => Place(o, m + 1) = Place(o, m) + 2
<1>1. /\ Count(o, m, "set") \in Nat /\ Count(o, m, "erase") \in Nat
      /\ Count(o, 0, "set") = 0 /\ Count(o, 0, "erase") = 0
      /\ Count(o, m + 1, "set") = Count(o, m, "set") + IF o.ops[m + 1].type = "set" THEN 1 ELSE 0
      /\ Count(o, m + 1, "erase") = Count(o, m, "erase") + IF o.ops[m + 1].type = "erase" THEN 1 ELSE 0
    BY CountStep
<1> QED BY <1>1 DEF Place

LEMMA PlaceGrows ==
    ASSUME NEW o, NEW m \in Nat, NEW n \in Nat, m <= n
    PROVE  Place(o, m) <= Place(o, n)
<1>1. /\ Count(o, m, "set") <= Count(o, n, "set") /\ Count(o, m, "erase") <= Count(o, n, "erase")
      /\ Count(o, m, "set") \in Nat /\ Count(o, m, "erase") \in Nat
      /\ Count(o, n, "set") \in Nat /\ Count(o, n, "erase") \in Nat
    BY CountStep, CountGrows
<1> QED BY <1>1 DEF Place

LEMMA OpRequestsKinds ==
    ASSUME NEW o \in TxnOp, NEW c \in Clients
    PROVE  /\ o.type \in {"create", "set", "erase"}
           /\ Len(OpRequests(o, c)) = IF o.type \in {"set", "erase"} THEN 2 ELSE 1
           /\ \A q \in 1 .. Len(OpRequests(o, c)) :
                OpRequests(o, c)[q].kind = "range" <=> o.type = "set" /\ q = 2
<1>1. CASE o \in CreateOp
    BY <1>1 DEF CreateOp, OpRequests, PutRequest, RequestOp
<1>2. CASE o \in SetOp
    BY <1>2 DEF SetOp, OpRequests, PutRequest, RangeRequest, RequestOp
<1>3. CASE o \in TxnOpErase
    BY <1>3 DEF TxnOpErase, OpRequests, DeleteRangeRequest, RequestOp
<1> QED BY <1>1, <1>2, <1>3 DEF TxnOp

\* The requests of a commit.
Requests(o, c) == FlattenSeq([i \in DOMAIN o.ops |-> OpRequests(o.ops[i], c)])

LEMMA Concatenated ==
    ASSUME NEW T, NEW a \in Seq(T), NEW b \in Seq(T)
    PROVE  /\ Len(a \o b) = Len(a) + Len(b)
           /\ \A x \in 1 .. Len(a) : (a \o b)[x] = a[x]
           /\ \A q \in 1 .. Len(b) : (a \o b)[Len(a) + q] = b[q]
OBVIOUS

\* Request q of operation i.
LEMMA RequestsLaid ==
    ASSUME NEW o \in CommitOp, NEW c \in Clients
    PROVE  /\ Requests(o, c) \in Seq(Put \cup Other) /\ Len(Requests(o, c)) = Place(o, Len(o.ops))
           /\ \A i \in 1 .. Len(o.ops) : \A q \in 1 .. Len(OpRequests(o.ops[i], c)) :
                Requests(o, c)[Place(o, i - 1) + q] = OpRequests(o.ops[i], c)[q]
<1> DEFINE n == Len(o.ops)
           X == [i \in DOMAIN o.ops |-> OpRequests(o.ops[i], c)]
           T == Put \cup Other
<1>1. o.ops \in Seq(TxnOp) /\ n \in Nat
    BY DEF CommitOp
<1>2. /\ X \in Seq(Seq(T)) /\ Len(X) = n
      /\ \A i \in 1 .. n : X[i] = OpRequests(o.ops[i], c) /\ X[i] \in Seq(T)
    BY <1>1, OpRequestsType
<1>3. ASSUME NEW i \in 1 .. n
      PROVE  Place(o, i - 1) \in Nat /\ Place(o, i) \in Nat /\ Place(o, i) = Place(o, i - 1) + Len(X[i])
    <2>1. o.ops[i] \in TxnOp /\ i - 1 \in Nat /\ (i - 1) + 1 = i /\ i \in Nat
        BY <1>1
    <2> HIDE DEF X, n
    <2>2. Len(X[i]) = IF o.ops[i].type \in {"set", "erase"} THEN 2 ELSE 1
        <3>1. X[i] = OpRequests(o.ops[i], c)
            BY <1>2
        <3>2. Len(OpRequests(o.ops[i], c)) = IF o.ops[i].type \in {"set", "erase"} THEN 2 ELSE 1
            BY <2>1, OpRequestsKinds
        <3> QED BY <3>1, <3>2
    <2>3. Place(o, i - 1) \in Nat /\ Place(o, i) \in Nat
        BY <2>1, PlaceStep
    <2>4. /\ o.ops[(i - 1) + 1].type \notin {"set", "erase"} => Place(o, (i - 1) + 1) = Place(o, i - 1) + 1
          /\ o.ops[(i - 1) + 1].type \in {"set", "erase"} => Place(o, (i - 1) + 1) = Place(o, i - 1) + 2
        BY <2>1, PlaceStep
    <2> QED BY <2>1, <2>2, <2>3, <2>4
<1>4. Place(o, 0) = 0
    BY PlaceStep
<1>5. CASE n = 0
    <2>1. Requests(o, c) = <<>>
        BY <1>2, <1>5 DEF Requests, FlattenSeq
    <2> QED BY <1>4, <1>5, <2>1
<1>6. CASE n # 0
    <2> HIDE DEF X, T, n
    <2>1. PICK f \in [1 .. n -> Seq(T)] : Concats(f, X) /\ FlattenSeq(X) = f[n]
        BY <1>2, <1>6, FlattenDef
    <2> DEFINE At(g, i) == \A q \in 1 .. Len(X[i]) : g[Place(o, i - 1) + q] = X[i][q]
               Good(m) == Len(f[m]) = Place(o, m) /\ \A i \in 1 .. m : At(f[m], i)
               V == {m \in Nat : m + 1 <= n => Good(m + 1)}
    <2>2. 0 \in V
        <3>1. 1 \in 1 .. n /\ f[1] = X[1]
            BY <1>1, <1>2, <1>6, <2>1 DEF Concats
        <3>2. Place(o, 1) = Len(X[1]) /\ Place(o, 1 - 1) = 0 /\ Len(X[1]) \in Nat
            BY <1>2, <1>3, <1>4, <3>1
        <3>3. \A q \in 1 .. Len(X[1]) : Place(o, 1 - 1) + q = q
            BY <3>2
        <3>4. Good(1)
            BY <3>1, <3>2, <3>3
        <3> QED BY <3>4
    <2>3. ASSUME NEW m \in Nat, m \in V PROVE m + 1 \in V
        <3> SUFFICES ASSUME m + 2 <= n PROVE Good(m + 2)
            OBVIOUS
        <3> DEFINE a == f[m + 1]
                   b == X[m + 2]
        <3>1. m + 1 \in 1 .. n /\ m + 2 \in 1 .. n /\ (m + 2) - 1 = m + 1
            BY <1>1
        <3>2. a \in Seq(T) /\ b \in Seq(T) /\ f[m + 2] = a \o b
            <4>1. m + 2 # 1 /\ m + 2 \in 1 .. Len(X)
                BY <1>2, <3>1
            <4>2. f[m + 2] = f[(m + 2) - 1] \o X[m + 2]
                BY <2>1, <4>1 DEF Concats
            <4> QED BY <1>2, <2>1, <3>1, <4>2
        <3>3. Good(m + 1)
            BY <1>1, <2>3, <3>1
        <3>4. /\ Len(f[m + 2]) = Len(a) + Len(b) /\ Len(a) = Place(o, m + 1)
              /\ \A x \in 1 .. Len(a) : f[m + 2][x] = a[x]
              /\ \A q \in 1 .. Len(b) : f[m + 2][Len(a) + q] = b[q]
            <4>1. Len(a) = Place(o, m + 1)
                BY <3>3
            <4>2. PICK d : d = f[m + 2] /\ d = a \o b
                BY <3>2
            <4> HIDE DEF a, b, V, Good, At
            <4>3. /\ Len(a \o b) = Len(a) + Len(b)
                  /\ \A x \in 1 .. Len(a) : (a \o b)[x] = a[x]
                  /\ \A q \in 1 .. Len(b) : (a \o b)[Len(a) + q] = b[q]
                BY <3>2, Concatenated
            <4>4. /\ Len(d) = Len(a) + Len(b)
                  /\ \A x \in 1 .. Len(a) : d[x] = a[x]
                  /\ \A q \in 1 .. Len(b) : d[Len(a) + q] = b[q]
                BY <4>2, <4>3, Zenon
            <4> QED BY <4>1, <4>2, <4>4
        <3>5. Len(f[m + 2]) = Place(o, m + 2)
            BY <1>3, <3>1, <3>4
        <3>6. ASSUME NEW i \in 1 .. m + 2 PROVE At(f[m + 2], i)
            <4>1. CASE i = m + 2
                BY <3>1, <3>4, <4>1
            <4>2. CASE i # m + 2
                <5>1. i \in 1 .. m + 1 /\ i \in 1 .. n /\ i \in Nat
                    BY <1>1, <4>2
                <5>2. Place(o, i) <= Place(o, m + 1)
                    BY <5>1, PlaceGrows
                <5>3. Place(o, i - 1) \in Nat /\ Place(o, i) = Place(o, i - 1) + Len(X[i]) /\ Len(X[i]) \in Nat
                      /\ Place(o, m + 1) \in Nat
                    BY <1>2, <1>3, <3>1, <5>1
                <5>4. \A q \in 1 .. Len(X[i]) : Place(o, i - 1) + q \in 1 .. Len(a)
                    <6> HIDE DEF a
                    <6> QED BY <3>4, <5>2, <5>3
                <5>5. At(a, i)
                    BY <3>3, <5>1
                <5> QED BY <3>4, <5>4, <5>5
            <4> QED BY <4>1, <4>2
        <3> QED BY <3>5, <3>6
    <2>4. n - 1 \in V
        <3> HIDE DEF V
        <3>1. \A m \in Nat : m \in V
            BY <2>2, <2>3, NatSetInduction
        <3> QED BY <1>1, <1>6, <3>1
    <2>5. Good(n)
        BY <1>1, <1>6, <2>4
    <2>6. Requests(o, c) = f[n] /\ f[n] \in Seq(T)
        BY <1>1, <1>6, <2>1 DEF Requests, X
    <2> QED BY <1>2, <2>5, <2>6 DEF n, T
<1> QED BY <1>5, <1>6

\* There are no other requests.
LEMMA RequestsAll ==
    ASSUME NEW o \in CommitOp, NEW c \in Clients
    PROVE  \A x \in 1 .. Place(o, Len(o.ops)) : \E i \in 1 .. Len(o.ops) :
               \E q \in 1 .. Len(OpRequests(o.ops[i], c)) : x = Place(o, i - 1) + q
<1> DEFINE n == Len(o.ops)
           Hit(x, m) == \E i \in 1 .. m : \E q \in 1 .. Len(OpRequests(o.ops[i], c)) : x = Place(o, i - 1) + q
           V == {m \in Nat : m <= n => \A x \in 1 .. Place(o, m) : Hit(x, m)}
<1>1. o.ops \in Seq(TxnOp) /\ n \in Nat
    BY DEF CommitOp
<1>2. 0 \in V
    <2>1. Place(o, 0) = 0
        BY PlaceStep
    <2> QED BY <2>1
<1>3. ASSUME NEW m \in Nat, m \in V PROVE m + 1 \in V
    <2> SUFFICES ASSUME m + 1 <= n, NEW x \in 1 .. Place(o, m + 1) PROVE Hit(x, m + 1)
        OBVIOUS
    <2>1. o.ops[m + 1] \in TxnOp /\ (m + 1) - 1 = m
        BY <1>1
    <2>2. /\ Len(OpRequests(o.ops[m + 1], c)) = IF o.ops[m + 1].type \in {"set", "erase"} THEN 2 ELSE 1
        BY <2>1, OpRequestsKinds
    <2>3. /\ Place(o, m) \in Nat
          /\ Place(o, m + 1) = Place(o, m) + Len(OpRequests(o.ops[m + 1], c))
        BY <2>2, PlaceStep
    <2>4. CASE x <= Place(o, m)
        <3>1. Hit(x, m)
            BY <1>1, <1>3, <2>3, <2>4
        <3> QED BY <3>1
    <2>5. CASE x > Place(o, m)
        <3> DEFINE q == x - Place(o, m)
        <3>1. q \in 1 .. Len(OpRequests(o.ops[m + 1], c)) /\ x = Place(o, m) + q
            BY <2>2, <2>3, <2>5
        <3> HIDE DEF q
        <3>2. x = Place(o, (m + 1) - 1) + q /\ m + 1 \in 1 .. m + 1
            BY <2>1, <3>1
        <3> QED BY <3>1, <3>2
    <2> QED BY <2>3, <2>4, <2>5
<1>4. n \in V
    <2> HIDE DEF V, n
    <2> QED BY <1>1, <1>2, <1>3, NatSetInduction
<1> QED BY <1>1, <1>4

\* The range requests are the second requests of the sets.
LEMMA RangeRequests ==
    ASSUME NEW o \in CommitOp, NEW c \in Clients, NEW i \in 1 .. Len(o.ops), o.ops[i].type = "set"
    PROVE  /\ Place(o, i - 1) + 2 = Place(o, i) /\ Place(o, i) \in 1 .. Place(o, Len(o.ops))
           /\ Requests(o, c)[Place(o, i - 1) + 2].kind = "range"
           /\ Requests(o, c)[Place(o, i - 1) + 2] = OpRequests(o.ops[i], c)[2]
<1>1. o.ops \in Seq(TxnOp) /\ Len(o.ops) \in Nat /\ o.ops[i] \in TxnOp
    BY DEF CommitOp
<1>2. i - 1 \in Nat /\ (i - 1) + 1 = i /\ i \in Nat /\ i <= Len(o.ops)
    BY <1>1
<1>3. Len(OpRequests(o.ops[i], c)) = 2 /\ OpRequests(o.ops[i], c)[2].kind = "range"
    BY <1>1, OpRequestsKinds
<1>4. o.ops[(i - 1) + 1].type \in {"set", "erase"} => Place(o, (i - 1) + 1) = Place(o, i - 1) + 2
    BY <1>2, PlaceStep
<1>5. Place(o, i - 1) \in Nat /\ Place(o, i) \in Nat /\ Place(o, Len(o.ops)) \in Nat
    BY <1>1, <1>2, PlaceStep
<1>6. Place(o, i) = Place(o, i - 1) + 2 /\ Place(o, i) <= Place(o, Len(o.ops))
    BY <1>1, <1>2, <1>4, PlaceGrows
<1>7. Requests(o, c)[Place(o, i - 1) + 2] = OpRequests(o.ops[i], c)[2]
    BY <1>3, RequestsLaid
<1> QED BY <1>3, <1>5, <1>6, <1>7

\* Where the version of a set is looked for: an erase before it moves the place forward.
LEMMA ReadPlace ==
    ASSUME NEW o \in CommitOp, NEW i \in 1 .. Len(o.ops)
    PROVE  /\ SetIndex(o, i) = Place(o, i - 1) + 2 - Count(o, i - 1, "erase")
           /\ SetIndex(o, i) = i + 1 + Count(o, i - 1, "set")
           /\ Count(o, i - 1, "erase") \in Nat /\ Count(o, i - 1, "set") \in Nat
<1>1. i \in Nat /\ i - 1 \in Nat
    BY DEF CommitOp
<1>2. Count(o, i - 1, "erase") \in Nat /\ Count(o, i - 1, "set") \in Nat
    BY <1>1, CountStep
<1>3. SetIndex(o, i) = i + 1 + Count(o, i - 1, "set")
    BY DEF SetIndex, Count
<1> QED BY <1>1, <1>2, <1>3 DEF Place

LEMMA ReadsRight ==
    ASSUME NEW o \in CommitOp, NEW c \in Clients, NEW i \in 1 .. Len(o.ops), o.ops[i].type = "set",
           \A j \in 1 .. i - 1 : o.ops[j].type # "erase"
    PROVE  /\ SetIndex(o, i) \in 1 .. Place(o, Len(o.ops))
           /\ Requests(o, c)[SetIndex(o, i)].kind = "range"
           /\ Requests(o, c)[SetIndex(o, i)] = OpRequests(o.ops[i], c)[2]
<1>1. i - 1 \in Nat
    BY DEF CommitOp
<1>2. Count(o, i - 1, "erase") = 0
    BY <1>1, CountNone
<1>3. Place(o, i - 1) \in Nat
    BY <1>1, PlaceStep
<1>4. SetIndex(o, i) = Place(o, i - 1) + 2
    BY <1>2, <1>3, ReadPlace
<1> QED BY <1>4, RangeRequests

\* The first set after an erase is read from a response to no range request: that of an
\* earlier set comes before the place, its own after it.
LEMMA ReadsWrong ==
    ASSUME NEW o \in CommitOp, NEW c \in Clients, NEW i \in 1 .. Len(o.ops), o.ops[i].type = "set",
           \E j \in 1 .. i - 1 : o.ops[j].type = "erase",
           \A k \in 1 .. i - 1 : o.ops[k].type = "set" => \A j \in 1 .. k - 1 : o.ops[j].type # "erase"
    PROVE  SetIndex(o, i) \in 1 .. Place(o, Len(o.ops)) /\ Requests(o, c)[SetIndex(o, i)].kind # "range"
<1> DEFINE x == SetIndex(o, i)
           n == Len(o.ops)
<1>1. n \in Nat /\ i - 1 \in Nat /\ i \in Nat /\ o.ops \in Seq(TxnOp)
    BY DEF CommitOp
<1>2. Count(o, i - 1, "erase") \in Nat /\ Count(o, i - 1, "erase") # 0
    BY <1>1, CountNone, CountStep
<1>3. /\ x = Place(o, i - 1) + 2 - Count(o, i - 1, "erase")
      /\ x = i + 1 + Count(o, i - 1, "set") /\ Count(o, i - 1, "set") \in Nat
    BY ReadPlace
<1>4. Place(o, i - 1) \in Nat /\ Place(o, i) \in Nat /\ Place(o, n) \in Nat
    BY <1>1, PlaceStep
<1>5. Place(o, i) = Place(o, i - 1) + 2 /\ Place(o, i) \in 1 .. Place(o, n)
    BY RangeRequests
<1> HIDE DEF x, n
<1>6. x \in 1 .. Place(o, n) /\ x < Place(o, i - 1) + 2
    <2>1. x \in Nat /\ x >= 1
        BY <1>1, <1>3
    <2>2. x < Place(o, i - 1) + 2
        BY <1>2, <1>3, <1>4
    <2>3. Place(o, i - 1) + 2 <= Place(o, n)
        BY <1>4, <1>5
    <2> QED BY <1>4, <2>1, <2>2, <2>3
<1> USE DEF n
<1>7. ASSUME Requests(o, c)[x].kind = "range" PROVE FALSE
    <2>0. PICK k \in 1 .. n : \E q \in 1 .. Len(OpRequests(o.ops[k], c)) : x = Place(o, k - 1) + q
        BY <1>6, RequestsAll
    <2>1. PICK q \in 1 .. Len(OpRequests(o.ops[k], c)) : x = Place(o, k - 1) + q
        BY <2>0
    <2>2. Requests(o, c)[x] = OpRequests(o.ops[k], c)[q] /\ o.ops[k] \in TxnOp
        BY <1>1, <2>1, RequestsLaid
    <2>3. o.ops[k].type = "set" /\ q = 2
        BY <1>7, <2>1, <2>2, OpRequestsKinds
    <2>4. k \in Nat /\ k - 1 \in Nat /\ Place(o, k - 1) \in Nat
        BY <1>1, PlaceStep
    <2>5. CASE k >= i
        <3>1. Place(o, i - 1) <= Place(o, k - 1)
            BY <1>1, <2>4, <2>5, PlaceGrows
        <3> QED BY <1>4, <1>6, <2>1, <2>3, <2>4, <3>1
    <2>6. CASE k < i
        <3>1. k \in 1 .. i - 1
            BY <1>1, <2>4, <2>6
        <3>2. \A j \in 1 .. k - 1 : o.ops[j].type # "erase"
            BY <2>3, <3>1
        <3>3. Count(o, k - 1, "erase") = 0
            BY <2>4, <3>2, CountNone
        <3>4. Count(o, k - 1, "set") \in Nat /\ Count(o, k - 1, "set") <= Count(o, i - 1, "set")
            BY <1>1, <2>4, <2>6, CountStep, CountGrows
        <3>5. x = (k - 1) + Count(o, k - 1, "set") + 2
            BY <2>1, <2>3, <2>4, <3>3, <3>4 DEF Place
        <3> QED BY <1>1, <1>3, <2>4, <2>6, <3>4, <3>5
    <2> QED BY <1>1, <2>4, <2>5, <2>6
<1> QED BY <1>6, <1>7 DEF x

\* The first number of a set of numbers.
LEMMA First == ASSUME NEW S \in SUBSET Nat, S # {} PROVE \E x \in S : \A y \in S : x <= y
<1>1. \E x \in S : \A y \in S : ~(<<y, x>> \in OpToRel(<, Nat))
    BY WFMin, NatLessThanWellFounded
<1>2. PICK x \in S : \A y \in S : ~(y < x)
    BY <1>1 DEF OpToRel
<1> QED BY <1>2

LEMMA CommitCrashesWhen ==
    ASSUME NEW o \in CommitOp, NEW c \in Clients, NEW resp,
           \A x \in 1 .. Place(o, Len(o.ops)) : resp[x].kind = Requests(o, c)[x].kind
    PROVE  CommitSuccess(o, resp) = Crash
             <=> \E i, j \in DOMAIN o.ops : i < j /\ o.ops[i].type = "erase" /\ o.ops[j].type = "set"
<1> DEFINE n == Len(o.ops)
           Late(j) == j \in 1 .. n /\ o.ops[j].type = "set" /\ \E i \in 1 .. j - 1 : o.ops[i].type = "erase"
           Misread == \E i \in 1 .. n : o.ops[i].type = "set" /\ resp[SetIndex(o, i)].kind # "range"
<1>1. DOMAIN o.ops = 1 .. n /\ n \in Nat
    BY DEF CommitOp
<1>2. CommitSuccess(o, resp) = Crash <=> Misread
    <2>1. \A vs : TxnResult(vs) # Crash
        BY DEF TxnResult, Crash
    <2>2. CASE Misread
        BY <1>1, <2>2 DEF CommitSuccess
    <2>3. CASE ~Misread
        <3>1. \E vs : CommitSuccess(o, resp) = TxnResult(vs)
            BY <1>1, <2>3 DEF CommitSuccess
        <3> QED BY <2>1, <2>3, <3>1
    <2> QED BY <2>2, <2>3
<1>3. (\E i, j \in DOMAIN o.ops : i < j /\ o.ops[i].type = "erase" /\ o.ops[j].type = "set") <=> \E j : Late(j)
    <2>1. ASSUME NEW i \in 1 .. n, NEW j \in 1 .. n PROVE i < j <=> i \in 1 .. j - 1
        BY <1>1
    <2>2. ASSUME NEW j \in 1 .. n, NEW i \in 1 .. j - 1 PROVE i \in 1 .. n
        BY <1>1
    <2> QED BY <1>1, <2>1, <2>2
<1>4. ASSUME Misread PROVE \E j : Late(j)
    <2>1. PICK i \in 1 .. n : o.ops[i].type = "set" /\ resp[SetIndex(o, i)].kind # "range"
        BY <1>4
    <2>2. CASE \A j \in 1 .. i - 1 : o.ops[j].type # "erase"
        BY <2>1, <2>2, ReadsRight
    <2>3. CASE \E j \in 1 .. i - 1 : o.ops[j].type = "erase"
        BY <2>1, <2>3
    <2> QED BY <2>2, <2>3
<1>5. ASSUME \E j : Late(j) PROVE Misread
    <2> DEFINE S == {j \in 1 .. n : Late(j)}
    <2>1. S \in SUBSET Nat /\ S # {}
        BY <1>5
    <2>2. PICK i \in S : \A k \in S : i <= k
        <3> HIDE DEF S
        <3> QED BY <2>1, First
    <2>3. /\ i \in 1 .. n /\ o.ops[i].type = "set"
          /\ \E j \in 1 .. i - 1 : o.ops[j].type = "erase"
        BY <2>2
    <2>4. ASSUME NEW k \in 1 .. i - 1, o.ops[k].type = "set", NEW j \in 1 .. k - 1
          PROVE  o.ops[j].type # "erase"
        <3>1. k \in 1 .. n /\ ~(i <= k)
            BY <1>1, <2>3
        <3> QED BY <2>2, <2>4, <3>1
    <2>5. SetIndex(o, i) \in 1 .. Place(o, n) /\ Requests(o, c)[SetIndex(o, i)].kind # "range"
        BY <2>3, <2>4, ReadsWrong
    <2> QED BY <2>3, <2>5
<1> QED BY <1>2, <1>3, <1>4, <1>5

-----------------------------------------------------------------------------
(* Theorems. *)

(***************************************************************************)
(* wait() of a handle of the etcd client returns only after a change of    *)
(* what the call that made it observed, whichever of get, exists and       *)
(* get_children that was (the lambdas given to make_watch_handle_).        *)
(***************************************************************************)
THEOREM NoFalseAlarm == Spec => []WatchSound
<1>1. Inv => WatchSound
    BY DEF Inv, HandleInv, HandleOK, WatchSound
<1> QED BY <1>1, Invariance, PTL

(***************************************************************************)
(* A watch that has been given all revisions from the one after its lookup *)
(* and still waits has missed no change, although it was created later     *)
(* than the lookup.                                                        *)
(***************************************************************************)
THEOREM NoMissedChange == Spec => []WatchComplete
<1>1. Inv => WatchComplete
    <2> SUFFICES ASSUME Inv, NEW c \in Clients, handle[c] # Nil, handle[c].state = "waiting",
                        handle[c].next > Len(log)
                 PROVE  ~handle[c].changed
        BY DEF WatchComplete
    <2>1. HandleOK(handle[c]) /\ Len(log) \in Nat
        BY DEF Inv, CallInv, HandleInv
    <2>2. \A r : r \notin handle[c].next .. Len(log)
        BY <2>1 DEF HandleOK, Handle
    <2> QED BY <2>1, <2>2 DEF HandleOK
<1> QED BY <1>1, Invariance, PTL

(***************************************************************************)
(* In every state the next round of a set, or the one after it, ends the   *)
(* call if nobody interferes: no state of the store makes both kinds of    *)
(* round repeat (the loop of ETCDClient::set).                             *)
(***************************************************************************)
THEOREM SetNeedsTwoRounds == Spec => []SetSettles
<1>1. Inv => SetSettles
    <2> SUFFICES ASSUME Inv, NEW c \in Clients, Calls(c, "set")
                 PROVE  \E lsd \in BOOLEAN :
                            LET t == SetTxn(op[c], lsd)
                            IN  ~SetRepeats(StatusOf(kv, live, t), Succeeds(kv, t), Responses(kv, t))
        BY DEF SetSettles, OtherRound, Inv, CallInv, CallsOK
    <2> DEFINE o == op[c]
    <2>1. o \in SetOp
        BY OpTypes DEF Calls, Inv, CallInv, CallsOK
    <2>2. CASE Parent(o.key) # Root /\ kv[AsPath(Parent(o.key))] = Nil
        BY <2>1, <2>2, SetFindsNoParent
    <2>3. CASE Parent(o.key) # Root => kv[AsPath(Parent(o.key))] # Nil
        <3>1. CASE kv[AsPath(o.key)] = Nil \/ kv[AsPath(o.key)].lease = Nil
            BY <2>1, <2>3, <3>1, SetSucceeds
        <3>2. CASE ~(kv[AsPath(o.key)] = Nil \/ kv[AsPath(o.key)].lease = Nil)
            BY <2>1, <2>3, <3>2, SetSucceeds
        <3> QED BY <3>1, <3>2
    <2> QED BY <2>2, <2>3
<1> QED BY <1>1, Invariance, PTL

\* The responses that etcd sends to a transaction it carries out are of the kinds of the requests.
LEMMA CarriedOutFacts ==
    ASSUME Inv, NEW c \in Clients, CarriedOut(c)
    PROVE  /\ op[c] \in CommitOp
           /\ Chosen(kv, TxnOf(c)) = Requests(op[c], c)
           /\ CommitCrashes(c) <=> SetAfterErase(op[c])
<1> USE DEF CarriedOut
<1> DEFINE o == op[c]
<1>1. o \in CommitOp /\ o.type = "commit"
    BY OpTypes DEF Calls, Inv, CallInv, CallsOK
<1>2. Chosen(kv, TxnOf(c)) = Requests(o, c)
    <2>1. TxnOf(c) = CommitTxn(o, c)
        BY <1>1 DEF TxnOf
    <2>2. CommitTxn(o, c).success = Requests(o, c)
        BY DEF CommitTxn, TxnRequest, Requests
    <2> QED BY <2>1, <2>2 DEF Ok, Chosen
<1>3. Requests(o, c) \in Seq(Put \cup Other) /\ Len(Requests(o, c)) = Place(o, Len(o.ops))
    BY <1>1, RequestsLaid
<1>4. \A x \in 1 .. Place(o, Len(o.ops)) : Resp(c)[x].kind = Requests(o, c)[x].kind
    <2>1. DOMAIN Requests(o, c) = 1 .. Place(o, Len(o.ops))
        BY <1>3
    <2>2. Resp(c) = [x \in DOMAIN Requests(o, c) |-> Response(kv, Requests(o, c), x)]
        BY <1>2 DEF Resp, Responses
    <2>3. \A x : Response(kv, Requests(o, c), x).kind = Requests(o, c)[x].kind
        BY DEF Response
    <2> QED BY <2>1, <2>2, <2>3
<1>5. CommitCrashes(c) <=> CommitSuccess(o, Resp(c)) = Crash
    BY DEF CommitCrashes, CommitAnswer
<1> HIDE DEF o
<1>6. CommitSuccess(o, Resp(c)) = Crash <=> SetAfterErase(o)
    BY <1>1, <1>4, CommitCrashesWhen DEF SetAfterErase
<1> QED BY <1>1, <1>2, <1>5, <1>6 DEF o

(***************************************************************************)
(* The versions of the sets of a transaction are read from the responses   *)
(* to the lookups of their own keys, for transactions of every length, and *)
(* only one with a set after an erase ends the process (set_indices and    *)
(* total_op_number of ETCDClient::commit).                                 *)
(***************************************************************************)
THEOREM SetsAreReadRightly == Spec => []CommitReadsRightly
<1>1. Inv => CommitReadsRightly
    <2> SUFFICES ASSUME Inv, NEW c \in Clients, CarriedOut(c), NEW i \in DOMAIN op[c].ops,
                        op[c].ops[i].type = "set", \A j \in 1 .. i - 1 : op[c].ops[j].type # "erase"
                 PROVE  Chosen(kv, TxnOf(c))[SetIndex(op[c], i)] = RangeRequest({AsPath(op[c].ops[i].key)})
        BY CarriedOutFacts DEF CommitReadsRightly
    <2> DEFINE o == op[c]
    <2>1. o \in CommitOp /\ Chosen(kv, TxnOf(c)) = Requests(o, c)
        BY CarriedOutFacts
    <2>2. i \in 1 .. Len(o.ops) /\ o.ops[i] \in TxnOp
        BY <2>1 DEF CommitOp
    <2>3. Requests(o, c)[SetIndex(o, i)] = OpRequests(o.ops[i], c)[2]
        BY <2>1, <2>2, ReadsRight
    <2>4. OpRequests(o.ops[i], c)[2] = RangeRequest({AsPath(o.ops[i].key)})
        BY DEF OpRequests
    <2> QED BY <2>1, <2>3, <2>4
<1> QED BY <1>1, Invariance, PTL

\* A commit that etcd carries out ends the process exactly when a set comes after an erase.
CrashesExactly == \A c \in Clients : CarriedOut(c) => (CommitCrashes(c) <=> SetAfterErase(op[c]))

(***************************************************************************)
(* The extent of what CommitReturns shows: of the transactions that etcd   *)
(* carries out, those with a set after an erase, all of them and no other, *)
(* end the process, because total_op_number counts one request for an      *)
(* erase, which adds two.                                                  *)
(***************************************************************************)
THEOREM CrashesAfterErase == Spec => []CrashesExactly
<1>1. Inv => CrashesExactly
    BY CarriedOutFacts DEF CrashesExactly
<1> QED BY <1>1, Invariance, PTL

=============================================================================
