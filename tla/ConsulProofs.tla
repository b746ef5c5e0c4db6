---------------------------- MODULE ConsulProofs ----------------------------
(***************************************************************************)
(* For any number of clients, any keys, calls and bounds: a blocking query *)
(* of the Consul client is answered once what its handle observed has ever *)
(* changed.                                                                *)
(*                                                                         *)
(* The argument: no index that a handle keeps is newer than the store, the *)
(* index of a query never falls, and the first change of an observation    *)
(* stamps a watched key, or the tombstone of one, with a new index.        *)
(***************************************************************************)
EXTENDS ConsulClient, WellFoundedInduction, FiniteSetTheorems, TLAPS

Stores == [Paths -> Entry \cup {Nil}]

Handle ==
    [type : {"get", "exists", "get_children"}, key : Keys,
     seen : Entry \cup {Nil} \cup BOOLEAN \cup SUBSET Paths, old : Nat, changed : BOOLEAN]

\* Nothing in store s with tombstones t is newer than index n.
Bounded(s, t, n) ==
    \A p \in Paths : (s[p] # Nil => s[p].ver <= n) /\ t[p] <= n

\* What is true of a handle h until it is destroyed.
HandleOK(h) ==
    /\ h.old <= index
    /\ ~h.changed => Observation(kv, h.type, h.key) = h.seen
    /\ h.changed => Answered(h)

StoreInv ==
    /\ kv \in Stores /\ index \in Nat /\ tomb \in [Paths -> Nat]
    /\ Bounded(kv, tomb, index)

CallInv ==
    /\ pc = [c \in Clients |-> pc[c]]
    /\ op \in [Clients -> Op \cup {Nil}]
    /\ \A c \in Clients : pc[c] \in {"session", "txn"} => op[c] \in Op

HandleInv ==
    /\ handle \in [Clients -> Handle \cup {Nil}]
    /\ \A c \in Clients : handle[c] # Nil => HandleOK(handle[c])

Inv == StoreInv /\ CallInv /\ HandleInv

-----------------------------------------------------------------------------
(* Induction over the naturals, for a set rather than a predicate. *)

LEMMA NatSetInduction ==
    ASSUME NEW S, 0 \in S, \A n \in Nat : n \in S => n + 1 \in S
    PROVE  \A n \in Nat : n \in S
<1> DEFINE T == Nat \ S
<1>1. SUFFICES ASSUME T # {} PROVE FALSE
    OBVIOUS
<1>2. \E x \in T : \A y \in T : ~(<<y, x>> \in OpToRel(<, Nat))
    <2>1. T \subseteq Nat
        OBVIOUS
    <2> HIDE DEF T
    <2> QED BY <1>1, <2>1, WFMin, NatLessThanWellFounded
<1>3. PICK x \in T : \A y \in T : ~(y < x)
    BY <1>2 DEF OpToRel
<1>4. x # 0 /\ x - 1 \in Nat /\ x - 1 < x
    BY <1>3
<1>5. x - 1 \in S
    BY <1>3, <1>4
<1> QED BY <1>3, <1>4, <1>5

\* The concatenation of sequences over T is a sequence over T.
LEMMA FlattenType ==
    ASSUME NEW T, NEW seqs \in Seq(Seq(T))
    PROVE  FlattenSeq(seqs) \in Seq(T)
<1> DEFINE n == Len(seqs)
           Step(g, i) == IF i = 1 THEN seqs[i] ELSE g[i - 1] \o seqs[i]
           Good(m, g) == g \in [1 .. m -> Seq(T)] /\ \A i \in 1 .. m : g[i] = Step(g, i)
           S == {m \in Nat : m <= n => \E g : Good(m, g)}
<1>1. CASE n = 0
    BY <1>1 DEF FlattenSeq
<1>2. CASE n # 0
    <2>1. 0 \in S
        <3>1. Good(0, [i \in 1 .. 0 |-> <<>>])
            OBVIOUS
        <3> QED BY <3>1
    <2>2. ASSUME NEW m \in Nat, m \in S PROVE m + 1 \in S
        <3>1. SUFFICES ASSUME m + 1 <= n PROVE \E g : Good(m + 1, g)
            <4> HIDE DEF Good
            <4> QED OBVIOUS
        <3>2. PICK g : Good(m, g)
            <4> HIDE DEF Good
            <4> QED BY <2>2, <3>1
        <3> DEFINE h == [i \in 1 .. m + 1 |-> IF i <= m THEN g[i] ELSE Step(g, i)]
        <3>3. seqs[m + 1] \in Seq(T)
            BY <3>1
        <3>4. ASSUME NEW i \in 1 .. m + 1 PROVE h[i] \in Seq(T) /\ h[i] = Step(h, i)
            <4>1. CASE i <= m
                <5>1. i \in 1 .. m /\ h[i] = g[i]
                    BY <4>1
                <5>2. i # 1 => i - 1 \in 1 .. m + 1 /\ i - 1 <= m
                    BY <4>1
                <5>3. i # 1 => h[i - 1] = g[i - 1]
                    BY <5>2
                <5> HIDE DEF h
                <5> QED BY <3>2, <5>1, <5>3
            <4>2. CASE i = m + 1
                <5>1. CASE m = 0
                    BY <3>3, <4>2, <5>1
                <5>2. CASE m # 0
                    <6>1. h[i] = g[m] \o seqs[m + 1]
                        <7>1. ~(i <= m) /\ i # 1 /\ i - 1 = m
                            BY <4>2, <5>2
                        <7>2. Step(g, i) = g[m] \o seqs[m + 1]
                            BY <4>2, <7>1
                        <7> HIDE DEF Step
                        <7> QED BY <7>1, <7>2
                    <6>2. h[m] = g[m] /\ g[m] \in Seq(T)
                        BY <3>2, <5>2
                    <6> QED BY <3>3, <4>2, <5>2, <6>1, <6>2
                <5> QED BY <5>1, <5>2
            <4> QED BY <4>1, <4>2
        <3>5. Good(m + 1, h)
            BY <3>4
        <3> QED BY <3>5
    <2>3. PICK g : Good(n, g)
        <3> HIDE DEF Good
        <3>1. \A m \in Nat : m \in S
            <4> HIDE DEF S
            <4> QED BY <2>1, <2>2, NatSetInduction
        <3> QED BY <3>1
    <2> DEFINE f == CHOOSE h : h = [i \in 1 .. n |-> Step(h, i)]
    <2>4. g = [i \in 1 .. n |-> Step(g, i)]
        BY <2>3
    <2>5. f = [i \in 1 .. n |-> Step(f, i)]
        BY <2>4
    <2>6. FlattenSeq(seqs) = f[n]
        BY <1>2 DEF FlattenSeq
    <2> HIDE DEF f
    <2> DEFINE V == {m \in Nat : m + 1 <= n => f[m + 1] \in Seq(T)}
    <2>7. 0 \in V
        BY <1>2, <2>5
    <2>8. ASSUME NEW m \in Nat, m \in V PROVE m + 1 \in V
        <3>1. SUFFICES ASSUME m + 2 <= n PROVE f[m + 2] \in Seq(T)
            OBVIOUS
        <3>2. f[m + 2] = f[m + 1] \o seqs[m + 2]
            <4>1. m + 2 \in 1 .. n /\ m + 2 # 1 /\ (m + 2) - 1 = m + 1
                BY <3>1
            <4> QED BY <2>5, <4>1
        <3> QED BY <2>8, <3>1, <3>2
    <2>9. n - 1 \in V
        <3> HIDE DEF V
        <3>1. \A m \in Nat : m \in V
            BY <2>7, <2>8, NatSetInduction
        <3> QED BY <1>2, <3>1
    <2> QED BY <1>2, <2>6, <2>9
<1> QED BY <1>1, <1>2

-----------------------------------------------------------------------------
(* The greatest of a set of numbers, and the run of a transaction. *)

LEMMA MaxIs ==
    ASSUME NEW n \in Nat, NEW S \in SUBSET (0 .. n), S # {}
    PROVE  Max(S) \in S /\ \A y \in S : Max(S) >= y
<1> DEFINE V == {m \in Nat : \A T \in SUBSET (0 .. m) : T # {} => \E x \in T : \A y \in T : x >= y}
<1>1. 0 \in V
    <2> SUFFICES ASSUME NEW T \in SUBSET (0 .. 0), T # {} PROVE \E x \in T : \A y \in T : x >= y
        OBVIOUS
    <2>1. PICK x \in T : TRUE
        OBVIOUS
    <2>2. \A y \in T : x >= y
        OBVIOUS
    <2> QED BY <2>2
<1>2. ASSUME NEW m \in Nat, m \in V PROVE m + 1 \in V
    <2> SUFFICES ASSUME NEW T \in SUBSET (0 .. m + 1), T # {} PROVE \E x \in T : \A y \in T : x >= y
        OBVIOUS
    <2>1. CASE m + 1 \in T
        BY <2>1
    <2>2. CASE m + 1 \notin T
        <3>1. T \in SUBSET (0 .. m)
            BY <2>2
        <3> QED BY <1>2, <3>1
    <2> QED BY <2>1, <2>2
<1>3. n \in V
    <2> HIDE DEF V
    <2> QED BY <1>1, <1>2, NatSetInduction
<1>4. \E x \in S : \A y \in S : x >= y
    BY <1>3
<1> QED BY <1>4 DEF Max

\* The keys that operation o deletes when it makes t of s.
Lost(s, t, o) == {p \in o.range : s[p] # Nil /\ t[p] = Nil}

\* What Run makes of one operation.
CarryOne(acc, o, alive, now) ==
    LET t == Written(acc.store, o, now) IN
    IF Possible(acc.store, alive, o)
    THEN [acc EXCEPT !.store = t, !.results = @ \o Results(t, o), !.pos = @ + 1,
                  !.gone = @ \cup Lost(acc.store, t, o)]
    ELSE [acc EXCEPT !.failed = @ \cup {acc.pos}, !.pos = @ + 1]

Start(s) == [store |-> s, results |-> <<>>, failed |-> {}, gone |-> {}, pos |-> 0]

\* f[S] is what the operations at the positions in S make of store s.
Folds(f, s, alive, txn, n, now) ==
    \A S \in SUBSET (1 .. n) :
        f[S] = IF S = {} THEN Start(s) ELSE CarryOne(f[S \ {Max(S)}], txn[Max(S)], alive, now)

\* There is such a function, and Run is its value.
LEMMA RunDef ==
    ASSUME NEW s, NEW alive, NEW txn, NEW n \in Nat, DOMAIN txn = 1 .. n, NEW now
    PROVE  \E f : Run(s, alive, txn, now) = f[1 .. n] /\ Folds(f, s, alive, txn, n, now)
<1> DEFINE T == 1 .. n
           Step(f, S) == IF S = {} THEN Start(s) ELSE CarryOne(f[S \ {Max(S)}], txn[Max(S)], alive, now)
           Small(m) == {S \in SUBSET T : Cardinality(S) <= m}
           Is(f, m) == f = [S \in Small(m) |-> Step(f, S)]
           V == {m \in Nat : \E f : Is(f, m)}
           F == CHOOSE f : f = [S \in SUBSET T |-> Step(f, S)]
<1>1. Run(s, alive, txn, now) = F[T]
    BY DEF Run, FoldLeft, MapThenFoldSet, CarryOne, Lost, Start
<1>2. IsFiniteSet(T)
    BY FS_Interval
<1>3. \A S \in SUBSET T : IsFiniteSet(S) /\ Cardinality(S) \in Nat /\ Cardinality(S) <= Cardinality(T)
    BY <1>2, FS_Subset, FS_CardinalityType
<1>4. ASSUME NEW S \in SUBSET T, S # {}
      PROVE  Max(S) \in S /\ S \ {Max(S)} \in SUBSET T /\ Cardinality(S \ {Max(S)}) = Cardinality(S) - 1
    <2>1. S \in SUBSET (0 .. n)
        OBVIOUS
    <2>2. Max(S) \in S
        BY <1>4, <2>1, MaxIs
    <2> QED BY <1>3, <2>2, FS_RemoveElement
<1>5. \A m \in Nat : m \in V
    <2>1. 0 \in V
        <3> DEFINE f == [S \in Small(0) |-> Start(s)]
        <3>1. \A S \in Small(0) : S = {}
            BY <1>3, FS_EmptySet
        <3>2. Is(f, 0)
            BY <3>1
        <3> QED BY <3>2
    <2>2. ASSUME NEW m \in Nat, m \in V PROVE m + 1 \in V
        <3>1. PICK f : f = [S \in Small(m) |-> Step(f, S)]
            BY <2>2
        <3> DEFINE g == [S \in Small(m + 1) |-> Step(f, S)]
        <3>2. \A S \in Small(m) : S \in Small(m + 1) /\ g[S] = f[S]
            <4>1. \A S \in Small(m) : S \in Small(m + 1)
                BY <1>3
            <4> HIDE DEF Step, Small
            <4>2. \A S \in Small(m) : f[S] = Step(f, S)
                BY <3>1
            <4> QED BY <4>1, <4>2
        <3>3. \A S \in Small(m + 1) : S # {} => S \ {Max(S)} \in Small(m)
            BY <1>3, <1>4
        <3>4. \A S \in Small(m + 1) : g[S] = Step(g, S)
            BY <3>2, <3>3
        <3>5. Is(g, m + 1)
            BY <3>4
        <3> HIDE DEF g, Is
        <3> QED BY <3>5
    <2> HIDE DEF V
    <2> QED BY <2>1, <2>2, NatSetInduction
<1>6. Cardinality(T) \in V
    <2> HIDE DEF V
    <2> QED BY <1>2, <1>5, FS_CardinalityType
<1>7. SUBSET T = Small(Cardinality(T))
    BY <1>3
<1>8. \E f : f = [S \in SUBSET T |-> Step(f, S)]
    BY <1>6, <1>7
<1>9. F = [S \in SUBSET T |-> Step(F, S)]
    BY <1>8
<1> HIDE DEF F
<1>10. \A S \in SUBSET T : F[S] = Step(F, S)
    <2> HIDE DEF Step
    <2> QED BY <1>9
<1> QED BY <1>1, <1>10 DEF Folds

\* Run ends in G[n] if it starts in G[0] and operation i leads from G[i - 1] to G[i].
LEMMA RunRule ==
    ASSUME NEW s, NEW alive, NEW txn, NEW n \in Nat, DOMAIN txn = 1 .. n, NEW now, NEW G,
           Start(s) \in G[0],
           \A i \in 1 .. n : \A acc \in G[i - 1] : CarryOne(acc, txn[i], alive, now) \in G[i]
    PROVE  Run(s, alive, txn, now) \in G[n]
<1>1. PICK f : Run(s, alive, txn, now) = f[1 .. n] /\ Folds(f, s, alive, txn, n, now)
    BY RunDef
<1> DEFINE V == {m \in Nat : m <= n => f[1 .. m] \in G[m]}
<1>2. 0 \in V
    <2>1. 1 .. 0 = {}
        OBVIOUS
    <2> QED BY <1>1, <2>1 DEF Folds
<1>3. ASSUME NEW m \in Nat, m \in V PROVE m + 1 \in V
    <2> SUFFICES ASSUME m + 1 <= n PROVE f[1 .. m + 1] \in G[m + 1]
        OBVIOUS
    <2>1. f[1 .. m] \in G[m]
        BY <1>3
    <2> DEFINE I == 1 .. m + 1
    <2>2. Max(I) = m + 1
        <3>1. I \in SUBSET (0 .. m + 1) /\ m + 1 \in I /\ m + 1 \in Nat
            OBVIOUS
        <3>2. Max(I) \in I /\ \A y \in I : Max(I) >= y
            <4> HIDE DEF I
            <4> QED BY <3>1, MaxIs
        <3> QED BY <3>2
    <2>3. I \ {m + 1} = 1 .. m
        <3>1. \A x : x \in I /\ x # m + 1 <=> x \in 1 .. m
            OBVIOUS
        <3> QED BY <3>1
    <2>4. f[I] = CarryOne(f[1 .. m], txn[m + 1], alive, now)
        <3>1. m + 1 \in I /\ I \in SUBSET (1 .. n)
            OBVIOUS
        <3> HIDE DEF I
        <3> QED BY <1>1, <2>2, <2>3, <3>1 DEF Folds
    <2>5. m + 1 \in 1 .. n /\ (m + 1) - 1 = m
        OBVIOUS
    <2> QED BY <2>1, <2>4, <2>5
<1>4. n \in V
    <2> HIDE DEF V
    <2> QED BY <1>2, <1>3, NatSetInduction
<1> QED BY <1>1, <1>4

-----------------------------------------------------------------------------
(* What a transaction does to the store. *)

\* The operations the client puts into transactions.
Operation ==
    {o \in [kind : Writes \cup Deletes \cup {"get", "get-tree", "check-not-exists", "check-index"},
            range : SUBSET Paths, val : Values \cup {Nil}, index : Nat, session : Clients \cup {Nil}] :
        (o.kind \in Writes => o.val \in Values) /\ (o.kind = "lock" => o.session \in Clients)}

\* Store t comes from s by changes that have index now; those in gone were deleted.
Changed(s, t, gone, now) ==
    /\ t \in Stores /\ gone \in SUBSET Paths
    /\ \A p \in Paths :
         /\ t[p] = s[p] \/ t[p] = Nil \/ t[p].ver = now
         /\ s[p] # Nil /\ t[p] = Nil => p \in gone

LEMMA WrittenType ==
    ASSUME NEW s \in Stores, NEW o \in Operation, NEW now \in Nat \ {0}
    PROVE  /\ Written(s, o, now) \in Stores
           /\ \A p \in Paths : \/ Written(s, o, now)[p] = s[p]
                               \/ p \in o.range /\ Written(s, o, now)[p] = Nil
                               \/ Written(s, o, now)[p] # Nil /\ Written(s, o, now)[p].ver = now
<1> DEFINE t == Written(s, o, now)
<1>1. DOMAIN s = Paths /\ t = [p \in Paths |-> t[p]]
    BY DEF Stores, Written
<1>2. ASSUME NEW p \in Paths
      PROVE  /\ t[p] \in Entry \cup {Nil}
             /\ \/ t[p] = s[p]
                \/ p \in o.range /\ t[p] = Nil
                \/ t[p] # Nil /\ t[p].ver = now
    <2>1. s[p] \in Entry \cup {Nil}
        BY DEF Stores
    <2> DEFINE l == IF s[p] = Nil THEN Nil ELSE s[p].lease
               locked == [val |-> o.val, ver |-> now, lease |-> o.session]
               written == [val |-> o.val, ver |-> now, lease |-> l]
    <2>0. t[p] = IF p \notin o.range THEN s[p]
                 ELSE CASE o.kind = "lock"   -> locked
                        [] o.kind \in Writes \ {"lock"} -> written
                        [] o.kind \in Deletes -> Nil
                        [] OTHER              -> s[p]
        BY <1>1 DEF Written
    <2> HIDE DEF l, t, locked, written
    <2>2. CASE p \notin o.range
        BY <2>0, <2>1, <2>2
    <2>3. CASE p \in o.range /\ o.kind = "lock"
        <3>1. t[p] = locked
            BY <2>0, <2>3 DEF Writes, Deletes
        <3>2. t[p] \in Entry
            BY <2>3, <3>1 DEF Entry, Operation, Writes, locked
        <3> QED BY <3>1, <3>2, EntriesAssumption DEF locked
    <2>4. CASE p \in o.range /\ o.kind \in Writes \ {"lock"}
        <3>1. t[p] = written
            BY <2>0, <2>4 DEF Writes, Deletes
        <3>2. l \in Clients \cup {Nil}
            BY <2>1 DEF Entry, l
        <3>3. t[p] \in Entry
            BY <2>4, <3>1, <3>2 DEF Entry, Operation, Writes, written
        <3> QED BY <3>1, <3>3, EntriesAssumption DEF written
    <2>5. CASE p \in o.range /\ o.kind \in Deletes
        <3>1. t[p] = Nil
            BY <2>0, <2>5 DEF Deletes, Writes
        <3> QED BY <2>5, <3>1
    <2>6. CASE p \in o.range /\ o.kind \notin Writes \cup Deletes
        <3>1. t[p] = s[p]
            BY <2>0, <2>6 DEF Deletes, Writes
        <3> QED BY <2>1, <3>1
    <2> QED BY <2>2, <2>3, <2>4, <2>5, <2>6 DEF Writes
<1> HIDE DEF t
<1>3. t \in Stores
    BY <1>1, <1>2 DEF Stores
<1> QED BY <1>2, <1>3 DEF t

LEMMA PathsFinite == IsFiniteSet(Paths)
<1> DEFINE f == [k \in Keys |-> AsPath(k)]
<1>1. f \in Surjection(Keys, Paths)
    BY DEF Surjection, Paths
<1> HIDE DEF f
<1> QED BY <1>1, KeysAssumption, FS_Surjection

LEMMA SetToSeqType ==
    ASSUME NEW S, IsFiniteSet(S)
    PROVE  SetToSeq(S) \in [1 .. Cardinality(S) -> S] /\ Cardinality(S) \in Nat
<1>1. ExistsBijection(1 .. Cardinality(S), S) /\ Cardinality(S) \in Nat
    BY FS_CardinalityType
<1>2. \E f \in [1 .. Cardinality(S) -> S] : IsInjective(f)
    BY <1>1 DEF ExistsBijection, Bijection, Injection
<1> QED BY <1>1, <1>2 DEF SetToSeq

Result == [path : Paths, entry : Entry]

\* The results are entries of the store; a single key that has an entry contributes it.
LEMMA ResultsType ==
    ASSUME NEW s \in Stores, NEW o \in Operation
    PROVE  /\ Results(s, o) \in Seq(Result)
           /\ \A i \in 1 .. Len(Results(s, o)) : \E p \in Paths : Results(s, o)[i].entry = s[p] /\ s[p] # Nil
           /\ \A p \in Paths : o.kind = "get" /\ o.range = {p} /\ s[p] # Nil => Len(Results(s, o)) = 1
<1> DEFINE S == {p \in o.range : s[p] # Nil}
           found == SetToSeq(S)
           m == Cardinality(S)
           r == [i \in 1 .. m |-> [path |-> found[i], entry |-> s[found[i]]]]
<1>1. S \in SUBSET Paths /\ IsFiniteSet(S)
    <2>1. S \in SUBSET Paths
        BY DEF Operation
    <2> HIDE DEF S
    <2> QED BY <2>1, PathsFinite, FS_Subset
<1>2. found \in [1 .. m -> S] /\ m \in Nat
    <2> HIDE DEF S
    <2> QED BY <1>1, SetToSeqType
<1>3. CASE o.kind \in Deletes \cup {"check-not-exists"}
    <2>1. Results(s, o) = <<>> /\ o.kind # "get"
        BY <1>3 DEF Results, Deletes
    <2> QED BY <2>1
<1>4. CASE o.kind \notin Deletes \cup {"check-not-exists"}
    <2>1. Results(s, o) = r
        BY <1>2, <1>4 DEF Results
    <2>2. ASSUME NEW i \in 1 .. m PROVE r[i] \in Result /\ \E p \in Paths : r[i].entry = s[p] /\ s[p] # Nil
        <3>1. found[i] \in Paths /\ s[found[i]] # Nil
            <4>1. found[i] \in S
                <5> HIDE DEF S, found, m
                <5> QED BY <1>2, <2>2
            <4> HIDE DEF found, m
            <4> QED BY <1>1, <4>1
        <3>2. s[found[i]] \in Entry
            BY <3>1 DEF Stores
        <3> HIDE DEF found
        <3> QED BY <3>1, <3>2 DEF Result
    <2>3. r \in Seq(Result) /\ Len(r) = m
        <3> DEFINE x(i) == [path |-> found[i], entry |-> s[found[i]]]
        <3>1. \A i \in 1 .. m : x(i) \in Result
            BY <2>2
        <3> HIDE DEF x, m
        <3> QED BY <1>2, <3>1 DEF x
    <2>4. ASSUME NEW p \in Paths, o.range = {p}, s[p] # Nil PROVE m = 1
        <3>1. S = {p}
            BY <2>4
        <3> QED BY <3>1, FS_Singleton
    <2> HIDE DEF r, m
    <2> QED BY <2>1, <2>2, <2>3, <2>4
<1> QED BY <1>3, <1>4

\* What Run keeps while it works.
Acc == [store : Stores, results : Seq(Result), failed : SUBSET Nat, gone : SUBSET Paths, pos : Nat]

LEMMA CarriedOne ==
    ASSUME NEW acc \in Acc, NEW o \in Operation, NEW alive, NEW now \in Nat \ {0},
           Possible(acc.store, alive, o)
    PROVE  CarryOne(acc, o, alive, now) \in Acc
<1> DEFINE t == Written(acc.store, o, now)
           lost == Lost(acc.store, t, o)
           all == acc.results \o Results(t, o)
           next == CarryOne(acc, o, alive, now)
<1>1. /\ acc.store \in Stores /\ acc.results \in Seq(Result) /\ acc.pos \in Nat
      /\ acc.gone \in SUBSET Paths /\ acc.failed \in SUBSET Nat
    BY DEF Acc
<1>2. t \in Stores
    BY <1>1, WrittenType
<1>3. Results(t, o) \in Seq(Result)
    BY <1>2, ResultsType
<1>4. lost \in SUBSET Paths
    BY DEF Operation, Lost
<1>5. all \in Seq(Result)
    BY <1>1, <1>3
<1>6. next = [acc EXCEPT !.store = t, !.results = all, !.pos = @ + 1, !.gone = @ \cup lost]
    BY DEF CarryOne
<1> HIDE DEF next, t, lost, all
<1>7. next = [store |-> t, results |-> all, failed |-> acc.failed,
              gone |-> acc.gone \cup lost, pos |-> acc.pos + 1]
    BY <1>6 DEF Acc
<1>8. next \in Acc
    BY <1>1, <1>2, <1>4, <1>5, <1>7 DEF Acc
<1> QED BY <1>8 DEF next

LEMMA CarriedStore ==
    ASSUME NEW acc \in Acc, NEW o \in Operation, NEW alive, NEW now \in Nat \ {0},
           Possible(acc.store, alive, o)
    PROVE  CarryOne(acc, o, alive, now).store = Written(acc.store, o, now)
BY DEF CarryOne, Acc

LEMMA CarriedResults ==
    ASSUME NEW acc \in Acc, NEW o \in Operation, NEW alive, NEW now \in Nat \ {0},
           Possible(acc.store, alive, o)
    PROVE  CarryOne(acc, o, alive, now).results = acc.results \o Results(Written(acc.store, o, now), o)
BY DEF CarryOne, Acc

LEMMA CarriedGone ==
    ASSUME NEW acc \in Acc, NEW o \in Operation, NEW alive, NEW now \in Nat \ {0},
           Possible(acc.store, alive, o)
    PROVE  CarryOne(acc, o, alive, now).gone = acc.gone \cup Lost(acc.store, Written(acc.store, o, now), o)
BY DEF CarryOne, Acc

LEMMA RefusedOne ==
    ASSUME NEW acc \in Acc, NEW o \in Operation, NEW alive, NEW now \in Nat \ {0},
           ~Possible(acc.store, alive, o)
    PROVE  /\ CarryOne(acc, o, alive, now) \in Acc
           /\ CarryOne(acc, o, alive, now).store = acc.store
           /\ CarryOne(acc, o, alive, now).results = acc.results
           /\ CarryOne(acc, o, alive, now).gone = acc.gone
           /\ CarryOne(acc, o, alive, now).failed # {}
<1> DEFINE next == CarryOne(acc, o, alive, now)
<1>1. next = [acc EXCEPT !.failed = @ \cup {acc.pos}, !.pos = @ + 1]
    BY DEF CarryOne
<1> HIDE DEF next
<1>2. next = [store |-> acc.store, results |-> acc.results, failed |-> acc.failed \cup {acc.pos},
              gone |-> acc.gone, pos |-> acc.pos + 1]
    BY <1>1 DEF Acc
<1>3. next \in Acc
    BY <1>2 DEF Acc
<1>4. next.failed # {}
    BY <1>2
<1>5. next.store = acc.store /\ next.results = acc.results /\ next.gone = acc.gone
    BY <1>2
<1> QED BY <1>3, <1>4, <1>5 DEF next

LEMMA StartType == ASSUME NEW s \in Stores PROVE Start(s) \in Acc
BY DEF Start, Acc

LEMMA RunChanges ==
    ASSUME NEW s \in Stores, NEW alive, NEW txn \in Seq(Operation), NEW now \in Nat \ {0}
    PROVE  Changed(s, Run(s, alive, txn, now).store, Run(s, alive, txn, now).gone, now)
<1> DEFINE n == Len(txn)
           A == {acc \in Acc : Changed(s, acc.store, acc.gone, now)}
           G == [i \in Nat |-> A]
<1>1. n \in Nat /\ DOMAIN txn = 1 .. n /\ \A i \in 1 .. n : txn[i] \in Operation
    OBVIOUS
<1>2. Start(s) \in A
    <2>1. Start(s).store = s /\ Start(s).gone = {}
        BY DEF Start
    <2> QED BY <2>1, StartType DEF Changed
<1>3. ASSUME NEW acc \in A, NEW o \in Operation PROVE CarryOne(acc, o, alive, now) \in A
    <2> DEFINE t == Written(acc.store, o, now)
               next == CarryOne(acc, o, alive, now)
    <2>1. acc \in Acc /\ Changed(s, acc.store, acc.gone, now) /\ acc.store \in Stores
        BY DEF Acc
    <2>2. next \in Acc
        BY <2>1, CarriedOne, RefusedOne
    <2>3. CASE ~Possible(acc.store, alive, o)
        <3>1. next.store = acc.store /\ next.gone = acc.gone
            BY <2>1, <2>3, RefusedOne
        <3> HIDE DEF next
        <3>2. next \in A
            BY <2>1, <2>2, <3>1
        <3> QED BY <3>2 DEF next
    <2>4. CASE Possible(acc.store, alive, o)
        <3>1. /\ next.store = t
              /\ next.gone = acc.gone \cup Lost(acc.store, t, o)
            BY <2>1, <2>4, CarriedStore, CarriedGone
        <3>2. /\ t \in Stores
              /\ \A p \in Paths : t[p] = acc.store[p] \/ (p \in o.range /\ t[p] = Nil) \/ (t[p] # Nil /\ t[p].ver = now)
            BY <2>1, WrittenType
        <3>3. next.gone \in SUBSET Paths
            BY <2>2 DEF Acc
        <3> HIDE DEF next, t
        <3>4. ASSUME NEW p \in Paths
              PROVE  /\ t[p] = s[p] \/ t[p] = Nil \/ t[p].ver = now
                     /\ s[p] # Nil /\ t[p] = Nil => p \in next.gone
            BY <2>1, <3>1, <3>2 DEF Changed, Lost
        <3>5. Changed(s, next.store, next.gone, now)
            BY <3>1, <3>2, <3>3, <3>4 DEF Changed
        <3> QED BY <2>2, <3>5 DEF next
    <2> QED BY <2>3, <2>4
<1> HIDE DEF A, n
<1>4. /\ Start(s) \in G[0]
      /\ \A i \in 1 .. n : \A acc \in G[i - 1] : CarryOne(acc, txn[i], alive, now) \in G[i]
    BY <1>1, <1>2, <1>3
<1>5. Run(s, alive, txn, now) \in G[n]
    <2> HIDE DEF G
    <2> QED BY <1>1, <1>4, RunRule
<1> QED BY <1>1, <1>5 DEF A

\* A get_children that finds its key finds entries only, and at least one.
LEMMA ChildrenFound ==
    ASSUME NEW s \in Stores, NEW alive, NEW k \in Keys, NEW now \in Nat \ {0},
           NEW r, r = Run(s, alive, ChildrenOps(k), now), ~Aborted(r)
    PROVE  /\ \E x : x \in Range(r.results)
           /\ \A x \in Range(r.results) : \E p \in Paths : s[p] # Nil /\ x.entry = s[p]
<1> DEFINE Of(q) == \A i \in 1 .. Len(q) : \E p \in Paths : q[i].entry = s[p] /\ s[p] # Nil
           A == {acc \in Acc : acc.store = s /\ Of(acc.results)}
           B == {acc \in A : acc.failed # {} \/ Len(acc.results) > 0}
           G == [i \in 0 .. 2 |-> IF i = 2 THEN B ELSE A]
           txn == ChildrenOps(k)
<1>1. AsPath(k) \in Paths /\ Below(k) \in SUBSET Paths
    BY DEF Paths, Below
<1>2. txn = <<GetAll(Below(k)), Get(AsPath(k))>>
    BY DEF ChildrenOps
<1>3. /\ GetAll(Below(k)) \in Operation /\ Get(AsPath(k)) \in Operation
      /\ Get(AsPath(k)).kind = "get" /\ Get(AsPath(k)).range = {AsPath(k)}
      /\ GetAll(Below(k)).kind = "get-tree"
    BY <1>1 DEF GetAll, Get, TxnOperation, Operation, Writes, Deletes
<1>4. Start(s) \in A
    BY StartType DEF Start
<1>5. ASSUME NEW acc \in A, NEW o \in Operation, o.kind \in {"get", "get-tree"}
      PROVE  /\ CarryOne(acc, o, alive, now) \in A
             /\ o.kind = "get" /\ o.range = {AsPath(k)} => CarryOne(acc, o, alive, now) \in B
    <2> DEFINE next == CarryOne(acc, o, alive, now)
    <2>1. acc \in Acc /\ acc.store = s /\ Of(acc.results) /\ acc.results \in Seq(Result)
        BY DEF Acc
    <2>2. next \in Acc
        BY <2>1, CarriedOne, RefusedOne
    <2>3. Written(s, o, now) = s
        <3>1. \A p \in Paths : Written(s, o, now)[p] = s[p]
            BY <1>5 DEF Written, Writes, Deletes, Stores
        <3>2. Written(s, o, now) \in Stores
            BY WrittenType
        <3> QED BY <3>1, <3>2 DEF Stores
    <2>4. CASE ~Possible(s, alive, o)
        <3>1. next.store = s /\ next.results = acc.results /\ next.failed # {}
            BY <2>1, <2>4, RefusedOne
        <3> HIDE DEF next
        <3>2. next \in A /\ next \in B
            BY <2>1, <2>2, <3>1
        <3> QED BY <3>2 DEF next
    <2>5. CASE Possible(s, alive, o)
        <3> DEFINE q == Results(s, o)
        <3>1. next.store = s /\ next.results = acc.results \o q
            <4>1. Possible(acc.store, alive, o) /\ Written(acc.store, o, now) = s
                BY <2>1, <2>3, <2>5
            <4>2. /\ next.store = Written(acc.store, o, now)
                  /\ next.results = acc.results \o Results(Written(acc.store, o, now), o)
                BY <2>1, <4>1, CarriedStore, CarriedResults
            <4> HIDE DEF next
            <4> QED BY <4>1, <4>2
        <3>2. q \in Seq(Result) /\ Of(q)
            BY ResultsType
        <3>3. o.kind = "get" /\ o.range = {AsPath(k)} => Len(q) = 1
            <4>1. o.kind = "get" /\ o.range = {AsPath(k)} => s[AsPath(k)] # Nil
                BY <2>5 DEF Possible
            <4> QED BY <1>1, <4>1, ResultsType
        <3> HIDE DEF q, next
        <3>4. Of(next.results)
            <4> SUFFICES ASSUME NEW i \in 1 .. Len(next.results)
                         PROVE  \E p \in Paths : next.results[i].entry = s[p] /\ s[p] # Nil
                OBVIOUS
            <4>1. CASE i <= Len(acc.results)
                <5>1. i \in 1 .. Len(acc.results) /\ next.results[i] = acc.results[i]
                    BY <2>1, <3>1, <3>2, <4>1
                <5> QED BY <2>1, <5>1
            <4>2. CASE i > Len(acc.results)
                <5>1. /\ i - Len(acc.results) \in 1 .. Len(q)
                      /\ next.results[i] = q[i - Len(acc.results)]
                    BY <2>1, <3>1, <3>2, <4>2
                <5> QED BY <3>2, <5>1
            <4> QED BY <2>1, <4>1, <4>2
        <3>5. Len(q) = 1 => Len(next.results) > 0
            <4>1. Len(next.results) = Len(acc.results) + Len(q) /\ Len(acc.results) \in Nat
                BY <2>1, <3>1, <3>2
            <4> QED BY <4>1
        <3> HIDE DEF Of
        <3>6. next \in A /\ (Len(q) = 1 => next \in B)
            BY <2>2, <3>1, <3>4, <3>5
        <3> QED BY <3>3, <3>6 DEF next
    <2> QED BY <2>4, <2>5
<1> HIDE DEF A, B
<1>6. /\ Start(s) \in G[0]
      /\ \A i \in 1 .. 2 : \A acc \in G[i - 1] : CarryOne(acc, txn[i], alive, now) \in G[i]
    <2>1. G[0] = A /\ G[1] = A /\ G[2] = B
        OBVIOUS
    <2>2. txn[1] = GetAll(Below(k)) /\ txn[2] = Get(AsPath(k))
        BY <1>2
    <2> HIDE DEF G, txn
    <2>3. \A acc \in A : CarryOne(acc, txn[1], alive, now) \in A /\ CarryOne(acc, txn[2], alive, now) \in B
        BY <1>3, <1>5, <2>2
    <2> QED BY <1>4, <2>1, <2>3
<1>7. r \in G[2]
    <2>1. DOMAIN txn = 1 .. 2
        BY <1>2
    <2> HIDE DEF G
    <2> QED BY <1>6, <2>1, RunRule
<1>8. r \in Acc /\ Of(r.results) /\ Len(r.results) > 0
    BY <1>7 DEF A, B, Aborted
<1>9. r.results \in Seq(Result)
    BY <1>8 DEF Acc
<1>10. Range(r.results) = {r.results[i] : i \in 1 .. Len(r.results)}
    BY <1>9 DEF Range
<1>11. r.results[1] \in Range(r.results)
    BY <1>8, <1>9, <1>10
<1> HIDE DEF Of
<1>12. ASSUME NEW x \in Range(r.results) PROVE \E p \in Paths : s[p] # Nil /\ x.entry = s[p]
    <2>1. PICK i \in 1 .. Len(r.results) : x = r.results[i]
        BY <1>10
    <2> QED BY <1>8, <2>1 DEF Of
<1> QED BY <1>11, <1>12

-----------------------------------------------------------------------------
(* The index of a query never falls, and passes that of a change. *)

LEMMA TableIndex ==
    ASSUME NEW n \in Nat
    PROVE  Max({1, n}) = IF n > 1 THEN n ELSE 1
<1>1. {1, n} \in SUBSET (0 .. n + 1) /\ {1, n} # {} /\ n + 1 \in Nat
    OBVIOUS
<1>2. Max({1, n}) \in {1, n} /\ \A y \in {1, n} : Max({1, n}) >= y
    BY <1>1, MaxIs
<1> QED BY <1>2

LEMMA ItemGrows ==
    ASSUME NEW s \in Stores, NEW n \in Nat, NEW t \in Stores, NEW p \in Paths,
           s[p] # Nil => s[p].ver <= n,
           t[p] = s[p] \/ t[p] = Nil \/ t[p].ver = n + 1
    PROVE  /\ ItemIndex(s, n, p) \in Nat /\ ItemIndex(t, n + 1, p) \in Nat
           /\ ItemIndex(t, n + 1, p) >= ItemIndex(s, n, p)
           /\ t[p] # s[p] => ItemIndex(t, n + 1, p) > n
<1>1. Max({1, n}) = (IF n > 1 THEN n ELSE 1) /\ Max({1, n + 1}) = n + 1
    BY TableIndex
<1>2. (s[p] # Nil => s[p].ver \in Nat) /\ (t[p] # Nil => t[p].ver \in Nat)
    BY DEF Stores, Entry
<1> QED BY <1>1, <1>2 DEF ItemIndex

\* The indexes that KeysIndex looks at.
Stamps(s, t, S) == {0} \cup {s[p].ver : p \in {q \in S : s[q] # Nil}} \cup {t[p] : p \in S}

LEMMA StampsMax ==
    ASSUME NEW s \in Stores, NEW t \in [Paths -> Nat], NEW n \in Nat, Bounded(s, t, n),
           NEW S \in SUBSET Paths
    PROVE  /\ Max(Stamps(s, t, S)) \in Stamps(s, t, S)
           /\ \A y \in Stamps(s, t, S) : y \in Nat /\ Max(Stamps(s, t, S)) >= y
<1> DEFINE M == Stamps(s, t, S)
<1>1. M \in SUBSET (0 .. n)
    <2>1. \A p \in S : (s[p] # Nil => s[p].ver \in 0 .. n) /\ t[p] \in 0 .. n
        BY DEF Bounded, Stores, Entry
    <2> QED BY <2>1 DEF Stamps
<1>2. 0 \in M
    BY DEF Stamps
<1> HIDE DEF M
<1>3. Max(M) \in M /\ \A y \in M : Max(M) >= y
    BY <1>1, <1>2, MaxIs
<1>4. \A y \in M : y \in Nat
    BY <1>1
<1> QED BY <1>3, <1>4 DEF M

LEMMA KeysGrow ==
    ASSUME NEW s \in Stores, NEW t \in [Paths -> Nat], NEW n \in Nat, Bounded(s, t, n),
           NEW s1, NEW gone, Changed(s, s1, gone, n + 1),
           NEW t1 \in [Paths -> Nat], \A p \in Paths : t1[p] = IF p \in gone THEN n + 1 ELSE t[p],
           NEW S \in SUBSET Paths
    PROVE  /\ KeysIndex(s, t, n, S) \in Nat /\ KeysIndex(s1, t1, n + 1, S) \in Nat
           /\ KeysIndex(s1, t1, n + 1, S) >= KeysIndex(s, t, n, S)
           /\ (\E p \in S : s1[p] # s[p]) => KeysIndex(s1, t1, n + 1, S) > n
<1> DEFINE M == Stamps(s, t, S)
           M1 == Stamps(s1, t1, S)
           a == Max(M)
           b == Max(M1)
<1>1. s1 \in Stores /\ n + 1 \in Nat
    BY DEF Changed
<1>2. Bounded(s1, t1, n + 1)
    <2>1. ASSUME NEW p \in Paths PROVE (s1[p] # Nil => s1[p].ver <= n + 1) /\ t1[p] <= n + 1
        <3>1. s[p] # Nil => s[p].ver \in Nat /\ s[p].ver <= n
            BY DEF Bounded, Stores, Entry
        <3>2. t[p] \in Nat /\ t[p] <= n
            BY DEF Bounded
        <3>3. s1[p] = s[p] \/ s1[p] = Nil \/ s1[p].ver = n + 1
            BY DEF Changed
        <3> QED BY <3>1, <3>2, <3>3
    <2> QED BY <2>1 DEF Bounded
<1>3. a \in M /\ a \in Nat /\ \A y \in M : y \in Nat /\ a >= y
    BY StampsMax
<1>4. b \in M1 /\ b \in Nat /\ \A y \in M1 : y \in Nat /\ b >= y
    BY <1>1, <1>2, StampsMax
<1>5. /\ KeysIndex(s, t, n, S) = IF a > 0 THEN a ELSE Max({1, n})
      /\ KeysIndex(s1, t1, n + 1, S) = IF b > 0 THEN b ELSE Max({1, n + 1})
    BY DEF KeysIndex, Stamps
<1>6. Max({1, n}) = (IF n > 1 THEN n ELSE 1) /\ Max({1, n + 1}) = n + 1
    BY TableIndex
<1> HIDE DEF a, b
<1>7. ASSUME NEW p \in S, s1[p] # s[p] PROVE b >= n + 1
    <2>1. p \in Paths
        OBVIOUS
    <2>2. CASE s1[p] = Nil
        <3>1. p \in gone /\ t1[p] = n + 1
            BY <1>7, <2>1, <2>2 DEF Changed
        <3>2. t1[p] \in M1
            BY DEF Stamps
        <3> QED BY <1>4, <3>1, <3>2
    <2>3. CASE s1[p] # Nil
        <3>1. s1[p].ver = n + 1
            BY <1>7, <2>1, <2>3 DEF Changed
        <3>2. s1[p].ver \in M1
            BY <2>3 DEF Stamps
        <3> QED BY <1>4, <3>1, <3>2
    <2> QED BY <2>2, <2>3
<1>8. b >= a
    <2>1. CASE a = 0
        BY <1>4, <2>1
    <2>2. CASE \E p \in S : s[p] # Nil /\ a = s[p].ver
        <3>1. PICK p \in S : s[p] # Nil /\ a = s[p].ver
            BY <2>2
        <3>2. CASE s1[p] = s[p]
            <4>1. a \in M1
                BY <3>1, <3>2 DEF Stamps
            <4> QED BY <1>4, <4>1
        <3>3. CASE s1[p] # s[p]
            <4>1. a <= n
                BY <3>1 DEF Bounded
            <4> QED BY <1>3, <1>4, <1>7, <3>3, <4>1
        <3> QED BY <3>2, <3>3
    <2>3. CASE \E p \in S : a = t[p]
        <3>1. PICK p \in S : a = t[p]
            BY <2>3
        <3>2. t1[p] \in M1 /\ t1[p] >= a
            <4>1. t1[p] \in M1
                BY DEF Stamps
            <4>2. t[p] <= n /\ t[p] \in Nat
                BY DEF Bounded
            <4> QED BY <3>1, <4>1, <4>2
        <3> QED BY <1>3, <1>4, <3>2
    <2> QED BY <1>3, <2>1, <2>2, <2>3 DEF Stamps
<1>9. CASE a > 0
    BY <1>3, <1>4, <1>5, <1>7, <1>8, <1>9
<1>10. CASE a = 0
    <2>1. ASSUME b > 0 PROVE b >= n + 1
        <3>1. CASE \E p \in S : s1[p] # Nil /\ b = s1[p].ver
            <4>1. PICK p \in S : s1[p] # Nil /\ b = s1[p].ver
                BY <3>1
            <4>2. s1[p] # s[p]
                <5>1. SUFFICES ASSUME s1[p] = s[p] PROVE FALSE
                    OBVIOUS
                <5>2. s[p].ver \in M
                    BY <4>1, <5>1 DEF Stamps
                <5> HIDE DEF M
                <5>3. s[p].ver \in Nat /\ a >= s[p].ver
                    BY <1>3, <5>2
                <5> QED BY <1>10, <2>1, <4>1, <5>1, <5>3
            <4> QED BY <1>7, <4>2
        <3>2. CASE \E p \in S : b = t1[p]
            <4>1. PICK p \in S : b = t1[p]
                BY <3>2
            <4>2. t[p] \in M
                BY DEF Stamps
            <4>3. t[p] # b
                BY <1>3, <1>10, <2>1, <4>2
            <4> QED BY <1>4, <4>1, <4>3
        <3> QED BY <1>4, <2>1, <3>1, <3>2 DEF Stamps
    <2> QED BY <1>4, <1>5, <1>6, <1>7, <1>10, <2>1
<1> QED BY <1>3, <1>9, <1>10

\* The index with which the query of a handle for (type, k) is answered.
QueryOf(type, k, s, t, n) ==
    IF type = "get_children" THEN KeysIndex(s, t, n, Below(k)) ELSE ItemIndex(s, n, AsPath(k))

LEMMA QueryGrows ==
    ASSUME NEW s \in Stores, NEW t \in [Paths -> Nat], NEW n \in Nat, Bounded(s, t, n),
           NEW s1, NEW gone, Changed(s, s1, gone, n + 1),
           NEW t1 \in [Paths -> Nat], \A p \in Paths : t1[p] = IF p \in gone THEN n + 1 ELSE t[p],
           NEW type \in {"get", "exists", "get_children"}, NEW k \in Keys
    PROVE  /\ QueryOf(type, k, s, t, n) \in Nat /\ QueryOf(type, k, s1, t1, n + 1) \in Nat
           /\ QueryOf(type, k, s1, t1, n + 1) >= QueryOf(type, k, s, t, n)
           /\ Observation(s1, type, k) # Observation(s, type, k) => QueryOf(type, k, s1, t1, n + 1) > n
<1>1. AsPath(k) \in Paths /\ Below(k) \in SUBSET Paths
    BY DEF Paths, Below
<1>2. CASE type = "get_children"
    <2>1. Observation(s1, type, k) # Observation(s, type, k) => \E p \in Below(k) : s1[p] # s[p]
        BY <1>2 DEF Observation
    <2> DEFINE S == Below(k)
    <2>2. S \in SUBSET Paths
        BY <1>1
    <2> HIDE DEF S
    <2>3. /\ KeysIndex(s, t, n, S) \in Nat /\ KeysIndex(s1, t1, n + 1, S) \in Nat
          /\ KeysIndex(s1, t1, n + 1, S) >= KeysIndex(s, t, n, S)
          /\ (\E p \in S : s1[p] # s[p]) => KeysIndex(s1, t1, n + 1, S) > n
        BY <2>2, KeysGrow
    <2> QED BY <1>2, <2>1, <2>3 DEF QueryOf, S
<1>3. CASE type # "get_children"
    <2>1. Observation(s1, type, k) # Observation(s, type, k) => s1[AsPath(k)] # s[AsPath(k)]
        BY <1>3 DEF Observation
    <2>2. /\ s1 \in Stores
          /\ s[AsPath(k)] # Nil => s[AsPath(k)].ver <= n
          /\ \/ s1[AsPath(k)] = s[AsPath(k)] \/ s1[AsPath(k)] = Nil
             \/ s1[AsPath(k)].ver = n + 1
        BY <1>1 DEF Changed, Bounded
    <2>3. /\ ItemIndex(s, n, AsPath(k)) \in Nat /\ ItemIndex(s1, n + 1, AsPath(k)) \in Nat
          /\ ItemIndex(s1, n + 1, AsPath(k)) >= ItemIndex(s, n, AsPath(k))
          /\ s1[AsPath(k)] # s[AsPath(k)] => ItemIndex(s1, n + 1, AsPath(k)) > n
        <3> DEFINE p == AsPath(k)
        <3> HIDE DEF p
        <3> SUFFICES /\ ItemIndex(s, n, p) \in Nat /\ ItemIndex(s1, n + 1, p) \in Nat
                     /\ ItemIndex(s1, n + 1, p) >= ItemIndex(s, n, p)
                     /\ s1[p] # s[p] => ItemIndex(s1, n + 1, p) > n
            BY DEF p
        <3>1. p \in Paths /\ s1 \in Stores /\ (s[p] # Nil => s[p].ver <= n)
            BY <1>1, <2>2 DEF p
        <3>2. s1[p] = s[p] \/ s1[p] = Nil \/ s1[p].ver = n + 1
            BY <2>2 DEF p
        <3> QED BY <3>1, <3>2, ItemGrows
    <2> QED BY <1>3, <2>1, <2>3 DEF QueryOf
<1> QED BY <1>2, <1>3

LEMMA BecomesKeeps ==
    ASSUME StoreInv, HandleInv, NEW s, NEW gone, Changed(kv, s, gone, index + 1), Becomes(s, gone)
    PROVE  StoreInv' /\ HandleInv'
<1>1. /\ kv \in Stores /\ index \in Nat /\ tomb \in [Paths -> Nat] /\ Bounded(kv, tomb, index)
      /\ s \in Stores /\ gone \in SUBSET Paths
    BY DEF StoreInv, Changed
<1>2. /\ kv' = s /\ index' = index + 1 /\ tomb' \in [Paths -> Nat]
      /\ \A p \in Paths : tomb'[p] = IF p \in gone THEN index + 1 ELSE tomb[p]
    BY <1>1 DEF Becomes
<1>3. StoreInv'
    <2>1. ASSUME NEW p \in Paths PROVE (s[p] # Nil => s[p].ver <= index + 1) /\ tomb'[p] <= index + 1
        <3>1. kv[p] # Nil => kv[p].ver \in Nat /\ kv[p].ver <= index
            BY <1>1 DEF Bounded, Stores, Entry
        <3>2. tomb[p] \in Nat /\ tomb[p] <= index
            BY <1>1 DEF Bounded
        <3>3. s[p] = kv[p] \/ s[p] = Nil \/ s[p].ver = index + 1
            BY DEF Changed
        <3> QED BY <1>1, <1>2, <3>1, <3>2, <3>3
    <2>2. Bounded(kv', tomb', index')
        BY <1>2, <2>1 DEF Bounded
    <2> QED BY <1>1, <1>2, <2>2 DEF StoreInv
<1>4. ASSUME NEW c \in Clients, handle[c] # Nil
      PROVE  handle'[c] \in Handle /\ HandleOK(handle[c])' 
    <2> DEFINE h == handle[c]
               g == handle'[c]
               differs == Observation(s, h.type, h.key) # h.seen
    <2>1. /\ h \in Handle /\ h.old <= index
          /\ ~h.changed => Observation(kv, h.type, h.key) = h.seen
          /\ h.changed => Answered(h)
        BY <1>4 DEF HandleInv, HandleOK
    <2>2. h.type \in {"get", "exists", "get_children"} /\ h.key \in Keys /\ h.old \in Nat /\ h.changed \in BOOLEAN
        BY <2>1 DEF Handle
    <2>3. g = IF differs THEN [h EXCEPT !.changed = TRUE] ELSE h
        BY <1>4 DEF Becomes
    <2> DEFINE q == QueryOf(h.type, h.key, kv, tomb, index)
               q1 == QueryOf(h.type, h.key, kv', tomb', index')
    <2>4. /\ q \in Nat /\ q1 \in Nat /\ q1 >= q
          /\ Observation(s, h.type, h.key) # Observation(kv, h.type, h.key) => q1 > index
        BY <1>1, <1>2, <2>2, QueryGrows
    <2>5. Answered(h) <=> h.old = 0 \/ q > h.old
        BY DEF Answered, QueryIndex, QueryOf
    <2>6. Answered(handle[c])' <=> g.old = 0 \/ QueryOf(g.type, g.key, kv', tomb', index') > g.old
        BY DEF Answered, QueryIndex, QueryOf
    <2> HIDE DEF h, g, differs, q, q1
    <2>7. /\ g \in Handle /\ g.type = h.type /\ g.key = h.key /\ g.old = h.old /\ g.seen = h.seen
          /\ g.changed = (h.changed \/ differs)
        BY <2>1, <2>2, <2>3 DEF Handle
    <2>8. g.old <= index'
        BY <1>1, <1>2, <2>1, <2>2, <2>7
    <2>9. ASSUME ~g.changed PROVE Observation(kv', g.type, g.key) = g.seen
        BY <1>2, <2>7, <2>9 DEF differs
    <2>10. ASSUME g.changed PROVE Answered(handle[c])'
        <3>1. CASE h.changed
            BY <2>1, <2>2, <2>4, <2>5, <2>6, <2>7, <3>1 DEF q, q1
        <3>2. CASE ~h.changed
            <4>1. q1 > index
                BY <2>1, <2>4, <2>7, <2>10, <3>2 DEF differs
            <4>2. q1 > h.old
                BY <1>1, <2>1, <2>2, <2>4, <4>1
            <4> QED BY <2>6, <2>7, <4>2 DEF q1
        <3> QED BY <3>1, <3>2
    <2>11. HandleOK(handle[c])'
        BY <2>8, <2>9, <2>10 DEF HandleOK, g
    <2> QED BY <2>7, <2>11 DEF g
<1>5. \A c \in Clients : handle[c] = Nil => handle'[c] = Nil
    BY DEF Becomes
<1>6. handle' \in [Clients -> Handle \cup {Nil}]
    <2>1. handle' = [c \in Clients |-> handle'[c]]
        BY DEF Becomes
    <2>2. \A c \in Clients : handle'[c] \in Handle \cup {Nil}
        BY <1>4, <1>5
    <2> QED BY <2>1, <2>2
<1> QED BY <1>3, <1>4, <1>5, <1>6 DEF HandleInv

-----------------------------------------------------------------------------
(* The transactions of the calls. *)

LEMMA ParentGetType == ASSUME NEW k \in Keys PROVE ParentGet(k) \in Seq(Operation)
<1>1. CASE Parent(k) = Root
    BY <1>1 DEF ParentGet
<1>2. CASE Parent(k) # Root
    <2>1. k \in Seq(STRING) /\ Len(k) > 1 /\ Parent(k) = SubSeq(k, 1, Len(k) - 1)
        BY <1>2, KeysAssumption DEF Parent, Root, Front
    <2>2. Parent(k) \in Keys
        BY <2>1, KeysAssumption
    <2>3. AsPath(Parent(k)) \in Paths
        BY <2>2 DEF Paths
    <2>4. Get(AsPath(Parent(k))) \in Operation
        BY <2>3 DEF Get, TxnOperation, Operation, Writes, Deletes
    <2> QED BY <1>2, <2>4 DEF ParentGet
<1> QED BY <1>1, <1>2

LEMMA CreateOpsType ==
    ASSUME NEW o \in CreateOp \cup CasOp, NEW c \in Clients PROVE CreateOps(o, c) \in Seq(Operation)
<1> DEFINE p == AsPath(o.key)
           put == IF o.type = "create" /\ o.lease THEN Lock(p, o.val, c) ELSE PutOp(p, o.val)
<1>1. o.key \in Keys /\ o.val \in Values
    BY DEF CreateOp, CasOp
<1>2. p \in Paths
    BY <1>1 DEF Paths
<1>3. CheckNotExists(p) \in Operation /\ put \in Operation
    <2> HIDE DEF p
    <2> QED BY <1>1, <1>2 DEF CheckNotExists, Lock, PutOp, TxnOperation, Operation, Writes, Deletes
<1>4. CreateOps(o, c) = ParentGet(o.key) \o <<CheckNotExists(p), put>>
    BY DEF CreateOps
<1> HIDE DEF put, p
<1>5. <<CheckNotExists(p), put>> \in Seq(Operation)
    BY <1>3
<1> QED BY <1>1, <1>4, <1>5, ParentGetType

LEMMA OneKeyTypes ==
    ASSUME NEW c \in Clients
    PROVE  /\ \A o \in SetOp : SetOps(o) \in Seq(Operation)
           /\ \A o \in CasOp : CasOps(o) \in Seq(Operation)
           /\ \A o \in EraseOp : EraseOps(o) \in Seq(Operation)
           /\ \A o \in TxnCheck : CheckPart(o) \in Seq(Operation)
           /\ \A o \in TxnOp : OpPart(o, c) \in Seq(Operation)
<1>1. ASSUME NEW o \in SetOp PROVE SetOps(o) \in Seq(Operation)
    <2>1. o.key \in Keys /\ o.val \in Values /\ AsPath(o.key) \in Paths
        BY DEF SetOp, Paths
    <2>2. PutOp(AsPath(o.key), o.val) \in Operation
        BY <2>1 DEF PutOp, TxnOperation, Operation, Writes, Deletes
    <2>3. <<PutOp(AsPath(o.key), o.val)>> \in Seq(Operation)
        BY <2>2
    <2> QED BY <2>1, <2>3, ParentGetType DEF SetOps
<1>2. ASSUME NEW o \in CasOp PROVE CasOps(o) \in Seq(Operation)
    <2>1. o.key \in Keys /\ o.val \in Values /\ o.ver \in Nat /\ AsPath(o.key) \in Paths
        BY DEF CasOp, Paths
    <2>2. Get(AsPath(o.key)) \in Operation /\ CompareSet(AsPath(o.key), o.ver, o.val) \in Operation
        BY <2>1 DEF Get, CompareSet, TxnOperation, Operation, Writes, Deletes
    <2> QED BY <2>2 DEF CasOps
<1>3. ASSUME NEW k \in Keys
      PROVE  /\ AsPath(k) \in Paths /\ Get(AsPath(k)) \in Operation /\ Delete(AsPath(k)) \in Operation
             /\ DeleteAll(Below(k)) \in Operation
             /\ \A n \in Nat : CompareDelete(AsPath(k), n) \in Operation /\ CheckIndex(AsPath(k), n) \in Operation
    <2>1. AsPath(k) \in Paths /\ Below(k) \in SUBSET Paths
        BY DEF Paths, Below
    <2> QED BY <2>1 DEF Get, Delete, CompareDelete, DeleteAll, CheckIndex, TxnOperation, Operation, Writes, Deletes
<1>4. ASSUME NEW o \in EraseOp PROVE EraseOps(o) \in Seq(Operation)
    <2> DEFINE d == IF o.ver # 0 THEN CompareDelete(AsPath(o.key), o.ver) ELSE Delete(AsPath(o.key))
    <2>1. o.key \in Keys /\ o.ver \in Nat
        BY DEF EraseOp
    <2>2. Get(AsPath(o.key)) \in Operation /\ d \in Operation /\ DeleteAll(Below(o.key)) \in Operation
        BY <1>3, <2>1
    <2>3. EraseOps(o) = <<Get(AsPath(o.key)), d, DeleteAll(Below(o.key))>>
        BY DEF EraseOps
    <2> HIDE DEF d
    <2> QED BY <2>2, <2>3
<1>5. ASSUME NEW o \in TxnCheck PROVE CheckPart(o) \in Seq(Operation)
    <2>1. o.key \in Keys /\ o.ver \in Nat
        BY DEF TxnCheck
    <2>2. Get(AsPath(o.key)) \in Operation /\ CheckIndex(AsPath(o.key), o.ver) \in Operation
        BY <1>3, <2>1
    <2> QED BY <2>2 DEF CheckPart
<1>6. ASSUME NEW o \in TxnOp PROVE OpPart(o, c) \in Seq(Operation)
    <2>1. CASE o \in CreateOp
        <3>1. OpPart(o, c) = CreateOps(o, c)
            BY <2>1 DEF OpPart, CreateOp
        <3> QED BY <2>1, <3>1, CreateOpsType
    <2>2. CASE o \in SetOp
        <3>1. o.key \in Keys /\ o.val \in Values /\ o.type = "set"
            BY <2>2 DEF SetOp
        <3>2. Get(AsPath(o.key)) \in Operation /\ AsPath(o.key) \in Paths
            BY <1>3, <3>1
        <3>3. PutOp(AsPath(o.key), o.val) \in Operation
            BY <3>1, <3>2 DEF PutOp, TxnOperation, Operation, Writes, Deletes
        <3>4. OpPart(o, c) = <<Get(AsPath(o.key)), PutOp(AsPath(o.key), o.val)>>
            BY <3>1 DEF OpPart
        <3> QED BY <3>2, <3>3, <3>4
    <2>3. CASE o \in TxnOpErase
        <3>1. o.key \in Keys /\ o.type = "erase"
            BY <2>3 DEF TxnOpErase
        <3>2. Get(AsPath(o.key)) \in Operation /\ Delete(AsPath(o.key)) \in Operation
              /\ DeleteAll(Below(o.key)) \in Operation
            BY <1>3, <3>1
        <3>3. OpPart(o, c) = <<Get(AsPath(o.key)), Delete(AsPath(o.key)), DeleteAll(Below(o.key))>>
            BY <3>1 DEF OpPart
        <3> QED BY <3>2, <3>3
    <2> QED BY <2>1, <2>2, <2>3 DEF TxnOp
<1> QED BY <1>1, <1>2, <1>4, <1>5, <1>6

LEMMA PartsType ==
    ASSUME NEW o \in CommitOp, NEW c \in Clients
    PROVE  FlattenSeq(Parts(o, c)) \in Seq(Operation)
<1> DEFINE a == [i \in DOMAIN o.checks |-> CheckPart(o.checks[i])]
           b == [i \in DOMAIN o.ops |-> OpPart(o.ops[i], c)]
<1>1. o.checks \in Seq(TxnCheck) /\ o.ops \in Seq(TxnOp)
    BY DEF CommitOp
<1>2. a \in Seq(Seq(Operation))
    <2>1. \A i \in 1 .. Len(o.checks) : CheckPart(o.checks[i]) \in Seq(Operation)
        BY <1>1, OneKeyTypes
    <2> QED BY <1>1, <2>1
<1>3. b \in Seq(Seq(Operation))
    <2>1. \A i \in 1 .. Len(o.ops) : OpPart(o.ops[i], c) \in Seq(Operation)
        BY <1>1, OneKeyTypes
    <2> QED BY <1>1, <2>1
<1>4. Parts(o, c) = a \o b
    BY DEF Parts
<1> HIDE DEF a, b
<1>5. Parts(o, c) \in Seq(Seq(Operation))
    BY <1>2, <1>3, <1>4
<1> QED BY <1>5, FlattenType

LEMMA TxnType ==
    ASSUME CallInv, NEW c \in Clients, pc[c] = "txn"
    PROVE  TxnOf(c) \in Seq(Operation)
<1> DEFINE o == op[c]
<1>1. o \in Op
    BY DEF CallInv
<1>2. CASE o \in CreateOp \/ (o \in CasOp /\ o.ver = 0)
    <2>1. TxnOf(c) = CreateOps(o, c)
        BY <1>2 DEF TxnOf, CreateOp, CasOp
    <2> HIDE DEF o
    <2> QED BY <1>2, <2>1, CreateOpsType
<1>3. CASE o \in CasOp /\ o.ver # 0
    <2>1. TxnOf(c) = CasOps(o)
        BY <1>3 DEF TxnOf, CasOp
    <2> HIDE DEF o
    <2> QED BY <1>3, <2>1, OneKeyTypes
<1>4. CASE o \in SetOp
    <2>1. TxnOf(c) = SetOps(o)
        BY <1>4 DEF TxnOf, SetOp
    <2> HIDE DEF o
    <2> QED BY <1>4, <2>1, OneKeyTypes
<1>5. CASE o \in EraseOp
    <2>1. TxnOf(c) = EraseOps(o)
        BY <1>5 DEF TxnOf, EraseOp
    <2> HIDE DEF o
    <2> QED BY <1>5, <2>1, OneKeyTypes
<1>6. CASE o \in CommitOp
    <2>1. TxnOf(c) = FlattenSeq(Parts(o, c))
        BY <1>6 DEF TxnOf, CommitOp
    <2> HIDE DEF o
    <2> QED BY <1>6, <2>1, PartsType
<1>7. CASE o \in ReadOp
    <2>1. TxnOf(c) = <<>>
        BY <1>7 DEF TxnOf, ReadOp
    <2> QED BY <2>1
<1> HIDE DEF o
<1> QED BY <1>1, <1>2, <1>3, <1>4, <1>5, <1>6, <1>7 DEF Op

-----------------------------------------------------------------------------
(* The steps. *)

\* The store and the handles are as they were.
LEMMA StoreSame == ASSUME StoreInv, UNCHANGED storeVars PROVE StoreInv'
BY DEF StoreInv, storeVars, Bounded

LEMMA HandlesSame == ASSUME HandleInv, UNCHANGED <<storeVars, handle>> PROVE HandleInv'
<1>1. ASSUME NEW c \in Clients, HandleOK(handle[c]) PROVE HandleOK(handle[c])'
    BY <1>1 DEF HandleOK, storeVars, Answered, QueryIndex
<1> QED BY <1>1 DEF HandleInv

\* A handle goes away.
LEMMA HandleEnds ==
    ASSUME HandleInv, NEW c \in Clients, handle' = [handle EXCEPT ![c] = Nil], UNCHANGED storeVars
    PROVE  HandleInv'
<1>1. handle' \in [Clients -> Handle \cup {Nil}]
    BY DEF HandleInv
<1>2. ASSUME NEW d \in Clients, handle'[d] # Nil PROVE HandleOK(handle[d])'
    <2>1. handle'[d] = handle[d]
        BY <1>2 DEF HandleInv
    <2>2. HandleOK(handle[d])
        BY <1>2, <2>1 DEF HandleInv
    <2> QED BY <2>1, <2>2 DEF HandleOK, storeVars, Answered, QueryIndex
<1> QED BY <1>1, <1>2 DEF HandleInv

\* A call ends: nothing is in progress at the client.
LEMMA CallEnds ==
    ASSUME CallInv, NEW c \in Clients, NEW to \in {"idle", "dead"},
           pc' = [pc EXCEPT ![c] = to], op' = [op EXCEPT ![c] = Nil]
    PROVE  CallInv'
BY DEF CallInv

LEMMA CarryOutKeeps ==
    ASSUME Inv, NEW c \in Clients, pc[c] = "txn", CarryOut(TxnOf(c))
    PROVE  StoreInv' /\ HandleInv'
<1> DEFINE txn == TxnOf(c)
           r == Carried(txn)
<1>1. StoreInv /\ CallInv /\ HandleInv /\ kv \in Stores /\ index + 1 \in Nat \ {0}
    BY DEF Inv, StoreInv
<1>2. Changed(kv, r.store, r.gone, index + 1)
    <2>1. txn \in Seq(Operation)
        BY <1>1, TxnType
    <2> HIDE DEF txn
    <2> QED BY <1>1, <2>1, RunChanges DEF Carried
<1>3. CASE Becomes(r.store, r.gone)
    BY <1>1, <1>2, <1>3, BecomesKeeps
<1>4. CASE UNCHANGED <<storeVars, handle>>
    BY <1>1, <1>4, StoreSame, HandlesSame
<1> QED BY <1>3, <1>4 DEF CarryOut

\* A read makes its handle with an index that is not newer than the store.
LEMMA ReadKeeps ==
    ASSUME Inv, NEW c \in Clients, op[c] \in ReadOp, NEW r, NEW old, ReadReturns(c, r, old),
           op[c].watch /\ r # Failure("NoEntry") => old \in Nat /\ old <= index
    PROVE  Inv'
<1>1. StoreInv /\ CallInv /\ HandleInv
    BY DEF Inv
<1>2. StoreInv' /\ CallInv' /\ UNCHANGED storeVars
    BY <1>1, StoreSame, CallEnds DEF ReadReturns, Return
<1>3. CASE handle' = handle
    BY <1>1, <1>2, <1>3, HandlesSame DEF Inv
<1>4. CASE handle' # handle
    <2> DEFINE h == MakeHandle(op[c], old)
    <2>1. handle' = [handle EXCEPT ![c] = h] /\ old \in Nat /\ old <= index
        BY <1>4 DEF ReadReturns
    <2>2. op[c].type \in {"get", "exists", "get_children"} /\ op[c].key \in Keys
        BY DEF ReadOp
    <2>3. Observation(kv, op[c].type, op[c].key) \in Entry \cup {Nil} \cup BOOLEAN \cup SUBSET Paths
        <3>1. AsPath(op[c].key) \in Paths /\ Below(op[c].key) \in SUBSET Paths
            BY <2>2 DEF Paths, Below
        <3>2. kv[AsPath(op[c].key)] \in Entry \cup {Nil}
            BY <1>1, <3>1 DEF StoreInv, Stores
        <3>3. CASE op[c].type = "get"
            BY <3>2, <3>3 DEF Observation
        <3>4. CASE op[c].type = "exists"
            BY <3>4 DEF Observation
        <3>5. CASE op[c].type = "get_children"
            BY <3>1, <3>5 DEF Observation
        <3> QED BY <2>2, <3>3, <3>4, <3>5
    <2>4. h \in Handle /\ h.old = old /\ ~h.changed /\ Observation(kv, h.type, h.key) = h.seen
        BY <2>1, <2>2, <2>3 DEF MakeHandle, Handle
    <2> HIDE DEF h
    <2>5. handle' \in [Clients -> Handle \cup {Nil}]
        BY <1>1, <2>1, <2>4 DEF HandleInv
    <2>6. ASSUME NEW d \in Clients, handle'[d] # Nil PROVE HandleOK(handle[d])'
        <3>1. CASE d = c
            <4>1. handle'[d] = h
                BY <1>1, <2>1, <3>1 DEF HandleInv
            <4> QED BY <1>2, <2>1, <2>4, <4>1 DEF HandleOK, storeVars
        <3>2. CASE d # c
            <4>1. handle'[d] = handle[d]
                BY <1>1, <2>1, <3>2 DEF HandleInv
            <4>2. HandleOK(handle[d])
                BY <1>1, <2>6, <4>1 DEF HandleInv
            <4> QED BY <1>2, <4>1, <4>2 DEF HandleOK, storeVars, Answered, QueryIndex
        <3> QED BY <3>1, <3>2
    <2> QED BY <1>2, <2>5, <2>6 DEF Inv, HandleInv
<1> QED BY <1>3, <1>4

LEMMA ReadItemKeeps == ASSUME Inv, NEW c \in Clients, ReadItem(c) PROVE Inv'
<1> DEFINE p == AsPath(op[c].key)
           e == kv[p]
           ver == IF e = Nil THEN 0 ELSE ItemIndex(kv, index, p)
           r == IF op[c].type = "exists" THEN Version(ver)
                ELSE IF e = Nil THEN Failure("NoEntry") ELSE Found(ver, e.val)
<1>1. op[c] \in Op /\ op[c].type \in {"exists", "get"}
    BY DEF ReadItem, Calls, Inv, CallInv
<1>2. op[c] \in ReadOp /\ op[c].key \in Keys
    BY <1>1 DEF Op, CreateOp, SetOp, CasOp, ReadOp, EraseOp, CommitOp
<1>3. p \in Paths
    BY <1>2 DEF Paths
<1>4. ver \in Nat /\ ver <= index
    <2>1. e # Nil => e.ver \in Nat /\ e.ver <= index
        BY <1>3 DEF Inv, StoreInv, Stores, Entry, Bounded
    <2> QED BY <2>1 DEF ItemIndex, Inv, StoreInv
<1>5. ReadReturns(c, r, ver)
    BY DEF ReadItem
<1> HIDE DEF r, ver
<1> QED BY <1>2, <1>4, <1>5, ReadKeeps

LEMMA GetChildrenKeeps == ASSUME Inv, NEW c \in Clients, GetChildren(c) PROVE Inv'
<1> DEFINE k == op[c].key
           r == Carried(ChildrenOps(k))
           old == IF Aborted(r) THEN 0 ELSE ChildrenIndex(r)
<1>1. op[c] \in Op /\ op[c].type = "get_children"
    BY DEF GetChildren, Calls, Inv, CallInv
<1>2. op[c] \in ReadOp /\ k \in Keys
    BY <1>1 DEF Op, CreateOp, SetOp, CasOp, ReadOp, EraseOp, CommitOp
<1>3. kv \in Stores /\ index \in Nat /\ index + 1 \in Nat \ {0} /\ Bounded(kv, tomb, index)
    BY DEF Inv, StoreInv
<1>4. ReadReturns(c, ChildrenAnswer(k, r), old)
    BY DEF GetChildren
<1>5. r = Run(kv, live, ChildrenOps(k), index + 1)
    BY DEF Carried
<1> HIDE DEF r, k
<1>6. old \in Nat /\ old <= index
    <2>1. CASE Aborted(r)
        BY <1>3, <2>1
    <2>2. CASE ~Aborted(r)
        <3> DEFINE M == {x.entry.ver : x \in Range(r.results)}
        <3>1. /\ \E x : x \in Range(r.results)
              /\ \A x \in Range(r.results) : \E p \in Paths : kv[p] # Nil /\ x.entry = kv[p]
            BY <1>2, <1>3, <1>5, <2>2, ChildrenFound
        <3>2. \A p \in Paths : kv[p] # Nil => kv[p].ver \in 0 .. index
            BY <1>3 DEF Bounded, Stores, Entry
        <3>3. M \in SUBSET (0 .. index) /\ M # {}
            BY <3>1, <3>2
        <3>4. old = Max(M)
            BY <2>2 DEF ChildrenIndex
        <3> HIDE DEF M
        <3>5. Max(M) \in M
            BY <1>3, <3>3, MaxIs
        <3> HIDE DEF old
        <3>6. old \in 0 .. index
            BY <3>3, <3>4, <3>5
        <3> QED BY <1>3, <3>6
    <2> QED BY <2>1, <2>2
<1> HIDE DEF old
<1> QED BY <1>2, <1>4, <1>6, ReadKeeps

LEMMA SendKeeps == ASSUME Inv, NEW c \in Clients, pc[c] = "txn", NEW r, Send(c, r) PROVE Inv'
<1>1. StoreInv' /\ HandleInv'
    BY CarryOutKeeps DEF Send
<1>2. CallInv'
    BY CallEnds DEF Send, Return, Inv
<1> QED BY <1>1, <1>2 DEF Inv

LEMMA ExpireKeeps == ASSUME Inv, NEW c \in Clients, ExpireSession(c) PROVE Inv'
<1> DEFINE s == WithoutSession(kv, c)
           gone == {p \in Paths : s[p] # kv[p]}
<1>1. StoreInv /\ CallInv /\ HandleInv /\ kv \in Stores
    BY DEF Inv, StoreInv
<1>2. CallInv'
    BY <1>1 DEF CallInv, ExpireSession, clientVars
<1>3. CASE UNCHANGED <<storeVars, handle>>
    BY <1>1, <1>2, <1>3, StoreSame, HandlesSame DEF Inv
<1>4. CASE Becomes(s, gone)
    <2>1. DOMAIN kv = Paths /\ \A p \in Paths : kv[p] \in Entry \cup {Nil}
        BY <1>1 DEF Stores
    <2>2. s \in Stores /\ \A p \in Paths : s[p] = kv[p] \/ s[p] = Nil
        BY <2>1 DEF WithoutSession, Stores
    <2> HIDE DEF s
    <2>3. Changed(kv, s, gone, index + 1)
        BY <2>2 DEF Changed
    <2> HIDE DEF gone
    <2> QED BY <1>1, <1>2, <1>4, <2>3, BecomesKeeps DEF Inv
<1> QED BY <1>3, <1>4 DEF ExpireSession

LEMMA NextInv == Inv /\ [Next]_vars => Inv'
<1> SUFFICES ASSUME Inv, [Next]_vars PROVE Inv'
    OBVIOUS
<1>0. StoreInv /\ CallInv /\ HandleInv
    BY DEF Inv
<1>1. CASE UNCHANGED vars
    <2>1. UNCHANGED <<storeVars, handle>> /\ UNCHANGED storeVars /\ UNCHANGED <<pc, op>>
        BY <1>1 DEF vars, clientVars
    <2>2. CallInv'
        BY <1>0, <2>1 DEF CallInv
    <2> QED BY <1>0, <2>1, <2>2, StoreSame, HandlesSame DEF Inv
<1>2. ASSUME NEW c \in Clients, NEW o \in Ops, Invoke(c, o) PROVE Inv'
    <2>1. CallInv'
        BY <1>0, <1>2, OpsAssumption DEF CallInv, Invoke
    <2>2. UNCHANGED <<storeVars, handle>> /\ UNCHANGED storeVars
        BY <1>2 DEF Invoke
    <2> QED BY <1>0, <2>1, <2>2, StoreSame, HandlesSame DEF Inv
<1>3. ASSUME NEW c \in Clients, CreateSession(c) PROVE Inv'
    <2>1. CallInv'
        BY <1>0, <1>3 DEF CallInv, CreateSession
    <2>2. UNCHANGED <<storeVars, handle>> /\ UNCHANGED storeVars
        BY <1>3 DEF CreateSession
    <2> QED BY <1>0, <2>1, <2>2, StoreSame, HandlesSame DEF Inv
<1>4. ASSUME NEW c \in Clients, Create(c) \/ Set(c) \/ Cas(c) \/ Erase(c) \/ Commit(c) PROVE Inv'
    <2>1. pc[c] = "txn" /\ \E r : Send(c, r)
        BY <1>4 DEF Create, Set, Cas, Erase, Commit, Calls
    <2> QED BY <2>1, SendKeeps
<1>5. ASSUME NEW c \in Clients, ReadItem(c) \/ GetChildren(c) PROVE Inv'
    BY <1>5, ReadItemKeeps, GetChildrenKeeps
<1>6. ASSUME NEW c \in Clients, EndWait(c) PROVE Inv'
    <2>1. /\ handle' = [handle EXCEPT ![c] = Nil] /\ UNCHANGED storeVars
          /\ UNCHANGED <<pc, op>>
        BY <1>6 DEF EndWait, clientVars
    <2>2. CallInv'
        BY <1>0, <2>1 DEF CallInv
    <2> QED BY <1>0, <2>1, <2>2, StoreSame, HandleEnds DEF Inv
<1>7. ASSUME NEW c \in Clients, LoseRequest(c) PROVE Inv'
    <2>1. CallInv'
        BY <1>0, <1>7, CallEnds DEF LoseRequest, Return
    <2>2. CASE UNCHANGED <<storeVars, handle>>
        BY <1>0, <2>1, <2>2, StoreSame, HandlesSame DEF Inv
    <2>3. CASE pc[c] = "txn" /\ CarryOut(TxnOf(c))
        BY <2>1, <2>3, CarryOutKeeps DEF Inv
    <2> QED BY <1>7, <2>2, <2>3 DEF LoseRequest
<1>8. ASSUME NEW c \in Clients, Die(c) PROVE Inv'
    <2>1. CallInv'
        BY <1>0, <1>8, CallEnds DEF Die
    <2>2. handle' = [handle EXCEPT ![c] = Nil] /\ UNCHANGED storeVars
        BY <1>8 DEF Die
    <2> QED BY <1>0, <2>1, <2>2, StoreSame, HandleEnds DEF Inv
<1> QED BY <1>1, <1>2, <1>3, <1>4, <1>5, <1>6, <1>7, <1>8, ExpireKeeps
        DEF Next, Progress, WaitReturns, WaitTimesOut, LoseWait

LEMMA InitInv == Init => Inv
<1> SUFFICES ASSUME Init PROVE Inv
    OBVIOUS
<1>1. StoreInv
    BY DEF Init, StoreInv, Stores, Bounded
<1>2. CallInv /\ HandleInv
    BY DEF Init, CallInv, HandleInv
<1> QED BY <1>1, <1>2 DEF Inv

\* The store, the calls and the handles, in every state.
THEOREM ConsulInvariance == Spec => []Inv
BY InitInv, NextInv, PTL DEF Spec

\* Once what get, exists or get_children observed has changed, the blocking query that wait()
\* sends for its handle is answered, however short the change was and whatever caused it: the
\* index kept by the handle is never too new, nor about other keys than the observation.
THEOREM NoMissedChange == Spec => []WatchComplete
<1>1. Inv => WatchComplete
    BY DEF Inv, HandleInv, HandleOK, WatchComplete
<1> QED BY <1>1, ConsulInvariance, PTL

=============================================================================
