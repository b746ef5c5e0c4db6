--------------------------- MODULE ZKSafetyProofs ---------------------------
(***************************************************************************)
(* What the ZooKeeper client guarantees about the tree, proved for every   *)
(* instance: the hierarchy, the nodes of the prefix, watches, and that an  *)
(* erase removes exactly the subtree of its key.                           *)
(***************************************************************************)
EXTENDS ZKClientProofs

-----------------------------------------------------------------------------
(* What a step can do to the tree, to the multi_op in execution and to the *)
(* watches: one of seven things.                                           *)

\* Nothing, except that handles are made or go away.
Quiet ==
    /\ tree' = tree /\ multi' = multi
    /\ \A c \in Clients :
         \/ handle'[c] = handle[c]
         \/ handle'[c] = Nil
         \/ \E type \in {"get", "exists", "get_children"}, p \in Paths :
              handle'[c] = NewHandle(type, p) /\ (type # "exists" => tree[p] # Nil)

\* A create or set request on its own; only the constructor creates outside the user's paths.
Direct ==
    /\ multi = Nil /\ multi' = Nil
    /\ \E r \in Requests :
         /\ r.kind \in {"create", "set"}
         /\ r.path \in UserPaths \/ (r.kind = "create" /\ r.eph = Nil)
         /\ ErrorCode(tree, r) = "ok"
         /\ tree' = Apply(tree, r)
         /\ Notify(Events(r))

Begins(c) == tree' = tree /\ multi = Nil /\ multi'.tree = tree /\ handle' = handle /\ Submit(c)

Continues(c) ==
    /\ tree' = tree /\ multi # Nil /\ handle' = handle
    /\ MultiStep(c) /\ Executing(c) /\ plan' = plan
    /\ \E r \in Requests :
         /\ multi.next \in 1..Len(plan[c]) /\ r = plan[c][multi.next]
         /\ multi.tree \in Tree
         /\ ErrorCode(multi.tree, r) = "ok"
         /\ multi'.tree = Apply(multi.tree, r)
         /\ multi'.events = multi.events \cup Events(r)
         /\ multi'.next = multi.next + 1 /\ multi'.client = c

RollsBack(c) == tree' = tree /\ multi' = Nil /\ handle' = handle /\ MultiFail(c)

Installs(c) ==
    /\ multi # Nil /\ multi.tree \in Tree /\ tree' = multi.tree /\ multi' = Nil
    /\ Notify(multi.events) /\ MultiDone(c)

Ends(c) ==
    /\ multi = Nil /\ multi' = Nil /\ tree' = WithoutSession(tree, c)
    /\ Notify(SessionEvents(tree, c))

TreeStep ==
    \/ Quiet
    \/ Direct
    \/ \E c \in Clients : Begins(c) \/ Continues(c) \/ RollsBack(c) \/ Installs(c) \/ Ends(c)

\* A request that fails on its own changes nothing and wakes nobody.
LEMMA ServeStep ==
    ASSUME TypeOK, NEW r \in Requests, r.kind \in {"create", "set"},
           r.path \in UserPaths \/ (r.kind = "create" /\ r.eph = Nil),
           multi = Nil, Serve(r)
    PROVE  Quiet \/ Direct
<1>1. CASE ErrorCode(tree, r) = "ok"
    BY <1>1 DEF Direct, Serve, Served, Raised
<1>2. CASE ErrorCode(tree, r) # "ok"
    <2>1. tree' = tree /\ multi' = multi /\ Notify({})
        BY <1>2 DEF Serve, Served, Raised
    <2>2. \A c \in Clients : handle'[c] = handle[c]
        BY <2>1 DEF Notify, Triggered
    <2> QED BY <2>1, <2>2 DEF Quiet
<1> QED BY <1>1, <1>2

LEMMA StepKinds == TypeInv /\ [Next]_vars => TreeStep
<1> SUFFICES ASSUME TypeInv, [Next]_vars PROVE TreeStep
    OBVIOUS
<1>0. TypeOK /\ handle \in [Clients -> HandleType \cup {Nil}]
    BY DEF TypeInv, TypeOK
<1>1. ASSUME UNCHANGED <<tree, multi, handle>> PROVE TreeStep
    BY <1>1 DEF TreeStep, Quiet
<1>2. CASE UNCHANGED vars
    BY <1>1, <1>2 DEF vars
<1>3. ASSUME NEW c \in Clients, NEW o \in Ops, Invoke(c, o) PROVE TreeStep
    BY <1>1, <1>3 DEF Invoke
<1>4. ASSUME NEW c \in Clients, Open(c) PROVE TreeStep
    <2> DEFINE r == CreateReq(SubSeq(Prefix, 1, opened[c] + 1), Nil, Nil, 0)
    <2>1. pc[c] = "opening" /\ multi = Nil /\ Serve(r)
        BY <1>4 DEF Open, Ready
    <2>2. opened[c] \in 0..Len(Prefix) /\ opened[c] < Len(Prefix)
        BY <2>1 DEF TypeInv, TypeOK, CallOK
    <2>3. SubSeq(Prefix, 1, opened[c] + 1) \in Paths
        <3>1. opened[c] + 1 \in 1..Len(Prefix)
            BY <2>2, PrefixFacts
        <3> QED BY <3>1 DEF Paths, PrefixPaths
    <2>4. r \in Requests /\ r.kind = "create" /\ r.eph = Nil
        BY <2>3, RequestTypes DEF CreateReq, Request
    <2> HIDE DEF r
    <2> QED BY <1>0, <2>1, <2>4, ServeStep DEF TreeStep
<1>5. ASSUME NEW c \in Clients, Create(c) PROVE TreeStep
    <2> DEFINE e == IF op[c].type = "create" /\ op[c].lease THEN c ELSE Nil
               r == CreateReq(AsPath(op[c].key), op[c].val, e, 0)
    <2>1. pc[c] = "create" /\ multi = Nil /\ Serve(r)
        BY <1>5 DEF Create, Ready
    <2>2. op[c].key \in Keys /\ op[c].val \in Values
        BY <2>1, CallAtLabel DEF CreateOp, CasOp
    <2>3. r \in Requests /\ r.kind = "create" /\ r.path \in UserPaths
        BY <2>2, PathOfKey, RequestTypes DEF CreateReq, Request
    <2> HIDE DEF r
    <2> QED BY <1>0, <2>1, <2>3, ServeStep DEF TreeStep
<1>6. ASSUME NEW c \in Clients, SetCreate(c) PROVE TreeStep
    <2> DEFINE r == CreateReq(AsPath(op[c].key), op[c].val, Nil, 0)
    <2>1. pc[c] = "set_create" /\ multi = Nil /\ Serve(r)
        BY <1>6 DEF SetCreate, Ready
    <2>2. op[c].key \in Keys /\ op[c].val \in Values
        BY <2>1, CallAtLabel DEF SetOp
    <2>3. r \in Requests /\ r.kind = "create" /\ r.path \in UserPaths
        BY <2>2, PathOfKey, RequestTypes DEF CreateReq, Request
    <2> HIDE DEF r
    <2> QED BY <1>0, <2>1, <2>3, ServeStep DEF TreeStep
<1>7. ASSUME NEW c \in Clients, SetSet(c) PROVE TreeStep
    <2> DEFINE r == SetReq(AsPath(op[c].key), op[c].val, ANY, 0)
    <2>1. pc[c] = "set_set" /\ multi = Nil /\ Serve(r)
        BY <1>7 DEF SetSet, Ready
    <2>2. op[c].key \in Keys /\ op[c].val \in Values /\ ANY \in Int
        BY <2>1, CallAtLabel DEF SetOp, ANY
    <2>3. r \in Requests /\ r.kind = "set" /\ r.path \in UserPaths
        BY <2>2, PathOfKey, RequestTypes DEF SetReq, Request
    <2> HIDE DEF r
    <2> QED BY <1>0, <2>1, <2>3, ServeStep DEF TreeStep
<1>8. ASSUME NEW c \in Clients, CasSet(c) PROVE TreeStep
    <2> DEFINE r == SetReq(AsPath(op[c].key), op[c].val, Narrow(op[c].ver - 1), 0)
    <2>1. pc[c] = "cas_set" /\ multi = Nil /\ Serve(r)
        BY <1>8 DEF CasSet, Ready
    <2>2. op[c].key \in Keys /\ op[c].val \in Values /\ op[c].ver - 1 \in Int
        BY <2>1, CallAtLabel DEF CasOp
    <2>3. Narrow(op[c].ver - 1) \in Int
        BY <2>2, NarrowIsInt
    <2>4. r \in Requests /\ r.kind = "set" /\ r.path \in UserPaths
        BY <2>2, <2>3, PathOfKey, RequestTypes DEF SetReq, Request
    <2> HIDE DEF r
    <2> QED BY <1>0, <2>1, <2>4, ServeStep DEF TreeStep
<1>9. ASSUME NEW c \in Clients, Read(c) PROVE TreeStep
    <2>1. pc[c] = "read" /\ UNCHANGED <<tree, multi>>
        BY <1>9 DEF Read, Ready
    <2>2. AsPath(op[c].key) \in Paths /\ op[c].type \in {"get", "exists", "get_children"}
        BY <2>1, CallAtLabel, PathOfKey DEF ReadOp
    <2>3. \/ handle' = handle
          \/ /\ handle' = [handle EXCEPT ![c] = NewHandle(op[c].type, AsPath(op[c].key))]
             /\ op[c].type # "exists" => tree[AsPath(op[c].key)] # Nil
        BY <1>9 DEF Read, Seen, ReadCode
    <2>4. \A d \in Clients :
             \/ handle'[d] = handle[d]
             \/ /\ handle'[d] = NewHandle(op[c].type, AsPath(op[c].key))
                /\ op[c].type # "exists" => tree[AsPath(op[c].key)] # Nil
        BY <1>0, <2>3
    <2> QED BY <2>1, <2>2, <2>4 DEF TreeStep, Quiet
<1>10. ASSUME NEW c \in Clients, Walk(c) PROVE TreeStep
    BY <1>1, <1>10 DEF Walk
<1>11. ASSUME NEW c \in Clients, Submit(c) PROVE TreeStep
    BY <1>11 DEF Submit, Ready, TreeStep, Begins
<1>12. ASSUME NEW c \in Clients, MultiStep(c) PROVE TreeStep
    <2> DEFINE r == plan[c][multi.next]
               t == Apply(multi.tree, r)
    <2>1. /\ Executing(c) /\ multi.next <= Len(plan[c]) /\ ErrorCode(multi.tree, r) = "ok"
          /\ multi' = [client |-> c, next |-> multi.next + 1, tree |-> t,
                       events |-> multi.events \cup Events(r),
                       versions |-> multi.versions \o ResultOf(r, t)]
          /\ UNCHANGED <<tree, plan, handle>>
        BY <1>12 DEF MultiStep, clientVars
    <2>2. multi \in MultiType /\ multi # Nil /\ plan[c] \in Seq(Requests \cup Visits) /\ Len(plan[c]) \in Nat
          /\ \A i \in 1..Len(plan[c]) : plan[c][i] \in Requests
        BY <2>1, RequestInExecution DEF Executing
    <2>3. multi.next \in 1..Len(plan[c]) /\ multi.tree \in Tree
        BY <2>1, <2>2 DEF MultiType
    <2>4. r \in Requests
        BY <2>2, <2>3
    <2> HIDE DEF r
    <2> QED BY <1>12, <2>1, <2>2, <2>3, <2>4 DEF TreeStep, Continues, r
<1>13. ASSUME NEW c \in Clients, MultiFail(c) PROVE TreeStep
    BY <1>13 DEF MultiFail, TreeStep, RollsBack
<1>14. ASSUME NEW c \in Clients, MultiDone(c) PROVE TreeStep
    <2>1. Executing(c) /\ tree' = multi.tree /\ multi' = Nil /\ Notify(multi.events)
        BY <1>14 DEF MultiDone
    <2>2. multi # Nil /\ multi.tree \in Tree
        BY <2>1, RequestInExecution DEF Executing, MultiType
    <2> QED BY <1>14, <2>1, <2>2 DEF TreeStep, Installs
<1>15. ASSUME NEW c \in Clients, LoseRequest(c) PROVE TreeStep
    BY <1>1, <1>15 DEF LoseRequest
<1>16. ASSUME NEW c \in Clients, WaitEnds(c) \/ DropHandle(c) \/ Die(c) PROVE TreeStep
    <2>1. UNCHANGED <<tree, multi>> /\ handle' = [handle EXCEPT ![c] = Nil]
        BY <1>16 DEF WaitEnds, DropHandle, Die
    <2>2. \A d \in Clients : handle'[d] = handle[d] \/ handle'[d] = Nil
        BY <1>0, <2>1
    <2> QED BY <2>1, <2>2 DEF TreeStep, Quiet
<1>17. ASSUME NEW c \in Clients, EndSession(c) PROVE TreeStep
    BY <1>17 DEF EndSession, Ready, TreeStep, Ends
<1>18. CASE Next
    BY <1>3, <1>4, <1>5, <1>6, <1>7, <1>8, <1>9, <1>10, <1>11, <1>12, <1>13, <1>14, <1>15, <1>16,
       <1>17, <1>18 DEF Next, Progress
<1> QED BY <1>2, <1>18

-----------------------------------------------------------------------------
(* The hierarchy. *)

HierarchyInv == WellFormed(tree) /\ (multi # Nil => WellFormed(multi.tree))

LEMMA HierarchyInit == Init => HierarchyInv
BY DEF Init, HierarchyInv, WellFormed, Rooted, EphemeralLeaves

LEMMA HierarchyNext == TypeInv /\ HierarchyInv /\ [Next]_vars => HierarchyInv'
<1> SUFFICES ASSUME TypeInv, HierarchyInv, [Next]_vars PROVE HierarchyInv'
    OBVIOUS
<1>0. tree \in Tree /\ TreeStep
    BY StepKinds DEF TypeInv, TypeOK
<1>1. CASE Quiet
    BY <1>1 DEF Quiet, HierarchyInv
<1>2. CASE Direct
    BY <1>0, <1>2, ApplyWellFormed DEF Direct, HierarchyInv
<1>3. ASSUME NEW c \in Clients, Begins(c) PROVE HierarchyInv'
    BY <1>3 DEF Begins, HierarchyInv
<1>4. ASSUME NEW c \in Clients, Continues(c) PROVE HierarchyInv'
    BY <1>4, ApplyWellFormed DEF Continues, HierarchyInv
<1>5. ASSUME NEW c \in Clients, RollsBack(c) PROVE HierarchyInv'
    BY <1>5 DEF RollsBack, HierarchyInv
<1>6. ASSUME NEW c \in Clients, Installs(c) PROVE HierarchyInv'
    BY <1>6 DEF Installs, HierarchyInv
<1>7. ASSUME NEW c \in Clients, Ends(c) PROVE HierarchyInv'
    BY <1>0, <1>7, SessionEndWellFormed DEF Ends, HierarchyInv
<1> QED BY <1>0, <1>1, <1>2, <1>3, <1>4, <1>5, <1>6, <1>7 DEF TreeStep

\* In every reachable state every node has all its ancestors and ephemeral nodes have no
\* children, also after a multi_op built from stale walks and after the end of a session.
THEOREM HierarchyKept == Spec => []WellFormed(tree)
<1>1. Init => TypeInv /\ HierarchyInv
    BY InitTyped, HierarchyInit
<1>2. TypeInv /\ HierarchyInv /\ [Next]_vars => (TypeInv /\ HierarchyInv)'
    BY NextTyped, HierarchyNext
<1>3. HierarchyInv => WellFormed(tree)
    BY DEF HierarchyInv
<1> QED BY <1>1, <1>2, <1>3, PTL DEF Spec

-----------------------------------------------------------------------------
(* Plans name user's paths only. *)

PlanPaths == \A c \in Clients : \A i \in 1..Len(plan[c]) : plan[c][i].path \in UserPaths

LEMMA SplicedEntries ==
    ASSUME NEW S, NEW q \in Seq(S), NEW mid \in Seq(S), NEW i \in 1..Len(q)
    PROVE  /\ Len(Splice(q, i, mid)) = Len(q) - 1 + Len(mid)
           /\ \A j \in 1 .. Len(Splice(q, i, mid)) :
                Splice(q, i, mid)[j] =
                    IF j < i THEN q[j]
                    ELSE IF j < i + Len(mid) THEN mid[j - i + 1]
                    ELSE q[j - Len(mid) + 1]
<1> DEFINE a == SubSeq(q, 1, i - 1)
           b == SubSeq(q, i + 1, Len(q))
<1>0. Len(q) \in Nat /\ Len(mid) \in Nat
    OBVIOUS
<1>1. a \in Seq(S) /\ Len(a) = i - 1 /\ \A j \in 1 .. (i - 1) : a[j] = q[j]
    OBVIOUS
<1>2. b \in Seq(S) /\ Len(b) = Len(q) - i /\ \A j \in 1 .. (Len(q) - i) : b[j] = q[i + j]
    OBVIOUS
<1>3. Splice(q, i, mid) = (a \o mid) \o b
    BY DEF Splice
<1> HIDE DEF a, b
<1>4. /\ a \o mid \in Seq(S) /\ Len(a \o mid) = i - 1 + Len(mid)
      /\ \A j \in 1 .. (i - 1 + Len(mid)) : (a \o mid)[j] = IF j <= i - 1 THEN a[j] ELSE mid[j - (i - 1)]
    <2>1. /\ a \o mid \in Seq(S) /\ Len(a \o mid) = Len(a) + Len(mid)
          /\ \A j \in 1 .. Len(a) + Len(mid) :
                (a \o mid)[j] = IF j <= Len(a) THEN a[j] ELSE mid[j - Len(a)]
        BY <1>1, ConcatProperties
    <2> QED BY <2>1, <1>0, <1>1
<1>5. /\ Len((a \o mid) \o b) = i - 1 + Len(mid) + Len(q) - i
      /\ \A j \in 1 .. (i - 1 + Len(mid) + Len(q) - i) :
            ((a \o mid) \o b)[j] = IF j <= i - 1 + Len(mid) THEN (a \o mid)[j]
                                   ELSE b[j - (i - 1 + Len(mid))]
    <2>1. Len(a \o mid) + Len(b) = i - 1 + Len(mid) + Len(q) - i
        BY <1>0, <1>2, <1>4
    <2> DEFINE d == a \o mid
    <2>2. d \in Seq(S) /\ Len(d) = i - 1 + Len(mid)
        BY <1>4
    <2> HIDE DEF d
    <2>3. /\ Len(d \o b) = Len(d) + Len(b)
          /\ \A j \in 1 .. Len(d) + Len(b) : (d \o b)[j] = IF j <= Len(d) THEN d[j] ELSE b[j - Len(d)]
        <3>1. d \in Seq(S) /\ b \in Seq(S)
            BY <1>2, <2>2
        <3> QED BY <3>1, ConcatProperties
    <2>4. /\ Len(d \o b) = i - 1 + Len(mid) + Len(q) - i
          /\ \A j \in 1 .. (i - 1 + Len(mid) + Len(q) - i) :
                (d \o b)[j] = IF j <= i - 1 + Len(mid) THEN d[j] ELSE b[j - (i - 1 + Len(mid))]
        BY <2>1, <2>2, <2>3 DEF d
    <2> QED BY <2>4 DEF d
<1>6. Len(Splice(q, i, mid)) = Len(q) - 1 + Len(mid)
    BY <1>0, <1>3, <1>5
<1>7. ASSUME NEW j \in 1 .. Len(Splice(q, i, mid))
      PROVE  Splice(q, i, mid)[j] = IF j < i THEN q[j]
                                    ELSE IF j < i + Len(mid) THEN mid[j - i + 1]
                                    ELSE q[j - Len(mid) + 1]
    <2>0. j \in 1 .. (i - 1 + Len(mid) + Len(q) - i)
        BY <1>0, <1>6
    <2>1. CASE j < i
        BY <2>0, <2>1, <1>0, <1>1, <1>3, <1>4, <1>5
    <2>2. CASE j >= i /\ j < i + Len(mid)
        <3>1. j \in 1 .. (i - 1 + Len(mid)) /\ j - (i - 1) = j - i + 1
            BY <2>0, <2>2, <1>0
        <3> QED BY <2>0, <2>2, <3>1, <1>0, <1>3, <1>4, <1>5
    <2>3. CASE j >= i + Len(mid)
        <3>1. j - (i - 1 + Len(mid)) \in 1 .. (Len(q) - i)
            BY <2>0, <2>3, <1>0
        <3>2. i + (j - (i - 1 + Len(mid))) = j - Len(mid) + 1
            BY <2>0, <1>0
        <3>3. b[j - (i - 1 + Len(mid))] = q[j - Len(mid) + 1]
            BY <3>1, <3>2, <1>2
        <3> QED BY <2>0, <2>3, <3>3, <1>0, <1>3, <1>5
    <2> QED BY <2>0, <2>1, <2>2, <2>3, <1>0
<1> QED BY <1>6, <1>7

\* The entries an expansion consists of.
LEMMA ExpansionEntries ==
    ASSUME NEW r \in Visits, NEW t, NEW kids \in Listings(ChildrenOf(t, r.path))
    PROVE  /\ Len(kids) \in Nat
           /\ Len(Expansion(r, kids)) = Len(kids) + 1
           /\ \A j \in 1..Len(kids) :
                /\ Expansion(r, kids)[j] = Visit("IGNORE_NO_ENTRY", kids[j], r.user)
                /\ kids[j] \in Paths /\ IsChild(r.path, kids[j])
           /\ Expansion(r, kids)[Len(kids) + 1] = EraseReq(r.path, r.user)
<1>1. /\ kids \in Seq(ChildrenOf(t, r.path)) /\ DOMAIN kids = 1..Len(kids) /\ Len(kids) \in Nat
      /\ \A i \in DOMAIN kids : kids[i] \in Paths /\ IsChild(r.path, kids[i])
    <2>1. /\ kids \in Seq(ChildrenOf(t, r.path)) /\ DOMAIN kids = 1..Len(kids)
          /\ \A i \in DOMAIN kids : kids[i] \in ChildrenOf(t, r.path)
        BY ChildrenFinite, ListingTyped
    <2>2. Len(kids) \in Nat
        BY <2>1, LenProperties
    <2>3. \A x \in ChildrenOf(t, r.path) : x \in Paths /\ IsChild(r.path, x)
        BY DEF ChildrenOf
    <2> QED BY <2>1, <2>2, <2>3
<1> DEFINE v == [i \in DOMAIN kids |-> Visit("IGNORE_NO_ENTRY", kids[i], r.user)]
           e == <<EraseReq(r.path, r.user)>>
<1>2. r.path \in Paths /\ r.user \in Nat
    BY DEF Visits
<1>3. v \in Seq(Visits) /\ Len(v) = Len(kids)
    BY <1>1, <1>2, RequestTypes DEF EraseQueryFailures
<1>4. v \in Seq(Requests \cup Visits)
    BY <1>3, SeqMonotonic
<1>5. e \in Seq(Requests \cup Visits) /\ Len(e) = 1 /\ e[1] = EraseReq(r.path, r.user)
    BY <1>2, RequestTypes
<1>6. \A j \in 1..Len(kids) : v[j] = Visit("IGNORE_NO_ENTRY", kids[j], r.user)
    BY <1>1
<1>7. Expansion(r, kids) = v \o e
    BY DEF Expansion
<1> HIDE DEF v, e
<1>8. /\ Len(v \o e) = Len(kids) + 1
      /\ \A j \in 1..Len(kids) : (v \o e)[j] = v[j]
      /\ (v \o e)[Len(kids) + 1] = e[1]
    <2>1. /\ Len(v \o e) = Len(v) + Len(e)
          /\ \A i \in 1 .. Len(v) + Len(e) : (v \o e)[i] = IF i <= Len(v) THEN v[i] ELSE e[i - Len(v)]
        BY <1>4, <1>5, ConcatProperties
    <2> QED BY <2>1, <1>1, <1>3, <1>5
<1> QED BY <1>1, <1>5, <1>6, <1>7, <1>8

\* What a step can do to the call and the plan of one client.
PlanKept(c)    == plan'[c] = plan[c] /\ op'[c] = op[c]
PlanDropped(c) == plan'[c] = <<>> /\ op'[c] = Nil
PlanFresh(c)   == op'[c] \in Op /\ plan'[c] = FreshPlan(op'[c], c)

GrownBy(c, i, mid) ==
    /\ plan'[c] = Splice(plan[c], i, mid)
    /\ \/ \E kids \in Listings(ChildrenOf(tree, plan[c][i].path)) : mid = Expansion(plan[c][i], kids)
       \/ mid = NoEntryExpansion(plan[c][i]) /\ plan[c][i].kind # "THROW_NO_ENTRY"

PlanGrown(c) ==
    /\ op'[c] = op[c]
    /\ \E i \in 1..Len(plan[c]) :
         plan[c][i] \in Visits /\ \E mid \in Seq(Requests \cup Visits) : GrownBy(c, i, mid)

PlanStep(c) == PlanKept(c) \/ PlanDropped(c) \/ PlanFresh(c) \/ PlanGrown(c)

LEMMA PlanSteps == TypeInv /\ [Next]_vars => \A c \in Clients : PlanStep(c)
<1> SUFFICES ASSUME TypeInv, [Next]_vars PROVE \A c \in Clients : PlanStep(c)
    OBVIOUS
<1>0. plan \in [Clients -> Seq(Requests \cup Visits)] /\ op \in [Clients -> Op \cup {Nil}]
    BY DEF TypeInv, TypeOK
<1>1. ASSUME UNCHANGED <<plan, op>> PROVE \A c \in Clients : PlanStep(c)
    BY <1>1 DEF PlanStep, PlanKept
<1>2. ASSUME NEW c \in Clients, NEW r, Return(c, r) PROVE \A d \in Clients : PlanStep(d)
    <2>1. plan' = [plan EXCEPT ![c] = <<>>] /\ op' = [op EXCEPT ![c] = Nil]
        BY <1>2 DEF Return
    <2> QED BY <1>0, <2>1 DEF PlanStep, PlanKept, PlanDropped
<1>3. CASE UNCHANGED vars
    BY <1>1, <1>3 DEF vars, clientVars
<1>4. ASSUME NEW c \in Clients, NEW o \in Ops, Invoke(c, o) PROVE \A d \in Clients : PlanStep(d)
    <2>1. plan' = [plan EXCEPT ![c] = FreshPlan(o, c)] /\ op' = [op EXCEPT ![c] = o] /\ o \in Op
        BY <1>4, OpsAssumption DEF Invoke
    <2> QED BY <1>0, <2>1 DEF PlanStep, PlanKept, PlanFresh
<1>5. ASSUME NEW c \in Clients, Walk(c) PROVE \A d \in Clients : PlanStep(d)
    <2>1. PICK i \in Unvisited(plan[c]) :
             \E code \in Seen(IF tree[plan[c][i].path] # Nil THEN "ok" ELSE "no_entry") :
             CASE code = "connection_loss" -> Return(c, Failure(BackendError))
               [] code = "no_entry" /\ plan[c][i].kind = "THROW_NO_ENTRY" -> Return(c, Failure("NoEntry"))
               [] OTHER ->
                    /\ \E kids \in Listings(ChildrenOf(tree, plan[c][i].path)) :
                         plan' = [plan EXCEPT ![c] =
                                    Splice(@, i, IF code = "ok" THEN Expansion(plan[c][i], kids)
                                                 ELSE NoEntryExpansion(plan[c][i]))]
                    /\ UNCHANGED <<pc, opened, op, res, calls>>
        BY <1>5 DEF Walk
    <2>2. PICK code \in Seen(IF tree[plan[c][i].path] # Nil THEN "ok" ELSE "no_entry") :
             CASE code = "connection_loss" -> Return(c, Failure(BackendError))
               [] code = "no_entry" /\ plan[c][i].kind = "THROW_NO_ENTRY" -> Return(c, Failure("NoEntry"))
               [] OTHER ->
                    /\ \E kids \in Listings(ChildrenOf(tree, plan[c][i].path)) :
                         plan' = [plan EXCEPT ![c] =
                                    Splice(@, i, IF code = "ok" THEN Expansion(plan[c][i], kids)
                                                 ELSE NoEntryExpansion(plan[c][i]))]
                    /\ UNCHANGED <<pc, opened, op, res, calls>>
        BY <2>1
    <2>3. plan[c] \in Seq(Requests \cup Visits) /\ i \in 1..Len(plan[c]) /\ IsVisit(plan[c][i])
        BY <1>0, <2>1 DEF Unvisited
    <2>4. plan[c][i] \in Visits
        <3>1. plan[c][i] \in Requests \cup Visits
            BY <2>3, ElementOfSeq
        <3> QED BY <2>3, <3>1 DEF IsVisit, EraseQueryFailures, Requests
    <2>5. CASE code = "connection_loss" \/ (code = "no_entry" /\ plan[c][i].kind = "THROW_NO_ENTRY")
        BY <1>2, <2>2, <2>5
    <2>6. CASE ~(code = "connection_loss" \/ (code = "no_entry" /\ plan[c][i].kind = "THROW_NO_ENTRY"))
        <3>1. op' = op
            BY <2>2, <2>6
        <3>2. PICK kids \in Listings(ChildrenOf(tree, plan[c][i].path)) :
                 plan' = [plan EXCEPT ![c] =
                            Splice(@, i, IF code = "ok" THEN Expansion(plan[c][i], kids)
                                         ELSE NoEntryExpansion(plan[c][i]))]
            BY <2>2, <2>6
        <3>3. code = "ok" \/ code = "no_entry"
            BY <2>6 DEF Seen
        <3> DEFINE mid == IF code = "ok" THEN Expansion(plan[c][i], kids)
                          ELSE NoEntryExpansion(plan[c][i])
        <3>4. mid \in Seq(Requests \cup Visits)
            BY <2>4, ExpansionTyped, NoEntryExpansionTyped
        <3>5. plan' = [plan EXCEPT ![c] = Splice(plan[c], i, mid)]
            BY <3>2
        <3>6. \/ \E k \in Listings(ChildrenOf(tree, plan[c][i].path)) : mid = Expansion(plan[c][i], k)
              \/ mid = NoEntryExpansion(plan[c][i]) /\ plan[c][i].kind # "THROW_NO_ENTRY"
            BY <2>6, <3>3
        <3> HIDE DEF mid
        <3>7. GrownBy(c, i, mid)
            BY <1>0, <3>5, <3>6 DEF GrownBy
        <3>8. PlanGrown(c)
            BY <2>3, <2>4, <3>1, <3>4, <3>7 DEF PlanGrown
        <3>9. \A d \in Clients : d # c => PlanKept(d)
            BY <1>0, <3>1, <3>5 DEF PlanKept
        <3> QED BY <3>8, <3>9 DEF PlanStep
    <2> QED BY <2>5, <2>6
<1>6. ASSUME NEW c \in Clients, MultiFail(c) PROVE \A d \in Clients : PlanStep(d)
    <2>1. \/ \E r : Return(c, r)
          \/ plan' = [plan EXCEPT ![c] = FreshPlan(op[c], c)] /\ op' = op
        BY <1>6 DEF MultiFail
    <2>2. CASE \E r : Return(c, r)
        BY <1>2, <2>2
    <2>3. CASE plan' = [plan EXCEPT ![c] = FreshPlan(op[c], c)] /\ op' = op
        <3>1. op[c] \in Op
            BY <1>6, RequestInExecution DEF MultiFail, Op
        <3> QED BY <1>0, <2>3, <3>1 DEF PlanStep, PlanKept, PlanFresh
    <2> QED BY <2>1, <2>2, <2>3
<1>7. ASSUME NEW c \in Clients, Die(c) PROVE \A d \in Clients : PlanStep(d)
    <2>1. plan' = [plan EXCEPT ![c] = <<>>] /\ op' = [op EXCEPT ![c] = Nil]
        BY <1>7 DEF Die
    <2> QED BY <1>0, <2>1 DEF PlanStep, PlanKept, PlanDropped
<1>8. ASSUME NEW c \in Clients, Open(c) \/ Submit(c) \/ MultiStep(c) \/ WaitEnds(c) \/ DropHandle(c) \/ EndSession(c)
      PROVE  \A d \in Clients : PlanStep(d)
    <2>1. UNCHANGED <<plan, op>>
        BY <1>8 DEF Open, Submit, MultiStep, WaitEnds, DropHandle, EndSession, clientVars
    <2> QED BY <1>1, <2>1
<1>9. ASSUME NEW c \in Clients, Create(c) \/ SetSet(c) \/ CasSet(c) \/ Read(c) \/ MultiDone(c)
      PROVE  \A d \in Clients : PlanStep(d)
    <2>1. \E r : Return(c, r)
        BY <1>9 DEF Create, SetSet, CasSet, Read, MultiDone
    <2> QED BY <1>2, <2>1
<1>10. ASSUME NEW c \in Clients, SetCreate(c) \/ LoseRequest(c) PROVE \A d \in Clients : PlanStep(d)
    <2>1. (\E r : Return(c, r)) \/ (\E l : Goto(c, l))
        BY <1>10 DEF SetCreate, LoseRequest
    <2>2. ASSUME NEW l, Goto(c, l) PROVE \A d \in Clients : PlanStep(d)
        BY <1>1, <2>2 DEF Goto
    <2> QED BY <1>2, <2>1, <2>2
<1>11. CASE Next
    BY <1>4, <1>5, <1>6, <1>7, <1>8, <1>9, <1>10, <1>11 DEF Next, Progress
<1> QED BY <1>3, <1>11

\* A fresh plan names user's paths only.
LEMMA FreshPlanPaths ==
    ASSUME NEW o \in Op, NEW c \in Clients
    PROVE  \A i \in 1..Len(FreshPlan(o, c)) : FreshPlan(o, c)[i].path \in UserPaths
<1>1. CASE o \in EraseOp
    <2>1. o.type = "erase" /\ AsPath(o.key) \in UserPaths
        BY <1>1, PathOfKey DEF EraseOp
    <2>2. FreshPlan(o, c) = ErasePlan(o)
        BY <2>1 DEF FreshPlan
    <2>3. \A i \in 1..3 : ErasePlan(o)[i].path = AsPath(o.key)
        BY DEF ErasePlan, CheckReq, Visit, Request
    <2>4. Len(ErasePlan(o)) = 3
        BY DEF ErasePlan
    <2> QED BY <2>1, <2>2, <2>3, <2>4
<1>2. CASE o \in CommitOp
    <2> DEFINE C == CheckPart(o)
               R == OpPart(o, c)
    <2>1. o.type = "commit"
        BY <1>2 DEF CommitOp
    <2>2. FreshPlan(o, c) = C \o R
        BY <2>1 DEF FreshPlan, CommitPlan
    <2>3. /\ C \in Seq(Requests \cup Visits) /\ Len(C) \in Nat
          /\ R \in Seq(Requests \cup Visits) /\ Len(R) \in Nat
          /\ \A i \in 1..Len(C) : C[i].path \in UserPaths
          /\ \A i \in 1..Len(R) : R[i].path \in UserPaths
        BY <1>2, CommitPlanParts
    <2> HIDE DEF C, R
    <2>4. /\ Len(C \o R) = Len(C) + Len(R)
          /\ \A i \in 1 .. Len(C) + Len(R) : (C \o R)[i] = IF i <= Len(C) THEN C[i] ELSE R[i - Len(C)]
        BY <2>3, ConcatProperties
    <2>5. ASSUME NEW i \in 1..Len(C \o R) PROVE (C \o R)[i].path \in UserPaths
        <3>1. CASE i <= Len(C)
            BY <3>1, <2>3, <2>4
        <3>2. CASE i > Len(C)
            <4>1. i - Len(C) \in 1..Len(R) /\ (C \o R)[i] = R[i - Len(C)]
                BY <3>2, <2>3, <2>4
            <4> QED BY <4>1, <2>3
        <3> QED BY <3>1, <3>2, <2>3, <2>4
    <2> QED BY <2>2, <2>5
<1>3. CASE o.type \notin {"erase", "commit"}
    BY <1>3 DEF FreshPlan
<1>4. o \in EraseOp \/ o \in CommitOp \/ o.type \notin {"erase", "commit"}
    BY DEF Op, CreateOp, SetOp, CasOp, ReadOp
<1> QED BY <1>1, <1>2, <1>3, <1>4

LEMMA GrownPaths ==
    ASSUME TypeInv, PlanPaths, NEW c \in Clients, PlanGrown(c)
    PROVE  \A j \in 1..Len(plan'[c]) : plan'[c][j].path \in UserPaths
<1>1. PICK i \in 1..Len(plan[c]) :
         plan[c][i] \in Visits /\ \E m \in Seq(Requests \cup Visits) : GrownBy(c, i, m)
    BY DEF PlanGrown
<1>2. PICK mid \in Seq(Requests \cup Visits) : GrownBy(c, i, mid)
    BY <1>1
<1> DEFINE q == plan[c]
           r == plan[c][i]
<1>3. q \in Seq(Requests \cup Visits) /\ Len(q) \in Nat /\ Len(mid) \in Nat /\ i \in 1..Len(q)
    BY <1>1 DEF TypeInv, TypeOK
<1>4. r \in Visits /\ r.path \in UserPaths
    BY <1>1 DEF PlanPaths
<1>5. \A j \in 1..Len(mid) : mid[j].path \in UserPaths
    <2>1. ASSUME NEW kids \in Listings(ChildrenOf(tree, r.path)), mid = Expansion(r, kids)
          PROVE  \A j \in 1..Len(mid) : mid[j].path \in UserPaths
        <3> HIDE DEF r
        <3>1. /\ Len(kids) \in Nat /\ Len(mid) = Len(kids) + 1
              /\ \A j \in 1..Len(kids) : mid[j] = Visit("IGNORE_NO_ENTRY", kids[j], r.user)
                                       /\ kids[j] \in Paths /\ IsChild(r.path, kids[j])
              /\ mid[Len(kids) + 1] = EraseReq(r.path, r.user)
            BY <1>4, <2>1, ExpansionEntries
        <3>2. ASSUME NEW j \in 1..Len(kids) PROVE mid[j].path \in UserPaths
            <4>0. /\ mid[j] = Visit("IGNORE_NO_ENTRY", kids[j], r.user)
                  /\ kids[j] \in Paths /\ IsChild(r.path, kids[j])
                BY <3>1
            <4>1. kids[j] \in Paths /\ IsChild(r.path, kids[j]) /\ mid[j].path = kids[j]
                BY <4>0 DEF Visit, Request
            <4>2. r.path \in Segments
                BY <1>4, PathLengths
            <4>3. InSubtree(r.path, kids[j])
                BY <4>1, <4>2, ChildInSubtree
            <4> QED BY <1>4, <4>1, <4>3, UserSubtree
        <3>3. mid[Len(kids) + 1].path = r.path
            BY <3>1 DEF EraseReq, Request
        <3> QED BY <1>4, <3>1, <3>2, <3>3
    <2>2. ASSUME mid = NoEntryExpansion(r) PROVE \A j \in 1..Len(mid) : mid[j].path \in UserPaths
        BY <1>4, <2>2 DEF NoEntryExpansion, EraseReq, Request
    <2> QED BY <1>2, <2>1, <2>2 DEF GrownBy
<1>6. plan'[c] = Splice(q, i, mid)
    BY <1>2 DEF GrownBy
<1>7. \A j \in 1..Len(q) : q[j].path \in UserPaths
    BY DEF PlanPaths
<1> HIDE DEF q
<1> SUFFICES ASSUME NEW j \in 1..Len(Splice(q, i, mid)) PROVE Splice(q, i, mid)[j].path \in UserPaths
    BY <1>6
<1>8. /\ Len(Splice(q, i, mid)) = Len(q) - 1 + Len(mid)
      /\ Splice(q, i, mid)[j] = IF j < i THEN q[j]
                                ELSE IF j < i + Len(mid) THEN mid[j - i + 1]
                                ELSE q[j - Len(mid) + 1]
    BY <1>3, SplicedEntries
<1>9. CASE j < i
    BY <1>3, <1>7, <1>8, <1>9
<1>10. CASE j >= i /\ j < i + Len(mid)
    <2>1. j - i + 1 \in 1..Len(mid)
        BY <1>3, <1>10
    <2> QED BY <1>5, <1>8, <1>10, <2>1
<1>11. CASE j >= i + Len(mid)
    <2>1. j - Len(mid) + 1 \in 1..Len(q)
        BY <1>3, <1>8, <1>11
    <2>2. ~(j < i) /\ ~(j < i + Len(mid))
        BY <1>3, <1>11
    <2> QED BY <1>7, <1>8, <2>1, <2>2
<1> QED BY <1>3, <1>9, <1>10, <1>11

LEMMA PlanPathsInit == Init => PlanPaths
BY DEF Init, PlanPaths

LEMMA PlanPathsNext == TypeInv /\ PlanPaths /\ [Next]_vars => PlanPaths'
<1> SUFFICES ASSUME TypeInv, PlanPaths, [Next]_vars, NEW c \in Clients
             PROVE  \A j \in 1..Len(plan'[c]) : plan'[c][j].path \in UserPaths
    BY DEF PlanPaths
<1>1. PlanStep(c)
    BY PlanSteps
<1>2. CASE PlanKept(c)
    BY <1>2 DEF PlanKept, PlanPaths
<1>3. CASE PlanDropped(c)
    BY <1>3 DEF PlanDropped
<1>4. CASE PlanFresh(c)
    BY <1>4, FreshPlanPaths DEF PlanFresh
<1>5. CASE PlanGrown(c)
    BY <1>5, GrownPaths
<1> QED BY <1>1, <1>2, <1>3, <1>4, <1>5 DEF PlanStep

-----------------------------------------------------------------------------
(* The nodes of the prefix. *)

\* What every constructor has dealt with is there, is not ephemeral, and is not touched by
\* the multi_op in execution; a client that left its constructor has dealt with all of it.
OpenedThere     == \A c \in Clients : \A i \in 1..opened[c] : tree[SubSeq(Prefix, 1, i)] # Nil
PrefixPlain     == \A p \in PrefixPaths : tree[p] # Nil => tree[p].eph = Nil
PrefixUntouched == multi # Nil => \A p \in PrefixPaths : multi.tree[p] = tree[p]
ConstructorDone == \A c \in Clients : pc[c] \notin {"opening", "dead"} => opened[c] = Len(Prefix)

PrefixInv == OpenedThere /\ PrefixPlain /\ PrefixUntouched /\ ConstructorDone

LEMMA PrefixInit == Init => PrefixInv
<1> SUFFICES ASSUME Init PROVE PrefixInv
    OBVIOUS
<1>1. OpenedThere /\ PrefixPlain /\ PrefixUntouched
    BY DEF Init, OpenedThere, PrefixPlain, PrefixUntouched, PrefixPaths, Paths
<1>2. Prefix = Root => Len(Prefix) = 0
    BY DEF Root
<1>3. ConstructorDone
    BY <1>2 DEF Init, ConstructorDone
<1> QED BY <1>1, <1>3 DEF PrefixInv

\* No step removes or changes a node of the prefix, and the nodes it adds are not ephemeral.
LEMMA PrefixStep ==
    ASSUME TypeInv, PlanPaths, PrefixInv, TreeStep
    PROVE  /\ \A p \in PrefixPaths : tree[p] # Nil => tree'[p] = tree[p]
           /\ PrefixPlain'
           /\ PrefixUntouched'
<1>0. tree \in Tree /\ \A p \in PrefixPaths : p \in Paths /\ p \notin UserPaths
    BY UserNotPrefix DEF TypeInv, TypeOK, Paths
<1>1. CASE tree' = tree /\ (multi' = Nil \/ multi' = multi)
    BY <1>1 DEF PrefixInv, PrefixPlain, PrefixUntouched
<1>2. CASE Direct
    <2>1. PICK r \in Requests : /\ r.kind \in {"create", "set"}
                                /\ r.path \in UserPaths \/ (r.kind = "create" /\ r.eph = Nil)
                                /\ ErrorCode(tree, r) = "ok"
                                /\ tree' = Apply(tree, r)
        BY <1>2 DEF Direct
    <2>2. ASSUME NEW p \in PrefixPaths
          PROVE  \/ tree'[p] = tree[p]
                 \/ tree[p] = Nil /\ tree'[p].eph = Nil
        <3>1. CASE p # r.path
            BY <1>0, <2>1, <3>1, ApplyFrame
        <3>2. CASE p = r.path
            <4>1. r.kind = "create" /\ r.eph = Nil
                BY <1>0, <2>1, <3>2
            <4>2. tree[r.path] = Nil /\ tree'[r.path] = [val |-> r.val, ver |-> 0, eph |-> r.eph]
                BY <1>0, <2>1, <4>1, ApplyAtPath
            <4> QED BY <3>2, <4>1, <4>2
        <3> QED BY <3>1, <3>2
    <2>3. multi' = Nil
        BY <1>2 DEF Direct
    <2> QED BY <2>2, <2>3 DEF PrefixInv, PrefixPlain, PrefixUntouched
<1>3. ASSUME NEW c \in Clients, Begins(c)
      PROVE  tree' = tree /\ PrefixUntouched'
    BY <1>3 DEF Begins, PrefixUntouched
<1>4. ASSUME NEW c \in Clients, Continues(c)
      PROVE  tree' = tree /\ PrefixUntouched'
    <2>1. PICK r \in Requests : /\ multi.next \in 1..Len(plan[c]) /\ r = plan[c][multi.next]
                                /\ multi.tree \in Tree
                                /\ ErrorCode(multi.tree, r) = "ok"
                                /\ multi'.tree = Apply(multi.tree, r)
        BY <1>4 DEF Continues
    <2>2. r.path \in UserPaths
        BY <2>1 DEF PlanPaths
    <2>3. tree' = tree /\ multi # Nil
        BY <1>4 DEF Continues
    <2>4. \A p \in PrefixPaths : Apply(multi.tree, r)[p] = multi.tree[p]
        BY <1>0, <2>1, <2>2, ApplyFrame
    <2> QED BY <2>1, <2>3, <2>4 DEF PrefixInv, PrefixUntouched
<1>5. ASSUME NEW c \in Clients, Installs(c)
      PROVE  multi' = Nil /\ \A p \in PrefixPaths : tree'[p] = tree[p]
    BY <1>5 DEF Installs, PrefixInv, PrefixUntouched
<1>6. ASSUME NEW c \in Clients, Ends(c)
      PROVE  multi' = Nil /\ \A p \in PrefixPaths : tree'[p] = tree[p]
    BY <1>0, <1>6, NilAssumption DEF Ends, WithoutSession, EphemeralsOf, PrefixInv, PrefixPlain
<1>7. ASSUME tree' = tree, PrefixUntouched'
      PROVE  (\A p \in PrefixPaths : tree[p] # Nil => tree'[p] = tree[p]) /\ PrefixPlain' /\ PrefixUntouched'
    BY <1>7 DEF PrefixInv, PrefixPlain
<1>8. ASSUME multi' = Nil, \A p \in PrefixPaths : tree'[p] = tree[p]
      PROVE  (\A p \in PrefixPaths : tree[p] # Nil => tree'[p] = tree[p]) /\ PrefixPlain' /\ PrefixUntouched'
    BY <1>8 DEF PrefixInv, PrefixPlain, PrefixUntouched
<1>9. Quiet \/ (\E c \in Clients : RollsBack(c)) => tree' = tree /\ (multi' = Nil \/ multi' = multi)
    BY DEF Quiet, RollsBack
<1> QED BY <1>1, <1>2, <1>3, <1>4, <1>5, <1>6, <1>7, <1>8, <1>9 DEF TreeStep

\* How a client gets through its constructor.
StaysPut(c) ==
    opened'[c] = opened[c] /\ (pc'[c] \notin {"opening", "dead"} => pc[c] \notin {"opening", "dead"})

GetsOn(c) ==
    /\ opened[c] \in 0..Len(Prefix) /\ opened[c] < Len(Prefix)
    /\ opened'[c] = opened[c] + 1
    /\ tree'[SubSeq(Prefix, 1, opened[c] + 1)] # Nil
    /\ pc'[c] \notin {"opening", "dead"} => opened'[c] = Len(Prefix)

LEMMA OpenSteps == ASSUME TypeInv, NEW c \in Clients, Open(c) PROVE StaysPut(c) \/ GetsOn(c)
<1> DEFINE p == SubSeq(Prefix, 1, opened[c] + 1)
           r == CreateReq(p, Nil, Nil, 0)
<1>1. pc[c] = "opening" /\ Serve(r)
    BY DEF Open, Ready
<1>2. opened[c] \in 0..Len(Prefix) /\ opened[c] < Len(Prefix) /\ opened[c] + 1 \in 1..Len(Prefix)
    BY <1>1, PrefixFacts DEF TypeInv, TypeOK, CallOK
<1>3. p \in Paths
    BY <1>2 DEF Paths, PrefixPaths
<1>4. r \in Requests /\ r.kind = "create" /\ r.path = p
    BY <1>3, RequestTypes DEF CreateReq, Request
<1>5. /\ tree \in Tree /\ pc \in [Clients -> Labels] /\ opened \in [Clients -> 0..Len(Prefix)]
    BY DEF TypeInv, TypeOK
<1>6. PICK code \in Seen(ErrorCode(tree, r)) :
         IF code \in {"ok", "entry_exists"}
         THEN /\ opened' = [opened EXCEPT ![c] = @ + 1]
              /\ pc' = [pc EXCEPT ![c] = IF AllOpened(opened'[c]) THEN "idle" ELSE @]
         ELSE /\ pc' = [pc EXCEPT ![c] = "dead"]
              /\ UNCHANGED opened
    BY DEF Open
<1> HIDE DEF r, p
<1>7. CASE code \notin {"ok", "entry_exists"}
    BY <1>5, <1>6, <1>7 DEF StaysPut
<1>8. CASE code \in {"ok", "entry_exists"}
    <2>1. code = ErrorCode(tree, r)
        BY <1>8 DEF Seen
    <2>2. tree'[p] # Nil
        <3>1. CASE code = "ok"
            BY <1>1, <1>3, <1>4, <1>5, <2>1, <3>1, ApplyPresence DEF Serve, Served
        <3>2. CASE code = "entry_exists"
            BY <1>1, <1>4, <2>1, <3>2 DEF Serve, Served, ErrorCode
        <3> QED BY <1>8, <3>1, <3>2
    <2>3. opened'[c] = opened[c] + 1 /\ (pc'[c] \notin {"opening", "dead"} => opened'[c] = Len(Prefix))
        BY <1>1, <1>5, <1>6, <1>8 DEF AllOpened
    <2> QED BY <1>2, <2>2, <2>3 DEF GetsOn, p
<1> QED BY <1>7, <1>8

LEMMA ConstructorSteps == TypeInv /\ [Next]_vars => \A c \in Clients : StaysPut(c) \/ GetsOn(c)
<1> SUFFICES ASSUME TypeInv, [Next]_vars PROVE \A c \in Clients : StaysPut(c) \/ GetsOn(c)
    OBVIOUS
<1>0. pc \in [Clients -> Labels] /\ opened \in [Clients -> 0..Len(Prefix)]
    BY DEF TypeInv, TypeOK
<1>1. ASSUME NEW c \in Clients, NEW l \in Labels, pc' = [pc EXCEPT ![c] = l], opened' = opened,
             pc[c] \notin {"opening", "dead"} \/ l = "dead"
      PROVE  \A d \in Clients : StaysPut(d)
    BY <1>0, <1>1 DEF StaysPut
<1>2. ASSUME UNCHANGED <<pc, opened>> PROVE \A d \in Clients : StaysPut(d)
    BY <1>2 DEF StaysPut
<1>3. ASSUME NEW c \in Clients, pc[c] \notin {"opening", "dead"},
             (\E r : Return(c, r)) \/ (\E l \in Labels : Goto(c, l)) \/ UNCHANGED <<pc, opened>>
      PROVE  \A d \in Clients : StaysPut(d)
    BY <1>1, <1>2, <1>3 DEF Return, Goto, Labels
<1>4. CASE UNCHANGED vars
    BY <1>2, <1>4 DEF vars, clientVars
<1>5. ASSUME NEW c \in Clients, NEW o \in Ops, Invoke(c, o) PROVE \A d \in Clients : StaysPut(d)
    <2>1. FirstRequest(o) \in Labels
        BY FirstRequestFacts, OpsAssumption DEF Labels
    <2> QED BY <1>1, <1>5, <2>1 DEF Invoke
<1>6. ASSUME NEW c \in Clients, Open(c) PROVE \A d \in Clients : StaysPut(d) \/ GetsOn(d)
    <2>1. \A d \in Clients : d # c => pc'[d] = pc[d] /\ opened'[d] = opened[d]
        BY <1>0, <1>6 DEF Open
    <2> QED BY <1>6, <2>1, OpenSteps DEF StaysPut
<1>7. ASSUME NEW c \in Clients, Create(c) \/ SetSet(c) \/ CasSet(c) \/ Read(c) \/ Walk(c)
      PROVE  \A d \in Clients : StaysPut(d)
    <2>1. pc[c] \notin {"opening", "dead"}
        BY <1>7 DEF Create, SetSet, CasSet, Read, Walk, Ready
    <2>2. (\E r : Return(c, r)) \/ UNCHANGED <<pc, opened>>
        BY <1>7 DEF Create, SetSet, CasSet, Read, Walk
    <2> QED BY <1>3, <2>1, <2>2
<1>8. ASSUME NEW c \in Clients, SetCreate(c) PROVE \A d \in Clients : StaysPut(d)
    <2>1. pc[c] \notin {"opening", "dead"} /\ "set_set" \in Labels
        BY <1>8 DEF SetCreate, Ready, Labels
    <2>2. (\E r : Return(c, r)) \/ Goto(c, "set_set")
        BY <1>8 DEF SetCreate
    <2> QED BY <1>3, <2>1, <2>2
<1>9. ASSUME NEW c \in Clients, MultiFail(c) \/ MultiDone(c) PROVE \A d \in Clients : StaysPut(d)
    <2>1. pc[c] \notin {"opening", "dead"}
        BY <1>9, RequestInExecution DEF MultiFail, MultiDone
    <2>2. (\E r : Return(c, r)) \/ UNCHANGED <<pc, opened>>
        BY <1>9 DEF MultiFail, MultiDone
    <2> QED BY <1>3, <2>1, <2>2
<1>10. ASSUME NEW c \in Clients, Submit(c) \/ MultiStep(c) \/ WaitEnds(c) \/ DropHandle(c) \/ EndSession(c)
      PROVE  \A d \in Clients : StaysPut(d)
    <2>1. UNCHANGED <<pc, opened>>
        BY <1>10 DEF Submit, MultiStep, WaitEnds, DropHandle, EndSession, clientVars
    <2> QED BY <1>2, <2>1
<1>11. ASSUME NEW c \in Clients, LoseRequest(c) PROVE \A d \in Clients : StaysPut(d)
    <2>1. Goto(c, "dead") \/ (pc[c] \notin {"opening", "dead"} /\ \E r : Return(c, r))
        BY <1>11 DEF LoseRequest
    <2>2. "dead" \in Labels
        BY DEF Labels
    <2> QED BY <1>1, <1>3, <2>1, <2>2 DEF Goto
<1>12. ASSUME NEW c \in Clients, Die(c) PROVE \A d \in Clients : StaysPut(d)
    <2>1. "dead" \in Labels
        BY DEF Labels
    <2> QED BY <1>1, <1>12, <2>1 DEF Die
<1>13. CASE Next
    BY <1>5, <1>6, <1>7, <1>8, <1>9, <1>10, <1>11, <1>12, <1>13 DEF Next, Progress
<1> QED BY <1>4, <1>13

LEMMA PrefixNext == TypeInv /\ PlanPaths /\ PrefixInv /\ [Next]_vars => PrefixInv'
<1> SUFFICES ASSUME TypeInv, PlanPaths, PrefixInv, [Next]_vars PROVE PrefixInv'
    OBVIOUS
<1>1. /\ \A p \in PrefixPaths : tree[p] # Nil => tree'[p] = tree[p]
      /\ PrefixPlain' /\ PrefixUntouched'
    BY StepKinds, PrefixStep
<1>2. ASSUME NEW c \in Clients
      PROVE  /\ \A i \in 1..opened'[c] : tree'[SubSeq(Prefix, 1, i)] # Nil
             /\ pc'[c] \notin {"opening", "dead"} => opened'[c] = Len(Prefix)
    <2>1. opened[c] \in 0..Len(Prefix) /\ Len(Prefix) \in Nat
        BY PrefixFacts DEF TypeInv, TypeOK
    <2>2. \A i \in 1..opened[c] : tree'[SubSeq(Prefix, 1, i)] # Nil
        <3>1. \A i \in 1..opened[c] : SubSeq(Prefix, 1, i) \in PrefixPaths
            BY <2>1 DEF PrefixPaths
        <3> QED BY <1>1, <3>1 DEF PrefixInv, OpenedThere
    <2>3. CASE StaysPut(c)
        BY <2>2, <2>3 DEF StaysPut, PrefixInv, ConstructorDone
    <2>4. CASE GetsOn(c)
        <3>1. \A i \in 1..opened'[c] : i \in 1..opened[c] \/ i = opened[c] + 1
            BY <2>1, <2>4 DEF GetsOn
        <3> QED BY <2>2, <2>4, <3>1 DEF GetsOn
    <2> QED BY <2>3, <2>4, ConstructorSteps
<1> QED BY <1>1, <1>2 DEF PrefixInv, OpenedThere, ConstructorDone

\* Once the constructor of a client has finished, every node of the prefix exists and stays,
\* whatever the clients erase and whichever session ends: no plan names a node of the prefix
\* and none of them is ephemeral.
THEOREM PrefixStays == Spec => []PrefixReady
<1>1. Init => TypeInv /\ PlanPaths /\ PrefixInv
    BY InitTyped, PlanPathsInit, PrefixInit
<1>2. TypeInv /\ PlanPaths /\ PrefixInv /\ [Next]_vars => (TypeInv /\ PlanPaths /\ PrefixInv)'
    BY NextTyped, PlanPathsNext, PrefixNext
<1>3. PrefixInv => PrefixReady
    BY DEF PrefixInv, OpenedThere, ConstructorDone, PrefixReady
<1> QED BY <1>1, <1>2, <1>3, PTL DEF Spec

-----------------------------------------------------------------------------
(* Watches. *)

ReadTypes == {"get", "exists", "get_children"}

\* What the watches of the three methods would observe has not changed from t to u unless E
\* holds their event.  get_children leaves a watch only on a node that exists.
Reported(t, u, E) ==
    \A type \in ReadTypes, p \in Paths :
        /\ <<WatchEvent(type), p>> \notin E
        /\ type = "get_children" => t[p] # Nil
        => Observation(t, type, p) = Observation(u, type, p)

LEMMA ObservationMeaning ==
    ASSUME NEW t, NEW u, NEW p \in Paths
    PROVE  /\ Observation(t, "exists", p) = Observation(u, "exists", p) <=> (t[p] # Nil <=> u[p] # Nil)
           /\ t[p] = u[p] => Observation(t, "get", p) = Observation(u, "get", p)
           /\ Observation(t, "get_children", p) = Observation(u, "get_children", p) <=>
                (t[p] # Nil <=> u[p] # Nil) /\ ChildrenOf(t, p) = ChildrenOf(u, p)
<1>1. p # Root
    BY PathFacts
<1> QED BY <1>1 DEF Observation, NodeExists

\* Two trees that differ only in whose events are in E.
LEMMA ReportedIf ==
    ASSUME NEW t, NEW u, NEW E,
           \A p \in Paths : <<"node", p>> \notin E => t[p] = u[p],
           \A p \in Paths : <<"child", p>> \notin E /\ t[p] # Nil => u[p] # Nil,
           \A p, q \in Paths : <<"child", p>> \notin E /\ IsChild(p, q) => (t[q] # Nil <=> u[q] # Nil)
    PROVE  Reported(t, u, E)
<1> SUFFICES ASSUME NEW type \in ReadTypes, NEW p \in Paths, <<WatchEvent(type), p>> \notin E,
                    type = "get_children" => t[p] # Nil
             PROVE  Observation(t, type, p) = Observation(u, type, p)
    BY DEF Reported
<1>1. CASE type = "get_children"
    <2>1. <<"child", p>> \notin E /\ t[p] # Nil /\ u[p] # Nil
        BY <1>1 DEF WatchEvent
    <2>2. ChildrenOf(t, p) = ChildrenOf(u, p)
        BY <2>1 DEF ChildrenOf
    <2> QED BY <1>1, <2>1, <2>2, ObservationMeaning
<1>2. CASE type # "get_children"
    <2>1. t[p] = u[p]
        BY <1>2 DEF WatchEvent
    <2> QED BY <1>2, <2>1, ObservationMeaning DEF ReadTypes
<1> QED BY <1>1, <1>2

LEMMA RequestReported ==
    ASSUME NEW t \in Tree, NEW r \in Requests, ErrorCode(t, r) = "ok"
    PROVE  Reported(t, Apply(t, r), Events(r))
<1> DEFINE u == Apply(t, r)
           E == Events(r)
<1>1. r.path \in Paths /\ r.kind \in {"create", "set", "check", "erase"}
    BY DEF Requests
<1>2. \A q \in Paths : q # r.path => u[q] = t[q]
    BY ApplyFrame
<1>3. \A q \in Paths : u[q] # Nil <=> IF q = r.path THEN r.kind # "erase" ELSE t[q] # Nil
    BY ApplyPresence
<1>4. r.kind = "check" => u = t
    BY ApplyAtPath
<1>5. r.kind = "set" => t[r.path] # Nil
    BY ApplyAtPath
<1>6. /\ r.kind # "check" => <<"node", r.path>> \in E
      /\ r.kind \in {"create", "erase"} => <<"child", Parent(r.path)>> \in E
      /\ r.kind = "erase" => <<"child", r.path>> \in E
    BY <1>1 DEF Events
<1> HIDE DEF u, E
<1>7. \A p \in Paths : <<"node", p>> \notin E => t[p] = u[p]
    BY <1>2, <1>4, <1>6
<1>8. \A p \in Paths : <<"child", p>> \notin E /\ t[p] # Nil => u[p] # Nil
    BY <1>3, <1>6
<1>9. \A p, q \in Paths : <<"child", p>> \notin E /\ IsChild(p, q) => (t[q] # Nil <=> u[q] # Nil)
    BY <1>1, <1>2, <1>3, <1>4, <1>5, <1>6 DEF IsChild
<1> QED BY <1>7, <1>8, <1>9, ReportedIf DEF u, E

LEMMA SessionEndReported ==
    ASSUME NEW t \in Tree, NEW c \in Clients
    PROVE  Reported(t, WithoutSession(t, c), SessionEvents(t, c))
<1> DEFINE u == WithoutSession(t, c)
           E == SessionEvents(t, c)
           S == EphemeralsOf(t, c)
<1>1. \A q \in Paths : u[q] = IF q \in S THEN Nil ELSE t[q]
    BY DEF WithoutSession
<1>2. \A q \in S : t[q] # Nil /\ q \in Paths
    BY DEF EphemeralsOf
<1>3. \A q \in S : <<"node", q>> \in E /\ <<"child", q>> \in E /\ <<"child", Parent(q)>> \in E
    <2> SUFFICES ASSUME NEW q \in S
                 PROVE  <<"node", q>> \in E /\ <<"child", q>> \in E /\ <<"child", Parent(q)>> \in E
        OBVIOUS
    <2>1. Events(EraseReq(q, 0)) = {<<"node", q>>, <<"child", q>>, <<"child", Parent(q)>>}
        BY DEF Events, EraseReq, Request
    <2>2. Events(EraseReq(q, 0)) \subseteq E
        BY DEF SessionEvents
    <2> QED BY <2>1, <2>2
<1> HIDE DEF u, E, S
<1>4. \A p \in Paths : <<"node", p>> \notin E => t[p] = u[p]
    BY <1>1, <1>3
<1>5. \A p \in Paths : <<"child", p>> \notin E /\ t[p] # Nil => u[p] # Nil
    BY <1>1, <1>3
<1>6. \A p, q \in Paths : <<"child", p>> \notin E /\ IsChild(p, q) => (t[q] # Nil <=> u[q] # Nil)
    BY <1>1, <1>2, <1>3 DEF IsChild
<1> QED BY <1>4, <1>5, <1>6, ReportedIf DEF u, E

LEMMA ReportedTransitive ==
    ASSUME NEW t, NEW u, NEW w, NEW E, NEW F, Reported(t, u, E), Reported(u, w, F)
    PROVE  Reported(t, w, E \cup F)
<1> SUFFICES ASSUME NEW type \in ReadTypes, NEW p \in Paths, <<WatchEvent(type), p>> \notin E \cup F,
                    type = "get_children" => t[p] # Nil
             PROVE  Observation(t, type, p) = Observation(w, type, p)
    BY DEF Reported
<1>1. Observation(t, type, p) = Observation(u, type, p)
    BY DEF Reported
<1>2. type = "get_children" => u[p] # Nil
    BY <1>1, ObservationMeaning
<1>3. Observation(u, type, p) = Observation(w, type, p)
    BY <1>2 DEF Reported
<1> QED BY <1>1, <1>3

\* The handle h observes what it observed when it was made, or its event has been raised.
Holds(h, t) ==
    h # Nil /\ ~h.fired =>
        /\ Observation(t, h.type, h.path) = h.seen
        /\ h.type = "get_children" => t[h.path] # Nil

WatchInv ==
    /\ \A c \in Clients : Holds(handle[c], tree)
    /\ multi # Nil => Reported(tree, multi.tree, multi.events)

LEMMA WatchInit == Init => WatchInv
BY DEF Init, WatchInv, Holds

\* A change all of whose events are passed on.
LEMMA NotifyHolds ==
    ASSUME TypeOK, WatchInv, NEW E, Notify(E), Reported(tree, tree', E)
    PROVE  \A c \in Clients : Holds(handle'[c], tree')
<1> SUFFICES ASSUME NEW c \in Clients, handle'[c] # Nil, ~handle'[c].fired
             PROVE  /\ Observation(tree', handle'[c].type, handle'[c].path) = handle'[c].seen
                    /\ handle'[c].type = "get_children" => tree'[handle'[c].path] # Nil
    BY DEF Holds
<1>1. handle'[c] = IF Triggered(handle[c], E) THEN [handle[c] EXCEPT !.fired = TRUE] ELSE handle[c]
    BY DEF Notify
<1>2. handle[c] \in HandleType \cup {Nil}
    BY DEF TypeOK
<1>3. ~Triggered(handle[c], E) /\ handle'[c] = handle[c]
    <2>1. Triggered(handle[c], E) => handle[c] \in HandleType
        BY <1>2 DEF Triggered
    <2>2. handle[c] \in HandleType => [handle[c] EXCEPT !.fired = TRUE].fired
        BY DEF HandleType
    <2> QED BY <1>1, <2>1, <2>2
<1> DEFINE h == handle[c]
<1>4. h \in HandleType /\ h # Nil /\ ~h.fired
    BY <1>2, <1>3
<1>5. h.type \in ReadTypes /\ h.path \in Paths
    BY <1>4 DEF HandleType, ReadTypes
<1>6. Observation(tree, h.type, h.path) = h.seen /\ (h.type = "get_children" => tree[h.path] # Nil)
    BY <1>4 DEF WatchInv, Holds
<1>7. <<WatchEvent(h.type), h.path>> \notin E
    BY <1>3, <1>4 DEF Triggered
<1> HIDE DEF h
<1>8. Observation(tree, h.type, h.path) = Observation(tree', h.type, h.path)
    BY <1>5, <1>6, <1>7 DEF Reported
<1>9. h.type = "get_children" => tree'[h.path] # Nil
    BY <1>5, <1>6, <1>8, ObservationMeaning
<1> QED BY <1>3, <1>6, <1>8, <1>9 DEF h

LEMMA WatchNext == TypeInv /\ WatchInv /\ [Next]_vars => WatchInv'
<1> SUFFICES ASSUME TypeInv, WatchInv, [Next]_vars PROVE WatchInv'
    OBVIOUS
<1>0. TypeOK /\ tree \in Tree /\ TreeStep
    BY StepKinds DEF TypeInv, TypeOK
<1>1. CASE Quiet
    <2>1. tree' = tree /\ multi' = multi
        BY <1>1 DEF Quiet
    <2>2. ASSUME NEW c \in Clients PROVE Holds(handle'[c], tree)
        <3>1. CASE handle'[c] = handle[c]
            BY <3>1 DEF WatchInv
        <3>2. CASE handle'[c] = Nil
            BY <3>2 DEF Holds
        <3>3. ASSUME NEW type \in {"get", "exists", "get_children"}, NEW p \in Paths,
                     handle'[c] = NewHandle(type, p), type # "exists" => tree[p] # Nil
              PROVE  Holds(handle'[c], tree)
            BY <3>3 DEF Holds, NewHandle
        <3> QED BY <1>1, <3>1, <3>2, <3>3 DEF Quiet
    <2> QED BY <2>1, <2>2 DEF WatchInv
<1>2. CASE Direct
    <2>1. PICK r \in Requests : ErrorCode(tree, r) = "ok" /\ tree' = Apply(tree, r) /\ Notify(Events(r))
        BY <1>2 DEF Direct
    <2>2. Reported(tree, tree', Events(r))
        BY <1>0, <2>1, RequestReported
    <2>3. multi' = Nil
        BY <1>2 DEF Direct
    <2> QED BY <1>0, <2>1, <2>2, <2>3, NotifyHolds DEF WatchInv
<1>3. ASSUME NEW c \in Clients, Begins(c) PROVE WatchInv'
    <2>1. tree' = tree /\ handle' = handle /\ multi'.tree = tree
        BY <1>3 DEF Begins
    <2>2. Reported(tree, tree, multi'.events)
        BY DEF Reported
    <2> QED BY <2>1, <2>2 DEF WatchInv
<1>4. ASSUME NEW c \in Clients, Continues(c) PROVE WatchInv'
    <2>1. tree' = tree /\ handle' = handle /\ multi # Nil
        BY <1>4 DEF Continues
    <2>2. PICK r \in Requests : /\ multi.tree \in Tree
                                /\ ErrorCode(multi.tree, r) = "ok"
                                /\ multi'.tree = Apply(multi.tree, r)
                                /\ multi'.events = multi.events \cup Events(r)
        BY <1>4 DEF Continues
    <2>3. Reported(multi.tree, multi'.tree, Events(r))
        BY <2>2, RequestReported
    <2>4. Reported(tree, multi'.tree, multi'.events)
        BY <2>1, <2>2, <2>3, ReportedTransitive DEF WatchInv
    <2> QED BY <2>1, <2>4 DEF WatchInv
<1>5. ASSUME NEW c \in Clients, RollsBack(c) PROVE WatchInv'
    BY <1>5 DEF RollsBack, WatchInv
<1>6. ASSUME NEW c \in Clients, Installs(c) PROVE WatchInv'
    <2>1. multi # Nil /\ tree' = multi.tree /\ multi' = Nil /\ Notify(multi.events)
        BY <1>6 DEF Installs
    <2>2. Reported(tree, tree', multi.events)
        BY <2>1 DEF WatchInv
    <2> QED BY <1>0, <2>1, <2>2, NotifyHolds DEF WatchInv
<1>7. ASSUME NEW c \in Clients, Ends(c) PROVE WatchInv'
    <2>1. multi' = Nil /\ tree' = WithoutSession(tree, c) /\ Notify(SessionEvents(tree, c))
        BY <1>7 DEF Ends
    <2>2. Reported(tree, tree', SessionEvents(tree, c))
        BY <1>0, <2>1, SessionEndReported
    <2> QED BY <1>0, <2>1, <2>2, NotifyHolds DEF WatchInv
<1> QED BY <1>0, <1>1, <1>2, <1>3, <1>4, <1>5, <1>6, <1>7 DEF TreeStep

\* A handle whose event has not been raised still describes the tree: wait() misses no
\* change, whoever makes it and whether it comes from a request, a multi_op or the end of
\* a session.
THEOREM NoMissedChange == Spec => []WatchFaithful
<1>1. Init => TypeInv /\ WatchInv
    BY InitTyped, WatchInit
<1>2. TypeInv /\ WatchInv /\ [Next]_vars => (TypeInv /\ WatchInv)'
    BY NextTyped, WatchNext
<1>3. WatchInv => WatchFaithful
    BY DEF WatchInv, Holds, WatchFaithful
<1> QED BY <1>1, <1>2, <1>3, PTL DEF Spec


-----------------------------------------------------------------------------
(* The multi_op of an erase: two checks of the key, erases below it, and   *)
(* the erase of the key itself at the end.                                 *)

PartOfErase(r, p) == InSubtree(p, r.path) /\ r.kind \in {"erase", "IGNORE_NO_ENTRY", "THROW_NO_ENTRY"}

ErasePlanOK(q, o) ==
    /\ Len(q) >= 3
    /\ q[1] = CheckReq(AsPath(o.key), ANY, 0)
    /\ q[2] = CheckReq(AsPath(o.key), ZkVersion(o.ver), 0)
    /\ \A i \in 3..Len(q) : PartOfErase(q[i], AsPath(o.key))
    /\ q[Len(q)].path = AsPath(o.key)
    /\ q[Len(q)].kind \in {"erase", "THROW_NO_ENTRY"}

ErasePlans == \A c \in Clients : op[c] \in EraseOp => ErasePlanOK(plan[c], op[c])

LEMMA FreshErasePlan == ASSUME NEW o \in EraseOp, NEW c \in Clients PROVE ErasePlanOK(FreshPlan(o, c), o)
<1>1. FreshPlan(o, c) = ErasePlan(o) /\ AsPath(o.key) \in Segments
    BY PathOfKey, PathFacts DEF FreshPlan, EraseOp
<1> DEFINE p == AsPath(o.key)
           q == ErasePlan(o)
<1>2. InSubtree(p, p)
    BY <1>1, SubtreeReflexive
<1>3. /\ Len(q) = 3 /\ q[1] = CheckReq(p, ANY, 0) /\ q[2] = CheckReq(p, ZkVersion(o.ver), 0)
      /\ q[3] = Visit("THROW_NO_ENTRY", p, 0)
    BY DEF ErasePlan
<1>4. q[3].path = p /\ q[3].kind = "THROW_NO_ENTRY"
    BY <1>3 DEF Visit, Request
<1> HIDE DEF p, q
<1>5. \A i \in 3..Len(q) : PartOfErase(q[i], p)
    BY <1>2, <1>3, <1>4 DEF PartOfErase
<1> QED BY <1>1, <1>3, <1>4, <1>5 DEF ErasePlanOK, p, q

\* One get_children request of the walk keeps the plan in shape.
LEMMA GrownErasePlan ==
    ASSUME TypeInv, NEW c \in Clients, op[c] \in EraseOp, ErasePlanOK(plan[c], op[c]), PlanGrown(c)
    PROVE  ErasePlanOK(plan'[c], op[c])
<1> DEFINE o == op[c]
           p == AsPath(op[c].key)
           q == plan[c]
<1>1. PICK i \in 1..Len(q) : q[i] \in Visits /\ \E m \in Seq(Requests \cup Visits) : GrownBy(c, i, m)
    BY DEF PlanGrown
<1>2. PICK mid \in Seq(Requests \cup Visits) : GrownBy(c, i, mid)
    BY <1>1
<1> DEFINE r == q[i]
           w == Splice(q, i, mid)
<1>3. q \in Seq(Requests \cup Visits) /\ Len(q) \in Nat /\ Len(mid) \in Nat /\ i \in 1..Len(q)
    BY <1>1 DEF TypeInv, TypeOK
<1>4. /\ Len(q) >= 3 /\ q[1] = CheckReq(p, ANY, 0) /\ q[2] = CheckReq(p, ZkVersion(o.ver), 0)
      /\ \A j \in 3..Len(q) : PartOfErase(q[j], p)
      /\ q[Len(q)].path = p /\ q[Len(q)].kind \in {"erase", "THROW_NO_ENTRY"}
    BY DEF ErasePlanOK
<1>5. p \in Paths /\ p \in Segments
    BY PathOfKey, PathFacts DEF EraseOp
<1>6. r \in Visits /\ r.kind \in EraseQueryFailures /\ r.path \in Paths /\ r.path \in Segments
    BY <1>1, PathFacts DEF Visits
<1>7. i >= 3
    <2>1. q[1].kind = "check" /\ q[2].kind = "check"
        BY <1>4 DEF CheckReq, Request
    <2>2. i # 1 /\ i # 2
        BY <1>6, <2>1 DEF EraseQueryFailures
    <2> QED BY <1>3, <2>2
<1>8. InSubtree(p, r.path) /\ r.kind \in {"IGNORE_NO_ENTRY", "THROW_NO_ENTRY"}
    BY <1>3, <1>4, <1>6, <1>7 DEF PartOfErase, EraseQueryFailures
<1>9. /\ plan'[c] = w
      /\ \/ \E kids \in Listings(ChildrenOf(tree, r.path)) : mid = Expansion(r, kids)
         \/ mid = NoEntryExpansion(r) /\ r.kind # "THROW_NO_ENTRY"
    BY <1>2 DEF GrownBy
<1>10. /\ Len(w) = Len(q) - 1 + Len(mid)
       /\ \A j \in 1..Len(w) : w[j] = IF j < i THEN q[j]
                                      ELSE IF j < i + Len(mid) THEN mid[j - i + 1]
                                      ELSE q[j - Len(mid) + 1]
    BY <1>3, SplicedEntries
<1> HIDE DEF o, p, q, r, w
<1>11. /\ \A j \in 1..Len(mid) : PartOfErase(mid[j], p)
       /\ Len(mid) > 0 => mid[Len(mid)].path = r.path /\ mid[Len(mid)].kind = "erase"
       /\ Len(mid) = 0 => r.kind # "THROW_NO_ENTRY"
    <2>1. ASSUME NEW kids \in Listings(ChildrenOf(tree, r.path)), mid = Expansion(r, kids)
          PROVE  <1>11!1 /\ <1>11!2 /\ <1>11!3
        <3>1. /\ Len(kids) \in Nat /\ Len(mid) = Len(kids) + 1
              /\ \A j \in 1..Len(kids) : mid[j] = Visit("IGNORE_NO_ENTRY", kids[j], r.user)
                                       /\ kids[j] \in Paths /\ IsChild(r.path, kids[j])
              /\ mid[Len(kids) + 1] = EraseReq(r.path, r.user)
            BY <1>6, <2>1, ExpansionEntries
        <3>2. ASSUME NEW j \in 1..Len(kids) PROVE PartOfErase(mid[j], p)
            <4>1. /\ mid[j] = Visit("IGNORE_NO_ENTRY", kids[j], r.user)
                  /\ kids[j] \in Paths /\ IsChild(r.path, kids[j])
                BY <3>1
            <4>2. mid[j].path = kids[j] /\ mid[j].kind = "IGNORE_NO_ENTRY"
                BY <4>1 DEF Visit, Request
            <4>3. InSubtree(r.path, kids[j]) /\ kids[j] \in Segments
                BY <1>6, <4>1, ChildInSubtree, PathFacts
            <4>4. InSubtree(p, kids[j])
                BY <1>5, <1>6, <1>8, <4>3, SubtreeTransitive
            <4> QED BY <4>2, <4>4 DEF PartOfErase
        <3>3. mid[Len(kids) + 1].path = r.path /\ mid[Len(kids) + 1].kind = "erase"
            BY <3>1 DEF EraseReq, Request
        <3>4. PartOfErase(mid[Len(kids) + 1], p)
            BY <1>8, <3>3 DEF PartOfErase
        <3> QED BY <3>1, <3>2, <3>3, <3>4
    <2>2. ASSUME mid = NoEntryExpansion(r), r.kind # "THROW_NO_ENTRY"
          PROVE  <1>11!1 /\ <1>11!2 /\ <1>11!3
        <3>1. mid = <<>>
            BY <1>8, <2>2 DEF NoEntryExpansion
        <3> QED BY <2>2, <3>1
    <2> QED BY <1>9, <2>1, <2>2
<1>12. Len(w) >= 3 /\ Len(w) \in Nat
    <2>1. CASE Len(mid) > 0
        BY <1>3, <1>4, <1>10, <2>1
    <2>2. CASE Len(mid) = 0
        <3>1. i # Len(q)
            BY <1>4, <1>8, <1>11, <2>2 DEF r
        <3> QED BY <1>3, <1>7, <1>10, <2>2, <3>1
    <2> QED BY <1>3, <2>1, <2>2
<1>13. w[1] = CheckReq(p, ANY, 0) /\ w[2] = CheckReq(p, ZkVersion(o.ver), 0)
    <2>1. 1 \in 1..Len(w) /\ 2 \in 1..Len(w) /\ 1 < i /\ 2 < i
        BY <1>3, <1>7, <1>12
    <2> QED BY <1>4, <1>10, <2>1
<1>14. ASSUME NEW j \in 3..Len(w) PROVE PartOfErase(w[j], p)
    <2>1. j \in 1..Len(w)
        BY <1>12
    <2>2. CASE j < i
        BY <1>3, <1>4, <1>10, <2>1, <2>2
    <2>3. CASE j >= i /\ j < i + Len(mid)
        <3>1. j - i + 1 \in 1..Len(mid) /\ w[j] = mid[j - i + 1]
            BY <1>3, <1>10, <2>1, <2>3
        <3> QED BY <1>11, <3>1
    <2>4. CASE j >= i + Len(mid)
        <3>1. j - Len(mid) + 1 \in 3..Len(q) /\ ~(j < i)
            BY <1>3, <1>7, <1>10, <2>1, <2>4
        <3>2. w[j] = q[j - Len(mid) + 1]
            BY <1>10, <2>1, <2>4, <3>1
        <3> QED BY <1>4, <3>1, <3>2
    <2> QED BY <1>3, <2>2, <2>3, <2>4
<1>15. w[Len(w)].path = p /\ w[Len(w)].kind \in {"erase", "THROW_NO_ENTRY"}
    <2>1. Len(w) \in 1..Len(w)
        BY <1>12
    <2>2. CASE i = Len(q)
        <3>1. r.path = p /\ r.kind = "THROW_NO_ENTRY" /\ Len(mid) > 0
            BY <1>3, <1>4, <1>8, <1>11, <2>2 DEF r
        <3>2. ~(Len(w) < i) /\ Len(w) < i + Len(mid) /\ Len(w) - i + 1 = Len(mid)
            BY <1>3, <1>10, <2>2, <3>1
        <3>3. w[Len(w)] = mid[Len(mid)]
            BY <1>10, <2>1, <3>2
        <3> QED BY <1>11, <3>1, <3>3
    <2>3. CASE i # Len(q)
        <3>1. ~(Len(w) < i) /\ ~(Len(w) < i + Len(mid)) /\ Len(w) - Len(mid) + 1 = Len(q)
            BY <1>3, <1>10, <2>3
        <3>2. w[Len(w)] = q[Len(q)]
            BY <1>10, <2>1, <3>1
        <3> QED BY <1>4, <3>2
    <2> QED BY <2>2, <2>3
<1>16. ErasePlanOK(w, o)
    BY <1>12, <1>13, <1>14, <1>15 DEF ErasePlanOK, p, o
<1> QED BY <1>9, <1>16 DEF o

LEMMA ErasePlansInit == Init => ErasePlans
<1>1. Nil \notin EraseOp
    BY OpsAssumption DEF Op
<1> QED BY <1>1 DEF Init, ErasePlans

LEMMA ErasePlansNext == TypeInv /\ ErasePlans /\ [Next]_vars => ErasePlans'
<1> SUFFICES ASSUME TypeInv, ErasePlans, [Next]_vars, NEW c \in Clients, op'[c] \in EraseOp
             PROVE  ErasePlanOK(plan'[c], op'[c])
    BY DEF ErasePlans
<1>1. PlanStep(c)
    BY PlanSteps
<1>2. CASE PlanKept(c)
    BY <1>2 DEF PlanKept, ErasePlans
<1>3. CASE PlanDropped(c)
    BY <1>3, OpsAssumption DEF PlanDropped, Op
<1>4. CASE PlanFresh(c)
    BY <1>4, FreshErasePlan DEF PlanFresh
<1>5. CASE PlanGrown(c)
    BY <1>5, GrownErasePlan DEF PlanGrown, ErasePlans
<1> QED BY <1>1, <1>2, <1>3, <1>4, <1>5 DEF PlanStep

-----------------------------------------------------------------------------
(* The multi_op in execution. *)

\* While a multi_op is in execution its client does nothing else, and neither does the tree.
LEMMA ExecutionKept ==
    ASSUME TypeInv, [Next]_vars, multi # Nil, multi' # Nil
    PROVE  /\ multi.client \in Clients /\ multi'.client = multi.client
           /\ op'[multi.client] = op[multi.client] /\ plan'[multi.client] = plan[multi.client]
           /\ tree' = tree
           /\ multi' = multi \/ Continues(multi.client)
<1> DEFINE e == multi.client
<1>1. multi \in MultiType /\ e \in Clients /\ pc[e] = "build"
    BY DEF TypeInv, TypeOK, CallOK, MultiType
<1>2. op \in [Clients -> Op \cup {Nil}] /\ plan \in [Clients -> Seq(Requests \cup Visits)]
    BY DEF TypeInv, TypeOK
<1>3. TreeStep
    BY StepKinds
<1>4. Quiet \/ \E c \in Clients : Continues(c)
    BY <1>3 DEF TreeStep, Direct, Begins, RollsBack, Installs, Ends
<1>5. CASE \E c \in Clients : Continues(c)
    <2>1. PICK c \in Clients : Continues(c)
        BY <1>5
    <2>2. /\ c = e /\ multi'.client = c /\ tree' = tree /\ plan' = plan /\ op' = op
        BY <2>1 DEF Continues, Executing, MultiStep, clientVars
    <2> QED BY <1>1, <2>1, <2>2
<1>6. CASE Quiet
    <2>1. tree' = tree /\ multi' = multi
        BY <1>6 DEF Quiet
    <2>2. ASSUME NEW c \in Clients, NEW o \in Ops, Invoke(c, o) PROVE op'[e] = op[e] /\ plan'[e] = plan[e]
        <3>1. c # e
            BY <1>1, <2>2 DEF Invoke
        <3>2. op' = [op EXCEPT ![c] = o] /\ plan' = [plan EXCEPT ![c] = FreshPlan(o, c)]
            BY <2>2 DEF Invoke
        <3> QED BY <1>1, <1>2, <3>1, <3>2
    <2>3. ASSUME NEW c \in Clients,
                 Open(c) \/ Create(c) \/ SetCreate(c) \/ SetSet(c) \/ CasSet(c) \/ Read(c) \/ Walk(c)
                 \/ Submit(c) \/ MultiFail(c) \/ MultiDone(c) \/ EndSession(c)
          PROVE  FALSE
        BY <2>3 DEF Open, Create, SetCreate, SetSet, CasSet, Read, Walk, Submit, Ready, MultiFail,
                    MultiDone, EndSession
    <2>4. ASSUME NEW c \in Clients, LoseRequest(c) PROVE op'[e] = op[e] /\ plan'[e] = plan[e]
        <3>1. c # e
            BY <2>4 DEF LoseRequest, Executing
        <3>2. (\E r : Return(c, r)) \/ (\E l : Goto(c, l))
            BY <2>4 DEF LoseRequest
        <3> QED BY <1>1, <1>2, <3>1, <3>2 DEF Return, Goto
    <2>5. ASSUME NEW c \in Clients, Die(c) PROVE op'[e] = op[e] /\ plan'[e] = plan[e]
        <3>1. c # e
            BY <2>5 DEF Die, Executing
        <3> QED BY <1>1, <1>2, <2>5, <3>1 DEF Die
    <2>6. ASSUME NEW c \in Clients, MultiStep(c) \/ WaitEnds(c) \/ DropHandle(c)
          PROVE  op'[e] = op[e] /\ plan'[e] = plan[e]
        BY <2>6 DEF MultiStep, WaitEnds, DropHandle, clientVars
    <2>7. ASSUME UNCHANGED vars PROVE op'[e] = op[e] /\ plan'[e] = plan[e]
        BY <2>7 DEF vars, clientVars
    <2>8. op'[e] = op[e] /\ plan'[e] = plan[e]
        BY <2>2, <2>3, <2>4, <2>5, <2>6, <2>7 DEF Next, Progress
    <2> QED BY <1>1, <2>1, <2>8
<1> QED BY <1>4, <1>5, <1>6

\* What the requests executed so far, the first n - 1 of plan q, have made of tree t: the
\* checks change nothing, the erases nothing outside the subtree, the last one empties it.
EraseRun(o, q, n, t, u) ==
    LET p == AsPath(o.key) IN
    /\ n <= 3 => u = t
    /\ n >= 2 => t[p] # Nil
    /\ n >= 3 => ZkVersion(o.ver) \in {ANY, t[p].ver}
    /\ \A x \in Paths : ~InSubtree(p, x) => u[x] = t[x]
    /\ n > Len(q) => \A x \in Paths : InSubtree(p, x) => u[x] = Nil

EraseRuns ==
    multi # Nil /\ op[multi.client] \in EraseOp =>
        EraseRun(op[multi.client], plan[multi.client], multi.next, tree, multi.tree)

\* One request of the multi_op of an erase.
LEMMA EraseRequest ==
    ASSUME NEW o \in EraseOp, NEW q \in Seq(Requests), ErasePlanOK(q, o), NEW n \in 1..Len(q),
           NEW t \in Tree, NEW u \in Tree, WellFormed(u), EraseRun(o, q, n, t, u),
           ErrorCode(u, q[n]) = "ok"
    PROVE  EraseRun(o, q, n + 1, t, Apply(u, q[n]))
<1> DEFINE p == AsPath(o.key)
           r == q[n]
           w == Apply(u, r)
<1>1. p \in Paths /\ p \in Segments /\ p # Root
    BY PathOfKey, PathFacts DEF EraseOp
<1>2. r \in Requests /\ Len(q) \in Nat /\ r.kind \in {"create", "set", "check", "erase"}
    <2>1. r \in Requests
        BY ElementOfSeq
    <2> QED BY <2>1 DEF Requests
<1>3. /\ Len(q) >= 3 /\ q[1] = CheckReq(p, ANY, 0) /\ q[2] = CheckReq(p, ZkVersion(o.ver), 0)
      /\ \A j \in 3..Len(q) : PartOfErase(q[j], p)
      /\ q[Len(q)].path = p /\ q[Len(q)].kind \in {"erase", "THROW_NO_ENTRY"}
    BY DEF ErasePlanOK
<1>4. /\ n <= 3 => u = t
      /\ n >= 2 => t[p] # Nil
      /\ n >= 3 => ZkVersion(o.ver) \in {ANY, t[p].ver}
      /\ \A x \in Paths : ~InSubtree(p, x) => u[x] = t[x]
    BY DEF EraseRun
<1> SUFFICES /\ n + 1 <= 3 => w = t
             /\ n + 1 >= 2 => t[p] # Nil
             /\ n + 1 >= 3 => ZkVersion(o.ver) \in {ANY, t[p].ver}
             /\ \A x \in Paths : ~InSubtree(p, x) => w[x] = t[x]
             /\ n + 1 > Len(q) => \A x \in Paths : InSubtree(p, x) => w[x] = Nil
    BY DEF EraseRun
<1> HIDE DEF p
<1>5. CASE n = 1
    <2>1. r.kind = "check" /\ r.path = p
        BY <1>3, <1>5 DEF CheckReq, Request
    <2>2. w = u /\ u[p] # Nil
        BY <1>2, <2>1, ApplyAtPath
    <2> QED BY <1>2, <1>3, <1>4, <1>5, <2>2
<1>6. CASE n = 2
    <2>1. r.kind = "check" /\ r.path = p /\ r.ver = ZkVersion(o.ver)
        BY <1>3, <1>6 DEF CheckReq, Request
    <2>2. w = u /\ u[p] # Nil
        BY <1>2, <2>1, ApplyAtPath
    <2>3. r.ver \in {ANY, u[p].ver}
        BY <2>1 DEF ErrorCode
    <2> QED BY <1>2, <1>3, <1>4, <1>6, <2>1, <2>2, <2>3
<1>7. CASE n >= 3
    <2>1. InSubtree(p, r.path) /\ r.kind = "erase"
        BY <1>2, <1>3, <1>7 DEF PartOfErase
    <2>2. r.path \in Paths
        BY <1>2 DEF Requests
    <2>3. ASSUME NEW x \in Paths, ~InSubtree(p, x) PROVE w[x] = t[x]
        BY <1>2, <1>4, <2>1, <2>3, ApplyFrame
    <2>4. ASSUME n = Len(q), NEW x \in Paths, InSubtree(p, x) PROVE w[x] = Nil
        <3>1. r.path = p
            BY <1>3, <2>4
        <3>2. ChildrenOf(u, p) = {} /\ w[p] = Nil
            BY <1>2, <2>1, <3>1, ApplyAtPath
        <3>3. CASE x = p
            BY <3>2, <3>3
        <3>4. CASE x # p
            <4>1. PICK y \in Paths : IsChild(p, y) /\ InSubtree(y, x)
                BY <1>1, <2>4, <3>4, ChildOnTheWay
            <4>2. u[y] = Nil
                BY <3>2, <4>1 DEF ChildrenOf
            <4>3. u[x] = Nil
                BY <4>1, <4>2 DEF WellFormed, Rooted
            <4> QED BY <1>2, <3>1, <3>4, <4>3, ApplyFrame
        <3> QED BY <3>3, <3>4
    <2>5. n + 1 > Len(q) => n = Len(q)
        BY <1>2
    <2>6. ~(n + 1 <= 3)
        BY <1>7
    <2> QED BY <1>4, <1>7, <2>3, <2>4, <2>5, <2>6
<1> QED BY <1>2, <1>5, <1>6, <1>7

LEMMA EraseRunsNext ==
    TypeInv /\ HierarchyInv /\ ErasePlans /\ EraseRuns /\ [Next]_vars => EraseRuns'
<1> SUFFICES ASSUME TypeInv, HierarchyInv, ErasePlans, EraseRuns, [Next]_vars,
                    multi' # Nil, op'[multi'.client] \in EraseOp
             PROVE  EraseRun(op'[multi'.client], plan'[multi'.client], multi'.next, tree', multi'.tree)
    BY DEF EraseRuns
<1>1. CASE multi = Nil
    <2>1. \E c \in Clients : Begins(c)
        BY <1>1, StepKinds DEF TreeStep, Quiet, Direct, Continues, RollsBack, Installs, Ends
    <2>2. PICK c \in Clients : Begins(c)
        BY <2>1
    <2>3. /\ multi'.client = c /\ multi'.next = 1 /\ multi'.tree = tree /\ tree' = tree
          /\ op' = op /\ plan' = plan
        BY <2>2 DEF Begins, Submit, clientVars
    <2>4. Len(plan[c]) >= 3 /\ Len(plan[c]) \in Nat
        BY <2>3 DEF ErasePlans, ErasePlanOK, TypeInv, TypeOK
    <2> QED BY <2>3, <2>4 DEF EraseRun
<1>2. CASE multi # Nil
    <2> DEFINE e == multi.client
    <2>1. /\ e \in Clients /\ multi'.client = e /\ op'[e] = op[e] /\ plan'[e] = plan[e]
          /\ tree' = tree /\ (multi' = multi \/ Continues(e))
        BY <1>2, ExecutionKept
    <2>2. EraseRun(op[e], plan[e], multi.next, tree, multi.tree)
        BY <1>2, <2>1 DEF EraseRuns
    <2>3. CASE multi' = multi
        BY <2>1, <2>2, <2>3
    <2>4. CASE Continues(e)
        <3>1. PICK r \in Requests : /\ multi.next \in 1..Len(plan[e]) /\ r = plan[e][multi.next]
                                    /\ multi.tree \in Tree
                                    /\ ErrorCode(multi.tree, r) = "ok"
                                    /\ multi'.tree = Apply(multi.tree, r)
                                    /\ multi'.next = multi.next + 1
            BY <2>4 DEF Continues
        <3>2. plan[e] \in Seq(Requests)
            <4>1. Executing(e)
                BY <1>2 DEF Executing
            <4>2. plan[e] \in Seq(Requests \cup Visits) /\ \A i \in 1..Len(plan[e]) : plan[e][i] \in Requests
                BY <2>1, <4>1, RequestInExecution
            <4> QED BY <4>2
        <3>3. ErasePlanOK(plan[e], op[e]) /\ op[e] \in EraseOp
            BY <2>1 DEF ErasePlans
        <3>4. WellFormed(multi.tree) /\ tree \in Tree
            BY <1>2 DEF HierarchyInv, TypeInv, TypeOK
        <3>5. EraseRun(op[e], plan[e], multi.next + 1, tree, Apply(multi.tree, plan[e][multi.next]))
            BY <2>2, <3>1, <3>2, <3>3, <3>4, EraseRequest
        <3> QED BY <2>1, <3>1, <3>5
    <2> QED BY <2>1, <2>3, <2>4
<1> QED BY <1>1, <1>2

-----------------------------------------------------------------------------
(* The answer. *)

\* The answer of an erase is given when its multi_op fails at the second check, or is done.
LEMMA EraseAnswers ==
    ASSUME TypeInv, [Next]_vars, NEW c \in Clients, EraseReturns(c)
    PROVE  (MultiFail(c) /\ multi.next = 2) \/ MultiDone(c)
<1>0. op[c] # Nil /\ op[c].type = "erase" /\ op'[c] = Nil /\ res'[c] = Version(0) /\ pc'[c] = "idle"
    BY DEF EraseReturns
<1>1. /\ op \in [Clients -> Op \cup {Nil}] /\ res \in [Clients -> Answer \cup {Nil}]
      /\ pc \in [Clients -> Labels]
    BY DEF TypeInv, TypeOK
<1>2. ASSUME op' = op PROVE FALSE
    BY <1>0, <1>2
<1>3. ASSUME NEW d \in Clients, NEW x, op' = [op EXCEPT ![d] = x] PROVE d = c
    BY <1>0, <1>1, <1>3
<1>4. \A x : Failure(x) # Version(0)
    BY DEF Failure, Version
<1>5. ASSUME NEW d \in Clients, NEW x, Return(d, Failure(x)) PROVE FALSE
    <2>1. d = c
        BY <1>3, <1>5 DEF Return
    <2>2. res'[c] = Failure(x)
        BY <1>1, <1>5, <2>1 DEF Return
    <2> QED BY <1>0, <1>4, <2>2
<1>6. ASSUME NEW d \in Clients, \E r : Return(d, r), pc[d] \in {"create", "set_create", "set_set", "cas_set", "read"}
      PROVE  FALSE
    <2>1. d = c
        BY <1>3, <1>6 DEF Return
    <2>2. \/ op[c] \in CreateOp \/ op[c] \in CasOp \/ op[c] \in SetOp \/ op[c] \in ReadOp
        BY <1>6, <2>1, CallAtLabel
    <2> QED BY <1>0, <2>2 DEF CreateOp, CasOp, SetOp, ReadOp
<1>7. CASE UNCHANGED vars
    BY <1>2, <1>7 DEF vars, clientVars
<1>8. ASSUME NEW d \in Clients, NEW o \in Ops, Invoke(d, o) PROVE FALSE
    <2>1. op' = [op EXCEPT ![d] = o] /\ o # Nil
        BY <1>8, OpsAssumption DEF Invoke
    <2>2. d = c
        BY <1>3, <2>1
    <2> QED BY <1>0, <1>1, <2>1, <2>2
<1>9. ASSUME NEW d \in Clients, Create(d) \/ SetSet(d) \/ CasSet(d) \/ Read(d) PROVE FALSE
    <2>1. (\E r : Return(d, r)) /\ pc[d] \in {"create", "set_create", "set_set", "cas_set", "read"}
        BY <1>9 DEF Create, SetSet, CasSet, Read, Ready
    <2> QED BY <1>6, <2>1
<1>10. ASSUME NEW d \in Clients, SetCreate(d) PROVE FALSE
    <2>1. pc[d] = "set_create" /\ ((\E r : Return(d, r)) \/ op' = op)
        BY <1>10 DEF SetCreate, Ready, Goto
    <2> QED BY <1>2, <1>6, <2>1
<1>11. ASSUME NEW d \in Clients, Walk(d) PROVE FALSE
    <2>1. (\E x : Return(d, Failure(x))) \/ op' = op
        BY <1>11 DEF Walk
    <2> QED BY <1>2, <1>5, <2>1
<1>12. ASSUME NEW d \in Clients, LoseRequest(d) PROVE FALSE
    <2>1. (\E x : Return(d, Failure(x))) \/ op' = op
        BY <1>12 DEF LoseRequest, Goto
    <2> QED BY <1>2, <1>5, <2>1
<1>13. ASSUME NEW d \in Clients, Die(d) PROVE FALSE
    <2>1. d = c
        BY <1>3, <1>13 DEF Die
    <2>2. pc'[c] = "dead"
        BY <1>1, <1>13, <2>1 DEF Die
    <2> QED BY <1>0, <2>2
<1>14. ASSUME NEW d \in Clients, Open(d) \/ Submit(d) \/ MultiStep(d) \/ WaitEnds(d) \/ DropHandle(d) \/ EndSession(d)
       PROVE  FALSE
    <2>1. op' = op
        BY <1>14 DEF Open, Submit, MultiStep, WaitEnds, DropHandle, EndSession, clientVars
    <2> QED BY <1>2, <2>1
<1>15. ASSUME NEW d \in Clients, MultiDone(d) PROVE MultiDone(c)
    <2>1. \E r : Return(d, r)
        BY <1>15 DEF MultiDone
    <2>2. d = c
        BY <1>3, <2>1 DEF Return
    <2> QED BY <1>15, <2>2
<1>16. ASSUME NEW d \in Clients, MultiFail(d) PROVE MultiFail(c) /\ multi.next = 2
    <2>1. op' = op \/ \E r : Return(d, r)
        BY <1>16 DEF MultiFail
    <2>2. d = c
        BY <1>2, <1>3, <2>1 DEF Return
    <2>3. \/ op' = op
          \/ \E x : Return(c, Failure(x))
          \/ Return(c, EraseFailed(multi.next)) /\ EraseFailed(multi.next) # <<"retry">>
        BY <1>0, <1>16, <2>2 DEF MultiFail
    <2>4. Return(c, EraseFailed(multi.next)) /\ EraseFailed(multi.next) # <<"retry">>
        BY <1>2, <1>5, <2>3
    <2>5. EraseFailed(multi.next) = Version(0)
        BY <1>0, <1>1, <2>4 DEF Return
    <2>6. multi.next = 2
        BY <1>4, <2>4, <2>5 DEF EraseFailed
    <2> QED BY <1>16, <2>2, <2>6
<1>17. CASE Next
    BY <1>8, <1>9, <1>10, <1>11, <1>12, <1>13, <1>14, <1>15, <1>16, <1>17 DEF Next, Progress
<1> QED BY <1>7, <1>17

EraseInv == TypeInv /\ HierarchyInv /\ ErasePlans /\ EraseRuns

\* What the answer of an erase says about the step that gives it.
LEMMA EraseStep ==
    ASSUME EraseInv, [Next]_vars, NEW c \in Clients, EraseReturns(c)
    PROVE  LET p == AsPath(op[c].key)
           IN  /\ tree[p] # Nil
               /\ tree' = IF ZkVersion(op[c].ver) \in {ANY, tree[p].ver}
                          THEN [q \in Paths |-> IF InSubtree(p, q) THEN Nil ELSE tree[q]]
                          ELSE tree
<1> DEFINE o == op[c]
           p == AsPath(op[c].key)
           q == plan[c]
           n == multi.next
<1>0. (MultiFail(c) /\ multi.next = 2) \/ MultiDone(c)
    BY EraseAnswers DEF EraseInv
<1>1. multi # Nil /\ multi.client = c /\ Executing(c)
    BY <1>0 DEF MultiFail, MultiDone, Executing
<1>2. /\ multi \in MultiType /\ q \in Seq(Requests \cup Visits) /\ Len(q) \in Nat
      /\ \A i \in 1..Len(q) : q[i] \in Requests
      /\ op[c] \in EraseOp \/ op[c] \in CommitOp
    BY <1>1, RequestInExecution DEF EraseInv
<1>3. o \in EraseOp
    BY <1>2 DEF EraseReturns, CommitOp
<1>4. n \in Nat /\ multi.tree \in Tree /\ tree \in Tree
    BY <1>2 DEF MultiType, EraseInv, TypeInv, TypeOK
<1>5. ErasePlanOK(q, o) /\ EraseRun(o, q, n, tree, multi.tree)
    BY <1>1, <1>3 DEF EraseInv, ErasePlans, EraseRuns
<1>6. /\ n <= 3 => multi.tree = tree
      /\ n >= 2 => tree[p] # Nil
      /\ n >= 3 => ZkVersion(o.ver) \in {ANY, tree[p].ver}
      /\ \A x \in Paths : ~InSubtree(p, x) => multi.tree[x] = tree[x]
      /\ n > Len(q) => \A x \in Paths : InSubtree(p, x) => multi.tree[x] = Nil
    BY <1>5 DEF EraseRun
<1>7. Len(q) >= 3 /\ q[2] = CheckReq(p, ZkVersion(o.ver), 0)
    BY <1>5 DEF ErasePlanOK
<1>8. CASE MultiFail(c) /\ n = 2
    <2>1. tree' = tree /\ ErrorCode(multi.tree, q[n]) # "ok"
        BY <1>8 DEF MultiFail
    <2>2. multi.tree = tree /\ tree[p] # Nil
        BY <1>6, <1>8
    <2>3. q[2].kind = "check" /\ q[2].path = p /\ q[2].ver = ZkVersion(o.ver)
        BY <1>7 DEF CheckReq, Request
    <2>4. ErrorCode(tree, q[2]) # "ok"
        BY <1>8, <2>1, <2>2
    <2>5. ZkVersion(o.ver) \notin {ANY, tree[p].ver}
        BY <2>2, <2>3, <2>4 DEF ErrorCode
    <2> QED BY <2>1, <2>2, <2>5
<1>9. CASE MultiDone(c)
    <2>1. tree' = multi.tree /\ n > Len(q)
        BY <1>9 DEF MultiDone
    <2>2. tree[p] # Nil /\ ZkVersion(o.ver) \in {ANY, tree[p].ver}
        BY <1>2, <1>4, <1>6, <1>7, <2>1
    <2> DEFINE w == [x \in Paths |-> IF InSubtree(p, x) THEN Nil ELSE tree[x]]
    <2>3. multi.tree = w
        <3>1. \A x \in Paths : multi.tree[x] = w[x]
            BY <1>6, <2>1
        <3>2. DOMAIN multi.tree = Paths /\ DOMAIN w = Paths
            BY <1>4 DEF Tree
        <3>3. multi.tree = [x \in Paths |-> multi.tree[x]]
            BY <1>4 DEF Tree
        <3> QED BY <3>1, <3>3
    <2> QED BY <2>1, <2>2, <2>3
<1> QED BY <1>0, <1>8, <1>9

\* An erase that returns normally found its key and removed it with everything below it and
\* nothing else, in the step that ends it, or changed nothing because the version of the key
\* was not the one asked for.
THEOREM ErasesExactly == Spec => EraseExact
<1>1. Init => EraseInv
    <2>1. Init => EraseRuns
        BY DEF Init, EraseRuns
    <2> QED BY <2>1, InitTyped, HierarchyInit, ErasePlansInit DEF EraseInv
<1>2. EraseInv /\ [Next]_vars => EraseInv'
    BY NextTyped, HierarchyNext, ErasePlansNext, EraseRunsNext DEF EraseInv
<1>3. EraseInv /\ [Next]_vars =>
        [\A c \in Clients : EraseReturns(c) =>
           LET p == AsPath(op[c].key)
           IN  /\ tree[p] # Nil
               /\ tree' = IF ZkVersion(op[c].ver) \in {ANY, tree[p].ver}
                          THEN [q \in Paths |-> IF InSubtree(p, q) THEN Nil ELSE tree[q]]
                          ELSE tree]_vars
    BY EraseStep
<1> QED BY <1>1, <1>2, <1>3, PTL DEF Spec, EraseExact

=============================================================================
