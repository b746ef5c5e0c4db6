--------------------------- MODULE ZKClientProofs ---------------------------
(***************************************************************************)
(* Proofs about ZKClient, for every set of clients, keys and calls, every  *)
(* prefix and every bound: facts about paths and about what a request does *)
(* to the tree, and type correctness.                                      *)
(***************************************************************************)
EXTENDS ZKClient, SequenceTheorems, FiniteSetTheorems, TLAPS

Segments == Seq(STRING)

-----------------------------------------------------------------------------
(* Paths. *)

LEMMA PrefixPointwise ==
    ASSUME NEW p \in Segments, NEW q \in Segments
    PROVE  InSubtree(p, q) <=> Len(p) <= Len(q) /\ \A i \in 1..Len(p) : p[i] = q[i]
BY DEF InSubtree, IsPrefix, Segments

LEMMA SubtreeReflexive == \A p \in Segments : InSubtree(p, p)
BY PrefixPointwise DEF Segments

LEMMA SubtreeTransitive ==
    ASSUME NEW p \in Segments, NEW q \in Segments, NEW r \in Segments,
           InSubtree(p, q), InSubtree(q, r)
    PROVE  InSubtree(p, r)
<1>1. /\ Len(p) \in Nat /\ Len(q) \in Nat /\ Len(r) \in Nat
    BY DEF Segments
<1>2. \A i \in 1..Len(p) : i \in 1..Len(q)
    BY <1>1, PrefixPointwise
<1> QED BY <1>1, <1>2, PrefixPointwise

LEMMA TruncateProperties ==
    ASSUME NEW p \in Segments, NEW n \in 0..Len(p)
    PROVE  /\ SubSeq(p, 1, n) \in Segments
           /\ Len(SubSeq(p, 1, n)) = n
           /\ \A i \in 1..n : SubSeq(p, 1, n)[i] = p[i]
BY DEF Segments

LEMMA SamePath ==
    ASSUME NEW p \in Segments, NEW q \in Segments, Len(p) = Len(q), InSubtree(p, q)
    PROVE  p = q
BY PrefixPointwise, SeqEqual DEF Segments

LEMMA JoinProperties ==
    ASSUME NEW p \in Segments, NEW q \in Segments
    PROVE  /\ Join(p, q) \in Segments
           /\ Len(Join(p, q)) = Len(p) + Len(q)
           /\ \A i \in 1 .. Len(p) + Len(q) :
                Join(p, q)[i] = IF i <= Len(p) THEN p[i] ELSE q[i - Len(p)]
BY ConcatProperties DEF Join, Segments

LEMMA KeyFacts == \A k \in Keys : k \in Segments /\ Len(k) \in Nat \ {0}
BY KeysAssumption, EmptySeq DEF Segments

LEMMA PrefixFacts == Prefix \in Segments /\ Len(Prefix) \in Nat
BY PrefixAssumption DEF Segments

\* A prefix of a path is shorter than a user's path.
LEMMA PathLengths ==
    /\ \A p \in PrefixPaths : p \in Segments /\ Len(p) \in 1..Len(Prefix)
    /\ \A p \in UserPaths : p \in Segments /\ Len(p) \in Nat /\ Len(p) > Len(Prefix)
<1>1. ASSUME NEW p \in PrefixPaths PROVE p \in Segments /\ Len(p) \in 1..Len(Prefix)
    <2>1. PICK i \in 1..Len(Prefix) : p = SubSeq(Prefix, 1, i)
        BY DEF PrefixPaths
    <2>2. i \in 0..Len(Prefix)
        BY PrefixFacts
    <2> QED BY <2>1, <2>2, PrefixFacts, TruncateProperties
<1>2. ASSUME NEW p \in UserPaths
      PROVE  p \in Segments /\ Len(p) \in Nat /\ Len(p) > Len(Prefix)
    <2>1. PICK k \in Keys : p = Join(Prefix, k)
        BY DEF UserPaths
    <2>2. k \in Segments /\ Len(k) \in Nat \ {0}
        BY KeyFacts
    <2>3. p \in Segments /\ Len(p) = Len(Prefix) + Len(k)
        BY <2>1, <2>2, PrefixFacts, JoinProperties
    <2> QED BY <2>2, <2>3, PrefixFacts
<1> QED BY <1>1, <1>2

LEMMA PathFacts == \A p \in Paths : p \in Segments /\ Len(p) \in Nat \ {0} /\ p # Root
<1>1. \A p \in Paths : p \in Segments /\ Len(p) \in Nat \ {0}
    BY PathLengths, PrefixFacts DEF Paths
<1> QED BY <1>1, EmptySeq DEF Root, Segments

LEMMA UserNotPrefix == UserPaths \cap PrefixPaths = {}
BY PathLengths, PrefixFacts

\* Paths holds every non-empty prefix of its members.
LEMMA PathsClosed ==
    ASSUME NEW p \in Paths, NEW n \in 1..Len(p)
    PROVE  SubSeq(p, 1, n) \in Paths
<1> USE PrefixFacts
<1>0. p \in Segments /\ Len(p) \in Nat \ {0}
    BY PathFacts
<1>1. CASE p \in PrefixPaths
    <2>1. PICK i \in 1..Len(Prefix) : p = SubSeq(Prefix, 1, i)
        BY <1>1 DEF PrefixPaths
    <2>2. Len(p) = i /\ \A j \in 1..i : p[j] = Prefix[j]
        BY <2>1, TruncateProperties
    <2>3. n \in 1..Len(Prefix) /\ n \in 0..Len(p) /\ n \in 0..Len(Prefix)
        BY <2>2
    <2>4. SubSeq(p, 1, n) = SubSeq(Prefix, 1, n)
        <3>1. /\ SubSeq(p, 1, n) \in Segments /\ Len(SubSeq(p, 1, n)) = n
              /\ \A j \in 1..n : SubSeq(p, 1, n)[j] = p[j]
            BY <2>3, <1>0, TruncateProperties
        <3>2. /\ SubSeq(Prefix, 1, n) \in Segments /\ Len(SubSeq(Prefix, 1, n)) = n
              /\ \A j \in 1..n : SubSeq(Prefix, 1, n)[j] = Prefix[j]
            BY <2>3, TruncateProperties
        <3>3. \A j \in 1..n : SubSeq(p, 1, n)[j] = SubSeq(Prefix, 1, n)[j]
            BY <3>1, <3>2, <2>2, <2>3
        <3> QED BY <3>1, <3>2, <3>3, SeqEqual DEF Segments
    <2> QED BY <2>3, <2>4 DEF Paths, PrefixPaths
<1>2. CASE p \in UserPaths
    <2>1. PICK k \in Keys : p = Join(Prefix, k)
        BY <1>2 DEF UserPaths
    <2>2. k \in Segments /\ Len(k) \in Nat \ {0}
        BY KeyFacts
    <2>3. /\ Len(p) = Len(Prefix) + Len(k)
          /\ \A i \in 1 .. Len(Prefix) + Len(k) :
               p[i] = IF i <= Len(Prefix) THEN Prefix[i] ELSE k[i - Len(Prefix)]
        BY <2>1, <2>2, JoinProperties
    <2>4. /\ SubSeq(p, 1, n) \in Segments /\ Len(SubSeq(p, 1, n)) = n
          /\ \A j \in 1..n : SubSeq(p, 1, n)[j] = p[j]
        BY <1>0, TruncateProperties
    <2>5. CASE n <= Len(Prefix)
        <3>1. /\ SubSeq(Prefix, 1, n) \in Segments /\ Len(SubSeq(Prefix, 1, n)) = n
              /\ \A j \in 1..n : SubSeq(Prefix, 1, n)[j] = Prefix[j]
            BY <2>5, TruncateProperties
        <3>2. \A j \in 1..n : SubSeq(p, 1, n)[j] = SubSeq(Prefix, 1, n)[j]
            BY <3>1, <2>3, <2>4, <2>5, <2>2
        <3>3. SubSeq(p, 1, n) = SubSeq(Prefix, 1, n)
            BY <3>1, <3>2, <2>4, SeqEqual DEF Segments
        <3> QED BY <3>3, <2>5 DEF Paths, PrefixPaths
    <2>6. CASE n > Len(Prefix)
        <3> DEFINE m == n - Len(Prefix)
                   t == SubSeq(k, 1, m)
        <3>1. m \in 1..Len(k) /\ m \in 0..Len(k)
            BY <2>6, <2>3, <2>2
        <3>2. t \in Segments /\ Len(t) = m /\ \A j \in 1..m : t[j] = k[j]
            BY <3>1, <2>2, TruncateProperties
        <3>3. t \in Keys
            BY <3>1, KeysAssumption
        <3>4. /\ Join(Prefix, t) \in Segments /\ Len(Join(Prefix, t)) = n
              /\ \A j \in 1..n : Join(Prefix, t)[j] = IF j <= Len(Prefix) THEN Prefix[j] ELSE t[j - Len(Prefix)]
            <4> HIDE DEF t
            <4>1. Len(Prefix) + Len(t) = n
                BY <3>1, <3>2, <2>2
            <4> QED BY <4>1, <3>2, JoinProperties
        <3>5. \A j \in 1..n : SubSeq(p, 1, n)[j] = Join(Prefix, t)[j]
            <4> TAKE j \in 1..n
            <4>1. CASE j <= Len(Prefix)
                BY <4>1, <3>4, <2>4, <2>3, <2>2
            <4>2. CASE j > Len(Prefix)
                <5>1. j - Len(Prefix) \in 1..m
                    BY <4>2
                <5>2. t[j - Len(Prefix)] = k[j - Len(Prefix)]
                    BY <5>1, <3>2
                <5> QED BY <5>1, <5>2, <4>2, <3>4, <2>4, <2>3, <2>2
            <4> QED BY <4>1, <4>2
        <3>6. SubSeq(p, 1, n) = Join(Prefix, t)
            BY <3>4, <3>5, <2>4, SeqEqual DEF Segments
        <3> QED BY <3>3, <3>6 DEF Paths, UserPaths
    <2> QED BY <2>5, <2>6
<1> QED BY <1>1, <1>2 DEF Paths

\* The parent of a path: it is a path or the root, and the path is in its subtree.
LEMMA ParentFacts ==
    ASSUME NEW p \in Paths
    PROVE  /\ Parent(p) \in Paths \cup {Root}
           /\ Parent(p) \in Segments
           /\ Len(Parent(p)) = Len(p) - 1
           /\ InSubtree(Parent(p), p)
<1>1. p \in Segments /\ Len(p) \in Nat \ {0} /\ p # Root
    BY PathFacts
<1>2. Parent(p) = SubSeq(p, 1, Len(p) - 1)
    BY <1>1 DEF Parent, Front
<1>3. Len(p) - 1 \in 0..Len(p)
    BY <1>1
<1>4. /\ Parent(p) \in Segments /\ Len(Parent(p)) = Len(p) - 1
      /\ \A i \in 1..(Len(p) - 1) : Parent(p)[i] = p[i]
    BY <1>1, <1>2, <1>3, TruncateProperties
<1>5. InSubtree(Parent(p), p)
    BY <1>1, <1>4, PrefixPointwise
<1>6. CASE Len(p) = 1
    <2>1. Len(Parent(p)) = 0
        BY <1>6, <1>4
    <2>2. Parent(p) = Root
        BY <2>1, <1>4, EmptySeq DEF Root, Segments
    <2> QED BY <2>2, <1>4, <1>5
<1>7. CASE Len(p) > 1
    <2>1. Len(p) - 1 \in 1..Len(p)
        BY <1>1, <1>7
    <2>2. Parent(p) \in Paths
        BY <2>1, <1>2, PathsClosed
    <2> QED BY <2>2, <1>4, <1>5
<1>8. Len(p) = 1 \/ Len(p) > 1
    <2>1. \A n \in Nat \ {0} : n = 1 \/ n > 1
        OBVIOUS
    <2> QED BY <1>1, <2>1
<1> QED BY <1>6, <1>7, <1>8

\* What lies strictly below p has its parent in p's subtree.
LEMMA ParentInSubtree ==
    ASSUME NEW p \in Segments, NEW q \in Paths, InSubtree(p, q), p # q
    PROVE  InSubtree(p, Parent(q))
<1>1. /\ q \in Segments /\ Len(q) \in Nat \ {0} /\ Len(p) \in Nat
      /\ Parent(q) \in Segments /\ Len(Parent(q)) = Len(q) - 1
      /\ InSubtree(Parent(q), q)
    BY PathFacts, ParentFacts DEF Segments
<1>2. Len(p) <= Len(q) /\ \A i \in 1..Len(p) : p[i] = q[i]
    BY <1>1, PrefixPointwise
<1>3. Len(p) # Len(q)
    BY <1>1, SamePath
<1>4. \A i \in 1..Len(Parent(q)) : Parent(q)[i] = q[i]
    BY <1>1, PrefixPointwise
<1> QED BY <1>1, <1>2, <1>3, <1>4, PrefixPointwise

LEMMA ChildInSubtree ==
    ASSUME NEW p \in Segments, NEW q \in Paths, IsChild(p, q)
    PROVE  InSubtree(p, q) /\ p # q
<1>1. Parent(q) = p
    BY DEF IsChild
<1>2. InSubtree(p, q) /\ Len(p) = Len(q) - 1 /\ Len(q) \in Nat
    BY <1>1, ParentFacts, PathFacts
<1> QED BY <1>2

\* What lies strictly below p is in the subtree of a child of p.
LEMMA ChildOnTheWay ==
    ASSUME NEW p \in Paths, NEW r \in Paths, InSubtree(p, r), p # r
    PROVE  \E q \in Paths : IsChild(p, q) /\ InSubtree(q, r)
<1>1. /\ p \in Segments /\ r \in Segments /\ Len(p) \in Nat \ {0} /\ Len(r) \in Nat \ {0}
    BY PathFacts
<1>2. Len(p) < Len(r)
    <2>1. Len(p) <= Len(r)
        BY <1>1, PrefixPointwise
    <2>2. Len(p) # Len(r)
        BY <1>1, SamePath
    <2> QED BY <1>1, <2>1, <2>2
<1> DEFINE q == SubSeq(r, 1, Len(p) + 1)
<1>3. Len(p) + 1 \in 1..Len(r) /\ Len(p) + 1 \in 0..Len(r)
    BY <1>1, <1>2
<1>4. q \in Paths
    BY <1>3, PathsClosed
<1>5. q \in Segments /\ Len(q) = Len(p) + 1 /\ \A i \in 1 .. (Len(p) + 1) : q[i] = r[i]
    BY <1>1, <1>3, TruncateProperties
<1> HIDE DEF q
<1>6. InSubtree(q, r)
    BY <1>1, <1>3, <1>5, PrefixPointwise
<1>7. InSubtree(p, q)
    BY <1>1, <1>2, <1>5, PrefixPointwise
<1>8. /\ Parent(q) \in Segments /\ Len(Parent(q)) = Len(p) /\ InSubtree(p, Parent(q))
    BY <1>1, <1>4, <1>5, <1>7, ParentFacts, ParentInSubtree
<1>9. Parent(q) = p
    BY <1>1, <1>8, SamePath
<1> QED BY <1>4, <1>6, <1>9, PathFacts DEF IsChild

\* The subtree of a user's path holds user's paths only.
LEMMA UserSubtree ==
    ASSUME NEW p \in UserPaths, NEW q \in Paths, InSubtree(p, q)
    PROVE  q \in UserPaths
<1>1. Len(p) \in Nat /\ Len(p) > Len(Prefix) /\ p \in Segments
    BY PathLengths
<1>2. Len(p) <= Len(q) /\ Len(q) \in Nat
    BY <1>1, PathFacts, PrefixPointwise
<1> QED BY <1>1, <1>2, PathLengths, PrefixFacts DEF Paths

-----------------------------------------------------------------------------
(* The tree. *)

\* Everything above a node is there.
Rooted(t) == \A p, q \in Paths : InSubtree(q, p) /\ t[p] # Nil => t[q] # Nil

\* Ephemeral nodes have no children.
EphemeralLeaves(t) ==
    \A p, q \in Paths : t[p] # Nil /\ t[p].eph # Nil /\ IsChild(p, q) => t[q] = Nil

WellFormed(t) == Rooted(t) /\ EphemeralLeaves(t)

\* A request changes the node it names and no other.
LEMMA ApplyFrame ==
    ASSUME NEW t \in Tree, NEW r \in Requests, ErrorCode(t, r) = "ok",
           NEW q \in Paths, q # r.path
    PROVE  Apply(t, r)[q] = t[q]
BY DEF Apply, Tree, Requests

\* What a request does to the node it names.
LEMMA ApplyAtPath ==
    ASSUME NEW t \in Tree, NEW r \in Requests, ErrorCode(t, r) = "ok"
    PROVE  /\ Apply(t, r) \in Tree
           /\ r.path \in Paths
           /\ r.kind = "create" => /\ t[r.path] = Nil
                                   /\ NodeExists(t, Parent(r.path))
                                   /\ Parent(r.path) # Root => t[Parent(r.path)].eph = Nil
                                   /\ Apply(t, r)[r.path] = [val |-> r.val, ver |-> 0, eph |-> r.eph]
           /\ r.kind = "set" => /\ t[r.path] # Nil
                                /\ Apply(t, r)[r.path] =
                                     [val |-> r.val, ver |-> t[r.path].ver + 1, eph |-> t[r.path].eph]
           /\ r.kind = "erase" => /\ t[r.path] # Nil
                                  /\ ChildrenOf(t, r.path) = {}
                                  /\ Apply(t, r)[r.path] = Nil
           /\ r.kind = "check" => Apply(t, r) = t /\ t[r.path] # Nil
<1>1. r.path \in Paths /\ r.val \in Values \cup {Nil} /\ r.eph \in Clients \cup {Nil}
      /\ r.kind \in {"create", "set", "check", "erase"}
    BY DEF Requests
<1>2. t \in [Paths -> ZNode \cup {Nil}]
    BY DEF Tree
<1>3. CASE r.kind = "create"
    <2>1. Apply(t, r) = [t EXCEPT ![r.path] = [val |-> r.val, ver |-> 0, eph |-> r.eph]]
        BY <1>3 DEF Apply
    <2>2. [val |-> r.val, ver |-> 0, eph |-> r.eph] \in ZNode
        BY <1>1 DEF ZNode
    <2>3. Apply(t, r) \in Tree
        BY <2>1, <2>2, <1>1, <1>2 DEF Tree
    <2> QED BY <2>1, <2>3, <1>1, <1>2, <1>3 DEF ErrorCode
<1>4. CASE r.kind = "set"
    <2>1. t[r.path] # Nil
        BY <1>4 DEF ErrorCode
    <2>2. Apply(t, r) = [t EXCEPT ![r.path] = [val |-> r.val, ver |-> t[r.path].ver + 1, eph |-> t[r.path].eph]]
        BY <1>4, <1>1, <1>2 DEF Apply
    <2>3. t[r.path] \in ZNode
        BY <1>1, <1>2, <2>1
    <2>4. [val |-> r.val, ver |-> t[r.path].ver + 1, eph |-> t[r.path].eph] \in ZNode
        BY <1>1, <2>3 DEF ZNode
    <2>5. Apply(t, r) \in Tree
        BY <2>2, <2>4, <1>1, <1>2 DEF Tree
    <2> QED BY <2>1, <2>2, <2>5, <1>1, <1>2, <1>4
<1>5. CASE r.kind = "erase"
    BY <1>1, <1>2, <1>5 DEF ErrorCode, Apply, Tree
<1>6. CASE r.kind = "check"
    BY <1>1, <1>2, <1>6 DEF ErrorCode, Apply, Tree
<1> QED BY <1>1, <1>3, <1>4, <1>5, <1>6

\* The nodes that a request leaves alone keep their owner; a new node has the request's.
LEMMA ApplyPresence ==
    ASSUME NEW t \in Tree, NEW r \in Requests, ErrorCode(t, r) = "ok", NEW q \in Paths
    PROVE  /\ Apply(t, r)[q] # Nil <=> IF q = r.path THEN r.kind # "erase" ELSE t[q] # Nil
           /\ (t[q] # Nil /\ Apply(t, r)[q] # Nil) => Apply(t, r)[q].eph = t[q].eph
<1>1. CASE q # r.path
    BY <1>1, ApplyFrame
<1>2. CASE q = r.path
    <2>1. t[q] # Nil => t[q] \in ZNode
        BY DEF Tree
    <2>2. r.val \in Values \cup {Nil} /\ r.eph \in Clients \cup {Nil}
        BY DEF Requests
    <2>3. CASE r.kind = "create"
        <3>1. [val |-> r.val, ver |-> 0, eph |-> r.eph] \in ZNode
            BY <2>2 DEF ZNode
        <3> QED BY <1>2, <2>3, <3>1, ApplyAtPath, NodesAssumption
    <2>4. CASE r.kind = "set"
        <3>1. t[q] \in ZNode
            BY <1>2, <2>1, <2>4, ApplyAtPath
        <3>2. [val |-> r.val, ver |-> t[q].ver + 1, eph |-> t[q].eph] \in ZNode
              /\ [val |-> r.val, ver |-> t[q].ver + 1, eph |-> t[q].eph].eph = t[q].eph
            BY <3>1, <2>2 DEF ZNode
        <3> QED BY <1>2, <2>4, <3>2, ApplyAtPath, NodesAssumption
    <2>5. CASE r.kind = "erase"
        BY <1>2, <2>5, ApplyAtPath
    <2>6. CASE r.kind = "check"
        BY <1>2, <2>6, ApplyAtPath
    <2> QED BY <2>3, <2>4, <2>5, <2>6 DEF Requests
<1> QED BY <1>1, <1>2

\* A request that succeeds leaves a well-formed tree well-formed.
LEMMA ApplyWellFormed ==
    ASSUME NEW t \in Tree, NEW r \in Requests, ErrorCode(t, r) = "ok", WellFormed(t)
    PROVE  WellFormed(Apply(t, r))
<1> DEFINE u == Apply(t, r)
<1>0. r.path \in Paths
    BY DEF Requests
<1>1. ASSUME NEW q \in Paths
      PROVE  /\ u[q] # Nil <=> IF q = r.path THEN r.kind # "erase" ELSE t[q] # Nil
             /\ (t[q] # Nil /\ u[q] # Nil) => u[q].eph = t[q].eph
    BY ApplyPresence
<1>3. r.kind = "create" => /\ t[r.path] = Nil
                           /\ NodeExists(t, Parent(r.path))
                           /\ Parent(r.path) # Root => t[Parent(r.path)].eph = Nil
                           /\ u[r.path] = [val |-> r.val, ver |-> 0, eph |-> r.eph]
    BY ApplyAtPath
<1>4. r.kind = "erase" => ChildrenOf(t, r.path) = {}
    BY ApplyAtPath
<1>5. r.kind # "create" => t[r.path] # Nil
    BY ApplyAtPath DEF Requests
<1> HIDE DEF u
<1>6. Rooted(u)
    <2> SUFFICES ASSUME NEW p \in Paths, NEW q \in Paths, InSubtree(q, p), u[p] # Nil, u[q] = Nil
                 PROVE  FALSE
        BY DEF Rooted
    <2>0. p # q
        OBVIOUS
    <2>1. CASE p # r.path
        <3>1. t[p] # Nil /\ t[q] # Nil
            BY <2>1, <1>1 DEF WellFormed, Rooted
        <3>2. q = r.path /\ r.kind = "erase"
            BY <3>1, <1>1
        <3>3. PICK s \in Paths : IsChild(q, s) /\ InSubtree(s, p)
            BY <2>0, ChildOnTheWay
        <3>4. t[s] # Nil
            BY <3>1, <3>3 DEF WellFormed, Rooted
        <3> QED BY <3>2, <3>3, <3>4, <1>4 DEF ChildrenOf
    <2>2. CASE p = r.path
        <3>1. t[q] = Nil
            BY <2>0, <2>2, <1>1
        <3>2. r.kind = "create"
            BY <3>1, <2>2, <1>5 DEF WellFormed, Rooted
        <3>3. InSubtree(q, Parent(p)) /\ q \in Segments /\ q # Root
            BY <2>0, ParentInSubtree, PathFacts
        <3>4. Parent(p) # Root
            <4>1. Len(q) \in Nat \ {0} /\ Len(Parent(p)) >= Len(q)
                BY <3>3, PathFacts, ParentFacts, PrefixPointwise
            <4> QED BY <4>1, EmptySeq DEF Root
        <3>5. Parent(p) \in Paths /\ t[Parent(p)] # Nil
            BY <3>2, <3>4, <2>2, <1>3, ParentFacts DEF NodeExists
        <3> QED BY <3>1, <3>3, <3>5 DEF WellFormed, Rooted
    <2> QED BY <2>1, <2>2
<1>7. EphemeralLeaves(u)
    <2> SUFFICES ASSUME NEW p \in Paths, NEW q \in Paths,
                        u[p] # Nil, u[p].eph # Nil, IsChild(p, q), u[q] # Nil
                 PROVE  FALSE
        BY DEF EphemeralLeaves
    <2>1. p # q /\ InSubtree(p, q) /\ Parent(q) = p /\ p # Root
        BY ChildInSubtree, PathFacts DEF IsChild
    <2>2. CASE t[p] = Nil
        <3>1. p = r.path
            BY <2>2, <1>1
        <3>2. t[q] # Nil
            BY <3>1, <2>1, <1>1
        <3> QED BY <3>2, <2>1, <2>2 DEF WellFormed, Rooted
    <2>3. CASE t[p] # Nil
        <3>1. t[p].eph # Nil
            BY <2>3, <1>1
        <3>2. t[q] = Nil
            BY <3>1, <2>3 DEF WellFormed, EphemeralLeaves
        <3>3. q = r.path /\ r.kind = "create"
            BY <3>2, <1>1, <1>5
        <3> QED BY <3>1, <3>3, <2>1, <1>3
    <2> QED BY <2>2, <2>3
<1> QED BY <1>6, <1>7 DEF WellFormed, u

\* So does the end of a session, because ephemeral nodes have nothing below them.
LEMMA SessionEndWellFormed ==
    ASSUME NEW t \in Tree, NEW c \in Clients, WellFormed(t)
    PROVE  WithoutSession(t, c) \in Tree /\ WellFormed(WithoutSession(t, c))
<1> DEFINE u == WithoutSession(t, c)
<1>1. ASSUME NEW p \in Paths
      PROVE  u[p] = IF t[p] # Nil /\ t[p].eph = c THEN Nil ELSE t[p]
    BY DEF WithoutSession, EphemeralsOf
<1>2. u \in Tree
    BY DEF WithoutSession, Tree
<1>3. Rooted(u)
    <2> SUFFICES ASSUME NEW p \in Paths, NEW q \in Paths, InSubtree(q, p), u[p] # Nil, u[q] = Nil
                 PROVE  FALSE
        BY DEF Rooted
    <2>1. p # q /\ t[p] # Nil /\ t[q] # Nil
        BY <1>1 DEF WellFormed, Rooted
    <2>2. t[q].eph # Nil
        BY <2>1, <1>1, NilAssumption
    <2>3. PICK s \in Paths : IsChild(q, s) /\ InSubtree(s, p)
        BY <2>1, ChildOnTheWay
    <2> QED BY <2>1, <2>2, <2>3 DEF WellFormed, Rooted, EphemeralLeaves
<1>4. EphemeralLeaves(u)
    <2> SUFFICES ASSUME NEW p \in Paths, NEW q \in Paths,
                        u[p] # Nil, u[p].eph # Nil, IsChild(p, q)
                 PROVE  u[q] = Nil
        BY DEF EphemeralLeaves
    <2>1. t[p] # Nil /\ t[p].eph # Nil
        BY <1>1
    <2> QED BY <2>1, <1>1 DEF WellFormed, EphemeralLeaves
<1> QED BY <1>2, <1>3, <1>4 DEF WellFormed


-----------------------------------------------------------------------------
(* Type correctness. *)

\* The constructor has segments left as long as it runs; a call in progress is at a request
\* its method sends; a client with a multi_op in execution has built all of it.
CallOK ==
    /\ \A c \in Clients : pc[c] = "opening" => opened[c] < Len(Prefix)
    /\ \A c \in Clients : op[c] = Nil <=> pc[c] \in {"opening", "idle", "dead"}
    /\ \A c \in Clients : op[c] # Nil =>
           pc[c] = FirstRequest(op[c]) \/ (op[c] \in SetOp /\ pc[c] = "set_set")
    /\ multi # Nil => pc[multi.client] = "build" /\ Unvisited(plan[multi.client]) = {}

TypeInv == TypeOK /\ CallOK

\* The first request of a method tells which method it is.
LEMMA FirstRequestFacts ==
    ASSUME NEW o \in Op
    PROVE  /\ FirstRequest(o) \in {"create", "set_create", "cas_set", "read", "build"}
           /\ FirstRequest(o) = "create" => o \in CreateOp \/ o \in CasOp
           /\ FirstRequest(o) = "set_create" => o \in SetOp
           /\ FirstRequest(o) = "cas_set" => o \in CasOp /\ o.ver # 0
           /\ FirstRequest(o) = "read" => o \in ReadOp
           /\ FirstRequest(o) = "build" => o \in EraseOp \/ o \in CommitOp
<1>1. CASE o \in CreateOp BY <1>1 DEF CreateOp, FirstRequest
<1>2. CASE o \in SetOp BY <1>2 DEF SetOp, FirstRequest
<1>3. CASE o \in CasOp
    <2>1. o.type = "cas" BY <1>3 DEF CasOp
    <2> QED BY <1>3, <2>1 DEF FirstRequest
<1>4. CASE o \in ReadOp
    <2>1. o.type \in {"get", "exists", "get_children"} BY <1>4 DEF ReadOp
    <2> QED BY <1>4, <2>1 DEF FirstRequest
<1>5. CASE o \in EraseOp BY <1>5 DEF EraseOp, FirstRequest
<1>6. CASE o \in CommitOp BY <1>6 DEF CommitOp, FirstRequest
<1> QED BY <1>1, <1>2, <1>3, <1>4, <1>5, <1>6 DEF Op

\* What the label of a client says about its call.
LEMMA CallAtLabel ==
    ASSUME TypeInv, NEW c \in Clients
    PROVE  /\ pc[c] \notin {"opening", "idle", "dead"} => op[c] \in Op /\ op[c] # Nil
           /\ pc[c] = "create" => op[c] \in CreateOp \/ op[c] \in CasOp
           /\ pc[c] \in {"set_create", "set_set"} => op[c] \in SetOp
           /\ pc[c] = "cas_set" => op[c] \in CasOp /\ op[c].ver # 0
           /\ pc[c] = "read" => op[c] \in ReadOp
           /\ pc[c] = "build" => op[c] \in EraseOp \/ op[c] \in CommitOp
<1>1. op[c] \in Op \cup {Nil}
    BY DEF TypeInv, TypeOK
<1>2. pc[c] \notin {"opening", "idle", "dead"} => op[c] \in Op /\ op[c] # Nil
    BY <1>1 DEF TypeInv, CallOK
<1>3. CASE op[c] = Nil
    BY <1>2, <1>3
<1>4. CASE op[c] # Nil
    <2>1. pc[c] = FirstRequest(op[c]) \/ (op[c] \in SetOp /\ pc[c] = "set_set")
        BY <1>4 DEF TypeInv, CallOK
    <2> QED BY <1>1, <1>2, <1>4, <2>1, FirstRequestFacts
<1> QED BY <1>3, <1>4

LEMMA PathOfKey == \A k \in Keys : AsPath(k) \in Paths /\ AsPath(k) \in UserPaths
BY DEF AsPath, Paths, UserPaths

LEMMA NarrowIsInt == \A n \in Int : Narrow(n) \in Int
BY BoundsAssumption DEF Narrow

LEMMA LargeVersionIsNat == LargeVersion \in Nat
<1>1. \A m \in Nat : m * m \in Nat
    OBVIOUS
<1>2. \A m \in Nat : m \div 4 \in Nat
    OBVIOUS
<1> QED BY <1>1, <1>2, BoundsAssumption DEF LargeVersion

\* The requests the methods send are requests.
LEMMA RequestTypes ==
    /\ \A p \in Paths, v \in Values \cup {Nil}, e \in Clients \cup {Nil}, u \in Nat :
           CreateReq(p, v, e, u) \in Requests
    /\ \A p \in Paths, v \in Values \cup {Nil}, n \in Int, u \in Nat : SetReq(p, v, n, u) \in Requests
    /\ \A p \in Paths, n \in Int, u \in Nat : CheckReq(p, n, u) \in Requests
    /\ \A p \in Paths, u \in Nat : EraseReq(p, u) \in Requests
    /\ \A m \in EraseQueryFailures, p \in Paths, u \in Nat : Visit(m, p, u) \in Visits
BY DEF CreateReq, SetReq, CheckReq, EraseReq, Visit, Request, Requests, Visits, ANY

LEMMA ErrorCodes ==
    ASSUME NEW t, NEW r
    PROVE  ErrorCode(t, r) \in {"ok", "no_entry", "entry_exists", "no_children_for_ephemerals",
                                "version_mismatch", "not_empty"}
BY DEF ErrorCode

LEMMA LossCounted ==
    ASSUME TypeOK, NEW x, x # "connection_loss", NEW code \in Seen(x), CountLoss(code)
    PROVE  losses' \in 0..MaxLosses
BY BoundsAssumption DEF TypeOK, Seen, CountLoss

LEMMA NotifyTyped ==
    ASSUME TypeOK, NEW E, Notify(E)
    PROVE  handle' \in [Clients -> HandleType \cup {Nil}]
<1>1. \A c \in Clients : handle[c] \in HandleType \cup {Nil}
    BY DEF TypeOK
<1>2. \A h \in HandleType : [h EXCEPT !.fired = TRUE] \in HandleType
    BY DEF HandleType
<1> QED BY <1>1, <1>2 DEF Notify, Triggered

\* One request on its own.
LEMMA ServeTyped ==
    ASSUME TypeOK, NEW r \in Requests, Serve(r)
    PROVE  /\ tree' \in Tree
           /\ tree' = IF ErrorCode(tree, r) = "ok" THEN Apply(tree, r) ELSE tree
           /\ session' = session /\ multi' = multi
           /\ handle' \in [Clients -> HandleType \cup {Nil}]
<1>1. tree \in Tree
    BY DEF TypeOK
<1> QED BY <1>1, ApplyAtPath, NotifyTyped DEF Serve, Served

LEMMA AnswerTypes ==
    /\ \A v \in Nat : Version(v) \in Answer
    /\ \A v \in Nat, x \in Values \cup {Nil} : Found(v, x) \in Answer
    /\ \A S \in SUBSET Seq(STRING) : ChildList(S) \in Answer
    /\ \A vs \in Seq({"create", "set"} \X Nat) : TxnResult(vs) \in Answer
    /\ \A i \in Nat : TxnFailed(i) \in Answer
    /\ \A code : Failure(Rethrow(code)) \in Answer
    /\ Failure(BackendError) \in Answer
    /\ Failure("NoEntry") \in Answer /\ Failure("ConnectionLoss") \in Answer
BY DEF Version, Found, ChildList, TxnResult, Failure, TxnFailed, Answer, Rethrow, OffkvErrors

\* A method that returns leaves the client idle.
LEMMA ReturnTyped ==
    ASSUME TypeInv, NEW c \in Clients, NEW r \in Answer, Return(c, r)
    PROVE  /\ pc' \in [Clients -> Labels] /\ pc' = [pc EXCEPT ![c] = "idle"]
           /\ opened' \in [Clients -> 0..Len(Prefix)]
           /\ op' \in [Clients -> Op \cup {Nil}] /\ op' = [op EXCEPT ![c] = Nil]
           /\ plan' \in [Clients -> Seq(Requests \cup Visits)] /\ plan' = [plan EXCEPT ![c] = <<>>]
           /\ res' \in [Clients -> Answer \cup {Nil}]
           /\ calls' \in 0..MaxCalls
BY DEF TypeInv, TypeOK, Return, Labels

LEMMA ReturnCallOK ==
    ASSUME TypeInv, NEW c \in Clients, NEW r \in Answer, Return(c, r),
           multi' = Nil \/ (multi' = multi /\ ~Executing(c))
    PROVE  CallOK'
<1>1. /\ pc \in [Clients -> Labels] /\ op \in [Clients -> Op \cup {Nil}]
      /\ plan \in [Clients -> Seq(Requests \cup Visits)]
      /\ pc' = [pc EXCEPT ![c] = "idle"] /\ op' = [op EXCEPT ![c] = Nil]
      /\ plan' = [plan EXCEPT ![c] = <<>>]
    BY ReturnTyped DEF TypeInv, TypeOK
<1>2. /\ \A d \in Clients : op'[d] = Nil <=> pc'[d] \in {"opening", "idle", "dead"}
      /\ \A d \in Clients : pc'[d] = "opening" => opened'[d] < Len(Prefix)
    BY <1>1 DEF TypeInv, CallOK, Return
<1>3. \A d \in Clients : op'[d] # Nil =>
          pc'[d] = FirstRequest(op'[d]) \/ (op'[d] \in SetOp /\ pc'[d] = "set_set")
    BY <1>1 DEF TypeInv, CallOK
<1>4. multi' # Nil => pc'[multi'.client] = "build" /\ Unvisited(plan'[multi'.client]) = {}
    <2> SUFFICES ASSUME multi' # Nil
                 PROVE  pc'[multi'.client] = "build" /\ Unvisited(plan'[multi'.client]) = {}
        OBVIOUS
    <2>1. multi' = multi /\ multi # Nil /\ multi.client # c
        BY DEF Executing
    <2>2. multi.client \in Clients
        BY <2>1 DEF TypeInv, TypeOK, MultiType
    <2>3. pc'[multi.client] = pc[multi.client] /\ plan'[multi.client] = plan[multi.client]
        BY <1>1, <2>1, <2>2
    <2> QED BY <2>1, <2>3 DEF TypeInv, CallOK
<1> QED BY <1>2, <1>3, <1>4 DEF CallOK

(* Plans. *)

LEMMA SplicedTyped ==
    ASSUME NEW S, NEW q \in Seq(S), NEW mid \in Seq(S), NEW i \in 1..Len(q)
    PROVE  Splice(q, i, mid) \in Seq(S)
<1>1. SubSeq(q, 1, i - 1) \in Seq(S) /\ SubSeq(q, i + 1, Len(q)) \in Seq(S)
    OBVIOUS
<1> QED BY <1>1 DEF Splice

LEMMA MapTyped ==
    ASSUME NEW S, NEW n \in Nat, NEW f \in [1..n -> S]
    PROVE  f \in Seq(S) /\ Len(f) = n
OBVIOUS

LEMMA ListingTyped ==
    ASSUME NEW S, IsFiniteSet(S), NEW kids \in Listings(S)
    PROVE  kids \in Seq(S) /\ DOMAIN kids = 1..Len(kids) /\ \A i \in DOMAIN kids : kids[i] \in S
<1>1. Cardinality(S) \in Nat
    BY FS_CardinalityType
<1>2. kids \in [1..Cardinality(S) -> S]
    BY DEF Listings
<1> QED BY <1>1, <1>2, MapTyped

LEMMA PathsFinite == IsFiniteSet(Paths)
<1>1. IsFiniteSet(1..Len(Prefix))
    BY PrefixFacts, FS_Interval
<1> DEFINE f == [i \in 1..Len(Prefix) |-> SubSeq(Prefix, 1, i)]
           g == [k \in Keys |-> Join(Prefix, k)]
<1>2. f \in Surjection(1..Len(Prefix), PrefixPaths)
    BY DEF Surjection, PrefixPaths
<1>3. g \in Surjection(Keys, UserPaths)
    BY DEF Surjection, UserPaths
<1>4. IsFiniteSet(PrefixPaths)
    BY <1>1, <1>2, FS_Surjection
<1>5. IsFiniteSet(UserPaths)
    BY <1>3, KeysAssumption, FS_Surjection
<1> QED BY <1>4, <1>5, FS_Union DEF Paths

LEMMA ChildrenFinite ==
    ASSUME NEW t, NEW p
    PROVE  IsFiniteSet(ChildrenOf(t, p)) /\ ChildrenOf(t, p) \subseteq Paths
BY PathsFinite, FS_Subset DEF ChildrenOf

LEMMA ExpansionTyped ==
    ASSUME NEW r \in Visits, NEW t, NEW kids \in Listings(ChildrenOf(t, r.path))
    PROVE  Expansion(r, kids) \in Seq(Requests \cup Visits)
<1>1. /\ kids \in Seq(ChildrenOf(t, r.path)) /\ DOMAIN kids = 1..Len(kids)
      /\ \A i \in DOMAIN kids : kids[i] \in Paths
    BY ChildrenFinite, ListingTyped
<1>2. r.path \in Paths /\ r.user \in Nat
    BY DEF Visits
<1>3. Len(kids) \in Nat
    BY <1>1
<1> DEFINE v == [i \in DOMAIN kids |-> Visit("IGNORE_NO_ENTRY", kids[i], r.user)]
<1>4. v \in [1..Len(kids) -> Requests \cup Visits]
    BY <1>1, <1>2, RequestTypes DEF EraseQueryFailures
<1>5. v \in Seq(Requests \cup Visits)
    BY <1>3, <1>4, MapTyped
<1>6. <<EraseReq(r.path, r.user)>> \in Seq(Requests \cup Visits)
    BY <1>2, RequestTypes
<1> QED BY <1>5, <1>6 DEF Expansion

LEMMA NoEntryExpansionTyped ==
    ASSUME NEW r \in Visits
    PROVE  NoEntryExpansion(r) \in Seq(Requests \cup Visits)
<1>1. r.path \in Paths /\ r.user \in Nat
    BY DEF Visits
<1>2. EraseReq(r.path, r.user) \in Requests \cup Visits
    BY <1>1, RequestTypes
<1>3. CASE r.kind = "FAIL_TXN_ON_NO_ENTRY"
    BY <1>2, <1>3 DEF NoEntryExpansion
<1>4. CASE r.kind # "FAIL_TXN_ON_NO_ENTRY"
    BY <1>4 DEF NoEntryExpansion
<1> QED BY <1>3, <1>4

LEMMA ZkVersionIsInt == \A v \in Nat : ZkVersion(v) \in Int
BY NarrowIsInt DEF ZkVersion, ANY

\* The two parts of the multi_op of a commit.
LEMMA CommitPlanParts ==
    ASSUME NEW o \in CommitOp, NEW c \in Clients
    PROVE  /\ CheckPart(o) \in Seq(Requests \cup Visits) /\ Len(CheckPart(o)) = Len(o.checks)
           /\ OpPart(o, c) \in Seq(Requests \cup Visits) /\ Len(OpPart(o, c)) = Len(o.ops)
           /\ Len(o.checks) \in Nat /\ Len(o.ops) \in Nat
           /\ \A i \in 1..Len(o.checks) : CheckPart(o)[i].path \in UserPaths
           /\ \A i \in 1..Len(o.ops) : OpPart(o, c)[i].path \in UserPaths
<1>1. o.checks \in Seq(TxnCheck) /\ o.ops \in Seq(TxnOp)
    BY DEF CommitOp
<1>2. Len(o.checks) \in Nat /\ Len(o.ops) \in Nat
    BY <1>1
<1>3. ASSUME NEW i \in 1..Len(o.checks)
      PROVE  LET r == CheckReq(AsPath(o.checks[i].key), ZkVersion(o.checks[i].ver), i - 1)
             IN  r \in Requests /\ r.path \in UserPaths
    <2>1. o.checks[i] \in TxnCheck
        BY <1>1, ElementOfSeq
    <2>2. o.checks[i].key \in Keys /\ ZkVersion(o.checks[i].ver) \in Int /\ i - 1 \in Nat
        BY <2>1, ZkVersionIsInt DEF TxnCheck
    <2> QED BY <2>2, PathOfKey, RequestTypes DEF CheckReq, Request
<1>4. ASSUME NEW i \in 1..Len(o.ops)
      PROVE  LET r == TxnOpRequest(o.ops[i], c, Len(o.checks) + i - 1)
             IN  r \in Requests \cup Visits /\ r.path \in UserPaths
    <2>1. o.ops[i] \in TxnOp /\ Len(o.checks) + i - 1 \in Nat /\ ANY \in Int
        BY <1>1, <1>2, ElementOfSeq DEF ANY
    <2>2. CASE o.ops[i] \in CreateOp
        BY <2>1, <2>2, PathOfKey, RequestTypes DEF CreateOp, TxnOpRequest, CreateReq, Request
    <2>3. CASE o.ops[i] \in SetOp
        BY <2>1, <2>3, PathOfKey, RequestTypes DEF SetOp, TxnOpRequest, SetReq, Request
    <2>4. CASE o.ops[i] \in TxnOpErase
        BY <2>1, <2>4, PathOfKey, RequestTypes
           DEF TxnOpErase, TxnOpRequest, EraseQueryFailures, Visit, Request
    <2> QED BY <2>1, <2>2, <2>3, <2>4 DEF TxnOp
<1>5. CheckPart(o) \in [1..Len(o.checks) -> Requests \cup Visits]
    BY <1>3 DEF CheckPart
<1>6. OpPart(o, c) \in [1..Len(o.ops) -> Requests \cup Visits]
    BY <1>4 DEF OpPart
<1>7. CheckPart(o) \in Seq(Requests \cup Visits) /\ Len(CheckPart(o)) = Len(o.checks)
    BY <1>2, <1>5, MapTyped
<1>8. OpPart(o, c) \in Seq(Requests \cup Visits) /\ Len(OpPart(o, c)) = Len(o.ops)
    BY <1>2, <1>6, MapTyped
<1>9. \A i \in 1..Len(o.checks) : CheckPart(o)[i].path \in UserPaths
    BY <1>3 DEF CheckPart
<1>10. \A i \in 1..Len(o.ops) : OpPart(o, c)[i].path \in UserPaths
    BY <1>4 DEF OpPart
<1> QED BY <1>2, <1>7, <1>8, <1>9, <1>10

LEMMA FreshPlanTyped ==
    ASSUME NEW o \in Op, NEW c \in Clients
    PROVE  FreshPlan(o, c) \in Seq(Requests \cup Visits)
<1>1. CASE o \in EraseOp
    <2>1. o.type = "erase" /\ o.key \in Keys /\ o.ver \in Nat
        BY <1>1 DEF EraseOp
    <2>2. AsPath(o.key) \in Paths /\ ZkVersion(o.ver) \in Int /\ ANY \in Int
        BY <2>1, PathOfKey, ZkVersionIsInt DEF ANY
    <2>3. ErasePlan(o) \in Seq(Requests \cup Visits)
        BY <2>2, RequestTypes DEF ErasePlan, EraseQueryFailures
    <2> QED BY <2>1, <2>3 DEF FreshPlan
<1>2. CASE o \in CommitOp
    <2>1. o.type = "commit"
        BY <1>2 DEF CommitOp
    <2> QED BY <1>2, <2>1, CommitPlanParts, ConcatProperties DEF FreshPlan, CommitPlan
<1>3. CASE o.type \notin {"erase", "commit"}
    BY <1>3 DEF FreshPlan
<1>4. o \in EraseOp \/ o \in CommitOp \/ o.type \notin {"erase", "commit"}
    BY DEF Op, CreateOp, SetOp, CasOp, ReadOp
<1> QED BY <1>1, <1>2, <1>3, <1>4

-----------------------------------------------------------------------------
(* Every action preserves TypeInv. *)

\* The steps in which a method sends its last request and returns.
LEMMA ReturningStep ==
    ASSUME TypeInv, NEW c \in Clients, NEW r \in Answer, Return(c, r), ~Executing(c),
           tree' \in Tree, session' = session, multi' = multi,
           handle' \in [Clients -> HandleType \cup {Nil}], losses' \in 0..MaxLosses
    PROVE  TypeInv'
<1>1. TypeOK'
    BY ReturnTyped DEF TypeInv, TypeOK
<1> QED BY <1>1, ReturnCallOK DEF TypeInv

\* A client moves to another label, or does nothing visible, with its call unchanged.
LEMMA KeptCall ==
    ASSUME TypeInv, NEW c \in Clients, NEW l \in Labels,
           pc' = [pc EXCEPT ![c] = l], op' = op, plan' = plan, multi' = multi, ~Executing(c),
           opened' \in [Clients -> 0..Len(Prefix)], \A d \in Clients : d # c => opened'[d] = opened[d],
           l = "opening" => opened'[c] < Len(Prefix),
           op[c] = Nil <=> l \in {"opening", "idle", "dead"},
           op[c] # Nil => l = FirstRequest(op[c]) \/ (op[c] \in SetOp /\ l = "set_set")
    PROVE  CallOK'
<1>1. pc \in [Clients -> Labels]
    BY DEF TypeInv, TypeOK
<1>2. multi # Nil => multi.client \in Clients /\ multi.client # c
    BY DEF TypeInv, TypeOK, MultiType, Executing
<1>3. multi' # Nil => pc'[multi'.client] = "build" /\ Unvisited(plan'[multi'.client]) = {}
    BY <1>1, <1>2 DEF TypeInv, CallOK
<1> QED BY <1>1, <1>3 DEF TypeInv, CallOK

LEMMA OpenPreserves == ASSUME TypeInv, NEW c \in Clients, Open(c) PROVE TypeInv'
<1> DEFINE r == CreateReq(SubSeq(Prefix, 1, opened[c] + 1), Nil, Nil, 0)
<1>1. pc[c] = "opening" /\ multi = Nil /\ Serve(r) /\ UNCHANGED <<op, plan, res, calls>>
    BY DEF Open, Ready
<1>2. opened \in [Clients -> 0..Len(Prefix)] /\ opened[c] < Len(Prefix) /\ op[c] = Nil
    BY <1>1 DEF TypeInv, TypeOK, CallOK
<1>3. r \in Requests
    <2>1. opened[c] + 1 \in 1..Len(Prefix)
        BY <1>2, PrefixFacts
    <2>2. SubSeq(Prefix, 1, opened[c] + 1) \in Paths
        BY <2>1 DEF Paths, PrefixPaths
    <2> QED BY <2>2, RequestTypes
<1>4. PICK code \in Seen(ErrorCode(tree, r)) :
         /\ CountLoss(code)
         /\ IF code \in {"ok", "entry_exists"}
            THEN /\ opened' = [opened EXCEPT ![c] = @ + 1]
                 /\ pc' = [pc EXCEPT ![c] = IF opened'[c] = Len(Prefix) THEN "idle" ELSE @]
            ELSE /\ pc' = [pc EXCEPT ![c] = "dead"]
                 /\ UNCHANGED opened
    BY DEF Open, AllOpened
<1>5. losses' \in 0..MaxLosses
    <2>1. ErrorCode(tree, r) # "connection_loss"
        BY ErrorCodes
    <2> HIDE DEF r
    <2> QED BY <1>4, <2>1, LossCounted DEF TypeInv
<1>6. /\ tree' \in Tree /\ session' = session /\ multi' = multi
      /\ handle' \in [Clients -> HandleType \cup {Nil}]
    <2> HIDE DEF r
    <2> QED BY <1>1, <1>3, ServeTyped DEF TypeInv
<1>7. /\ opened' \in [Clients -> 0..Len(Prefix)]
      /\ \A d \in Clients : d # c => opened'[d] = opened[d]
      /\ \E l \in {"opening", "idle", "dead"} :
            pc' = [pc EXCEPT ![c] = l] /\ (l = "opening" => opened'[c] < Len(Prefix))
    <2>1. CASE code \in {"ok", "entry_exists"}
        <3>1. opened' = [opened EXCEPT ![c] = opened[c] + 1]
            BY <1>4, <2>1
        <3>2. opened' \in [Clients -> 0..Len(Prefix)] /\ opened'[c] = opened[c] + 1
            BY <3>1, <1>2, PrefixFacts
        <3>3. pc' = [pc EXCEPT ![c] = IF opened'[c] = Len(Prefix) THEN "idle" ELSE "opening"]
            BY <1>1, <1>4, <2>1
        <3>4. opened'[c] # Len(Prefix) => opened'[c] < Len(Prefix)
            BY <3>2, PrefixFacts
        <3> QED BY <3>1, <3>2, <3>3, <3>4, <1>2
    <2>2. CASE code \notin {"ok", "entry_exists"}
        BY <1>2, <1>4, <2>2
    <2> QED BY <2>1, <2>2
<1>8. PICK l \in {"opening", "idle", "dead"} :
         pc' = [pc EXCEPT ![c] = l] /\ (l = "opening" => opened'[c] < Len(Prefix))
    BY <1>7
<1>9. l \in Labels /\ ~Executing(c)
    BY <1>1 DEF Labels, Executing
<1>10. CallOK'
    BY <1>1, <1>2, <1>6, <1>7, <1>8, <1>9, KeptCall
<1>11. TypeOK'
    BY <1>1, <1>5, <1>6, <1>7, <1>8, <1>9 DEF TypeInv, TypeOK
<1> QED BY <1>10, <1>11 DEF TypeInv

LEMMA InvokePreserves ==
    ASSUME TypeInv, NEW c \in Clients, NEW o \in Ops, Invoke(c, o)
    PROVE  TypeInv'
<1>1. o \in Op /\ o # Nil
    BY OpsAssumption
<1>2. /\ pc[c] = "idle" /\ calls < MaxCalls /\ calls' = calls + 1
      /\ op' = [op EXCEPT ![c] = o] /\ plan' = [plan EXCEPT ![c] = FreshPlan(o, c)]
      /\ pc' = [pc EXCEPT ![c] = FirstRequest(o)] /\ res' = [res EXCEPT ![c] = Nil]
      /\ UNCHANGED <<tree, session, multi, opened, handle, losses>>
    BY DEF Invoke
<1>3. FreshPlan(o, c) \in Seq(Requests \cup Visits)
    BY <1>1, FreshPlanTyped
<1>4. FirstRequest(o) \in {"create", "set_create", "cas_set", "read", "build"}
    BY <1>1, FirstRequestFacts
<1>5. calls' \in 0..MaxCalls
    BY <1>2, BoundsAssumption DEF TypeInv, TypeOK
<1>6. TypeOK'
    BY <1>1, <1>2, <1>3, <1>4, <1>5 DEF TypeInv, TypeOK, Labels
<1>7. CallOK'
    <2>1. pc \in [Clients -> Labels] /\ op \in [Clients -> Op \cup {Nil}]
          /\ plan \in [Clients -> Seq(Requests \cup Visits)]
        BY DEF TypeInv, TypeOK
    <2>2. multi # Nil => multi.client \in Clients /\ multi.client # c
        BY <1>2 DEF TypeInv, TypeOK, MultiType, CallOK
    <2>3. multi' # Nil => pc'[multi'.client] = "build" /\ Unvisited(plan'[multi'.client]) = {}
        BY <1>2, <2>1, <2>2 DEF TypeInv, CallOK
    <2>4. \A d \in Clients : pc'[d] = "opening" => opened'[d] < Len(Prefix)
        BY <1>2, <1>4, <2>1 DEF TypeInv, CallOK
    <2>5. \A d \in Clients : op'[d] = Nil <=> pc'[d] \in {"opening", "idle", "dead"}
        BY <1>1, <1>2, <1>4, <2>1 DEF TypeInv, CallOK
    <2>6. \A d \in Clients : op'[d] # Nil =>
              pc'[d] = FirstRequest(op'[d]) \/ (op'[d] \in SetOp /\ pc'[d] = "set_set")
        BY <1>1, <1>2, <2>1 DEF TypeInv, CallOK
    <2> QED BY <2>3, <2>4, <2>5, <2>6 DEF CallOK
<1> QED BY <1>6, <1>7 DEF TypeInv

LEMMA CreatePreserves == ASSUME TypeInv, NEW c \in Clients, Create(c) PROVE TypeInv'
<1> DEFINE o == op[c]
           e == IF o.type = "create" /\ o.lease THEN c ELSE Nil
           r == CreateReq(AsPath(o.key), o.val, e, 0)
<1>1. pc[c] = "create" /\ multi = Nil /\ Serve(r)
    BY DEF Create, Ready
<1>2. o.key \in Keys /\ o.val \in Values
    BY <1>1, CallAtLabel DEF CreateOp, CasOp
<1>3. r \in Requests
    BY <1>2, PathOfKey, RequestTypes
<1>4. PICK code \in Seen(ErrorCode(tree, r)) :
         /\ CountLoss(code)
         /\ Return(c, IF code = "ok" THEN Version(1)
                      ELSE IF o.type = "cas" /\ code = "entry_exists" THEN Version(0)
                      ELSE Failure(Rethrow(code)))
    BY DEF Create
<1>5. PICK a \in Answer : Return(c, a)
    BY <1>4, AnswerTypes
<1> HIDE DEF r, o
<1>6. losses' \in 0..MaxLosses
    BY <1>4, ErrorCodes, LossCounted DEF TypeInv
<1> QED BY <1>1, <1>3, <1>5, <1>6, ServeTyped, ReturningStep DEF TypeInv, Executing

LEMMA SetCreatePreserves == ASSUME TypeInv, NEW c \in Clients, SetCreate(c) PROVE TypeInv'
<1> DEFINE r == CreateReq(AsPath(op[c].key), op[c].val, Nil, 0)
<1>1. pc[c] = "set_create" /\ multi = Nil /\ Serve(r)
    BY DEF SetCreate, Ready
<1>2. op[c] \in SetOp /\ op[c] # Nil /\ op[c].key \in Keys /\ op[c].val \in Values
    BY <1>1, CallAtLabel DEF SetOp
<1>3. r \in Requests
    BY <1>2, PathOfKey, RequestTypes
<1>4. PICK code \in Seen(ErrorCode(tree, r)) :
         /\ CountLoss(code)
         /\ CASE code = "ok"           -> Return(c, Version(1))
              [] code = "entry_exists" -> Goto(c, "set_set")
              [] OTHER                 -> Return(c, Failure(Rethrow(code)))
    BY DEF SetCreate
<1>5. losses' \in 0..MaxLosses
    <2> HIDE DEF r
    <2> QED BY <1>4, ErrorCodes, LossCounted DEF TypeInv
<1>6. /\ tree' \in Tree /\ session' = session /\ multi' = multi
      /\ handle' \in [Clients -> HandleType \cup {Nil}]
    <2> HIDE DEF r
    <2> QED BY <1>1, <1>3, ServeTyped DEF TypeInv
<1>7. CASE code = "entry_exists"
    <2>1. /\ pc' = [pc EXCEPT ![c] = "set_set"] /\ UNCHANGED <<opened, op, plan, res, calls>>
        BY <1>4, <1>7 DEF Goto
    <2>2. ~Executing(c) /\ "set_set" \in Labels
        BY <1>1 DEF Executing, Labels
    <2>3. TypeOK'
        BY <1>5, <1>6, <2>1, <2>2 DEF TypeInv, TypeOK
    <2>4. CallOK'
        <3>1. opened' \in [Clients -> 0..Len(Prefix)]
            BY <2>1 DEF TypeInv, TypeOK
        <3> QED BY <3>1, <1>2, <1>6, <2>1, <2>2, KeptCall
    <2> QED BY <2>3, <2>4 DEF TypeInv
<1>8. CASE code # "entry_exists"
    <2>1. PICK a \in Answer : Return(c, a)
        BY <1>4, <1>8, AnswerTypes
    <2> QED BY <2>1, <1>1, <1>5, <1>6, ReturningStep DEF Executing
<1> QED BY <1>7, <1>8

\* A set request that succeeds leaves a node with a version.
LEMMA SetVersion ==
    ASSUME TypeOK, NEW p \in Paths, NEW v \in Values, NEW n \in Int, Serve(SetReq(p, v, n, 0)),
           ErrorCode(tree, SetReq(p, v, n, 0)) = "ok"
    PROVE  tree'[p].ver + 1 \in Nat
<1>1. SetReq(p, v, n, 0) \in Requests /\ SetReq(p, v, n, 0).kind = "set" /\ SetReq(p, v, n, 0).path = p
    BY RequestTypes DEF SetReq, Request
<1>2. tree' \in Tree /\ tree' = Apply(tree, SetReq(p, v, n, 0)) /\ tree \in Tree
    BY <1>1, ServeTyped DEF TypeOK
<1>3. tree'[p] # Nil
    BY <1>1, <1>2, ApplyPresence
<1>4. tree'[p] \in ZNode
    BY <1>2, <1>3 DEF Tree
<1> QED BY <1>4 DEF ZNode

LEMMA SetSetPreserves == ASSUME TypeInv, NEW c \in Clients, SetSet(c) PROVE TypeInv'
<1> DEFINE p == AsPath(op[c].key)
           r == SetReq(p, op[c].val, ANY, 0)
<1>1. pc[c] = "set_set" /\ multi = Nil /\ Serve(r)
    BY DEF SetSet, Ready
<1>2. op[c].key \in Keys /\ op[c].val \in Values /\ p \in Paths /\ ANY \in Int
    BY <1>1, CallAtLabel, PathOfKey DEF SetOp, ANY
<1>3. r \in Requests
    BY <1>2, RequestTypes
<1>4. PICK code \in Seen(ErrorCode(tree, r)) :
         /\ CountLoss(code)
         /\ Return(c, CASE code = "ok"       -> Version(tree'[p].ver + 1)
                        [] code = "no_entry" -> Version(LargeVersion)
                        [] OTHER             -> Failure(BackendError))
    BY DEF SetSet, LostSet
<1>5. code = "ok" => ErrorCode(tree, r) = "ok"
    BY <1>4 DEF Seen
<1>6. code = "ok" => tree'[p].ver + 1 \in Nat
    BY <1>1, <1>2, <1>5, SetVersion DEF TypeInv
<1>7. PICK a \in Answer : Return(c, a)
    <2> HIDE DEF p
    <2>1. CASE code = "ok" BY <1>4, <1>6, <2>1, AnswerTypes
    <2>2. CASE code = "no_entry" BY <1>4, <2>2, AnswerTypes, LargeVersionIsNat
    <2>3. CASE code \notin {"ok", "no_entry"} BY <1>4, <2>3, AnswerTypes
    <2> QED BY <2>1, <2>2, <2>3
<1> HIDE DEF r
<1>8. losses' \in 0..MaxLosses
    BY <1>4, ErrorCodes, LossCounted DEF TypeInv
<1> QED BY <1>1, <1>3, <1>7, <1>8, ServeTyped, ReturningStep DEF TypeInv, Executing

LEMMA CasSetPreserves == ASSUME TypeInv, NEW c \in Clients, CasSet(c) PROVE TypeInv'
<1> DEFINE p == AsPath(op[c].key)
           r == SetReq(p, op[c].val, Narrow(op[c].ver - 1), 0)
<1>1. pc[c] = "cas_set" /\ multi = Nil /\ Serve(r)
    BY DEF CasSet, Ready
<1>2. op[c].key \in Keys /\ op[c].val \in Values /\ p \in Paths /\ op[c].ver - 1 \in Int
    BY <1>1, CallAtLabel, PathOfKey DEF CasOp
<1>3. Narrow(op[c].ver - 1) \in Int
    BY <1>2, NarrowIsInt
<1>4. r \in Requests
    BY <1>2, <1>3, RequestTypes
<1>5. PICK code \in Seen(ErrorCode(tree, r)) :
         /\ CountLoss(code)
         /\ Return(c, CASE code = "ok"               -> Version(tree'[p].ver + 1)
                        [] code = "version_mismatch" -> Version(0)
                        [] OTHER                     -> Failure(Rethrow(code)))
    BY DEF CasSet
<1>6. code = "ok" => ErrorCode(tree, r) = "ok"
    BY <1>5 DEF Seen
<1>7. code = "ok" => tree'[p].ver + 1 \in Nat
    BY <1>1, <1>2, <1>3, <1>6, SetVersion DEF TypeInv
<1>8. PICK a \in Answer : Return(c, a)
    <2> HIDE DEF p
    <2>1. CASE code = "ok" BY <1>5, <1>7, <2>1, AnswerTypes
    <2>2. CASE code = "version_mismatch" BY <1>5, <2>2, AnswerTypes
    <2>3. CASE code \notin {"ok", "version_mismatch"} BY <1>5, <2>3, AnswerTypes
    <2> QED BY <2>1, <2>2, <2>3
<1> HIDE DEF r
<1>9. losses' \in 0..MaxLosses
    BY <1>5, ErrorCodes, LossCounted DEF TypeInv
<1> QED BY <1>1, <1>4, <1>8, <1>9, ServeTyped, ReturningStep DEF TypeInv, Executing

LEMMA ReadPreserves == ASSUME TypeInv, NEW c \in Clients, Read(c) PROVE TypeInv'
<1> DEFINE o == op[c]
           p == AsPath(op[c].key)
<1>1. pc[c] = "read" /\ multi = Nil /\ UNCHANGED <<tree, session, multi>>
    BY DEF Read, Ready
<1>2. o \in ReadOp /\ o.key \in Keys /\ p \in Paths /\ o.watch \in BOOLEAN
      /\ o.type \in {"get", "exists", "get_children"}
    BY <1>1, CallAtLabel, PathOfKey DEF ReadOp
<1>3. PICK code \in Seen(ReadCode(o)) :
         /\ CountLoss(code)
         /\ Return(c, IF code = "ok" THEN ReadAnswer(o) ELSE Failure(Rethrow(code)))
         /\ handle' = IF code = "ok" /\ o.watch
                      THEN [handle EXCEPT ![c] = NewHandle(o.type, p)] ELSE handle
    BY DEF Read
<1>4. losses' \in 0..MaxLosses
    <2>1. ReadCode(o) # "connection_loss"
        BY DEF ReadCode
    <2> QED BY <1>3, <2>1, LossCounted DEF TypeInv
<1>5. tree \in Tree /\ tree[p] \in ZNode \cup {Nil}
    BY <1>2 DEF TypeInv, TypeOK, Tree
<1>6. code = "ok" => ReadAnswer(o) \in Answer
    <2> SUFFICES ASSUME code = "ok" PROVE ReadAnswer(o) \in Answer
        OBVIOUS
    <2>1. tree[p] # Nil \/ o.type = "exists"
        BY <1>3 DEF Seen, ReadCode
    <2>2. tree[p] # Nil => tree[p].ver + 1 \in Nat /\ tree[p].val \in Values \cup {Nil}
        BY <1>5 DEF ZNode
    <2>3. CASE o.type = "exists"
        BY <2>2, <2>3, AnswerTypes DEF ReadAnswer
    <2>4. CASE o.type = "get"
        BY <2>1, <2>2, <2>4, AnswerTypes DEF ReadAnswer
    <2>5. CASE o.type = "get_children"
        <3>1. \A q \in ChildrenOf(tree, p) : Append(o.key, Last(q)) \in Seq(STRING)
            <4> TAKE q \in ChildrenOf(tree, p)
            <4>1. q \in Seq(STRING) /\ Len(q) \in 1..Len(q) /\ o.key \in Seq(STRING)
                BY PathFacts, KeyFacts, <1>2 DEF ChildrenOf, Segments
            <4>2. Last(q) \in STRING
                BY <4>1, ElementOfSeq DEF Last
            <4> QED BY <4>1, <4>2
        <3>2. ChildKeys(o.key) \in SUBSET Seq(STRING)
            BY <3>1 DEF ChildKeys
        <3> QED BY <2>5, <3>2, AnswerTypes DEF ReadAnswer
    <2> QED BY <1>2, <2>3, <2>4, <2>5
<1>7. PICK a \in Answer : Return(c, a)
    BY <1>3, <1>6, AnswerTypes
<1>8. handle' \in [Clients -> HandleType \cup {Nil}]
    <2>1. handle \in [Clients -> HandleType \cup {Nil}]
        BY DEF TypeInv, TypeOK
    <2>2. Observation(tree, o.type, p) \in Sight
        BY <1>2, <1>5 DEF Observation, Sight, NodeExists, ChildrenOf
    <2>3. NewHandle(o.type, p) \in HandleType
        BY <1>2, <2>2 DEF NewHandle, HandleType
    <2> QED BY <1>3, <2>1, <2>3
<1> QED BY <1>1, <1>4, <1>5, <1>7, <1>8, ReturningStep DEF Executing

LEMMA WalkPreserves == ASSUME TypeInv, NEW c \in Clients, Walk(c) PROVE TypeInv'
<1>1. pc[c] = "build" /\ multi = Nil /\ UNCHANGED <<tree, session, multi, handle>> /\ ~Executing(c)
    BY DEF Walk, Ready, Executing
<1>0. PICK i \in Unvisited(plan[c]) :
         \E code \in Seen(IF tree[plan[c][i].path] # Nil THEN "ok" ELSE "no_entry") :
         /\ CountLoss(code)
         /\ CASE code = "connection_loss" -> Return(c, Failure(BackendError))
              [] code = "no_entry" /\ plan[c][i].kind = "THROW_NO_ENTRY" -> Return(c, Failure("NoEntry"))
              [] OTHER ->
                   /\ \E kids \in Listings(ChildrenOf(tree, plan[c][i].path)) :
                        plan' = [plan EXCEPT ![c] =
                                   Splice(@, i, IF code = "ok" THEN Expansion(plan[c][i], kids)
                                                ELSE NoEntryExpansion(plan[c][i]))]
                   /\ UNCHANGED <<pc, opened, op, res, calls>>
    BY DEF Walk
<1>2. PICK code \in Seen(IF tree[plan[c][i].path] # Nil THEN "ok" ELSE "no_entry") :
         /\ CountLoss(code)
         /\ CASE code = "connection_loss" -> Return(c, Failure(BackendError))
              [] code = "no_entry" /\ plan[c][i].kind = "THROW_NO_ENTRY" -> Return(c, Failure("NoEntry"))
              [] OTHER ->
                   /\ \E kids \in Listings(ChildrenOf(tree, plan[c][i].path)) :
                        plan' = [plan EXCEPT ![c] =
                                   Splice(@, i, IF code = "ok" THEN Expansion(plan[c][i], kids)
                                                ELSE NoEntryExpansion(plan[c][i]))]
                   /\ UNCHANGED <<pc, opened, op, res, calls>>
    BY <1>0
<1>3. losses' \in 0..MaxLosses
    BY <1>2, LossCounted DEF TypeInv
<1>4. plan[c] \in Seq(Requests \cup Visits) /\ i \in 1..Len(plan[c]) /\ plan[c][i] \in Visits
    <2>1. plan[c] \in Seq(Requests \cup Visits)
        BY DEF TypeInv, TypeOK
    <2>2. i \in 1..Len(plan[c]) /\ IsVisit(plan[c][i])
        BY <2>1, <1>0 DEF Unvisited
    <2>3. plan[c][i] \in Requests \cup Visits
        BY <2>1, <2>2, ElementOfSeq
    <2> QED BY <2>1, <2>2, <2>3 DEF IsVisit, EraseQueryFailures, Requests
<1>5. CASE code = "connection_loss"
    BY <1>1, <1>2, <1>3, <1>5, AnswerTypes, ReturningStep DEF TypeInv, TypeOK
<1>6. CASE code = "no_entry" /\ plan[c][i].kind = "THROW_NO_ENTRY"
    BY <1>1, <1>2, <1>3, <1>6, AnswerTypes, ReturningStep DEF TypeInv, TypeOK
<1>7. CASE code # "connection_loss" /\ ~(code = "no_entry" /\ plan[c][i].kind = "THROW_NO_ENTRY")
    <2>1. PICK kids \in Listings(ChildrenOf(tree, plan[c][i].path)) :
             plan' = [plan EXCEPT ![c] =
                        Splice(@, i, IF code = "ok" THEN Expansion(plan[c][i], kids)
                                     ELSE NoEntryExpansion(plan[c][i]))]
        BY <1>2, <1>7
    <2>2. UNCHANGED <<pc, opened, op, res, calls>>
        BY <1>2, <1>7
    <2>3. PICK mid \in Seq(Requests \cup Visits) : plan' = [plan EXCEPT ![c] = Splice(@, i, mid)]
        BY <2>1, <1>4, ExpansionTyped, NoEntryExpansionTyped
    <2>4. Splice(plan[c], i, mid) \in Seq(Requests \cup Visits)
        BY <1>4, SplicedTyped
    <2>5. plan' \in [Clients -> Seq(Requests \cup Visits)]
        BY <2>3, <2>4 DEF TypeInv, TypeOK
    <2>6. TypeOK'
        BY <1>1, <1>3, <2>2, <2>5 DEF TypeInv, TypeOK
    <2>7. CallOK'
        BY <1>1, <2>2 DEF TypeInv, CallOK
    <2> QED BY <2>6, <2>7 DEF TypeInv
<1> QED BY <1>5, <1>6, <1>7

LEMMA SubmitPreserves == ASSUME TypeInv, NEW c \in Clients, Submit(c) PROVE TypeInv'
<1>1. /\ pc[c] = "build" /\ Unvisited(plan[c]) = {}
      /\ multi' = [client |-> c, next |-> 1, tree |-> tree, events |-> {}, versions |-> <<>>]
      /\ UNCHANGED <<tree, session, pc, opened, op, plan, res, calls, handle, losses>>
    BY DEF Submit, Ready, clientVars
<1>2. multi' \in MultiType /\ multi'.client = c
    BY <1>1 DEF MultiType, TypeInv, TypeOK
<1>3. TypeOK'
    BY <1>1, <1>2 DEF TypeInv, TypeOK
<1>4. CallOK'
    BY <1>1, <1>2 DEF TypeInv, CallOK
<1> QED BY <1>3, <1>4 DEF TypeInv

\* The request that the service executes next, in a multi_op of client c.
LEMMA RequestInExecution ==
    ASSUME TypeInv, NEW c \in Clients, Executing(c)
    PROVE  /\ multi \in MultiType /\ pc[c] = "build" /\ Unvisited(plan[c]) = {}
           /\ op[c] \in EraseOp \/ op[c] \in CommitOp
           /\ op[c] # Nil
           /\ plan[c] \in Seq(Requests \cup Visits)
           /\ \A i \in 1..Len(plan[c]) : plan[c][i] \in Requests
<1>1. multi \in MultiType /\ pc[c] = "build" /\ Unvisited(plan[c]) = {}
    BY DEF Executing, TypeInv, TypeOK, CallOK
<1>2. plan[c] \in Seq(Requests \cup Visits)
    BY DEF TypeInv, TypeOK
<1>3. ASSUME NEW i \in 1..Len(plan[c]) PROVE plan[c][i] \in Requests
    <2>1. plan[c][i] \in Requests \cup Visits
        BY <1>2, ElementOfSeq
    <2>2. ~IsVisit(plan[c][i])
        BY <1>1, <1>2 DEF Unvisited
    <2> QED BY <2>1, <2>2 DEF IsVisit, Visits
<1> QED BY <1>1, <1>2, <1>3, CallAtLabel

LEMMA EventsTyped ==
    ASSUME NEW r \in Requests
    PROVE  Events(r) \in SUBSET ({"node", "child"} \X (Paths \cup {Root}))
<1>1. r.path \in Paths /\ Parent(r.path) \in Paths \cup {Root} /\ r.kind \in {"create", "set", "check", "erase"}
    BY ParentFacts DEF Requests
<1> QED BY <1>1 DEF Events

LEMMA MultiStepPreserves == ASSUME TypeInv, NEW c \in Clients, MultiStep(c) PROVE TypeInv'
<1> DEFINE r == plan[c][multi.next]
           t == Apply(multi.tree, r)
<1>1. /\ Executing(c) /\ multi.next <= Len(plan[c]) /\ ErrorCode(multi.tree, r) = "ok"
      /\ multi' = [client |-> c, next |-> multi.next + 1, tree |-> t,
                   events |-> multi.events \cup Events(r),
                   versions |-> multi.versions \o ResultOf(r, t)]
      /\ UNCHANGED <<tree, session, pc, opened, op, plan, res, calls, handle, losses>>
    BY DEF MultiStep, clientVars
<1>2. /\ multi \in MultiType /\ multi.client = c /\ multi.next \in 1..Len(plan[c]) /\ r \in Requests
      /\ multi.tree \in Tree
    <2>1. multi \in MultiType /\ plan[c] \in Seq(Requests \cup Visits) /\ Len(plan[c]) \in Nat
        BY <1>1, RequestInExecution
    <2>2. multi.next \in 1..Len(plan[c])
        BY <1>1, <2>1 DEF MultiType
    <2> QED BY <1>1, <2>1, <2>2, RequestInExecution DEF MultiType, Executing
<1>3. t \in Tree
    BY <1>1, <1>2, ApplyAtPath
<1>4. Events(r) \in SUBSET ({"node", "child"} \X (Paths \cup {Root}))
    BY <1>2, EventsTyped
<1>5. ResultOf(r, t) \in Seq({"create", "set"} \X Nat)
    <2>1. CASE r.kind = "create"
        BY <2>1 DEF ResultOf, OpResult
    <2>2. CASE r.kind = "set"
        <3>1. r.path \in Paths /\ t[r.path] # Nil
            BY <1>1, <1>2, <2>2, ApplyPresence DEF Requests
        <3>2. t[r.path].ver + 1 \in Nat
            <4>1. t[r.path] \in ZNode
                BY <3>1, <1>3 DEF Tree
            <4> QED BY <4>1 DEF ZNode
        <3> QED BY <2>2, <3>2 DEF ResultOf, OpResult
    <2>3. CASE r.kind \notin {"create", "set"}
        BY <2>3 DEF ResultOf
    <2> QED BY <2>1, <2>2, <2>3
<1> HIDE DEF r, t
<1>6. multi.versions \o ResultOf(r, t) \in Seq({"create", "set"} \X Nat)
    BY <1>2, <1>5, ConcatProperties DEF MultiType
<1>7. multi' \in MultiType /\ multi'.client = c
    BY <1>1, <1>2, <1>3, <1>4, <1>6 DEF MultiType
<1>8. TypeOK'
    BY <1>1, <1>7 DEF TypeInv, TypeOK
<1>9. CallOK'
    BY <1>1, <1>2, <1>7 DEF TypeInv, CallOK, Executing
<1> QED BY <1>8, <1>9 DEF TypeInv

LEMMA MultiFailPreserves == ASSUME TypeInv, NEW c \in Clients, MultiFail(c) PROVE TypeInv'
<1> DEFINE verdict == IF op[c].type = "erase" THEN EraseFailed(multi.next)
                      ELSE CommitFailed(plan[c], multi.next)
<1>1. /\ Executing(c) /\ multi' = Nil /\ multi.next <= Len(plan[c])
      /\ UNCHANGED <<tree, session, handle>>
    BY DEF MultiFail
<1>2. PICK code \in Seen("transaction_failed") :
         /\ CountLoss(code)
         /\ CASE code = "connection_loss" -> Return(c, Failure(Rethrow(code)))
              [] code # "connection_loss" /\ verdict = <<"retry">> ->
                   /\ plan' = [plan EXCEPT ![c] = FreshPlan(op[c], c)]
                   /\ UNCHANGED <<pc, opened, op, res, calls>>
              [] OTHER -> Return(c, verdict)
    BY DEF MultiFail
<1>3. losses' \in 0..MaxLosses
    BY <1>2, LossCounted DEF TypeInv
<1>4. ASSUME NEW a \in Answer, Return(c, a) PROVE TypeInv'
    <2>1. TypeOK'
        BY <1>1, <1>3, <1>4, ReturnTyped DEF TypeInv, TypeOK
    <2> QED BY <2>1, <1>1, <1>4, ReturnCallOK DEF TypeInv
<1>5. CASE code = "connection_loss"
    BY <1>2, <1>4, <1>5, AnswerTypes
<1>6. CASE code # "connection_loss" /\ verdict = <<"retry">>
    <2>1. op[c] \in Op
        BY <1>1, RequestInExecution DEF Op
    <2>2. FreshPlan(op[c], c) \in Seq(Requests \cup Visits)
        BY <2>1, FreshPlanTyped
    <2>3. plan' \in [Clients -> Seq(Requests \cup Visits)] /\ UNCHANGED <<pc, opened, op, res, calls>>
        BY <1>2, <1>6, <2>2 DEF TypeInv, TypeOK
    <2>4. TypeOK'
        BY <1>1, <1>3, <2>3 DEF TypeInv, TypeOK
    <2>5. CallOK'
        BY <1>1, <2>3 DEF TypeInv, CallOK
    <2> QED BY <2>4, <2>5 DEF TypeInv
<1>7. CASE code # "connection_loss" /\ verdict # <<"retry">>
    <2>1. verdict \in Answer
        <3>1. CASE op[c].type = "erase"
            BY <1>7, <3>1, AnswerTypes DEF EraseFailed
        <3>2. CASE op[c].type # "erase"
            <4>1. /\ plan[c] \in Seq(Requests \cup Visits) /\ multi.next \in Nat \ {0}
                  /\ \A i \in 1..Len(plan[c]) : plan[c][i] \in Requests
                BY <1>1, RequestInExecution DEF MultiType
            <4>2. multi.next \in 1..Len(plan[c])
                BY <1>1, <4>1
            <4>3. plan[c][multi.next].user \in Nat
                BY <4>1, <4>2 DEF Requests
            <4> QED BY <1>7, <3>2, <4>3, AnswerTypes DEF CommitFailed
        <3> QED BY <3>1, <3>2
    <2> QED BY <1>2, <1>4, <1>7, <2>1
<1> QED BY <1>5, <1>6, <1>7

LEMMA MultiDonePreserves == ASSUME TypeInv, NEW c \in Clients, MultiDone(c) PROVE TypeInv'
<1>1. /\ Executing(c) /\ multi' = Nil /\ tree' = multi.tree /\ session' = session
      /\ Notify(multi.events)
    BY DEF MultiDone
<1>2. PICK code \in Seen("ok") :
         /\ CountLoss(code)
         /\ Return(c, IF code # "ok" THEN Failure(Rethrow(code))
                      ELSE IF op[c].type = "erase" THEN Version(0)
                      ELSE TxnResult(multi.versions))
    BY DEF MultiDone
<1>3. losses' \in 0..MaxLosses
    BY <1>2, LossCounted DEF TypeInv
<1>4. multi.tree \in Tree /\ multi.versions \in Seq({"create", "set"} \X Nat)
    BY <1>1, RequestInExecution DEF MultiType
<1>5. PICK a \in Answer : Return(c, a)
    BY <1>2, <1>4, AnswerTypes
<1>6. handle' \in [Clients -> HandleType \cup {Nil}]
    BY <1>1, NotifyTyped DEF TypeInv
<1>7. TypeOK'
    BY <1>1, <1>3, <1>4, <1>5, <1>6, ReturnTyped DEF TypeInv, TypeOK
<1> QED BY <1>1, <1>5, <1>7, ReturnCallOK DEF TypeInv

LEMMA LoseRequestPreserves == ASSUME TypeInv, NEW c \in Clients, LoseRequest(c) PROVE TypeInv'
<1>1. /\ ~Executing(c) /\ losses < MaxLosses /\ losses' = losses + 1
      /\ UNCHANGED <<tree, session, multi, handle>>
    BY DEF LoseRequest
<1>2. losses' \in 0..MaxLosses /\ tree' \in Tree /\ handle' \in [Clients -> HandleType \cup {Nil}]
    BY <1>1, BoundsAssumption DEF TypeInv, TypeOK
<1>3. CASE pc[c] = "opening" /\ Goto(c, "dead")
    <2>1. /\ pc' = [pc EXCEPT ![c] = "dead"] /\ UNCHANGED <<opened, op, plan, res, calls>>
          /\ "dead" \in Labels /\ op[c] = Nil
        BY <1>3 DEF Goto, Labels, TypeInv, CallOK
    <2>2. TypeOK'
        BY <1>1, <1>2, <2>1 DEF TypeInv, TypeOK
    <2>3. opened' \in [Clients -> 0..Len(Prefix)]
        BY <2>1 DEF TypeInv, TypeOK
    <2>4. CallOK'
        BY <1>1, <2>1, <2>3, KeptCall
    <2> QED BY <2>2, <2>4 DEF TypeInv
<1>4. CASE Return(c, Failure(BackendError))
    BY <1>1, <1>2, <1>4, AnswerTypes, ReturningStep
<1>5. CASE Return(c, Failure("ConnectionLoss"))
    BY <1>1, <1>2, <1>5, AnswerTypes, ReturningStep
<1> QED BY <1>3, <1>4, <1>5 DEF LoseRequest

LEMMA HandleStepPreserves ==
    ASSUME TypeInv, NEW c \in Clients, WaitEnds(c) \/ DropHandle(c)
    PROVE  TypeInv'
<1>1. /\ handle' = [handle EXCEPT ![c] = Nil]
      /\ UNCHANGED <<tree, session, multi, pc, opened, op, plan, res, calls>>
    BY DEF WaitEnds, DropHandle, clientVars
<1>2. losses' \in 0 .. MaxLosses
    <2>1. losses \in 0 .. MaxLosses /\ MaxLosses \in Nat
        BY BoundsAssumption DEF TypeInv, TypeOK
    <2>2. losses' = losses \/ (losses < MaxLosses /\ losses' = losses + 1)
        BY DEF WaitEnds, DropHandle
    <2> QED BY <2>1, <2>2
<1>3. TypeOK'
    BY <1>1, <1>2 DEF TypeInv, TypeOK
<1>4. CallOK'
    BY <1>1 DEF TypeInv, CallOK
<1> QED BY <1>3, <1>4 DEF TypeInv

LEMMA DiePreserves == ASSUME TypeInv, NEW c \in Clients, Die(c) PROVE TypeInv'
<1>1. /\ ~Executing(c) /\ pc' = [pc EXCEPT ![c] = "dead"] /\ op' = [op EXCEPT ![c] = Nil]
      /\ plan' = [plan EXCEPT ![c] = <<>>] /\ handle' = [handle EXCEPT ![c] = Nil]
      /\ UNCHANGED <<tree, session, multi, opened, res, calls, losses>>
    BY DEF Die
<1>2. TypeOK'
    BY <1>1 DEF TypeInv, TypeOK, Labels
<1>3. CallOK'
    <2>1. pc \in [Clients -> Labels] /\ op \in [Clients -> Op \cup {Nil}]
          /\ plan \in [Clients -> Seq(Requests \cup Visits)]
        BY DEF TypeInv, TypeOK
    <2>2. multi # Nil => multi.client \in Clients /\ multi.client # c
        BY <1>1 DEF TypeInv, TypeOK, MultiType, Executing
    <2>3. multi' # Nil => pc'[multi'.client] = "build" /\ Unvisited(plan'[multi'.client]) = {}
        BY <1>1, <2>1, <2>2 DEF TypeInv, CallOK
    <2> QED BY <1>1, <2>1, <2>3 DEF TypeInv, CallOK
<1> QED BY <1>2, <1>3 DEF TypeInv

LEMMA EndSessionPreserves == ASSUME TypeInv, NEW c \in Clients, EndSession(c) PROVE TypeInv'
<1>1. /\ session' = [session EXCEPT ![c] = FALSE] /\ tree' = WithoutSession(tree, c)
      /\ Notify(SessionEvents(tree, c))
      /\ UNCHANGED <<multi, pc, opened, op, plan, res, calls, losses>>
    BY DEF EndSession, clientVars
<1>2. tree' \in Tree
    BY <1>1 DEF TypeInv, TypeOK, Tree, WithoutSession
<1>3. handle' \in [Clients -> HandleType \cup {Nil}]
    BY <1>1, NotifyTyped DEF TypeInv
<1>4. TypeOK'
    BY <1>1, <1>2, <1>3 DEF TypeInv, TypeOK
<1>5. CallOK'
    BY <1>1 DEF TypeInv, CallOK
<1> QED BY <1>4, <1>5 DEF TypeInv

LEMMA InitTyped == Init => TypeInv
<1> SUFFICES ASSUME Init PROVE TypeInv
    OBVIOUS
<1>1. TypeOK
    BY PrefixFacts, BoundsAssumption DEF Init, TypeOK, Tree, Labels
<1>2. CallOK
    <2>1. Prefix # Root => 0 < Len(Prefix)
        BY PrefixFacts, EmptySeq DEF Root, Segments
    <2> QED BY <2>1 DEF Init, CallOK
<1> QED BY <1>1, <1>2 DEF TypeInv

\* Every step of the specification preserves the type invariant.
LEMMA NextTyped == TypeInv /\ [Next]_vars => TypeInv'
<1> SUFFICES ASSUME TypeInv, [Next]_vars PROVE TypeInv'
    OBVIOUS
<1>1. CASE UNCHANGED vars
    <2>1. UNCHANGED <<tree, session, multi, pc, opened, op, plan, res, calls, handle, losses>>
        BY <1>1 DEF vars, clientVars
    <2>2. TypeOK'
        BY <2>1 DEF TypeInv, TypeOK
    <2>3. CallOK'
        BY <2>1 DEF TypeInv, CallOK
    <2> QED BY <2>2, <2>3 DEF TypeInv
<1>2. CASE Next
    <2> SUFFICES ASSUME NEW c \in Clients,
                        \/ \E o \in Ops : Invoke(c, o)
                        \/ Progress(c)
                        \/ LoseRequest(c)
                        \/ WaitEnds(c)
                        \/ DropHandle(c)
                        \/ Die(c)
                        \/ EndSession(c)
                 PROVE  TypeInv'
        BY <1>2 DEF Next
    <2>1. CASE Progress(c)
        BY <2>1, OpenPreserves, CreatePreserves, SetCreatePreserves, SetSetPreserves, CasSetPreserves,
           ReadPreserves, WalkPreserves, SubmitPreserves, MultiStepPreserves, MultiFailPreserves,
           MultiDonePreserves
           DEF Progress
    <2> QED BY <2>1, InvokePreserves, LoseRequestPreserves, HandleStepPreserves, DiePreserves,
               EndSessionPreserves
<1> QED BY <1>1, <1>2

\* Type correctness of the ZooKeeper client, for every instance: every variable keeps its
\* type and every answer is one that client.hpp and errors.hpp provide for.
THEOREM TypeCorrect == Spec => []TypeOK
<1>1. Init => TypeInv
    BY InitTyped
<1>2. TypeInv /\ [Next]_vars => TypeInv'
    BY NextTyped
<1>3. TypeInv => TypeOK
    BY DEF TypeInv
<1> QED BY <1>1, <1>2, <1>3, PTL DEF Spec

=============================================================================
