--------------------------- MODULE CBindingProofs ---------------------------
(***************************************************************************)
(* For any keys, URLs, versions, lists and heap: the C binding leaks no    *)
(* block and frees none twice, lets no exception of errors.hpp escape, and *)
(* tells its caller what happened; and the texts it passes on mean the     *)
(* paths that the models of the backends work with.                        *)
(*                                                                         *)
(* What the heap holds is a sum over the objects of the caller.  The lemmas*)
(* on sums show what SumFunctionOnSet computes: any element can be taken   *)
(* first, and giving the caller some objects adds up their sizes.  The     *)
(* rest is an induction over the calls.                                    *)
(*                                                                         *)
(* The loop of segments() is understood from its end: a text that begins   *)
(* with a slash is its parent, a slash and a name, and the loop finds the  *)
(* segments of the parent and then the name (SegmentsJoin, SegmentsStep).  *)
(* Everything else about texts is an induction over their length.          *)
(***************************************************************************)
EXTENDS CBinding, FiniteSetTheorems, WellFoundedInduction, TLAPS

-----------------------------------------------------------------------------
(* Induction. *)

\* Induction over the natural numbers, for a set.
LEMMA NatSetInduction ==
    ASSUME NEW S, 0 \in S, \A n \in Nat : n \in S => n + 1 \in S
    PROVE  \A n \in Nat : n \in S
<1> DEFINE T == Nat \ S
<1>1. SUFFICES ASSUME T # {} PROVE FALSE
    OBVIOUS
<1>2. \E x \in T : \A y \in T : ~(<<y, x>> \in OpToRel(<, Nat))
    <2>1. T \subseteq Nat
        OBVIOUS
    <2> HIDE DEF T
    <2> QED BY <1>1, <2>1, WFMin, NatLessThanWellFounded
<1>3. PICK x \in T : \A y \in T : ~(y < x)
    BY <1>2 DEF OpToRel
<1>4. x # 0 /\ x - 1 \in Nat /\ x - 1 < x
    BY <1>3
<1>5. x - 1 \in S
    BY <1>3, <1>4
<1> QED BY <1>3, <1>4, <1>5

\* A set of naturals has a least element.
LEMMA LeastNat ==
    ASSUME NEW S \in SUBSET Nat, S # {}
    PROVE  \E x \in S : \A y \in S : x <= y
<1>1. \E x \in S : \A y \in S : ~(<<y, x>> \in OpToRel(<, Nat))
    BY WFMin, NatLessThanWellFounded
<1>2. PICK x \in S : \A y \in S : ~(y < x)
    BY <1>1 DEF OpToRel
<1> QED BY <1>2

\* A set of naturals that is bounded has a greatest element.
LEMMA GreatestNat ==
    ASSUME NEW n \in Nat, NEW S \in SUBSET (0 .. n), S # {}
    PROVE  \E x \in S : \A y \in S : x >= y
<1> DEFINE T == {n - x : x \in S}
<1>1. T \in SUBSET Nat /\ T # {}
    <2>1. \A x \in S : n - x \in Nat
        OBVIOUS
    <2>2. T \subseteq Nat
        BY <2>1, Zenon
    <2>3. T # {}
        BY Zenon
    <2> QED BY <2>2, <2>3
<1>2. PICK y \in T : \A z \in T : y <= z
    BY <1>1, LeastNat
<1>3. PICK x \in S : y = n - x
    BY <1>2
<1>4. ASSUME NEW z \in S PROVE x >= z
    <2>1. n - z \in T
        OBVIOUS
    <2>2. n - x <= n - z
        BY <1>2, <1>3, <2>1
    <2> QED BY <2>2
<1> QED BY <1>4

\* Induction from n down to 0.
LEMMA DownInduction ==
    ASSUME NEW n \in Nat, NEW S, \A i \in 0 .. n : (\A j \in i + 1 .. n : j \in S) => i \in S
    PROVE  \A i \in 0 .. n : i \in S
<1> DEFINE T == (0 .. n) \ S
<1>1. SUFFICES ASSUME T # {} PROVE FALSE
    OBVIOUS
<1>2. PICK x \in T : \A y \in T : x >= y
    BY <1>1, GreatestNat
<1>3. ASSUME NEW j \in x + 1 .. n PROVE j \in S
    BY <1>2
<1> QED BY <1>2, <1>3

-----------------------------------------------------------------------------
(* Sums. *)

\* The element that a fold takes next.
Taken(s) == CHOOSE x \in s : TRUE

\* f[s] is what a fold makes of the weights W of the elements of s.
Sums(f, W, T) == \A s \in SUBSET T : f[s] = IF s = {} THEN 0 ELSE W[Taken(s)] + f[s \ {Taken(s)}]

\* There is such a function, and the sum is its value.
LEMMA SumDef ==
    ASSUME NEW W, NEW T, IsFiniteSet(T)
    PROVE  \E f : Sums(f, W, T) /\ SumFunctionOnSet(W, T) = f[T]
<1>  DEFINE Step(f, s) == IF s = {} THEN 0 ELSE W[Taken(s)] + f[s \ {Taken(s)}]
            Small(n) == {s \in SUBSET T : Cardinality(s) <= n}
            Is(f, n) == f = [s \in Small(n) |-> Step(f, s)]
            V == {n \in Nat : \E f : Is(f, n)}
            F == CHOOSE f : f = [s \in SUBSET T |-> Step(f, s)]
<1>1. SumFunctionOnSet(W, T) = F[T]
    BY DEF SumFunctionOnSet, FoldFunctionOnSet, MapThenFoldSet, Taken
<1>2. \A s \in SUBSET T : IsFiniteSet(s) /\ Cardinality(s) \in Nat /\ Cardinality(s) <= Cardinality(T)
    BY FS_Subset, FS_CardinalityType
<1>3. \A s \in SUBSET T : s # {} => /\ Taken(s) \in s /\ s \ {Taken(s)} \in SUBSET T
                                    /\ Cardinality(s \ {Taken(s)}) = Cardinality(s) - 1
    BY <1>2, FS_RemoveElement DEF Taken
<1>4. \A n \in Nat : n \in V
    <2>1. 0 \in V
        <3> DEFINE f == [s \in Small(0) |-> 0]
        <3>1. \A s \in Small(0) : s = {}
            BY <1>2, FS_EmptySet
        <3>2. Is(f, 0)
            BY <3>1
        <3> QED BY <3>2
    <2>2. ASSUME NEW n \in Nat, n \in V PROVE n + 1 \in V
        <3>1. PICK f : f = [s \in Small(n) |-> Step(f, s)]
            BY <2>2
        <3> DEFINE g == [s \in Small(n + 1) |-> Step(f, s)]
        <3>2. \A s \in Small(n) : s \in Small(n + 1) /\ g[s] = f[s]
            <4>1. \A s \in Small(n) : s \in Small(n + 1)
                BY <1>2
            <4> HIDE DEF Step, Small
            <4>2. \A s \in Small(n) : f[s] = Step(f, s)
                BY <3>1
            <4> QED BY <4>1, <4>2
        <3>3. \A s \in Small(n + 1) : s # {} => s \ {Taken(s)} \in Small(n)
            BY <1>2, <1>3
        <3>4. \A s \in Small(n + 1) : g[s] = Step(g, s)
            BY <3>2, <3>3
        <3>5. Is(g, n + 1)
            BY <3>4
        <3> HIDE DEF g, Is
        <3> QED BY <3>5
    <2> HIDE DEF V
    <2> QED BY <2>1, <2>2, NatSetInduction
<1>5. Cardinality(T) \in V
    <2> HIDE DEF V
    <2> QED BY <1>4, FS_CardinalityType
<1>6. SUBSET T = Small(Cardinality(T))
    BY <1>2
<1>7. \E f : f = [s \in SUBSET T |-> Step(f, s)]
    BY <1>5, <1>6
<1>8. F = [s \in SUBSET T |-> Step(F, s)]
    BY <1>7
<1> HIDE DEF F
<1>9. \A s \in SUBSET T : F[s] = Step(F, s)
    <2> HIDE DEF Step
    <2> QED BY <1>8
<1> QED BY <1>1, <1>9 DEF Sums

\* Two such functions agree where the weights do.
LEMMA SumsAgree ==
    ASSUME NEW W, NEW Y, NEW T, IsFiniteSet(T), NEW S, T \subseteq S, NEW f, NEW g,
           Sums(f, W, S), Sums(g, Y, T),
           \A x \in T : W[x] = Y[x]
    PROVE  f[T] = g[T]
<1>  DEFINE V == {n \in Nat : \A s \in SUBSET T : Cardinality(s) = n => f[s] = g[s]}
<1>2. \A s \in SUBSET T : IsFiniteSet(s) /\ Cardinality(s) \in Nat
    BY FS_Subset, FS_CardinalityType
<1>3. \A s \in SUBSET T : s # {} => /\ Taken(s) \in s /\ s \ {Taken(s)} \in SUBSET T
                                    /\ Cardinality(s \ {Taken(s)}) = Cardinality(s) - 1
    BY <1>2, FS_RemoveElement DEF Taken
<1>4. 0 \in V
    <2>1. \A s \in SUBSET T : Cardinality(s) = 0 => s = {}
        BY <1>2, FS_EmptySet
    <2>2. {} \in SUBSET T /\ {} \in SUBSET S
        OBVIOUS
    <2>3. f[{}] = 0 /\ g[{}] = 0
        BY <2>2 DEF Sums
    <2> QED BY <2>1, <2>3
<1>5. ASSUME NEW n \in Nat, n \in V PROVE n + 1 \in V
    <2> SUFFICES ASSUME NEW s \in SUBSET T, Cardinality(s) = n + 1 PROVE f[s] = g[s]
        OBVIOUS
    <2>1. s # {}
        BY FS_EmptySet
    <2>2. f[s \ {Taken(s)}] = g[s \ {Taken(s)}]
        BY <1>2, <1>3, <1>5, <2>1
    <2>3. f[s] = W[Taken(s)] + f[s \ {Taken(s)}] /\ g[s] = Y[Taken(s)] + g[s \ {Taken(s)}]
        BY <2>1 DEF Sums
    <2> QED BY <1>3, <2>1, <2>2, <2>3
<1>6. \A n \in Nat : n \in V
    <2> HIDE DEF V
    <2> QED BY <1>4, <1>5, NatSetInduction
<1> QED BY <1>2, <1>6

\* Integer weights add up to an integer, and any element can be taken first.
LEMMA SumsTake ==
    ASSUME NEW T, IsFiniteSet(T), NEW W, \A x \in T : W[x] \in Int, NEW f, Sums(f, W, T)
    PROVE  f[T] \in Int /\ \A x \in T : f[T] = W[x] + f[T \ {x}]
<1>  DEFINE Good(s) == f[s] \in Int /\ \A x \in s : f[s] = W[x] + f[s \ {x}]
            V == {n \in Nat : \A s \in SUBSET T : Cardinality(s) <= n => Good(s)}
<1>2. \A s \in SUBSET T : IsFiniteSet(s) /\ Cardinality(s) \in Nat
    BY FS_Subset, FS_CardinalityType
<1>3. \A s \in SUBSET T : \A x \in s : s \ {x} \in SUBSET T /\ Cardinality(s \ {x}) = Cardinality(s) - 1
    BY <1>2, FS_RemoveElement
<1>4. 0 \in V
    <2>1. \A s \in SUBSET T : Cardinality(s) <= 0 => s = {}
        <3>1. \A s \in SUBSET T : Cardinality(s) <= 0 => Cardinality(s) = 0
            BY <1>2
        <3> QED BY <1>2, <3>1, FS_EmptySet
    <2>2. {} \in SUBSET T
        OBVIOUS
    <2>3. f[{}] = 0
        BY <2>2 DEF Sums
    <2>4. Good({})
        BY <2>3
    <2> HIDE DEF Good
    <2> QED BY <2>1, <2>4
<1>5. ASSUME NEW n \in Nat, n \in V PROVE n + 1 \in V
    <2>0. \A t \in SUBSET T : Cardinality(t) <= n => Good(t)
        BY <1>5
    <2>1. ASSUME NEW s \in SUBSET T, Cardinality(s) = n + 1 PROVE Good(s)
        <3> DEFINE y == Taken(s)
        <3>1. s # {}
            BY <2>1, FS_EmptySet
        <3>2. y \in s
            BY <3>1 DEF Taken
        <3>3. f[s] = W[y] + f[s \ {y}]
            BY <3>1 DEF Sums
        <3>4. \A x \in s : s \ {x} \in SUBSET T /\ Cardinality(s \ {x}) = n
            BY <1>3, <2>1
        <3>8. W[y] \in Int
            BY <3>2
        <3> HIDE DEF y
        <3>5. \A x \in s : Good(s \ {x})
            <4> HIDE DEF Good
            <4> QED BY <2>0, <3>4
        <3>6. f[s] \in Int
            BY <3>2, <3>3, <3>5, <3>8
        <3>7. ASSUME NEW x \in s, x # y PROVE f[s] = W[x] + f[s \ {x}]
            <4> DEFINE r == (s \ {x}) \ {y}
            <4>1. f[s \ {y}] = W[x] + f[(s \ {y}) \ {x}]
                BY <3>2, <3>5, <3>7
            <4>2. f[s \ {x}] = W[y] + f[r]
                BY <3>2, <3>5, <3>7
            <4>3. (s \ {y}) \ {x} = r
                OBVIOUS
            <4>4. f[r] \in Int
                <5>1. y \in s \ {x} /\ s \ {x} \in SUBSET T /\ Cardinality(s \ {x}) = n
                    BY <3>2, <3>4, <3>7
                <5>2. r \in SUBSET T /\ Cardinality(r) = n - 1
                    BY <1>3, <5>1
                <5>3. Cardinality(r) <= n
                    BY <5>2
                <5> QED BY <2>0, <5>2, <5>3
            <4>5. W[x] \in Int /\ W[y] \in Int
                BY <3>2
            <4>6. \A i, j, k \in Int : i + (j + k) = j + (i + k)
                OBVIOUS
            <4>7. f[s] = W[y] + (W[x] + f[r])
                BY <3>3, <4>1, <4>3, Zenon
            <4> HIDE DEF r
            <4>8. f[s] = W[x] + (W[y] + f[r])
                BY <4>4, <4>5, <4>6, <4>7
            <4> QED BY <4>2, <4>8
        <3> QED BY <3>3, <3>6, <3>7
    <2>2. \A s \in SUBSET T : Cardinality(s) <= n + 1 => Cardinality(s) <= n \/ Cardinality(s) = n + 1
        BY <1>2
    <2> HIDE DEF Good
    <2> QED BY <2>0, <2>1, <2>2
<1>6. \A n \in Nat : n \in V
    <2> HIDE DEF V
    <2> QED BY <1>4, <1>5, NatSetInduction
<1>7. Good(T)
    <2> HIDE DEF Good
    <2> QED BY <1>2, <1>6
<1> QED BY <1>7

LEMMA SumTake ==
    ASSUME NEW T, IsFiniteSet(T), NEW W, \A x \in T : W[x] \in Int
    PROVE  /\ SumFunctionOnSet(W, T) \in Int
           /\ \A x \in T : SumFunctionOnSet(W, T) = W[x] + SumFunctionOnSet(W, T \ {x})
<1>1. PICK f : Sums(f, W, T) /\ SumFunctionOnSet(W, T) = f[T]
    BY SumDef
<1>2. f[T] \in Int /\ \A x \in T : f[T] = W[x] + f[T \ {x}]
    BY <1>1, SumsTake
<1>3. ASSUME NEW x \in T PROVE f[T \ {x}] = SumFunctionOnSet(W, T \ {x})
    <2>1. IsFiniteSet(T \ {x})
        BY FS_RemoveElement
    <2>2. PICK g : Sums(g, W, T \ {x}) /\ SumFunctionOnSet(W, T \ {x}) = g[T \ {x}]
        BY <2>1, SumDef
    <2>3. f[T \ {x}] = g[T \ {x}]
        BY <1>1, <2>1, <2>2, SumsAgree
    <2> QED BY <2>2, <2>3
<1> QED BY <1>1, <1>2, <1>3

LEMMA SumEmpty ==
    ASSUME NEW W PROVE SumFunctionOnSet(W, {}) = 0
<1>1. PICK f : Sums(f, W, {}) /\ SumFunctionOnSet(W, {}) = f[{}]
    BY SumDef, FS_EmptySet
<1> QED BY <1>1 DEF Sums

LEMMA SumSame ==
    ASSUME NEW T, IsFiniteSet(T), NEW W, NEW Y, \A x \in T : W[x] = Y[x]
    PROVE  SumFunctionOnSet(W, T) = SumFunctionOnSet(Y, T)
<1>1. PICK f : Sums(f, W, T) /\ SumFunctionOnSet(W, T) = f[T]
    BY SumDef
<1>2. PICK g : Sums(g, Y, T) /\ SumFunctionOnSet(Y, T) = g[T]
    BY SumDef
<1>3. f[T] = g[T]
    BY <1>1, <1>2, SumsAgree
<1> QED BY <1>1, <1>2, <1>3

\* One weight changes.
LEMMA SumChange ==
    ASSUME NEW T, IsFiniteSet(T), NEW W, NEW Y, NEW y \in T,
           \A x \in T : W[x] \in Int /\ Y[x] \in Int,
           \A x \in T \ {y} : W[x] = Y[x]
    PROVE  SumFunctionOnSet(Y, T) = SumFunctionOnSet(W, T) + Y[y] - W[y]
<1>1. IsFiniteSet(T \ {y})
    BY FS_RemoveElement
<1>2. SumFunctionOnSet(W, T \ {y}) = SumFunctionOnSet(Y, T \ {y})
    BY <1>1, SumSame
<1>3. SumFunctionOnSet(W, T \ {y}) \in Int
    BY <1>1, SumTake
<1>4. /\ SumFunctionOnSet(W, T) = W[y] + SumFunctionOnSet(W, T \ {y})
      /\ SumFunctionOnSet(Y, T) = Y[y] + SumFunctionOnSet(Y, T \ {y})
    BY SumTake
<1> QED BY <1>2, <1>3, <1>4

\* The weights of the elements of X grow by B.
LEMMA SumAdd ==
    ASSUME NEW T, IsFiniteSet(T), NEW W, NEW B, \A x \in T : W[x] \in Int /\ B[x] \in Int,
           NEW X \in SUBSET T
    PROVE  SumFunctionOnSet([x \in T |-> W[x] + IF x \in X THEN B[x] ELSE 0], T)
             = SumFunctionOnSet(W, T) + SumFunctionOnSet(B, X)
<1>  DEFINE Plus(s) == [x \in T |-> W[x] + IF x \in s THEN B[x] ELSE 0]
            Good(s) == SumFunctionOnSet(Plus(s), T) = SumFunctionOnSet(W, T) + SumFunctionOnSet(B, s)
            V == {n \in Nat : \A s \in SUBSET T : Cardinality(s) = n => Good(s)}
<1>1. \A s \in SUBSET T : IsFiniteSet(s) /\ Cardinality(s) \in Nat
    BY FS_Subset, FS_CardinalityType
<1>2. SumFunctionOnSet(W, T) \in Int
    BY SumTake
<1>3. 0 \in V
    <2>1. \A s \in SUBSET T : Cardinality(s) = 0 => s = {}
        BY <1>1, FS_EmptySet
    <2>2. Good({})
        <3>1. \A x \in T : W[x] = Plus({})[x]
            OBVIOUS
        <3>2. SumFunctionOnSet(W, T) = SumFunctionOnSet(Plus({}), T)
            <4> HIDE DEF Plus
            <4> QED BY <3>1, SumSame
        <3> HIDE DEF Plus
        <3> QED BY <1>2, <3>2, SumEmpty
    <2> HIDE DEF Good
    <2> QED BY <2>1, <2>2
<1>4. ASSUME NEW n \in Nat, n \in V PROVE n + 1 \in V
    <2>1. ASSUME NEW s \in SUBSET T, Cardinality(s) = n + 1 PROVE Good(s)
        <3>1. s # {}
            BY <2>1, FS_EmptySet
        <3>2. PICK y \in s : TRUE
            BY <3>1
        <3> DEFINE r == s \ {y}
        <3>3. r \in SUBSET T /\ Cardinality(r) = n /\ IsFiniteSet(s)
            BY <1>1, <2>1, FS_RemoveElement
        <3>4. Good(r)
            <4> HIDE DEF Good, r
            <4> QED BY <1>4, <3>3
        <3>5. /\ \A x \in T : Plus(r)[x] \in Int /\ Plus(s)[x] \in Int
              /\ \A x \in T \ {y} : Plus(r)[x] = Plus(s)[x]
              /\ Plus(s)[y] = Plus(r)[y] + B[y] /\ y \in T /\ Plus(r)[y] \in Int /\ B[y] \in Int
            OBVIOUS
        <3>6. SumFunctionOnSet(B, s) = B[y] + SumFunctionOnSet(B, r)
            BY <3>3, SumTake
        <3>7. SumFunctionOnSet(B, r) \in Int
            BY <1>1, <3>3, SumTake
        <3> HIDE DEF Plus, r
        <3>8. SumFunctionOnSet(Plus(s), T) = SumFunctionOnSet(Plus(r), T) + Plus(s)[y] - Plus(r)[y]
            BY <3>5, SumChange
        <3> QED BY <1>2, <3>4, <3>5, <3>6, <3>7, <3>8
    <2> HIDE DEF Good
    <2> QED BY <2>1
<1>5. \A n \in Nat : n \in V
    <2> HIDE DEF V
    <2> QED BY <1>3, <1>4, NatSetInduction
<1>6. Good(X)
    <2> HIDE DEF Good
    <2> QED BY <1>1, <1>5
<1> QED BY <1>6

-----------------------------------------------------------------------------
(* The objects of the caller. *)

LEMMA ObjectsFinite == IsFiniteSet(Objects)
<1>  DEFINE L == {ListOf(n) : n \in 0 .. MaxChildren}
            W == {Watch(b) : b \in Backends}
            f == [n \in 0 .. MaxChildren |-> ListOf(n)]
<1>1. IsFiniteSet(0 .. MaxChildren)
      BY BindingAssumption, FS_Interval
<1>2. f \in Surjection(0 .. MaxChildren, L)
      BY DEF Surjection
<1>3. IsFiniteSet(L)
  <2>  HIDE DEF f, L
  <2>  QED
        BY <1>1, <1>2, FS_Surjection
<1>4. W = {Watch("zk")} \cup ({Watch("consul")} \cup {Watch("etcd")})
      BY DEF Backends
<1>5. IsFiniteSet(W)
  <2>1. IsFiniteSet({Watch("consul")} \cup {Watch("etcd")})
        BY FS_Singleton, FS_Union
  <2>  HIDE DEF W
  <2>  QED
        BY <1>4, <2>1, FS_Singleton, FS_Union
<1>6. IsFiniteSet({ValueOf} \cup {TxnOf})
      BY FS_Singleton, FS_Union
<1>7. Objects = (W \cup ({ValueOf} \cup {TxnOf})) \cup L
      BY DEF Objects
<1>  HIDE DEF L, W
<1>  QED
      BY <1>3, <1>5, <1>6, <1>7, FS_Union

LEMMA ObjectFacts ==
    /\ \A x \in Objects : Blocks(x) \in Nat /\ (x[1] = "children" => x[2] \in Nat)
    /\ ValueOf \in Objects /\ TxnOf \in Objects
    /\ \A b \in Backends : Watch(b) \in Objects /\ Watch(b) # TxnOf
    /\ \A n \in 0 .. MaxChildren : ListOf(n) \in Objects /\ ListOf(n) # TxnOf
    /\ ValueOf # TxnOf
<1>1. ASSUME NEW x \in Objects PROVE Blocks(x) \in Nat /\ (x[1] = "children" => x[2] \in Nat)
  <2>1. CASE x \in {Watch(b) : b \in Backends}
        BY <2>1 DEF Watch, Blocks
  <2>2. CASE x \in {ValueOf, TxnOf}
        BY <2>2 DEF ValueOf, TxnOf, Blocks
  <2>3. CASE x \in {ListOf(n) : n \in 0 .. MaxChildren}
        BY <2>3, BindingAssumption DEF ListOf, Blocks
  <2>  QED
        BY <2>1, <2>2, <2>3 DEF Objects
<1>2. \A b \in Backends : Watch(b) \in Objects /\ Watch(b) # TxnOf
      BY DEF Objects, Watch, TxnOf
<1>3. \A n \in 0 .. MaxChildren : ListOf(n) \in Objects /\ ListOf(n) # TxnOf
      BY DEF Objects, ListOf, TxnOf
<1>4. ValueOf \in Objects /\ TxnOf \in Objects /\ ValueOf # TxnOf
      BY DEF Objects, ValueOf, TxnOf
<1>  QED
      BY <1>1, <1>2, <1>3, <1>4

Methods == KeyFunctions \cup ReadFunctions \cup {"commit"}

TypeInv ==
    /\ handle \in Clients \cup {Nil}
    /\ held \in [Objects -> Nat]
    /\ call # Nil => handle # Nil /\ call.f \in Methods
    /\ escaped # Nil => call = Nil

Inv == TypeInv /\ ErrorsCoded /\ CallerTold /\ HeapBalanced

\* The blocks of the caller's objects.
Owned == SumFunction([x \in Objects |-> held[x] * Blocks(x)])

HandleBlock == IF handle = Nil THEN 0 ELSE 1

LEMMA OwnedInt ==
    ASSUME held \in [Objects -> Nat] PROVE Owned \in Int
<1>  DEFINE W == [x \in Objects |-> held[x] * Blocks(x)]
<1>1. \A x \in Objects : W[x] \in Int
      BY ObjectFacts
<1>2. Owned = SumFunctionOnSet(W, Objects)
      BY DEF Owned, SumFunction
<1>  HIDE DEF W
<1>  QED
      BY <1>1, <1>2, ObjectsFinite, SumTake

\* What is given to the caller is accounted for.
LEMMA GiveBalanced ==
    ASSUME TypeInv, HeapBalanced, NEW xs \in SUBSET Objects, NEW junk, junk = 0, Give(xs, junk),
           UNCHANGED handle
    PROVE  HeapBalanced' /\ held' \in [Objects -> Nat]
<1>  DEFINE W == [x \in Objects |-> held[x] * Blocks(x)]
            B == [x \in Objects |-> Blocks(x)]
            Y == [x \in Objects |-> held'[x] * Blocks(x)]
            Z == [x \in Objects |-> W[x] + IF x \in xs THEN B[x] ELSE 0]
<1>1. held \in [Objects -> Nat] /\ \A x \in Objects : held'[x] = IF x \in xs THEN held[x] + 1 ELSE held[x]
      BY DEF TypeInv, Give
<1>2. held' \in [Objects -> Nat]
      BY <1>1 DEF Give
<1>3. \A x \in Objects : W[x] \in Int /\ B[x] \in Int
      BY <1>1, ObjectFacts
<1>4. Y = Z
  <2>1. ASSUME NEW x \in Objects PROVE Y[x] = Z[x]
    <3>1. held[x] \in Nat /\ Blocks(x) \in Nat
          BY <1>1, ObjectFacts
    <3>2. CASE x \in xs
      <4>1. \A a, b \in Nat : (a + 1) * b = a * b + b
            OBVIOUS
      <4>2. (held[x] + 1) * Blocks(x) = held[x] * Blocks(x) + Blocks(x)
            BY <3>1, <4>1
      <4>3. held'[x] = held[x] + 1
            BY <1>1, <3>2
      <4>4. Y[x] = (held[x] + 1) * Blocks(x)
            BY <4>3
      <4>5. Z[x] = held[x] * Blocks(x) + Blocks(x)
            BY <3>2
      <4>  QED
            BY <4>2, <4>4, <4>5
    <3>3. CASE x \notin xs
          BY <1>1, <3>1, <3>3
    <3>  QED
          BY <3>2, <3>3
  <2>  QED
        BY <2>1
<1>5. SumFunctionOnSet(Z, Objects) = SumFunctionOnSet(W, Objects) + SumFunctionOnSet(B, xs)
  <2>  HIDE DEF W, B
  <2>  QED
        BY <1>3, ObjectsFinite, SumAdd
<1>6. Owned = SumFunctionOnSet(W, Objects) /\ Owned' = SumFunctionOnSet(Y, Objects)
      BY DEF Owned, SumFunction
<1>7. live' = live + SumFunctionOnSet(B, xs) + junk
      BY DEF Give
<1>8. SumFunctionOnSet(B, xs) \in Int
  <2>1. IsFiniteSet(xs) /\ \A x \in xs : B[x] \in Int
        BY <1>3, ObjectsFinite, FS_Subset
  <2>  HIDE DEF B
  <2>  QED
        BY <2>1, SumTake
<1>9. Owned \in Int /\ live = HandleBlock + Owned /\ HandleBlock \in Int
      BY <1>1, OwnedInt DEF HeapBalanced, Owned, HandleBlock
<1>10. Owned' = Owned + SumFunctionOnSet(B, xs)
  <2>  HIDE DEF W, B, Y, Z
  <2>  QED
        BY <1>4, <1>5, <1>6
<1>11. live' = HandleBlock' + Owned'
  <2>1. HandleBlock' = HandleBlock
        BY DEF HandleBlock
  <2>  HIDE DEF W, B, Y, Z
  <2>  QED
        BY <1>7, <1>8, <1>9, <1>10, <2>1
<1>  QED
      BY <1>2, <1>11 DEF HeapBalanced, Owned, HandleBlock

\* Nothing is given, and nothing freed.
LEMMA HeapSame ==
    ASSUME HeapBalanced, UNCHANGED <<live, held>>, (handle' = Nil) <=> (handle = Nil)
    PROVE  HeapBalanced'
BY DEF HeapBalanced

-----------------------------------------------------------------------------
(* What the caller is told. *)

LEMMA Codes ==
    /\ DOMAIN Errcode = {"InvalidAddress", "InvalidKey", "NoEntry", "EntryExists",
                         "NoChildrenForEphemeral", "ConnectionLoss", "TxnFailed", "ServiceError", "bad_alloc"}
    /\ \A e \in DOMAIN Errcode : Errcode[e] \in Int /\ Errcode[e] < 0
    /\ Errcode["bad_alloc"] = ENOMEM /\ ENOMEM \in Int /\ ENOMEM < 0 /\ ETXN \in Int /\ ETXN < 0
BY DEF Errcode, EADDR, EKEY, ENOENT, EEXIST, EEPHEM, ECONN, ETXN, ESRV, ENOMEM

LEMMA NilFacts == Nil # NoOp /\ (\A i \in Int : i # Nil) /\ NoOp \in Int /\ NoOp < 0 /\ Nil \notin Clients
BY BindingAssumption, ClientsAssumption DEF NoOp

\* The method threw.
LEMMA ThrewTold ==
    ASSUME CallerTold, NEW f, NEW e, Catch(f, e, FALSE, {})
    PROVE  CallerTold'
<1>1. CASE e \in DOMAIN Errcode
  <2>1. last' = [f |-> f, code |-> Errcode[e], done |-> FALSE, gave |-> {}, failed_op |-> Nil]
        BY <1>1 DEF Catch, Tell
  <2>2. Errcode[e] \in Int /\ Errcode[e] < 0
        BY <1>1, Codes
  <2>  QED
        BY <2>1, <2>2, NilFacts DEF CallerTold
<1>2. CASE e \notin DOMAIN Errcode
      BY <1>2 DEF Catch, CallerTold
<1>  QED
      BY <1>1, <1>2

\* There was no memory for the copies.
LEMMA CopyTold ==
    ASSUME NEW f \in {"get", "children", "commit"}, NEW gave \in SUBSET {Watch(b) : b \in Backends},
           Catch(f, "bad_alloc", TRUE, gave)
    PROVE  CallerTold' /\ UNCHANGED escaped
<1>1. /\ last' = [f |-> f, code |-> ENOMEM, done |-> TRUE, gave |-> gave, failed_op |-> Nil]
      /\ UNCHANGED escaped
      BY Codes DEF Catch, Tell
<1>  QED
      BY <1>1, Codes, NilFacts DEF CallerTold

\* The method returned.
LEMMA ReturnTold ==
    ASSUME NEW f, NEW code \in Nat, NEW gave, TxnOf \notin gave, Tell(f, code, TRUE, gave, Nil)
    PROVE  CallerTold'
BY NilFacts DEF CallerTold, Tell

-----------------------------------------------------------------------------
(* The steps. *)

\* An exception that is coded does not escape.
LEMMA Coded ==
    ASSUME NEW f, NEW e \in DOMAIN Errcode, NEW done, NEW gave, Catch(f, e, done, gave)
    PROVE  UNCHANGED escaped
BY DEF Catch

LEMMA OpenKeeps ==
    ASSUME Inv, NEW url \in Urls, NEW prefix \in OpenPrefixes, Open(url, prefix)
    PROVE  Inv'
<1>  USE DEF Open
<1>0. TypeInv /\ ErrorsCoded /\ CallerTold /\ HeapBalanced /\ escaped = Nil /\ call = Nil /\ handle = Nil
      BY DEF Inv, Idle
<1>1. ASSUME NEW e \in DOMAIN Errcode, Catch("open", e, FALSE, {}), UNCHANGED <<handle, live>> PROVE Inv'
  <2>1. UNCHANGED <<escaped, call, held>>
        BY <1>1, Coded
  <2>2. CallerTold'
        BY <1>0, <1>1, ThrewTold
  <2>  QED
        BY <1>0, <1>1, <2>1, <2>2 DEF Inv, TypeInv, ErrorsCoded, HeapBalanced
<1>2. {OpenError(prefix), "bad_alloc"} \subseteq DOMAIN Errcode
      BY Codes DEF OpenError
<1>3. \A b : OpenThrows(b) \subseteq DOMAIN Errcode
      BY Codes DEF OpenThrows
<1>4. ASSUME NEW b \in Selected(url), live' = live + 1,
             handle' = [backend |-> b, prefix |-> prefix,
                        address |-> IF b = "zk" THEN url ELSE Address(url)],
             Tell("open", 0, TRUE, {}, Nil), UNCHANGED escaped
      PROVE  Inv'
  <2>1. handle' \in Clients
        BY <1>4 DEF Clients, Selected
  <2>2. handle' # Nil /\ UNCHANGED <<call, held>>
        BY <2>1, NilFacts
  <2>3. CallerTold'
        BY <1>4, ReturnTold
  <2>4. Owned \in Int /\ live = 0 + Owned /\ Owned' = Owned
        BY <1>0, <2>2, OwnedInt DEF TypeInv, HeapBalanced, Owned
  <2>5. live' = 1 + Owned'
        BY <1>4, <2>4
  <2>6. HeapBalanced'
        BY <2>2, <2>5 DEF HeapBalanced, Owned
  <2>7. TypeInv' /\ ErrorsCoded'
        BY <1>0, <1>4, <2>1, <2>2 DEF TypeInv, ErrorsCoded
  <2>  QED
        BY <2>3, <2>6, <2>7 DEF Inv
<1>5. ASSUME NEW e \in {OpenError(prefix), "bad_alloc"}, Catch("open", e, FALSE, {}), UNCHANGED <<handle, live>>
      PROVE  Inv'
      BY <1>1, <1>2, <1>5
<1>6. ASSUME NEW b \in Selected(url), NEW e \in OpenThrows(b), Catch("open", e, FALSE, {}),
             UNCHANGED <<handle, live>>
      PROVE  Inv'
      BY <1>1, <1>3, <1>6
<1>  QED
      BY <1>4, <1>5, <1>6

LEMMA StartKeeps ==
    ASSUME Inv, NEW f \in Methods, NEW keys, NEW ptr, Start(f, keys, ptr)
    PROVE  Inv'
<1>  USE DEF Start
<1>0. TypeInv /\ ErrorsCoded /\ CallerTold /\ HeapBalanced /\ escaped = Nil /\ handle # Nil
      BY DEF Inv, Idle
<1>1. HeapBalanced'
      BY <1>0, HeapSame
<1>2. CASE call' = [f |-> f, keys |-> keys, ptr |-> ptr] /\ last' = Nil /\ UNCHANGED escaped
      BY <1>0, <1>1, <1>2 DEF Inv, TypeInv, ErrorsCoded, CallerTold
<1>3. ASSUME NEW e \in {"InvalidKey", "bad_alloc"}, Catch(f, e, FALSE, {}), UNCHANGED call
      PROVE  Inv'
  <2>1. UNCHANGED escaped
        BY <1>3, Codes, Coded
  <2>2. CallerTold'
        BY <1>0, <1>3, ThrewTold
  <2>  QED
        BY <1>0, <1>1, <1>3, <2>1, <2>2 DEF Inv, TypeInv, ErrorsCoded
<1>  QED
      BY <1>2, <1>3

\* What leaves a function with backend b when e is not coded.
MayEscape(b, e) == (e = BackendError /\ b # "etcd") \/ (e = ThreadError /\ b # "zk")

\* Only a library's own exception and that of a thread that cannot be started are not coded.
LEMMA ThrowsCoded ==
    ASSUME NEW b \in Backends, NEW f \in Methods \cup {"watch"}, NEW ptr, NEW e \in Throws(b, f, ptr),
           e \notin DOMAIN Errcode
    PROVE  MayEscape(b, e)
<1>  USE DEF MayEscape
<1>1. CASE e \in Usual(b)
      BY <1>1, Codes DEF Usual, Backends, BackendError
<1>2. CASE e \in {"NoEntry", "EntryExists", "TxnFailed"} \cup Ephemeral(b)
      BY <1>2, Codes DEF Ephemeral
<1>3. CASE e \in Untranslated(b)
      BY <1>3 DEF Untranslated
<1>4. CASE e \in LeaseThread(b) \/ e \in WatchThread(b, ptr)
      BY <1>4 DEF LeaseThread, WatchThread
<1>5. \/ e \in Usual(b) \/ e \in {"NoEntry", "EntryExists", "TxnFailed"} \cup Ephemeral(b)
      \/ e \in Untranslated(b) \/ e \in LeaseThread(b) \/ e \in WatchThread(b, ptr)
  <2>1. CASE f = "create"
        BY <2>1 DEF Throws
  <2>2. CASE f = "set"
        BY <2>2 DEF Throws
  <2>3. CASE f = "cas"
        BY <2>3 DEF Throws
  <2>4. CASE f \in {"get", "children"}
        BY <2>4 DEF Throws
  <2>5. CASE f = "erase"
        BY <2>5 DEF Throws
  <2>6. CASE f = "commit"
        BY <2>6 DEF Throws
  <2>7. CASE f = "exists"
        BY <2>7 DEF Throws
  <2>8. CASE f = "watch"
        BY <2>8 DEF Throws
  <2>  QED
        BY <2>1, <2>2, <2>3, <2>4, <2>5, <2>6, <2>7, <2>8 DEF Methods, KeyFunctions, ReadFunctions
<1>  QED
      BY <1>1, <1>2, <1>3, <1>4, <1>5

LEMMA ThrowsKeep ==
    ASSUME Inv, NEW e, MethodThrows(e)
    PROVE  Inv'
<1>  USE DEF MethodThrows
<1>0. TypeInv /\ ErrorsCoded /\ CallerTold /\ HeapBalanced
      BY DEF Inv
<1>1. handle # Nil /\ handle \in Clients /\ handle.backend \in Backends /\ call.f \in Methods /\ escaped = Nil
      BY <1>0 DEF TypeInv, Clients
<1>2. HeapBalanced' /\ CallerTold'
      BY <1>0, HeapSame, ThrewTold
<1>3. ErrorsCoded'
  <2>1. CASE e \in DOMAIN Errcode
        BY <1>1, <2>1, Coded DEF ErrorsCoded
  <2>2. CASE e \notin DOMAIN Errcode
    <3>1. MayEscape(handle.backend, e)
          BY <1>1, <2>2, ThrowsCoded
    <3>2. escaped' = e
          BY <2>2 DEF Catch
    <3>  QED
          BY <3>1, <3>2 DEF ErrorsCoded, MayEscape
  <2>  QED
        BY <2>1, <2>2
<1>4. TypeInv'
      BY <1>0, <1>1 DEF TypeInv
<1>  QED
      BY <1>2, <1>3, <1>4 DEF Inv

\* A call that returns, with what it gives its caller.
LEMMA ReturnKeeps ==
    ASSUME Inv, NEW f, Returns(f), NEW xs \in SUBSET Objects, NEW junk, junk = 0, Give(xs, junk),
           UNCHANGED escaped, CallerTold'
    PROVE  Inv'
<1>1. TypeInv /\ HeapBalanced /\ ErrorsCoded /\ call # Nil /\ call' = Nil /\ UNCHANGED handle
      BY DEF Inv, Returns
<1>2. HeapBalanced' /\ held' \in [Objects -> Nat]
      BY <1>1, GiveBalanced
<1>3. TypeInv' /\ ErrorsCoded'
      BY <1>1, <1>2 DEF TypeInv, ErrorsCoded
<1>  QED
      BY <1>2, <1>3 DEF Inv

LEMMA GivenWatch ==
    ASSUME Inv, call # Nil
    PROVE  WatchGiven \subseteq {Watch(b) : b \in Backends} /\ WatchGiven \subseteq Objects /\ TxnOf \notin WatchGiven
<1>1. handle.backend \in Backends
      BY DEF Inv, TypeInv, Clients
<1>2. WatchGiven \subseteq {Watch(b) : b \in Backends}
      BY <1>1 DEF WatchGiven
<1>  QED
      BY <1>2, ObjectFacts

LEMMA CopiesKeep ==
    ASSUME Inv,
           \/ \E f \in KeyFunctions \cup {"exists"}, v \in 0 .. MaxVersion : VersionReturned(f, v)
           \/ \E v \in 1 .. MaxVersion : GetReturned(v)
           \/ GetCopyFails
           \/ \E n \in 0 .. MaxChildren : ChildrenReturned(n)
           \/ \E i \in {Nil} \cup 0 .. MaxChildren - 1 : ChildrenCopyFails(i)
    PROVE  Inv'
<1>0. call # Nil => /\ WatchGiven \subseteq {Watch(b) : b \in Backends}
                    /\ WatchGiven \subseteq Objects /\ TxnOf \notin WatchGiven
      BY GivenWatch
<1>1. ASSUME NEW f \in KeyFunctions \cup {"exists"}, NEW v \in 0 .. MaxVersion, VersionReturned(f, v) PROVE Inv'
  <2>  DEFINE gave == IF f = "exists" THEN WatchGiven ELSE {}
  <2>1. Returns(f) /\ Give(gave, 0) /\ Tell(f, v, TRUE, gave, Nil) /\ UNCHANGED escaped /\ call # Nil
        BY <1>1 DEF VersionReturned, Returns
  <2>2. gave \in SUBSET Objects /\ TxnOf \notin gave /\ v \in Nat
        BY <1>0, <2>1, BindingAssumption
  <2>  HIDE DEF gave
  <2>3. CallerTold'
        BY <2>1, <2>2, ReturnTold
  <2>  QED
        BY <2>1, <2>2, <2>3, ReturnKeeps
<1>2. ASSUME NEW v \in 1 .. MaxVersion, GetReturned(v) PROVE Inv'
  <2>  DEFINE gave == WatchGiven \cup {ValueOf}
  <2>1. Returns("get") /\ Give(gave, 0) /\ Tell("get", v, TRUE, gave, Nil) /\ UNCHANGED escaped /\ call # Nil
        BY <1>2 DEF GetReturned, Returns
  <2>2. gave \in SUBSET Objects /\ TxnOf \notin gave /\ v \in Nat
        BY <1>0, <2>1, ObjectFacts, BindingAssumption
  <2>  HIDE DEF gave
  <2>3. CallerTold'
        BY <2>1, <2>2, ReturnTold
  <2>  QED
        BY <2>1, <2>2, <2>3, ReturnKeeps
<1>3. CASE GetCopyFails
  <2>1. Returns("get") /\ Give(WatchGiven, 0) /\ Catch("get", "bad_alloc", TRUE, WatchGiven) /\ call # Nil
        BY <1>3 DEF GetCopyFails, Returns
  <2>2. CallerTold' /\ UNCHANGED escaped
        BY <1>0, <2>1, CopyTold
  <2>  QED
        BY <1>0, <2>1, <2>2, ReturnKeeps
<1>4. ASSUME NEW n \in 0 .. MaxChildren, ChildrenReturned(n) PROVE Inv'
  <2>  DEFINE gave == WatchGiven \cup {ListOf(n)}
  <2>1. /\ Returns("children") /\ Give(gave, 0) /\ Tell("children", 0, TRUE, gave, Nil)
        /\ UNCHANGED escaped /\ call # Nil
        BY <1>4 DEF ChildrenReturned, Returns
  <2>2. gave \in SUBSET Objects /\ TxnOf \notin gave
        BY <1>0, <2>1, ObjectFacts
  <2>  HIDE DEF gave
  <2>3. CallerTold'
        BY <2>1, <2>2, ReturnTold
  <2>  QED
        BY <2>1, <2>2, <2>3, ReturnKeeps
<1>5. ASSUME NEW i \in {Nil} \cup 0 .. MaxChildren - 1, ChildrenCopyFails(i) PROVE Inv'
  <2>  DEFINE junk == IF i = Nil THEN 0 ELSE DupStringsFails(i)
  <2>1. /\ Returns("children") /\ Give(WatchGiven, junk)
        /\ Catch("children", "bad_alloc", TRUE, WatchGiven) /\ call # Nil
        BY <1>5 DEF ChildrenCopyFails, Returns
  <2>2. junk = 0
        BY BindingAssumption DEF DupStringsFails, FreeStrings
  <2>3. CallerTold' /\ UNCHANGED escaped
        BY <1>0, <2>1, CopyTold
  <2>  HIDE DEF junk
  <2>  QED
        BY <1>0, <2>1, <2>2, <2>3, ReturnKeeps
<1>  QED
      BY <1>1, <1>2, <1>3, <1>4, <1>5

LEMMA CommitKeeps ==
    ASSUME Inv, CommitReturned \/ CommitCopyFails \/ \E i \in 0 .. 1 : CommitFailed(i)
    PROVE  Inv'
<1>0. TypeInv /\ ErrorsCoded /\ CallerTold /\ HeapBalanced
      BY DEF Inv
<1>1. CASE CommitReturned
  <2>  DEFINE gave == IF call.ptr THEN {TxnOf} ELSE {}
  <2>1. /\ Returns("commit") /\ Give(gave, 0) /\ UNCHANGED escaped
        /\ Tell("commit", 0, TRUE, gave, IF call.ptr THEN NoOp ELSE Nil)
        BY <1>1 DEF CommitReturned
  <2>2. gave \in SUBSET Objects
        BY ObjectFacts
  <2>3. CallerTold'
        BY <2>1, NilFacts DEF CallerTold, Tell
  <2>  HIDE DEF gave
  <2>  QED
        BY <2>1, <2>2, <2>3, ReturnKeeps
<1>2. ASSUME Returns("commit"), UNCHANGED <<live, held, escaped>>, CallerTold' PROVE Inv'
  <2>1. UNCHANGED handle /\ call' = Nil
        BY <1>2 DEF Returns
  <2>2. HeapBalanced'
        BY <1>0, <1>2, <2>1, HeapSame
  <2>  QED
        BY <1>0, <1>2, <2>1, <2>2 DEF Inv, TypeInv, ErrorsCoded
<1>3. CASE CommitCopyFails
  <2>0. Catch("commit", "bad_alloc", TRUE, {})
        BY <1>3 DEF CommitCopyFails
  <2>1. CallerTold' /\ UNCHANGED escaped
    <3>1. "commit" \in {"get", "children", "commit"} /\ {} \in SUBSET {Watch(b) : b \in Backends}
          OBVIOUS
    <3>  QED
          BY <2>0, <3>1, CopyTold
  <2>  QED
        BY <1>2, <1>3, <2>1 DEF CommitCopyFails
<1>4. ASSUME NEW i \in 0 .. 1, CommitFailed(i) PROVE Inv'
  <2>1. last' = [f |-> "commit", code |-> ETXN, done |-> FALSE, gave |-> {},
                 failed_op |-> IF call.ptr THEN i ELSE Nil]
        BY <1>4 DEF CommitFailed, TxnCaught, Tell
  <2>2. (IF call.ptr THEN i ELSE Nil) # NoOp
        BY NilFacts
  <2>3. CallerTold'
        BY <2>1, <2>2, Codes DEF CallerTold
  <2>  QED
        BY <1>2, <1>4, <2>3 DEF CommitFailed
<1>  QED
      BY <1>1, <1>3, <1>4

LEMMA WatchKeeps ==
    ASSUME Inv, WatchWait
    PROVE  Inv'
<1>  USE DEF WatchWait
<1>0. TypeInv /\ ErrorsCoded /\ CallerTold /\ HeapBalanced /\ escaped = Nil /\ call = Nil
      BY DEF Inv, Idle
<1>1. handle.backend \in Backends
      BY <1>0 DEF TypeInv, Clients
<1>2. HeapBalanced'
      BY <1>0, HeapSame
<1>3. CASE Tell("watch", 0, TRUE, {}, Nil) /\ UNCHANGED escaped
  <2>1. CallerTold'
        BY <1>3, ReturnTold
  <2>  QED
        BY <1>0, <1>2, <1>3, <2>1 DEF Inv, TypeInv, ErrorsCoded
<1>4. ASSUME NEW e \in Throws(handle.backend, "watch", FALSE), Catch("watch", e, FALSE, {}) PROVE Inv'
  <2>1. CallerTold'
        BY <1>0, <1>4, ThrewTold
  <2>2. ErrorsCoded'
    <3>1. CASE e \in DOMAIN Errcode
          BY <1>0, <1>4, <3>1, Coded DEF ErrorsCoded
    <3>2. CASE e \notin DOMAIN Errcode
          BY <1>1, <1>4, <3>2, ThrowsCoded DEF ErrorsCoded, Catch, MayEscape
    <3>  QED
          BY <3>1, <3>2
  <2>  QED
        BY <1>0, <1>2, <2>1, <2>2 DEF Inv, TypeInv
<1>  QED
      BY <1>3, <1>4

\* What is freed is what the object consists of.
LEMMA FreeKeeps ==
    ASSUME Inv, NEW y \in Objects, Free(y)
    PROVE  Inv'
<1>  USE DEF Free
<1>  DEFINE W == [x \in Objects |-> held[x] * Blocks(x)]
            Y == [x \in Objects |-> held'[x] * Blocks(x)]
<1>0. TypeInv /\ ErrorsCoded /\ CallerTold /\ HeapBalanced
      BY DEF Inv
<1>1. /\ held \in [Objects -> Nat] /\ held' \in [Objects -> Nat]
      /\ held'[y] = held[y] - 1 /\ \A x \in Objects \ {y} : held'[x] = held[x]
      BY <1>0 DEF TypeInv
<1>2. \A x \in Objects : W[x] \in Int /\ Y[x] \in Int
      BY <1>1, ObjectFacts
<1>3. \A x \in Objects \ {y} : W[x] = Y[x]
      BY <1>1
<1>4. Y[y] = W[y] - Blocks(y) /\ W[y] \in Int /\ Blocks(y) \in Int
  <2>1. held[y] \in Nat /\ Blocks(y) \in Nat
        BY <1>1, ObjectFacts
  <2>  QED
        BY <1>1, <2>1
<1>5. Owned = SumFunctionOnSet(W, Objects) /\ Owned' = SumFunctionOnSet(Y, Objects)
      BY DEF Owned, SumFunction
<1>  HIDE DEF W, Y
<1>6. Owned' = Owned + Y[y] - W[y]
      BY <1>2, <1>3, <1>5, ObjectsFinite, SumChange
<1>7. live' = live - Blocks(y)
      BY ObjectFacts DEF Blocks, FreeStrings
<1>8. Owned \in Int /\ live = HandleBlock + Owned /\ HandleBlock \in Int /\ HandleBlock' = HandleBlock
      BY <1>0, <1>1, OwnedInt DEF HeapBalanced, Owned, HandleBlock
<1>9. live' = HandleBlock' + Owned'
      BY <1>4, <1>6, <1>7, <1>8
<1>10. HeapBalanced'
      BY <1>9 DEF HeapBalanced, Owned, HandleBlock
<1>  QED
      BY <1>0, <1>1, <1>10 DEF Inv, TypeInv, ErrorsCoded, CallerTold

LEMMA CloseKeeps ==
    ASSUME Inv, Close
    PROVE  Inv'
<1>  USE DEF Close
<1>0. TypeInv /\ ErrorsCoded /\ CallerTold /\ HeapBalanced /\ escaped = Nil /\ call = Nil
      BY DEF Inv, Idle
<1>1. Owned \in Int /\ live = 1 + Owned /\ Owned' = Owned
      BY <1>0, OwnedInt DEF TypeInv, HeapBalanced, Owned
<1>2. live' = 0 + Owned'
      BY <1>1
<1>3. HeapBalanced'
      BY <1>2 DEF HeapBalanced, Owned
<1>  QED
      BY <1>0, <1>3 DEF Inv, TypeInv, ErrorsCoded, CallerTold

-----------------------------------------------------------------------------
LEMMA InitInv == Init => Inv
<1>  SUFFICES ASSUME Init PROVE Inv
      OBVIOUS
<1>  USE DEF Init
<1>  DEFINE W == [x \in Objects |-> held[x] * Blocks(x)]
<1>1. held \in [Objects -> Nat]
      OBVIOUS
<1>2. \A x \in Objects : W[x] = 0
      BY ObjectFacts
<1>3. Owned = 0
  <2>  DEFINE Z == [x \in Objects |-> 0]
  <2>1. SumFunctionOnSet(Z, Objects) = SumFunctionOnSet(W, Objects)
    <3>1. \A x \in Objects : Z[x] = W[x]
          BY <1>2
    <3>  HIDE DEF Z, W
    <3>  QED
          BY <3>1, ObjectsFinite, SumSame
  <2>2. \A x \in Objects : Z[x] + (IF x \in Objects THEN Z[x] ELSE 0) = Z[x] /\ Z[x] \in Int
        OBVIOUS
  <2>3. SumFunctionOnSet([x \in Objects |-> Z[x] + IF x \in Objects THEN Z[x] ELSE 0], Objects)
          = SumFunctionOnSet(Z, Objects) + SumFunctionOnSet(Z, Objects)
    <3>  HIDE DEF Z
    <3>  QED
          BY <2>2, ObjectsFinite, SumAdd
  <2>4. [x \in Objects |-> Z[x] + IF x \in Objects THEN Z[x] ELSE 0] = Z
        BY <2>2
  <2>  HIDE DEF Z
  <2>  DEFINE z == SumFunctionOnSet(Z, Objects)
  <2>5. z \in Int
        BY <2>2, ObjectsFinite, SumTake
  <2>6. z = z + z
        BY <2>3, <2>4, Zenon
  <2>7. z = 0
    <3>  HIDE DEF z
    <3>  QED
          BY <2>5, <2>6
  <2>  QED
        BY <2>1, <2>7 DEF Owned, SumFunction
<1>4. HeapBalanced
      BY <1>3 DEF HeapBalanced, Owned
<1>  QED
      BY <1>1, <1>4 DEF Inv, TypeInv, ErrorsCoded, CallerTold

LEMMA NextInv == Inv /\ [Next]_vars => Inv'
<1>1. ASSUME Inv, UNCHANGED vars PROVE Inv'
      BY <1>1 DEF vars, Inv, TypeInv, ErrorsCoded, CallerTold, HeapBalanced, WatchGiven
<1>2. ASSUME Inv, NEW f, NEW keys, NEW ptr, f \in Methods, Start(f, keys, ptr) PROVE Inv'
      BY <1>2, StartKeeps
<1>3. KeyFunctions \subseteq Methods /\ ReadFunctions \subseteq Methods /\ "commit" \in Methods
      BY DEF Methods
<1>4. ASSUME Inv, Next PROVE Inv'
      BY <1>2, <1>3, <1>4, OpenKeeps, ThrowsKeep, CopiesKeep, CommitKeeps, WatchKeeps, FreeKeeps,
         CloseKeeps DEF Next
<1>  QED
      BY <1>1, <1>4

\* The heap, the errors and what the caller knows, in every state.
THEOREM BindingInvariance == Spec => []Inv
BY InitInv, NextInv, PTL DEF Spec

\* No function of clib.cpp leaks a block or frees one twice, whichever allocation of dup_string,
\* dup_strings, wrap_watch or the results fails, and for lists of every length.
THEOREM NothingLeaks == Spec => []HeapBalanced
<1>1. Inv => HeapBalanced
      BY DEF Inv
<1>  QED
      BY <1>1, BindingInvariance, PTL

\* Whatever a call to C throws, allocates or copies, no exception that errors.hpp declares and no
\* bad_alloc ends the caller's process: to_errcode throws on nothing but an exception of ppconsul
\* or the ZooKeeper library and, with etcd and Consul, the system_error of a thread that cannot
\* be started.
THEOREM DeclaredErrorsAreCoded == Spec => []ErrorsCoded
<1>1. Inv => ErrorsCoded
      BY DEF Inv
<1>  QED
      BY <1>1, BindingInvariance, PTL

\* A C caller can tell from the code and *p_result what the call did and what it has to free.
THEOREM CallersAreTold == Spec => []CallerTold
<1>1. Inv => CallerTold
      BY DEF Inv
<1>  QED
      BY <1>1, BindingInvariance, PTL

-----------------------------------------------------------------------------
(* The loop of segments(). *)

\* The first slash from position i on, or the end.
LEMMA SegmentEndIs ==
    ASSUME NEW t \in Seq(Chars), NEW i \in 1 .. Len(t) + 1
    PROVE  /\ SegmentEnd(t, i) \in i .. Len(t) + 1
           /\ \A j \in i .. SegmentEnd(t, i) - 1 : t[j] # "/"
           /\ SegmentEnd(t, i) <= Len(t) => t[SegmentEnd(t, i)] = "/"
<1> DEFINE S == {j \in i .. Len(t) : t[j] = "/"} \cup {Len(t) + 1}
<1>1. S \in SUBSET Nat /\ S # {} /\ Len(t) \in Nat
    OBVIOUS
<1>2. \E x \in S : \A y \in S : x <= y
    BY <1>1, LeastNat
<1>3. SegmentEnd(t, i) \in S /\ \A y \in S : SegmentEnd(t, i) <= y
    <2>1. SegmentEnd(t, i) = CHOOSE x \in S : \A y \in S : x <= y
        BY DEF SegmentEnd, Min
    <2> HIDE DEF S
    <2> QED BY <1>2, <2>1
<1> QED BY <1>1, <1>3

\* That, and nothing else, is what it is.
LEMMA SegmentEndUnique ==
    ASSUME NEW t \in Seq(Chars), NEW i \in 1 .. Len(t) + 1, NEW e \in i .. Len(t) + 1,
           \A j \in i .. e - 1 : t[j] # "/", e <= Len(t) => t[e] = "/"
    PROVE  SegmentEnd(t, i) = e
<1> DEFINE d == SegmentEnd(t, i)
<1>1. /\ d \in i .. Len(t) + 1 /\ \A j \in i .. d - 1 : t[j] # "/"
      /\ d <= Len(t) => t[d] = "/"
    BY SegmentEndIs
<1> HIDE DEF d
<1>2. ~(d < e)
    BY <1>1
<1>3. ~(e < d)
    BY <1>1
<1>4. d = e
    BY <1>1, <1>2, <1>3
<1> QED BY <1>4 DEF d

\* One round of the loop, when f says what the later ones find.
Round(f, t, i) ==
    LET e == SegmentEnd(t, i + 1)
    IN  <<SubSeq(t, i + 1, e - 1)>> \o (IF e > Len(t) THEN <<>> ELSE f[e])

\* What f says of the text t from each of its positions on is what the loop finds there.
Cuts(f, t) == f = [i \in 0 .. Len(t) |-> Round(f, t, i)]

Names == Seq(Chars \ {"/"})

LEMMA NamesAreTexts == Names \subseteq Seq(Chars) /\ Seq(Names) \subseteq Seq(Seq(Chars))
BY DEF Names

\* Concatenation of an element with two sequences.
LEMMA ConcatAssoc ==
    ASSUME NEW T, NEW x, NEW u \in Seq(T), NEW v \in Seq(T)
    PROVE  <<x>> \o (u \o v) = (<<x>> \o u) \o v
<1> DEFINE L == <<x>> \o (u \o v)
           R == (<<x>> \o u) \o v
           A == T \cup {x}
<1>1. <<x>> \in Seq(A) /\ u \in Seq(A) /\ v \in Seq(A)
    OBVIOUS
<1> HIDE DEF A
<1>2. L \in Seq(A) /\ R \in Seq(A) /\ Len(L) = Len(R)
    BY <1>1
<1>3. ASSUME NEW i \in 1 .. Len(L) PROVE L[i] = R[i]
    BY <1>1
<1> HIDE DEF L, R
<1>4. L = R
    BY <1>2, <1>3
<1> QED BY <1>4 DEF L, R

\* Two sequences, one after the other.
LEMMA ConcatIs ==
    ASSUME NEW T, NEW s \in Seq(T), NEW t \in Seq(T)
    PROVE  /\ s \o t \in Seq(T) /\ Len(s \o t) = Len(s) + Len(t)
           /\ \A i \in 1 .. Len(s) : (s \o t)[i] = s[i]
           /\ \A i \in 1 .. Len(t) : (s \o t)[Len(s) + i] = t[i]
OBVIOUS

\* A part of a sequence.
LEMMA SubSeqIs ==
    ASSUME NEW T, NEW t \in Seq(T), NEW i \in 1 .. Len(t) + 1, NEW d \in i - 1 .. Len(t)
    PROVE  /\ SubSeq(t, i, d) \in Seq(T) /\ Len(SubSeq(t, i, d)) = d - i + 1
           /\ \A k \in 1 .. Len(SubSeq(t, i, d)) : SubSeq(t, i, d)[k] = t[i + k - 1]
OBVIOUS

\* A sequence without its last element.
LEMMA FrontIs ==
    ASSUME NEW T, NEW s \in Seq(T), Len(s) >= 1
    PROVE  LET f == SubSeq(s, 1, Len(s) - 1)
           IN  f \in Seq(T) /\ Len(f) = Len(s) - 1 /\ \A i \in 1 .. Len(f) : f[i] = s[i]
<1> DEFINE d == Len(s) - 1
           f == SubSeq(s, 1, d)
<1>1. 1 \in 1 .. Len(s) + 1 /\ d \in 1 - 1 .. Len(s) /\ d - 1 + 1 = d /\ d \in Nat
    OBVIOUS
<1>2. /\ f \in Seq(T) /\ Len(f) = d - 1 + 1
      /\ \A k \in 1 .. Len(f) : f[k] = s[1 + k - 1]
    <2> HIDE DEF d
    <2> QED BY <1>1, SubSeqIs
<1> HIDE DEF f
<1>3. ASSUME NEW k \in 1 .. Len(f) PROVE f[k] = s[k]
    <2>1. 1 + k - 1 = k
        BY <1>1, <1>2
    <2> QED BY <1>2, <2>1
<1> QED BY <1>1, <1>2, <1>3 DEF f

LEMMA RoundType ==
    ASSUME NEW t \in Seq(Chars), NEW i \in 0 .. Len(t), NEW f,
           \A j \in i + 1 .. Len(t) : f[j] \in Seq(Names)
    PROVE  Round(f, t, i) \in Seq(Names)
<1> DEFINE e == SegmentEnd(t, i + 1)
           s == SubSeq(t, i + 1, e - 1)
           r == IF e > Len(t) THEN <<>> ELSE f[e]
<1>1. e \in i + 1 .. Len(t) + 1 /\ \A j \in i + 1 .. e - 1 : t[j] # "/"
    BY SegmentEndIs
<1>2. Round(f, t, i) = <<s>> \o r
    BY DEF Round
<1> HIDE DEF e
<1>3. s \in Names
    <2>1. s \in Seq(Chars) /\ Len(s) = e - 1 - i
        BY <1>1
    <2>2. ASSUME NEW j \in 1 .. Len(s) PROVE s[j] \in Chars \ {"/"}
        BY <1>1, <2>1
    <2> HIDE DEF s
    <2> QED BY <2>1, <2>2 DEF Names
<1>4. r \in Seq(Names)
    BY <1>1
<1> HIDE DEF s, r
<1> QED BY <1>2, <1>3, <1>4

\* A round looks at later positions only.
LEMMA RoundSame ==
    ASSUME NEW t \in Seq(Chars), NEW i \in 0 .. Len(t), NEW f, NEW g,
           \A j \in i + 1 .. Len(t) : f[j] = g[j]
    PROVE  Round(f, t, i) = Round(g, t, i)
<1>1. SegmentEnd(t, i + 1) \in i + 1 .. Len(t) + 1
    BY SegmentEndIs
<1> QED BY <1>1 DEF Round

\* segments() computes a function of the position.
LEMMA SegmentsDef ==
    ASSUME NEW t \in Seq(Chars), t # <<>>
    PROVE  \E f \in [0 .. Len(t) -> Seq(Names)] : Cuts(f, t) /\ Segments(t) = f[1]
<1> DEFINE n == Len(t)
           Good(g, i) == \A k \in i .. n : g[k] = Round(g, t, k)
           S == {i \in 0 .. n : \E g : Good(g, i)}
<1>0. n \in Nat
    OBVIOUS
<1>1. ASSUME NEW i \in 0 .. n, \A j \in i + 1 .. n : j \in S PROVE i \in S
    <2>1. \E g : Good(g, i + 1)
        <3>1. CASE i = n
            <4>1. i + 1 .. n = {}
                BY <3>1
            <4> QED BY <4>1
        <3>2. CASE i # n
            <4>1. i + 1 \in i + 1 .. n
                BY <3>2
            <4> HIDE DEF Good
            <4> QED BY <1>1, <4>1
        <3> QED BY <3>1, <3>2
    <2>2. PICK g : Good(g, i + 1)
        <3> HIDE DEF Good
        <3> QED BY <2>1
    <2> DEFINE h == [k \in i .. n |-> IF k = i THEN Round(g, t, i) ELSE g[k]]
    <2>3. \A k \in i + 1 .. n : h[k] = g[k]
        OBVIOUS
    <2>4. h[i] = Round(g, t, i)
        OBVIOUS
    <2> HIDE DEF h
    <2>5. ASSUME NEW k \in i .. n PROVE h[k] = Round(h, t, k)
        <3>1. Round(h, t, k) = Round(g, t, k)
            <4>1. \A j \in k + 1 .. n : h[j] = g[j]
                BY <2>3
            <4> QED BY <4>1, RoundSame
        <3>2. CASE k = i
            BY <2>4, <3>1, <3>2
        <3>3. CASE k # i
            <4>1. k \in i + 1 .. n
                BY <3>3
            <4> QED BY <2>2, <2>3, <3>1, <4>1
        <3> QED BY <3>2, <3>3
    <2>6. Good(h, i)
        BY <2>5
    <2> HIDE DEF Good
    <2> QED BY <2>6
<1>2. 0 \in S
    <2> HIDE DEF S
    <2>1. \A i \in 0 .. n : i \in S
        BY <1>0, <1>1, DownInduction
    <2> QED BY <1>0, <2>1
<1>3. PICK g : Good(g, 0)
    <2> HIDE DEF Good
    <2> QED BY <1>2
<1> DEFINE h == [k \in 0 .. n |-> g[k]]
<1>4. h = [k \in 0 .. n |-> Round(h, t, k)]
    <2>1. ASSUME NEW k \in 0 .. n PROVE g[k] = Round(h, t, k)
        <3>1. \A j \in k + 1 .. n : h[j] = g[j]
            OBVIOUS
        <3> HIDE DEF h
        <3> QED BY <1>3, <3>1, RoundSame
    <2> QED BY <2>1
<1> DEFINE f == CHOOSE x : x = [k \in 0 .. n |-> Round(x, t, k)]
<1>5. f = [k \in 0 .. n |-> Round(f, t, k)]
    BY <1>4
<1>6. Segments(t) = f[1]
    BY DEF Segments, Round
<1> HIDE DEF f
<1>7. \A i \in 0 .. n : i \in {k \in 0 .. n : f[k] \in Seq(Names)}
    <2> DEFINE V == {k \in 0 .. n : f[k] \in Seq(Names)}
    <2>1. ASSUME NEW i \in 0 .. n, \A j \in i + 1 .. n : j \in V PROVE i \in V
        <3>1. Round(f, t, i) \in Seq(Names)
            BY <2>1, RoundType
        <3> QED BY <1>5, <3>1
    <2> HIDE DEF V
    <2>2. \A i \in 0 .. n : i \in V
        BY <1>0, <2>1, DownInduction
    <2> QED BY <2>2 DEF V
<1>8. f \in [0 .. n -> Seq(Names)]
    BY <1>5, <1>7
<1> QED BY <1>5, <1>6, <1>8 DEF Cuts

\* Where a round from a position after the first text ends, and what it finds.
LEMMA RoundRight ==
    ASSUME NEW p \in Seq(Chars), NEW q \in Seq(Chars), NEW j \in 1 .. Len(q)
    PROVE  LET a == Len(p)
               t == p \o q
               e == SegmentEnd(q, j + 1)
           IN  /\ SegmentEnd(t, a + j + 1) = a + e
               /\ SubSeq(t, a + j + 1, (a + e) - 1) = SubSeq(q, j + 1, e - 1)
<1> DEFINE a == Len(p)
           b == Len(q)
           t == p \o q
           e == SegmentEnd(q, j + 1)
<1>1. t \in Seq(Chars)
    OBVIOUS
<1>2. a \in Nat /\ b \in Nat /\ Len(t) = a + b
    OBVIOUS
<1>3. \A k \in 1 .. b : t[a + k] = q[k]
    BY ConcatIs
<1>0. j + 1 \in 1 .. b + 1
    OBVIOUS
<1>4. e \in j + 1 .. b + 1
    BY <1>0, SegmentEndIs
<1>5. \A k \in j + 1 .. e - 1 : q[k] # "/"
    BY <1>0, SegmentEndIs, Zenon
<1>6. e <= b => q[e] = "/"
    BY <1>0, SegmentEndIs, Zenon
<1> HIDE DEF a, b, t, e
<1>7. j \in Nat /\ j >= 1 /\ j <= b
    BY DEF b
<1>8. SegmentEnd(t, a + j + 1) = a + e
    <2>1. a + j + 1 \in 1 .. Len(t) + 1
        BY <1>2, <1>4, <1>7
    <2>2. a + e \in a + j + 1 .. Len(t) + 1
        BY <1>2, <1>4, <1>7
    <2>3. ASSUME NEW k \in a + j + 1 .. (a + e) - 1 PROVE t[k] # "/"
        <3>1. k - a \in j + 1 .. e - 1 /\ k - a \in 1 .. b /\ a + (k - a) = k
            BY <1>2, <1>4, <1>7
        <3>2. t[a + (k - a)] = q[k - a]
            BY <1>3, <3>1
        <3> QED BY <1>5, <3>1, <3>2
    <2>4. a + e <= Len(t) => t[a + e] = "/"
        <3>1. a + e <= Len(t) => e <= b /\ e \in 1 .. b
            BY <1>2, <1>4, <1>7
        <3> QED BY <1>3, <1>6, <3>1
    <2> DEFINE i == a + j + 1
               d == a + e
    <2>5. i \in 1 .. Len(t) + 1 /\ d \in i .. Len(t) + 1
        BY <2>1, <2>2
    <2>6. ASSUME NEW k \in i .. d - 1 PROVE t[k] # "/"
        BY <2>3
    <2>8. d <= Len(t) => t[d] = "/"
        BY <2>4, Zenon
    <2> HIDE DEF i, d
    <2>7. SegmentEnd(t, i) = d
        BY <1>1, <2>5, <2>6, <2>8, SegmentEndUnique
    <2> QED BY <2>7 DEF i, d
<1>9. SubSeq(t, a + j + 1, (a + e) - 1) = SubSeq(q, j + 1, e - 1)
    <2> DEFINE i == a + j + 1
               d == (a + e) - 1
               u == SubSeq(t, i, d)
               v == SubSeq(q, j + 1, e - 1)
    <2>0. i \in 1 .. Len(t) + 1 /\ d \in i - 1 .. Len(t) /\ d - i + 1 = e - 1 - j
        BY <1>2, <1>4, <1>7
    <2>1. u \in Seq(Chars) /\ Len(u) = e - 1 - j /\ \A k \in 1 .. Len(u) : u[k] = t[a + j + k]
        <3>1. i \in Nat /\ \A k \in Nat : i + k - 1 = a + j + k
            BY <1>2, <1>7
        <3> HIDE DEF i, d
        <3>2. u \in Seq(Chars) /\ Len(u) = e - 1 - j /\ \A k \in 1 .. Len(u) : u[k] = t[i + k - 1]
            BY <1>1, <2>0, SubSeqIs
        <3>3. \A k \in 1 .. Len(u) : k \in Nat
            BY <3>2
        <3> HIDE DEF u
        <3> QED BY <3>1, <3>2, <3>3
    <2>2. v \in Seq(Chars) /\ Len(v) = e - 1 - j /\ \A k \in 1 .. Len(v) : v[k] = q[j + k]
        BY <1>2, <1>4, <1>7 DEF b
    <2> HIDE DEF u, v
    <2>3. ASSUME NEW k \in 1 .. Len(u) PROVE u[k] = v[k]
        <3>1. j + k \in 1 .. b /\ a + (j + k) = a + j + k
            BY <1>2, <1>4, <1>7, <2>1
        <3>2. t[a + (j + k)] = q[j + k]
            BY <1>3, <3>1
        <3> QED BY <2>1, <2>2, <3>1, <3>2
    <2>4. u = v
        BY <2>1, <2>2, <2>3
    <2> QED BY <2>4 DEF u, v
<1> QED BY <1>8, <1>9 DEF a, t, e

\* The same for a position in the first text; the last round ends at the slash after it.
LEMMA RoundLeft ==
    ASSUME NEW p \in Seq(Chars), NEW q \in Seq(Chars), q # <<>>, q[1] = "/", NEW i \in 1 .. Len(p)
    PROVE  LET t == p \o q
               e == SegmentEnd(p, i + 1)
           IN  /\ SegmentEnd(t, i + 1) = e
               /\ SubSeq(t, i + 1, e - 1) = SubSeq(p, i + 1, e - 1)
               /\ ~(e > Len(t)) /\ e \in i + 1 .. Len(p) + 1
<1> DEFINE a == Len(p)
           b == Len(q)
           t == p \o q
           e == SegmentEnd(p, i + 1)
<1>1. t \in Seq(Chars)
    OBVIOUS
<1>2. a \in Nat /\ b \in Nat /\ b >= 1 /\ Len(t) = a + b
    OBVIOUS
<1>3. \A k \in 1 .. a : t[k] = p[k]
    BY ConcatIs
<1>4. t[a + 1] = "/"
    OBVIOUS
<1>0. i + 1 \in 1 .. a + 1
    OBVIOUS
<1>5. e \in i + 1 .. a + 1
    BY <1>0, SegmentEndIs
<1>6. \A k \in i + 1 .. e - 1 : p[k] # "/"
    BY <1>0, SegmentEndIs, Zenon
<1>7. e <= a => p[e] = "/"
    BY <1>0, SegmentEndIs, Zenon
<1> HIDE DEF a, b, t, e
<1>8. i \in Nat /\ i >= 1 /\ i <= a
    BY DEF a
<1>9. SegmentEnd(t, i + 1) = e
    <2>1. i + 1 \in 1 .. Len(t) + 1
        BY <1>2, <1>8
    <2>2. e \in i + 1 .. Len(t) + 1
        BY <1>2, <1>5, <1>8
    <2>3. ASSUME NEW k \in i + 1 .. e - 1 PROVE t[k] # "/"
        <3>1. k \in 1 .. a
            BY <1>2, <1>5, <1>8
        <3> QED BY <1>3, <1>6, <3>1
    <2>4. t[e] = "/"
        <3>1. (e <= a /\ e \in 1 .. a) \/ e = a + 1
            BY <1>2, <1>5, <1>8
        <3> QED BY <1>3, <1>4, <1>7, <3>1
    <2> QED BY <1>1, <2>1, <2>2, <2>3, <2>4, SegmentEndUnique
<1>10. SubSeq(t, i + 1, e - 1) = SubSeq(p, i + 1, e - 1)
    <2> DEFINE u == SubSeq(t, i + 1, e - 1)
               v == SubSeq(p, i + 1, e - 1)
    <2>1. u \in Seq(Chars) /\ Len(u) = e - 1 - i /\ \A k \in 1 .. Len(u) : u[k] = t[i + k]
        BY <1>1, <1>2, <1>5, <1>8
    <2>2. v \in Seq(Chars) /\ Len(v) = e - 1 - i /\ \A k \in 1 .. Len(v) : v[k] = p[i + k]
        BY <1>2, <1>5, <1>8 DEF a
    <2> HIDE DEF u, v
    <2>3. ASSUME NEW k \in 1 .. Len(u) PROVE u[k] = v[k]
        <3>1. i + k \in 1 .. a
            BY <1>2, <1>5, <1>8, <2>1
        <3> QED BY <1>3, <2>1, <2>2, <3>1
    <2>4. u = v
        BY <2>1, <2>2, <2>3
    <2> QED BY <2>4 DEF u, v
<1>11. ~(e > Len(t))
    BY <1>2, <1>5, <1>8
<1> QED BY <1>5, <1>9, <1>10, <1>11 DEF a, t, e

\* A path followed by a text that begins with a slash is cut at that slash.
LEMMA SegmentsJoin ==
    ASSUME NEW p \in Seq(Chars), NEW q \in Seq(Chars), p # <<>>, q # <<>>, q[1] = "/"
    PROVE  Segments(p \o q) = Segments(p) \o Segments(q)
<1> DEFINE a == Len(p)
           b == Len(q)
           t == p \o q
<1>1. a \in Nat /\ a >= 1 /\ b \in Nat /\ b >= 1 /\ Len(t) = a + b
    OBVIOUS
<1>2. PICK f : f \in [0 .. Len(t) -> Seq(Names)] /\ Cuts(f, t) /\ Segments(t) = f[1]
    BY SegmentsDef
<1>3. PICK g : g \in [0 .. a -> Seq(Names)] /\ Cuts(g, p) /\ Segments(p) = g[1]
    BY SegmentsDef
<1>4. PICK h : h \in [0 .. b -> Seq(Names)] /\ Cuts(h, q) /\ Segments(q) = h[1]
    BY SegmentsDef
<1>5. \A i \in 0 .. a + b : f[i] = Round(f, t, i)
    BY <1>1, <1>2 DEF Cuts
<1>6. \A i \in 0 .. a : g[i] = Round(g, p, i)
    BY <1>3 DEF Cuts
<1>7. \A i \in 0 .. b : h[i] = Round(h, q, i)
    BY <1>4 DEF Cuts
<1>8. \A j \in 1 .. b : f[a + j] = h[j]
    <2> DEFINE S == {j \in 0 .. b : j >= 1 => f[a + j] = h[j]}
    <2>1. ASSUME NEW j \in 0 .. b, \A k \in j + 1 .. b : k \in S PROVE j \in S
        <3>1. SUFFICES ASSUME j >= 1 PROVE f[a + j] = h[j]
            OBVIOUS
        <3> DEFINE e == SegmentEnd(q, j + 1)
        <3>2. j \in 1 .. b
            BY <3>1
        <3>3. e \in j + 1 .. b + 1
            BY <3>2, SegmentEndIs
        <3>4. /\ SegmentEnd(t, a + j + 1) = a + e
              /\ SubSeq(t, a + j + 1, (a + e) - 1) = SubSeq(q, j + 1, e - 1)
            BY <3>2, RoundRight
        <3>5. Round(h, q, j) = <<SubSeq(q, j + 1, e - 1)>> \o (IF e > b THEN <<>> ELSE h[e])
            BY DEF Round
        <3>6. Round(f, t, a + j) = <<SubSeq(q, j + 1, e - 1)>> \o (IF a + e > Len(t) THEN <<>> ELSE f[a + e])
            <4> HIDE DEF a, t, e
            <4> DEFINE i == a + j
                       x == SegmentEnd(t, i + 1)
            <4>1. x = a + e /\ SubSeq(t, i + 1, x - 1) = SubSeq(q, j + 1, e - 1)
                BY <3>4, Zenon
            <4>2. Round(f, t, i) = <<SubSeq(t, i + 1, x - 1)>> \o (IF x > Len(t) THEN <<>> ELSE f[x])
                BY Zenon DEF Round
            <4> HIDE DEF i, x
            <4>3. Round(f, t, i) = <<SubSeq(q, j + 1, e - 1)>> \o (IF a + e > Len(t) THEN <<>> ELSE f[a + e])
                BY <4>1, <4>2, Zenon
            <4> QED BY <4>3 DEF i
        <3>7. ~(e > b) => f[a + e] = h[e]
            <4> HIDE DEF e, a, b, t
            <4>1. ~(e > b) => e \in j + 1 .. b /\ e >= 1
                BY <1>1, <3>1, <3>3
            <4> QED BY <2>1, <4>1
        <3>8. f[a + j] = Round(f, t, a + j) /\ h[j] = Round(h, q, j)
            <4>1. a + j \in 0 .. a + b
                BY <1>1
            <4> HIDE DEF a, b, t
            <4> QED BY <1>5, <1>7, <4>1
        <3> HIDE DEF e, a, b, t
        <3>9. a + e > Len(t) <=> e > b
            BY <1>1, <3>3
        <3> QED BY <3>5, <3>6, <3>7, <3>8, <3>9
    <2> HIDE DEF a, b, t
    <2>2. \A j \in 0 .. b : j \in S
        <3> HIDE DEF S
        <3> QED BY <1>1, <2>1, DownInduction
    <2>3. ASSUME NEW j \in 1 .. b PROVE f[a + j] = h[j]
        <3>1. j \in 0 .. b /\ j >= 1
            BY <1>1
        <3> QED BY <2>2, <3>1
    <2> QED BY <2>3
<1>9. f[1] = g[1] \o h[1]
    <2> DEFINE V == {i \in 0 .. a : i >= 1 => f[i] = g[i] \o h[1]}
    <2>1. ASSUME NEW i \in 0 .. a, \A k \in i + 1 .. a : k \in V PROVE i \in V
        <3>1. SUFFICES ASSUME i >= 1 PROVE f[i] = g[i] \o h[1]
            OBVIOUS
        <3> DEFINE e == SegmentEnd(p, i + 1)
                   s == SubSeq(p, i + 1, e - 1)
        <3>2. i \in 1 .. a
            BY <3>1
        <3>3. /\ SegmentEnd(t, i + 1) = e /\ SubSeq(t, i + 1, e - 1) = s
              /\ ~(e > Len(t)) /\ e \in i + 1 .. a + 1
            BY <3>2, RoundLeft
        <3>4. Round(f, t, i) = <<s>> \o f[e]
            BY <3>3 DEF Round
        <3>5. Round(g, p, i) = <<s>> \o (IF e > a THEN <<>> ELSE g[e])
            BY DEF Round
        <3>6. f[i] = <<s>> \o f[e] /\ g[i] = <<s>> \o (IF e > a THEN <<>> ELSE g[e])
            <4>1. i \in 0 .. a + b
                BY <1>1
            <4> HIDE DEF a, b, t, s, e
            <4> QED BY <1>5, <1>6, <3>4, <3>5, <4>1
        <3> HIDE DEF s, e, a, b, t
        <3>7. h[1] \in Seq(Names)
            BY <1>1, <1>4
        <3>8. CASE e > a
            <4>1. e = a + 1 /\ 1 \in 1 .. b
                BY <1>1, <3>3, <3>8
            <4>2. f[e] = h[1]
                BY <1>8, <4>1
            <4>3. g[i] = <<s>>
                BY <3>6, <3>8
            <4> QED BY <3>6, <4>2, <4>3
        <3>9. CASE ~(e > a)
            <4>1. e \in i + 1 .. a /\ e >= 1 /\ e \in 0 .. a
                BY <1>1, <3>1, <3>3, <3>9
            <4>2. f[e] = g[e] \o h[1]
                BY <2>1, <4>1
            <4>3. g[e] \in Seq(Names)
                BY <1>3, <4>1
            <4>4. g[i] = <<s>> \o g[e]
                BY <3>6, <3>9
            <4>5. <<s>> \o (g[e] \o h[1]) = (<<s>> \o g[e]) \o h[1]
                <5> DEFINE u == g[e]
                           v == h[1]
                <5>1. u \in Seq(Names) /\ v \in Seq(Names)
                    BY <3>7, <4>3
                <5> HIDE DEF u, v
                <5>2. <<s>> \o (u \o v) = (<<s>> \o u) \o v
                    BY <5>1, ConcatAssoc
                <5> QED BY <5>2 DEF u, v
            <4> QED BY <3>6, <4>2, <4>4, <4>5
        <3> QED BY <3>8, <3>9
    <2> HIDE DEF a, b, t
    <2>2. \A i \in 0 .. a : i \in V
        <3> HIDE DEF V
        <3> QED BY <1>1, <2>1, DownInduction
    <2>3. 1 \in V
        <3>1. 1 \in 0 .. a
            BY <1>1
        <3> HIDE DEF V
        <3> QED BY <2>2, <3>1
    <2>4. 1 >= 1 => f[1] = g[1] \o h[1]
        BY <2>3, Zenon
    <2>5. 1 >= 1
        OBVIOUS
    <2> QED BY <2>4, <2>5, Zenon
<1> QED BY <1>2, <1>3, <1>4, <1>9

\* A text with a slash before it.
LEMMA SlashFirst ==
    ASSUME NEW s \in Seq(Chars)
    PROVE  /\ <<"/">> \o s \in Seq(Chars) /\ Len(<<"/">> \o s) = Len(s) + 1
           /\ <<"/">> \o s # <<>> /\ (<<"/">> \o s)[1] = "/"
           /\ \A j \in 2 .. Len(s) + 1 : (<<"/">> \o s)[j] = s[j - 1]
<1>1. "/" \in Chars
    BY CharsAssumption
<1>2. <<"/">> \in Seq(Chars)
    BY <1>1
<1> QED BY <1>2

\* What follows the last slash is one segment.
LEMMA SegmentsOne ==
    ASSUME NEW s \in Names
    PROVE  Segments(<<"/">> \o s) = <<s>>
<1> DEFINE t == <<"/">> \o s
<1>1. s \in Seq(Chars) /\ \A i \in 1 .. Len(s) : s[i] # "/"
    BY DEF Names
<1>3. t \in Seq(Chars) /\ Len(t) = Len(s) + 1 /\ t # <<>> /\ \A i \in 2 .. Len(t) : t[i] = s[i - 1]
    BY <1>1, SlashFirst
<1> HIDE DEF t
<1>4. PICK f \in [0 .. Len(t) -> Seq(Names)] : Cuts(f, t) /\ Segments(t) = f[1]
    BY <1>3, SegmentsDef
<1>5. SegmentEnd(t, 2) = Len(t) + 1
    <2>1. 2 \in 1 .. Len(t) + 1 /\ Len(t) + 1 \in 2 .. Len(t) + 1
        BY <1>1, <1>3
    <2>2. ASSUME NEW j \in 2 .. (Len(t) + 1) - 1 PROVE t[j] # "/"
        <3>1. j \in 2 .. Len(t) /\ j - 1 \in 1 .. Len(s)
            BY <1>1, <1>3
        <3> QED BY <1>1, <1>3, <3>1
    <2>3. ~(Len(t) + 1 <= Len(t))
        BY <1>3
    <2> QED BY <1>3, <2>1, <2>2, <2>3, SegmentEndUnique
<1>6. SubSeq(t, 2, (Len(t) + 1) - 1) = s
    <2> DEFINE u == SubSeq(t, 2, (Len(t) + 1) - 1)
    <2>1. u \in Seq(Chars) /\ Len(u) = Len(s) /\ \A k \in 1 .. Len(u) : u[k] = t[k + 1]
        BY <1>1, <1>3
    <2> HIDE DEF u
    <2>2. ASSUME NEW k \in 1 .. Len(u) PROVE u[k] = s[k]
        <3>1. k + 1 \in 2 .. Len(t) /\ (k + 1) - 1 = k
            BY <1>1, <1>3, <2>1
        <3>2. t[k + 1] = s[(k + 1) - 1]
            BY <1>3, <3>1
        <3> QED BY <2>1, <3>1, <3>2
    <2>3. u = s
        BY <1>1, <2>1, <2>2
    <2> QED BY <2>3 DEF u
<1>7. Round(f, t, 1) = <<s>> \o <<>>
    <2>1. 1 + 1 = 2 /\ Len(t) + 1 > Len(t)
        BY <1>3
    <2> QED BY <1>5, <1>6, <2>1 DEF Round
<1>8. f[1] = Round(f, t, 1)
    <2>1. 1 \in 0 .. Len(t)
        BY <1>1, <1>3
    <2> QED BY <1>4, <2>1 DEF Cuts
<1> QED BY <1>1, <1>4, <1>7, <1>8 DEF t

\* The text before the last slash and the segment after it.
LEMMA ParentAndSegment ==
    ASSUME NEW t \in Seq(Chars), t # <<>>, t[1] = "/"
    PROVE  /\ ParentText(t) \in Seq(Chars)
           /\ ParentText(t) # <<>> => ParentText(t)[1] = "/"
           /\ \E s \in Names : t = ParentText(t) \o (<<"/">> \o s)
<1> DEFINE S == {i \in DOMAIN t : t[i] = "/"}
           n == Len(t)
           k == Max(S)
           p == SubSeq(t, 1, k - 1)
           s == SubSeq(t, k + 1, n)
<1>1. n \in Nat /\ n >= 1 /\ S \in SUBSET (0 .. n) /\ 1 \in S
    OBVIOUS
<1>2. k \in S /\ \A y \in S : k >= y
    <2> HIDE DEF S, n
    <2>1. \E x \in S : \A y \in S : x >= y
        BY <1>1, GreatestNat
    <2> QED BY <2>1, Zenon DEF Max
<1>3. ParentText(t) = p
    BY DEF ParentText
<1> HIDE DEF k
<1>4. k \in 1 .. n /\ t[k] = "/" /\ \A j \in k + 1 .. n : t[j] # "/"
    BY <1>1, <1>2
<1>5. p \in Seq(Chars) /\ Len(p) = k - 1 /\ \A j \in 1 .. Len(p) : p[j] = t[j]
    BY <1>4
<1>6. s \in Seq(Chars) /\ Len(s) = n - k /\ \A j \in 1 .. Len(s) : s[j] = t[k + j]
    BY <1>4
<1> HIDE DEF p, s
<1>7. s \in Names
    <2>1. ASSUME NEW j \in 1 .. Len(s) PROVE s[j] \in Chars \ {"/"}
        <3>1. k + j \in k + 1 .. n
            BY <1>1, <1>4, <1>6
        <3>2. s[j] \in Chars
            BY <1>6
        <3> QED BY <1>4, <1>6, <3>1, <3>2
    <2> QED BY <1>6, <2>1 DEF Names
<1>8. t = p \o (<<"/">> \o s)
    <2> DEFINE r == <<"/">> \o s
               u == p \o r
    <2>2. r \in Seq(Chars) /\ Len(r) = n - k + 1 /\ r[1] = "/" /\ \A j \in 2 .. Len(r) : r[j] = s[j - 1]
        BY <1>6, SlashFirst
    <2> HIDE DEF r
    <2>3. /\ u \in Seq(Chars) /\ Len(u) = n
          /\ \A j \in 1 .. k - 1 : u[j] = p[j]
          /\ \A j \in 1 .. Len(r) : u[(k - 1) + j] = r[j]
        BY <1>1, <1>4, <1>5, <2>2
    <2> HIDE DEF u
    <2>4. ASSUME NEW j \in 1 .. n PROVE u[j] = t[j]
        <3>1. CASE j < k
            BY <1>4, <1>5, <2>3, <3>1
        <3>2. CASE j = k
            <4>1. (k - 1) + 1 = k /\ 1 \in 1 .. Len(r)
                BY <1>1, <1>4, <2>2
            <4>2. u[(k - 1) + 1] = r[1]
                BY <2>3, <4>1
            <4> QED BY <1>4, <2>2, <3>2, <4>1, <4>2
        <3>3. CASE j > k
            <4> DEFINE m == j - k
            <4>1. m \in 1 .. Len(s) /\ m + 1 \in 2 .. Len(r) /\ (m + 1) - 1 = m /\ k + m = j
                BY <1>1, <1>4, <1>6, <2>2, <3>3
            <4>2. m + 1 \in 1 .. Len(r) /\ (k - 1) + (m + 1) = j
                BY <1>4, <4>1
            <4> HIDE DEF m
            <4>3. u[(k - 1) + (m + 1)] = r[m + 1]
                BY <2>3, <4>2
            <4>4. r[m + 1] = s[(m + 1) - 1] /\ s[m] = t[k + m]
                BY <1>6, <2>2, <4>1
            <4> QED BY <4>1, <4>2, <4>3, <4>4
        <3> QED BY <1>4, <3>1, <3>2, <3>3
    <2>5. u = t
        BY <1>1, <2>3, <2>4
    <2> QED BY <2>5 DEF u, r
<1>9. p # <<>> => p[1] = "/"
    BY <1>4, <1>5
<1> QED BY <1>3, <1>5, <1>7, <1>8, <1>9

\* The loop finds the segments of the parent and then the last one.
LEMMA SegmentsStep ==
    ASSUME NEW p \in Seq(Chars), NEW s \in Names
    PROVE  Segments(p \o (<<"/">> \o s)) = Segments(p) \o <<s>> /\ Segments(p) \in Seq(Names)
<1> DEFINE q == <<"/">> \o s
<1>1. s \in Seq(Chars)
    BY NamesAreTexts
<1>2. q \in Seq(Chars) /\ q # <<>> /\ q[1] = "/"
    BY <1>1, SlashFirst
<1>3. Segments(q) = <<s>>
    BY SegmentsOne
<1> HIDE DEF q
<1>4. CASE p = <<>>
    <2>1. p \o q = q /\ Segments(p) = <<>>
        BY <1>2, <1>4 DEF Segments
    <2>2. <<>> \o <<s>> = <<s>> /\ <<>> \in Seq(Names)
        OBVIOUS
    <2> QED BY <1>3, <2>1, <2>2 DEF q
<1>5. CASE p # <<>>
    <2>1. Segments(p \o q) = Segments(p) \o <<s>>
        BY <1>2, <1>3, <1>5, SegmentsJoin
    <2>2. PICK f : f \in [0 .. Len(p) -> Seq(Names)] /\ Segments(p) = f[1]
        BY <1>5, SegmentsDef
    <2>3. 1 \in 0 .. Len(p)
        BY <1>5
    <2> QED BY <2>1, <2>2, <2>3 DEF q
<1> QED BY <1>4, <1>5

-----------------------------------------------------------------------------
(* How segments are written. *)

\* The concatenation of the first i sequences is f[i].
Concats(f, seqs) ==
    \A i \in 1 .. Len(seqs) : f[i] = IF i = 1 THEN seqs[i] ELSE f[i - 1] \o seqs[i]

LEMMA FlattenDef ==
    ASSUME NEW T, NEW seqs \in Seq(Seq(T)), Len(seqs) # 0
    PROVE  \E f \in [1 .. Len(seqs) -> Seq(T)] : Concats(f, seqs) /\ FlattenSeq(seqs) = f[Len(seqs)]
<1> DEFINE n == Len(seqs)
           Step(g, i) == IF i = 1 THEN seqs[i] ELSE g[i - 1] \o seqs[i]
           Good(m, g) == g \in [1 .. m -> Seq(T)] /\ \A i \in 1 .. m : g[i] = Step(g, i)
           S == {m \in Nat : m <= n => \E g : Good(m, g)}
<1>1. 0 \in S
    <2>1. Good(0, [i \in 1 .. 0 |-> <<>>])
        OBVIOUS
    <2> QED BY <2>1
<1>2. ASSUME NEW m \in Nat, m \in S PROVE m + 1 \in S
    <2>1. SUFFICES ASSUME m + 1 <= n PROVE \E g : Good(m + 1, g)
        <3> HIDE DEF Good
        <3> QED OBVIOUS
    <2>2. PICK g : Good(m, g)
        <3> HIDE DEF Good
        <3> QED BY <1>2, <2>1
    <2> DEFINE h == [i \in 1 .. m + 1 |-> IF i <= m THEN g[i] ELSE Step(g, i)]
    <2>3. seqs[m + 1] \in Seq(T)
        BY <2>1
    <2>4. ASSUME NEW i \in 1 .. m + 1 PROVE h[i] \in Seq(T) /\ h[i] = Step(h, i)
        <3>1. CASE i <= m
            <4>1. i \in 1 .. m /\ h[i] = g[i]
                BY <3>1
            <4>2. i # 1 => i - 1 \in 1 .. m + 1 /\ i - 1 <= m
                BY <3>1
            <4>3. i # 1 => h[i - 1] = g[i - 1]
                BY <4>2
            <4> HIDE DEF h
            <4> QED BY <2>2, <4>1, <4>3
        <3>2. CASE i = m + 1
            <4>1. CASE m = 0
                BY <2>3, <3>2, <4>1
            <4>2. CASE m # 0
                <5>1. h[i] = g[m] \o seqs[m + 1]
                    <6>1. ~(i <= m) /\ i # 1 /\ i - 1 = m
                        BY <3>2, <4>2
                    <6>2. Step(g, i) = g[m] \o seqs[m + 1]
                        BY <3>2, <6>1
                    <6> HIDE DEF Step
                    <6> QED BY <6>1, <6>2
                <5>2. h[m] = g[m] /\ g[m] \in Seq(T)
                    BY <2>2, <4>2
                <5> QED BY <2>3, <3>2, <4>2, <5>1, <5>2
            <4> QED BY <4>1, <4>2
        <3> QED BY <3>1, <3>2
    <2>5. Good(m + 1, h)
        BY <2>4
    <2> QED BY <2>5
<1>3. PICK g : Good(n, g)
    <2> HIDE DEF Good
    <2>1. \A m \in Nat : m \in S
        <3> HIDE DEF S
        <3> QED BY <1>1, <1>2, NatSetInduction
    <2> QED BY <2>1
<1> DEFINE f == CHOOSE h : h = [i \in 1 .. n |-> Step(h, i)]
<1>4. g = [i \in 1 .. n |-> Step(g, i)]
    BY <1>3
<1>5. f = [i \in 1 .. n |-> Step(f, i)]
    BY <1>4
<1>6. FlattenSeq(seqs) = f[n]
    BY DEF FlattenSeq
<1> HIDE DEF f
<1> DEFINE V == {m \in Nat : m + 1 <= n => f[m + 1] \in Seq(T)}
<1>7. 0 \in V
    BY <1>5
<1>8. ASSUME NEW m \in Nat, m \in V PROVE m + 1 \in V
    <2>1. SUFFICES ASSUME m + 2 <= n PROVE f[m + 2] \in Seq(T)
        OBVIOUS
    <2>2. f[m + 2] = f[m + 1] \o seqs[m + 2]
        <3>1. m + 2 \in 1 .. n /\ m + 2 # 1 /\ (m + 2) - 1 = m + 1
            BY <2>1
        <3> QED BY <1>5, <3>1
    <2> QED BY <1>8, <2>1, <2>2
<1>9. \A m \in Nat : m \in V
    <2> HIDE DEF V
    <2> QED BY <1>7, <1>8, NatSetInduction
<1>10. ASSUME NEW i \in 1 .. n PROVE f[i] \in Seq(T)
    <2>1. i - 1 \in Nat /\ (i - 1) + 1 = i
        OBVIOUS
    <2> QED BY <1>9, <2>1
<1>11. f \in [1 .. n -> Seq(T)]
    BY <1>5, <1>10
<1>12. Concats(f, seqs)
    BY <1>5 DEF Concats
<1> QED BY <1>6, <1>11, <1>12

\* One sequence more.
LEMMA FlattenStep ==
    ASSUME NEW T, NEW seqs \in Seq(Seq(T)), NEW x \in Seq(T)
    PROVE  FlattenSeq(Append(seqs, x)) = FlattenSeq(seqs) \o x /\ FlattenSeq(seqs) \in Seq(T)
<1> DEFINE n == Len(seqs)
           more == Append(seqs, x)
<1>1. /\ more \in Seq(Seq(T)) /\ n \in Nat /\ Len(more) = n + 1 /\ more[n + 1] = x
      /\ \A i \in 1 .. n : more[i] = seqs[i]
    OBVIOUS
<1> HIDE DEF more
<1>2. PICK g : g \in [1 .. n + 1 -> Seq(T)] /\ Concats(g, more) /\ FlattenSeq(more) = g[n + 1]
    <2>1. Len(more) # 0
        BY <1>1
    <2> QED BY <1>1, <2>1, FlattenDef
<1>3. \A i \in 1 .. n + 1 : g[i] = IF i = 1 THEN more[i] ELSE g[i - 1] \o more[i]
    BY <1>1, <1>2 DEF Concats
<1>4. CASE n = 0
    <2>1. FlattenSeq(seqs) = <<>>
        BY <1>4 DEF FlattenSeq
    <2>2. g[n + 1] = x
        BY <1>1, <1>3, <1>4
    <2> QED BY <1>2, <2>1, <2>2 DEF more
<1>5. CASE n # 0
    <2>1. PICK f : f \in [1 .. n -> Seq(T)] /\ Concats(f, seqs) /\ FlattenSeq(seqs) = f[n]
        BY <1>5, FlattenDef
    <2>2. \A i \in 1 .. n : f[i] = IF i = 1 THEN seqs[i] ELSE f[i - 1] \o seqs[i]
        BY <2>1 DEF Concats
    <2> DEFINE V == {m \in Nat : m + 1 <= n => f[m + 1] = g[m + 1]}
    <2>3. 0 \in V
        <3>1. 0 + 1 = 1 /\ 1 \in 1 .. n /\ 1 \in 1 .. n + 1
            BY <1>1, <1>5
        <3>2. f[1] = g[1]
            BY <1>1, <1>3, <2>2, <3>1
        <3> QED BY <3>1, <3>2
    <2>4. ASSUME NEW m \in Nat, m \in V PROVE m + 1 \in V
        <3>1. SUFFICES ASSUME (m + 1) + 1 <= n PROVE f[(m + 1) + 1] = g[(m + 1) + 1]
            OBVIOUS
        <3> DEFINE i == (m + 1) + 1
        <3>2. i \in 1 .. n /\ i \in 1 .. n + 1 /\ i # 1 /\ i - 1 = m + 1
            BY <1>1, <3>1
        <3>3. f[m + 1] = g[m + 1]
            BY <1>1, <2>4, <3>1
        <3> HIDE DEF i
        <3>4. f[i] = f[m + 1] \o seqs[i]
            BY <2>2, <3>2
        <3>5. g[i] = g[m + 1] \o more[i] /\ more[i] = seqs[i]
            BY <1>1, <1>3, <3>2
        <3>6. f[i] = g[i]
            BY <3>3, <3>4, <3>5
        <3> QED BY <3>6 DEF i
    <2>5. n - 1 \in V
        <3>1. n - 1 \in Nat
            BY <1>1, <1>5
        <3> HIDE DEF V
        <3> QED BY <2>3, <2>4, <3>1, NatSetInduction
    <2>6. f[n] = g[n]
        <3>1. (n - 1) + 1 = n /\ n <= n
            BY <1>1
        <3> QED BY <2>5, <3>1
    <2>7. g[n + 1] = g[n] \o x
        <3>1. n + 1 \in 1 .. n + 1 /\ n + 1 # 1 /\ (n + 1) - 1 = n
            BY <1>1, <1>5
        <3> QED BY <1>1, <1>3, <3>1
    <2>8. f[n] \in Seq(T)
        <3>1. n \in 1 .. n
            BY <1>1, <1>5
        <3> QED BY <2>1, <3>1
    <2> QED BY <1>2, <2>1, <2>6, <2>7, <2>8 DEF more
<1> QED BY <1>4, <1>5

\* A segment is written with a slash before it.
LEMMA WrittenStep ==
    ASSUME NEW segs \in Seq(Names), NEW s \in Names
    PROVE  /\ Written(segs \o <<s>>) = Written(segs) \o (<<"/">> \o s)
           /\ Written(segs) \in Seq(Chars)
<1> DEFINE W(x) == [i \in DOMAIN x |-> <<"/">> \o x[i]]
           q == <<"/">> \o s
           more == segs \o <<s>>
<1>1. ASSUME NEW r \in Names PROVE <<"/">> \o r \in Seq(Chars)
    BY NamesAreTexts, SlashFirst
<1>2. ASSUME NEW x \in Seq(Names)
      PROVE  /\ W(x) \in Seq(Seq(Chars)) /\ Len(W(x)) = Len(x)
             /\ \A i \in 1 .. Len(x) : W(x)[i] = <<"/">> \o x[i]
    <2>1. ASSUME NEW i \in 1 .. Len(x) PROVE <<"/">> \o x[i] \in Seq(Chars)
        BY <1>1
    <2>2. DOMAIN x = 1 .. Len(x) /\ Len(x) \in Nat
        OBVIOUS
    <2>3. W(x) \in [1 .. Len(x) -> Seq(Chars)]
        BY <2>1, <2>2
    <2>4. \A i \in 1 .. Len(x) : W(x)[i] = <<"/">> \o x[i]
        BY <2>2
    <2> HIDE DEF W
    <2>5. W(x) \in Seq(Seq(Chars)) /\ Len(W(x)) = Len(x)
        BY <2>2, <2>3
    <2> QED BY <2>4, <2>5
<1>3. W(more) = Append(W(segs), q)
    <2> DEFINE n == Len(segs)
    <2>1. /\ n \in Nat /\ more \in Seq(Names) /\ Len(more) = n + 1 /\ more[n + 1] = s
          /\ \A i \in 1 .. n : more[i] = segs[i]
        OBVIOUS
    <2> HIDE DEF more
    <2>2. W(more) \in Seq(Seq(Chars)) /\ Len(W(more)) = n + 1
        BY <1>2, <2>1
    <2>3. q \in Seq(Chars)
        BY <1>1
    <2> DEFINE L == W(more)
               R == Append(W(segs), q)
    <2>4. R \in Seq(Seq(Chars)) /\ Len(R) = n + 1
        BY <1>2, <2>3
    <2>5. ASSUME NEW i \in 1 .. n + 1 PROVE L[i] = R[i]
        <3>1. L[i] = <<"/">> \o more[i]
            BY <1>2, <2>1
        <3>2. CASE i = n + 1
            BY <1>2, <2>1, <3>1, <3>2
        <3>3. CASE i # n + 1
            <4>1. i \in 1 .. n /\ more[i] = segs[i]
                BY <2>1, <3>3
            <4>2. R[i] = W(segs)[i]
                <5> HIDE DEF W, q
                <5> QED BY <1>2, <2>3, <4>1
            <4> QED BY <1>2, <3>1, <4>1, <4>2
        <3> QED BY <3>2, <3>3
    <2> HIDE DEF L, R
    <2>6. L = R
        BY <2>2, <2>4, <2>5 DEF L
    <2> QED BY <2>6 DEF L, R
<1>4. q \in Seq(Chars)
    BY <1>1
<1> HIDE DEF W, q, more
<1>5. FlattenSeq(W(more)) = FlattenSeq(W(segs)) \o q /\ FlattenSeq(W(segs)) \in Seq(Chars)
    BY <1>2, <1>3, <1>4, FlattenStep
<1> QED BY <1>5 DEF Written, W, q, more

LEMMA WrittenEmpty == Written(<<>>) = <<>>
BY DEF Written, FlattenSeq

LEMMA SegmentsEmpty == Segments(<<>>) = <<>>
BY DEF Segments

-----------------------------------------------------------------------------
(* Texts and sequences of segments. *)

Rooted(t) == t = <<>> \/ t[1] = "/"

\* What is true of the segments of a text.
SegmentsFit(t) ==
    /\ Segments(t) \in Seq(Names)
    /\ Written(Segments(t)) = t
    /\ \A i \in 1 .. Len(Segments(t)) : Len(Segments(t)[i]) <= Len(t)
    /\ (\A i \in 1 .. Len(Segments(t)) : Segments(t)[i] # <<>>) => 2 * Len(Segments(t)) <= Len(t)

LEMMA SegmentsOf ==
    ASSUME NEW t \in Seq(Chars), Rooted(t)
    PROVE  SegmentsFit(t)
<1> DEFINE S == {n \in Nat : \A u \in Seq(Chars) : Len(u) <= n /\ Rooted(u) => SegmentsFit(u)}
<1>1. SegmentsFit(<<>>)
    <2>1. <<>> \in Seq(Names) /\ Len(<<>>) = 0 /\ 1 .. 0 = {} /\ 2 * 0 <= 0
        OBVIOUS
    <2> QED BY <2>1, SegmentsEmpty, WrittenEmpty, Zenon DEF SegmentsFit
<1>2. 0 \in S
    <2>1. ASSUME NEW u \in Seq(Chars), Len(u) <= 0 PROVE u = <<>>
        BY <2>1
    <2> QED BY <1>1, <2>1
<1>3. ASSUME NEW n \in Nat, n \in S PROVE n + 1 \in S
    <2>1. SUFFICES ASSUME NEW u \in Seq(Chars), Len(u) <= n + 1, Rooted(u) PROVE SegmentsFit(u)
        OBVIOUS
    <2>2. CASE u = <<>>
        BY <1>1, <2>2
    <2>3. CASE u # <<>>
        <3> DEFINE p == ParentText(u)
        <3>1. p \in Seq(Chars) /\ Rooted(p) /\ \E s \in Names : u = p \o (<<"/">> \o s)
            BY <2>1, <2>3, ParentAndSegment DEF Rooted
        <3> HIDE DEF p
        <3>2. PICK s \in Names : u = p \o (<<"/">> \o s)
            BY <3>1
        <3>3. s \in Seq(Chars)
            BY NamesAreTexts
        <3> DEFINE q == <<"/">> \o s
        <3>4. q \in Seq(Chars) /\ Len(q) = Len(s) + 1
            BY <3>3, SlashFirst
        <3>5. u = p \o q
            BY <3>2
        <3>6. Segments(u) = Segments(p) \o <<s>>
            BY <3>1, <3>2, SegmentsStep
        <3> HIDE DEF q
        <3>7. Len(u) = Len(p) + Len(s) + 1 /\ Len(p) \in Nat /\ Len(s) \in Nat /\ Len(p) <= n
            <4>0. p \in Seq(Chars) /\ q \in Seq(Chars)
                BY <3>1, <3>4
            <4>1. Len(u) = Len(p) + Len(q)
                <5>1. Len(p \o q) = Len(p) + Len(q)
                    BY <4>0
                <5> QED BY <3>5, <5>1
            <4>2. Len(p) \in Nat /\ Len(s) \in Nat
                BY <3>1, <3>3
            <4> QED BY <2>1, <3>4, <4>1, <4>2
        <3>8. SegmentsFit(p)
            BY <1>3, <3>1, <3>7
        <3> DEFINE P == Segments(p)
                   U == Segments(u)
        <3>9. /\ P \in Seq(Names) /\ Written(P) = p
              /\ \A i \in 1 .. Len(P) : Len(P[i]) <= Len(p)
              /\ (\A i \in 1 .. Len(P) : P[i] # <<>>) => 2 * Len(P) <= Len(p)
            BY <3>8 DEF SegmentsFit
        <3>10. U = P \o <<s>>
            BY <3>6
        <3> HIDE DEF P, U
        <3>11. /\ U \in Seq(Names) /\ Len(U) = Len(P) + 1 /\ Len(P) \in Nat /\ U[Len(P) + 1] = s
               /\ \A i \in 1 .. Len(P) : U[i] = P[i]
            BY <3>9, <3>10
        <3>12. Written(U) = u
            BY <3>2, <3>9, <3>10, WrittenStep
        <3>13. ASSUME NEW i \in 1 .. Len(U) PROVE Len(U[i]) <= Len(u)
            <4>1. CASE i = Len(P) + 1
                BY <3>7, <3>11, <4>1
            <4>2. CASE i # Len(P) + 1
                <5>1. i \in 1 .. Len(P)
                    BY <3>11, <4>2
                <5>2. U[i] = P[i] /\ Len(P[i]) <= Len(p) /\ P[i] \in Names
                    BY <3>9, <3>11, <5>1
                <5>3. Len(P[i]) \in Nat
                    BY <5>2 DEF Names
                <5> QED BY <3>7, <5>2, <5>3
            <4> QED BY <4>1, <4>2
        <3>14. ASSUME \A i \in 1 .. Len(U) : U[i] # <<>> PROVE 2 * Len(U) <= Len(u)
            <4>1. 2 * Len(P) <= Len(p)
                <5>1. ASSUME NEW i \in 1 .. Len(P) PROVE P[i] # <<>>
                    <6>1. i \in 1 .. Len(U) /\ U[i] = P[i]
                        BY <3>11
                    <6> QED BY <3>14, <6>1
                <5> QED BY <3>9, <5>1
            <4>2. s # <<>>
                <5>1. Len(P) + 1 \in 1 .. Len(U)
                    BY <3>11
                <5> QED BY <3>11, <3>14, <5>1
            <4>3. Len(s) >= 1
                BY <3>3, <4>2
            <4> QED BY <3>7, <3>11, <4>1, <4>3
        <3> QED BY <3>11, <3>12, <3>13, <3>14 DEF SegmentsFit, U
    <2> QED BY <2>2, <2>3
<1>4. Len(t) \in S
    <2>1. Len(t) \in Nat
        OBVIOUS
    <2> HIDE DEF S
    <2> QED BY <1>2, <1>3, <2>1, NatSetInduction
<1>5. Len(t) <= Len(t)
    OBVIOUS
<1> QED BY <1>4, <1>5

\* The segments of a path.
LEMMA PathSegments ==
    ASSUME NEW t \in Seq(Chars)
    PROVE  IsPath(t) <=> Rooted(t) /\ \A i \in 1 .. Len(Segments(t)) : ValidSegment(Segments(t)[i])
<1>1. ASSUME Rooted(t) PROVE DOMAIN Segments(t) = 1 .. Len(Segments(t))
    <2>1. Segments(t) \in Seq(Names)
        BY <1>1, SegmentsOf DEF SegmentsFit
    <2> QED BY <2>1
<1>2. IsPath(t) => Rooted(t)
    BY DEF IsPath, Rooted
<1> QED BY <1>1, <1>2 DEF IsPath, Rooted

\* parent()
LEMMA ParentPath ==
    ASSUME NEW t \in Seq(Chars), IsPath(t), t # <<>>
    PROVE  /\ ParentText(t) \in Seq(Chars) /\ IsPath(ParentText(t))
           /\ Segments(ParentText(t)) = Front(Segments(t))
<1> DEFINE p == ParentText(t)
<1>1. Rooted(t) /\ \A i \in 1 .. Len(Segments(t)) : ValidSegment(Segments(t)[i])
    BY PathSegments
<1>2. p \in Seq(Chars) /\ Rooted(p) /\ \E s \in Names : t = p \o (<<"/">> \o s)
    BY <1>1, ParentAndSegment DEF Rooted
<1> HIDE DEF p
<1>3. PICK s \in Names : t = p \o (<<"/">> \o s)
    BY <1>2
<1> DEFINE P == Segments(p)
           U == Segments(t)
<1>4. U = P \o <<s>> /\ P \in Seq(Names)
    BY <1>2, <1>3, SegmentsStep
<1>5. \A i \in 1 .. Len(U) : ValidSegment(U[i])
    BY <1>1
<1> HIDE DEF P, U
<1>6. /\ U \in Seq(Names) /\ Len(U) = Len(P) + 1 /\ Len(P) \in Nat
      /\ \A i \in 1 .. Len(P) : U[i] = P[i] /\ i \in 1 .. Len(U)
    BY <1>4
<1>7. \A i \in 1 .. Len(P) : ValidSegment(P[i])
    BY <1>5, <1>6
<1>8. Front(U) = P
    <2> DEFINE F == SubSeq(U, 1, Len(U) - 1)
    <2>1. F \in Seq(Names) /\ Len(F) = Len(P) /\ \A i \in 1 .. Len(P) : F[i] = U[i]
        BY <1>6
    <2> HIDE DEF F
    <2>2. \A i \in 1 .. Len(P) : F[i] = P[i]
        BY <1>6, <2>1
    <2>3. F = P
        BY <1>4, <2>1, <2>2
    <2> QED BY <2>3 DEF Front, F
<1>9. IsPath(p)
    BY <1>2, <1>7, PathSegments DEF P
<1> QED BY <1>2, <1>8, <1>9 DEF p, P, U

\* operator/
LEMMA JoinPath ==
    ASSUME NEW p \in Seq(Chars), NEW q \in Seq(Chars), IsPath(p), IsPath(q)
    PROVE  IsPath(JoinText(p, q)) /\ Segments(JoinText(p, q)) = Segments(p) \o Segments(q)
<1> DEFINE t == p \o q
           P == Segments(p)
           Q == Segments(q)
<1>1. Rooted(p) /\ \A i \in 1 .. Len(P) : ValidSegment(P[i])
    BY PathSegments
<1>2. Rooted(q) /\ \A i \in 1 .. Len(Q) : ValidSegment(Q[i])
    BY PathSegments
<1>3. t \in Seq(Chars)
    OBVIOUS
<1>4. P \in Seq(Names) /\ Q \in Seq(Names)
    BY <1>1, <1>2, SegmentsOf DEF SegmentsFit
<1>5. Segments(t) = P \o Q /\ Rooted(t)
    <2>1. CASE p = <<>>
        <3>1. t = q /\ P = <<>>
            BY <2>1, SegmentsEmpty
        <3>2. <<>> \o Q = Q
            BY <1>4
        <3> QED BY <1>2, <3>1, <3>2
    <2>2. CASE p # <<>> /\ q = <<>>
        <3>1. t = p /\ Q = <<>>
            BY <2>2, SegmentsEmpty
        <3>2. P \o <<>> = P
            BY <1>4
        <3> QED BY <1>1, <3>1, <3>2
    <2>3. CASE p # <<>> /\ q # <<>>
        <3>1. q[1] = "/" /\ p[1] = "/"
            BY <1>1, <1>2, <2>3 DEF Rooted
        <3>2. t[1] = p[1]
            BY <2>3
        <3> QED BY <2>3, <3>1, <3>2, SegmentsJoin DEF Rooted
    <2> QED BY <2>1, <2>2, <2>3
<1> DEFINE U == P \o Q
<1>6. ASSUME NEW i \in 1 .. Len(U) PROVE ValidSegment(U[i])
    <2> HIDE DEF P, Q
    <2>1. CASE i <= Len(P)
        <3>1. i \in 1 .. Len(P) /\ U[i] = P[i]
            BY <1>4, <2>1
        <3> QED BY <1>1, <3>1
    <2>2. CASE i > Len(P)
        <3>1. i - Len(P) \in 1 .. Len(Q) /\ U[i] = Q[i - Len(P)]
            BY <1>4, <2>2
        <3> QED BY <1>2, <3>1
    <2>3. i \in Nat /\ Len(P) \in Nat
        BY <1>4
    <2> QED BY <2>1, <2>2, <2>3
<1>7. IsPath(t)
    BY <1>3, <1>5, <1>6, PathSegments
<1> QED BY <1>5, <1>7 DEF JoinText

ValidNames == {s \in Names : ValidSegment(s)}

\* What is written from valid segments is a path.
LEMMA WrittenPath ==
    ASSUME NEW segs \in Seq(ValidNames)
    PROVE  Written(segs) \in Seq(Chars) /\ IsPath(Written(segs))
<1> DEFINE Good(x) == Written(x) \in Seq(Chars) /\ IsPath(Written(x)) /\ Segments(Written(x)) = x
           S == {n \in Nat : \A x \in Seq(ValidNames) : Len(x) = n => Good(x)}
<1>1. 0 \in S
    <2>1. IsPath(<<>>) /\ <<>> \in Seq(Chars)
        BY SegmentsEmpty DEF IsPath
    <2>2. Good(<<>>)
        BY <2>1, WrittenEmpty, SegmentsEmpty
    <2>3. ASSUME NEW x \in Seq(ValidNames), Len(x) = 0 PROVE x = <<>>
        BY <2>3
    <2> HIDE DEF Good
    <2> QED BY <2>2, <2>3
<1>2. ASSUME NEW n \in Nat, n \in S PROVE n + 1 \in S
    <2>1. SUFFICES ASSUME NEW x \in Seq(ValidNames), Len(x) = n + 1 PROVE Good(x)
        <3> HIDE DEF Good
        <3> QED OBVIOUS
    <2> DEFINE y == SubSeq(x, 1, n)
               s == x[n + 1]
    <2>2. y \in Seq(ValidNames) /\ Len(y) = n /\ s \in ValidNames
        BY <2>1
    <2>3. x = y \o <<s>>
        <3>1. \A i \in 1 .. n : y[i] = x[i]
            BY <2>1
        <3> HIDE DEF y, s
        <3> DEFINE z == y \o <<s>>
        <3>2. z \in Seq(ValidNames) /\ Len(z) = n + 1 /\ z[n + 1] = s /\ \A i \in 1 .. n : z[i] = y[i]
            BY <2>2
        <3> HIDE DEF z
        <3>3. ASSUME NEW i \in 1 .. n + 1 PROVE x[i] = z[i]
            <4>1. i \in 1 .. n \/ i = n + 1
                OBVIOUS
            <4> QED BY <3>1, <3>2, <4>1 DEF s
        <3>4. x = z
            BY <2>1, <3>2, <3>3
        <3> QED BY <3>4 DEF z
    <2>4. Good(y)
        <3> HIDE DEF Good, y
        <3> QED BY <1>2, <2>2
    <2> HIDE DEF y, s
    <2>5. y \in Seq(Names) /\ s \in Names /\ ValidSegment(s)
        BY <2>2 DEF ValidNames
    <2> DEFINE w == Written(y)
               q == <<"/">> \o s
    <2>6. Written(x) = w \o q
        BY <2>3, <2>5, WrittenStep
    <2>7. w \in Seq(Chars) /\ IsPath(w) /\ Segments(w) = y
        BY <2>4
    <2>8. q \in Seq(Chars) /\ q # <<>> /\ q[1] = "/" /\ Segments(q) = <<s>>
        BY <2>5, NamesAreTexts, SlashFirst, SegmentsOne
    <2> HIDE DEF w, q
    <2>9. IsPath(q)
        <3>1. Len(<<s>>) = 1 /\ <<s>>[1] = s
            OBVIOUS
        <3>2. ASSUME NEW i \in 1 .. Len(Segments(q)) PROVE ValidSegment(Segments(q)[i])
            <4>1. i = 1
                BY <2>8, <3>1
            <4> QED BY <2>5, <2>8, <3>1, <4>1
        <3> QED BY <2>8, <3>2, PathSegments DEF Rooted
    <2>10. IsPath(w \o q) /\ Segments(w \o q) = y \o <<s>>
        BY <2>7, <2>8, <2>9, JoinPath DEF JoinText
    <2>11. w \o q \in Seq(Chars)
        BY <2>7, <2>8
    <2> QED BY <2>3, <2>6, <2>10, <2>11
<1>3. Len(segs) \in S
    <2>1. Len(segs) \in Nat
        OBVIOUS
    <2> HIDE DEF S
    <2> QED BY <1>1, <1>2, <2>1, NatSetInduction
<1> HIDE DEF Good
<1>4. Good(segs)
    BY <1>3
<1> QED BY <1>4 DEF Good

\* The texts up to a length.
LEMMA BoundedSeqIs ==
    ASSUME NEW T, NEW n \in Nat
    PROVE  BoundedSeq(T, n) = {s \in Seq(T) : Len(s) <= n}
<1>1. ASSUME NEW s \in BoundedSeq(T, n) PROVE s \in Seq(T) /\ Len(s) <= n
    <2>1. PICK m \in 0 .. n : s \in [1 .. m -> T]
        BY <1>1 DEF BoundedSeq, SeqOf
    <2> QED BY <2>1
<1>2. ASSUME NEW s \in Seq(T), Len(s) <= n PROVE s \in BoundedSeq(T, n)
    <2>1. Len(s) \in 0 .. n /\ s \in [1 .. Len(s) -> T]
        BY <1>2
    <2> QED BY <2>1 DEF BoundedSeq, SeqOf
<1> QED BY <1>1, <1>2

\* The constructor, segments(), parent() and operator/ of Path on texts are what ClientAPI
\* defines on sequences of segments, for every set of characters and every bound on the texts.
THEOREM TextsAgreeAlways == TextsAgree
<1> DEFINE paths == {t \in Texts : IsPath(t)}
           names == {s \in BoundedSeq(Chars \ {"/"}, MaxText) : ValidSegment(s)}
<1>1. MaxText \in Nat
    BY CharsAssumption
<1>2. Texts = {t \in Seq(Chars) : Len(t) <= MaxText}
    BY <1>1, BoundedSeqIs DEF Texts
<1>3. names = {s \in ValidNames : Len(s) <= MaxText}
    BY <1>1, BoundedSeqIs DEF Names, ValidNames
<1>4. MaxText \div 2 \in Nat
    BY <1>1
<1> HIDE DEF names
<1>5. BoundedSeq(names, MaxText \div 2) = {s \in Seq(names) : Len(s) <= MaxText \div 2}
    BY <1>4, BoundedSeqIs
<1>6. ASSUME NEW t \in paths PROVE t \in Seq(Chars) /\ Len(t) <= MaxText /\ IsPath(t) /\ Rooted(t)
    BY <1>2, PathSegments
<1>7. ASSUME NEW t \in paths PROVE t \in WrittenPaths
    <2> DEFINE U == Segments(t)
    <2>1. SegmentsFit(t) /\ \A i \in 1 .. Len(U) : ValidSegment(U[i])
        BY <1>6, SegmentsOf, PathSegments
    <2>2. /\ U \in Seq(Names) /\ Written(U) = t
          /\ \A i \in 1 .. Len(U) : Len(U[i]) <= Len(t)
          /\ (\A i \in 1 .. Len(U) : U[i] # <<>>) => 2 * Len(U) <= Len(t)
        BY <2>1 DEF SegmentsFit
    <2>3. \A i \in 1 .. Len(U) : ValidSegment(U[i]) /\ U[i] # <<>>
        BY <2>1 DEF ValidSegment
    <2> HIDE DEF U
    <2>4. Len(t) \in Nat /\ Len(t) <= MaxText
        BY <1>6
    <2>5. ASSUME NEW i \in 1 .. Len(U) PROVE U[i] \in names
        <3>1. U[i] \in Names /\ Len(U[i]) <= Len(t)
            BY <2>2
        <3>2. Len(U[i]) \in Nat
            BY <3>1 DEF Names
        <3>3. Len(U[i]) <= MaxText
            BY <1>1, <2>4, <3>1, <3>2
        <3> QED BY <1>3, <2>3, <3>1, <3>3 DEF ValidNames
    <2>6. U \in Seq(names) /\ Len(U) \in Nat
        BY <2>2, <2>5
    <2>7. 2 * Len(U) <= MaxText
        BY <1>1, <2>2, <2>3, <2>4, <2>6
    <2>8. Len(U) <= MaxText \div 2
        BY <1>1, <2>6, <2>7
    <2>9. U \in BoundedSeq(names, MaxText \div 2)
        BY <1>5, <2>6, <2>8
    <2> QED BY <2>2, <2>9 DEF WrittenPaths, names
<1>8. ASSUME NEW t \in WrittenPaths PROVE t \in paths
    <2>1. PICK segs \in BoundedSeq(names, MaxText \div 2) : t = Written(segs)
        BY <1>8 DEF WrittenPaths, names
    <2>2. segs \in Seq(ValidNames)
        <3>1. segs \in Seq(names) /\ names \subseteq ValidNames
            BY <1>3, <1>5, <2>1
        <3> QED BY <3>1
    <2>3. IsPath(t)
        BY <2>1, <2>2, WrittenPath
    <2>4. t \in Texts
        BY <1>8 DEF WrittenPaths
    <2> QED BY <2>3, <2>4
<1>9. ASSUME NEW t \in paths PROVE Written(Segments(t)) = t
    BY <1>6, SegmentsOf DEF SegmentsFit
<1>10. ASSUME NEW t \in paths \ {<<>>}
       PROVE  IsPath(ParentText(t)) /\ Segments(ParentText(t)) = Front(Segments(t))
    BY <1>6, ParentPath
<1>11. ASSUME NEW p \in paths, NEW q \in paths
       PROVE  IsPath(JoinText(p, q)) /\ Segments(JoinText(p, q)) = Segments(p) \o Segments(q)
    BY <1>6, JoinPath
<1>12. paths = WrittenPaths
    <2> HIDE DEF paths
    <2> QED BY <1>7, <1>8
<1> HIDE DEF paths
<1> QED BY <1>9, <1>10, <1>11, <1>12, Zenon DEF TextsAgree, paths

-----------------------------------------------------------------------------
(* The keys of a call. *)

\* Only paths reach a client: open checks the prefix, and each function its keys.
PathInv ==
    /\ handle # Nil => IsPath(handle.prefix)
    /\ call # Nil => \A i \in DOMAIN call.keys : call.keys[i] \in Keys /\ IsKey(call.keys[i])

LEMMA PathInvKept ==
    ASSUME PathInv, [Next]_vars
    PROVE  PathInv'
<1> USE DEF PathInv
<1>1. CASE UNCHANGED vars
    BY <1>1 DEF vars
<1>2. ASSUME NEW url \in Urls, NEW prefix \in OpenPrefixes, Open(url, prefix) PROVE PathInv'
    <2>1. call' = call /\ (handle' = handle \/ (IsPath(prefix) /\ handle'.prefix = prefix))
        <3>1. call' = call /\ (handle' = handle \/ (IsPath(prefix) /\ \E b, address :
                handle' = [backend |-> b, prefix |-> prefix, address |-> address]))
            BY <1>2, Zenon DEF Open
        <3> QED BY <3>1
    <2>2. call = Nil
        BY <1>2 DEF Open, Idle
    <2> QED BY <2>1, <2>2
<1>3. ASSUME NEW f, NEW keys \in Seq(Keys), NEW ptr, Start(f, keys, ptr) PROVE PathInv'
    <2>1. handle' = handle
        BY <1>3 DEF Start
    <2>2. CASE \A i \in DOMAIN keys : IsKey(keys[i])
        <3>1. call' = [f |-> f, keys |-> keys, ptr |-> ptr]
            BY <1>3, <2>2 DEF Start
        <3>2. call'.keys = keys
            BY <3>1
        <3>3. \A i \in DOMAIN keys : keys[i] \in Keys
            OBVIOUS
        <3> QED BY <2>1, <2>2, <3>2, <3>3
    <2>3. CASE ~ \A i \in DOMAIN keys : IsKey(keys[i])
        <3>1. call' = call
            BY <1>3, <2>3 DEF Start
        <3> QED BY <2>1, <3>1
    <2> QED BY <2>2, <2>3
<1>4. ASSUME NEW k \in Keys PROVE <<k>> \in Seq(Keys)
    OBVIOUS
<1>5. BoundedSeq(Keys, 2) \subseteq Seq(Keys)
    BY BoundedSeqIs
<1>6. ASSUME UNCHANGED handle, call' = Nil \/ call' = call PROVE PathInv'
    BY <1>6
<1>7. ASSUME Close PROVE PathInv'
    BY <1>7 DEF Close, Idle
<1>8. ASSUME \/ \E e \in DOMAIN Errcode \cup {BackendError, ThreadError} : MethodThrows(e)
             \/ WatchWait
             \/ \E x \in Objects : Free(x)
      PROVE  PathInv'
    <2>1. UNCHANGED handle /\ (call' = Nil \/ call' = call)
        BY <1>8 DEF MethodThrows, WatchWait, Free
    <2> QED BY <1>6, <2>1
<1>9. ASSUME \/ \E f \in KeyFunctions \cup {"exists"}, v \in 0 .. MaxVersion : VersionReturned(f, v)
             \/ \E v \in 1 .. MaxVersion : GetReturned(v)
             \/ GetCopyFails
             \/ \E n \in 0 .. MaxChildren : ChildrenReturned(n)
             \/ \E i \in {Nil} \cup 0 .. MaxChildren - 1 : ChildrenCopyFails(i)
             \/ CommitReturned
             \/ CommitCopyFails
             \/ \E i \in 0 .. 1 : CommitFailed(i)
      PROVE  PathInv'
    <2>1. \E f : Returns(f)
        BY <1>9, Zenon DEF VersionReturned, GetReturned, GetCopyFails, ChildrenReturned, ChildrenCopyFails,
           CommitReturned, CommitCopyFails, CommitFailed
    <2>2. UNCHANGED handle /\ call' = Nil
        BY <2>1 DEF Returns
    <2> QED BY <1>6, <2>2
<1>10. ASSUME NEW f \in KeyFunctions, NEW k \in Keys, Start(f, <<k>>, FALSE) PROVE PathInv'
    BY <1>3, <1>4, <1>10
<1>11. ASSUME NEW f \in ReadFunctions, NEW k \in Keys, NEW ptr \in BOOLEAN, Start(f, <<k>>, ptr) PROVE PathInv'
    BY <1>3, <1>4, <1>11
<1>12. ASSUME NEW ks \in BoundedSeq(Keys, 2), NEW ptr \in BOOLEAN, Start("commit", ks, ptr) PROVE PathInv'
    BY <1>3, <1>5, <1>12
<1> HIDE DEF PathInv
<1>13. CASE Next
    BY <1>2, <1>7, <1>8, <1>9, <1>10, <1>11, <1>12, <1>13, Zenon DEF Next
<1> QED BY <1>1, <1>13

\* The node of a key, under a prefix.
LEMMA NodeOf ==
    ASSUME NEW p \in Seq(Chars), NEW key \in Seq(Chars), IsPath(p), IsKey(key)
    PROVE  LET node == JoinText(p, key)
           IN  /\ IsPath(node)
               /\ Segments(node) = Segments(p) \o Segments(key)
               /\ Segments(ParentText(node)) = Segments(p) \o Front(Segments(key))
<1> DEFINE node == JoinText(p, key)
           P == Segments(p)
           Q == Segments(key)
<1>1. IsPath(key) /\ key # <<>>
    BY DEF IsKey
<1>2. IsPath(node) /\ Segments(node) = P \o Q
    BY <1>1, JoinPath
<1>3. node \in Seq(Chars) /\ node # <<>>
    BY <1>1 DEF JoinText
<1>4. Segments(ParentText(node)) = Front(P \o Q)
    <2> HIDE DEF node
    <2> QED BY <1>2, <1>3, ParentPath
<1>5. P \in Seq(Names) /\ Q \in Seq(Names) /\ Written(Q) = key
    BY <1>1, SegmentsOf, PathSegments DEF SegmentsFit
<1> HIDE DEF P, Q
<1>6. Q # <<>>
    BY <1>1, <1>5, WrittenEmpty
<1>7. Front(P \o Q) = P \o Front(Q)
    <2> DEFINE U == P \o Q
               F == SubSeq(U, 1, Len(U) - 1)
               G == SubSeq(Q, 1, Len(Q) - 1)
               R == P \o G
    <2>1. Len(P) \in Nat /\ Len(Q) \in Nat /\ Len(Q) >= 1
        BY <1>5, <1>6
    <2>2. /\ U \in Seq(Names) /\ Len(U) = Len(P) + Len(Q)
          /\ \A i \in 1 .. Len(P) : U[i] = P[i]
          /\ \A i \in 1 .. Len(Q) : U[Len(P) + i] = Q[i]
        BY <1>5, ConcatIs
    <2> HIDE DEF U
    <2>3. F \in Seq(Names) /\ Len(F) = Len(U) - 1 /\ \A i \in 1 .. Len(F) : F[i] = U[i]
        <3>1. Len(U) >= 1
            BY <2>1, <2>2
        <3> QED BY <2>2, <3>1, FrontIs
    <2>4. G \in Seq(Names) /\ Len(G) = Len(Q) - 1 /\ \A i \in 1 .. Len(G) : G[i] = Q[i]
        BY <1>5, <2>1, FrontIs
    <2> HIDE DEF F, G
    <2>5. /\ R \in Seq(Names) /\ Len(R) = Len(P) + Len(G)
          /\ \A i \in 1 .. Len(P) : R[i] = P[i]
          /\ \A i \in 1 .. Len(G) : R[Len(P) + i] = G[i]
        <3>1. P \in Seq(Names) /\ G \in Seq(Names)
            BY <1>5, <2>4
        <3> QED BY <3>1, ConcatIs
    <2> HIDE DEF R
    <2>6. Len(F) = Len(R) /\ Len(F) \in Nat
        BY <2>1, <2>2, <2>3, <2>4, <2>5
    <2>7. ASSUME NEW i \in 1 .. Len(F) PROVE F[i] = R[i]
        <3>1. CASE i <= Len(P)
            <4>1. i \in 1 .. Len(P)
                BY <2>1, <3>1
            <4> QED BY <2>2, <2>3, <2>5, <4>1
        <3>2. CASE i > Len(P)
            <4> DEFINE j == i - Len(P)
            <4>1. j \in 1 .. Len(G) /\ j \in 1 .. Len(Q) /\ Len(P) + j = i
                BY <2>1, <2>2, <2>3, <2>4, <3>2
            <4> HIDE DEF j
            <4>2. U[Len(P) + j] = Q[j] /\ R[Len(P) + j] = G[j] /\ G[j] = Q[j]
                BY <2>2, <2>4, <2>5, <4>1
            <4> QED BY <2>3, <4>1, <4>2
        <3> QED BY <2>1, <3>1, <3>2
    <2>8. F = R
        BY <2>3, <2>5, <2>6, <2>7
    <2> QED BY <2>8 DEF Front, F, R, G, U
<1> QED BY <1>2, <1>4, <1>7 DEF P, Q

\* The texts that the C caller passes and the paths that the models of the backends use are the
\* same, for every text, prefix and key: what a call hands down is a path, and the node and the
\* parent the client makes of it are those of the segments.
THEOREM TextsMeanPaths == Spec => []PathsAgree
<1>1. Init => PathInv
    BY DEF Init, PathInv
<1>2. PathInv /\ [Next]_vars => PathInv'
    BY PathInvKept
<1>3. Inv /\ PathInv => PathsAgree
    <2> SUFFICES ASSUME Inv, PathInv PROVE PathsAgree
        OBVIOUS
    <2>1. \A t \in OpenPrefixes \cup Keys : t \in Seq(Chars)
        BY BindingAssumption, CharsAssumption, BoundedSeqIs DEF Texts
    <2>2. ASSUME call # Nil, NEW i \in DOMAIN call.keys
          PROVE  LET key  == call.keys[i]
                     node == JoinText(handle.prefix, key)
                 IN  /\ IsKey(key) /\ IsPath(node)
                     /\ Segments(node) = Segments(handle.prefix) \o Segments(key)
                     /\ Segments(ParentText(node)) = Segments(handle.prefix) \o Front(Segments(key))
        <3>1. handle \in Clients /\ handle # Nil
            BY <2>2 DEF Inv, TypeInv
        <3>2. handle.prefix \in Seq(Chars) /\ IsPath(handle.prefix)
            BY <2>1, <3>1 DEF PathInv, Clients
        <3>3. call.keys[i] \in Seq(Chars) /\ IsKey(call.keys[i])
            BY <2>1, <2>2 DEF PathInv
        <3> DEFINE p == handle.prefix
                   key == call.keys[i]
        <3> HIDE DEF p, key
        <3>4. p \in Seq(Chars) /\ IsPath(p) /\ key \in Seq(Chars) /\ IsKey(key)
            BY <3>2, <3>3 DEF p, key
        <3>5. LET node == JoinText(p, key)
              IN  /\ IsPath(node)
                  /\ Segments(node) = Segments(p) \o Segments(key)
                  /\ Segments(ParentText(node)) = Segments(p) \o Front(Segments(key))
            BY <3>4, NodeOf
        <3> QED BY <3>3, <3>5 DEF p, key
    <2> QED BY <2>2, TextsAgreeAlways DEF PathsAgree
<1> QED BY <1>1, <1>2, <1>3, BindingInvariance, PTL DEF Spec

=============================================================================
