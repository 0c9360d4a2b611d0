---------------------------- MODULE RecursionFacts ----------------------------
(***************************************************************************)
(* Facts about recursive functions: loops that end define one, and         *)
(* SumFunctionOnSet, with which the ledger and the reports add up amounts, *)
(* gives the same sum in whatever order it takes the elements.  The        *)
(* library's induction rules take an operator and cannot be used; the      *)
(* rules here take the set of the numbers a fact holds for.                *)
(***************************************************************************)
EXTENDS Integers, FiniteSetTheorems, TLAPS

\* Induction over the natural numbers.
LEMMA SetInduction ==
    ASSUME NEW S \in SUBSET Nat, 0 \in S, \A n \in S : n + 1 \in S
    PROVE  S = Nat
<1> DEFINE T == Nat \ S
<1> SUFFICES ASSUME T # {} PROVE FALSE
  OBVIOUS
<1>1. \E x \in T : \A y \in T : ~ (<<y, x>> \in OpToRel(<, Nat))
  <2>1. T \subseteq Nat
    OBVIOUS
  <2> QED BY <2>1, WFMin, NatLessThanWellFounded
<1>2. PICK x \in T : \A y \in T : ~(y < x)
  BY <1>1 DEF OpToRel
<1>3. x # 0 /\ x - 1 \in Nat /\ x - 1 \notin T
  BY <1>2
<1> QED BY <1>3

\* Induction up to a bound.
LEMMA IntervalInduction ==
    ASSUME NEW m \in Nat, NEW S, 0 \in S, \A n \in 0..(m - 1) : n \in S => n + 1 \in S
    PROVE  0..m \subseteq S
<1> DEFINE P == {n \in Nat : n <= m => n \in S}
<1>1. P = Nat
  <2>1. 0 \in P /\ \A n \in P : n + 1 \in P
    OBVIOUS
  <2> HIDE DEF P
  <2>2. P \in SUBSET Nat
    BY DEF P
  <2> QED BY <2>1, <2>2, SetInduction
<1> QED BY <1>1

-----------------------------------------------------------------------------
(* Loops.                                                                  *)

\* A loop over D: while in go it steps by nxt, which takes val up to the bound; it returns
\* stop where it ends, which step changes on the way back.
LoopOver(D, V, val, bound, nxt, go, stop, step) ==
    /\ val \in [D -> Nat] /\ bound \in Nat /\ nxt \in [D -> D]
    /\ stop \in [D -> V] /\ step \in [D -> [V -> V]]
    /\ \A d \in D : d \in go => val[d] < val[nxt[d]] /\ val[d] < bound

LoopResult(f, D, nxt, go, stop, step) ==
    \A d \in D : f[d] = IF d \in go THEN step[d][f[nxt[d]]] ELSE stop[d]

LEMMA LoopExists ==
    ASSUME NEW D, NEW V, NEW val, NEW bound, NEW nxt, NEW go, NEW stop, NEW step,
           LoopOver(D, V, val, bound, nxt, go, stop, step)
    PROVE  \E f \in [D -> V] : LoopResult(f, D, nxt, go, stop, step)
<1> USE DEF LoopOver
<1> DEFINE Near(d, n) == val[d] + n >= bound
           Runs(f, n) == \A d \in D : Near(d, n) =>
                            f[d] = IF d \in go THEN step[d][f[nxt[d]]] ELSE stop[d]
           P == {n \in Nat : \E f \in [D -> V] : Runs(f, n)}
<1>1. 0 \in P
  <2>1. \A d \in D : Near(d, 0) => d \notin go
    OBVIOUS
  <2>2. Runs(stop, 0)
    BY <2>1
  <2> QED BY <2>2
<1>2. ASSUME NEW n \in P PROVE n + 1 \in P
  <2>1. PICK f \in [D -> V] : Runs(f, n)
    BY <1>2
  <2> DEFINE h == [d \in D |-> IF Near(d, n) THEN f[d]
                               ELSE IF d \in go THEN step[d][f[nxt[d]]] ELSE stop[d]]
  <2>2. h \in [D -> V]
    OBVIOUS
  <2>3. \A d \in D : Near(d, n + 1) /\ d \in go => Near(nxt[d], n)
    OBVIOUS
  <2>4. \A d \in D : Near(d, n) /\ d \in go => Near(nxt[d], n)
    OBVIOUS
  <2> HIDE DEF Near
  <2>5. ASSUME NEW d \in D, Near(d, n + 1)
        PROVE  h[d] = IF d \in go THEN step[d][h[nxt[d]]] ELSE stop[d]
    <3>1. d \in go => h[nxt[d]] = f[nxt[d]]
      BY <2>3, <2>5
    <3>2. h[d] = IF d \in go THEN step[d][f[nxt[d]]] ELSE stop[d]
      BY <2>1
    <3> HIDE DEF h
    <3> QED BY <3>1, <3>2
  <2> HIDE DEF h
  <2>6. Runs(h, n + 1)
    BY <2>5
  <2> QED BY <2>2, <2>6
<1>3. P = Nat
  <2> HIDE DEF P
  <2>1. P \in SUBSET Nat
    BY DEF P
  <2> QED BY <1>1, <1>2, <2>1, SetInduction
<1>4. PICK f \in [D -> V] : Runs(f, bound)
  BY <1>3
<1> QED BY <1>4 DEF LoopResult

-----------------------------------------------------------------------------
(* The recursion of SumFunctionOnSet.                                      *)

First(s) == CHOOSE x \in s : TRUE

\* g adds f up over the subsets of T, one element at a time.
AddsUp(g, f, T) ==
    \A s \in SUBSET T :
        g[s] = IF s = {} THEN 0 ELSE f[First(s)] + g[s \ {First(s)}]

LEMMA FirstIsIn ==
    ASSUME NEW s, s # {} PROVE First(s) \in s
  BY DEF First

LEMMA Smaller ==
    ASSUME NEW T, IsFiniteSet(T), NEW s \in SUBSET T, NEW x \in s
    PROVE  /\ s \ {x} \in SUBSET T
           /\ Cardinality(s) \in Nat \ {0}
           /\ Cardinality(s \ {x}) = Cardinality(s) - 1
<1>1. IsFiniteSet(s)
  BY FS_Subset
<1>2. Cardinality(s) \in Nat /\ Cardinality(s) # 0
  BY <1>1, FS_CardinalityType, FS_EmptySet
<1> QED BY <1>1, <1>2, FS_RemoveElement

\* There is such a g: it is built up by the size of the subsets.
LEMMA SumExists ==
    ASSUME NEW T, IsFiniteSet(T), NEW f, \A x \in T : f[x] \in Int
    PROVE  \E g \in [SUBSET T -> Int] : AddsUp(g, f, T)
<1> DEFINE Size(s) == Cardinality(s)
           UpTo(g, n) ==
              \A s \in SUBSET T : Size(s) <= n =>
                 g[s] = IF s = {} THEN 0 ELSE f[First(s)] + g[s \ {First(s)}]
           P == {n \in Nat : \E g \in [SUBSET T -> Int] : UpTo(g, n)}
<1>1. \A s \in SUBSET T : Size(s) \in Nat /\ (Size(s) = 0 <=> s = {})
  BY FS_Subset, FS_CardinalityType, FS_EmptySet
<1>2. \A s \in SUBSET T : s # {} =>
         /\ First(s) \in T /\ f[First(s)] \in Int
         /\ s \ {First(s)} \in SUBSET T
         /\ Size(s \ {First(s)}) = Size(s) - 1
  BY FirstIsIn, Smaller
<1> HIDE DEF Size
<1>3. 0 \in P
  <2>1. [s \in SUBSET T |-> 0] \in [SUBSET T -> Int]
    OBVIOUS
  <2>2. UpTo([s \in SUBSET T |-> 0], 0)
    BY <1>1
  <2> QED BY <2>1, <2>2
<1>4. ASSUME NEW n \in P PROVE n + 1 \in P
  <2>1. PICK g \in [SUBSET T -> Int] : UpTo(g, n)
    BY <1>4
  <2> DEFINE h == [s \in SUBSET T |->
                      IF Size(s) <= n THEN g[s]
                      ELSE f[First(s)] + g[s \ {First(s)}]]
  <2>2. ASSUME NEW s \in SUBSET T PROVE h[s] \in Int
    <3>1. CASE Size(s) <= n
      BY <3>1
    <3>2. CASE ~(Size(s) <= n)
      <4>1. s # {}
        BY <1>1, <3>2
      <4> QED BY <1>2, <3>2, <4>1
    <3> QED BY <3>1, <3>2
  <2>3. h \in [SUBSET T -> Int]
    BY <2>2
  <2>4. ASSUME NEW s \in SUBSET T, Size(s) <= n + 1
        PROVE  h[s] = IF s = {} THEN 0 ELSE f[First(s)] + h[s \ {First(s)}]
    <3>1. CASE s = {}
      <4>1. Size(s) <= n
        BY <1>1, <3>1
      <4> QED BY <2>1, <3>1, <4>1
    <3>2. CASE s # {}
      <4>1. /\ s \ {First(s)} \in SUBSET T
            /\ Size(s \ {First(s)}) <= n
        BY <1>1, <1>2, <2>4, <3>2
      <4>2. h[s \ {First(s)}] = g[s \ {First(s)}]
        BY <4>1
      <4>3. h[s] = f[First(s)] + g[s \ {First(s)}]
        BY <2>1, <3>2
      <4> QED BY <3>2, <4>2, <4>3
    <3> QED BY <3>1, <3>2
  <2>5. UpTo(h, n + 1)
    <3> HIDE DEF h
    <3> QED BY <2>4
  <2>6. n + 1 \in Nat
    BY <1>4
  <2> HIDE DEF h, UpTo
  <2> QED BY <2>3, <2>5, <2>6
<1>5. P = Nat
  <2> HIDE DEF P
  <2>1. P \in SUBSET Nat
    BY DEF P
  <2> QED BY <1>3, <1>4, <2>1, SetInduction
<1>6. Size(T) \in Nat /\ \A s \in SUBSET T : Size(s) <= Size(T)
  BY <1>1, FS_Subset DEF Size
<1>7. PICK g \in [SUBSET T -> Int] : UpTo(g, Size(T))
  BY <1>5, <1>6
<1> QED BY <1>6, <1>7 DEF AddsUp

\* SumFunctionOnSet is the value of one such g.
LEMMA SumIsOne ==
    ASSUME NEW T, IsFiniteSet(T), NEW f, \A x \in T : f[x] \in Int
    PROVE  \E g : AddsUp(g, f, T) /\ SumFunctionOnSet(f, T) = g[T]
<1> DEFINE Body(g) == [s \in SUBSET T |->
                         IF s = {} THEN 0 ELSE f[First(s)] + g[s \ {First(s)}]]
           iter == CHOOSE g : g = Body(g)
<1>1. \E g : g = Body(g)
  <2>1. PICK g \in [SUBSET T -> Int] : AddsUp(g, f, T)
    BY SumExists
  <2>2. g = Body(g)
    BY <2>1 DEF AddsUp
  <2> QED BY <2>2
<1>2. iter = Body(iter)
  <2> HIDE DEF Body
  <2> QED BY <1>1
<1>3. SumFunctionOnSet(f, T) = iter[T]
  BY DEF SumFunctionOnSet, FoldFunctionOnSet, MapThenFoldSet, First
<1>4. AddsUp(iter, f, T)
  <2> HIDE DEF iter
  <2> QED BY <1>2 DEF AddsUp
<1> QED BY <1>3, <1>4

-----------------------------------------------------------------------------
(* What follows from the recursion.                                        *)

\* Any element can be taken first.
LEMMA AnyOrder ==
    ASSUME NEW T, IsFiniteSet(T), NEW f, \A x \in T : f[x] \in Int,
           NEW g, AddsUp(g, f, T)
    PROVE  \A s \in SUBSET T : /\ g[s] \in Int
                              /\ \A x \in s : g[s] = f[x] + g[s \ {x}]
<1> DEFINE Holds(s) == g[s] \in Int /\ \A x \in s : g[s] = f[x] + g[s \ {x}]
           P == {n \in Nat : \A s \in SUBSET T : Cardinality(s) <= n => Holds(s)}
<1>1. 0 \in P
  <2>1. ASSUME NEW s \in SUBSET T, Cardinality(s) <= 0 PROVE Holds(s)
    <3>1. s = {}
      BY <2>1, FS_Subset, FS_CardinalityType, FS_EmptySet
    <3>2. g[s] = 0
      BY <3>1 DEF AddsUp
    <3> QED BY <3>1, <3>2
  <2> HIDE DEF Holds
  <2> QED BY <2>1
<1>2. ASSUME NEW n \in P PROVE n + 1 \in P
  <2>1. ASSUME NEW s \in SUBSET T, Cardinality(s) <= n + 1, s # {} PROVE Holds(s)
    <3> DEFINE c == First(s)
    <3>1. n \in Nat /\ \A r \in SUBSET T : Cardinality(r) <= n => Holds(r)
      BY <1>2
    <3>2. c \in s
      BY <2>1, FirstIsIn
    <3>3. \A x \in s : s \ {x} \in SUBSET T /\ Cardinality(s \ {x}) <= n /\ f[x] \in Int
      BY <2>1, <3>1, Smaller
    <3>4. g[s] = f[c] + g[s \ {c}]
      BY <2>1 DEF AddsUp
    <3> HIDE DEF c
    <3>5. \A x \in s : Holds(s \ {x})
      BY <3>1, <3>3
    <3>6. g[s] \in Int
      BY <3>2, <3>3, <3>4, <3>5
    <3>7. ASSUME NEW x \in s, x # c PROVE g[s] = f[x] + g[s \ {x}]
      <4> DEFINE r == (s \ {c}) \ {x}
      <4>1. r \in SUBSET T /\ Cardinality(r) <= n
        <5>1. x \in s \ {c} /\ s \ {c} \in SUBSET T
          BY <3>7
        <5> DEFINE u == s \ {c}
        <5> HIDE DEF u
        <5>2. Cardinality(u) \in Nat \ {0} /\ Cardinality(u \ {x}) = Cardinality(u) - 1
          BY <5>1, Smaller DEF u
        <5>3. Cardinality(u) <= n
          BY <3>2, <3>3 DEF u
        <5>4. u \ {x} = r /\ r \in SUBSET T
          BY DEF u
        <5>5. Cardinality(u \ {x}) <= n
          BY <3>1, <5>2, <5>3
        <5> HIDE DEF r
        <5> QED BY <5>4, <5>5
      <4>2. r = (s \ {x}) \ {c}
        OBVIOUS
      <4> HIDE DEF r
      <4>3. g[s \ {c}] = f[x] + g[r]
        <5>1. x \in s \ {c} /\ Holds(s \ {c})
          BY <3>2, <3>5, <3>7
        <5> QED BY <5>1 DEF r
      <4>4. g[s \ {x}] = f[c] + g[r]
        <5>1. c \in s \ {x} /\ Holds(s \ {x})
          BY <3>2, <3>5, <3>7
        <5> QED BY <4>2, <5>1
      <4>5. f[x] \in Int /\ f[c] \in Int /\ g[r] \in Int
        BY <3>1, <3>2, <3>3, <4>1
      <4> QED BY <3>4, <4>3, <4>4, <4>5
    <3> QED BY <3>4, <3>6, <3>7
  <2>2. Holds({})
    <3>1. g[{}] = 0
      BY DEF AddsUp
    <3> QED BY <3>1
  <2>3. n + 1 \in Nat
    BY <1>2
  <2> HIDE DEF Holds
  <2> QED BY <2>1, <2>2, <2>3
<1>3. P = Nat
  <2> HIDE DEF P
  <2>1. P \in SUBSET Nat
    BY DEF P
  <2> QED BY <1>1, <1>2, <2>1, SetInduction
<1>4. \A s \in SUBSET T : Cardinality(s) \in Nat
  BY FS_Subset, FS_CardinalityType
<1> QED BY <1>3, <1>4

\* A g over the subsets of T gives the sums over all of them.
LEMMA SumOfSubset ==
    ASSUME NEW T, IsFiniteSet(T), NEW f, \A x \in T : f[x] \in Int,
           NEW g, AddsUp(g, f, T), NEW S \in SUBSET T
    PROVE  SumFunctionOnSet(f, S) = g[S]
<1>1. IsFiniteSet(S) /\ \A x \in S : f[x] \in Int
  BY FS_Subset
<1>2. PICK h : AddsUp(h, f, S) /\ SumFunctionOnSet(f, S) = h[S]
  BY <1>1, SumIsOne
<1> DEFINE P == {n \in Nat : \A s \in SUBSET S : Cardinality(s) <= n => h[s] = g[s]}
<1>3. 0 \in P
  <2>1. ASSUME NEW s \in SUBSET S, Cardinality(s) <= 0 PROVE h[s] = g[s]
    <3>1. s = {}
      BY <1>1, <2>1, FS_Subset, FS_CardinalityType, FS_EmptySet
    <3> QED BY <1>2, <3>1 DEF AddsUp
  <2> QED BY <2>1
<1>4. ASSUME NEW n \in P PROVE n + 1 \in P
  <2>1. ASSUME NEW s \in SUBSET S, Cardinality(s) <= n + 1 PROVE h[s] = g[s]
    <3>1. CASE s = {}
      BY <1>2, <3>1 DEF AddsUp
    <3>2. CASE s # {}
      <4>1. s \ {First(s)} \in SUBSET S /\ Cardinality(s \ {First(s)}) <= n
        BY <1>1, <1>4, <2>1, <3>2, FirstIsIn, Smaller
      <4>2. h[s \ {First(s)}] = g[s \ {First(s)}]
        BY <1>4, <4>1
      <4> QED BY <1>2, <3>2, <4>2 DEF AddsUp
    <3> QED BY <3>1, <3>2
  <2> QED BY <1>4, <2>1
<1>5. P = Nat
  <2> HIDE DEF P
  <2>1. P \in SUBSET Nat
    BY DEF P
  <2> QED BY <1>3, <1>4, <2>1, SetInduction
<1>6. Cardinality(S) \in Nat
  BY <1>1, FS_CardinalityType
<1> QED BY <1>2, <1>5, <1>6

\* Nothing adds up to 0.
LEMMA SumOfNone == ASSUME NEW f PROVE SumFunctionOnSet(f, {}) = 0
<1>1. IsFiniteSet({}) /\ \A x \in {} : f[x] \in Int
  BY FS_EmptySet
<1> QED BY <1>1, SumIsOne DEF AddsUp

\* The sum over a set is what one of its elements adds to the sum over the others.
LEMMA SumTakesOne ==
    ASSUME NEW T, IsFiniteSet(T), NEW f, \A x \in T : f[x] \in Int
    PROVE  /\ SumFunctionOnSet(f, T) \in Int
           /\ \A x \in T : SumFunctionOnSet(f, T) = f[x] + SumFunctionOnSet(f, T \ {x})
<1>1. PICK g : AddsUp(g, f, T)
  BY SumIsOne
<1>2. \A S \in SUBSET T : SumFunctionOnSet(f, S) = g[S]
  BY <1>1, SumOfSubset
<1>3. g[T] \in Int /\ \A x \in T : g[T] = f[x] + g[T \ {x}]
  BY <1>1, AnyOrder
<1> QED BY <1>2, <1>3

LEMMA SumGrows ==
    ASSUME NEW T, IsFiniteSet(T), NEW f, NEW x, x \notin T, \A y \in T \cup {x} : f[y] \in Int
    PROVE  SumFunctionOnSet(f, T \cup {x}) = f[x] + SumFunctionOnSet(f, T)
<1>1. IsFiniteSet(T \cup {x}) /\ (T \cup {x}) \ {x} = T
  BY FS_AddElement
<1> QED BY <1>1, SumTakesOne

\* Only the values on the set matter.
LEMMA SumOfSame ==
    ASSUME NEW T, IsFiniteSet(T), NEW f, NEW h, \A x \in T : f[x] \in Int /\ h[x] = f[x]
    PROVE  SumFunctionOnSet(h, T) = SumFunctionOnSet(f, T)
<1>1. PICK g : AddsUp(g, f, T)
  BY SumIsOne
<1>2. AddsUp(g, h, T)
  <2>1. ASSUME NEW s \in SUBSET T, s # {} PROVE h[First(s)] = f[First(s)]
    BY <2>1, FirstIsIn
  <2> QED BY <1>1, <2>1 DEF AddsUp
<1> QED BY <1>1, <1>2, SumOfSubset

\* What a change of one value does to the sum.
LEMMA SumOfChanged ==
    ASSUME NEW T, IsFiniteSet(T), NEW f, NEW h, NEW x \in T,
           \A y \in T : f[y] \in Int /\ h[y] \in Int /\ (y # x => h[y] = f[y])
    PROVE  SumFunctionOnSet(h, T) = SumFunctionOnSet(f, T) - f[x] + h[x]
<1>1. IsFiniteSet(T \ {x})
  BY FS_RemoveElement
<1>2. SumFunctionOnSet(h, T \ {x}) = SumFunctionOnSet(f, T \ {x})
  BY <1>1, SumOfSame
<1>3. /\ SumFunctionOnSet(f, T) = f[x] + SumFunctionOnSet(f, T \ {x})
      /\ SumFunctionOnSet(h, T) = h[x] + SumFunctionOnSet(h, T \ {x})
      /\ SumFunctionOnSet(f, T \ {x}) \in Int
  BY <1>1, SumTakesOne
<1> QED BY <1>2, <1>3

\* Natural numbers add up to one, and to 0 only when all are 0.
LEMMA SumOfNaturals ==
    ASSUME NEW T, IsFiniteSet(T), NEW f, \A x \in T : f[x] \in Nat
    PROVE  /\ SumFunctionOnSet(f, T) \in Nat
           /\ \A x \in T : f[x] <= SumFunctionOnSet(f, T)
<1> DEFINE P == {n \in Nat : \A S \in SUBSET T : Cardinality(S) <= n => SumFunctionOnSet(f, S) \in Nat}
<1>1. 0 \in P
  <2>1. ASSUME NEW S \in SUBSET T, Cardinality(S) <= 0 PROVE SumFunctionOnSet(f, S) \in Nat
    <3>1. S = {}
      BY <2>1, FS_Subset, FS_CardinalityType, FS_EmptySet
    <3> QED BY <3>1, SumOfNone
  <2> QED BY <2>1
<1>2. ASSUME NEW n \in P PROVE n + 1 \in P
  <2>1. ASSUME NEW S \in SUBSET T, Cardinality(S) <= n + 1 PROVE SumFunctionOnSet(f, S) \in Nat
    <3>1. CASE S = {}
      BY <3>1, SumOfNone
    <3>2. CASE S # {}
      <4>1. PICK x \in S : TRUE
        BY <3>2
      <4>2. S \ {x} \in SUBSET T /\ Cardinality(S \ {x}) <= n
        BY <1>2, <2>1, Smaller
      <4>3. SumFunctionOnSet(f, S \ {x}) \in Nat
        BY <1>2, <4>2
      <4>4. SumFunctionOnSet(f, S) = f[x] + SumFunctionOnSet(f, S \ {x})
        BY FS_Subset, SumTakesOne
      <4> QED BY <4>3, <4>4
    <3> QED BY <3>1, <3>2
  <2> QED BY <1>2, <2>1
<1>3. P = Nat
  <2> HIDE DEF P
  <2>1. P \in SUBSET Nat
    BY DEF P
  <2> QED BY <1>1, <1>2, <2>1, SetInduction
<1>4. \A S \in SUBSET T : SumFunctionOnSet(f, S) \in Nat
  BY <1>3, FS_Subset, FS_CardinalityType
<1>5. ASSUME NEW x \in T PROVE f[x] <= SumFunctionOnSet(f, T)
  <2>1. SumFunctionOnSet(f, T) = f[x] + SumFunctionOnSet(f, T \ {x})
    BY SumTakesOne
  <2>2. SumFunctionOnSet(f, T \ {x}) \in Nat
    BY <1>4
  <2> QED BY <2>1, <2>2
<1> QED BY <1>4, <1>5

=============================================================================
