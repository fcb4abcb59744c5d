-------------------------- MODULE DirCountsProofs --------------------------
(***************************************************************************)
(* Proofs about DirCounts, for any tree, any number of workers and any     *)
(* size of the queue: the types, that a count shown as ready is right, and *)
(* that the last count is kept.                                            *)
(*                                                                         *)
(* Up and Sum are recursive: that their definitions have a solution, and   *)
(* what is needed of it, is proved first, by induction over the tree and   *)
(* over finite sets.  A walk is right as long as what it still has to      *)
(* visit covers what it has not seen, and it has seen nothing that has     *)
(* changed since.                                                          *)
(***************************************************************************)
EXTENDS DirCounts, FiniteSetTheorems, WellFoundedInduction, TLAPS

-----------------------------------------------------------------------------
(* The tree.                                                               *)

\* What holds of the root, and of a directory when it holds of its parent, holds of all.
LEMMA TreeInduction ==
    ASSUME NEW P \in SUBSET Dir, Root \in P, \A d \in Dir \ {Root} : Parent[d] \in P => d \in P
    PROVE  P = Dir
  <1> SUFFICES ASSUME Dir \ P # {} PROVE FALSE
    OBVIOUS
  <1>1. \A d \in Dir \ P : Parent[d] \in Dir \ P
    BY TreeAssumption
  <1>2. Root \in Dir \ P
    BY <1>1, TreeAssumption
  <1> QED BY <1>2

\* The recursive definition of Up has a solution: the directories that are in every
\* set that contains d and, with each directory, its parent.
LEMMA UpDefined ==
    Up = [d \in Dir |-> {d} \cup (IF d = Root THEN {} ELSE Up[Parent[d]])]
  <1> DEFINE Closed(S) == \A x \in S \ {Root} : Parent[x] \in S
             Least(d) == {e \in Dir : \A S \in SUBSET Dir : d \in S /\ Closed(S) => e \in S}
             F == [d \in Dir |-> Least(d)]
             Def(f) == [d \in Dir |-> {d} \cup (IF d = Root THEN {} ELSE f[Parent[d]])]
  <1>1. \A d \in Dir : F[d] = {d} \cup (IF d = Root THEN {} ELSE F[Parent[d]])
    <2> SUFFICES ASSUME NEW d \in Dir
                 PROVE  Least(d) = {d} \cup (IF d = Root THEN {} ELSE Least(Parent[d]))
      BY TreeAssumption
    <2>1. CASE d = Root
      <3>1. {d} \in SUBSET Dir /\ Closed({d})
        BY <2>1
      <3>2. Least(d) \subseteq {d}
        BY <3>1
      <3> QED BY <2>1, <3>2
    <2>2. CASE d # Root
      <3> DEFINE p == Parent[d]
                 T == {d} \cup Least(p)
      <3>1. p \in Dir
        BY TreeAssumption
      <3>2. p \in Least(p)
        BY <3>1
      <3>3. \A x \in Least(p) \ {Root} : Parent[x] \in Least(p)
        BY TreeAssumption
      <3>4. T \in SUBSET Dir /\ d \in T /\ Closed(T)
        BY <3>2, <3>3
      <3>5. Least(d) \subseteq T
        BY <3>4
      <3>6. T \subseteq Least(d)
        BY <2>2
      <3> QED BY <2>2, <3>5, <3>6
    <2> QED BY <2>1, <2>2
  <1>2. F = Def(F)
    BY <1>1
  <1>3. Up = CHOOSE f : f = Def(f)
    BY DEF Up
  <1> HIDE DEF F, Def
  <1>4. Up = Def(Up)
    BY <1>2, <1>3
  <1> QED BY <1>4 DEF Def

\* A directory is above itself, and what is above its parent is above it.
LEMMA UpStep ==
    /\ Up[Root] = {Root}
    /\ \A d \in Dir \ {Root} : Up[d] = {d} \cup Up[Parent[d]]
    /\ \A d \in Dir : d \in Up[d]
  BY UpDefined, TreeAssumption

\* Directories are above directories only.
LEMMA UpInDir == \A d \in Dir : Up[d] \subseteq Dir
  <1> DEFINE P == {d \in Dir : Up[d] \subseteq Dir}
  <1>1. Root \in P /\ \A d \in Dir \ {Root} : Parent[d] \in P => d \in P
    BY UpStep, TreeAssumption
  <1> HIDE DEF P
  <1>2. P = Dir
    BY <1>1, TreeInduction DEF P
  <1> QED BY <1>2 DEF P

\* What is above a directory above d is above d.
LEMMA UpTransitive == \A d \in Dir : \A e \in Up[d] : Up[e] \subseteq Up[d]
  <1> DEFINE P == {d \in Dir : \A e \in Up[d] : Up[e] \subseteq Up[d]}
  <1>1. Root \in P /\ \A d \in Dir \ {Root} : Parent[d] \in P => d \in P
    BY UpStep, TreeAssumption
  <1> HIDE DEF P
  <1>2. P = Dir
    BY <1>1, TreeInduction DEF P
  <1> QED BY <1>2 DEF P

\* Of two directories above d one is above the other.
LEMMA UpLinear == \A d \in Dir : \A e, g \in Up[d] : e \in Up[g] \/ g \in Up[e]
  <1> DEFINE P == {d \in Dir : \A e, g \in Up[d] : e \in Up[g] \/ g \in Up[e]}
  <1>1. Root \in P /\ \A d \in Dir \ {Root} : Parent[d] \in P => d \in P
    BY UpStep, TreeAssumption
  <1> HIDE DEF P
  <1>2. P = Dir
    BY <1>1, TreeInduction DEF P
  <1> QED BY <1>2 DEF P

\* On the way up from d to e one comes through a child of e.
LEMMA ThroughChild ==
    \A d \in Dir : \A e \in Up[d] \ {d} : \E c \in Up[d] : c \in Dir \ {Root} /\ Parent[c] = e
  <1> DEFINE P == {d \in Dir : \A e \in Up[d] \ {d} :
                      \E c \in Up[d] : c \in Dir \ {Root} /\ Parent[c] = e}
  <1>1. Root \in P
    BY UpStep, TreeAssumption
  <1>2. ASSUME NEW d \in Dir \ {Root}, Parent[d] \in P
        PROVE  d \in P
    <2> SUFFICES ASSUME NEW e \in Up[d] \ {d}
                 PROVE  \E c \in Up[d] : c \in Dir \ {Root} /\ Parent[c] = e
      OBVIOUS
    <2>1. CASE e = Parent[d]
      BY <2>1, UpStep
    <2>2. CASE e # Parent[d]
      BY <1>2, <2>2, UpStep, TreeAssumption
    <2> QED BY <2>1, <2>2
  <1> HIDE DEF P
  <1>3. P = Dir
    BY <1>1, <1>2, TreeInduction DEF P
  <1> QED BY <1>3 DEF P

\* No directory is above its parent, or there would be a way up that misses the root.
LEMMA NotAboveParent == \A d \in Dir \ {Root} : d \notin Up[Parent[d]]
  <1> DEFINE S == {d \in Dir \ {Root} : d \in Up[Parent[d]]}
  <1>1. \A d \in S : Parent[d] \in S
    <2> SUFFICES ASSUME NEW d \in S PROVE Parent[d] \in S
      OBVIOUS
    <2>1. Parent[d] \in Dir \ {Root}
      BY UpStep, TreeAssumption
    <2>2. d # Parent[d]
      <3> SUFFICES ASSUME d = Parent[d] PROVE FALSE
        OBVIOUS
      <3>1. {d} \in SUBSET Dir /\ {d} # {} /\ \A x \in {d} : Parent[x] \in {d}
        OBVIOUS
      <3> QED BY <3>1, TreeAssumption
    <2>3. d \in Up[Parent[Parent[d]]] /\ Parent[d] \in Up[d]
      BY <2>1, <2>2, UpStep
    <2>4. Parent[Parent[d]] \in Dir
      BY <2>1, TreeAssumption
    <2>5. Parent[d] \in Up[Parent[Parent[d]]]
      BY <2>3, <2>4, UpTransitive
    <2> QED BY <2>1, <2>5
  <1>2. S \in SUBSET Dir /\ Root \notin S
    OBVIOUS
  <1> HIDE DEF S
  <1>3. S = {}
    BY <1>1, <1>2, TreeAssumption
  <1> QED BY <1>3 DEF S

\* Two directories are not each above the other.
LEMMA UpAntisymmetric == \A d, e \in Dir : d \in Up[e] /\ e \in Up[d] => d = e
  <1> SUFFICES ASSUME NEW d \in Dir, NEW e \in Dir, d \in Up[e], e \in Up[d], d # e
               PROVE  FALSE
    OBVIOUS
  <1>1. d # Root /\ e \in Up[Parent[d]] /\ Parent[d] \in Dir
    BY UpStep, TreeAssumption
  <1>2. d \in Up[Parent[d]]
    BY <1>1, UpTransitive
  <1> QED BY <1>1, <1>2, NotAboveParent

-----------------------------------------------------------------------------
(* Sums.                                                                   *)

\* A set of naturals that is not empty has a least element.
LEMMA LeastNatural ==
    ASSUME NEW T \in SUBSET Nat, T # {}
    PROVE  \E n \in T : \A m \in T : n <= m
  <1> DEFINE R == OpToRel(<, Nat)
  <1>1. \A a, b \in Nat : a < b => <<a, b>> \in R
    BY DEF OpToRel
  <1>2. IsWellFoundedOn(R, Nat)
    BY NatLessThanWellFounded
  <1> HIDE DEF R
  <1>3. PICK n \in T : \A m \in T : ~(<<m, n>> \in R)
    BY <1>2, WFMin
  <1>4. \A m \in T : ~(m < n)
    BY <1>1, <1>3, Zenon
  <1> QED BY <1>4

\* What holds of a set of directories when it holds of all smaller ones holds of all.
LEMMA SetInduction ==
    ASSUME NEW D, IsFiniteSet(D), NEW P \in SUBSET SUBSET D,
           \A S \in SUBSET D :
               (\A T \in SUBSET D : Cardinality(T) < Cardinality(S) => T \in P) => S \in P
    PROVE  P = SUBSET D
  <1> SUFFICES ASSUME (SUBSET D) \ P # {} PROVE FALSE
    OBVIOUS
  <1> DEFINE N == {Cardinality(S) : S \in (SUBSET D) \ P}
  <1>1. \A S \in SUBSET D : Cardinality(S) \in Nat
    BY FS_Subset, FS_CardinalityType
  <1>2. N \in SUBSET Nat /\ N # {}
    BY <1>1
  <1>3. PICK n \in N : \A m \in N : n <= m
    <2> HIDE DEF N
    <2> QED BY <1>2, LeastNatural
  <1>4. PICK S \in (SUBSET D) \ P : n = Cardinality(S)
    BY <1>3
  <1>5. ASSUME NEW T \in SUBSET D, Cardinality(T) < Cardinality(S), T \notin P
        PROVE  FALSE
    <2>1. Cardinality(T) \in N /\ Cardinality(T) \in Nat /\ Cardinality(S) \in Nat
      BY <1>1, <1>5
    <2>2. n <= Cardinality(T)
      BY <1>3, <2>1
    <2> QED BY <1>4, <1>5, <2>1, <2>2
  <1> QED BY <1>4, <1>5

\* The element a fold takes first.
First(S) == CHOOSE x \in S : TRUE

\* Adding up in that order has a solution for all sets of directories at once.
Adds(g, f, D) ==
    \A S \in SUBSET D : g[S] = IF S = {} THEN 0 ELSE f[First(S)] + g[S \ {First(S)}]

\* It is an element of the set.
LEMMA FirstIsIn == \A S : S # {} => First(S) \in S
  BY DEF First

\* Without an element a set is smaller.
LEMMA SmallerSet ==
    ASSUME NEW D, IsFiniteSet(D), NEW S \in SUBSET D, NEW x \in S
    PROVE  /\ S \ {x} \in SUBSET D
           /\ Cardinality(S \ {x}) = Cardinality(S) - 1
           /\ Cardinality(S) \in Nat /\ Cardinality(S \ {x}) \in Nat
  <1>1. IsFiniteSet(S)
    BY FS_Subset
  <1> QED BY <1>1, FS_RemoveElement, FS_CardinalityType

\* There is one, by induction over the size up to which it is right.
LEMMA AddsExists ==
    ASSUME NEW D, IsFiniteSet(D), NEW f, \A d \in D : f[d] \in Nat
    PROVE  \E g \in [SUBSET D -> Nat] : Adds(g, f, D)
  <1> DEFINE Upto(n) == {S \in SUBSET D : Cardinality(S) <= n}
             Part(g, n) == \A S \in Upto(n) :
                   g[S] = IF S = {} THEN 0 ELSE f[First(S)] + g[S \ {First(S)}]
             Bad == {n \in Nat : ~ \E g \in [SUBSET D -> Nat] : Part(g, n)}
  <1>1. 0 \notin Bad
    <2> DEFINE g == [S \in SUBSET D |-> 0]
    <2>1. \A S \in Upto(0) : S = {}
      <3> SUFFICES ASSUME NEW S \in Upto(0) PROVE S = {}
        OBVIOUS
      <3>1. IsFiniteSet(S) /\ Cardinality(S) \in Nat
        BY FS_Subset, FS_CardinalityType
      <3> QED BY <3>1, FS_EmptySet
    <2>2. g \in [SUBSET D -> Nat] /\ Part(g, 0)
      BY <2>1
    <2> QED BY <2>2
  <1>2. ASSUME NEW n \in Nat, n \notin Bad
        PROVE  n + 1 \notin Bad
    <2>1. PICK g \in [SUBSET D -> Nat] : Part(g, n)
      BY <1>2
    <2> DEFINE h == [S \in SUBSET D |->
                       IF Cardinality(S) <= n THEN g[S]
                       ELSE IF S = {} THEN 0 ELSE f[First(S)] + g[S \ {First(S)}]]
    <2>2. h \in [SUBSET D -> Nat]
      <3> SUFFICES ASSUME NEW S \in SUBSET D, S # {}
                   PROVE  f[First(S)] + g[S \ {First(S)}] \in Nat
        OBVIOUS
      <3>1. f[First(S)] \in Nat /\ g[S \ {First(S)}] \in Nat
        BY FirstIsIn
      <3> QED BY <3>1
    <2>3. Part(h, n + 1)
      <3> SUFFICES ASSUME NEW S \in SUBSET D, Cardinality(S) <= n + 1
                   PROVE h[S] = IF S = {} THEN 0 ELSE f[First(S)] + h[S \ {First(S)}]
        OBVIOUS
      <3>1. CASE S = {}
        <4>1. Cardinality(S) = 0
          BY <3>1, FS_EmptySet
        <4> QED BY <2>1, <3>1, <4>1
      <3>2. CASE S # {}
        <4>1. First(S) \in S
          BY <3>2, FirstIsIn
        <4>2. /\ S \ {First(S)} \in SUBSET D /\ Cardinality(S \ {First(S)}) = Cardinality(S) - 1
              /\ Cardinality(S) \in Nat
          BY <4>1, SmallerSet
        <4>3. h[S \ {First(S)}] = g[S \ {First(S)}]
          BY <4>2
        <4>4. h[S] = f[First(S)] + g[S \ {First(S)}]
          <5>1. CASE Cardinality(S) <= n
            BY <2>1, <3>2, <5>1
          <5> QED BY <3>2, <5>1
        <4> QED BY <3>2, <4>3, <4>4
      <3> QED BY <3>1, <3>2
    <2> QED BY <2>2, <2>3
  <1>3. Bad = {}
    <2> HIDE DEF Bad
    <2> SUFFICES ASSUME Bad # {} PROVE FALSE
      OBVIOUS
    <2>0. Bad \in SUBSET Nat
      BY DEF Bad
    <2>1. PICK n \in Bad : \A m \in Bad : n <= m
      BY <2>0, LeastNatural
    <2>2. n # 0 /\ n \in Nat
      BY <1>1, <2>0
    <2>3. n - 1 \in Nat /\ n - 1 \notin Bad
      BY <2>1, <2>2
    <2>4. (n - 1) + 1 \notin Bad
      BY <1>2, <2>3
    <2> QED BY <2>1, <2>2, <2>4
  <1>4. PICK g \in [SUBSET D -> Nat] : Part(g, Cardinality(D))
    <2>1. Cardinality(D) \in Nat
      BY FS_CardinalityType
    <2> QED BY <1>3, <2>1
  <1>5. \A S \in SUBSET D : S \in Upto(Cardinality(D))
    BY FS_Subset
  <1> QED BY <1>4, <1>5 DEF Adds

\* There is one solution only.
LEMMA AddsUnique ==
    ASSUME NEW D, IsFiniteSet(D), NEW E \in SUBSET D, NEW f, NEW g, NEW h,
           Adds(g, f, D), Adds(h, f, E)
    PROVE  \A S \in SUBSET E : h[S] = g[S]
  <1> DEFINE P == {S \in SUBSET E : h[S] = g[S]}
  <1>0. IsFiniteSet(E)
    BY FS_Subset
  <1>1. ASSUME NEW S \in SUBSET E,
               \A T \in SUBSET E : Cardinality(T) < Cardinality(S) => T \in P
        PROVE  S \in P
    <2>1. CASE S = {}
      BY <2>1 DEF Adds
    <2>2. CASE S # {}
      <3>1. First(S) \in S
        BY <2>2, FirstIsIn
      <3>2. S \ {First(S)} \in P
        BY <1>0, <1>1, <3>1, SmallerSet
      <3> QED BY <2>2, <3>2 DEF Adds
    <2> QED BY <2>1, <2>2
  <1>2. P \in SUBSET SUBSET E
    OBVIOUS
  <1> HIDE DEF P
  <1>3. P = SUBSET E
    BY <1>0, <1>1, <1>2, SetInduction
  <1> QED BY <1>3 DEF P

\* Sum adds up in that order.
LEMMA SumAdds ==
    ASSUME NEW D, IsFiniteSet(D), NEW f, \A d \in D : f[d] \in Nat
    PROVE  /\ \A S \in SUBSET D : Sum(f, S) \in Nat
           /\ \A S \in SUBSET D :
                 Sum(f, S) = IF S = {} THEN 0 ELSE f[First(S)] + Sum(f, S \ {First(S)})
  <1>1. PICK g \in [SUBSET D -> Nat] : Adds(g, f, D)
    BY AddsExists
  <1>2. ASSUME NEW S \in SUBSET D
        PROVE  Sum(f, S) = g[S]
    <2> DEFINE Def(k) == [T \in SUBSET S |-> IF T = {} THEN 0 ELSE f[First(T)] + k[T \ {First(T)}]]
    <2> DEFINE it == CHOOSE k : k = Def(k)
    <2>1. Sum(f, S) = it[S]
      BY DEF Sum, MapThenSumSet, MapThenFoldSet, First
    <2>2. [T \in SUBSET S |-> g[T]] = Def([T \in SUBSET S |-> g[T]])
      <3> SUFFICES ASSUME NEW T \in SUBSET S
                   PROVE  g[T] = IF T = {} THEN 0
                                 ELSE f[First(T)] + [U \in SUBSET S |-> g[U]][T \ {First(T)}]
        OBVIOUS
      <3>1. T \ {First(T)} \in SUBSET S
        OBVIOUS
      <3> QED BY <1>1, <3>1 DEF Adds
    <2>3. it = Def(it)
      <3> HIDE DEF Def
      <3> QED BY <2>2
    <2> HIDE DEF it
    <2>4. Adds(it, f, S)
      BY <2>3 DEF Adds
    <2>5. \A T \in SUBSET S : it[T] = g[T]
      BY <1>1, <2>4, AddsUnique
    <2>6. S \in SUBSET S
      OBVIOUS
    <2> QED BY <2>1, <2>5, <2>6
  <1>3. ASSUME NEW S \in SUBSET D
        PROVE  Sum(f, S) = IF S = {} THEN 0 ELSE f[First(S)] + Sum(f, S \ {First(S)})
    <2>1. S \ {First(S)} \in SUBSET D
      OBVIOUS
    <2>2. g[S] = IF S = {} THEN 0 ELSE f[First(S)] + g[S \ {First(S)}]
      BY <1>1 DEF Adds
    <2> QED BY <1>2, <2>1, <2>2
  <1> QED BY <1>2, <1>3

\* One more element adds its number, whatever the order.
LEMMA SumAdd ==
    ASSUME NEW D, IsFiniteSet(D), NEW f, \A d \in D : f[d] \in Nat,
           NEW S \in SUBSET D, NEW x \in D \ S
    PROVE  Sum(f, S \cup {x}) = Sum(f, S) + f[x]
  <1> DEFINE P == {T \in SUBSET D : \A y \in D \ T : Sum(f, T \cup {y}) = Sum(f, T) + f[y]}
  <1>1. ASSUME NEW T \in SUBSET D,
               \A U \in SUBSET D : Cardinality(U) < Cardinality(T) => U \in P
        PROVE  T \in P
    <2> SUFFICES ASSUME NEW y \in D \ T
                 PROVE  Sum(f, T \cup {y}) = Sum(f, T) + f[y]
      OBVIOUS
    <2> PICK V : V = T \cup {y}
      OBVIOUS
    <2> PICK c : c = First(V)
      OBVIOUS
    <2>1. c \in V
      BY FirstIsIn
    <2>2. Sum(f, V) = f[c] + Sum(f, V \ {c})
      <3>1. V \in SUBSET D /\ V # {}
        OBVIOUS
      <3>2. \A S1 \in SUBSET D :
               Sum(f, S1) = IF S1 = {} THEN 0 ELSE f[First(S1)] + Sum(f, S1 \ {First(S1)})
        BY SumAdds
      <3> QED BY <3>1, <3>2
    <2>3. CASE c = y
      <3>1. V \ {c} = T
        BY <2>3
      <3>2. f[y] \in Nat /\ Sum(f, T) \in Nat
        BY SumAdds
      <3>3. Sum(f, V) = f[y] + Sum(f, T)
        BY <2>2, <2>3, <3>1
      <3> QED BY <3>2, <3>3
    <2>4. CASE c # y
      <3>1. c \in T
        BY <2>1, <2>4
      <3> PICK U : U = T \ {c}
        OBVIOUS
      <3>2. V \ {c} = U \cup {y} /\ T = U \cup {c} /\ y \in D \ U /\ c \in D \ U /\ U \in SUBSET D
        BY <2>4, <3>1
      <3>3. U \in P
        <4>1. Cardinality(U) < Cardinality(T)
          <5>1. Cardinality(T \ {c}) = Cardinality(T) - 1 /\ Cardinality(T) \in Nat
            BY <3>1, SmallerSet
          <5> QED BY <5>1
        <4> QED BY <1>1, <3>2, <4>1
      <3>4. Sum(f, U \cup {y}) = Sum(f, U) + f[y] /\ Sum(f, U \cup {c}) = Sum(f, U) + f[c]
        BY <3>2, <3>3
      <3>5. Sum(f, U) \in Nat /\ f[y] \in Nat /\ f[c] \in Nat
        BY <3>2, SumAdds
      <3>6. Sum(f, V) = f[c] + (Sum(f, U) + f[y])
        BY <2>2, <3>2, <3>4
      <3>7. Sum(f, T) = Sum(f, U) + f[c]
        BY <3>2, <3>4
      <3> QED BY <3>5, <3>6, <3>7
    <2> QED BY <2>3, <2>4
  <1>2. P \in SUBSET SUBSET D
    OBVIOUS
  <1> HIDE DEF P
  <1>3. P = SUBSET D
    BY <1>1, <1>2, SetInduction
  <1> QED BY <1>3 DEF P

\* The sum depends on the numbers of the set's elements only.
LEMMA SumAgrees ==
    ASSUME NEW D, IsFiniteSet(D), NEW f, NEW h, \A d \in D : f[d] \in Nat /\ h[d] = f[d]
    PROVE  Sum(h, D) = Sum(f, D)
  <1> DEFINE P == {T \in SUBSET D : Sum(h, T) = Sum(f, T)}
  <1>0. (\A d \in D : f[d] \in Nat) /\ (\A d \in D : h[d] \in Nat)
    OBVIOUS
  <1>1. ASSUME NEW T \in SUBSET D,
               \A U \in SUBSET D : Cardinality(U) < Cardinality(T) => U \in P
        PROVE  T \in P
    <2>1. Sum(f, T) = IF T = {} THEN 0 ELSE f[First(T)] + Sum(f, T \ {First(T)})
      BY <1>0, SumAdds
    <2>2. Sum(h, T) = IF T = {} THEN 0 ELSE h[First(T)] + Sum(h, T \ {First(T)})
      BY <1>0, SumAdds
    <2>3. CASE T # {}
      <3>1. First(T) \in T
        BY <2>3, FirstIsIn
      <3>2. T \ {First(T)} \in P
        BY <1>1, <3>1, SmallerSet
      <3> QED BY <2>1, <2>2, <3>1, <3>2
    <2> QED BY <2>1, <2>2, <2>3
  <1>2. P \in SUBSET SUBSET D
    OBVIOUS
  <1> HIDE DEF P
  <1>3. P = SUBSET D
    BY <1>1, <1>2, SetInduction
  <1> QED BY <1>3 DEF P

\* Nothing to add up.
LEMMA SumOfNothing == \A f : Sum(f, {}) = 0
  <1> SUFFICES ASSUME NEW f PROVE Sum(f, {}) = 0
    OBVIOUS
  <1> QED BY SumAdds, FS_EmptySet

\* A number is part of the sum.
LEMMA SumWithout ==
    ASSUME NEW D, IsFiniteSet(D), NEW f \in [D -> Nat], NEW d \in D
    PROVE  Sum(f, D) = Sum(f, D \ {d}) + f[d] /\ Sum(f, D \ {d}) \in Nat
  <1> PICK R : R = D \ {d}
    OBVIOUS
  <1>1. R \in SUBSET D /\ d \in D \ R /\ R \cup {d} = D
    OBVIOUS
  <1>2. \A e \in D : f[e] \in Nat
    OBVIOUS
  <1>3. Sum(f, R \cup {d}) = Sum(f, R) + f[d]
    BY <1>1, <1>2, SumAdd
  <1>4. Sum(f, R) \in Nat
    BY <1>1, <1>2, SumAdds
  <1> QED BY <1>1, <1>3, <1>4

\* A number that changes changes the sum by as much.
LEMMA SumChanges ==
    ASSUME NEW D, IsFiniteSet(D), NEW f \in [D -> Nat], NEW h \in [D -> Nat], NEW d \in D,
           \A e \in D \ {d} : h[e] = f[e]
    PROVE  Sum(h, D) = (Sum(f, D) - f[d]) + h[d] /\ Sum(f, D) \in Nat /\ f[d] <= Sum(f, D)
  <1> PICK R : R = D \ {d}
    OBVIOUS
  <1>1. Sum(f, D) = Sum(f, R) + f[d] /\ Sum(f, R) \in Nat
    BY SumWithout
  <1>2. Sum(h, D) = Sum(h, R) + h[d]
    BY SumWithout
  <1>3. Sum(h, R) = Sum(f, R)
    <2>1. IsFiniteSet(R)
      BY FS_Subset
    <2>2. \A e \in R : f[e] \in Nat /\ h[e] = f[e]
      OBVIOUS
    <2> QED BY <2>1, <2>2, SumAgrees
  <1>4. f[d] \in Nat /\ h[d] \in Nat
    OBVIOUS
  <1>5. Sum(h, D) = (Sum(f, D) - f[d]) + h[d]
    BY <1>1, <1>2, <1>3, <1>4
  <1>6. Sum(f, D) \in Nat /\ f[d] <= Sum(f, D)
    BY <1>1, <1>4
  <1> QED BY <1>5, <1>6

\* Zeros add up to zero.
LEMMA SumOfZeros == \A D : IsFiniteSet(D) => Sum([d \in D |-> 0], D) = 0
  <1> SUFFICES ASSUME NEW D, IsFiniteSet(D), NEW f, f = [d \in D |-> 0] PROVE Sum(f, D) = 0
    OBVIOUS
  <1> DEFINE P == {S \in SUBSET D : Sum(f, S) = 0}
  <1>1. ASSUME NEW S \in SUBSET D,
               \A T \in SUBSET D : Cardinality(T) < Cardinality(S) => T \in P
        PROVE  S \in P
    <2>1. Sum(f, S) = IF S = {} THEN 0 ELSE f[First(S)] + Sum(f, S \ {First(S)})
      <3>1. \A d \in D : f[d] \in Nat
        OBVIOUS
      <3> QED BY <3>1, SumAdds
    <2>2. CASE S # {}
      <3>1. First(S) \in S
        BY <2>2, FirstIsIn
      <3>2. S \ {First(S)} \in P
        BY <1>1, <3>1, SmallerSet
      <3> QED BY <2>1, <2>2, <3>1, <3>2
    <2> QED BY <2>1, <2>2
  <1>2. P \in SUBSET SUBSET D
    OBVIOUS
  <1> HIDE DEF P
  <1>3. P = SUBSET D
    BY <1>1, <1>2, SetInduction
  <1> QED BY <1>3 DEF P

-----------------------------------------------------------------------------
(* The invariant, part by part.                                            *)

\* How a walk of the directories in B goes: whoever has been seen or is to be visited comes
\* after all those above him.
Shape(left, seen, B) ==
    /\ left \subseteq B /\ seen \subseteq B /\ left \cap seen = {}
    /\ \A d \in seen : Up[d] \cap B \subseteq seen
    /\ \A d \in left : (Up[d] \cap B) \ {d} \subseteq seen

\* What has not been seen is, or is below, something to be visited.
Covered(left, seen, B) == \A d \in exists \cap B : d \in seen \/ Up[d] \cap left # {}

\* The directories that are there make a tree; what is not there is empty.
TreeIInv ==
    /\ exists \subseteq Dir /\ Root \in exists
    /\ \A d \in exists : Up[d] \subseteq exists
    /\ files \in [Dir -> 0 .. MaxFiles] /\ version \in [Dir -> Nat]
    /\ \A d \in Dir \ exists : files[d] = 0

\* The walk of a directory, and a walk that warms the cache.
Walk == [on : BOOLEAN, left : SUBSET Dir, seen : SUBSET Dir, count : Nat, failed : BOOLEAN,
         raced : BOOLEAN, written : BOOLEAN]
WarmWalk == [on : BOOLEAN, left : SUBSET Dir, seen : SUBSET Dir, found : [Dir -> Nat],
             sig : [Dir -> Nat], raced : SUBSET Dir, errors : SUBSET Dir, written : SUBSET Dir]

\* The types of the cache; no entry has a signature of a directory to come.
CacheIInv ==
    /\ cache \in [Dir -> Entry]
    /\ saved \in [Dir -> Nat \cup {-1}]
    /\ \A d \in Dir : cache[d].sig <= version[d]
    /\ \A d \in Dir : cache[d].state = "ready" => cache[d].known

\* The types of the work, and who is at it.
WorkIInv ==
    /\ walk \in [Dir -> Walk] /\ warm \in [Warmers -> WarmWalk]
    /\ queue \in Seq(Dir) /\ Len(queue) <= QueueSize
    /\ working \in [Dir -> Nat]
    /\ \A d \in Dir : walk[d].on <=> working[d] > 0
    /\ Sum(working, Dir) <= Workers
    /\ toMark \subseteq Dir /\ toEnqueue \subseteq Dir

\* As long as a walk has not written and is neither failed nor raced, it has counted what it
\* has seen, all of which is still there, and will see the rest.
WalkIsRight(d) ==
    /\ Shape(walk[d].left, walk[d].seen, Below(d))
    /\ walk[d].on /\ ~walk[d].written /\ ~walk[d].failed /\ ~walk[d].raced =>
          /\ d \in walk[d].left \cup walk[d].seen
          /\ walk[d].seen \subseteq exists
          /\ walk[d].count = Sum(files, walk[d].seen)
          /\ Covered(walk[d].left, walk[d].seen, Below(d))

WalkIInv == \A d \in Dir : WalkIsRight(d)

\* The same of the part of a walk that warms the cache that is below d.
WarmIsRight(u, d) ==
    /\ warm[u].seen \cap Below(d) \subseteq exists
    /\ warm[u].found[d] = Sum(files, warm[u].seen \cap Below(d))
    /\ Covered(warm[u].left, warm[u].seen, Below(d))

\* It holds for every directory it has met whose signature is the same and that is neither
\* raced nor above an error.
WarmerIsRight(u) ==
    /\ Shape(warm[u].left, warm[u].seen, Dir)
    /\ \A d \in Dir : warm[u].sig[d] <= version[d]
    /\ \A d \in Dir \ warm[u].seen : warm[u].found[d] = 0
    /\ \A d \in (warm[u].seen \cap exists) \ (warm[u].raced \cup warm[u].errors) :
          warm[u].sig[d] = version[d] => WarmIsRight(u, d)

WarmIInv == \A u \in Warmers : WarmerIsRight(u)

-----------------------------------------------------------------------------
(* The shape of a walk.                                                    *)

\* What is below a directory: itself, and with each directory its children.
LEMMA BelowFacts ==
    \A d \in Dir : /\ Below(d) \subseteq Dir /\ d \in Below(d)
                   /\ \A c \in Dir \ {Root} : Parent[c] \in Below(d) => c \in Below(d)
                   /\ \A c \in Dir : c \in Below(d) <=> d \in Up[c]
  BY UpStep DEF Below

\* No directory is its own child, and a child's way up is its parent's and itself.
LEMMA ChildFacts ==
    \A c \in Dir \ {Root} : c # Parent[c] /\ Up[c] = {c} \cup Up[Parent[c]] /\ Parent[c] \in Up[c]
  BY UpStep, NotAboveParent, TreeAssumption

\* A walk that replaces a directory by children of it keeps its shape.
LEMMA ShapeGrows ==
    ASSUME NEW B \in SUBSET Dir, \A c \in Dir \ {Root} : Parent[c] \in B => c \in B,
           NEW left, NEW seen, Shape(left, seen, B), NEW e \in left,
           NEW C \in SUBSET {c \in Dir \ {Root} : Parent[c] = e}
    PROVE  Shape((left \ {e}) \cup C, seen \cup {e}, B)
  <1>0. e \in B /\ e \in Dir /\ e \notin seen
    BY DEF Shape
  <1>1. \A c \in C : c \in B /\ c # e /\ Up[c] = {c} \cup Up[e] /\ e \in Up[c]
    BY <1>0, ChildFacts
  <1>2. \A c \in C : c \notin seen
    BY <1>0, <1>1 DEF Shape
  <1>3. Up[e] \cap B \subseteq seen \cup {e}
    BY DEF Shape
  <1>4. \A d \in C : (Up[d] \cap B) \ {d} \subseteq seen \cup {e}
    BY <1>1, <1>3
  <1>5. \A d \in left \ {e} : (Up[d] \cap B) \ {d} \subseteq seen \cup {e}
    BY DEF Shape
  <1>6. \A d \in seen \cup {e} : Up[d] \cap B \subseteq seen \cup {e}
    BY <1>3 DEF Shape
  <1> QED BY <1>0, <1>1, <1>2, <1>4, <1>5, <1>6 DEF Shape

\* What a walk still has to come to stays covered when it goes on to all the children.
LEMMA CoverGrows ==
    ASSUME TreeIInv, NEW left, NEW e \in left, NEW x \in exists, x # e, Up[x] \cap left # {}
    PROVE  Up[x] \cap ((left \ {e}) \cup Children(e)) # {}
  <1> PICK l \in Up[x] : l \in left
    OBVIOUS
  <1>1. CASE l = e
    <2>1. x \in Dir /\ e \in Up[x] \ {x}
      BY <1>1 DEF TreeIInv
    <2>2. PICK c \in Up[x] : c \in Dir \ {Root} /\ Parent[c] = e
      BY <2>1, ThroughChild
    <2>3. c \in Children(e)
      BY <2>2 DEF TreeIInv, Children
    <2> QED BY <2>2, <2>3
  <1> QED BY <1>1

-----------------------------------------------------------------------------
(* The tree.                                                               *)

\* The walks that warm the cache touch nothing but the cache.
LEMMA WarmsKeep ==
    ASSUME NEW u \in Warmers, Warms(u) \/ ClearCache(u)
    PROVE  UNCHANGED <<exists, files, version, queue, working, walk, toMark, toEnqueue, saved>>
  <1> USE DEF tree, work, calls
  <1>1. ASSUME NEW d \in Dir, WarmVisit(u, d)
        PROVE  UNCHANGED <<exists, files, version, queue, working, walk, toMark, toEnqueue, saved>>
    BY <1>1 DEF WarmVisit
  <1>2. ASSUME NEW d \in Dir, WarmPopulates(u, d)
        PROVE  UNCHANGED <<exists, files, version, queue, working, walk, toMark, toEnqueue, saved>>
    BY <1>2 DEF WarmPopulates
  <1>3. CASE WarmPrunes(u)
    BY <1>3 DEF WarmPrunes
  <1>4. CASE ClearCache(u)
    BY <1>4 DEF ClearCache
  <1> QED BY <1>1, <1>2, <1>3, <1>4 DEF Warms

\* Only changes from outside touch the tree.
LEMMA OnlyChangesChange == [Next]_vars => Changes \/ UNCHANGED tree
  <1> SUFFICES ASSUME [Next]_vars, ~Changes PROVE UNCHANGED tree
    OBVIOUS
  <1> USE DEF tree
  <1>1. CASE Take \/ \E d \in Dir : \/ Visit(d) \/ VisitFails(d) \/ Succeeds(d) \/ Fails(d) \/ Returns(d)
                                     \/ InvalidateCache(d) \/ Enqueue(d)
    BY <1>1 DEF Take, Visit, VisitFails, Succeeds, Fails, Writes, Returns, InvalidateCache, Enqueue
  <1>2. CASE \E d \in Dir : GetDirCount(d) \/ Reconcile(d)
    BY <1>2 DEF GetDirCount, Reconcile
  <1>3. CASE \E u \in Warmers : Warms(u) \/ ClearCache(u)
    BY <1>3, WarmsKeep
  <1>4. CASE Export \/ Restart \/ UNCHANGED vars
    BY <1>4 DEF Export, Restart, vars
  <1> QED BY <1>1, <1>2, <1>3, <1>4 DEF Next, Goes

\* It remains a tree, and directories that have gone hold nothing.
LEMMA TreeStep == TreeIInv /\ [Next]_vars => TreeIInv'
  <1> SUFFICES ASSUME TreeIInv, [Next]_vars PROVE TreeIInv'
    OBVIOUS
  <1>1. CASE UNCHANGED tree
    BY <1>1 DEF tree, TreeIInv
  <1>2. ASSUME NEW d \in Dir, FilesChange(d) \/ JobReplaces(d)
        PROVE  TreeIInv'
    <2>1. exists' = exists /\ d \in exists
      BY <1>2 DEF FilesChange, JobReplaces, Refill
    <2>2. files' \in [Dir -> 0 .. MaxFiles] /\ \A e \in Dir \ exists : files'[e] = 0
      BY <1>2, BoundsAssumption DEF FilesChange, JobReplaces, Refill, TreeIInv
    <2>3. version' \in [Dir -> Nat]
      BY <1>2 DEF FilesChange, JobReplaces, Refill, TreeIInv
    <2> QED BY <2>1, <2>2, <2>3 DEF TreeIInv
  <1>3. ASSUME NEW d \in Dir, RemoveDir(d)
        PROVE  TreeIInv'
    <2>1. exists' \subseteq Dir /\ Root \in exists'
      BY <1>3, UpStep, TreeAssumption DEF RemoveDir, TreeIInv, Below
    <2>2. \A e \in exists' : Up[e] \subseteq exists'
      BY <1>3, UpTransitive, UpInDir DEF RemoveDir, TreeIInv, Below
    <2>3. files' \in [Dir -> 0 .. MaxFiles] /\ \A e \in Dir \ exists' : files'[e] = 0
      BY <1>3, BoundsAssumption DEF RemoveDir, TreeIInv
    <2>4. version' \in [Dir -> Nat]
      BY <1>3 DEF RemoveDir, TreeIInv
    <2> QED BY <2>1, <2>2, <2>3, <2>4 DEF TreeIInv
  <1>4. ASSUME NEW d \in Dir, MakeDir(d)
        PROVE  TreeIInv'
    <2>1. exists' = exists \cup {d} /\ d # Root /\ Parent[d] \in exists /\ files' = files
      BY <1>4 DEF MakeDir, TreeIInv
    <2>2. \A e \in exists' : Up[e] \subseteq exists'
      BY <2>1, UpStep DEF TreeIInv
    <2>3. version' \in [Dir -> Nat]
      BY <1>4, TreeAssumption DEF MakeDir, TreeIInv
    <2> QED BY <2>1, <2>2, <2>3 DEF TreeIInv
  <1> QED BY <1>1, <1>2, <1>3, <1>4, OnlyChangesChange DEF Changes

\* Versions only grow.
LEMMA VersionGrows == TreeIInv /\ [Next]_vars => \A d \in Dir : version[d] <= version'[d]
  <1> SUFFICES ASSUME TreeIInv, [Next]_vars, NEW e \in Dir PROVE version[e] <= version'[e]
    OBVIOUS
  <1>0. version \in [Dir -> Nat]
    BY DEF TreeIInv
  <1>1. CASE UNCHANGED tree
    BY <1>0, <1>1 DEF tree
  <1>2. ASSUME NEW d \in Dir, FilesChange(d) \/ JobReplaces(d)
        PROVE  version[e] <= version'[e]
    BY <1>0, <1>2 DEF FilesChange, JobReplaces, Refill
  <1>3. ASSUME NEW d \in Dir, RemoveDir(d)
        PROVE  version[e] <= version'[e]
    BY <1>0, <1>3 DEF RemoveDir
  <1>4. ASSUME NEW d \in Dir, MakeDir(d)
        PROVE  version[e] <= version'[e]
    BY <1>0, <1>4, TreeAssumption DEF MakeDir
  <1> QED BY <1>1, <1>2, <1>3, <1>4, OnlyChangesChange DEF Changes

-----------------------------------------------------------------------------
(* The entries.                                                            *)

\* What one step may make of an entry: leave it, note that it may be wrong, take its count
\* out of use, replace it by what a walk found, forget it, or go back to what was saved.
Kept(e)     == \E b \in BOOLEAN : (cache[e].raced => b) /\ cache'[e] = [cache[e] EXCEPT !.raced = b]
Unready(e)  == \E s \in {"unknown", "stale", "error"} : cache'[e] = Becomes(cache[e], s)
Walked(e)   == /\ Succeeds(e)
               /\ cache'[e] = [state |-> "ready", count |-> walk[e].count, known |-> TRUE,
                               sig |-> version[e], raced |-> walk[e].raced]
Warmed(e)   == \E u \in Warmers : WarmPopulates(u, e) /\ cache'[e] = Found(u, e)
Pruned(e)   == /\ \E u \in Warmers : WarmPrunes(u) /\ e \notin warm[u].seen /\ warm[u].errors = {}
               /\ cache'[e] = Absent
Restored(e) == /\ Restart
               /\ cache'[e] = IF saved[e] = -1 THEN Absent
                              ELSE [Becomes(Absent, "stale")
                                      EXCEPT !.count = saved[e], !.known = TRUE]

\* Marking an entry leaves it or takes it out of use.
LEMMA MarkedCases == \A entry : Marked(entry) = entry \/ Marked(entry) = Becomes(entry, "stale")
  BY DEF Marked

\* No step does anything else to an entry.
LEMMA EntryStep ==
    ASSUME CacheIInv, WorkIInv, [Next]_vars, NEW e \in Dir
    PROVE  \/ cache'[e] = cache[e] \/ Kept(e) \/ Unready(e) \/ Walked(e) \/ Warmed(e)
           \/ Pruned(e) \/ Restored(e)
  <1>0. cache \in [Dir -> Entry] /\ cache[e].raced \in BOOLEAN
    BY DEF CacheIInv, Entry
  <1>1. CASE UNCHANGED cache
    BY <1>1
  <1>2. ASSUME NEW d \in Dir, Unannounced(d)
        PROVE  Kept(e)
    <2>1. cache'[e] = [cache[e] EXCEPT !.raced = cache[e].raced \/ (Fresh(e) /\ e \in Up[d] \ {d})]
      BY <1>2 DEF Unannounced
    <2> PICK b \in BOOLEAN : b = (cache[e].raced \/ (Fresh(e) /\ e \in Up[d] \ {d}))
      OBVIOUS
    <2>2. cache[e].raced => b
      OBVIOUS
    <2>3. cache'[e] = [cache[e] EXCEPT !.raced = b]
      BY <2>1
    <2> QED BY <2>2, <2>3 DEF Kept
  <1>3. ASSUME NEW d \in Dir, FilesChange(d) \/ RemoveDir(d) \/ MakeDir(d)
        PROVE  Kept(e)
    <2>1. Parent[d] \in Dir
      BY TreeAssumption
    <2> QED BY <1>2, <1>3, <2>1 DEF FilesChange, RemoveDir, MakeDir
  <1>4. CASE Changes
    BY <1>1, <1>3, <1>4 DEF Changes, JobReplaces
  <1>5. ASSUME NEW d \in Dir, GetDirCount(d)
        PROVE  cache'[e] = cache[e] \/ Unready(e)
    BY <1>0, <1>5, MarkedCases DEF GetDirCount, Unready
  <1>6. ASSUME NEW d \in Dir, InvalidateCache(d) \/ Reconcile(d)
        PROVE  cache'[e] = cache[e] \/ Unready(e)
    BY <1>0, <1>6, MarkedCases DEF InvalidateCache, Reconcile, Unready
  <1>7. CASE \E u \in Warmers : ClearCache(u)
    BY <1>0, <1>7, MarkedCases DEF ClearCache, Unready
  <1>8. ASSUME NEW d \in Dir, Succeeds(d)
        PROVE  cache'[e] = cache[e] \/ Walked(e)
    BY <1>0, <1>8 DEF Succeeds, Writes, Walked
  <1>9. ASSUME NEW d \in Dir, Fails(d)
        PROVE  cache'[e] = cache[e] \/ Unready(e)
    BY <1>0, <1>9 DEF Fails, Writes, Unready
  <1>10. ASSUME NEW u \in Warmers, NEW d \in Dir, WarmPopulates(u, d)
         PROVE  cache'[e] = cache[e] \/ Warmed(e)
    BY <1>0, <1>10 DEF WarmPopulates, Warmed
  <1>11. ASSUME NEW u \in Warmers, WarmPrunes(u)
         PROVE  cache'[e] = cache[e] \/ Pruned(e)
    BY <1>0, <1>11 DEF WarmPrunes, Pruned
  <1>12. CASE Restart
    BY <1>12 DEF Restart, Restored
  <1>13. CASE Export
    BY <1>13 DEF Export
  <1>14. CASE Take \/ \E d \in Dir : Visit(d) \/ VisitFails(d) \/ Returns(d) \/ Enqueue(d)
    BY <1>1, <1>14 DEF Take, Visit, VisitFails, Returns, Enqueue
  <1>15. ASSUME NEW u \in Warmers, NEW d \in Dir, WarmVisit(u, d)
         PROVE  cache'[e] = cache[e]
    BY <1>15 DEF WarmVisit
  <1> QED BY <1>1, <1>4, <1>5, <1>6, <1>7, <1>8, <1>9, <1>10, <1>11, <1>12, <1>13, <1>14,
            <1>15
          DEF Next, Goes, Warms, vars

\* The cache has an entry for each directory.
LEMMA CacheIsFunction ==
    cache = [e \in Dir |-> cache[e]] /\ [Next]_vars => cache' = [e \in Dir |-> cache'[e]]
  <1> SUFFICES ASSUME cache = [e \in Dir |-> cache[e]], [Next]_vars
               PROVE  cache' = [e \in Dir |-> cache'[e]]
    OBVIOUS
  <1>1. CASE Changes
    BY <1>1 DEF Changes, FilesChange, JobReplaces, RemoveDir, MakeDir, Unannounced
  <1>2. CASE Take \/ \E d \in Dir : \/ Visit(d) \/ VisitFails(d) \/ Succeeds(d) \/ Fails(d) \/ Returns(d)
                                     \/ InvalidateCache(d) \/ Enqueue(d)
    BY <1>2 DEF Take, Visit, VisitFails, Succeeds, Fails, Writes, Returns, InvalidateCache, Enqueue
  <1>3. CASE \E d \in Dir : GetDirCount(d) \/ Reconcile(d)
    BY <1>3 DEF GetDirCount, Reconcile
  <1>4. ASSUME NEW u \in Warmers, NEW d \in Dir, WarmVisit(u, d) \/ WarmPopulates(u, d)
        PROVE  cache' = [e \in Dir |-> cache'[e]]
    BY <1>4 DEF WarmVisit, WarmPopulates
  <1>5. ASSUME NEW u \in Warmers, WarmPrunes(u) \/ ClearCache(u)
        PROVE  cache' = [e \in Dir |-> cache'[e]]
    BY <1>5 DEF WarmPrunes, ClearCache
  <1>6. CASE Export \/ Restart \/ UNCHANGED vars
    BY <1>6 DEF Export, Restart, vars
  <1> QED BY <1>1, <1>2, <1>3, <1>4, <1>5, <1>6 DEF Next, Goes, Warms

\* Only Export saves.
LEMMA SavedIsKept == [Next]_vars => Export \/ saved' = saved
  <1> SUFFICES ASSUME [Next]_vars, ~Export PROVE saved' = saved
    OBVIOUS
  <1> USE DEF calls
  <1>1. CASE Changes
    BY <1>1 DEF Changes, FilesChange, JobReplaces, RemoveDir, MakeDir
  <1>2. CASE Take \/ \E d \in Dir : \/ Visit(d) \/ VisitFails(d) \/ Succeeds(d) \/ Fails(d) \/ Returns(d)
                                     \/ InvalidateCache(d) \/ Enqueue(d)
    BY <1>2 DEF Take, Visit, VisitFails, Succeeds, Fails, Writes, Returns, InvalidateCache, Enqueue
  <1>3. CASE \E d \in Dir : GetDirCount(d) \/ Reconcile(d)
    BY <1>3 DEF GetDirCount, Reconcile
  <1>4. CASE \E u \in Warmers : Warms(u) \/ ClearCache(u)
    BY <1>4, WarmsKeep
  <1>5. CASE Restart \/ UNCHANGED vars
    BY <1>5 DEF Restart, vars
  <1> QED BY <1>1, <1>2, <1>3, <1>4, <1>5 DEF Next, Goes

\* An entry stays one, and its signature is not of a directory to come.
LEMMA CacheStep ==
    ASSUME TreeIInv, CacheIInv, WorkIInv, WarmIInv, [Next]_vars
    PROVE  CacheIInv'
  <1>1. ASSUME NEW e \in Dir
        PROVE  /\ cache'[e] \in Entry /\ cache'[e].sig <= version'[e]
               /\ cache'[e].state = "ready" => cache'[e].known
    <2>0. /\ cache[e] \in Entry /\ cache[e].sig <= version[e]
          /\ cache[e].state = "ready" => cache[e].known
          /\ saved[e] \in Nat \cup {-1}
      BY DEF CacheIInv
    <2>1. version[e] \in Nat /\ version'[e] \in Nat /\ version[e] <= version'[e]
      BY VersionGrows, TreeStep DEF TreeIInv
    <2>2. CASE cache'[e] = cache[e]
      BY <2>0, <2>1, <2>2 DEF Entry
    <2>3. CASE Kept(e)
      BY <2>0, <2>1, <2>3 DEF Entry, Kept
    <2>4. CASE Unready(e)
      <3> PICK s \in {"unknown", "stale", "error"} : cache'[e] = Becomes(cache[e], s)
        BY <2>4 DEF Unready
      <3> PICK c \in Entry : c = cache[e]
        BY <2>0
      <3>1. Becomes(c, s) \in Entry /\ Becomes(c, s).sig = 0 /\ Becomes(c, s).state = s
        BY DEF Becomes, Entry
      <3>2. cache'[e] = Becomes(c, s)
        OBVIOUS
      <3> QED BY <2>1, <3>1, <3>2
    <2>5. CASE Walked(e)
      <3>1. walk[e].count \in Nat /\ walk[e].raced \in BOOLEAN
        BY DEF WorkIInv, Walk
      <3>2. cache'[e] \in Entry /\ cache'[e].sig = version[e] /\ cache'[e].known
        BY <2>1, <2>5, <3>1 DEF Entry, Walked
      <3> QED BY <2>1, <3>2
    <2>6. CASE Warmed(e)
      <3> PICK u \in Warmers : cache'[e] = Found(u, e)
        BY <2>6 DEF Warmed
      <3>1. warm[u].found[e] \in Nat /\ warm[u].sig[e] \in Nat /\ warm[u].sig[e] <= version[e]
        BY DEF WorkIInv, WarmWalk, WarmIInv, WarmerIsRight
      <3>2. cache'[e] \in Entry /\ cache'[e].sig = warm[u].sig[e] /\ cache'[e].known
        BY <3>1 DEF Entry, Found
      <3> QED BY <2>1, <3>1, <3>2
    <2>7. CASE Pruned(e) \/ Restored(e)
      <3>1. CASE cache'[e] = Absent
        BY <2>1, <3>1 DEF Absent, Entry
      <3>2. CASE saved[e] # -1 /\ cache'[e] = [Becomes(Absent, "stale") EXCEPT !.count = saved[e],
                                                                              !.known = TRUE]
        <4> PICK n \in Nat : n = saved[e]
          BY <2>0, <3>2
        <4>1. cache'[e] = [state |-> "stale", count |-> n, known |-> TRUE, sig |-> 0,
                           raced |-> FALSE]
          BY <3>2 DEF Absent, Becomes
        <4>2. cache'[e] \in Entry /\ cache'[e].sig = 0 /\ cache'[e].known
          BY <4>1 DEF Entry
        <4> QED BY <2>1, <4>2
      <3>3. CASE Pruned(e)
        BY <3>1, <3>3 DEF Pruned
      <3>4. CASE Restored(e)
        <4>1. CASE saved[e] = -1
          BY <3>1, <3>4, <4>1 DEF Restored
        <4>2. CASE saved[e] # -1
          BY <3>2, <3>4, <4>2 DEF Restored
        <4> QED BY <4>1, <4>2
      <3> QED BY <2>7, <3>3, <3>4
    <2> QED BY <2>2, <2>3, <2>4, <2>5, <2>6, <2>7, EntryStep
  <1>2. cache' \in [Dir -> Entry]
    BY <1>1, CacheIsFunction DEF CacheIInv
  <1>3. saved' \in [Dir -> Nat \cup {-1}]
    <2>1. CASE Export
      BY <2>1 DEF Export, CacheIInv, Entry
    <2>2. CASE saved' = saved
      BY <2>2 DEF CacheIInv
    <2> QED BY <2>1, <2>2, SavedIsKept
  <1> QED BY <1>1, <1>2, <1>3 DEF CacheIInv

-----------------------------------------------------------------------------
(* The work.                                                               *)

\* A change races the walks that have seen what it changes, and does nothing else to them.
LEMMA ChangeTouches ==
    ASSUME WorkIInv, Changes
    PROVE  /\ walk' \in [Dir -> Walk] /\ warm' \in [Warmers -> WarmWalk]
           /\ \A d \in Dir : walk'[d].on = walk[d].on
           /\ queue' = queue /\ working' = working /\ toMark' \in SUBSET Dir /\ toEnqueue' = toEnqueue
  <1> PICK D \in SUBSET Dir : Touch(D)
    <2>1. \A d \in Dir : Below(d) \cup {Parent[d]} \in SUBSET Dir /\ {Parent[d]} \in SUBSET Dir
      BY TreeAssumption DEF Below
    <2> QED BY <2>1 DEF Changes, FilesChange, JobReplaces, RemoveDir, MakeDir
  <1>1. ASSUME NEW e \in Dir
        PROVE  [walk[e] EXCEPT !.raced = walk[e].raced \/ D \cap walk[e].seen # {}] \in Walk
    <2> PICK w \in Walk : w = walk[e]
      BY DEF WorkIInv
    <2> PICK b \in BOOLEAN : b = (w.raced \/ D \cap w.seen # {})
      OBVIOUS
    <2>1. [w EXCEPT !.raced = b] \in Walk
      BY DEF Walk
    <2> QED BY <2>1
  <1>2. walk' \in [Dir -> Walk]
    BY <1>1 DEF Touch
  <1>3. \A d \in Dir : walk'[d].on = walk[d].on
    BY DEF Touch, WorkIInv, Walk
  <1>4. warm' \in [Warmers -> WarmWalk]
    <2> SUFFICES ASSUME NEW u \in Warmers
                 PROVE  [warm[u] EXCEPT !.raced =
                           @ \cup UNION {Up[d] \ {d} : d \in D \cap warm[u].seen}] \in WarmWalk
      BY DEF Touch
    <2> PICK w \in WarmWalk : w = warm[u]
      BY DEF WorkIInv
    <2> PICK r : r = w.raced \cup UNION {Up[d] \ {d} : d \in D \cap w.seen}
      OBVIOUS
    <2>0. r \in SUBSET Dir
      BY UpInDir DEF WarmWalk
    <2>1. [w EXCEPT !.raced = r] \in WarmWalk
      BY <2>0 DEF WarmWalk
    <2> QED BY <2>1
  <1>5. queue' = queue /\ working' = working /\ toMark' \in SUBSET Dir /\ toEnqueue' = toEnqueue
    BY DEF Changes, FilesChange, JobReplaces, RemoveDir, MakeDir, calls, WorkIInv
  <1> QED BY <1>2, <1>3, <1>4, <1>5

\* What is enqueued keeps to the size of the queue.
LEMMA EnqueuedFits ==
    ASSUME queue \in Seq(Dir), Len(queue) <= QueueSize, NEW d \in Dir
    PROVE  Enqueued(d) \in Seq(Dir) /\ Len(Enqueued(d)) <= QueueSize
  <1>1. Len(queue) \in Nat /\ QueueSize \in Nat
    BY SizesAssumption
  <1>2. CASE Len(queue) < QueueSize
    BY <1>1, <1>2 DEF Enqueued
  <1>3. CASE ~(Len(queue) < QueueSize)
    BY <1>3 DEF Enqueued
  <1> QED BY <1>2, <1>3

\* What a visit makes of a walk that warms the cache, a good one and a failed one.
VisitedOf(w, e) ==
    [w EXCEPT !.left = (w.left \ {e}) \cup Children(e), !.seen = w.seen \cup {e},
              !.found = [d \in Dir |-> w.found[d] + IF d \in Up[e] THEN files[e] ELSE 0],
              !.sig[e] = version[e]]
MissedOf(w, e) ==
    [w EXCEPT !.left = w.left \ {e}, !.seen = w.seen \cup {e}, !.errors = w.errors \cup Up[e],
              !.sig[e] = IF e \in exists THEN version[e] ELSE 0]

\* A visit is a good one or a failed one.
LEMMA WarmVisitCases ==
    ASSUME WorkIInv, NEW u \in Warmers, NEW e \in Dir, WarmVisit(u, e)
    PROVE  \/ e \in exists /\ warm' = [warm EXCEPT ![u] = VisitedOf(warm[u], e)]
           \/ warm' = [warm EXCEPT ![u] = MissedOf(warm[u], e)]
  <1>1. warm \in [Warmers -> WarmWalk]
    BY DEF WorkIInv
  <1> QED BY <1>1 DEF WarmVisit, VisitedOf, MissedOf, WarmWalk

\* The types of the walks.
LEMMA WalkTypeStep ==
    ASSUME TreeIInv, WorkIInv, [Next]_vars
    PROVE  walk' \in [Dir -> Walk] /\ warm' \in [Warmers -> WarmWalk]
  <1>0. walk \in [Dir -> Walk] /\ warm \in [Warmers -> WarmWalk] /\ NoWalk \in Walk
    BY DEF WorkIInv, NoWalk, Walk
  <1>1. CASE Changes
    BY <1>1, ChangeTouches
  <1>2. CASE UNCHANGED <<walk, warm>>
    BY <1>0, <1>2
  <1>3. CASE Take
    <2> PICK d \in Dir : d = Head(queue)
      BY <1>3 DEF Take, WorkIInv
    <2>1. [NoWalk EXCEPT !.on = TRUE, !.left = {d}] \in Walk
      BY DEF NoWalk, Walk
    <2>2. walk' = [walk EXCEPT ![d] = IF walk[d].on THEN walk[d]
                                      ELSE [NoWalk EXCEPT !.on = TRUE, !.left = {d}]]
      BY <1>3 DEF Take, Joined
    <2> QED BY <1>0, <1>3, <2>1, <2>2 DEF Take
  <1>4. ASSUME NEW d \in Dir, VisitFails(d)
        PROVE  walk' \in [Dir -> Walk] /\ warm' = warm
    <2> PICK w \in Walk : w = walk[d]
      BY <1>0
    <2>1. walk' = [walk EXCEPT ![d] = [[w EXCEPT !.failed = TRUE] EXCEPT !.left = {}]]
      BY <1>0, <1>4 DEF VisitFails
    <2>2. [[w EXCEPT !.failed = TRUE] EXCEPT !.left = {}] \in Walk
      BY DEF Walk
    <2> QED BY <1>0, <1>4, <2>1, <2>2 DEF VisitFails
  <1>5. ASSUME NEW d \in Dir, Visit(d)
        PROVE  walk' \in [Dir -> Walk] /\ warm' = warm
    <2> PICK w \in Walk : w = walk[d]
      BY <1>0
    <2>0. PICK e \in walk[d].left \cap exists :
             walk' = [walk EXCEPT ![d].left = (@ \ {e}) \cup Children(e), ![d].seen = @ \cup {e},
                                  ![d].count = @ + files[e]]
      BY <1>5 DEF Visit
    <2>1. /\ e \in w.left \cap exists
          /\ walk' = [walk EXCEPT ![d] =
                        [w EXCEPT !.left = (w.left \ {e}) \cup Children(e), !.seen = w.seen \cup {e},
                                  !.count = w.count + files[e]]]
      BY <1>0, <2>0
    <2> PICK l \in SUBSET Dir : l = (w.left \ {e}) \cup Children(e)
      BY DEF Children, TreeIInv, Walk
    <2> PICK s \in SUBSET Dir : s = w.seen \cup {e}
      BY DEF TreeIInv, Walk
    <2> PICK n \in Nat : n = w.count + files[e]
      BY BoundsAssumption DEF TreeIInv, Walk
    <2>2. [w EXCEPT !.left = l, !.seen = s, !.count = n] \in Walk
      BY DEF Walk
    <2> QED BY <1>0, <1>5, <2>1, <2>2 DEF Visit
  <1>6. ASSUME NEW d \in Dir, Succeeds(d) \/ Fails(d) \/ Returns(d)
        PROVE  walk' \in [Dir -> Walk] /\ warm' = warm
    <2>1. [NoWalk EXCEPT !.on = TRUE, !.written = TRUE] \in Walk
      BY DEF NoWalk, Walk
    <2> QED BY <1>0, <1>6, <2>1 DEF Succeeds, Fails, Writes, Returns
  <1>7. Warming \in WarmWalk /\ NotWarming \in WarmWalk
    BY TreeAssumption DEF Warming, NotWarming, WarmWalk
  <1>8. CASE Restart
    BY <1>0, <1>7, <1>8 DEF Restart
  <1>9. ASSUME NEW u \in Warmers, ClearCache(u) \/ WarmPrunes(u)
        PROVE  walk' = walk /\ warm' \in [Warmers -> WarmWalk]
    BY <1>0, <1>7, <1>9 DEF ClearCache, WarmPrunes, work
  <1>10. ASSUME NEW u \in Warmers, NEW e \in Dir, WarmPopulates(u, e)
         PROVE  walk' = walk /\ warm' \in [Warmers -> WarmWalk]
    <2> PICK w \in WarmWalk : w = warm[u]
      BY <1>0
    <2> PICK s \in SUBSET Dir : s = w.written \cup {e}
      BY DEF WarmWalk
    <2>1. [w EXCEPT !.written = s] \in WarmWalk
      BY DEF WarmWalk
    <2>2. warm' = [warm EXCEPT ![u] = [w EXCEPT !.written = s]] /\ walk' = walk
      BY <1>0, <1>10 DEF WarmPopulates, work
    <2> QED BY <1>0, <2>1, <2>2
  <1>12. ASSUME NEW u \in Warmers, NEW e \in Dir, WarmVisit(u, e)
         PROVE  walk' = walk /\ warm' \in [Warmers -> WarmWalk]
    <2> PICK w \in WarmWalk : w = warm[u]
      BY <1>0
    <2>0. walk' = walk
      BY <1>12 DEF WarmVisit, work
    <2> SUFFICES \E x \in WarmWalk : warm' = [warm EXCEPT ![u] = x]
      BY <1>0, <2>0
    <2>1. CASE warm' = [warm EXCEPT ![u] = VisitedOf(w, e)]
      <3> PICK l \in SUBSET Dir : l = (w.left \ {e}) \cup Children(e)
        BY DEF Children, TreeIInv, WarmWalk
      <3> PICK s \in SUBSET Dir : s = w.seen \cup {e}
        BY DEF TreeIInv, WarmWalk
      <3> PICK f : f = [d \in Dir |-> w.found[d] + IF d \in Up[e] THEN files[e] ELSE 0]
        OBVIOUS
      <3>0. f \in [Dir -> Nat]
        <4>1. files[e] \in Nat /\ \A d \in Dir : w.found[d] \in Nat
          BY BoundsAssumption DEF TreeIInv, WarmWalk
        <4>2. \A d \in Dir : w.found[d] + (IF d \in Up[e] THEN files[e] ELSE 0) \in Nat
          BY <4>1
        <4> QED BY <4>2
      <3> PICK g \in [Dir -> Nat] : g = [w.sig EXCEPT ![e] = version[e]]
        BY DEF TreeIInv, WarmWalk
      <3>1. VisitedOf(w, e) = [w EXCEPT !.left = l, !.seen = s, !.found = f, !.sig = g]
        BY DEF VisitedOf
      <3>2. [w EXCEPT !.left = l, !.seen = s, !.found = f, !.sig = g] \in WarmWalk
        BY <3>0 DEF WarmWalk
      <3> QED BY <2>1, <3>1, <3>2
    <2>2. CASE warm' = [warm EXCEPT ![u] = MissedOf(w, e)]
      <3> PICK l \in SUBSET Dir : l = w.left \ {e}
        BY DEF WarmWalk
      <3> PICK s \in SUBSET Dir : s = w.seen \cup {e}
        BY DEF WarmWalk
      <3> PICK r \in SUBSET Dir : r = w.errors \cup Up[e]
        BY UpInDir DEF WarmWalk
      <3> PICK g \in [Dir -> Nat] : g = [w.sig EXCEPT ![e] = IF e \in exists THEN version[e] ELSE 0]
        BY DEF TreeIInv, WarmWalk
      <3>1. MissedOf(w, e) = [w EXCEPT !.left = l, !.seen = s, !.errors = r, !.sig = g]
        BY DEF MissedOf
      <3>2. [w EXCEPT !.left = l, !.seen = s, !.errors = r, !.sig = g] \in WarmWalk
        BY DEF WarmWalk
      <3> QED BY <2>2, <3>1, <3>2
    <2> QED BY <1>0, <1>12, <2>1, <2>2, WarmVisitCases
  <1>13. CASE \E d \in Dir : GetDirCount(d) \/ Reconcile(d) \/ InvalidateCache(d) \/ Enqueue(d)
    BY <1>2, <1>13 DEF GetDirCount, Reconcile, InvalidateCache, Enqueue, work
  <1>14. CASE Export \/ UNCHANGED vars
    BY <1>2, <1>14 DEF Export, vars, work
  <1> QED BY <1>0, <1>1, <1>3, <1>4, <1>5, <1>6, <1>8, <1>9, <1>10, <1>12, <1>13, <1>14
          DEF Next, Goes, Warms

\* The number of workers inside countGroup.Do for each directory, and of all.
LEMMA WorkStep ==
    ASSUME TreeIInv, WorkIInv, [Next]_vars
    PROVE  WorkIInv'
  <1> DEFINE Rest == /\ queue \in Seq(Dir) /\ Len(queue) <= QueueSize
                     /\ working \in [Dir -> Nat]
                     /\ \A d \in Dir : walk[d].on <=> working[d] > 0
                     /\ Sum(working, Dir) <= Workers
                     /\ toMark \in SUBSET Dir /\ toEnqueue \in SUBSET Dir
  <1>1. Rest
    BY DEF WorkIInv
  <1>2. walk \in [Dir -> Walk]
    BY DEF WorkIInv
  <1> SUFFICES Rest'
    BY WalkTypeStep DEF WorkIInv
  <1>3. CASE Changes
    BY <1>1, <1>3, ChangeTouches
  <1>4. CASE Take
    <2>1. queue \in Seq(Dir) /\ queue # <<>> /\ Len(queue) \in Nat
      BY <1>1, <1>4 DEF Take
    <2> PICK d \in Dir : d = Head(queue)
      BY <2>1
    <2>2. Tail(queue) \in Seq(Dir) /\ Len(Tail(queue)) <= QueueSize
      BY <1>1, <2>1, SizesAssumption
    <2>3. /\ queue' = Tail(queue) /\ working' = [working EXCEPT ![d] = @ + 1]
          /\ walk' = Joined(walk, d) /\ Sum(working, Dir) < Workers
          /\ toMark' = toMark /\ toEnqueue' = toEnqueue
      BY <1>4 DEF Take, calls
    <2>4. working' \in [Dir -> Nat] /\ working'[d] = working[d] + 1
          /\ \A e \in Dir \ {d} : working'[e] = working[e]
      BY <1>1, <2>3
    <2>5. Sum(working', Dir) <= Workers
      <3>1. Sum(working', Dir) = (Sum(working, Dir) - working[d]) + working'[d]
            /\ Sum(working, Dir) \in Nat /\ working[d] \in Nat
        <4> PICK f \in [Dir -> Nat] : f = working
          BY <1>1
        <4> PICK h \in [Dir -> Nat] : h = working'
          BY <2>4
        <4>1. Sum(h, Dir) = (Sum(f, Dir) - f[d]) + h[d] /\ Sum(f, Dir) \in Nat
          BY <2>4, SumChanges, TreeAssumption
        <4> QED BY <4>1
      <3> QED BY <2>3, <2>4, <3>1, SizesAssumption
    <2>6. walk'[d].on /\ \A e \in Dir \ {d} : walk'[e] = walk[e]
      BY <1>2, <2>3 DEF Joined, NoWalk
    <2>7. \A e \in Dir : walk'[e].on <=> working'[e] > 0
      BY <1>1, <2>4, <2>6
    <2> QED BY <1>1, <2>2, <2>3, <2>4, <2>5, <2>7
  <1>5. ASSUME NEW d \in Dir, Returns(d)
        PROVE  Rest'
    <2>1. /\ walk' = [walk EXCEPT ![d] = NoWalk] /\ working' = [working EXCEPT ![d] = 0]
          /\ UNCHANGED <<queue, toMark, toEnqueue>>
      BY <1>5 DEF Returns, calls
    <2>2. /\ working' \in [Dir -> Nat] /\ working'[d] = 0
          /\ \A e \in Dir \ {d} : working'[e] = working[e]
      BY <1>1, <2>1
    <2>3. Sum(working', Dir) <= Workers
      <3>1. Sum(working', Dir) = (Sum(working, Dir) - working[d]) + working'[d]
            /\ Sum(working, Dir) \in Nat /\ working[d] \in Nat
        <4> PICK f \in [Dir -> Nat] : f = working
          BY <1>1
        <4> PICK h \in [Dir -> Nat] : h = working'
          BY <2>2
        <4>1. Sum(h, Dir) = (Sum(f, Dir) - f[d]) + h[d] /\ Sum(f, Dir) \in Nat
          BY <2>2, SumChanges, TreeAssumption
        <4> QED BY <4>1
      <3> QED BY <1>1, <2>2, <3>1, SizesAssumption
    <2>4. \A e \in Dir : walk'[e].on <=> working'[e] > 0
      BY <1>1, <1>2, <2>1, <2>2 DEF NoWalk
    <2> QED BY <1>1, <2>1, <2>2, <2>3, <2>4
  <1>6. CASE Restart
    <2>1. working' = [d \in Dir |-> 0] /\ walk' = [d \in Dir |-> NoWalk]
          /\ queue' = <<>> /\ toMark' = {} /\ toEnqueue' = {}
      BY <1>6 DEF Restart
    <2>2. Sum(working', Dir) = 0
      <3> PICK f : f = [d \in Dir |-> 0]
        OBVIOUS
      <3>1. Sum(f, Dir) = 0
        BY SumOfZeros, TreeAssumption
      <3> QED BY <2>1, <3>1
    <2> QED BY <2>1, <2>2, SizesAssumption DEF NoWalk
  <1>7. ASSUME NEW d \in Dir, Visit(d) \/ VisitFails(d) \/ Succeeds(d) \/ Fails(d)
        PROVE  Rest'
    <2>1. UNCHANGED <<queue, working, toMark, toEnqueue>>
      BY <1>7 DEF Visit, VisitFails, Succeeds, Fails, Writes, calls
    <2>2. \A e \in Dir : walk'[e].on = walk[e].on
      <3>1. CASE Visit(d)
        <4> PICK e \in walk[d].left \cap exists :
               walk' = [walk EXCEPT ![d].left = (@ \ {e}) \cup Children(e), ![d].seen = @ \cup {e},
                                    ![d].count = @ + files[e]]
          BY <3>1 DEF Visit
        <4> QED BY <1>2 DEF Walk
      <3>2. CASE VisitFails(d)
        BY <1>2, <3>2 DEF VisitFails, Walk
      <3>3. CASE Succeeds(d) \/ Fails(d)
        <4>1. walk[d].on /\ walk' = [walk EXCEPT ![d] = [NoWalk EXCEPT !.on = TRUE, !.written = TRUE]]
          BY <3>3 DEF Succeeds, Fails, Writes
        <4> QED BY <1>2, <4>1 DEF NoWalk
      <3> QED BY <1>7, <3>1, <3>2, <3>3
    <2> QED BY <1>1, <2>1, <2>2
  <1>8. CASE \E d \in Dir : GetDirCount(d) \/ Enqueue(d)
    <2> PICK d \in Dir : GetDirCount(d) \/ Enqueue(d)
      BY <1>8
    <2>1. queue' = queue \/ queue' = Enqueued(d)
      BY DEF GetDirCount, Enqueue
    <2>2. UNCHANGED <<working, walk>> /\ toMark' = toMark /\ toEnqueue' \in SUBSET Dir
      BY <1>1 DEF GetDirCount, Enqueue, calls
    <2> QED BY <1>1, <2>1, <2>2, EnqueuedFits
  <1>9. CASE \E d \in Dir : Reconcile(d) \/ InvalidateCache(d)
    <2> PICK d \in Dir : Reconcile(d) \/ InvalidateCache(d)
      BY <1>9
    <2>1. UNCHANGED <<queue, working, walk>> /\ toMark' \in SUBSET Dir /\ toEnqueue' \in SUBSET Dir
      BY <1>1, UpInDir DEF Reconcile, InvalidateCache, work, Below
    <2> QED BY <1>1, <2>1
  <1>10. CASE UNCHANGED <<queue, working, walk, toMark, toEnqueue>>
    BY <1>1, <1>10
  <1>11. CASE \E u \in Warmers : Warms(u) \/ ClearCache(u)
    BY <1>10, <1>11, WarmsKeep
  <1>12. CASE Export \/ UNCHANGED vars
    BY <1>10, <1>12 DEF Export, vars, work, calls
  <1> QED BY <1>3, <1>4, <1>5, <1>6, <1>7, <1>8, <1>9, <1>11, <1>12 DEF Next, Goes

-----------------------------------------------------------------------------
(* The walks of single directories.                                        *)

\* What a step that is no change of the tree makes of the walk of a directory.
LEMMA WalkCases ==
    ASSUME WorkIInv, [Next]_vars, ~Changes, NEW d \in Dir
    PROVE  \/ walk'[d] = walk[d] \/ walk'[d] = NoWalk
           \/ walk'[d] = [NoWalk EXCEPT !.on = TRUE, !.left = {d}]
           \/ walk'[d] = [NoWalk EXCEPT !.on = TRUE, !.written = TRUE]
           \/ Visit(d) \/ VisitFails(d)
  <1>0. walk \in [Dir -> Walk]
    BY DEF WorkIInv
  <1>1. CASE UNCHANGED walk
    BY <1>1
  <1>2. CASE Take
    BY <1>0, <1>2 DEF Take, Joined
  <1>3. ASSUME NEW e \in Dir, Visit(e) \/ VisitFails(e), e # d
        PROVE  walk'[d] = walk[d]
    BY <1>0, <1>3 DEF Visit, VisitFails
  <1>4. ASSUME NEW e \in Dir, Succeeds(e) \/ Fails(e) \/ Returns(e)
        PROVE  \/ walk'[d] = walk[d] \/ walk'[d] = NoWalk
               \/ walk'[d] = [NoWalk EXCEPT !.on = TRUE, !.written = TRUE]
    BY <1>0, <1>4 DEF Succeeds, Fails, Writes, Returns
  <1>5. CASE Restart
    BY <1>5 DEF Restart
  <1>6. CASE \E e \in Dir : InvalidateCache(e) \/ Enqueue(e) \/ GetDirCount(e) \/ Reconcile(e)
    BY <1>1, <1>6 DEF InvalidateCache, Enqueue, GetDirCount, Reconcile, work
  <1>7. CASE \E u \in Warmers : Warms(u) \/ ClearCache(u)
    BY <1>1, <1>7, WarmsKeep
  <1>8. CASE Export \/ UNCHANGED vars
    BY <1>1, <1>8 DEF Export, vars, work
  <1> QED BY <1>2, <1>3, <1>4, <1>5, <1>6, <1>7, <1>8 DEF Next, Goes

\* A change of the tree changes D, and files and version of what is in D only; what is made
\* is empty, and below a directory of D; what goes is in D.
Changed(D) ==
    /\ D \in SUBSET Dir /\ Touch(D)
    /\ \A d \in Dir \ D : files'[d] = files[d]
    /\ exists \ exists' \subseteq D
    /\ \A d \in exists' \ exists : d \in Dir \ {Root} /\ Parent[d] \in D \cap exists
    /\ \A d \in D \cup (exists' \ exists) : version'[d] = version[d] + 1

\* Every change of the tree is one of those.
LEMMA ChangesChange ==
    ASSUME TreeIInv, Changes
    PROVE  \E D : Changed(D)
  <1>0. version \in [Dir -> Nat] /\ files \in [Dir -> 0 .. MaxFiles] /\ exists \subseteq Dir
    BY DEF TreeIInv
  <1>1. ASSUME NEW d \in Dir, FilesChange(d) \/ JobReplaces(d)
        PROVE  Changed({d})
    BY <1>0, <1>1 DEF FilesChange, JobReplaces, Refill, Changed
  <1>2. ASSUME NEW d \in Dir, RemoveDir(d)
        PROVE  Changed(Below(d) \cup {Parent[d]})
    BY <1>0, <1>2, TreeAssumption DEF RemoveDir, Changed, Below
  <1>3. ASSUME NEW d \in Dir, MakeDir(d)
        PROVE  Changed({Parent[d]})
    <2>1. d # Root /\ Parent[d] # d /\ Parent[d] \in exists /\ exists' = exists \cup {d}
      BY <1>3 DEF MakeDir, TreeIInv
    <2>2. version'[Parent[d]] = version[Parent[d]] + 1 /\ files' = files /\ Touch({Parent[d]})
      BY <1>0, <1>3, <2>1, TreeAssumption DEF MakeDir
    <2>3. version'[d] = version[d] + 1
      BY <1>0, <1>3, <2>1, TreeAssumption DEF MakeDir
    <2> QED BY <1>0, <2>1, <2>2, <2>3, TreeAssumption DEF Changed
  <1> QED BY <1>1, <1>2, <1>3 DEF Changes

\* A change leaves a walk alone but for saying that it is raced.
LEMMA TouchedWalk ==
    ASSUME WorkIInv, NEW D, Touch(D), NEW d \in Dir
    PROVE  /\ walk'[d].on = walk[d].on /\ walk'[d].left = walk[d].left
           /\ walk'[d].seen = walk[d].seen /\ walk'[d].count = walk[d].count
           /\ walk'[d].failed = walk[d].failed /\ walk'[d].written = walk[d].written
           /\ ~walk'[d].raced => ~walk[d].raced /\ D \cap walk[d].seen = {}
  <1> PICK w \in Walk : w = walk[d]
    BY DEF WorkIInv
  <1> PICK b \in BOOLEAN : b = (w.raced \/ D \cap w.seen # {})
    OBVIOUS
  <1>1. walk'[d] = [w EXCEPT !.raced = b]
    BY DEF Touch
  <1>2. ~b => ~w.raced /\ D \cap w.seen = {}
    OBVIOUS
  <1> QED BY <1>1, <1>2 DEF Walk

\* The walk of a directory while the tree changes: if it has seen nothing of what changes,
\* what it has counted is still right.
LEMMA WalkStepChange ==
    ASSUME TreeIInv, WorkIInv, WalkIInv, Changes, NEW d \in Dir
    PROVE  WalkIsRight(d)'
  <1> PICK D : Changed(D)
    BY ChangesChange
  <1> PICK w \in Walk : w = walk[d]
    BY DEF WorkIInv
  <1>0. /\ walk'[d].on = w.on /\ walk'[d].left = w.left /\ walk'[d].seen = w.seen
        /\ walk'[d].count = w.count /\ walk'[d].failed = w.failed /\ walk'[d].written = w.written
        /\ ~walk'[d].raced => ~w.raced /\ D \cap w.seen = {}
    BY TouchedWalk DEF Changed
  <1>1. Shape(w.left, w.seen, Below(d))
    BY DEF WalkIInv, WalkIsRight
  <1>2. ASSUME w.on, ~w.written, ~w.failed, ~w.raced, D \cap w.seen = {}
        PROVE  /\ d \in w.left \cup w.seen
               /\ w.seen \subseteq exists'
               /\ w.count = Sum(files', w.seen)
               /\ \A x \in exists' \cap Below(d) : x \in w.seen \/ Up[x] \cap w.left # {}
    <2>0. /\ d \in w.left \cup w.seen /\ w.seen \subseteq exists /\ w.count = Sum(files, w.seen)
          /\ Covered(w.left, w.seen, Below(d))
      BY <1>2 DEF WalkIInv, WalkIsRight
    <2>1. w.seen \subseteq exists'
      BY <1>2, <2>0 DEF Changed
    <2>2. Sum(files', w.seen) = Sum(files, w.seen)
      <3> PICK S : S = w.seen
        OBVIOUS
      <3> PICK f : f = files
        OBVIOUS
      <3> PICK h : h = files'
        OBVIOUS
      <3>1. S \in SUBSET Dir /\ IsFiniteSet(S)
        BY FS_Subset, TreeAssumption DEF Walk
      <3>2. \A x \in S : f[x] \in Nat /\ h[x] = f[x]
        BY <1>2, <3>1, BoundsAssumption DEF Changed, TreeIInv
      <3> QED BY <3>1, <3>2, SumAgrees
    <2>3. ASSUME NEW x \in exists' \cap Below(d)
          PROVE  x \in w.seen \/ Up[x] \cap w.left # {}
      <3>1. CASE x \in exists
        BY <2>0, <3>1 DEF Covered
      <3>2. CASE x \notin exists
        <4>1. x \in Dir \ {Root} /\ Parent[x] \in D \cap exists /\ Up[x] = {x} \cup Up[Parent[x]]
          BY <3>2, UpStep DEF Changed
        <4>2. CASE x = d
          BY <2>0, <3>2, <4>2, UpStep
        <4>3. CASE x # d
          <5>1. d \in Up[x]
            BY BelowFacts, <4>1
          <5>2. Parent[x] \in Below(d)
            BY <4>1, <4>3, <5>1, BelowFacts, TreeAssumption
          <5>3. Parent[x] \notin w.seen
            BY <1>2, <4>1
          <5> QED BY <2>0, <4>1, <5>2, <5>3 DEF Covered
        <4> QED BY <4>2, <4>3
      <3> QED BY <3>1, <3>2
    <2> QED BY <2>0, <2>1, <2>2, <2>3
  <1> QED BY <1>0, <1>1, <1>2 DEF WalkIsRight, Covered, Shape, Below

\* A visit counts one directory more, and puts its children on the list.
LEMMA WalkStepVisit ==
    ASSUME TreeIInv, WorkIInv, WalkIInv, NEW d \in Dir, Visit(d)
    PROVE  WalkIsRight(d)'
  <1> PICK w \in Walk : w = walk[d]
    BY DEF WorkIInv
  <1>1. PICK e \in walk[d].left \cap exists :
           walk' = [walk EXCEPT ![d].left = (@ \ {e}) \cup Children(e), ![d].seen = @ \cup {e},
                                ![d].count = @ + files[e]]
    BY DEF Visit
  <1>2. UNCHANGED <<exists, files>>
    BY DEF Visit, tree
  <1>3. /\ walk'[d].left = (w.left \ {e}) \cup Children(e) /\ walk'[d].seen = w.seen \cup {e}
        /\ walk'[d].count = w.count + files[e]
        /\ walk'[d].on = w.on /\ walk'[d].failed = w.failed /\ walk'[d].raced = w.raced
        /\ walk'[d].written = w.written
    BY <1>1 DEF WorkIInv, Walk
  <1>4. Shape(w.left, w.seen, Below(d))
    BY DEF WalkIInv, WalkIsRight
  <1>5. Children(e) \in SUBSET {c \in Dir \ {Root} : Parent[c] = e}
    BY DEF Children, TreeIInv
  <1>6. Shape((w.left \ {e}) \cup Children(e), w.seen \cup {e}, Below(d))
    <2>1. Below(d) \in SUBSET Dir /\ \A c \in Dir \ {Root} : Parent[c] \in Below(d) => c \in Below(d)
      BY BelowFacts
    <2>2. e \in w.left
      BY <1>1
    <2> QED BY <1>4, <1>5, <2>1, <2>2, ShapeGrows
  <1>7. ASSUME w.on, ~w.written, ~w.failed, ~w.raced
        PROVE  /\ d \in ((w.left \ {e}) \cup Children(e)) \cup (w.seen \cup {e})
               /\ w.seen \cup {e} \subseteq exists
               /\ w.count + files[e] = Sum(files, w.seen \cup {e})
               /\ Covered((w.left \ {e}) \cup Children(e), w.seen \cup {e}, Below(d))
    <2>0. /\ d \in w.left \cup w.seen /\ w.seen \subseteq exists /\ w.count = Sum(files, w.seen)
          /\ Covered(w.left, w.seen, Below(d))
      BY <1>7 DEF WalkIInv, WalkIsRight
    <2>1. e \in Dir \ w.seen
      BY <1>1, <1>4 DEF Shape, TreeIInv
    <2>2. Sum(files, w.seen \cup {e}) = Sum(files, w.seen) + files[e]
      <3> PICK S \in SUBSET Dir : S = w.seen
        BY DEF Walk
      <3> PICK f : f = files
        OBVIOUS
      <3>1. \A x \in Dir : f[x] \in Nat
        BY BoundsAssumption DEF TreeIInv
      <3>2. Sum(f, S \cup {e}) = Sum(f, S) + f[e]
        BY <2>1, <3>1, SumAdd, TreeAssumption
      <3> QED BY <3>2
    <2>3. Covered((w.left \ {e}) \cup Children(e), w.seen \cup {e}, Below(d))
      <3> SUFFICES ASSUME NEW x \in exists \cap Below(d), x \notin w.seen \cup {e}
                   PROVE  Up[x] \cap ((w.left \ {e}) \cup Children(e)) # {}
        BY DEF Covered
      <3>1. Up[x] \cap w.left # {}
        BY <2>0 DEF Covered
      <3> QED BY <1>1, <3>1, CoverGrows
    <2> QED BY <1>1, <2>0, <2>2, <2>3
  <1> QED BY <1>2, <1>3, <1>6, <1>7 DEF WalkIsRight, Covered, Shape, Below

\* Every walk stays right.
LEMMA WalkStep ==
    ASSUME TreeIInv, WorkIInv, WalkIInv, [Next]_vars
    PROVE  WalkIInv'
  <1> SUFFICES ASSUME NEW d \in Dir PROVE WalkIsRight(d)'
    BY DEF WalkIInv
  <1>1. CASE Changes
    BY <1>1, WalkStepChange
  <1>2. CASE ~Changes
    <2>0. UNCHANGED <<exists, files>> /\ WalkIsRight(d)
      BY <1>2, OnlyChangesChange DEF tree, WalkIInv
    <2>1. CASE walk'[d] = walk[d]
      BY <2>0, <2>1 DEF WalkIsRight, Covered, Shape, Below
    <2>2. CASE walk'[d] = NoWalk
      BY <2>2 DEF WalkIsRight, NoWalk, Shape
    <2>6. CASE walk'[d] = [NoWalk EXCEPT !.on = TRUE, !.written = TRUE]
      <3>1. walk'[d].written /\ walk'[d].left = {} /\ walk'[d].seen = {}
        BY <2>6 DEF NoWalk
      <3> QED BY <3>1 DEF WalkIsRight, Shape
    <2>3. CASE walk'[d] = [NoWalk EXCEPT !.on = TRUE, !.left = {d}]
      <3>1. /\ walk'[d].left = {d} /\ walk'[d].seen = {} /\ walk'[d].count = 0
        BY <2>3 DEF NoWalk
      <3>2. Shape({d}, {}, Below(d)) /\ Covered({d}, {}, Below(d))
        <4>1. Below(d) \subseteq Dir /\ d \in Below(d)
          BY BelowFacts
        <4>2. Up[d] \cap Below(d) \subseteq {d}
          BY BelowFacts, UpInDir, UpAntisymmetric
        <4> QED BY <4>1, <4>2, BelowFacts DEF Shape, Covered
      <3>3. Sum(files', {}) = 0
        BY SumOfNothing
      <3> QED BY <2>0, <3>1, <3>2, <3>3 DEF WalkIsRight, Covered, Shape, Below
    <2>4. CASE Visit(d)
      BY <2>4, WalkStepVisit
    <2>5. CASE VisitFails(d)
      <3>1. /\ walk'[d].left = {} /\ walk'[d].seen = walk[d].seen /\ walk'[d].failed
        BY <2>5 DEF VisitFails, WorkIInv, Walk
      <3> QED BY <2>0, <3>1 DEF WalkIsRight, Shape, Below
    <2> QED BY <1>2, <2>1, <2>2, <2>3, <2>4, <2>5, <2>6, WalkCases
  <1> QED BY <1>1, <1>2

-----------------------------------------------------------------------------
(* The walk that warms the cache.                                          *)

\* What a step that is no change of the tree makes of a walk that warms the cache.
LEMMA WarmCases ==
    ASSUME WorkIInv, [Next]_vars, ~Changes, NEW u \in Warmers
    PROVE  \/ warm'[u] = warm[u] \/ warm'[u] = Warming \/ warm'[u] = NotWarming
           \/ \E e \in Dir : WarmPopulates(u, e) \/ WarmVisit(u, e)
  <1>0. warm \in [Warmers -> WarmWalk]
    BY DEF WorkIInv
  <1>1. CASE Take \/ \E e \in Dir : Visit(e) \/ VisitFails(e) \/ Succeeds(e) \/ Fails(e) \/ Returns(e)
    BY <1>1 DEF Take, Visit, VisitFails, Succeeds, Fails, Writes, Returns
  <1>2. CASE \E e \in Dir : InvalidateCache(e) \/ Enqueue(e) \/ GetDirCount(e) \/ Reconcile(e)
    BY <1>2 DEF InvalidateCache, Enqueue, GetDirCount, Reconcile
  <1>3. CASE Export \/ Restart \/ UNCHANGED vars
    BY <1>3 DEF Export, Restart, vars
  <1>4. ASSUME NEW v \in Warmers, WarmPrunes(v) \/ ClearCache(v)
        PROVE  warm'[u] = warm[u] \/ warm'[u] = Warming \/ warm'[u] = NotWarming
    BY <1>0, <1>4 DEF WarmPrunes, ClearCache
  <1>5. ASSUME NEW v \in Warmers, v # u, NEW e \in Dir, WarmPopulates(v, e) \/ WarmVisit(v, e)
        PROVE  warm'[u] = warm[u]
    <2>1. CASE WarmPopulates(v, e)
      BY <1>0, <1>5, <2>1 DEF WarmPopulates
    <2>2. CASE WarmVisit(v, e)
      BY <1>0, <1>5, <2>2, WarmVisitCases
    <2> QED BY <1>5, <2>1, <2>2
  <1> QED BY <1>1, <1>2, <1>3, <1>4, <1>5 DEF Next, Goes, Warms

\* The parts of that walk after a change.
LEMMA TouchedWarm ==
    ASSUME WorkIInv, NEW D, Touch(D), NEW u \in Warmers
    PROVE  /\ warm'[u].left = warm[u].left /\ warm'[u].seen = warm[u].seen
           /\ warm'[u].found = warm[u].found /\ warm'[u].sig = warm[u].sig
           /\ warm'[u].errors = warm[u].errors
           /\ warm'[u].raced = warm[u].raced \cup UNION {Up[d] \ {d} : d \in D \cap warm[u].seen}
  <1> PICK w \in WarmWalk : w = warm[u]
    BY DEF WorkIInv
  <1> PICK r : r = w.raced \cup UNION {Up[d] \ {d} : d \in D \cap w.seen}
    OBVIOUS
  <1>1. warm'[u] = [w EXCEPT !.raced = r]
    BY DEF Touch
  <1> QED BY <1>1 DEF WarmWalk

\* The parts of a walk that warms the cache after a visit, a good one and a failed one.
LEMMA VisitedWarm ==
    ASSUME WorkIInv, NEW u \in Warmers, NEW e \in Dir, WarmVisit(u, e)
    PROVE  /\ e \in warm[u].left
           /\ warm'[u].seen = warm[u].seen \cup {e} /\ warm'[u].raced = warm[u].raced
           /\ warm'[u].sig = [warm[u].sig EXCEPT ![e] = IF e \in exists THEN version[e] ELSE 0]
           /\ \/ /\ e \in exists /\ warm'[u].left = (warm[u].left \ {e}) \cup Children(e)
                 /\ warm'[u].errors = warm[u].errors
                 /\ warm'[u].found = [d \in Dir |-> warm[u].found[d]
                                                   + IF d \in Up[e] THEN files[e] ELSE 0]
              \/ /\ warm'[u].left = warm[u].left \ {e} /\ warm'[u].errors = warm[u].errors \cup Up[e]
                 /\ warm'[u].found = warm[u].found
  <1>0. warm \in [Warmers -> WarmWalk]
    BY DEF WorkIInv
  <1> PICK w \in WarmWalk : w = warm[u]
    BY <1>0
  <1>1. e \in w.left
    BY DEF WarmVisit
  <1>2. \/ e \in exists /\ warm'[u] = VisitedOf(w, e)
        \/ warm'[u] = MissedOf(w, e)
    BY <1>0, WarmVisitCases
  <1>3. /\ VisitedOf(w, e).seen = w.seen \cup {e} /\ VisitedOf(w, e).raced = w.raced
        /\ VisitedOf(w, e).left = (w.left \ {e}) \cup Children(e)
        /\ VisitedOf(w, e).errors = w.errors
        /\ VisitedOf(w, e).found = [d \in Dir |-> w.found[d] + IF d \in Up[e] THEN files[e] ELSE 0]
        /\ VisitedOf(w, e).sig = [w.sig EXCEPT ![e] = version[e]]
    BY DEF VisitedOf, WarmWalk
  <1>4. /\ MissedOf(w, e).seen = w.seen \cup {e} /\ MissedOf(w, e).raced = w.raced
        /\ MissedOf(w, e).left = w.left \ {e} /\ MissedOf(w, e).found = w.found
        /\ MissedOf(w, e).errors = w.errors \cup Up[e]
        /\ MissedOf(w, e).sig = [w.sig EXCEPT ![e] = IF e \in exists THEN version[e] ELSE 0]
    BY DEF MissedOf, WarmWalk
  <1> QED BY <1>1, <1>2, <1>3, <1>4

\* A change of the tree: what has been found for a directory that is not raced and whose
\* signature is still the same concerns nothing that has changed.
LEMMA WarmStepChange ==
    ASSUME TreeIInv, WorkIInv, WarmIInv, Changes, [Next]_vars, NEW u \in Warmers
    PROVE  WarmerIsRight(u)'
  <1> PICK D : Changed(D)
    BY ChangesChange
  <1> PICK w \in WarmWalk : w = warm[u]
    BY DEF WorkIInv
  <1>0. /\ warm'[u].left = w.left /\ warm'[u].seen = w.seen
        /\ warm'[u].found = w.found /\ warm'[u].sig = w.sig /\ warm'[u].errors = w.errors
        /\ warm'[u].raced = w.raced \cup UNION {Up[d] \ {d} : d \in D \cap w.seen}
    BY TouchedWarm DEF Changed
  <1>00. WarmerIsRight(u)
    BY DEF WarmIInv
  <1>1. Shape(w.left, w.seen, Dir) /\ \A d \in Dir \ w.seen : w.found[d] = 0
    BY <1>00 DEF WarmerIsRight
  <1>2. \A d \in Dir : w.sig[d] <= version'[d]
    <2> SUFFICES ASSUME NEW d \in Dir PROVE w.sig[d] <= version'[d]
      OBVIOUS
    <2>1. w.sig[d] \in Nat /\ version[d] \in Nat /\ version'[d] \in Nat
      BY TreeStep DEF TreeIInv, WarmWalk
    <2> QED BY <1>00, <2>1, VersionGrows DEF WarmerIsRight
  <1>3. ASSUME NEW d \in (w.seen \cap exists') \ (warm'[u].raced \cup w.errors),
               w.sig[d] = version'[d]
        PROVE  /\ w.seen \cap Below(d) \subseteq exists'
               /\ w.found[d] = Sum(files', w.seen \cap Below(d))
               /\ \A x \in exists' \cap Below(d) : x \in w.seen \/ Up[x] \cap w.left # {}
    <2>0. d \in Dir /\ d \notin D \cup (exists' \ exists) /\ version'[d] = version[d]
      <3>1. d \in Dir /\ w.sig[d] <= version[d]
        BY <1>00 DEF WarmWalk, WarmerIsRight
      <3>2. w.sig[d] \in Nat /\ version[d] \in Nat /\ version'[d] \in Nat /\ version[d] <= version'[d]
        BY <3>1, VersionGrows, TreeStep DEF TreeIInv, WarmWalk
      <3>3. version[d] = version'[d]
        BY <1>3, <3>1, <3>2
      <3> QED BY <3>1, <3>2, <3>3 DEF Changed
    <2>1. d \notin w.raced /\ \A x \in D \cap w.seen : d \notin Up[x]
      BY <1>0, <1>3, <2>0
    <2>2. d \in exists
      BY <1>3, <2>0
    <2>3. WarmIsRight(u, d)
      BY <1>00, <1>3, <2>0, <2>1, <2>2 DEF WarmerIsRight
    <2>4. \A x \in D \cap w.seen : x \notin Below(d)
      BY <2>1 DEF Below
    <2>5. w.seen \cap Below(d) \subseteq exists'
      BY <2>3, <2>4 DEF WarmIsRight, Changed
    <2>6. Sum(files', w.seen \cap Below(d)) = Sum(files, w.seen \cap Below(d))
      <3> PICK S : S = w.seen \cap Below(d)
        OBVIOUS
      <3> PICK f : f = files
        OBVIOUS
      <3> PICK h : h = files'
        OBVIOUS
      <3>1. S \in SUBSET Dir /\ IsFiniteSet(S)
        BY FS_Subset, TreeAssumption DEF WarmWalk
      <3>2. \A x \in S : f[x] \in Nat /\ h[x] = f[x]
        BY <2>4, <3>1, BoundsAssumption DEF Changed, TreeIInv
      <3> QED BY <3>1, <3>2, SumAgrees
    <2>7. ASSUME NEW x \in exists' \cap Below(d)
          PROVE  x \in w.seen \/ Up[x] \cap w.left # {}
      <3>1. CASE x \in exists
        BY <2>3, <3>1 DEF WarmIsRight, Covered
      <3>2. CASE x \notin exists
        <4>1. x \in Dir \ {Root} /\ Parent[x] \in D \cap exists /\ Up[x] = {x} \cup Up[Parent[x]]
          BY <3>2, UpStep DEF Changed
        <4>2. d \in Up[x] /\ x # d
          BY <2>0, <2>2, <3>2, <4>1, BelowFacts
        <4>3. Parent[x] \in Below(d)
          BY <2>0, <4>1, <4>2, BelowFacts, TreeAssumption
        <4>4. Parent[x] \notin w.seen
          BY <2>4, <4>1, <4>3
        <4> QED BY <2>3, <4>1, <4>3, <4>4 DEF WarmIsRight, Covered
      <3> QED BY <3>1, <3>2
    <2> QED BY <2>3, <2>5, <2>6, <2>7 DEF WarmIsRight
  <1> QED BY <1>0, <1>1, <1>2, <1>3 DEF WarmerIsRight, WarmIsRight, Covered, Shape, Below

\* One more directory adds its videos.
LEMMA FilesAdd ==
    ASSUME TreeIInv, NEW S \in SUBSET Dir, NEW e \in Dir \ S
    PROVE  Sum(files, S \cup {e}) = Sum(files, S) + files[e]
  <1> PICK f : f = files
    OBVIOUS
  <1>1. \A x \in Dir : f[x] \in Nat
    BY BoundsAssumption DEF TreeIInv
  <1>2. Sum(f, S \cup {e}) = Sum(f, S) + f[e]
    BY <1>1, SumAdd, TreeAssumption
  <1> QED BY <1>2

\* The walk has been everywhere above a directory it is about to visit, and nowhere below.
LEMMA WarmShape ==
    ASSUME NEW u \in Warmers, Shape(warm[u].left, warm[u].seen, Dir), NEW e \in warm[u].left
    PROVE  /\ e \in Dir /\ e \notin warm[u].seen
           /\ \A d \in Up[e] \ {e} : d \in warm[u].seen
           /\ warm[u].seen \cap Below(e) = {}
  <1>1. e \in Dir /\ e \notin warm[u].seen
    BY DEF Shape
  <1>2. \A d \in Up[e] \ {e} : d \in warm[u].seen
    BY <1>1, UpInDir DEF Shape
  <1>3. \A x \in warm[u].seen \cap Below(e) : e \in warm[u].seen
    BY <1>1 DEF Shape, Below
  <1> QED BY <1>1, <1>2, <1>3

\* A visit adds the directory's number to every directory above; a failed one is an error of theirs.
LEMMA WarmStepVisit ==
    ASSUME TreeIInv, WorkIInv, WarmIInv, NEW u \in Warmers, NEW e \in Dir, WarmVisit(u, e)
    PROVE  WarmerIsRight(u)'
  <1>0. /\ e \in warm[u].left
        /\ warm'[u].seen = warm[u].seen \cup {e} /\ warm'[u].raced = warm[u].raced
        /\ warm'[u].sig = [warm[u].sig EXCEPT ![e] = IF e \in exists THEN version[e] ELSE 0]
        /\ \/ /\ e \in exists /\ warm'[u].left = (warm[u].left \ {e}) \cup Children(e)
              /\ warm'[u].errors = warm[u].errors
              /\ warm'[u].found = [d \in Dir |-> warm[u].found[d]
                                                + IF d \in Up[e] THEN files[e] ELSE 0]
           \/ /\ warm'[u].left = warm[u].left \ {e} /\ warm'[u].errors = warm[u].errors \cup Up[e]
              /\ warm'[u].found = warm[u].found
    BY VisitedWarm
  <1>1. UNCHANGED <<exists, files, version>>
    BY DEF WarmVisit, tree
  <1>2. /\ Shape(warm[u].left, warm[u].seen, Dir) /\ \A d \in Dir \ warm[u].seen : warm[u].found[d] = 0
        /\ \A d \in Dir : warm[u].sig[d] <= version[d]
    BY DEF WarmIInv, WarmerIsRight
  <1>3. /\ e \notin warm[u].seen /\ warm[u].seen \cap Below(e) = {}
        /\ \A d \in Up[e] \ {e} : d \in warm[u].seen
    BY <1>0, <1>2, WarmShape
  <1>4. /\ warm[u].found \in [Dir -> Nat] /\ warm[u].sig \in [Dir -> Nat] /\ warm[u].seen \in SUBSET Dir
        /\ files[e] \in Nat /\ version \in [Dir -> Nat]
    BY BoundsAssumption DEF WorkIInv, WarmWalk, TreeIInv
  <1>5. Shape(warm'[u].left, warm'[u].seen, Dir)
    <2>1. Children(e) \in SUBSET {c \in Dir \ {Root} : Parent[c] = e}
      BY DEF Children, TreeIInv
    <2>2. Dir \in SUBSET Dir /\ \A c \in Dir \ {Root} : Parent[c] \in Dir => c \in Dir
      OBVIOUS
    <2>3. Shape((warm[u].left \ {e}) \cup Children(e), warm[u].seen \cup {e}, Dir)
      BY <1>0, <1>2, <2>1, <2>2, ShapeGrows
    <2>4. Shape((warm[u].left \ {e}) \cup {}, warm[u].seen \cup {e}, Dir)
      BY <1>0, <1>2, <2>2, ShapeGrows
    <2>5. (warm[u].left \ {e}) \cup {} = warm[u].left \ {e}
      OBVIOUS
    <2> QED BY <1>0, <2>3, <2>4, <2>5
  <1>6. \A d \in Dir : warm'[u].sig[d] <= version'[d]
    BY <1>0, <1>1, <1>2, <1>4
  <1>7. \A d \in Dir \ warm'[u].seen : warm'[u].found[d] = 0
    <2> SUFFICES ASSUME NEW d \in Dir \ warm'[u].seen PROVE warm'[u].found[d] = 0
      OBVIOUS
    <2>1. d \notin Up[e] /\ warm[u].found[d] = 0
      BY <1>0, <1>2, <1>3
    <2> QED BY <1>0, <1>4, <2>1
  <1>8. ASSUME NEW d \in (warm'[u].seen \cap exists) \ (warm'[u].raced \cup warm'[u].errors),
               warm'[u].sig[d] = version[d]
        PROVE  /\ warm'[u].seen \cap Below(d) \subseteq exists
               /\ warm'[u].found[d] = Sum(files, warm'[u].seen \cap Below(d))
               /\ Covered(warm'[u].left, warm'[u].seen, Below(d))
    <2>0. d \in Dir /\ d \notin warm[u].raced \cup warm[u].errors
      BY <1>0, <1>8 DEF TreeIInv
    <2>1. CASE d = e
      <3>0. e \in exists /\ warm'[u].left = (warm[u].left \ {e}) \cup Children(e)
            /\ warm'[u].found[e] = warm[u].found[e] + files[e]
        BY <1>0, <1>4, <1>8, <2>1, UpStep
      <3>1. warm'[u].seen \cap Below(e) = {} \cup {e}
        BY <1>0, <1>3, BelowFacts
      <3>2. Sum(files, {} \cup {e}) = 0 + files[e]
        <4> PICK f : f = files
          OBVIOUS
        <4>1. \A x \in Dir : f[x] \in Nat
          BY BoundsAssumption DEF TreeIInv
        <4>2. {} \in SUBSET Dir /\ e \in Dir \ {}
          OBVIOUS
        <4>3. Sum(f, {} \cup {e}) = Sum(f, {}) + f[e]
          BY <4>1, <4>2, SumAdd, TreeAssumption
        <4> QED BY <4>3, SumOfNothing
      <3>3. Covered(warm'[u].left, warm'[u].seen, Below(e))
        <4> SUFFICES ASSUME NEW x \in exists \cap Below(e), x \notin warm'[u].seen
                     PROVE  Up[x] \cap warm'[u].left # {}
          BY DEF Covered
        <4>1. x # e /\ Up[x] \cap warm[u].left # {}
          BY <1>0 DEF Below
        <4> QED BY <1>0, <3>0, <4>1, CoverGrows
      <3> QED BY <1>2, <1>3, <1>4, <2>1, <3>0, <3>1, <3>2, <3>3
    <2>2. CASE d # e
      <3>0. WarmIsRight(u, d) /\ d \in warm[u].seen
        BY <1>0, <1>4, <1>8, <2>0, <2>2 DEF WarmIInv, WarmerIsRight
      <3>1. d \notin Below(e)
        BY <1>3, <3>0
      <3>2. CASE d \in Up[e]
        <4>0. e \in exists /\ warm'[u].left = (warm[u].left \ {e}) \cup Children(e)
              /\ warm'[u].found[d] = warm[u].found[d] + files[e]
          BY <1>0, <1>4, <1>8, <2>0, <3>2
        <4>1. warm'[u].seen \cap Below(d) = (warm[u].seen \cap Below(d)) \cup {e}
          BY <1>0, <2>0, <3>2, BelowFacts
        <4>2. Sum(files, (warm[u].seen \cap Below(d)) \cup {e})
                = Sum(files, warm[u].seen \cap Below(d)) + files[e]
          <5> PICK S \in SUBSET Dir : S = warm[u].seen \cap Below(d)
            BY <1>4
          <5>1. e \in Dir \ S
            BY <1>3
          <5> QED BY <5>1, FilesAdd
        <4>3. Covered(warm'[u].left, warm'[u].seen, Below(d))
          <5> SUFFICES ASSUME NEW x \in exists \cap Below(d), x \notin warm'[u].seen
                       PROVE  Up[x] \cap warm'[u].left # {}
            BY DEF Covered
          <5>1. x # e /\ Up[x] \cap warm[u].left # {}
            BY <1>0, <3>0 DEF WarmIsRight, Covered
          <5> QED BY <1>0, <4>0, <5>1, CoverGrows
        <4> QED BY <3>0, <4>0, <4>1, <4>2, <4>3 DEF WarmIsRight
      <3>3. CASE d \notin Up[e]
        <4>1. warm'[u].found[d] = warm[u].found[d]
          BY <1>0, <1>4, <2>0, <3>3
        <4>2. e \notin Below(d) /\ warm'[u].seen \cap Below(d) = warm[u].seen \cap Below(d)
          BY <1>0, <3>3 DEF Below
        <4>3. Covered(warm'[u].left, warm'[u].seen, Below(d))
          <5> SUFFICES ASSUME NEW x \in exists \cap Below(d), x \notin warm'[u].seen
                       PROVE  Up[x] \cap warm'[u].left # {}
            BY DEF Covered
          <5>1. PICK l \in Up[x] : l \in warm[u].left
            BY <1>0, <3>0 DEF WarmIsRight, Covered
          <5>2. l # e
            <6> SUFFICES ASSUME e \in Up[x] PROVE FALSE
              BY <5>1
            <6>1. x \in Dir /\ d \in Up[x]
              BY DEF Below
            <6>2. e \in Up[d]
              BY <3>3, <6>1, UpLinear
            <6>3. d \in Below(e)
              BY <2>0, <6>2 DEF Below
            <6> QED BY <3>1, <6>3
          <5> QED BY <1>0, <5>1, <5>2
        <4> QED BY <3>0, <4>1, <4>2, <4>3 DEF WarmIsRight
      <3> QED BY <3>2, <3>3
    <2> QED BY <2>1, <2>2
  <1>9. \A d \in (warm'[u].seen \cap exists') \ (warm'[u].raced \cup warm'[u].errors) :
            warm'[u].sig[d] = version'[d] => WarmIsRight(u, d)'
    BY <1>1, <1>8 DEF WarmIsRight, Covered, Below
  <1>10. Shape(warm[u].left, warm[u].seen, Dir)'
    BY <1>5 DEF Shape
  <1> QED BY <1>6, <1>7, <1>9, <1>10 DEF WarmerIsRight

\* Every walk that warms the cache stays right.
LEMMA WarmStep ==
    ASSUME TreeIInv, WorkIInv, WarmIInv, [Next]_vars
    PROVE  WarmIInv'
  <1> SUFFICES ASSUME NEW u \in Warmers PROVE WarmerIsRight(u)'
    BY DEF WarmIInv
  <1>1. CASE Changes
    BY <1>1, WarmStepChange
  <1>2. CASE ~Changes
    <2>0. UNCHANGED <<exists, files, version>> /\ version \in [Dir -> Nat] /\ WarmerIsRight(u)
      BY <1>2, OnlyChangesChange DEF tree, TreeIInv, WarmIInv
    <2>1. CASE warm'[u] = warm[u]
      BY <2>0, <2>1 DEF WarmerIsRight, WarmIsRight, Covered, Shape, Below
    <2>2. CASE warm'[u] = Warming \/ warm'[u] = NotWarming
      <3>1. /\ warm'[u].seen = {} /\ warm'[u].left \subseteq {Root}
            /\ \A d \in Dir : warm'[u].found[d] = 0 /\ warm'[u].sig[d] = 0
        <4>1. CASE warm'[u] = Warming
          BY <4>1 DEF Warming, NotWarming
        <4>2. CASE warm'[u] = NotWarming
          BY <4>2 DEF NotWarming
        <4> QED BY <2>2, <4>1, <4>2
      <3>2. Shape(warm'[u].left, {}, Dir)
        BY <3>1, UpStep, TreeAssumption DEF Shape
      <3> QED BY <2>0, <3>1, <3>2 DEF WarmerIsRight, Shape
    <2>3. CASE \E e \in Dir : WarmPopulates(u, e)
      <3>1. /\ warm'[u].seen = warm[u].seen /\ warm'[u].left = warm[u].left
            /\ warm'[u].found = warm[u].found /\ warm'[u].sig = warm[u].sig
            /\ warm'[u].raced = warm[u].raced /\ warm'[u].errors = warm[u].errors
        BY <2>3 DEF WarmPopulates, WorkIInv, WarmWalk
      <3> QED BY <2>0, <3>1 DEF WarmerIsRight, WarmIsRight, Covered, Shape, Below
    <2>4. CASE \E e \in Dir : WarmVisit(u, e)
      BY <2>4, WarmStepVisit
    <2> QED BY <1>2, <2>1, <2>2, <2>3, <2>4, WarmCases
  <1> QED BY <1>1, <1>2

-----------------------------------------------------------------------------
(* What is shown as ready.                                                 *)

\* The total below a directory stays the same when nothing below it changes.
LEMMA TotalStays ==
    ASSUME TreeIInv, NEW d \in exists,
           exists' \cap Below(d) = exists \cap Below(d),
           \A x \in exists \cap Below(d) : files'[x] = files[x]
    PROVE  Total(d)' = Total(d)
  <1> PICK S : S = Below(d) \cap exists
    OBVIOUS
  <1> PICK f : f = files
    OBVIOUS
  <1> PICK h : h = files'
    OBVIOUS
  <1>1. S \in SUBSET Dir /\ IsFiniteSet(S)
    BY FS_Subset, TreeAssumption DEF TreeIInv
  <1>2. \A x \in S : f[x] \in Nat /\ h[x] = f[x]
    BY BoundsAssumption DEF TreeIInv
  <1>3. Sum(h, S) = Sum(f, S)
    BY <1>1, <1>2, SumAgrees
  <1>4. Below(d)' = Below(d)
    BY DEF Below
  <1>5. Total(d)' = Sum(h, Below(d) \cap exists')
    BY <1>4 DEF Total
  <1> QED BY <1>3, <1>5 DEF Total

\* An entry that is ready after a step was ready before it, unless a walk has just made it.
LEMMA WasReady ==
    ASSUME CacheIInv, WorkIInv, [Next]_vars, NEW d \in Dir, cache'[d].state = "ready",
           ~Walked(d), ~Warmed(d)
    PROVE  cache[d].state = "ready" /\ cache'[d].sig = cache[d].sig
           /\ cache'[d].count = cache[d].count /\ (cache[d].raced => cache'[d].raced)
  <1> PICK c \in Entry : c = cache[d]
    BY DEF CacheIInv
  <1>1. CASE cache'[d] = cache[d]
    BY <1>1
  <1>2. CASE Kept(d)
    BY <1>2 DEF Kept, Entry
  <1>3. ~Unready(d)
    <2> SUFFICES ASSUME NEW s \in {"unknown", "stale", "error"}, cache'[d] = Becomes(c, s)
                 PROVE  FALSE
      BY DEF Unready
    <2>1. cache'[d].state = s
      BY DEF Becomes, Entry
    <2> QED BY <2>1
  <1>4. ~Pruned(d)
    BY DEF Pruned, Absent
  <1>5. ~Restored(d)
    <2>1. cache'[d] = Absent => cache'[d].state = "absent"
      BY DEF Absent
    <2>2. \A n : [Becomes(Absent, "stale") EXCEPT !.count = n, !.known = TRUE].state = "stale"
      BY DEF Becomes, Absent
    <2> QED BY <2>1, <2>2 DEF Restored
  <1> QED BY <1>1, <1>2, <1>3, <1>4, <1>5, EntryStep

\* A change nobody announces: what was fresh above it may be wrong from now on.
LEMMA UnannouncedKeeps ==
    ASSUME CacheIInv, NEW y \in Dir, Unannounced(y), NEW d \in Dir, ~cache'[d].raced
    PROVE  /\ cache'[d].state = cache[d].state /\ cache'[d].sig = cache[d].sig
           /\ cache'[d].count = cache[d].count
           /\ ~cache[d].raced /\ ~(Fresh(d) /\ d \in Up[y] \ {y})
  <1> PICK c \in Entry : c = cache[d]
    BY DEF CacheIInv
  <1> PICK b \in BOOLEAN : b = (c.raced \/ (Fresh(d) /\ d \in Up[y] \ {y}))
    OBVIOUS
  <1>1. cache'[d] = [c EXCEPT !.raced = b]
    BY DEF Unannounced
  <1>2. ~b => ~c.raced /\ ~(Fresh(d) /\ d \in Up[y] \ {y})
    OBVIOUS
  <1> QED BY <1>1, <1>2 DEF Entry

\* A file that comes or goes: an entry that is still fresh is not above it.
LEMMA ReadyStepRefill ==
    ASSUME TreeIInv, CacheIInv, ReadyIsRight, NEW x \in Dir, FilesChange(x) \/ JobReplaces(x),
           NEW d \in exists', Fresh(d)', ~cache'[d].raced, toMark' \cap Below(d) = {}
    PROVE  cache'[d].count = Total(d)'
  <1>0. /\ exists' = exists /\ d \in Dir /\ x \in exists /\ version \in [Dir -> Nat]
        /\ version' = [version EXCEPT ![x] = @ + 1]
        /\ \A e \in Dir \ {x} : files'[e] = files[e]
    BY DEF FilesChange, JobReplaces, Refill, TreeIInv
  <1>1. /\ cache'[d].state = cache[d].state /\ cache'[d].sig = cache[d].sig
        /\ cache'[d].count = cache[d].count /\ ~cache[d].raced
        /\ FilesChange(x) => ~(Fresh(d) /\ d \in Up[x] \ {x})
        /\ JobReplaces(x) => x \notin Below(d)
        /\ toMark \cap Below(d) = {}
    <2>1. CASE FilesChange(x)
      <3>1. Unannounced(x) /\ toMark' = toMark
        BY <2>1 DEF FilesChange, calls
      <3>2. ~JobReplaces(x) \/ cache' = cache
        BY DEF JobReplaces
      <3>3. ~JobReplaces(x) \/ x \notin Below(d)
        BY DEF JobReplaces
      <3> QED BY <1>0, <3>1, <3>2, <3>3, UnannouncedKeeps
    <2>2. CASE JobReplaces(x)
      <3>1. cache' = cache /\ toMark' = toMark \cup {x}
        BY <2>2 DEF JobReplaces
      <3>2. FilesChange(x) => Unannounced(x)
        BY DEF FilesChange
      <3> QED BY <1>0, <3>1, <3>2, UnannouncedKeeps
    <2> QED BY <2>1, <2>2
  <1>2. d # x
    <2> SUFFICES ASSUME d = x PROVE FALSE
      OBVIOUS
    <2>1. cache[d].sig \in Nat /\ cache[d].sig <= version[d] /\ version'[d] = version[d] + 1
          /\ version[d] \in Nat
      BY <1>0 DEF CacheIInv, Entry
    <2>2. cache[d].sig = version'[d]
      BY <1>1 DEF Fresh
    <2> QED BY <2>1, <2>2
  <1>3. Fresh(d)
    BY <1>0, <1>1, <1>2 DEF Fresh
  <1>4. x \notin Below(d)
    BY <1>1, <1>2, <1>3 DEF Below
  <1>5. Total(d)' = Total(d)
    BY <1>0, <1>4, TotalStays DEF Below
  <1> QED BY <1>0, <1>1, <1>3, <1>5 DEF ReadyIsRight

\* The directory that goes is not above the entry's, nor below it.
LEMMA ReadyStepRemove ==
    ASSUME TreeIInv, CacheIInv, ReadyIsRight, NEW x \in Dir, RemoveDir(x),
           NEW d \in exists', Fresh(d)', ~cache'[d].raced, toMark' \cap Below(d) = {}
    PROVE  cache'[d].count = Total(d)'
  <1>0. /\ exists' = exists \ Below(x) /\ d \in exists /\ d \in Dir /\ x \in Dir \ {Root}
        /\ version \in [Dir -> Nat] /\ Parent[x] \in Dir
        /\ \A e \in Dir \ Below(x) : files'[e] = files[e]
        /\ Unannounced(Parent[x]) /\ toMark' = toMark
    BY TreeAssumption DEF RemoveDir, TreeIInv, calls
  <1>1. /\ cache'[d].state = cache[d].state /\ cache'[d].sig = cache[d].sig
        /\ cache'[d].count = cache[d].count /\ ~cache[d].raced
        /\ ~(Fresh(d) /\ d \in Up[Parent[x]] \ {Parent[x]})
    BY <1>0, UnannouncedKeeps
  <1>2. d # Parent[x] /\ version'[d] = version[d]
    <2>1. cache[d].sig \in Nat /\ cache[d].sig <= version[d] /\ version[d] \in Nat
      BY <1>0 DEF CacheIInv, Entry
    <2>2. cache[d].sig = version'[d]
      BY <1>1 DEF Fresh
    <2>3. version'[d] = version[d] + IF d \in Below(x) \cup {Parent[x]} THEN 1 ELSE 0
      BY <1>0 DEF RemoveDir
    <2>4. CASE d \in Below(x) \cup {Parent[x]}
      BY <2>1, <2>2, <2>3, <2>4
    <2>5. CASE d \notin Below(x) \cup {Parent[x]}
      BY <2>1, <2>3, <2>5
    <2> QED BY <2>4, <2>5
  <1>3. Fresh(d)
    BY <1>1, <1>2 DEF Fresh
  <1>4. d \notin Up[x]
    <2>1. d # x /\ Up[x] = {x} \cup Up[Parent[x]]
      BY <1>0, BelowFacts, UpStep
    <2> QED BY <1>1, <1>2, <1>3, <2>1
  <1>5. Below(d) \cap Below(x) = {}
    <2> SUFFICES ASSUME NEW e \in Below(d) \cap Below(x) PROVE FALSE
      OBVIOUS
    <2>1. e \in Dir /\ d \in Up[e] /\ x \in Up[e]
      BY DEF Below
    <2>2. x \in Up[d]
      BY <1>4, <2>1, UpLinear
    <2> QED BY <1>0, <2>2 DEF Below
  <1>6. Total(d)' = Total(d)
    <2>1. exists' \cap Below(d) = exists \cap Below(d)
      BY <1>0, <1>5
    <2>2. \A e \in exists \cap Below(d) : files'[e] = files[e]
      BY <1>0, <1>5 DEF TreeIInv
    <2> QED BY <1>0, <2>1, <2>2, TotalStays
  <1> QED BY <1>0, <1>1, <1>3, <1>6 DEF ReadyIsRight

\* A new directory is not below the entry's, or the entry is no longer fresh or is raced.
LEMMA ReadyStepMake ==
    ASSUME TreeIInv, CacheIInv, ReadyIsRight, NEW x \in Dir, MakeDir(x),
           NEW d \in exists', Fresh(d)', ~cache'[d].raced, toMark' \cap Below(d) = {}
    PROVE  cache'[d].count = Total(d)'
  <1>0. /\ exists' = exists \cup {x} /\ d \in Dir /\ x \in Dir \ {Root}
        /\ version \in [Dir -> Nat] /\ Parent[x] \in Dir /\ files' = files
        /\ Unannounced(Parent[x]) /\ toMark' = toMark
    BY TreeAssumption DEF MakeDir, TreeIInv, calls
  <1>1. /\ cache'[d].state = cache[d].state /\ cache'[d].sig = cache[d].sig
        /\ cache'[d].count = cache[d].count /\ ~cache[d].raced
        /\ ~(Fresh(d) /\ d \in Up[Parent[x]] \ {Parent[x]})
    BY <1>0, UnannouncedKeeps
  <1>2. d \notin {x, Parent[x]} /\ version'[d] = version[d]
    <2>1. cache[d].sig \in Nat /\ cache[d].sig <= version[d] /\ version[d] \in Nat
      BY <1>0 DEF CacheIInv, Entry
    <2>2. cache[d].sig = version'[d]
      BY <1>1 DEF Fresh
    <2>3. CASE d \in {x, Parent[x]}
      <3>1. version'[d] = version[d] + 1
        BY <1>0, <2>3, ChildFacts DEF MakeDir
      <3> QED BY <2>1, <2>2, <3>1
    <2>4. CASE d \notin {x, Parent[x]}
      BY <1>0, <2>4 DEF MakeDir
    <2> QED BY <2>3, <2>4
  <1>3. Fresh(d) /\ d \in exists
    BY <1>0, <1>1, <1>2 DEF Fresh
  <1>4. x \notin Below(d)
    <2>1. Up[x] = {x} \cup Up[Parent[x]]
      BY <1>0, UpStep
    <2> QED BY <1>1, <1>2, <1>3, <2>1 DEF Below
  <1>5. Total(d)' = Total(d)
    BY <1>0, <1>3, <1>4, TotalStays
  <1> QED BY <1>0, <1>1, <1>3, <1>5 DEF ReadyIsRight

\* A walk that ends well has counted everything below the directory.
LEMMA WalkedIsRight ==
    ASSUME TreeIInv, WalkIInv, NEW d \in Dir, Succeeds(d), ~walk[d].raced
    PROVE  walk[d].count = Total(d)
  <1>1. walk[d].on /\ ~walk[d].written /\ walk[d].left = {} /\ ~walk[d].failed /\ d \in exists
    BY DEF Succeeds, Writes
  <1>2. /\ walk[d].seen \subseteq exists /\ walk[d].count = Sum(files, walk[d].seen)
        /\ Covered({}, walk[d].seen, Below(d)) /\ walk[d].seen \subseteq Below(d)
    <2>1. WalkIsRight(d)
      BY DEF WalkIInv
    <2>2. Shape(walk[d].left, walk[d].seen, Below(d))
      BY <2>1 DEF WalkIsRight
    <2> QED BY <1>1, <2>1, <2>2 DEF WalkIsRight, Shape
  <1>3. walk[d].seen = Below(d) \cap exists
    BY <1>2 DEF Covered
  <1> QED BY <1>2, <1>3 DEF Total

\* So has a walk that warms the cache, for every directory it has met.
LEMMA WarmedIsRight ==
    ASSUME TreeIInv, WarmIInv, NEW u \in Warmers, NEW d \in exists, WarmPopulates(u, d),
           d \notin warm[u].raced \cup warm[u].errors, warm[u].sig[d] = version[d]
    PROVE  warm[u].found[d] = Total(d)
  <1>1. d \in warm[u].seen /\ warm[u].left = {}
    BY DEF WarmPopulates
  <1>2. WarmIsRight(u, d)
    BY <1>1 DEF WarmIInv, WarmerIsRight
  <1>3. warm[u].seen \cap Below(d) = Below(d) \cap exists
    BY <1>1, <1>2 DEF WarmIsRight, Covered
  <1> QED BY <1>2, <1>3 DEF WarmIsRight, Total

\* InvalidateCache takes what it takes off its list out of use.
LEMMA MarksKept ==
    ASSUME [Next]_vars, ~Changes, CacheIInv, NEW d \in Dir, cache'[d].state = "ready"
    PROVE  toMark' \cap Below(d) = toMark \cap Below(d)
  <1>1. CASE toMark' = toMark
    BY <1>1
  <1>2. ASSUME NEW e \in Dir, InvalidateCache(e)
        PROVE  toMark' \cap Below(d) = toMark \cap Below(d)
    <2>1. CASE d \in Up[e]
      <3>1. cache'[d] = Marked(cache[d])
        BY <1>2, <2>1 DEF InvalidateCache
      <3> PICK c \in Entry : c = cache[d]
        BY DEF CacheIInv
      <3>2. Marked(c).state # "ready"
        BY DEF Marked, Becomes, Entry
      <3> QED BY <3>1, <3>2
    <2>2. CASE d \notin Up[e]
      BY <1>2, <2>2 DEF InvalidateCache, Below
    <2> QED BY <2>1, <2>2
  <1>3. ~Restart
    <2> SUFFICES ASSUME Restart PROVE FALSE
      OBVIOUS
    <2>1. cache'[d] = IF saved[d] = -1 THEN Absent
                      ELSE [Becomes(Absent, "stale") EXCEPT !.count = saved[d], !.known = TRUE]
      BY DEF Restart
    <2>2. Absent.state = "absent"
      BY DEF Absent
    <2>3. \A n : [Becomes(Absent, "stale") EXCEPT !.count = n, !.known = TRUE].state = "stale"
      BY DEF Becomes, Absent
    <2> QED BY <2>1, <2>2, <2>3
  <1> USE DEF calls
  <1>4. CASE Take \/ \E e \in Dir : Visit(e) \/ VisitFails(e) \/ Succeeds(e) \/ Fails(e) \/ Returns(e)
    BY <1>1, <1>4 DEF Take, Visit, VisitFails, Succeeds, Fails, Writes, Returns
  <1>5. CASE \E e \in Dir : Enqueue(e) \/ GetDirCount(e) \/ Reconcile(e)
    BY <1>1, <1>5 DEF Enqueue, GetDirCount, Reconcile
  <1>6. CASE \E u \in Warmers : Warms(u) \/ ClearCache(u)
    BY <1>1, <1>6, WarmsKeep
  <1>7. CASE Export \/ UNCHANGED vars
    BY <1>1, <1>7 DEF Export, vars
  <1> QED BY <1>2, <1>3, <1>4, <1>5, <1>6, <1>7 DEF Next, Goes

\* What is shown as ready stays right.
LEMMA ReadyStep ==
    ASSUME TreeIInv, CacheIInv, WorkIInv, WalkIInv, WarmIInv, ReadyIsRight, [Next]_vars
    PROVE  ReadyIsRight'
  <1> SUFFICES ASSUME NEW d \in exists', Fresh(d)', ~cache'[d].raced, toMark' \cap Below(d) = {}
               PROVE  cache'[d].count = Total(d)'
    BY DEF ReadyIsRight, Below
  <1>1. CASE Changes
    BY <1>1, ReadyStepRefill, ReadyStepRemove, ReadyStepMake DEF Changes
  <1>2. CASE ~Changes
    <2>0. exists' = exists /\ version' = version /\ Total(d)' = Total(d) /\ d \in Dir /\ d \in exists
      BY <1>2, OnlyChangesChange DEF tree, Total, Below, TreeIInv
    <2>1. cache'[d].state = "ready" /\ cache'[d].sig = version[d]
      BY <2>0 DEF Fresh
    <2>2. CASE Walked(d)
      <3>1. Succeeds(d) /\ cache'[d].count = walk[d].count /\ cache'[d].raced = walk[d].raced
        BY <2>2 DEF Walked
      <3> QED BY <2>0, <3>1, WalkedIsRight
    <2>3. CASE Warmed(d)
      <3> PICK u \in Warmers : WarmPopulates(u, d) /\ cache'[d] = Found(u, d)
        BY <2>3 DEF Warmed
      <3>1. /\ cache'[d].count = warm[u].found[d] /\ cache'[d].sig = warm[u].sig[d]
            /\ cache'[d].raced = (d \in warm[u].raced \cup warm[u].errors)
        BY DEF Found
      <3> QED BY <2>0, <2>1, <3>1, WarmedIsRight
    <2>4. CASE ~Walked(d) /\ ~Warmed(d)
      <3>1. /\ cache[d].state = "ready" /\ cache'[d].sig = cache[d].sig
            /\ cache'[d].count = cache[d].count /\ ~cache[d].raced
        BY <2>0, <2>1, <2>4, WasReady
      <3>2. toMark \cap Below(d) = {}
        BY <1>2, <2>0, <2>1, MarksKept
      <3> QED BY <2>0, <2>1, <3>1, <3>2 DEF ReadyIsRight, Fresh
    <2> QED BY <2>2, <2>3, <2>4
  <1> QED BY <1>1, <1>2

-----------------------------------------------------------------------------
(* The theorems.                                                           *)

\* The inductive invariant.
CountsIInv ==
    TreeIInv /\ CacheIInv /\ WorkIInv /\ WalkIInv /\ WarmIInv /\ ReadyIsRight

\* main.go, at the start of a new database.
LEMMA CountsInit == Init => CountsIInv
  <1> SUFFICES ASSUME Init PROVE CountsIInv
    OBVIOUS
  <1> USE DEF Init
  <1>1. TreeIInv
    BY UpInDir, TreeAssumption, BoundsAssumption DEF TreeIInv
  <1>2. CacheIInv
    BY DEF CacheIInv, Absent, Entry
  <1>3. WorkIInv
    <2>1. NoWalk \in Walk /\ Warming \in WarmWalk /\ NotWarming \in WarmWalk
      BY TreeAssumption DEF NoWalk, Walk, Warming, NotWarming, WarmWalk
    <2>2. Sum(working, Dir) = 0
      <3> PICK f : f = [d \in Dir |-> 0]
        OBVIOUS
      <3>1. Sum(f, Dir) = 0
        BY SumOfZeros, TreeAssumption
      <3> QED BY <3>1
    <2> QED BY <2>1, <2>2, SizesAssumption DEF WorkIInv, NoWalk
  <1>4. WalkIInv
    BY DEF WalkIInv, WalkIsRight, NoWalk, Shape
  <1>5. WarmIInv
    <2> SUFFICES ASSUME NEW u \in Warmers PROVE WarmerIsRight(u)
      BY DEF WarmIInv
    <2>1. /\ warm[u].seen = {} /\ warm[u].left \subseteq {Root}
          /\ \A d \in Dir : warm[u].found[d] = 0 /\ warm[u].sig[d] = 0
      BY DEF Warming, NotWarming
    <2>2. Shape(warm[u].left, {}, Dir)
      BY <2>1, UpStep, TreeAssumption DEF Shape
    <2>3. \A d \in Dir : warm[u].sig[d] <= version[d]
      BY <2>1
    <2> QED BY <2>1, <2>2, <2>3 DEF WarmerIsRight
  <1>6. ReadyIsRight
    BY DEF ReadyIsRight, Fresh, Absent
  <1> QED BY <1>1, <1>2, <1>3, <1>4, <1>5, <1>6 DEF CountsIInv

\* The inductive invariant of the directory counts.
THEOREM CountsInductiveInvariant == Spec => []CountsIInv
  <1>1. CountsIInv /\ [Next]_vars => CountsIInv'
    BY TreeStep, CacheStep, WorkStep, WalkStep, WarmStep, ReadyStep DEF CountsIInv
  <1> QED BY <1>1, CountsInit, PTL DEF Spec

\* Types, and the shape of the work.
THEOREM CountsTypeCorrect == Spec => []TypeOK
  <1>1. CountsIInv => TypeOK
    <2> SUFFICES ASSUME CountsIInv PROVE TypeOK
      OBVIOUS
    <2>1. \A d \in exists \ {Root} : Parent[d] \in exists
      BY UpStep, TreeAssumption DEF CountsIInv, TreeIInv
    <2>2. Sum(working, Dir) \in 0 .. Workers
      <3>1. working \in [Dir -> Nat] /\ Sum(working, Dir) <= Workers
        BY DEF CountsIInv, WorkIInv
      <3> PICK f \in [Dir -> Nat] : f = working
        BY <3>1
      <3>2. Sum(f, Dir) \in Nat
        BY SumAdds, TreeAssumption
      <3> QED BY <3>1, <3>2, SizesAssumption
    <2>3. Len(queue) <= QueueSize /\ \A i \in DOMAIN queue : queue[i] \in Dir
      BY DEF CountsIInv, WorkIInv
    <2> QED BY <2>1, <2>2, <2>3 DEF TypeOK, CountsIInv, TreeIInv, CacheIInv, WorkIInv
  <1> QED BY <1>1, CountsInductiveInvariant, PTL

\* A count shown as ready is the number of videos below, but for unannounced changes.
THEOREM ReadyIsRightCorrect == Spec => []ReadyIsRight
  <1>1. CountsIInv => ReadyIsRight
    BY DEF CountsIInv
  <1> QED BY <1>1, CountsInductiveInvariant, PTL

\* The last count is never lost, but where WarmCountCache could not read: for any tree and
\* any number of walks at a time.
THEOREM KeepsLastCountCorrect == Spec => KeepsLastCount
  <1> DEFINE Excused(d) == \E w \in Warmers : WarmPopulates(w, d) /\ d \in warm[w].errors
             Keeps(d) == LastCountKept(d) \/ Excused(d)
  <1>1. ASSUME CountsIInv, [Next]_vars, NEW d \in Dir, cache[d].known
        PROVE  Keeps(d)
    <2>0. CacheIInv /\ WorkIInv
      BY <1>1 DEF CountsIInv
    <2> PICK c \in Entry : c = cache[d]
      BY <2>0 DEF CacheIInv
    <2>1. CASE cache'[d] = cache[d]
      BY <1>1, <2>1 DEF LastCountKept
    <2>2. CASE Kept(d)
      <3>1. cache'[d].known /\ cache'[d].count = cache[d].count
        BY <1>1, <2>2 DEF Kept, Entry
      <3> QED BY <3>1 DEF LastCountKept
    <2>3. CASE Unready(d)
      <3>1. PICK s \in {"unknown", "stale", "error"} : cache'[d] = Becomes(c, s)
        BY <2>3 DEF Unready
      <3>2. Becomes(c, s).known = c.known /\ Becomes(c, s).count = c.count
        BY DEF Becomes, Entry
      <3>3. cache'[d].known /\ cache'[d].count = cache[d].count
        BY <1>1, <3>1, <3>2
      <3> QED BY <3>3 DEF LastCountKept
    <2>4. CASE Walked(d)
      BY <2>4 DEF Walked, LastCountKept
    <2>5. CASE Warmed(d)
      <3> PICK u \in Warmers : WarmPopulates(u, d) /\ cache'[d] = Found(u, d)
        BY <2>5 DEF Warmed
      <3>1. cache'[d].count = warm[u].found[d]
        BY DEF Found
      <3> QED BY <3>1 DEF LastCountKept
    <2>6. CASE Pruned(d)
      BY <2>6 DEF Pruned, LastCountKept
    <2>7. CASE Restored(d)
      BY <2>7 DEF Restored, LastCountKept
    <2> QED BY <1>1, <2>0, <2>1, <2>2, <2>3, <2>4, <2>5, <2>6, <2>7, EntryStep
  <1>2. CountsIInv /\ [Next]_vars
          => [\A d \in Dir : cache[d].known =>
                LastCountKept(d) \/ \E w \in Warmers : WarmPopulates(w, d) /\ d \in warm[w].errors]_vars
    BY <1>1
  <1> QED BY <1>2, CountsInductiveInvariant, PTL DEF Spec, KeepsLastCount
=============================================================================
