-------------------------------- MODULE Sums --------------------------------
(***************************************************************************)
(* Induction over numbers and finite sets, from the theorems that need no  *)
(* operator as a parameter, and what it shows of sums over finite sets.    *)
(***************************************************************************)
EXTENDS Integers, Functions, FiniteSetTheorems, TLAPS

(* Every non-empty set of natural numbers has a least member.              *)
LEMMA Least ==
    ASSUME NEW S, S \subseteq Nat, S # {}
    PROVE  \E n \in S : \A m \in S : n <= m
<1> DEFINE R == OpToRel(<, Nat)
           Below == {ss \in Nat \X Nat : ss[1] < ss[2]}
<1>1. IsWellFoundedOn(R, Nat)
  BY NatLessThanWellFounded
<1>2. R = Below
  BY Zenon DEF OpToRel
<1>3. IsWellFoundedOn(Below, Nat)
  BY <1>1, <1>2, Zenon
<1> HIDE DEF R
<1>4. PICK x \in S : \A y \in S : ~ (<<y, x>> \in Below)
  <2> HIDE DEF Below
  <2> QED BY <1>3, WFMin
<1>5. ASSUME NEW y \in S PROVE x <= y
  <2>1. x \in Nat /\ y \in Nat
    OBVIOUS
  <2>2. <<y, x>> \notin Below
    BY <1>4
  <2>3. ~(y < x)
    BY <2>1, <2>2
  <2> QED BY <2>1, <2>3
<1> QED BY <1>5

(* Every non-empty set of subsets of a finite set has a minimal member.    *)
LEMMA Minimal ==
    ASSUME NEW S, IsFiniteSet(S), NEW T, T \subseteq SUBSET S, T # {}
    PROVE  \E x \in T : \A y \in T : ~(y \subseteq x /\ x # y)
<1>1. T \subseteq FiniteSubsetsOf(S)
  BY FS_Subset DEF FiniteSubsetsOf
<1>2. PICK x \in T : \A y \in T : <<y, x>> \notin StrictSubsetOrdering(S)
  BY <1>1, FS_StrictSubsetOrderingWellFounded, WFMin
<1> QED BY <1>2 DEF StrictSubsetOrdering

(* Every non-empty finite set of natural numbers has a greatest member.    *)
LEMMA Greatest ==
    ASSUME NEW S, IsFiniteSet(S), S # {}
    PROVE  S \subseteq Nat => \E n \in S : \A m \in S : m <= n
<1> DEFINE Above(n) == {m \in S : m > n}
           T == {Above(n) : n \in S}
<1>1. T \subseteq SUBSET S /\ T # {}
  OBVIOUS
<1>2. PICK x \in T : \A y \in T : ~(y \subseteq x /\ x # y)
  <2> HIDE DEF T
  <2> QED BY <1>1, Minimal
<1>3. PICK n \in S : x = Above(n)
  BY <1>2
<1>4. ASSUME S \subseteq Nat, NEW m \in S, m > n PROVE FALSE
  <2>1. m \in Above(n) /\ m \notin Above(m)
    BY <1>4
  <2>2. Above(m) \subseteq Above(n)
    <3>1. \A q \in S : q \in Nat /\ m \in Nat /\ n \in Nat
      BY <1>4
    <3>2. \A q \in S : q > m => q > n
      BY <1>4, <3>1
    <3> QED BY <3>2
  <2>3. Above(m) \in T
    OBVIOUS
  <2> QED BY <1>2, <1>3, <2>1, <2>2, <2>3
<1>5. ASSUME S \subseteq Nat, NEW m \in S PROVE m <= n
  <2>1. m \in Nat /\ n \in Nat /\ ~(m > n)
    BY <1>4, <1>5
  <2> QED BY <2>1
<1> QED BY <1>5

(* The members of a finite set of numbers, counted from the least.         *)
LEMMA Ranked ==
    ASSUME NEW S, S \subseteq Nat, IsFiniteSet(S), NEW k \in 1..Cardinality(S)
    PROVE  \E n \in S : Cardinality({m \in S : m <= n}) = k
<1> DEFINE Upto(n) == {m \in S : m <= n}
           T == {n \in S : Cardinality(Upto(n)) >= k}
<1>0. /\ Cardinality(S) \in Nat /\ k \in Nat /\ k >= 1
      /\ \A n \in S : IsFiniteSet(Upto(n)) /\ Cardinality(Upto(n)) \in Nat
  BY FS_Subset, FS_CardinalityType
<1>1. S # {}
  BY <1>0, FS_EmptySet
<1>2. PICK x \in S : \A m \in S : m <= x
  BY <1>1, Greatest
<1>3. Upto(x) = S
  BY <1>2
<1>4. x \in T
  BY <1>0, <1>3
<1>5. PICK n \in T : \A m \in T : n <= m
  BY <1>4, Least
<1> DEFINE B == Upto(n) \ {n}
<1>6. n \in S /\ Cardinality(Upto(n)) >= k /\ n \in Upto(n)
  BY <1>5
<1>7. IsFiniteSet(B) /\ Cardinality(B) = Cardinality(Upto(n)) - 1
  <2> HIDE DEF Upto
  <2> QED BY <1>0, <1>6, FS_RemoveElement
<1>8. ASSUME Cardinality(Upto(n)) > k PROVE FALSE
  <2>1. Cardinality(B) >= k
    BY <1>0, <1>6, <1>7, <1>8
  <2>2. B # {}
    BY <1>0, <2>1, FS_EmptySet
  <2>3. PICK p \in B : \A m \in B : m <= p
    BY <1>7, <2>2, Greatest
  <2>4. p \in S /\ p < n
    BY <1>6, <2>3
  <2>5. Upto(p) = B
    <3>1. \A m \in S : m \in Nat
      OBVIOUS
    <3>2. \A m \in S : m < n => m <= p
      BY <1>6, <2>3, <3>1
    <3>3. \A m \in S : m <= p => m < n
      BY <1>6, <2>4, <3>1
    <3>4. \A m \in S : m < n <=> m <= n /\ m # n
      BY <1>6, <3>1
    <3> QED BY <3>2, <3>3, <3>4
  <2>6. p \in T
    BY <2>1, <2>4, <2>5
  <2> QED BY <1>5, <1>6, <2>4, <2>6
<1>9. Cardinality(Upto(n)) = k
  BY <1>0, <1>6, <1>8
<1> QED BY <1>6, <1>9

-----------------------------------------------------------------------------
(* The element the folds of the library take from a set first.            *)
Chosen(s) == CHOOSE x \in s : TRUE

(* it sums f over every subset of S, as SumFunctionOnSet does.             *)
SumsOver(f, S, it) ==
    it = [s \in SUBSET S |-> IF s = {} THEN 0 ELSE f[Chosen(s)] + it[s \ {Chosen(s)}]]

(* A sum over a set is the library's fold, spelled out.                    *)
LEMMA SumIs ==
    ASSUME NEW f, NEW S
    PROVE  SumFunctionOnSet(f, S) = (CHOOSE it : SumsOver(f, S, it))[S]
BY DEF SumFunctionOnSet, FoldFunctionOnSet, MapThenFoldSet, SumsOver, Chosen

(* The element the fold picks is one of the set.                           *)
LEMMA PickIn == ASSUME NEW s, s # {} PROVE Chosen(s) \in s
BY DEF Chosen

(* What the iteration of the fold yields on a subset.                      *)
LEMMA SumsAt ==
    ASSUME NEW f, NEW S, NEW it, SumsOver(f, S, it), NEW s \in SUBSET S
    PROVE  /\ s = {} => it[s] = 0
           /\ s # {} => it[s] = f[Chosen(s)] + it[s \ {Chosen(s)}]
BY DEF SumsOver

(* Two such functions agree where both are defined.                        *)
LEMMA SumsAgree ==
    ASSUME NEW f, NEW S, IsFiniteSet(S), NEW it, SumsOver(f, S, it),
           NEW T \in SUBSET S, NEW jt, SumsOver(f, T, jt)
    PROVE  it[T] = jt[T]
<1> DEFINE D == {s \in SUBSET T : it[s] # jt[s]}
<1>1. D # {} => FALSE
  <2> SUFFICES ASSUME D # {} PROVE FALSE
    OBVIOUS
  <2>1. IsFiniteSet(T) /\ D \subseteq SUBSET T
    BY FS_Subset
  <2>2. PICK s \in D : \A u \in D : ~(u \subseteq s /\ s # u)
    <3> HIDE DEF D
    <3> QED BY <2>1, Minimal
  <2>3. s \in SUBSET T /\ s \in SUBSET S /\ it[s] # jt[s]
    OBVIOUS
  <2>4. s # {}
    BY <2>3, SumsAt
  <2>5. Chosen(s) \in s
    BY <2>4, PickIn
  <2>6. s \ {Chosen(s)} \in SUBSET T /\ s \ {Chosen(s)} # s
    BY <2>3, <2>5
  <2>7. it[s \ {Chosen(s)}] = jt[s \ {Chosen(s)}]
    BY <2>2, <2>6
  <2> QED BY <2>3, <2>4, <2>7, SumsAt
<1> QED BY <1>1

(* Some function satisfies the fold's equation on the subsets of a finite  *)
(* set.                                                                    *)
LEMMA SumsExist ==
    ASSUME NEW f, NEW S, IsFiniteSet(S)
    PROVE  \E it : SumsOver(f, S, it)
<1> DEFINE Bad == {T \in SUBSET S : ~ \E it : SumsOver(f, T, it)}
<1>1. Bad # {} => FALSE
  <2> SUFFICES ASSUME Bad # {} PROVE FALSE
    OBVIOUS
  <2>1. PICK T \in Bad : \A u \in Bad : ~(u \subseteq T /\ T # u)
    <3>1. Bad \subseteq SUBSET S
      OBVIOUS
    <3> HIDE DEF Bad
    <3> QED BY <3>1, Minimal
  <2>2. T \in SUBSET S /\ ~ \E it : SumsOver(f, T, it)
    OBVIOUS
  <2>3. \A s \in SUBSET T : s # T => \E it : SumsOver(f, s, it)
    BY <2>1, <2>2
  <2> DEFINE J(s) == CHOOSE it : SumsOver(f, s, it)
             it == [s \in SUBSET T |-> IF s = {} THEN 0 ELSE f[Chosen(s)] + J(s \ {Chosen(s)})[s \ {Chosen(s)}]]
  <2>4. ASSUME NEW s \in SUBSET T, s # T PROVE SumsOver(f, s, J(s))
    BY <2>3, <2>4
  <2> HIDE DEF J, Bad
  <2>5. ASSUME NEW s \in SUBSET T, s # T PROVE it[s] = J(s)[s]
    <3>1. IsFiniteSet(s) /\ SumsOver(f, s, J(s))
      BY <2>2, <2>4, <2>5, FS_Subset
    <3>2. CASE s = {}
      <4>1. J(s)[s] = 0
        BY <3>1, <3>2, SumsAt
      <4> QED BY <3>2, <4>1
    <3>3. CASE s # {}
      <4> DEFINE u == s \ {Chosen(s)}
      <4>1. u \in SUBSET s /\ u \in SUBSET T /\ u # T
        BY <3>3, PickIn
      <4>2. J(s)[s] = f[Chosen(s)] + J(s)[u]
        <5>1. s \in SUBSET s
          OBVIOUS
        <5> HIDE DEF it
        <5> QED BY <3>1, <3>3, <5>1, SumsAt
      <4>3. SumsOver(f, u, J(u))
        BY <2>4, <4>1
      <4>4. J(s)[u] = J(u)[u]
        <5> HIDE DEF u, it
        <5> QED BY <3>1, <4>1, <4>3, SumsAgree
      <4>5. it[s] = f[Chosen(s)] + J(u)[u]
        BY <3>3
      <4> QED BY <4>2, <4>4, <4>5
    <3> QED BY <3>2, <3>3
  <2>6. ASSUME NEW s \in SUBSET T, s # {} PROVE it[s] = f[Chosen(s)] + it[s \ {Chosen(s)}]
    <3> DEFINE u == s \ {Chosen(s)}
    <3>1. u \in SUBSET T /\ u # T
      BY <2>6, PickIn
    <3>2. it[u] = J(u)[u]
      BY <2>5, <3>1
    <3> QED BY <2>6, <3>2
  <2>7. SumsOver(f, T, it)
    <3>1. it[{}] = 0
      OBVIOUS
    <3>2. it = [s \in SUBSET T |-> it[s]]
      OBVIOUS
    <3>3. \A s \in SUBSET T : it[s] = IF s = {} THEN 0 ELSE f[Chosen(s)] + it[s \ {Chosen(s)}]
      BY <2>6, <3>1
    <3> HIDE DEF it
    <3> QED BY <3>2, <3>3 DEF SumsOver
  <2> QED BY <2>2, <2>7
<1> QED BY <1>1

(* Hence the one the library chooses does.                                 *)
LEMMA SumSatisfies ==
    ASSUME NEW f, NEW S, IsFiniteSet(S)
    PROVE  /\ SumsOver(f, S, CHOOSE it : SumsOver(f, S, it))
           /\ SumFunctionOnSet(f, S) = (CHOOSE it : SumsOver(f, S, it))[S]
BY SumsExist, SumIs

(* The sum over the empty set, and over a set from which one is taken.     *)
LEMMA SumEmpty == ASSUME NEW f PROVE SumFunctionOnSet(f, {}) = 0
<1>1. IsFiniteSet({})
  BY FS_EmptySet
<1> DEFINE J == CHOOSE it : SumsOver(f, {}, it)
<1>2. SumsOver(f, {}, J) /\ SumFunctionOnSet(f, {}) = J[{}]
  BY <1>1, SumSatisfies
<1> HIDE DEF J
<1>3. {} \in SUBSET {}
  OBVIOUS
<1>4. J[{}] = 0
  BY <1>2, <1>3, SumsAt
<1> QED BY <1>2, <1>4

(* A sum is the element picked and the sum of the others.                  *)
LEMMA SumPick ==
    ASSUME NEW f, NEW S, IsFiniteSet(S), S # {}
    PROVE  SumFunctionOnSet(f, S) = f[Chosen(S)] + SumFunctionOnSet(f, S \ {Chosen(S)})
<1> DEFINE J(s) == CHOOSE it : SumsOver(f, s, it)
           u == S \ {Chosen(S)}
<1>1. IsFiniteSet(u) /\ u \in SUBSET S
  BY FS_Subset
<1>2. /\ SumsOver(f, S, J(S)) /\ SumFunctionOnSet(f, S) = J(S)[S]
      /\ SumsOver(f, u, J(u)) /\ SumFunctionOnSet(f, u) = J(u)[u]
  <2> HIDE DEF u
  <2> QED BY <1>1, SumSatisfies
<1> HIDE DEF J
<1>3. J(S)[u] = J(u)[u]
  <2> HIDE DEF u
  <2> QED BY <1>1, <1>2, SumsAgree
<1>4. J(S)[S] = f[Chosen(S)] + J(S)[u]
  BY <1>2, SumsAt
<1> QED BY <1>2, <1>3, <1>4

(* A sum of integers is an integer.                                        *)
LEMMA SumInt ==
    ASSUME NEW f, NEW S, IsFiniteSet(S), \A x \in S : f[x] \in Int
    PROVE  SumFunctionOnSet(f, S) \in Int
<1> DEFINE Bad == {T \in SUBSET S : SumFunctionOnSet(f, T) \notin Int}
<1>1. Bad # {} => FALSE
  <2> SUFFICES ASSUME Bad # {} PROVE FALSE
    OBVIOUS
  <2>1. PICK T \in Bad : \A u \in Bad : ~(u \subseteq T /\ T # u)
    <3>1. Bad \subseteq SUBSET S
      OBVIOUS
    <3> HIDE DEF Bad
    <3> QED BY <3>1, Minimal
  <2>2. IsFiniteSet(T) /\ T \in SUBSET S /\ SumFunctionOnSet(f, T) \notin Int
    BY FS_Subset
  <2>3. T # {}
    BY <2>2, SumEmpty
  <2>4. Chosen(T) \in T
    BY <2>3, PickIn
  <2>5. SumFunctionOnSet(f, T \ {Chosen(T)}) \in Int
    BY <2>1, <2>2, <2>4
  <2>6. SumFunctionOnSet(f, T) = f[Chosen(T)] + SumFunctionOnSet(f, T \ {Chosen(T)})
    BY <2>2, <2>3, SumPick
  <2> QED BY <2>2, <2>4, <2>5, <2>6
<1> QED BY <1>1

(* A sum over integers does not depend on which term is taken first.       *)
LEMMA SumRemove ==
    ASSUME NEW f, NEW S, IsFiniteSet(S), \A x \in S : f[x] \in Int, NEW y \in S
    PROVE  SumFunctionOnSet(f, S) = f[y] + SumFunctionOnSet(f, S \ {y})
<1> DEFINE Bad == {T \in SUBSET S : \E x \in T :
                     SumFunctionOnSet(f, T) # f[x] + SumFunctionOnSet(f, T \ {x})}
<1>1. Bad # {} => FALSE
  <2> SUFFICES ASSUME Bad # {} PROVE FALSE
    OBVIOUS
  <2>1. PICK T \in Bad : \A u \in Bad : ~(u \subseteq T /\ T # u)
    <3>1. Bad \subseteq SUBSET S
      OBVIOUS
    <3> HIDE DEF Bad
    <3> QED BY <3>1, Minimal
  <2>2. PICK x \in T : SumFunctionOnSet(f, T) # f[x] + SumFunctionOnSet(f, T \ {x})
    OBVIOUS
  <2> DEFINE c == Chosen(T)
             Tc == T \ {c}
             Tx == T \ {x}
             Tcx == Tc \ {x}
  <2>3. c \in T /\ T \in SUBSET S
    BY <2>2, PickIn
  <2>4. IsFiniteSet(T) /\ IsFiniteSet(Tc) /\ IsFiniteSet(Tx) /\ IsFiniteSet(Tcx)
    BY <2>3, FS_Subset
  <2>5. /\ SumFunctionOnSet(f, Tc) \in Int /\ SumFunctionOnSet(f, Tx) \in Int
        /\ SumFunctionOnSet(f, Tcx) \in Int
    <3>1. Tc \in SUBSET S /\ Tx \in SUBSET S /\ Tcx \in SUBSET S
      BY <2>3
    <3>2. /\ \A z \in Tc : f[z] \in Int
          /\ \A z \in Tx : f[z] \in Int
          /\ \A z \in Tcx : f[z] \in Int
      BY <3>1
    <3> HIDE DEF Tc, Tx, Tcx
    <3> QED BY <2>4, <3>2, SumInt
  <2>6. SumFunctionOnSet(f, T) = f[c] + SumFunctionOnSet(f, Tc)
    BY <2>2, <2>4, SumPick
  <2>7. c # x
    BY <2>2, <2>6
  <2> DEFINE Additive(u) == \A z \in u : SumFunctionOnSet(f, u) = f[z] + SumFunctionOnSet(f, u \ {z})
  <2>8. ASSUME NEW u \in SUBSET T, u # T PROVE Additive(u)
    BY <2>1, <2>3, <2>8
  <2>9. SumFunctionOnSet(f, Tc) = f[x] + SumFunctionOnSet(f, Tcx)
    <3>1. Tc \in SUBSET T /\ Tc # T /\ x \in Tc
      BY <2>3, <2>7
    <3>2. Additive(Tc)
      BY <2>8, <3>1
    <3> QED BY <3>1, <3>2
  <2>10. SumFunctionOnSet(f, Tx) = f[c] + SumFunctionOnSet(f, Tcx)
    <3>1. Tx \in SUBSET T /\ Tx # T /\ c \in Tx
      BY <2>3, <2>7
    <3>2. Additive(Tx)
      BY <2>8, <3>1
    <3>3. SumFunctionOnSet(f, Tx) = f[c] + SumFunctionOnSet(f, Tx \ {c})
      BY <3>1, <3>2
    <3>4. Tx \ {c} = Tcx
      OBVIOUS
    <3> QED BY <3>3, <3>4, Zenon
  <2>11. f[c] \in Int /\ f[x] \in Int
    BY <2>2, <2>3
  <2>12. SumFunctionOnSet(f, T) # f[x] + SumFunctionOnSet(f, Tx)
    BY <2>2
  <2> HIDE DEF Tc, Tx, Tcx, c
  <2> QED BY <2>5, <2>6, <2>9, <2>10, <2>11, <2>12
<1>2. S \in SUBSET S /\ S \notin Bad
  BY <1>1
<1> QED BY <1>2, Zenon

(* Functions that agree on a set have the same sum over it.                *)
LEMMA SumSame ==
    ASSUME NEW f, NEW g, NEW S, IsFiniteSet(S), \A x \in S : f[x] = g[x]
    PROVE  SumFunctionOnSet(f, S) = SumFunctionOnSet(g, S)
<1> DEFINE Bad == {T \in SUBSET S : SumFunctionOnSet(f, T) # SumFunctionOnSet(g, T)}
<1>1. Bad # {} => FALSE
  <2> SUFFICES ASSUME Bad # {} PROVE FALSE
    OBVIOUS
  <2>1. PICK T \in Bad : \A u \in Bad : ~(u \subseteq T /\ T # u)
    <3>1. Bad \subseteq SUBSET S
      OBVIOUS
    <3> HIDE DEF Bad
    <3> QED BY <3>1, Minimal
  <2>2. IsFiniteSet(T) /\ T \in SUBSET S /\ SumFunctionOnSet(f, T) # SumFunctionOnSet(g, T)
    BY FS_Subset
  <2>3. T # {}
    BY <2>2, SumEmpty
  <2>4. Chosen(T) \in T
    BY <2>3, PickIn
  <2>5. SumFunctionOnSet(f, T \ {Chosen(T)}) = SumFunctionOnSet(g, T \ {Chosen(T)})
    BY <2>1, <2>2, <2>4
  <2>6. /\ SumFunctionOnSet(f, T) = f[Chosen(T)] + SumFunctionOnSet(f, T \ {Chosen(T)})
        /\ SumFunctionOnSet(g, T) = g[Chosen(T)] + SumFunctionOnSet(g, T \ {Chosen(T)})
    BY <2>2, <2>3, SumPick
  <2> QED BY <2>2, <2>4, <2>5, <2>6
<1> QED BY <1>1

(* The sum over a set is the sum over its parts.                           *)
LEMMA SumSplit ==
    ASSUME NEW f, NEW S, IsFiniteSet(S), \A x \in S : f[x] \in Int, NEW A \in SUBSET S
    PROVE  SumFunctionOnSet(f, S) = SumFunctionOnSet(f, A) + SumFunctionOnSet(f, S \ A)
<1> DEFINE Bad == {T \in SUBSET S :
               SumFunctionOnSet(f, T) # SumFunctionOnSet(f, T \cap A) + SumFunctionOnSet(f, T \ A)}
<1>1. Bad # {} => FALSE
  <2> SUFFICES ASSUME Bad # {} PROVE FALSE
    OBVIOUS
  <2>1. PICK T \in Bad : \A u \in Bad : ~(u \subseteq T /\ T # u)
    <3>1. Bad \subseteq SUBSET S
      OBVIOUS
    <3> HIDE DEF Bad
    <3> QED BY <3>1, Minimal
  <2>2. /\ T \in SUBSET S
        /\ SumFunctionOnSet(f, T) # SumFunctionOnSet(f, T \cap A) + SumFunctionOnSet(f, T \ A)
    OBVIOUS
  <2>3. IsFiniteSet(T) /\ IsFiniteSet(T \cap A) /\ IsFiniteSet(T \ A)
    BY <2>2, FS_Subset
  <2>4. T # {}
    <3>1. CASE T = {}
      <4>1. T \cap A = {} /\ T \ A = {}
        BY <3>1
      <4>2. SumFunctionOnSet(f, T) = 0 /\ SumFunctionOnSet(f, T \cap A) = 0 /\ SumFunctionOnSet(f, T \ A) = 0
        BY <3>1, <4>1, SumEmpty, Zenon
      <4> QED BY <2>2, <4>2
    <3> QED BY <3>1
  <2>5. PICK x : x \in T /\ f[x] \in Int
    BY <2>2, <2>4
  <2> DEFINE Tx == T \ {x}
  <2>6. SumFunctionOnSet(f, Tx) = SumFunctionOnSet(f, Tx \cap A) + SumFunctionOnSet(f, Tx \ A)
    <3>1. Tx \in SUBSET S /\ Tx # T /\ Tx \subseteq T
      BY <2>2, <2>5
    <3> QED BY <2>1, <3>1
  <2>7. SumFunctionOnSet(f, T) = f[x] + SumFunctionOnSet(f, Tx)
    BY <2>2, <2>3, <2>5, SumRemove
  <2>8. SumFunctionOnSet(f, Tx \cap A) \in Int /\ SumFunctionOnSet(f, Tx \ A) \in Int
    <3>1. IsFiniteSet(Tx \cap A) /\ IsFiniteSet(Tx \ A)
      BY <2>3, FS_Subset
    <3>2. (\A z \in Tx \cap A : f[z] \in Int) /\ (\A z \in Tx \ A : f[z] \in Int)
      BY <2>2
    <3> HIDE DEF Tx
    <3> QED BY <3>1, <3>2, SumInt
  <2>9. CASE x \in A
    <3>1. Tx \ A = T \ A /\ Tx \cap A = (T \cap A) \ {x} /\ x \in T \cap A
      BY <2>5, <2>9
    <3>2. SumFunctionOnSet(f, T \cap A) = f[x] + SumFunctionOnSet(f, (T \cap A) \ {x})
      <4>1. \A z \in T \cap A : f[z] \in Int
        BY <2>2
      <4> QED BY <2>3, <3>1, <4>1, SumRemove
    <3>3. /\ SumFunctionOnSet(f, T \cap A) = f[x] + SumFunctionOnSet(f, Tx \cap A)
          /\ SumFunctionOnSet(f, T \ A) = SumFunctionOnSet(f, Tx \ A)
      BY <3>1, <3>2, Zenon
    <3> HIDE DEF Tx
    <3> QED BY <2>2, <2>5, <2>6, <2>7, <2>8, <3>3
  <2>10. CASE x \notin A
    <3>1. Tx \cap A = T \cap A /\ Tx \ A = (T \ A) \ {x} /\ x \in T \ A
      BY <2>5, <2>10
    <3>2. SumFunctionOnSet(f, T \ A) = f[x] + SumFunctionOnSet(f, (T \ A) \ {x})
      <4>1. \A z \in T \ A : f[z] \in Int
        BY <2>2
      <4> QED BY <2>3, <3>1, <4>1, SumRemove
    <3>3. /\ SumFunctionOnSet(f, T \ A) = f[x] + SumFunctionOnSet(f, Tx \ A)
          /\ SumFunctionOnSet(f, T \cap A) = SumFunctionOnSet(f, Tx \cap A)
      BY <3>1, <3>2, Zenon
    <3> HIDE DEF Tx
    <3> QED BY <2>2, <2>5, <2>6, <2>7, <2>8, <3>3
  <2> QED BY <2>9, <2>10
<1>2. S \in SUBSET S /\ S \notin Bad /\ S \cap A = A
  BY <1>1
<1> QED BY <1>2, Zenon

(* Terms that are zero add nothing.                                        *)
LEMMA SumZero ==
    ASSUME NEW f, NEW S, IsFiniteSet(S), \A x \in S : f[x] = 0
    PROVE  SumFunctionOnSet(f, S) = 0
<1> DEFINE Bad == {T \in SUBSET S : SumFunctionOnSet(f, T) # 0}
<1>1. Bad # {} => FALSE
  <2> SUFFICES ASSUME Bad # {} PROVE FALSE
    OBVIOUS
  <2>1. PICK T \in Bad : \A u \in Bad : ~(u \subseteq T /\ T # u)
    <3>1. Bad \subseteq SUBSET S
      OBVIOUS
    <3> HIDE DEF Bad
    <3> QED BY <3>1, Minimal
  <2>2. IsFiniteSet(T) /\ T \in SUBSET S /\ SumFunctionOnSet(f, T) # 0
    BY FS_Subset
  <2>3. T # {}
    BY <2>2, SumEmpty
  <2>4. Chosen(T) \in T
    BY <2>3, PickIn
  <2>5. SumFunctionOnSet(f, T \ {Chosen(T)}) = 0
    BY <2>1, <2>2, <2>4
  <2>6. SumFunctionOnSet(f, T) = f[Chosen(T)] + SumFunctionOnSet(f, T \ {Chosen(T)})
    BY <2>2, <2>3, SumPick
  <2> QED BY <2>2, <2>4, <2>5, <2>6
<1> QED BY <1>1

(* A sum over one element.                                                 *)
LEMMA SumSingle ==
    ASSUME NEW f, NEW x, f[x] \in Int
    PROVE  SumFunctionOnSet(f, {x}) = f[x]
<1>1. IsFiniteSet({x}) /\ {x} \ {x} = {}
  BY FS_Singleton
<1>2. SumFunctionOnSet(f, {x}) = f[x] + SumFunctionOnSet(f, {x} \ {x})
  BY <1>1, SumRemove
<1>3. SumFunctionOnSet(f, {x} \ {x}) = 0
  BY <1>1, SumEmpty, Zenon
<1> QED BY <1>2, <1>3

(* A term that moves by d moves the sum by d.                              *)
LEMMA SumMoves ==
    ASSUME NEW f, NEW g, NEW S, IsFiniteSet(S), \A y \in S : f[y] \in Int /\ g[y] \in Int,
           NEW x \in S, NEW d \in Int, g[x] = f[x] + d, \A y \in S \ {x} : g[y] = f[y]
    PROVE  SumFunctionOnSet(g, S) = SumFunctionOnSet(f, S) + d
<1> DEFINE T == S \ {x}
<1>1. IsFiniteSet(T) /\ \A y \in T : f[y] \in Int
  BY FS_Subset
<1>2. /\ SumFunctionOnSet(f, S) = f[x] + SumFunctionOnSet(f, T)
      /\ SumFunctionOnSet(g, S) = g[x] + SumFunctionOnSet(g, T)
  BY SumRemove
<1>3. SumFunctionOnSet(g, T) = SumFunctionOnSet(f, T)
  BY <1>1, SumSame
<1>4. SumFunctionOnSet(f, T) \in Int
  <2> HIDE DEF T
  <2> QED BY <1>1, SumInt
<1> HIDE DEF T
<1> QED BY <1>2, <1>3, <1>4

(* The sum of two functions' sums.                                         *)
LEMMA SumPlus ==
    ASSUME NEW f, NEW g, NEW h, NEW S, IsFiniteSet(S),
           \A x \in S : f[x] \in Int /\ g[x] \in Int /\ h[x] = f[x] + g[x]
    PROVE  SumFunctionOnSet(h, S) = SumFunctionOnSet(f, S) + SumFunctionOnSet(g, S)
<1> DEFINE Bad == {T \in SUBSET S : SumFunctionOnSet(h, T)
                                      # SumFunctionOnSet(f, T) + SumFunctionOnSet(g, T)}
<1>1. Bad # {} => FALSE
  <2> SUFFICES ASSUME Bad # {} PROVE FALSE
    OBVIOUS
  <2>1. PICK T \in Bad : \A u \in Bad : ~(u \subseteq T /\ T # u)
    <3>1. Bad \subseteq SUBSET S
      OBVIOUS
    <3> HIDE DEF Bad
    <3> QED BY <3>1, Minimal
  <2>2. /\ IsFiniteSet(T) /\ T \in SUBSET S
        /\ SumFunctionOnSet(h, T) # SumFunctionOnSet(f, T) + SumFunctionOnSet(g, T)
    BY FS_Subset
  <2>3. T # {}
    <3>1. /\ SumFunctionOnSet(h, {}) = 0 /\ SumFunctionOnSet(f, {}) = 0
          /\ SumFunctionOnSet(g, {}) = 0
      BY SumEmpty, Zenon
    <3>2. 0 = 0 + 0
      OBVIOUS
    <3> QED BY <2>2, <3>1, <3>2, Zenon
  <2> DEFINE x == Chosen(T)
             U == T \ {x}
  <2>4. x \in T /\ U \in SUBSET S /\ IsFiniteSet(U)
    <3>1. x \in T
      BY <2>3, PickIn
    <3>2. U \in SUBSET S
      BY <2>2
    <3> HIDE DEF U, x
    <3> QED BY <3>1, <3>2, FS_Subset
  <2>5. SumFunctionOnSet(h, U) = SumFunctionOnSet(f, U) + SumFunctionOnSet(g, U)
    BY <2>1, <2>2, <2>4
  <2>6. /\ SumFunctionOnSet(h, T) = h[x] + SumFunctionOnSet(h, U)
        /\ SumFunctionOnSet(f, T) = f[x] + SumFunctionOnSet(f, U)
        /\ SumFunctionOnSet(g, T) = g[x] + SumFunctionOnSet(g, U)
    BY <2>2, <2>3, SumPick
  <2> HIDE DEF Bad, x, U
  <2>7. f[x] \in Int /\ g[x] \in Int /\ h[x] = f[x] + g[x]
    BY <2>2, <2>4
  <2>8. SumFunctionOnSet(f, U) \in Int /\ SumFunctionOnSet(g, U) \in Int
    <3>1. \A y \in U : f[y] \in Int /\ g[y] \in Int
      BY <2>4
    <3> QED BY <2>4, <3>1, SumInt
  <2> QED BY <2>2, <2>5, <2>6, <2>7, <2>8
<1>2. S \in SUBSET S /\ S \notin Bad
  BY <1>1
<1> QED BY <1>2

(* A common factor taken out of a sum.                                     *)
LEMMA Distributes ==
    ASSUME NEW c \in Int, NEW a \in Int, NEW b \in Int
    PROVE  c * (a + b) = c * a + c * b
OBVIOUS

(* A common factor can be taken out of a sum.                              *)
LEMMA SumTimes ==
    ASSUME NEW c \in Int, NEW f, NEW g, NEW S, IsFiniteSet(S),
           \A x \in S : f[x] \in Int /\ g[x] = c * f[x]
    PROVE  SumFunctionOnSet(g, S) = c * SumFunctionOnSet(f, S)
<1> DEFINE Bad == {T \in SUBSET S : SumFunctionOnSet(g, T) # c * SumFunctionOnSet(f, T)}
<1>1. Bad # {} => FALSE
  <2> SUFFICES ASSUME Bad # {} PROVE FALSE
    OBVIOUS
  <2>1. PICK T \in Bad : \A u \in Bad : ~(u \subseteq T /\ T # u)
    <3>1. Bad \subseteq SUBSET S
      OBVIOUS
    <3> HIDE DEF Bad
    <3> QED BY <3>1, Minimal
  <2>2. /\ IsFiniteSet(T) /\ T \in SUBSET S
        /\ SumFunctionOnSet(g, T) # c * SumFunctionOnSet(f, T)
    BY FS_Subset
  <2>3. T # {}
    <3>1. SumFunctionOnSet(g, {}) = 0 /\ SumFunctionOnSet(f, {}) = 0
      BY SumEmpty, Zenon
    <3>2. 0 = c * 0
      OBVIOUS
    <3> QED BY <2>2, <3>1, <3>2, Zenon
  <2> DEFINE x == Chosen(T)
             U == T \ {x}
  <2>4. x \in T /\ U \in SUBSET S /\ IsFiniteSet(U)
    <3>1. x \in T
      BY <2>3, PickIn
    <3>2. U \in SUBSET S
      BY <2>2
    <3> HIDE DEF U, x
    <3> QED BY <3>1, <3>2, FS_Subset
  <2>5. SumFunctionOnSet(g, U) = c * SumFunctionOnSet(f, U)
    BY <2>1, <2>2, <2>4
  <2>6. /\ SumFunctionOnSet(g, T) = g[x] + SumFunctionOnSet(g, U)
        /\ SumFunctionOnSet(f, T) = f[x] + SumFunctionOnSet(f, U)
    BY <2>2, <2>3, SumPick
  <2> HIDE DEF Bad, x, U
  <2>7. f[x] \in Int /\ g[x] = c * f[x]
    BY <2>2, <2>4
  <2>8. SumFunctionOnSet(f, U) \in Int
    <3>1. \A y \in U : f[y] \in Int
      BY <2>4
    <3> QED BY <2>4, <3>1, SumInt
  <2>9. c * SumFunctionOnSet(f, T) = c * f[x] + c * SumFunctionOnSet(f, U)
    BY <2>6, <2>7, <2>8, Distributes
  <2> QED BY <2>2, <2>5, <2>6, <2>7, <2>9, Zenon
<1>2. S \in SUBSET S /\ S \notin Bad
  BY <1>1
<1> QED BY <1>2

(* Natural numbers that add up to zero are zero.                           *)
LEMMA SumNat ==
    ASSUME NEW f, NEW S, IsFiniteSet(S), \A x \in S : f[x] \in Nat
    PROVE  SumFunctionOnSet(f, S) \in Nat
<1> DEFINE Bad == {T \in SUBSET S : SumFunctionOnSet(f, T) \notin Nat}
<1>1. Bad # {} => FALSE
  <2> SUFFICES ASSUME Bad # {} PROVE FALSE
    OBVIOUS
  <2>1. PICK T \in Bad : \A u \in Bad : ~(u \subseteq T /\ T # u)
    <3>1. Bad \subseteq SUBSET S
      OBVIOUS
    <3> HIDE DEF Bad
    <3> QED BY <3>1, Minimal
  <2>2. IsFiniteSet(T) /\ T \in SUBSET S /\ SumFunctionOnSet(f, T) \notin Nat
    BY FS_Subset
  <2>3. T # {}
    BY <2>2, SumEmpty
  <2>4. Chosen(T) \in T
    BY <2>3, PickIn
  <2>5. SumFunctionOnSet(f, T \ {Chosen(T)}) \in Nat
    BY <2>1, <2>2, <2>4
  <2>6. SumFunctionOnSet(f, T) = f[Chosen(T)] + SumFunctionOnSet(f, T \ {Chosen(T)})
    BY <2>2, <2>3, SumPick
  <2> QED BY <2>2, <2>4, <2>5, <2>6
<1> QED BY <1>1

(* A sum of natural numbers is zero only if each of them is.               *)
LEMMA SumNothing ==
    ASSUME NEW f, NEW S, IsFiniteSet(S), \A x \in S : f[x] \in Nat,
           SumFunctionOnSet(f, S) = 0, NEW x \in S
    PROVE  f[x] = 0
<1> DEFINE T == S \ {x}
<1>1. IsFiniteSet(T) /\ \A y \in T : f[y] \in Nat
  BY FS_Subset
<1>2. SumFunctionOnSet(f, S) = f[x] + SumFunctionOnSet(f, T)
  BY SumRemove
<1>3. SumFunctionOnSet(f, T) \in Nat
  <2> HIDE DEF T
  <2> QED BY <1>1, SumNat
<1> HIDE DEF T
<1> QED BY <1>2, <1>3

(* The sum over an interval, one term longer.                              *)
LEMMA SumNext ==
    ASSUME NEW n \in Nat, NEW f, \A m \in 1..n + 1 : f[m] \in Int
    PROVE  /\ SumFunctionOnSet(f, 1..n + 1) = SumFunctionOnSet(f, 1..n) + f[n + 1]
           /\ SumFunctionOnSet(f, 1..n) \in Int
<1>1. PICK D, E, y : D = 1..n + 1 /\ E = 1..n /\ y = n + 1
  OBVIOUS
<1>2. IsFiniteSet(D) /\ IsFiniteSet(E)
  BY <1>1, FS_Interval
<1>3. y \in D /\ D \ {y} = E /\ \A m \in D : f[m] \in Int
  BY <1>1
<1>4. \A m \in E : f[m] \in Int
  BY <1>3
<1>5. SumFunctionOnSet(f, D) = f[y] + SumFunctionOnSet(f, E)
  <2>1. SumFunctionOnSet(f, D) = f[y] + SumFunctionOnSet(f, D \ {y})
    BY <1>2, <1>3, SumRemove
  <2> QED BY <1>3, <2>1, Zenon
<1>6. SumFunctionOnSet(f, E) \in Int /\ f[y] \in Int
  BY <1>2, <1>3, <1>4, SumInt
<1>7. SumFunctionOnSet(f, D) = SumFunctionOnSet(f, E) + f[y]
  BY <1>5, <1>6
<1> QED BY <1>1, <1>6, <1>7
=============================================================================
