--------------------------- MODULE FlowNetworkProofs ---------------------------
(***************************************************************************)
(* Facts about least members and about sums over finite sets, and the      *)
(* theory of flows and cuts: conservation at every node makes the value of *)
(* a flow the flow across any cut, so no flow exceeds a cut; and what      *)
(* balls, distances and level graphs are.                                  *)
(*                                                                         *)
(* A sum is a fold, that is a recursive function on the subsets of a set.  *)
(* That such a function exists, and everything about it, is shown by       *)
(* looking at a least set for which it fails.                              *)
(***************************************************************************)
EXTENDS FlowNetwork, FiniteSetTheorems, WellFoundedInduction, TLAPS

-------------------------------------------------------------------------------
(* Least members.                                                          *)

\* A set of natural numbers has a least member.
LEMMA LeastNumber ==
  ASSUME NEW A \in SUBSET Nat, A # {}
  PROVE  \E n \in A : \A m \in A : ~(m < n)
<1>1. IsWellFoundedOn(OpToRel(<, Nat), Nat)
  BY NatLessThanWellFounded
<1>2. \E n \in A : \A m \in A : ~(<<m, n>> \in OpToRel(<, Nat))
  BY <1>1, WFMin
<1> QED
  BY <1>2 DEF OpToRel

\* The element a fold takes out of s first.
Pick(s) == CHOOSE x \in s : TRUE

\* it is what the fold of f computes for the subsets of S.
IsFold(it, f, S) ==
  it = [s \in SUBSET S |-> IF s = {} THEN 0 ELSE f[Pick(s)] + it[s \ {Pick(s)}]]

-------------------------------------------------------------------------------
(* Sums over finite sets.                                                  *)

\* A family of finite sets has a member of which no other one is a part.
LEMMA LeastSet ==
  ASSUME NEW S, IsFiniteSet(S), NEW F \in SUBSET (SUBSET S), F # {}
  PROVE  \E T \in F : \A U \in F : U \subseteq T => U = T
<1>1. IsWellFoundedOn(StrictSubsetOrdering(S), FiniteSubsetsOf(S))
  BY FS_StrictSubsetOrderingWellFounded
<1>2. F \subseteq FiniteSubsetsOf(S)
  BY FS_Subset DEF FiniteSubsetsOf
<1>3. \E T \in F : \A U \in F : ~(<<U, T>> \in StrictSubsetOrdering(S))
  BY <1>1, <1>2, WFMin
<1> QED
  BY <1>3 DEF StrictSubsetOrdering

\* Induction over the parts of a finite set, for a set of good parts.
LEMMA SetInduction ==
  ASSUME NEW S, IsFiniteSet(S), NEW Good, {} \in Good,
         \A T \in SUBSET S : T # {} /\ (\A x \in T : T \ {x} \in Good) => T \in Good
  PROVE  S \in Good
<1> DEFINE Bad == {T \in SUBSET S : T \notin Good}
<1>1. SUFFICES ASSUME Bad # {} PROVE FALSE
  OBVIOUS
<1>2. PICK T \in Bad : \A V \in Bad : V \subseteq T => V = T
  <2> HIDE DEF Bad
  <2>1. Bad \in SUBSET (SUBSET S)
    BY DEF Bad
  <2> QED
    BY <1>1, <2>1, LeastSet
<1>3. T # {} /\ T \in SUBSET S
  OBVIOUS
<1>4. \A x \in T : T \ {x} \in Good
  BY <1>2
<1> QED
  BY <1>3, <1>4

\* Two folds of the same function agree where both are defined.
LEMMA FoldsAgree ==
  ASSUME NEW f, NEW S, IsFiniteSet(S), NEW T, NEW a, NEW b,
         IsFold(a, f, S), IsFold(b, f, T)
  PROVE  \A U \in SUBSET S : U \subseteq T => a[U] = b[U]
<1> DEFINE Bad == {U \in SUBSET S : U \subseteq T /\ a[U] # b[U]}
<1>1. SUFFICES ASSUME Bad # {} PROVE FALSE
  OBVIOUS
<1>2. PICK U \in Bad : \A V \in Bad : V \subseteq U => V = U
  <2> HIDE DEF Bad
  <2>1. Bad \in SUBSET (SUBSET S)
    BY DEF Bad
  <2> QED
    BY <1>1, <2>1, LeastSet
<1>3. U \subseteq S /\ U \subseteq T
  OBVIOUS
<1>4. CASE U = {}
  BY <1>3, <1>4 DEF IsFold
<1>5. CASE U # {}
  <2>1. Pick(U) \in U
    BY <1>5 DEF Pick
  <2>2. a[U \ {Pick(U)}] = b[U \ {Pick(U)}]
    BY <1>2, <1>3, <2>1
  <2>3. /\ a[U] = f[Pick(U)] + a[U \ {Pick(U)}]
        /\ b[U] = f[Pick(U)] + b[U \ {Pick(U)}]
    BY <1>3, <1>5 DEF IsFold
  <2> QED
    BY <2>2, <2>3
<1> QED
  BY <1>4, <1>5

\* A finite set has a fold.
LEMMA FoldExists ==
  ASSUME NEW f, NEW S, IsFiniteSet(S)
  PROVE  \E it : IsFold(it, f, S)
<1> DEFINE Bad == {T \in SUBSET S : ~\E it : IsFold(it, f, T)}
<1>1. SUFFICES ASSUME Bad # {} PROVE FALSE
  OBVIOUS
<1>2. PICK T \in Bad : \A V \in Bad : V \subseteq T => V = T
  <2> HIDE DEF Bad
  <2>1. Bad \in SUBSET (SUBSET S)
    BY DEF Bad
  <2> QED
    BY <1>1, <2>1, LeastSet
<1> DEFINE part(t) == CHOOSE it : IsFold(it, f, t)
<1> DEFINE lower == [t \in (SUBSET T) \ {T} |-> part(t)[t]]
<1> DEFINE it == [t \in SUBSET T |->
                    IF t = T THEN IF T = {} THEN 0 ELSE f[Pick(T)] + lower[T \ {Pick(T)}]
                    ELSE lower[t]]
<1>3. \A t \in (SUBSET T) \ {T} : IsFold(part(t), f, t)
  <2> TAKE t \in (SUBSET T) \ {T}
  <2>1. \E j : IsFold(j, f, t)
    BY <1>2
  <2> HIDE DEF Bad
  <2> QED
    BY <2>1
<1>4. \A t \in (SUBSET T) \ {T} :
         lower[t] = IF t = {} THEN 0 ELSE f[Pick(t)] + lower[t \ {Pick(t)}]
  <2> TAKE t \in (SUBSET T) \ {T}
  <2>1. IsFold(part(t), f, t)
    BY <1>3
  <2> HIDE DEF part
  <2>2. CASE t = {}
    BY <2>1, <2>2 DEF IsFold
  <2>3. CASE t # {}
    <3> DEFINE r == t \ {Pick(t)}
    <3>1. r \in (SUBSET T) \ {T} /\ IsFold(part(r), f, r) /\ IsFiniteSet(t)
      <4>1. IsFiniteSet(t)
        BY FS_Subset
      <4>2. r \in (SUBSET T) \ {T}
        BY <2>3 DEF Pick
      <4> QED
        BY <1>3, <4>1, <4>2
    <3>2. part(t)[r] = part(r)[r]
      BY <2>1, <3>1, FoldsAgree
    <3>3. part(t)[t] = f[Pick(t)] + part(t)[r]
      BY <2>1, <2>3 DEF IsFold
    <3> QED
      BY <2>3, <3>1, <3>2, <3>3
  <2> QED
    BY <2>2, <2>3
<1>5. IsFold(it, f, T)
  <2> HIDE DEF lower
  <2>1. ASSUME NEW t \in SUBSET T
        PROVE  it[t] = IF t = {} THEN 0 ELSE f[Pick(t)] + it[t \ {Pick(t)}]
    <3>1. CASE t = T /\ T # {}
      <4>1. T \ {Pick(T)} \in (SUBSET T) \ {T}
        BY <3>1 DEF Pick
      <4> QED
        BY <3>1, <4>1
    <3>2. CASE t = T /\ T = {}
      BY <3>2
    <3>3. CASE t # T
      <4>1. t # {} => t \ {Pick(t)} \in (SUBSET T) \ {T}
        BY <3>3
      <4> QED
        BY <1>4, <3>3, <4>1
    <3> QED
      BY <3>1, <3>2, <3>3
  <2>2. it = [t \in SUBSET T |-> it[t]]
    OBVIOUS
  <2> HIDE DEF it
  <2> QED
    BY <2>1, <2>2 DEF IsFold
<1> QED
  BY <1>2, <1>5

\* The sum over a set is the value of any fold defined there.
LEMMA SumIsFold ==
  ASSUME NEW f, NEW S, IsFiniteSet(S), NEW T \in SUBSET S, NEW it, IsFold(it, f, S)
  PROVE  SumOver(f, T) = it[T]
<1> DEFINE jt == CHOOSE j : IsFold(j, f, T)
<1>1. SumOver(f, T) = jt[T]
  BY DEF SumOver, MapThenSumSet, MapThenFoldSet, IsFold, Pick
<1>2. IsFiniteSet(T)
  BY FS_Subset
<1>3. IsFold(jt, f, T)
  BY <1>2, FoldExists
<1> HIDE DEF jt
<1>4. jt[T] = it[T]
  BY <1>2, <1>3, FoldsAgree
<1> QED
  BY <1>1, <1>4

\* One step of the fold.
LEMMA SumStep ==
  ASSUME NEW f, NEW S, IsFiniteSet(S), S # {}
  PROVE  Pick(S) \in S /\ SumOver(f, S) = f[Pick(S)] + SumOver(f, S \ {Pick(S)})
<1>1. PICK it : IsFold(it, f, S)
  BY FoldExists
<1>2. SumOver(f, S) = it[S] /\ SumOver(f, S \ {Pick(S)}) = it[S \ {Pick(S)}]
  BY <1>1, SumIsFold
<1> QED
  BY <1>1, <1>2 DEF IsFold, Pick

LEMMA SumOfNone == ASSUME NEW f PROVE SumOver(f, {}) = 0
<1>1. IsFiniteSet({})
  BY FS_EmptySet
<1>2. PICK it : IsFold(it, f, {})
  BY <1>1, FoldExists
<1>3. SumOver(f, {}) = it[{}]
  BY <1>1, <1>2, SumIsFold
<1> QED
  BY <1>2, <1>3 DEF IsFold

LEMMA SumType ==
  ASSUME NEW f, NEW S, IsFiniteSet(S), \A x \in S : f[x] \in Int
  PROVE  SumOver(f, S) \in Int
<1> DEFINE Good == {T \in SUBSET S : SumOver(f, T) \in Int}
<1>1. {} \in Good
  BY SumOfNone
<1>2. ASSUME NEW T \in SUBSET S, T # {}, \A x \in T : T \ {x} \in Good
      PROVE  T \in Good
  <2>1. Pick(T) \in T /\ SumOver(f, T) = f[Pick(T)] + SumOver(f, T \ {Pick(T)})
    BY <1>2, FS_Subset, SumStep
  <2>2. SumOver(f, T \ {Pick(T)}) \in Int
    BY <1>2, <2>1
  <2> QED
    BY <2>1, <2>2
<1> HIDE DEF Good
<1>3. S \in Good
  BY <1>1, <1>2, SetInduction
<1> QED
  BY <1>3 DEF Good

\* Any element may be taken out first.
LEMMA SumRemove ==
  ASSUME NEW f, NEW S, IsFiniteSet(S), \A x \in S : f[x] \in Int, NEW y \in S
  PROVE  SumOver(f, S) = f[y] + SumOver(f, S \ {y})
<1> DEFINE Good == {T \in SUBSET S : \A z \in T : SumOver(f, T) = f[z] + SumOver(f, T \ {z})}
<1>1. {} \in Good
  OBVIOUS
<1>2. ASSUME NEW T \in SUBSET S, T # {}, \A x \in T : T \ {x} \in Good
      PROVE  T \in Good
  <2> DEFINE x == Pick(T)
  <2>1. x \in T /\ SumOver(f, T) = f[x] + SumOver(f, T \ {x})
    BY <1>2, FS_Subset, SumStep
  <2> HIDE DEF x
  <2>2. ASSUME NEW z \in T, z # x
        PROVE  SumOver(f, T) = f[z] + SumOver(f, T \ {z})
    <3>1. SumOver(f, T \ {x}) = f[z] + SumOver(f, (T \ {x}) \ {z})
      BY <1>2, <2>1, <2>2
    <3>2. SumOver(f, T \ {z}) = f[x] + SumOver(f, (T \ {z}) \ {x})
      BY <1>2, <2>1, <2>2
    <3>3. SumOver(f, (T \ {x}) \ {z}) = SumOver(f, (T \ {z}) \ {x})
      <4>1. (T \ {x}) \ {z} = (T \ {z}) \ {x}
        OBVIOUS
      <4> QED
        BY <4>1
    <3>5. f[x] \in Int /\ f[z] \in Int
      BY <2>1
    <3>4. SumOver(f, (T \ {z}) \ {x}) \in Int
      <4>1. IsFiniteSet((T \ {z}) \ {x})
        BY FS_Subset
      <4> QED
        BY <4>1, SumType
    <3> HIDE DEF Good
    <3> QED
      BY <2>1, <3>1, <3>2, <3>3, <3>4, <3>5
  <2> QED
    BY <2>1, <2>2
<1> HIDE DEF Good
<1>3. S \in Good
  BY <1>1, <1>2, SetInduction
<1> QED
  BY <1>3 DEF Good

\* Adding an element.
LEMMA SumInsert ==
  ASSUME NEW f, NEW S, IsFiniteSet(S), NEW y, y \notin S, \A x \in S \cup {y} : f[x] \in Int
  PROVE  SumOver(f, S \cup {y}) = f[y] + SumOver(f, S)
<1>1. IsFiniteSet(S \cup {y}) /\ (S \cup {y}) \ {y} = S
  BY FS_AddElement
<1> QED
  BY <1>1, SumRemove

\* Only the values on the set matter.
LEMMA SumSame ==
  ASSUME NEW f, NEW k, NEW S, IsFiniteSet(S),
         \A x \in S : f[x] \in Int /\ k[x] = f[x]
  PROVE  SumOver(k, S) = SumOver(f, S)
<1> DEFINE Good == {T \in SUBSET S : SumOver(k, T) = SumOver(f, T)}
<1>1. {} \in Good
  BY SumOfNone
<1>2. ASSUME NEW T \in SUBSET S, T # {}, \A x \in T : T \ {x} \in Good
      PROVE  T \in Good
  <2>1. PICK x \in T : TRUE
    BY <1>2
  <2>2. /\ SumOver(f, T) = f[x] + SumOver(f, T \ {x})
        /\ SumOver(k, T) = k[x] + SumOver(k, T \ {x})
    BY FS_Subset, SumRemove
  <2> QED
    BY <1>2, <2>2
<1> HIDE DEF Good
<1>3. S \in Good
  BY <1>1, <1>2, SetInduction
<1> QED
  BY <1>3 DEF Good

\* The sum follows a change of one value.
LEMMA SumUpdate ==
  ASSUME NEW f, NEW k, NEW S, IsFiniteSet(S), NEW y \in S,
         \A x \in S : f[x] \in Int /\ k[x] \in Int,
         \A x \in S \ {y} : k[x] = f[x]
  PROVE  SumOver(k, S) = SumOver(f, S) + k[y] - f[y]
<1>1. IsFiniteSet(S \ {y})
  BY FS_Subset
<1>2. SumOver(k, S \ {y}) = SumOver(f, S \ {y}) /\ SumOver(f, S \ {y}) \in Int
  BY <1>1, SumSame, SumType
<1>3. /\ SumOver(k, S) = k[y] + SumOver(k, S \ {y})
      /\ SumOver(f, S) = f[y] + SumOver(f, S \ {y})
  BY SumRemove
<1> QED
  BY <1>2, <1>3

LEMMA SumUnion ==
  ASSUME NEW f, NEW S, IsFiniteSet(S), NEW R, IsFiniteSet(R), S \cap R = {},
         \A x \in S \cup R : f[x] \in Int
  PROVE  SumOver(f, S \cup R) = SumOver(f, S) + SumOver(f, R)
<1> DEFINE Good == {T \in SUBSET S : SumOver(f, T \cup R) = SumOver(f, T) + SumOver(f, R)}
<1>0. SumOver(f, R) \in Int
  BY SumType
<1>1. {} \in Good
  <2>1. {} \cup R = R
    OBVIOUS
  <2> QED
    BY <1>0, <2>1, SumOfNone
<1>2. ASSUME NEW T \in SUBSET S, T # {}, \A x \in T : T \ {x} \in Good
      PROVE  T \in Good
  <2>1. PICK x \in T : TRUE
    BY <1>2
  <2>2. IsFiniteSet(T) /\ IsFiniteSet(T \ {x}) /\ IsFiniteSet(T \cup R)
    BY FS_Subset, FS_Union
  <2>3. /\ SumOver(f, T) = f[x] + SumOver(f, T \ {x})
        /\ SumOver(f, T \ {x}) \in Int
        /\ SumOver(f, T \cup R) = f[x] + SumOver(f, (T \cup R) \ {x})
    BY <2>2, SumRemove, SumType
  <2>4. (T \cup R) \ {x} = (T \ {x}) \cup R
    BY <2>1
  <2>5. SumOver(f, (T \ {x}) \cup R) = SumOver(f, T \ {x}) + SumOver(f, R)
    BY <1>2
  <2>6. SumOver(f, (T \cup R) \ {x}) = SumOver(f, T \ {x}) + SumOver(f, R) /\ f[x] \in Int
    BY <2>4, <2>5
  <2>7. SumOver(f, T \cup R) = SumOver(f, T) + SumOver(f, R)
    <3> HIDE DEF Good
    <3> QED
      BY <1>0, <2>3, <2>6
  <2> QED
    BY <2>7
<1> HIDE DEF Good
<1>3. S \in Good
  BY <1>1, <1>2, SetInduction
<1> QED
  BY <1>3 DEF Good

LEMMA SumPlus ==
  ASSUME NEW f, NEW k, NEW j, NEW S, IsFiniteSet(S),
         \A x \in S : f[x] \in Int /\ k[x] \in Int /\ j[x] = f[x] + k[x]
  PROVE  SumOver(j, S) = SumOver(f, S) + SumOver(k, S)
<1> DEFINE Good == {T \in SUBSET S : SumOver(j, T) = SumOver(f, T) + SumOver(k, T)}
<1>1. {} \in Good
  BY SumOfNone
<1>2. ASSUME NEW T \in SUBSET S, T # {}, \A x \in T : T \ {x} \in Good
      PROVE  T \in Good
  <2>1. PICK x \in T : TRUE
    BY <1>2
  <2>2. IsFiniteSet(T) /\ IsFiniteSet(T \ {x}) /\ \A y \in S : j[y] \in Int
    BY FS_Subset
  <2>3. /\ SumOver(f, T) = f[x] + SumOver(f, T \ {x}) /\ SumOver(f, T \ {x}) \in Int
        /\ SumOver(k, T) = k[x] + SumOver(k, T \ {x}) /\ SumOver(k, T \ {x}) \in Int
        /\ SumOver(j, T) = j[x] + SumOver(j, T \ {x})
    BY <2>2, SumRemove, SumType
  <2> QED
    BY <1>2, <2>3
<1> HIDE DEF Good
<1>3. S \in Good
  BY <1>1, <1>2, SetInduction
<1> QED
  BY <1>3 DEF Good

LEMMA SumMonotonic ==
  ASSUME NEW f, NEW k, NEW S, IsFiniteSet(S),
         \A x \in S : f[x] \in Int /\ k[x] \in Int /\ f[x] <= k[x]
  PROVE  SumOver(f, S) <= SumOver(k, S)
<1> DEFINE Good == {T \in SUBSET S : SumOver(f, T) <= SumOver(k, T)}
<1>1. {} \in Good
  BY SumOfNone
<1>2. ASSUME NEW T \in SUBSET S, T # {}, \A x \in T : T \ {x} \in Good
      PROVE  T \in Good
  <2>1. PICK x \in T : TRUE
    BY <1>2
  <2>2. IsFiniteSet(T) /\ IsFiniteSet(T \ {x})
    BY FS_Subset
  <2>3. /\ SumOver(f, T) = f[x] + SumOver(f, T \ {x}) /\ SumOver(f, T \ {x}) \in Int
        /\ SumOver(k, T) = k[x] + SumOver(k, T \ {x}) /\ SumOver(k, T \ {x}) \in Int
    BY <2>2, SumRemove, SumType
  <2> QED
    BY <1>2, <2>3
<1> HIDE DEF Good
<1>3. S \in Good
  BY <1>1, <1>2, SetInduction
<1> QED
  BY <1>3 DEF Good

\* n terms of at most b sum up to at most n * b.
LEMMA SumBounded ==
  ASSUME NEW f, NEW S, IsFiniteSet(S), NEW b \in Nat,
         \A x \in S : f[x] \in Int /\ f[x] <= b
  PROVE  SumOver(f, S) <= Cardinality(S) * b
<1> DEFINE Good == {T \in SUBSET S : SumOver(f, T) <= Cardinality(T) * b}
<1>1. {} \in Good
  BY SumOfNone, FS_EmptySet
<1>2. ASSUME NEW T \in SUBSET S, T # {}, \A x \in T : T \ {x} \in Good
      PROVE  T \in Good
  <2>1. PICK x \in T : TRUE
    BY <1>2
  <2>2. /\ IsFiniteSet(T) /\ IsFiniteSet(T \ {x})
        /\ Cardinality(T) = Cardinality(T \ {x}) + 1 /\ Cardinality(T \ {x}) \in Nat
    <3>1. IsFiniteSet(T) /\ IsFiniteSet(T \ {x})
      BY FS_Subset
    <3>2. (T \ {x}) \cup {x} = T /\ x \notin T \ {x}
      OBVIOUS
    <3>3. Cardinality((T \ {x}) \cup {x}) = Cardinality(T \ {x}) + 1
      BY <3>1, FS_AddElement
    <3> QED
      BY <3>1, <3>2, <3>3, FS_CardinalityType
  <2>3. SumOver(f, T) = f[x] + SumOver(f, T \ {x}) /\ SumOver(f, T \ {x}) \in Int
    BY <2>2, SumRemove, SumType
  <2>4. SumOver(f, T \ {x}) <= Cardinality(T \ {x}) * b /\ f[x] <= b /\ f[x] \in Int
    BY <1>2
  <2>5. (Cardinality(T \ {x}) + 1) * b = Cardinality(T \ {x}) * b + b
        /\ Cardinality(T \ {x}) * b \in Nat
    BY <2>2
  <2> QED
    BY <2>2, <2>3, <2>4, <2>5
<1> HIDE DEF Good
<1>3. S \in Good
  BY <1>1, <1>2, SetInduction
<1> QED
  BY <1>3 DEF Good

LEMMA SumOfZeros ==
  ASSUME NEW f, NEW S, IsFiniteSet(S), \A x \in S : f[x] = 0
  PROVE  SumOver(f, S) = 0
<1> DEFINE Good == {T \in SUBSET S : SumOver(f, T) = 0}
<1>1. {} \in Good
  BY SumOfNone
<1>2. ASSUME NEW T \in SUBSET S, T # {}, \A x \in T : T \ {x} \in Good
      PROVE  T \in Good
  <2>1. PICK x \in T : TRUE
    BY <1>2
  <2>2. IsFiniteSet(T)
    BY FS_Subset
  <2>3. SumOver(f, T) = f[x] + SumOver(f, T \ {x})
    BY <2>2, SumRemove
  <2> QED
    BY <1>2, <2>3
<1> HIDE DEF Good
<1>3. S \in Good
  BY <1>1, <1>2, SetInduction
<1> QED
  BY <1>3 DEF Good

\* A sum with one term that is not 0.
LEMMA SumOfOne ==
  ASSUME NEW f, NEW S, IsFiniteSet(S), NEW y \in S, f[y] \in Int, \A x \in S \ {y} : f[x] = 0
  PROVE  SumOver(f, S) = f[y]
<1>1. IsFiniteSet(S \ {y}) /\ \A x \in S : f[x] \in Int
  BY FS_Subset
<1>2. SumOver(f, S) = f[y] + SumOver(f, S \ {y})
  BY <1>1, SumRemove
<1>3. SumOver(f, S \ {y}) = 0
  BY <1>1, SumOfZeros
<1> QED
  BY <1>2, <1>3

LEMMA SumNegated ==
  ASSUME NEW f, NEW k, NEW S, IsFiniteSet(S), \A x \in S : f[x] \in Int /\ k[x] = -f[x]
  PROVE  SumOver(k, S) = -SumOver(f, S)
<1> DEFINE z == [x \in S |-> 0]
<1>1. SumOver(z, S) = SumOver(f, S) + SumOver(k, S)
  BY SumPlus
<1>2. SumOver(z, S) = 0
  BY SumOfZeros
<1>3. SumOver(f, S) \in Int /\ SumOver(k, S) \in Int
  BY SumType
<1> HIDE DEF z
<1> QED
  BY <1>1, <1>2, <1>3

\* No term of a sum of natural numbers is larger than the sum.
LEMMA SumOfNaturals ==
  ASSUME NEW f, NEW S, IsFiniteSet(S), \A x \in S : f[x] \in Nat
  PROVE  /\ SumOver(f, S) \in Nat
         /\ \A x \in S : f[x] <= SumOver(f, S)
<1>1. ASSUME NEW T \in SUBSET S
      PROVE  SumOver(f, T) \in Nat
  <2> DEFINE z == [x \in T |-> 0]
  <2>1. IsFiniteSet(T)
    BY FS_Subset
  <2>2. SumOver(z, T) = 0 /\ SumOver(z, T) <= SumOver(f, T) /\ SumOver(f, T) \in Int
    BY <2>1, SumOfZeros, SumMonotonic, SumType
  <2> HIDE DEF z
  <2> QED
    BY <2>2
<1>2. ASSUME NEW x \in S
      PROVE  f[x] <= SumOver(f, S)
  <2>1. SumOver(f, S) = f[x] + SumOver(f, S \ {x}) /\ SumOver(f, S \ {x}) \in Nat
    BY <1>1, SumRemove
  <2> QED
    BY <2>1
<1> QED
  BY <1>1, <1>2

\* The terms may be renamed.
LEMMA SumRenamed ==
  ASSUME NEW f, NEW k, NEW r, NEW S, IsFiniteSet(S), NEW R, IsFiniteSet(R),
         \A x \in S : r[x] \in R /\ f[x] \in Int /\ k[r[x]] = f[x],
         \A x, y \in S : r[x] = r[y] => x = y,
         \A y \in R : \E x \in S : y = r[x]
  PROVE  SumOver(k, R) = SumOver(f, S)
<1> DEFINE image(T) == {r[x] : x \in T}
<1> DEFINE Good == {T \in SUBSET S : SumOver(k, image(T)) = SumOver(f, T)}
<1>1. {} \in Good
  <2>1. image({}) = {}
    OBVIOUS
  <2> QED
    BY <2>1, SumOfNone
<1>2. ASSUME NEW T \in SUBSET S, T # {}, \A x \in T : T \ {x} \in Good
      PROVE  T \in Good
  <2>1. PICK x \in T : TRUE
    BY <1>2
  <2>2. IsFiniteSet(T) /\ image(T) \in SUBSET R /\ IsFiniteSet(image(T))
    BY FS_Subset
  <2>3. r[x] \in image(T) /\ image(T) \ {r[x]} = image(T \ {x}) /\ \A y \in image(T) : k[y] \in Int
    BY <2>1
  <2>4. /\ SumOver(f, T) = f[x] + SumOver(f, T \ {x})
        /\ SumOver(k, image(T)) = k[r[x]] + SumOver(k, image(T) \ {r[x]})
    BY <2>2, <2>3, SumRemove
  <2>5. SumOver(k, image(T \ {x})) = SumOver(f, T \ {x})
    BY <1>2
  <2> QED
    BY <2>3, <2>4, <2>5
<1> HIDE DEF Good
<1>3. S \in Good
  BY <1>1, <1>2, SetInduction
<1>4. image(S) = R
  OBVIOUS
<1> QED
  BY <1>3, <1>4 DEF Good

-------------------------------------------------------------------------------
(* Flows and cuts.                                                         *)

\* The slots that leave a set of nodes.
Leaving(c, N) == {a \in Edges(c) : c.src[a] \in N /\ c.dst[a] \notin N}

LEMMA NetworkIsFinite ==
  ASSUME NEW c, IsCase(c)
  PROVE  /\ IsFiniteSet(Nodes(c)) /\ IsFiniteSet(Edges(c))
         /\ \A A \in SUBSET Edges(c) : IsFiniteSet(A)
         /\ \A N \in SUBSET Nodes(c) : IsFiniteSet(N)
<1>1. c.nodeCount - 1 \in Int /\ c.edgeCount - 1 \in Int
  BY DEF IsCase
<1>2. IsFiniteSet(Nodes(c)) /\ IsFiniteSet(Edges(c))
  BY <1>1, FS_Interval DEF Nodes, Edges
<1> QED
  BY <1>2, FS_Subset

LEMMA CaseFacts ==
  ASSUME NEW c, IsCase(c), NEW a \in Edges(c)
  PROVE  /\ c.src[a] \in Nodes(c) /\ c.dst[a] \in Nodes(c) /\ c.src[a] \in Int
         /\ c.rev[a] \in Edges(c) /\ c.rev[c.rev[a]] = a /\ c.rev[a] # a
         /\ c.src[c.rev[a]] = c.dst[a] /\ c.dst[c.rev[a]] = c.src[a]
         /\ c.capacity[a] \in Nat
  BY IntAssumption, SMTT(30) DEF IsCase, IsPaired, Nodes

LEMMA NetOutflowIsSum ==
  ASSUME NEW c, NEW flow, NEW x
  PROVE  NetOutflow(c, flow, x) = SumOver(flow, Out(c, x))
  BY DEF NetOutflow, SumOver

\* What leaves the nodes of a set one by one is what their slots carry together.
LEMMA NetOutflowOfSet ==
  ASSUME NEW c, IsCase(c), NEW flow, \A a \in Edges(c) : flow[a] \in Int,
         NEW N \in SUBSET Nodes(c), NEW net, \A x \in N : net[x] = NetOutflow(c, flow, x)
  PROVE  SumOver(net, N) = SumOver(flow, {a \in Edges(c) : c.src[a] \in N})
<1> DEFINE from(T) == {a \in Edges(c) : c.src[a] \in T}
<1> DEFINE Good == {T \in SUBSET N : SumOver(net, T) = SumOver(flow, from(T))}
<1>0. IsFiniteSet(N)
  BY NetworkIsFinite
<1>1. {} \in Good
  <2>1. from({}) = {}
    OBVIOUS
  <2> QED
    BY <2>1, SumOfNone
<1>2. ASSUME NEW T \in SUBSET N, T # {}, \A x \in T : T \ {x} \in Good
      PROVE  T \in Good
  <2>1. PICK x \in T : TRUE
    BY <1>2
  <2>2. /\ IsFiniteSet(T) /\ IsFiniteSet(T \ {x})
        /\ IsFiniteSet(from(T \ {x})) /\ IsFiniteSet(Out(c, x))
    BY <1>0, FS_Subset, NetworkIsFinite DEF Out
  <2>3. /\ from(T) = from(T \ {x}) \cup Out(c, x)
        /\ from(T \ {x}) \cap Out(c, x) = {}
        /\ \A a \in from(T \ {x}) \cup Out(c, x) : flow[a] \in Int
    BY <2>1 DEF Out
  <2>4. SumOver(flow, from(T)) = SumOver(flow, from(T \ {x})) + SumOver(flow, Out(c, x))
    BY <2>2, <2>3, SumUnion
  <2>5. \A y \in N : net[y] \in Int
    <3> TAKE y \in N
    <3>1. IsFiniteSet(Out(c, y)) /\ \A a \in Out(c, y) : flow[a] \in Int
      BY NetworkIsFinite DEF Out
    <3> QED
      BY <3>1, SumType, NetOutflowIsSum
  <2>6. SumOver(net, T) = net[x] + SumOver(net, T \ {x})
    BY <2>2, <2>5, SumRemove
  <2>7. SumOver(net, T \ {x}) = SumOver(flow, from(T \ {x}))
    BY <1>2
  <2>8. net[x] = SumOver(flow, Out(c, x)) /\ net[x] \in Int
    BY <2>5, NetOutflowIsSum
  <2>9. SumOver(flow, from(T \ {x})) \in Int
    BY <2>2, SumType
  <2>10. SumOver(net, T) = SumOver(flow, from(T))
    <3> HIDE DEF Good, from
    <3> QED
      BY <2>4, <2>6, <2>7, <2>8, <2>9
  <2> QED
    BY <2>10
<1> HIDE DEF Good
<1>3. N \in Good
  BY <1>0, <1>1, <1>2, SetInduction
<1> QED
  BY <1>3 DEF Good

\* The slots between the nodes of a set cancel out.
LEMMA InnerSlotsCancel ==
  ASSUME NEW c, IsCase(c), NEW flow, \A a \in Edges(c) : flow[a] \in Int,
         SkewSymmetry(c, flow), NEW N
  PROVE  SumOver(flow, {a \in Edges(c) : c.src[a] \in N /\ c.dst[a] \in N}) = 0
<1> DEFINE inner == {a \in Edges(c) : c.src[a] \in N /\ c.dst[a] \in N}
<1> DEFINE minus == [a \in Edges(c) |-> -flow[a]]
<1>1. IsFiniteSet(inner)
  BY NetworkIsFinite
<1>2. \A a \in inner : /\ c.rev[a] \in inner /\ minus[a] \in Int
                       /\ flow[c.rev[a]] = minus[a]
  BY CaseFacts DEF SkewSymmetry
<1>3. \A a \in inner : c.rev[c.rev[a]] = a
  BY CaseFacts
<1>4. /\ \A a, b \in inner : c.rev[a] = c.rev[b] => a = b
      /\ \A b \in inner : \E a \in inner : b = c.rev[a]
  BY <1>2, <1>3
<1>5. SumOver(flow, inner) = SumOver(minus, inner)
  <2> HIDE DEF minus, inner
  <2> QED
    BY <1>1, <1>2, <1>4, SumRenamed, SMTT(30)
<1>6. SumOver(minus, inner) = -SumOver(flow, inner)
  BY <1>1, SumNegated
<1>7. SumOver(flow, inner) \in Int
  BY <1>1, SumType
<1> QED
  BY <1>5, <1>6, <1>7

\* The nodes of a set together send out what crosses the cut around them.
LEMMA NetOutflowOfCut ==
  ASSUME NEW c, IsCase(c), NEW flow, \A a \in Edges(c) : flow[a] \in Int,
         SkewSymmetry(c, flow),
         NEW N \in SUBSET Nodes(c), NEW net, \A x \in N : net[x] = NetOutflow(c, flow, x)
  PROVE  SumOver(net, N) = SumOver(flow, Leaving(c, N))
<1> DEFINE inner == {a \in Edges(c) : c.src[a] \in N /\ c.dst[a] \in N}
<1>1. SumOver(net, N) = SumOver(flow, {a \in Edges(c) : c.src[a] \in N})
  BY NetOutflowOfSet
<1>2. SumOver(net, N) = SumOver(flow, inner \cup Leaving(c, N))
  <2>1. {a \in Edges(c) : c.src[a] \in N} = inner \cup Leaving(c, N)
    BY DEF Leaving
  <2> QED
    BY <1>1, <2>1
<1>3. /\ IsFiniteSet(inner) /\ IsFiniteSet(Leaving(c, N)) /\ inner \cap Leaving(c, N) = {}
      /\ \A a \in inner \cup Leaving(c, N) : flow[a] \in Int
  BY NetworkIsFinite DEF Leaving
<1>4. SumOver(flow, inner \cup Leaving(c, N)) = SumOver(flow, inner) + SumOver(flow, Leaving(c, N))
  BY <1>3, SumUnion
<1>5. SumOver(flow, inner) = 0 /\ SumOver(flow, Leaving(c, N)) \in Int
  BY <1>3, InnerSlotsCancel, SumType
<1> HIDE DEF inner
<1> QED
  BY <1>2, <1>4, <1>5

LEMMA NetOutflowType ==
  ASSUME NEW c, IsCase(c), NEW flow, \A a \in Edges(c) : flow[a] \in Int, NEW x
  PROVE  NetOutflow(c, flow, x) \in Int
<1>1. IsFiniteSet(Out(c, x)) /\ \A a \in Out(c, x) : flow[a] \in Int
  BY NetworkIsFinite DEF Out
<1> QED
  BY <1>1, SumType, NetOutflowIsSum

\* The value of a flow crosses every cut between the source and the sink.
LEMMA ValueCrossesCut ==
  ASSUME NEW c, IsCase(c), NEW flow, \A a \in Edges(c) : flow[a] \in Int,
         SkewSymmetry(c, flow), Conserves(c, flow),
         NEW N \in SUBSET Nodes(c), c.source \in N, c.sink \notin N
  PROVE  FlowValue(c, flow) = SumOver(flow, Leaving(c, N))
<1> DEFINE net == [x \in N |-> NetOutflow(c, flow, x)]
<1>1. SumOver(net, N) = SumOver(flow, Leaving(c, N))
  BY NetOutflowOfCut
<1>2. IsFiniteSet(N) /\ IsFiniteSet(N \ {c.source})
  BY NetworkIsFinite
<1>3. \A x \in N : net[x] \in Int
  BY NetOutflowType
<1>4. SumOver(net, N) = net[c.source] + SumOver(net, N \ {c.source})
  <2> HIDE DEF net
  <2> QED
    BY <1>2, <1>3, SumRemove
<1>5. SumOver(net, N \ {c.source}) = 0
  <2>1. \A x \in N \ {c.source} : net[x] = 0
    BY DEF Conserves
  <2> HIDE DEF net
  <2> QED
    BY <1>2, <2>1, SumOfZeros
<1>6. net[c.source] = FlowValue(c, flow)
  BY DEF FlowValue
<1> QED
  BY <1>1, <1>3, <1>4, <1>5, <1>6

\* What leaves the source arrives at the sink.
LEMMA SourceFeedsSink ==
  ASSUME NEW c, IsCase(c), NEW flow, \A a \in Edges(c) : flow[a] \in Int,
         SkewSymmetry(c, flow), NEW net \in [Nodes(c) -> Int],
         \A x \in Nodes(c) : net[x] = NetOutflow(c, flow, x)
  PROVE  SumOver(net, Nodes(c)) = 0
<1>1. SumOver(net, Nodes(c)) = SumOver(flow, Leaving(c, Nodes(c)))
  BY NetOutflowOfCut
<1>2. Leaving(c, Nodes(c)) = {}
  BY CaseFacts DEF Leaving
<1> QED
  BY <1>1, <1>2, SumOfNone

\* What no cut is smaller than, and some cut as large as, is the minimum cut.
LEMMA CutMeetsBound ==
  ASSUME NEW c, IsCase(c), NEW v \in Int,
         NEW N \in SUBSET Nodes(c), c.source \in N, c.sink \notin N,
         SumOver(c.capacity, Leaving(c, N)) = v,
         \A S \in SUBSET Nodes(c) : c.source \in S /\ c.sink \notin S =>
           v <= SumOver(c.capacity, Leaving(c, S))
  PROVE  v = MinCut(c)
<1> DEFINE sides == {S \cup {c.source} : S \in SUBSET (Nodes(c) \ {c.source, c.sink})}
<1> DEFINE caps == {SumOver(c.capacity, Leaving(c, S)) : S \in sides}
<1>1. MinCut(c) = CHOOSE x \in caps : \A y \in caps : x =< y
  BY DEF MinCut, SumOver, Leaving, Min
<1>2. \A S \in sides : /\ S \in SUBSET Nodes(c) /\ c.source \in S /\ c.sink \notin S
  BY DEF IsCase
<1>3. v \in caps
  <2>1. N \in sides
    <3>1. N \ {c.source} \in SUBSET (Nodes(c) \ {c.source, c.sink})
      OBVIOUS
    <3>2. N = (N \ {c.source}) \cup {c.source}
      OBVIOUS
    <3> QED
      BY <3>1, <3>2
  <2> HIDE DEF sides
  <2> QED
    BY <2>1
<1>4. \A y \in caps : y \in Int /\ v <= y
  <2>1. ASSUME NEW S \in sides PROVE SumOver(c.capacity, Leaving(c, S)) \in Int
    <3>1. IsFiniteSet(Leaving(c, S))
      BY NetworkIsFinite DEF Leaving
    <3>2. \A a \in Leaving(c, S) : c.capacity[a] \in Int
      BY CaseFacts DEF Leaving
    <3> QED
      BY <3>1, <3>2, SumType
  <2> HIDE DEF sides
  <2> QED
    BY <1>2, <2>1
<1> HIDE DEF caps
<1>5. ASSUME NEW x \in caps, \A y \in caps : x =< y
      PROVE  x = v
  <2>1. x \in Int /\ v <= x /\ x <= v
    BY <1>3, <1>4, <1>5
  <2> QED
    BY ONLY <2>1, v \in Int
<1> QED
  BY <1>1, <1>3, <1>4, <1>5

\* No flow is larger than a cut, and a flow that fills a cut is a largest one:
\* its value is the capacity of a minimum cut.
LEMMA FilledCutIsMinimal ==
  ASSUME NEW c, IsCase(c), NEW flow, \A a \in Edges(c) : flow[a] \in Int,
         IsFlow(c, flow),
         NEW N \in SUBSET Nodes(c), c.source \in N, c.sink \notin N,
         \A a \in Leaving(c, N) : flow[a] = c.capacity[a]
  PROVE  FlowValue(c, flow) = MinCut(c)
<1>1. ASSUME NEW S \in SUBSET Nodes(c), c.source \in S, c.sink \notin S
      PROVE  FlowValue(c, flow) <= SumOver(c.capacity, Leaving(c, S))
  <2>1. FlowValue(c, flow) = SumOver(flow, Leaving(c, S))
    BY <1>1, ValueCrossesCut DEF IsFlow
  <2>2. IsFiniteSet(Leaving(c, S))
    BY NetworkIsFinite DEF Leaving
  <2>3. \A a \in Leaving(c, S) : flow[a] \in Int /\ c.capacity[a] \in Int /\ flow[a] <= c.capacity[a]
    BY CaseFacts DEF Leaving, IsFlow, CapacityOK
  <2> QED
    BY <2>1, <2>2, <2>3, SumMonotonic
<1>2. SumOver(c.capacity, Leaving(c, N)) = FlowValue(c, flow)
  <2>1. IsFiniteSet(Leaving(c, N))
    BY NetworkIsFinite DEF Leaving
  <2>2. \A a \in Leaving(c, N) : flow[a] \in Int /\ c.capacity[a] = flow[a]
    BY DEF Leaving
  <2>3. SumOver(c.capacity, Leaving(c, N)) = SumOver(flow, Leaving(c, N))
    BY <2>1, <2>2, SumSame
  <2> QED
    BY <2>3, ValueCrossesCut DEF IsFlow
<1>3. FlowValue(c, flow) \in Int
  BY NetOutflowType DEF FlowValue
<1> QED
  BY <1>1, <1>2, <1>3, CutMeetsBound

-------------------------------------------------------------------------------
(* Reachability.                                                           *)

\* f is what Spread computes.
IsSpread(f, start, near, n) ==
  f = [k \in 0 .. n |-> IF k = 0 THEN start ELSE UNION {near[x] : x \in f[k - 1]}]

\* No more levels than nodes.
LEMMA LevelsAreNodes ==
  ASSUME NEW n \in Nat, NEW K \in Nat, NEW d, \A k \in 0 .. K : \E x \in 0 .. (n - 1) : d[x] = k
  PROVE  K < n
<1> DEFINE f == [k \in 0 .. K |-> CHOOSE x \in 0 .. (n - 1) : d[x] = k]
<1>1. \A k \in 0 .. K : f[k] \in 0 .. (n - 1) /\ d[f[k]] = k
  OBVIOUS
<1>2. f \in Injection(0 .. K, 0 .. (n - 1))
  <2>1. f \in [0 .. K -> 0 .. (n - 1)]
    BY <1>1
  <2>2. \A k, m \in 0 .. K : f[k] = f[m] => k = m
    BY <1>1
  <2> QED
    BY <2>1, <2>2 DEF Injection, IsInjective
<1> HIDE DEF f
<1>3. /\ IsFiniteSet(0 .. (n - 1)) /\ Cardinality(0 .. (n - 1)) = IF 0 > n - 1 THEN 0 ELSE (n - 1) - 0 + 1
      /\ Cardinality(0 .. K) = IF 0 > K THEN 0 ELSE K - 0 + 1
  <2>1. 0 \in Int /\ n - 1 \in Int /\ K \in Int
    OBVIOUS
  <2> QED
    BY <2>1, FS_Interval
<1>4. Cardinality(0 .. K) <= Cardinality(0 .. (n - 1))
  BY <1>2, <1>3, FS_Injection
<1> QED
  BY <1>3, <1>4

LEMMA SpreadExists ==
  ASSUME NEW n \in Nat, NEW start, NEW near
  PROVE  \E f : IsSpread(f, start, near, n)
<1> DEFINE Bad == {m \in Nat : ~\E f : IsSpread(f, start, near, m)}
<1>1. SUFFICES ASSUME Bad # {} PROVE FALSE
  OBVIOUS
<1>2. PICK m \in Bad : \A k \in Bad : ~(k < m)
  <2> HIDE DEF Bad
  <2>1. Bad \in SUBSET Nat
    BY DEF Bad
  <2> QED
    BY <1>1, <2>1, LeastNumber
<1>3. m \in Nat /\ ~\E f : IsSpread(f, start, near, m)
  OBVIOUS
<1>4. m # 0
  <2> DEFINE f == [k \in 0 .. 0 |-> start]
  <2>1. IsSpread(f, start, near, 0)
    BY DEF IsSpread
  <2> QED
    BY <1>3, <2>1
<1>5. PICK f : IsSpread(f, start, near, m - 1)
  <2>1. m - 1 \in Nat /\ m - 1 < m
    BY <1>3, <1>4
  <2> QED
    BY <1>2, <2>1
<1> DEFINE more == [k \in 0 .. m |-> IF k = 0 THEN start ELSE UNION {near[x] : x \in f[k - 1]}]
<1>6. \A k \in 0 .. (m - 1) : more[k] = f[k]
  BY <1>3, <1>4, <1>5 DEF IsSpread
<1>7. \A k \in 0 .. m : k # 0 => k - 1 \in 0 .. (m - 1)
  BY <1>3
<1>8. \A k \in 0 .. m : k # 0 => more[k - 1] = f[k - 1]
  BY <1>6, <1>7
<1>9. more = [k \in 0 .. m |-> IF k = 0 THEN start ELSE UNION {near[x] : x \in more[k - 1]}]
  <2> DEFINE again == [k \in 0 .. m |-> IF k = 0 THEN start ELSE UNION {near[x] : x \in more[k - 1]}]
  <2>1. \A k \in 0 .. m : more[k] = IF k = 0 THEN start ELSE UNION {near[x] : x \in f[k - 1]}
    OBVIOUS
  <2>2. \A k \in 0 .. m : again[k] = IF k = 0 THEN start ELSE UNION {near[x] : x \in more[k - 1]}
    OBVIOUS
  <2>3. DOMAIN more = 0 .. m /\ DOMAIN again = 0 .. m
    OBVIOUS
  <2>4. more = [k \in 0 .. m |-> more[k]] /\ again = [k \in 0 .. m |-> again[k]]
    OBVIOUS
  <2> HIDE DEF more, again
  <2>5. \A k \in 0 .. m : more[k] = again[k]
    BY <1>8, <2>1, <2>2
  <2>6. more = again
    BY <2>4, <2>5
  <2> QED
    BY <2>6 DEF again
<1> HIDE DEF more
<1> QED
  BY <1>3, <1>9 DEF IsSpread

LEMMA SpreadFacts ==
  ASSUME NEW n \in Nat, NEW start, NEW near
  PROVE  /\ Spread(start, near, n)[0] = start
         /\ \A k \in 1 .. n :
               Spread(start, near, n)[k] = UNION {near[x] : x \in Spread(start, near, n)[k - 1]}
<1> DEFINE f == CHOOSE f : IsSpread(f, start, near, n)
<1>1. IsSpread(f, start, near, n)
  BY SpreadExists
<1>2. Spread(start, near, n) = [k \in 0 .. n |-> f[k]]
  BY DEF Spread, IsSpread
<1> HIDE DEF f
<1>3. /\ f[0] = start
      /\ \A k \in 1 .. n : f[k] = UNION {near[x] : x \in f[k - 1]}
  BY <1>1 DEF IsSpread
<1>4. \A k \in 0 .. n : Spread(start, near, n)[k] = f[k]
  BY <1>2
<1>5. \A k \in 1 .. n : k \in 0 .. n /\ k - 1 \in 0 .. n
  OBVIOUS
<1> QED
  BY <1>3, <1>4, <1>5

\* A set no step leaves holds everything that is reached from inside.
LEMMA SpreadStays ==
  ASSUME NEW n \in Nat, NEW start, NEW near, NEW T, start \subseteq T,
         \A x \in T : near[x] \subseteq T
  PROVE  \A k \in 0 .. n : Spread(start, near, n)[k] \subseteq T
<1> DEFINE f == Spread(start, near, n)
<1> DEFINE Bad == {k \in 0 .. n : ~(f[k] \subseteq T)}
<1>1. SUFFICES ASSUME Bad # {} PROVE FALSE
  OBVIOUS
<1>2. PICK m \in Bad : \A k \in Bad : ~(k < m)
  <2> HIDE DEF Bad
  <2>1. Bad \in SUBSET Nat
    BY DEF Bad
  <2> QED
    BY <1>1, <2>1, LeastNumber
<1>3. m \in 0 .. n /\ ~(f[m] \subseteq T)
  OBVIOUS
<1>4. /\ f[0] = start
      /\ \A k \in 1 .. n : f[k] = UNION {near[x] : x \in f[k - 1]}
  BY SpreadFacts
<1> HIDE DEF f
<1>5. m \in 1 .. n /\ m - 1 \in 0 .. n /\ m - 1 < m
  BY <1>3, <1>4
<1>6. f[m - 1] \subseteq T
  BY <1>2, <1>5
<1>7. f[m] = UNION {near[x] : x \in f[m - 1]}
  BY <1>4, <1>5
<1> QED
  BY <1>3, <1>6, <1>7

\* No path leads out of a set that no residual edge leaves.
LEMMA ClosedSetHasNoPath ==
  ASSUME NEW c, IsCase(c), NEW flow, NEW T, c.source \in T, c.sink \notin T,
         \A a \in ResidualEdges(c, flow) : c.src[a] \in T => c.dst[a] \in T
  PROVE  ~HasAugmentingPath(c, flow)
<1> DEFINE n == c.nodeCount
<1> DEFINE E == ResidualEdges(c, flow)
<1> DEFINE around == [x \in Nodes(c) |-> {x} \cup {c.dst[a] : a \in {b \in E : c.src[b] = x}}]
<1> DEFINE balls == Balls(c, flow)
<1> DEFINE outside == {k \in 1 .. n : c.sink \notin balls[k]}
<1>1. n \in Nat /\ c.source \in Nodes(c) /\ c.sink \in Nodes(c) /\ c.source # c.sink
  BY DEF IsCase
<1>2. \A a \in E : a \in Edges(c) /\ c.dst[a] \in Nodes(c)
  BY CaseFacts DEF ResidualEdges
<1>3. balls = Spread({c.source}, around, n)
  BY DEF Balls
<1>4. \A x \in T \cap Nodes(c) : around[x] \subseteq T \cap Nodes(c)
  BY <1>2
<1>5. \A k \in 0 .. n : balls[k] \subseteq T \cap Nodes(c)
  <2>1. {c.source} \subseteq T \cap Nodes(c)
    BY <1>1
  <2> HIDE DEF around, balls, n
  <2> QED
    BY <1>1, <1>3, <1>4, <2>1, SpreadStays
<1> HIDE DEF balls, n
<1>6. outside = 1 .. n
  BY <1>1, <1>5
<1>7. Cardinality(outside) = n
  <2>1. Cardinality(1 .. n) = IF 1 > n THEN 0 ELSE n - 1 + 1
    BY <1>1, FS_Interval
  <2>2. (IF 1 > n THEN 0 ELSE n - 1 + 1) = n
    BY <1>1
  <2> HIDE DEF outside
  <2> QED
    BY <1>6, <2>1, <2>2
<1> HIDE DEF outside
<1>8. Distances(c, flow)[c.sink] = -1
  BY <1>1, <1>7 DEF Distances, balls, outside, n
<1> QED
  BY <1>8 DEF HasAugmentingPath

\* A set without the sink that no edge of E enters does not lead to the sink.
LEMMA BlockedSetHasNoPath ==
  ASSUME NEW c, IsCase(c), NEW E \in SUBSET Edges(c), NEW T, c.sink \notin T,
         \A a \in E : c.src[a] \in T => c.dst[a] \in T
  PROVE  CoReach(c, E) \cap T = {}
<1> DEFINE n == c.nodeCount
<1> DEFINE before == [x \in Nodes(c) |-> {x} \cup {c.src[a] : a \in {b \in E : c.dst[b] = x}}]
<1> DEFINE U == Nodes(c) \ T
<1>1. n \in Nat /\ c.sink \in Nodes(c)
  BY DEF IsCase
<1>2. \A a \in E : c.src[a] \in Nodes(c)
  BY CaseFacts
<1>3. \A x \in U : before[x] \subseteq U
  BY <1>2
<1>4. \A k \in 0 .. n : Spread({c.sink}, before, n)[k] \subseteq U
  <2>1. {c.sink} \subseteq U
    BY <1>1
  <2> HIDE DEF before, U, n
  <2> QED
    BY <1>1, <1>3, <2>1, SpreadStays
<1>5. CoReach(c, E) = Spread({c.sink}, before, n)[n]
  BY DEF CoReach
<1> HIDE DEF before, n
<1>6. CoReach(c, E) \subseteq U
  BY <1>1, <1>4, <1>5
<1> QED
  BY <1>6

\* Steps that lead from every node to itself, among others, lose no node ...
LEMMA SpreadGrows ==
  ASSUME NEW n \in Nat, NEW start, NEW near, NEW N, start \subseteq N,
         \A x \in N : x \in near[x] /\ near[x] \subseteq N
  PROVE  /\ \A k \in 0 .. n : Spread(start, near, n)[k] \subseteq N
         /\ \A k \in 1 .. n : Spread(start, near, n)[k - 1] \subseteq Spread(start, near, n)[k]
         /\ \A j, k \in 0 .. n :
               j <= k => Spread(start, near, n)[j] \subseteq Spread(start, near, n)[k]
<1> DEFINE f == Spread(start, near, n)
<1>1. \A k \in 0 .. n : f[k] \subseteq N
  BY SpreadStays
<1>2. \A k \in 1 .. n : f[k] = UNION {near[x] : x \in f[k - 1]}
  BY SpreadFacts
<1> HIDE DEF f
<1>3. \A k \in 1 .. n : f[k - 1] \subseteq f[k]
  <2> SUFFICES ASSUME NEW k \in 1 .. n, NEW x \in f[k - 1] PROVE x \in f[k]
    OBVIOUS
  <2>1. k - 1 \in 0 .. n
    OBVIOUS
  <2>2. x \in near[x]
    BY <1>1, <2>1
  <2> QED
    BY <1>2, <2>2
<1>4. ASSUME NEW j \in 0 .. n
      PROVE  \A k \in 0 .. n : j <= k => f[j] \subseteq f[k]
  <2> DEFINE Bad == {k \in 0 .. n : j <= k /\ ~(f[j] \subseteq f[k])}
  <2>1. SUFFICES ASSUME Bad # {} PROVE FALSE
    OBVIOUS
  <2>2. PICK m \in Bad : \A k \in Bad : ~(k < m)
    <3>1. Bad \in SUBSET Nat
      OBVIOUS
    <3> HIDE DEF Bad
    <3> QED
      BY <2>1, <3>1, LeastNumber
  <2>3. m \in 0 .. n /\ j <= m /\ ~(f[j] \subseteq f[m])
    OBVIOUS
  <2>4. m # j
    BY <2>3
  <2>5. m \in 1 .. n /\ m - 1 \in 0 .. n /\ j <= m - 1 /\ m - 1 < m
    BY <2>3, <2>4
  <2>6. f[j] \subseteq f[m - 1]
    BY <2>2, <2>5
  <2> QED
    BY <1>3, <2>3, <2>5, <2>6
<1> QED
  BY <1>1, <1>3, <1>4 DEF f

\* ... and among n nodes there is nothing left to find after n steps.
LEMMA SpreadCloses ==
  ASSUME NEW n \in Nat, NEW start, NEW near, NEW N, IsFiniteSet(N), Cardinality(N) <= n,
         start \subseteq N, start # {},
         \A x \in N : x \in near[x] /\ near[x] \subseteq N
  PROVE  \A x \in Spread(start, near, n)[n] : near[x] \subseteq Spread(start, near, n)[n]
<1> DEFINE f == Spread(start, near, n)
<1> SUFFICES ASSUME ~(\A x \in f[n] : near[x] \subseteq f[n]) PROVE FALSE
  OBVIOUS
<1>1. /\ \A k \in 0 .. n : f[k] \subseteq N
      /\ \A k \in 1 .. n : f[k - 1] \subseteq f[k]
      /\ \A j, k \in 0 .. n : j <= k => f[j] \subseteq f[k]
  BY SpreadGrows
<1>2. /\ f[0] = start
      /\ \A k \in 1 .. n : f[k] = UNION {near[x] : x \in f[k - 1]}
  BY SpreadFacts
\* A step that finds nothing is the last one that could have found something.
<1>3. ASSUME NEW k \in 1 .. n, f[k - 1] = f[k] PROVE FALSE
  <2>1. \A x \in f[k] : near[x] \subseteq f[k]
    BY <1>2, <1>3
  <2>2. start \subseteq f[k]
    <3>1. 0 \in 0 .. n /\ k \in 0 .. n /\ 0 <= k
      OBVIOUS
    <3> QED
      BY <1>1, <1>2, <3>1
  <2>3. f[n] \subseteq f[k]
    <3> DEFINE T == f[k]
    <3>1. start \subseteq T /\ \A x \in T : near[x] \subseteq T
      BY <2>1, <2>2
    <3> HIDE DEF T
    <3>2. \A j \in 0 .. n : f[j] \subseteq T
      BY <3>1, SpreadStays
    <3> QED
      BY <3>2 DEF T
  <2>4. f[k] \subseteq f[n]
    BY <1>1
  <2>5. f[n] = f[k]
    BY <2>3, <2>4
  <2> QED
    BY <2>1, <2>5
<1> HIDE DEF f
<1>4. \A k \in 0 .. n : IsFiniteSet(f[k]) /\ Cardinality(f[k]) \in Nat
  BY <1>1, FS_Subset, FS_CardinalityType
<1>5. \A k \in 0 .. n : Cardinality(f[k]) > k
  <2> DEFINE Bad == {k \in 0 .. n : ~(Cardinality(f[k]) > k)}
  <2>1. SUFFICES ASSUME Bad # {} PROVE FALSE
    OBVIOUS
  <2>2. PICK m \in Bad : \A k \in Bad : ~(k < m)
    <3>1. Bad \in SUBSET Nat
      OBVIOUS
    <3> HIDE DEF Bad
    <3> QED
      BY <2>1, <3>1, LeastNumber
  <2>3. m \in 0 .. n /\ ~(Cardinality(f[m]) > m) /\ Cardinality(f[m]) \in Nat
    BY <1>4
  <2>4. m # 0
    <3>1. Cardinality(f[0]) # 0
      BY <1>2, <1>4, FS_EmptySet
    <3> QED
      BY <2>3, <3>1
  <2>5. m \in 1 .. n /\ m - 1 \in 0 .. n /\ m - 1 < m
    BY <2>3, <2>4
  <2>6. Cardinality(f[m - 1]) > m - 1 /\ Cardinality(f[m - 1]) \in Nat
    BY <1>4, <2>2, <2>5
  <2>7. f[m - 1] \subseteq f[m] /\ f[m - 1] # f[m]
    BY <1>1, <1>3, <2>5
  <2>8. /\ Cardinality(f[m - 1]) <= Cardinality(f[m])
        /\ Cardinality(f[m]) # Cardinality(f[m - 1])
    BY <1>4, <2>3, <2>7, FS_Subset
  <2> QED
    BY <2>3, <2>5, <2>6, <2>8
<1>6. Cardinality(f[n]) <= Cardinality(N) /\ Cardinality(N) \in Nat
  BY <1>1, FS_Subset, FS_CardinalityType
<1>7. Cardinality(f[n]) > n /\ Cardinality(f[n]) \in Nat
  BY <1>4, <1>5
<1> QED
  BY <1>6, <1>7

\* The nodes a residual edge leads to from x, and x.
Around(c, flow) ==
  [x \in Nodes(c) |->
     {x} \cup {c.dst[a] : a \in {b \in ResidualEdges(c, flow) : c.src[b] = x}}]

LEMMA BallFacts ==
  ASSUME NEW c, IsCase(c), NEW flow
  PROVE  /\ c.nodeCount \in Nat
         /\ Balls(c, flow)[0] = {c.source}
         /\ \A k \in 0 .. c.nodeCount : Balls(c, flow)[k] \subseteq Nodes(c)
         /\ \A j, k \in 0 .. c.nodeCount :
               j <= k => Balls(c, flow)[j] \subseteq Balls(c, flow)[k]
         /\ \A a \in ResidualEdges(c, flow) :
               /\ \A k \in 1 .. c.nodeCount :
                     c.src[a] \in Balls(c, flow)[k - 1] => c.dst[a] \in Balls(c, flow)[k]
               /\ c.src[a] \in Balls(c, flow)[c.nodeCount] =>
                     c.dst[a] \in Balls(c, flow)[c.nodeCount]
         /\ \A k \in 1 .. c.nodeCount : \A x \in Balls(c, flow)[k] \ Balls(c, flow)[k - 1] :
               \E a \in ResidualEdges(c, flow) :
                 c.dst[a] = x /\ c.src[a] \in Balls(c, flow)[k - 1]
<1> DEFINE n == c.nodeCount
<1> DEFINE N == Nodes(c)
<1> DEFINE near == Around(c, flow)
<1> DEFINE f == Balls(c, flow)
<1>1. n \in Nat /\ c.source \in N
  BY DEF IsCase
<1>2. f = Spread({c.source}, near, n)
  BY DEF Balls, Around
<1>3. \A a \in ResidualEdges(c, flow) : c.src[a] \in N /\ c.dst[a] \in N
  BY CaseFacts DEF ResidualEdges
<1>4. \A x \in N : x \in near[x] /\ near[x] \subseteq N
  BY <1>3 DEF Around
<1>5. \A a \in ResidualEdges(c, flow) : c.dst[a] \in near[c.src[a]]
  BY <1>3 DEF Around
<1>6. \A y \in N : \A x \in near[y] :
         x = y \/ \E a \in ResidualEdges(c, flow) : c.dst[a] = x /\ c.src[a] = y
  BY DEF Around
<1>7. IsFiniteSet(N) /\ Cardinality(N) <= n
  <2>1. n - 1 \in Int
    BY <1>1
  <2>2. IsFiniteSet(N) /\ Cardinality(N) = IF 0 > n - 1 THEN 0 ELSE (n - 1) - 0 + 1
    BY <2>1, FS_Interval DEF Nodes
  <2> HIDE DEF N
  <2> QED
    BY <1>1, <2>2
<1> HIDE DEF n, N, near, f
<1>8. /\ f[0] = {c.source}
      /\ \A k \in 1 .. n : f[k] = UNION {near[x] : x \in f[k - 1]}
  <2>1. /\ Spread({c.source}, near, n)[0] = {c.source}
        /\ \A k \in 1 .. n : Spread({c.source}, near, n)[k]
                               = UNION {near[x] : x \in Spread({c.source}, near, n)[k - 1]}
    <3> DEFINE start == {c.source}
    <3> HIDE DEF start
    <3>1. /\ Spread(start, near, n)[0] = start
          /\ \A k \in 1 .. n :
                Spread(start, near, n)[k] = UNION {near[x] : x \in Spread(start, near, n)[k - 1]}
      BY <1>1, SpreadFacts
    <3> QED
      BY <3>1 DEF start
  <2> QED
    BY <1>2, <2>1
<1>9. {c.source} \subseteq N /\ {c.source} # {}
  BY <1>1
<1>10. /\ \A k \in 0 .. n : f[k] \subseteq N
       /\ \A j, k \in 0 .. n : j <= k => f[j] \subseteq f[k]
  BY <1>1, <1>2, <1>4, <1>9, SpreadGrows
<1>11. \A x \in f[n] : near[x] \subseteq f[n]
  BY <1>1, <1>2, <1>4, <1>7, <1>9, SpreadCloses
<1>12. ASSUME NEW a \in ResidualEdges(c, flow)
       PROVE  /\ \A k \in 1 .. n : c.src[a] \in f[k - 1] => c.dst[a] \in f[k]
              /\ c.src[a] \in f[n] => c.dst[a] \in f[n]
  BY <1>5, <1>8, <1>11
<1>13. ASSUME NEW k \in 1 .. n, NEW x \in f[k] \ f[k - 1]
       PROVE  \E a \in ResidualEdges(c, flow) : c.dst[a] = x /\ c.src[a] \in f[k - 1]
  <2>1. PICK y \in f[k - 1] : x \in near[y]
    BY <1>8
  <2>2. k - 1 \in 0 .. n
    BY <1>1
  <2>3. y \in N
    BY <1>10, <2>2
  <2> QED
    BY <1>6, <2>1, <2>3
<1>14. c.nodeCount = n /\ Nodes(c) = N /\ Balls(c, flow) = f
  BY DEF n, N, f
<1> QED
  BY <1>1, <1>8, <1>10, <1>12, <1>13, <1>14

\* The ball of k steps holds the nodes at a distance of at most k.
LEMMA BallDistance ==
  ASSUME NEW c, IsCase(c), NEW flow, NEW x \in Nodes(c)
  PROVE  /\ Distances(c, flow)[x] \in Nat \cup {-1}
         /\ Distances(c, flow)[x] <= c.nodeCount
         /\ \A k \in 0 .. c.nodeCount :
               x \in Balls(c, flow)[k] <=> Distances(c, flow)[x] \in 0 .. k
<1> DEFINE n == c.nodeCount
<1> DEFINE f == Balls(c, flow)
<1> DEFINE out == {k \in 1 .. n : x \notin f[k]}
<1> DEFINE d == Distances(c, flow)[x]
<1>1. /\ n \in Nat /\ f[0] = {c.source}
      /\ \A j, k \in 0 .. n : j <= k => f[j] \subseteq f[k]
  BY BallFacts
<1>2. d = IF x = c.source THEN 0 ELSE IF Cardinality(out) = n THEN -1 ELSE Cardinality(out) + 1
  BY DEF Distances
<1> HIDE DEF n, f, d
<1>3. CASE x = c.source
  <2>1. d = 0
    BY <1>2, <1>3
  <2>2. \A k \in 0 .. n : x \in f[k]
    <3>1. \A k \in 0 .. n : 0 \in 0 .. n /\ 0 <= k
      BY <1>1
    <3> QED
      BY <1>1, <1>3, <3>1
  <2> QED
    BY <1>1, <2>1, <2>2 DEF n, f, d
<1>4. CASE x # c.source /\ \A k \in 0 .. n : x \notin f[k]
  <2>1. out = 1 .. n
    BY <1>1, <1>4
  <2>2. Cardinality(1 .. n) = IF 1 > n THEN 0 ELSE n - 1 + 1
    BY <1>1, FS_Interval
  <2>3. Cardinality(out) = n
    <3>1. (IF 1 > n THEN 0 ELSE n - 1 + 1) = n
      BY <1>1
    <3> HIDE DEF out
    <3> QED
      BY <2>1, <2>2, <3>1
  <2>4. d = -1
    BY <1>2, <1>4, <2>3
  <2> QED
    BY <1>1, <1>4, <2>4 DEF n, f, d
<1>5. CASE x # c.source /\ \E k \in 0 .. n : x \in f[k]
  <2> DEFINE Found == {k \in 0 .. n : x \in f[k]}
  <2>1. PICK j \in Found : \A k \in Found : ~(k < j)
    <3>1. Found \in SUBSET Nat /\ Found # {}
      BY <1>5
    <3> HIDE DEF Found
    <3> QED
      BY <3>1, LeastNumber
  <2>2. j \in 0 .. n /\ x \in f[j] /\ \A k \in 0 .. n : x \in f[k] => ~(k < j)
    BY <2>1
  <2>3. j # 0
    BY <1>1, <1>5, <2>2
  <2>4. j \in 1 .. n
    BY <2>2, <2>3
  <2>5. ASSUME NEW k \in 0 .. n PROVE x \in f[k] <=> j <= k
    <3>1. CASE j <= k
      BY <1>1, <2>2, <3>1
    <3>2. CASE ~(j <= k)
      <4>1. k < j
        BY <2>4, <3>2
      <4> QED
        BY <2>2, <3>2, <4>1
    <3> QED
      BY <3>1, <3>2
  <2>6. out = 1 .. (j - 1)
    <3>1. \A k \in 1 .. n : k \in 0 .. n
      OBVIOUS
    <3>2. \A k \in 1 .. n : x \notin f[k] <=> ~(j <= k)
      BY <2>5, <3>1
    <3>3. \A k : k \in 1 .. n /\ ~(j <= k) <=> k \in 1 .. (j - 1)
      <4> HIDE DEF n
      <4>1. j \in Int /\ n \in Int /\ 1 <= j /\ j <= n
        BY <1>1, <2>4
      <4> QED
        BY ONLY <4>1
    <3> QED
      BY <3>2, <3>3
  <2>7. Cardinality(1 .. (j - 1)) = IF 1 > j - 1 THEN 0 ELSE (j - 1) - 1 + 1
    <3>1. 1 \in Int /\ j - 1 \in Int
      BY <2>4
    <3> QED
      BY <3>1, FS_Interval
  <2>8. Cardinality(out) = j - 1
    <3>1. (IF 1 > j - 1 THEN 0 ELSE (j - 1) - 1 + 1) = j - 1
      BY <2>4
    <3> HIDE DEF out
    <3> QED
      BY <2>6, <2>7, <3>1
  <2>9. d = j
    <3> HIDE DEF out
    <3> QED
      BY <1>1, <1>2, <1>5, <2>4, <2>8
  <2>10. \A k \in 0 .. n : x \in f[k] <=> d \in 0 .. k
    BY <2>4, <2>5, <2>9
  <2> QED
    BY <1>1, <2>4, <2>9, <2>10 DEF n, f, d
<1> QED
  BY <1>3, <1>4, <1>5

\* What a breadth-first search is after: the source alone has distance 0, a residual
\* edge leads at most one level on, and every other node that can be reached is
\* entered by one that does.
LEMMA DistanceFacts ==
  ASSUME NEW c, IsCase(c), NEW flow
  PROVE  /\ Distances(c, flow) \in [Nodes(c) -> Nat \cup {-1}]
         /\ \A x \in Nodes(c) : Distances(c, flow)[x] = 0 <=> x = c.source
         /\ \A a \in ResidualEdges(c, flow) :
               Distances(c, flow)[c.src[a]] # -1 =>
                 Distances(c, flow)[c.dst[a]] \in 0 .. (Distances(c, flow)[c.src[a]] + 1)
         /\ \A x \in Nodes(c) :
               Distances(c, flow)[x] > 0 =>
                 \E a \in ResidualEdges(c, flow) :
                   c.dst[a] = x /\ Distances(c, flow)[c.src[a]] = Distances(c, flow)[x] - 1
<1> DEFINE n == c.nodeCount
<1> DEFINE N == Nodes(c)
<1> DEFINE f == Balls(c, flow)
<1> DEFINE d == Distances(c, flow)
<1>1. d = [x \in N |-> d[x]]
  BY DEF Distances
<1>2. /\ n \in Nat /\ f[0] = {c.source}
      /\ \A a \in ResidualEdges(c, flow) :
            /\ \A k \in 1 .. n : c.src[a] \in f[k - 1] => c.dst[a] \in f[k]
            /\ c.src[a] \in f[n] => c.dst[a] \in f[n]
      /\ \A k \in 1 .. n : \A x \in f[k] \ f[k - 1] :
            \E a \in ResidualEdges(c, flow) : c.dst[a] = x /\ c.src[a] \in f[k - 1]
  BY BallFacts
<1>3. \A x \in N : /\ d[x] \in Nat \cup {-1} /\ d[x] <= n
                   /\ \A k \in 0 .. n : x \in f[k] <=> d[x] \in 0 .. k
  BY BallDistance
<1>4. \A a \in ResidualEdges(c, flow) : c.src[a] \in N /\ c.dst[a] \in N
  BY CaseFacts DEF ResidualEdges
<1> HIDE DEF n, N, f, d
<1>5. d \in [N -> Nat \cup {-1}]
  BY <1>1, <1>3
<1>6. ASSUME NEW x \in N PROVE d[x] = 0 <=> x = c.source
  <2>1. x \in f[0] <=> d[x] \in 0 .. 0
    BY <1>2, <1>3
  <2> QED
    BY <1>2, <2>1
<1>7. ASSUME NEW a \in ResidualEdges(c, flow), d[c.src[a]] # -1
      PROVE  d[c.dst[a]] \in 0 .. (d[c.src[a]] + 1)
  <2> DEFINE x == c.src[a]
  <2> DEFINE y == c.dst[a]
  <2>1. x \in N /\ y \in N /\ d[x] \in 0 .. n
    BY <1>2, <1>3, <1>4, <1>7
  <2>2. d[y] \in Nat \cup {-1} /\ \A k \in 0 .. n : y \in f[k] => d[y] \in 0 .. k
    BY <1>3, <2>1
  <2>3. x \in f[d[x]]
    BY <1>3, <2>1
  <2>4. CASE d[x] = n
    <3>1. y \in f[n]
      BY <1>2, <2>3, <2>4
    <3>2. d[y] \in 0 .. n
      BY <1>2, <2>2, <3>1
    <3> HIDE DEF x, y
    <3>3. d[y] \in 0 .. (d[x] + 1)
      BY <1>2, <2>4, <3>2
    <3> QED
      BY <3>3 DEF x, y
  <2>5. CASE d[x] # n
    <3> DEFINE k == d[x] + 1
    <3>1. k \in 1 .. n /\ k \in 0 .. n /\ k - 1 = d[x]
      BY <1>2, <2>1, <2>5
    <3>2. y \in f[k]
      <4> HIDE DEF k
      <4> QED
        BY <1>2, <2>3, <3>1
    <3> QED
      BY <2>2, <3>1, <3>2
  <2> QED
    BY <2>4, <2>5
<1>8. ASSUME NEW x \in N, d[x] > 0
      PROVE  \E a \in ResidualEdges(c, flow) : c.dst[a] = x /\ d[c.src[a]] = d[x] - 1
  <2> DEFINE k == d[x]
  <2>1. k \in 1 .. n /\ k \in 0 .. n /\ k - 1 \in 0 .. n
    BY <1>2, <1>3, <1>8
  <2>2. x \in f[k] /\ x \notin f[k - 1]
    BY <1>3, <2>1
  <2>3. PICK a \in ResidualEdges(c, flow) : c.dst[a] = x /\ c.src[a] \in f[k - 1]
    <3> HIDE DEF k
    <3> QED
      BY <1>2, <2>1, <2>2
  <2>4. c.src[a] \in N /\ d[c.src[a]] \in 0 .. (k - 1)
    <3>1. c.src[a] \in N
      BY <1>4
    <3> HIDE DEF k
    <3> QED
      BY <1>3, <2>1, <2>3, <3>1
  <2>5. k \in 0 .. (d[c.src[a]] + 1)
    <3>1. d[c.src[a]] # -1
      BY <2>4
    <3> QED
      BY <1>7, <2>3, <3>1
  <2>6. d[c.src[a]] = k - 1
    <3> HIDE DEF k
    <3> QED
      BY <2>1, <2>4, <2>5
  <2> QED
    BY <2>3, <2>6
<1>9. Nodes(c) = N /\ Distances(c, flow) = d
  BY DEF N, d
<1> QED
  BY <1>5, <1>6, <1>7, <1>8, <1>9

\* A flow without augmenting path has the value of a minimum cut: the nodes that can
\* still be reached are the side of one.
LEMMA NoPathIsMinCut ==
  ASSUME NEW c, IsCase(c), NEW flow, \A a \in Edges(c) : flow[a] \in Int, IsFlow(c, flow),
         ~HasAugmentingPath(c, flow)
  PROVE  FlowValue(c, flow) = MinCut(c)
<1> DEFINE d == Distances(c, flow)
<1> DEFINE N == {x \in Nodes(c) : d[x] # -1}
<1>1. /\ \A x \in Nodes(c) : d[x] \in Nat \cup {-1}
      /\ d[c.source] = 0 /\ d[c.sink] = -1
      /\ c.source \in Nodes(c) /\ c.sink \in Nodes(c)
  BY DistanceFacts DEF IsCase, HasAugmentingPath
<1>2. c.source \in N /\ c.sink \notin N /\ N \in SUBSET Nodes(c)
  BY <1>1
<1>3. ASSUME NEW a \in Leaving(c, N) PROVE flow[a] = c.capacity[a]
  <2>1. a \in Edges(c) /\ d[c.src[a]] # -1 /\ d[c.dst[a]] = -1
    BY <1>3, CaseFacts DEF Leaving
  <2>2. a \notin ResidualEdges(c, flow)
    <3>1. a \in ResidualEdges(c, flow) => d[c.dst[a]] \in 0 .. (d[c.src[a]] + 1)
      BY <2>1, DistanceFacts
    <3> HIDE DEF d
    <3> QED
      BY <2>1, <3>1
  <2>3. flow[a] \in Int /\ c.capacity[a] \in Nat /\ flow[a] <= c.capacity[a]
    BY <2>1, CaseFacts DEF IsFlow, CapacityOK
  <2>4. ~(c.capacity[a] - flow[a] > 0)
    BY <2>1, <2>2 DEF ResidualEdges, Residual
  <2> QED
    BY <2>3, <2>4
<1> HIDE DEF N
<1> QED
  BY <1>2, <1>3, FilledCutIsMinimal

\* Labels that start with 0 at the source, that residual edges out of the levels below K
\* raise by at most one, and all of which are needed, are the distances up to K.
LEMMA LabelsAreDistances ==
  ASSUME NEW c, IsCase(c), NEW flow, NEW K \in Nat,
         NEW d \in [Nodes(c) -> Nat \cup {-1}],
         \A x \in Nodes(c) : d[x] = 0 <=> x = c.source,
         \A a \in ResidualEdges(c, flow) :
            d[c.src[a]] \in 0 .. (K - 1) => d[c.dst[a]] \in 0 .. (d[c.src[a]] + 1),
         \A x \in Nodes(c) :
            d[x] > 0 => \E a \in ResidualEdges(c, flow) :
                          c.dst[a] = x /\ d[c.src[a]] = d[x] - 1
  PROVE  \A x \in Nodes(c) :
            /\ d[x] \in 0 .. K => Distances(c, flow)[x] = d[x]
            /\ Distances(c, flow)[x] \in 0 .. K => d[x] = Distances(c, flow)[x]
<1> DEFINE D == Distances(c, flow)
<1> DEFINE N == Nodes(c)
<1>1. /\ D \in [N -> Nat \cup {-1}]
      /\ \A x \in N : D[x] = 0 <=> x = c.source
      /\ \A a \in ResidualEdges(c, flow) :
            D[c.src[a]] # -1 => D[c.dst[a]] \in 0 .. (D[c.src[a]] + 1)
      /\ \A x \in N : D[x] > 0 => \E a \in ResidualEdges(c, flow) :
                                    c.dst[a] = x /\ D[c.src[a]] = D[x] - 1
  BY DistanceFacts
<1>2. \A a \in ResidualEdges(c, flow) : c.src[a] \in N /\ c.dst[a] \in N
  BY CaseFacts DEF ResidualEdges
<1> HIDE DEF D
<1>3. \A x \in N : d[x] # -1 => D[x] \in 0 .. d[x]
  <2> DEFINE Bad == {k \in Nat : \E x \in N : d[x] = k /\ ~(D[x] \in 0 .. d[x])}
  <2>1. ASSUME NEW m \in Bad, \A k \in Bad : ~(k < m) PROVE FALSE
    <3>1. PICK x \in N : m \in Nat /\ d[x] = m /\ ~(D[x] \in 0 .. d[x])
      OBVIOUS
    <3>2. m # 0
      BY <1>1, <3>1
    <3>3. PICK a \in ResidualEdges(c, flow) : c.dst[a] = x /\ d[c.src[a]] = m - 1
      BY <3>1, <3>2
    <3>4. m - 1 \in Nat /\ m - 1 < m
      BY <3>1, <3>2
    <3>5. D[c.src[a]] \in 0 .. (m - 1)
      <4>1. m - 1 \notin Bad
        BY <2>1, <3>4
      <4> QED
        BY <1>2, <3>3, <3>4, <4>1
    <3>6. D[c.dst[a]] \in 0 .. (D[c.src[a]] + 1)
      BY <1>1, <3>5
    <3>7. D[x] \in 0 .. m
      BY <3>1, <3>3, <3>5, <3>6
    <3> QED
      BY <3>1, <3>7
  <2>2. Bad = {}
    <3>1. Bad \in SUBSET Nat
      OBVIOUS
    <3> HIDE DEF Bad
    <3> QED
      BY <2>1, <3>1, LeastNumber
  <2>3. \A x \in N : d[x] \in Nat \cup {-1}
    OBVIOUS
  <2> QED
    BY <2>2, <2>3
<1>4. \A x \in N : D[x] \in 0 .. K => d[x] \in 0 .. D[x]
  <2> DEFINE Bad == {k \in 0 .. K : \E x \in N : D[x] = k /\ ~(d[x] \in 0 .. D[x])}
  <2>1. ASSUME NEW m \in Bad, \A k \in Bad : ~(k < m) PROVE FALSE
    <3>1. PICK x \in N : m \in 0 .. K /\ D[x] = m /\ ~(d[x] \in 0 .. D[x])
      OBVIOUS
    <3>2. m # 0
      BY <1>1, <3>1
    <3>3. PICK a \in ResidualEdges(c, flow) : c.dst[a] = x /\ D[c.src[a]] = m - 1
      BY <1>1, <3>1, <3>2
    <3>4. m - 1 \in 0 .. K /\ m - 1 < m /\ m - 1 \in 0 .. (K - 1)
      BY <3>1, <3>2
    <3>5. d[c.src[a]] \in 0 .. (m - 1)
      <4>1. m - 1 \notin Bad
        BY <2>1, <3>4
      <4> QED
        BY <1>2, <3>3, <3>4, <4>1
    <3>6. d[c.dst[a]] \in 0 .. (d[c.src[a]] + 1)
      <4>1. d[c.src[a]] \in 0 .. (K - 1)
        BY <3>4, <3>5
      <4> QED
        BY <4>1
    <3>7. d[x] \in 0 .. m
      BY <3>1, <3>3, <3>5, <3>6
    <3> QED
      BY <3>1, <3>7
  <2>2. Bad = {}
    <3>1. Bad \in SUBSET Nat
      OBVIOUS
    <3> HIDE DEF Bad
    <3> QED
      BY <2>1, <3>1, LeastNumber
  <2> QED
    BY <2>2
<1>5. ASSUME NEW x \in N
      PROVE  /\ d[x] \in 0 .. K => D[x] = d[x]
             /\ D[x] \in 0 .. K => d[x] = D[x]
  <2>1. d[x] # -1 => D[x] \in 0 .. d[x]
    BY <1>3
  <2>2. D[x] \in 0 .. K => d[x] \in 0 .. D[x]
    BY <1>4
  <2>3. d[x] \in Nat \cup {-1} /\ D[x] \in Nat \cup {-1}
    BY <1>1
  <2> HIDE DEF N
  <2> QED
    BY <2>1, <2>2, <2>3
<1> QED
  BY <1>5 DEF D

\* The sink reaches itself, and what leads to it by an edge of E; nothing else does.
LEMMA CoReachFacts ==
  ASSUME NEW c, IsCase(c), NEW E \in SUBSET Edges(c)
  PROVE  /\ c.sink \in CoReach(c, E) /\ CoReach(c, E) \subseteq Nodes(c)
         /\ \A a \in E : c.dst[a] \in CoReach(c, E) => c.src[a] \in CoReach(c, E)
<1> DEFINE n == c.nodeCount
<1> DEFINE N == Nodes(c)
<1> DEFINE near == [x \in Nodes(c) |-> {x} \cup {c.src[a] : a \in {b \in E : c.dst[b] = x}}]
<1> DEFINE start == {c.sink}
<1> DEFINE T == Spread(start, near, n)[n]
<1>1. n \in Nat /\ start \subseteq N /\ start # {}
  BY DEF IsCase
<1>2. CoReach(c, E) = T
  BY DEF CoReach
<1>3. \A a \in E : c.src[a] \in N /\ c.dst[a] \in N
  BY CaseFacts
<1>4. \A x \in N : x \in near[x] /\ near[x] \subseteq N
  BY <1>3
<1>5. \A a \in E : c.src[a] \in near[c.dst[a]]
  BY <1>3
<1>6. IsFiniteSet(N) /\ Cardinality(N) <= n
  <2>1. n - 1 \in Int
    BY <1>1
  <2>2. IsFiniteSet(N) /\ Cardinality(N) = IF 0 > n - 1 THEN 0 ELSE (n - 1) - 0 + 1
    BY <2>1, FS_Interval DEF Nodes
  <2> HIDE DEF N
  <2> QED
    BY <1>1, <2>2
<1> HIDE DEF n, N, near, start
<1>7. /\ \A k \in 0 .. n : Spread(start, near, n)[k] \subseteq N
      /\ Spread(start, near, n)[0] \subseteq T
  <2>1. /\ \A k \in 0 .. n : Spread(start, near, n)[k] \subseteq N
        /\ \A j, k \in 0 .. n :
               j <= k => Spread(start, near, n)[j] \subseteq Spread(start, near, n)[k]
    BY <1>1, <1>4, SpreadGrows
  <2>2. 0 \in 0 .. n /\ n \in 0 .. n /\ 0 <= n
    BY <1>1
  <2> QED
    BY <2>1, <2>2
<1>8. \A x \in T : near[x] \subseteq T
  BY <1>1, <1>4, <1>6, SpreadCloses
<1>9. Spread(start, near, n)[0] = start
  BY <1>1, SpreadFacts
<1>10. T \subseteq N
  <2>1. n \in 0 .. n
    BY <1>1
  <2> QED
    BY <1>7, <2>1
<1> HIDE DEF T
<1>11. c.sink \in T
  BY <1>7, <1>9 DEF start
<1>12. Nodes(c) = N
  BY DEF N
<1> QED
  BY <1>2, <1>5, <1>8, <1>10, <1>11, <1>12

LEMMA CoReachIsLeast ==
  ASSUME NEW c, IsCase(c), NEW E \in SUBSET Edges(c), NEW T, c.sink \in T,
         \A a \in E : c.dst[a] \in T => c.src[a] \in T
  PROVE  CoReach(c, E) \subseteq T
<1> DEFINE U == Nodes(c) \ T
<1>1. c.sink \notin U /\ \A a \in E : c.src[a] \in U => c.dst[a] \in U
  BY CaseFacts
<1> HIDE DEF U
<1>2. CoReach(c, E) \cap U = {}
  BY <1>1, BlockedSetHasNoPath
<1>3. CoReach(c, E) \subseteq Nodes(c)
  BY CoReachFacts
<1> QED
  BY <1>2, <1>3 DEF U

\* When a level graph L is blocked, and no residual edge leads further on than one level,
\* or is outside of L although its head leads to the sink in L, the sink has moved away.
LEMMA BlockedMeansLonger ==
  ASSUME NEW c, IsCase(c), NEW flow, NEW L \in SUBSET Edges(c),
         NEW d \in [Nodes(c) -> Nat \cup {-1}], d[c.source] = 0,
         \A a \in ResidualEdges(c, flow) :
            d[c.src[a]] \in 0 .. (d[c.sink] - 1) =>
              /\ d[c.dst[a]] \in 0 .. (d[c.src[a]] + 1)
              /\ d[c.dst[a]] = d[c.src[a]] + 1 /\ c.dst[a] \in CoReach(c, L) => a \in L,
         c.source \notin CoReach(c, {a \in L : Residual(c, flow, a) > 0})
  PROVE  Distances(c, flow)[c.sink] \notin 0 .. d[c.sink]
<1> DEFINE D == Distances(c, flow)
<1> DEFINE N == Nodes(c)
<1> DEFINE R == {a \in L : Residual(c, flow, a) > 0}
<1>1. /\ D \in [N -> Nat \cup {-1}]
      /\ \A x \in N : D[x] = 0 <=> x = c.source
      /\ \A x \in N : D[x] > 0 => \E a \in ResidualEdges(c, flow) :
                                    c.dst[a] = x /\ D[c.src[a]] = D[x] - 1
  BY DistanceFacts
<1>2. \A a \in ResidualEdges(c, flow) :
         c.src[a] \in N /\ c.dst[a] \in N /\ (a \in L => a \in R)
  BY CaseFacts DEF ResidualEdges
<1>3. /\ c.sink \in CoReach(c, L) /\ c.sink \in CoReach(c, R)
      /\ \A a \in L : c.dst[a] \in CoReach(c, L) => c.src[a] \in CoReach(c, L)
      /\ \A a \in R : c.dst[a] \in CoReach(c, R) => c.src[a] \in CoReach(c, R)
  <2>1. L \in SUBSET Edges(c) /\ R \in SUBSET Edges(c)
    OBVIOUS
  <2> HIDE DEF R
  <2> QED
    BY <2>1, CoReachFacts
<1>4. c.source \in N /\ c.sink \in N /\ c.source \notin CoReach(c, R)
  BY DEF IsCase
<1> HIDE DEF D, R
<1> SUFFICES ASSUME D[c.sink] \in 0 .. d[c.sink] PROVE FALSE
  BY DEF D
<1> DEFINE K == d[c.sink]
<1>5. K \in Nat
  BY <1>1, <1>4
<1>6. \A x \in N : D[x] \in 0 .. K => d[x] \in 0 .. D[x]
  <2> DEFINE Bad == {k \in 0 .. K : \E x \in N : D[x] = k /\ ~(d[x] \in 0 .. D[x])}
  <2>1. ASSUME NEW m \in Bad, \A k \in Bad : ~(k < m) PROVE FALSE
    <3>1. PICK x \in N : m \in 0 .. K /\ D[x] = m /\ ~(d[x] \in 0 .. D[x])
      OBVIOUS
    <3>2. m # 0
      BY <1>1, <3>1
    <3>3. PICK a \in ResidualEdges(c, flow) : c.dst[a] = x /\ D[c.src[a]] = m - 1
      BY <1>1, <3>1, <3>2
    <3>4. m - 1 \in 0 .. K /\ m - 1 < m /\ m - 1 \in 0 .. (K - 1)
      BY <1>5, <3>1, <3>2
    <3>5. d[c.src[a]] \in 0 .. (m - 1)
      <4>1. m - 1 \notin Bad
        BY <2>1, <3>4
      <4> QED
        BY <1>2, <3>3, <3>4, <4>1
    <3>6. d[c.dst[a]] \in 0 .. (d[c.src[a]] + 1)
      <4>1. d[c.src[a]] \in 0 .. (d[c.sink] - 1)
        BY <1>5, <3>4, <3>5
      <4> QED
        BY <4>1
    <3>7. d[x] \in 0 .. m
      BY <3>1, <3>3, <3>5, <3>6
    <3> QED
      BY <3>1, <3>7
  <2>2. Bad = {}
    <3>1. Bad \in SUBSET Nat
      BY <1>5
    <3> HIDE DEF Bad
    <3> QED
      BY <2>1, <3>1, LeastNumber
  <2> QED
    BY <2>2
\* From the sink back to the source every edge of a shortest path is in L.
<1> DEFINE Path == {k \in 0 .. K : \E x \in N : /\ D[x] = k /\ d[x] = k
                                              /\ x \in CoReach(c, L) /\ x \in CoReach(c, R)}
<1>7. K \in Path
  <2>1. d[c.sink] \in 0 .. D[c.sink]
    BY <1>4, <1>6
  <2>2. D[c.sink] = K /\ K \in 0 .. K
    BY <1>1, <1>4, <1>5, <2>1
  <2> QED
    BY <1>3, <1>4, <2>2
<1>8. PICK m \in Path : \A k \in Path : ~(k < m)
  <2>1. Path \in SUBSET Nat /\ Path # {}
    BY <1>5, <1>7
  <2> HIDE DEF Path
  <2> QED
    BY <2>1, LeastNumber
<1>9. PICK x \in N : /\ m \in 0 .. K /\ D[x] = m /\ d[x] = m
                     /\ x \in CoReach(c, L) /\ x \in CoReach(c, R)
  OBVIOUS
<1>10. m # 0
  BY <1>1, <1>4, <1>9
<1>11. PICK a \in ResidualEdges(c, flow) : c.dst[a] = x /\ D[c.src[a]] = m - 1
  BY <1>1, <1>9, <1>10
<1>12. m - 1 \in 0 .. K /\ m - 1 < m /\ m - 1 \in 0 .. (K - 1)
  BY <1>5, <1>9, <1>10
<1>13. c.src[a] \in N /\ d[c.src[a]] \in 0 .. (m - 1)
  BY <1>2, <1>6, <1>11, <1>12
<1>14. d[c.src[a]] \in 0 .. (d[c.sink] - 1)
  BY <1>5, <1>12, <1>13
<1>15. m \in 0 .. (d[c.src[a]] + 1)
  BY <1>9, <1>11, <1>14
<1>16. d[c.src[a]] = m - 1
  <2> HIDE DEF Path
  <2> QED
    BY <1>9, <1>12, <1>13, <1>15
<1>17. a \in L
  <2>1. d[c.dst[a]] = d[c.src[a]] + 1
    BY <1>9, <1>11, <1>12, <1>16
  <2> QED
    BY <1>9, <1>11, <1>14, <2>1
<1>18. c.src[a] \in CoReach(c, L) /\ c.src[a] \in CoReach(c, R)
  BY <1>2, <1>3, <1>9, <1>11, <1>17
<1>19. m - 1 \in Path
  BY <1>11, <1>12, <1>13, <1>16, <1>18
<1> QED
  BY <1>8, <1>12, <1>19

===============================================================================
