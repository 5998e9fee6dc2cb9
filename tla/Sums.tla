-------------------------------- MODULE Sums --------------------------------
(***************************************************************************)
(* The sum of a function over a finite set: what the wallet of CloseOrder  *)
(* and the books of Account are added up with.  The recursion of the       *)
(* library's fold picks the elements in some order; the lemmas say that    *)
(* the order does not matter.                                              *)
(***************************************************************************)
EXTENDS Integers, FiniteSets, Functions, FiniteSetTheorems, WellFoundedInduction, TLAPS

Pick(S) == CHOOSE x \in S : TRUE

\* The recursive function the fold is evaluated with.
IsSum(sum, f, S) ==
    sum = [s \in SUBSET S |-> IF s = {} THEN 0 ELSE f[Pick(s)] + sum[s \ {Pick(s)}]]

\* Induction: what holds for a set whenever it holds for its strict subsets holds for
\* every finite set.
LEMMA SubsetInduction ==
    ASSUME NEW S, IsFiniteSet(S), NEW good,
           \A T \in SUBSET S : (\A U \in SUBSET T : U # T => U \in good) => T \in good
    PROVE  \A T \in SUBSET S : T \in good
  <1> DEFINE bad == {T \in SUBSET S : T \notin good}
  <1>. SUFFICES ASSUME bad # {} PROVE FALSE
    OBVIOUS
  <1>1. IsWellFoundedOn(StrictSubsetOrdering(S), SUBSET S)
    <2>1. FiniteSubsetsOf(S) = SUBSET S
      BY FS_FiniteSubsetsOfFinite
    <2>2. IsWellFoundedOn(StrictSubsetOrdering(S), FiniteSubsetsOf(S))
      BY FS_StrictSubsetOrderingWellFounded
    <2>. QED
      BY <2>1, <2>2
  <1>2. PICK T \in bad : \A U \in bad : <<U, T>> \notin StrictSubsetOrdering(S)
    <2>1. bad \subseteq SUBSET S
      OBVIOUS
    <2>. HIDE DEF bad
    <2>2. \E T \in bad : \A U \in bad : ~ (<<U, T>> \in StrictSubsetOrdering(S))
      BY <1>1, <2>1, WFMin
    <2>. QED
      BY <2>2
  <1>3. \A U \in SUBSET T : U # T => U \in good
    BY <1>2 DEF StrictSubsetOrdering
  <1>. QED
    BY <1>3

\* Two evaluations agree where both are defined,
LEMMA SumUnique ==
    ASSUME NEW f, NEW S, IsFiniteSet(S), NEW T \in SUBSET S, NEW g, NEW h,
           IsSum(g, f, S), IsSum(h, f, T)
    PROVE  \A s \in SUBSET T : g[s] = h[s]
  <1> DEFINE good == {s \in SUBSET T : g[s] = h[s]}
  <1>1. ASSUME NEW s \in SUBSET T, \A u \in SUBSET s : u # s => u \in good
        PROVE  s \in good
    <2>1. CASE s = {}
      BY <2>1 DEF IsSum
    <2>2. CASE s # {}
      <3>1. Pick(s) \in s
        BY <2>2 DEF Pick
      <3>2. g[s \ {Pick(s)}] = h[s \ {Pick(s)}]
        BY <1>1, <3>1
      <3>3. g[s] = f[Pick(s)] + g[s \ {Pick(s)}]
        BY <2>2 DEF IsSum
      <3>4. h[s] = f[Pick(s)] + h[s \ {Pick(s)}]
        BY <2>2 DEF IsSum
      <3>. QED
        BY <3>2, <3>3, <3>4
    <2>. QED
      BY <2>1, <2>2
  <1>2. IsFiniteSet(T)
    BY FS_Subset
  <1>. HIDE DEF good
  <1>3. \A s \in SUBSET T : s \in good
    BY <1>1, <1>2, SubsetInduction
  <1>. QED
    BY <1>3 DEF good

\* ... and there is one.
LEMMA SumExists ==
    ASSUME NEW f, NEW S, IsFiniteSet(S)
    PROVE  \E g : IsSum(g, f, S)
  <1> DEFINE good == {T \in SUBSET S : \E g : IsSum(g, f, T)}
  <1>1. ASSUME NEW T \in SUBSET S, \A U \in SUBSET T : U # T => U \in good
        PROVE  T \in good
    <2> DEFINE part(U) == CHOOSE g : IsSum(g, f, U)
    <2>1. ASSUME NEW U \in SUBSET T, U # T PROVE IsSum(part(U), f, U)
      BY <1>1, <2>1
    <2> DEFINE rest == T \ {Pick(T)}
               whole == [U \in SUBSET T |->
                           IF U = T
                             THEN IF T = {} THEN 0 ELSE f[Pick(T)] + part(rest)[rest]
                             ELSE part(U)[U]]
               again == [U \in SUBSET T |->
                           IF U = {} THEN 0 ELSE f[Pick(U)] + whole[U \ {Pick(U)}]]
    <2>2. ASSUME NEW U \in SUBSET T PROVE whole[U] = again[U]
      <3>0. U # {} => Pick(U) \in U
        BY DEF Pick
      <3>1. CASE U = T
        BY <3>0, <3>1
      <3>2. CASE U # T
        <4>1. IsSum(part(U), f, U)
          BY <2>1, <3>2
        <4>2. whole[U] = part(U)[U]
          BY <3>2
        <4>3. CASE U = {}
          <5>1. part(U)[U] = 0
            BY <4>1, <4>3 DEF IsSum
          <5>. QED
            BY <4>2, <4>3, <5>1
        <4>4. CASE U # {}
          <5> DEFINE less == U \ {Pick(U)}
          <5>1. less # T /\ less \in SUBSET U /\ less \in SUBSET T
            BY <3>0, <4>4
          <5>2. part(U)[U] = f[Pick(U)] + part(U)[less]
            <6>. HIDE DEF part
            <6>. QED
              BY <4>1, <4>4 DEF IsSum
          <5>3. IsSum(part(less), f, less)
            BY <2>1, <5>1
          <5>4. IsFiniteSet(U)
            BY FS_Subset
          <5>5. part(U)[less] = part(less)[less]
            <6>. HIDE DEF part, less
            <6>. QED
              BY <4>1, <5>1, <5>3, <5>4, SumUnique
          <5>6. whole[less] = part(less)[less]
            BY <5>1
          <5>7. again[U] = f[Pick(U)] + whole[less]
            <6>. HIDE DEF whole
            <6>. QED
              BY <4>4
          <5>. HIDE DEF whole, part, less, again
          <5>. QED
            BY <4>2, <5>2, <5>5, <5>6, <5>7
        <4>. QED
          BY <4>3, <4>4
      <3>. QED
        BY <3>1, <3>2
    <2>3. whole = again
      <3>1. whole = [U \in SUBSET T |-> whole[U]] /\ again = [U \in SUBSET T |-> again[U]]
        OBVIOUS
      <3>. HIDE DEF whole, again
      <3>2. [U \in SUBSET T |-> whole[U]] = [U \in SUBSET T |-> again[U]]
        BY <2>2
      <3>. QED
        BY <3>1, <3>2
    <2>4. IsSum(whole, f, T)
      <3>. HIDE DEF whole
      <3>. QED
        BY <2>3 DEF IsSum
    <2>. QED
      BY <2>4
  <1>. HIDE DEF good
  <1>2. \A T \in SUBSET S : T \in good
    BY <1>1, SubsetInduction
  <1>. QED
    BY <1>2 DEF good

-----------------------------------------------------------------------------
(* What the sum is *)

LEMMA SumIsFold ==
    ASSUME NEW f, NEW S
    PROVE  SumFunctionOnSet(f, S) = (CHOOSE g : IsSum(g, f, S))[S]
  BY DEF SumFunctionOnSet, FoldFunctionOnSet, MapThenFoldSet, IsSum, Pick

\* Nothing adds up to 0; otherwise some element is added first.
LEMMA SumRecursion ==
    ASSUME NEW f, NEW S, IsFiniteSet(S)
    PROVE  /\ SumFunctionOnSet(f, {}) = 0
           /\ S # {} => SumFunctionOnSet(f, S)
                          = f[Pick(S)] + SumFunctionOnSet(f, S \ {Pick(S)})
  <1> DEFINE sum(T) == CHOOSE g : IsSum(g, f, T)
  <1>1. ASSUME NEW T \in SUBSET S PROVE IsSum(sum(T), f, T)
    <2>1. IsFiniteSet(T)
      BY FS_Subset
    <2>. QED
      BY <2>1, SumExists
  <1>2. SumFunctionOnSet(f, {}) = 0
    <2>1. IsSum(sum({}), f, {})
      BY <1>1
    <2>2. sum({})[{}] = 0
      <3>. HIDE DEF sum
      <3>. QED
        BY <2>1 DEF IsSum
    <2>. QED
      BY <2>2, SumIsFold
  <1>3. ASSUME S # {}
        PROVE  SumFunctionOnSet(f, S) = f[Pick(S)] + SumFunctionOnSet(f, S \ {Pick(S)})
    <2> DEFINE rest == S \ {Pick(S)}
    <2>1. IsSum(sum(S), f, S) /\ IsSum(sum(rest), f, rest)
      BY <1>1
    <2>2. sum(S)[rest] = sum(rest)[rest]
      <3>1. rest \in SUBSET S
        OBVIOUS
      <3>. HIDE DEF sum, rest
      <3>. QED
        BY <2>1, <3>1, SumUnique
    <2>3. sum(S)[S] = f[Pick(S)] + sum(S)[rest]
      <3>. HIDE DEF sum
      <3>. QED
        BY <1>3, <2>1 DEF IsSum
    <2>4. SumFunctionOnSet(f, S) = sum(S)[S] /\ SumFunctionOnSet(f, rest) = sum(rest)[rest]
      BY SumIsFold
    <2>. HIDE DEF sum
    <2>. QED
      BY <2>2, <2>3, <2>4
  <1>. QED
    BY <1>2, <1>3

\* A sum of integers is an integer, one of naturals a natural.
LEMMA SumType ==
    ASSUME NEW S, IsFiniteSet(S), NEW f
    PROVE  /\ (\A x \in S : f[x] \in Int) => SumFunctionOnSet(f, S) \in Int
           /\ (\A x \in S : f[x] \in Nat) => SumFunctionOnSet(f, S) \in Nat
  <1> DEFINE good == {T \in SUBSET S :
                        /\ (\A x \in T : f[x] \in Int) => SumFunctionOnSet(f, T) \in Int
                        /\ (\A x \in T : f[x] \in Nat) => SumFunctionOnSet(f, T) \in Nat}
  <1>1. ASSUME NEW T \in SUBSET S, \A U \in SUBSET T : U # T => U \in good
        PROVE  T \in good
    <2>1. IsFiniteSet(T)
      BY FS_Subset
    <2>2. CASE T = {}
      <3>1. SumFunctionOnSet(f, T) = 0
        BY <2>1, <2>2, SumRecursion
      <3>. QED
        BY <3>1
    <2>3. CASE T # {}
      <3>1. Pick(T) \in T
        BY <2>3 DEF Pick
      <3>2. T \ {Pick(T)} \in good
        BY <1>1, <3>1
      <3>3. SumFunctionOnSet(f, T) = f[Pick(T)] + SumFunctionOnSet(f, T \ {Pick(T)})
        BY <2>1, <2>3, SumRecursion
      <3>. QED
        BY <3>1, <3>2, <3>3
    <2>. QED
      BY <2>2, <2>3
  <1>. HIDE DEF good
  <1>2. \A T \in SUBSET S : T \in good
    BY <1>1, SubsetInduction
  <1>. QED
    BY <1>2 DEF good

\* The sum depends on what is added only.
LEMMA SumSame ==
    ASSUME NEW S, IsFiniteSet(S), NEW f, NEW g, \A x \in S : f[x] = g[x]
    PROVE  SumFunctionOnSet(f, S) = SumFunctionOnSet(g, S)
  <1> DEFINE good == {T \in SUBSET S : SumFunctionOnSet(f, T) = SumFunctionOnSet(g, T)}
  <1>1. ASSUME NEW T \in SUBSET S, \A U \in SUBSET T : U # T => U \in good
        PROVE  T \in good
    <2>1. IsFiniteSet(T)
      BY FS_Subset
    <2>2. CASE T = {}
      <3>1. SumFunctionOnSet(f, T) = 0 /\ SumFunctionOnSet(g, T) = 0
        BY <2>1, <2>2, SumRecursion
      <3>. QED
        BY <3>1
    <2>3. CASE T # {}
      <3>1. Pick(T) \in T
        BY <2>3 DEF Pick
      <3>2. T \ {Pick(T)} \in good
        BY <1>1, <3>1
      <3>3. SumFunctionOnSet(f, T) = f[Pick(T)] + SumFunctionOnSet(f, T \ {Pick(T)})
        BY <2>1, <2>3, SumRecursion
      <3>4. SumFunctionOnSet(g, T) = g[Pick(T)] + SumFunctionOnSet(g, T \ {Pick(T)})
        BY <2>1, <2>3, SumRecursion
      <3>. QED
        BY <3>1, <3>2, <3>3, <3>4
    <2>. QED
      BY <2>2, <2>3
  <1>. HIDE DEF good
  <1>2. \A T \in SUBSET S : T \in good
    BY <1>1, SubsetInduction
  <1>. QED
    BY <1>2 DEF good

\* Zeros add up to 0.
LEMMA SumOfNothing ==
    ASSUME NEW S, IsFiniteSet(S), NEW f, \A x \in S : f[x] = 0
    PROVE  SumFunctionOnSet(f, S) = 0
  <1> DEFINE good == {T \in SUBSET S : SumFunctionOnSet(f, T) = 0}
  <1>1. ASSUME NEW T \in SUBSET S, \A U \in SUBSET T : U # T => U \in good
        PROVE  T \in good
    <2>1. IsFiniteSet(T)
      BY FS_Subset
    <2>2. CASE T = {}
      BY <2>1, <2>2, SumRecursion
    <2>3. CASE T # {}
      <3>1. Pick(T) \in T
        BY <2>3 DEF Pick
      <3>2. T \ {Pick(T)} \in good
        BY <1>1, <3>1
      <3>3. SumFunctionOnSet(f, T) = f[Pick(T)] + SumFunctionOnSet(f, T \ {Pick(T)})
        BY <2>1, <2>3, SumRecursion
      <3>. QED
        BY <3>1, <3>2, <3>3
    <2>. QED
      BY <2>2, <2>3
  <1>. HIDE DEF good
  <1>2. \A T \in SUBSET S : T \in good
    BY <1>1, SubsetInduction
  <1>. QED
    BY <1>2 DEF good

\* Any element may be added first.
LEMMA SumTakes ==
    ASSUME NEW S, IsFiniteSet(S), NEW f, \A x \in S : f[x] \in Int, NEW e \in S
    PROVE  SumFunctionOnSet(f, S) = f[e] + SumFunctionOnSet(f, S \ {e})
  <1> DEFINE good == {T \in SUBSET S :
                        \A x \in T : SumFunctionOnSet(f, T) = f[x] + SumFunctionOnSet(f, T \ {x})}
  <1>1. ASSUME NEW T \in SUBSET S, \A U \in SUBSET T : U # T => U \in good
        PROVE  T \in good
    <2>. SUFFICES ASSUME NEW x \in T
                  PROVE  SumFunctionOnSet(f, T) = f[x] + SumFunctionOnSet(f, T \ {x})
      OBVIOUS
    <2> DEFINE p == Pick(T)
    <2>1. p \in T
      BY DEF Pick
    <2>2. \A U \in SUBSET T : IsFiniteSet(U)
      BY FS_Subset
    <2>3. SumFunctionOnSet(f, T) = f[p] + SumFunctionOnSet(f, T \ {p})
      BY <2>2, SumRecursion
    <2>4. CASE x = p
      BY <2>3, <2>4
    <2>5. CASE x # p
      <3>1. SumFunctionOnSet(f, T \ {p}) = f[x] + SumFunctionOnSet(f, (T \ {p}) \ {x})
        BY <1>1, <2>1, <2>5
      <3>2. SumFunctionOnSet(f, T \ {x}) = f[p] + SumFunctionOnSet(f, (T \ {x}) \ {p})
        BY <1>1, <2>1, <2>5
      <3>3. (T \ {x}) \ {p} = (T \ {p}) \ {x}
        OBVIOUS
      <3>4. f[p] \in Int /\ f[x] \in Int
        BY <2>1
      <3>5. SumFunctionOnSet(f, (T \ {p}) \ {x}) \in Int
        <4>1. IsFiniteSet((T \ {p}) \ {x})
          BY <2>2
        <4>2. \A y \in (T \ {p}) \ {x} : f[y] \in Int
          OBVIOUS
        <4>. QED
          BY <4>1, <4>2, SumType
      <3>. HIDE DEF p
      <3>6. SumFunctionOnSet(f, (T \ {x}) \ {p}) = SumFunctionOnSet(f, (T \ {p}) \ {x})
        BY <3>3
      <3>. QED
        BY <2>3, <3>1, <3>2, <3>4, <3>5, <3>6
    <2>. QED
      BY <2>4, <2>5
  <1>. HIDE DEF good
  <1>2. \A T \in SUBSET S : T \in good
    BY <1>1, SubsetInduction
  <1>. QED
    BY <1>2 DEF good

\* What is added to a set that does not have it.
LEMMA SumAdds ==
    ASSUME NEW S, IsFiniteSet(S), NEW f, \A x \in S : f[x] \in Int,
           NEW e, e \notin S, f[e] \in Int
    PROVE  SumFunctionOnSet(f, S \union {e}) = f[e] + SumFunctionOnSet(f, S)
  <1>1. IsFiniteSet(S \union {e})
    BY FS_AddElement
  <1>2. (S \union {e}) \ {e} = S
    OBVIOUS
  <1>3. \A x \in S \union {e} : f[x] \in Int
    OBVIOUS
  <1>. QED
    BY <1>1, <1>2, <1>3, SumTakes

\* One summand that changes changes the sum by as much.
LEMMA SumMoves ==
    ASSUME NEW S, IsFiniteSet(S), NEW f, NEW g, NEW e \in S,
           \A x \in S : f[x] \in Int /\ g[x] \in Int, \A x \in S \ {e} : f[x] = g[x]
    PROVE  /\ SumFunctionOnSet(g, S) = SumFunctionOnSet(f, S) + g[e] - f[e]
           /\ SumFunctionOnSet(f, S) \in Int
  <1>1. IsFiniteSet(S \ {e})
    BY FS_Subset
  <1>2. /\ SumFunctionOnSet(f, S) = f[e] + SumFunctionOnSet(f, S \ {e})
        /\ SumFunctionOnSet(g, S) = g[e] + SumFunctionOnSet(g, S \ {e})
    BY SumTakes
  <1>3. SumFunctionOnSet(f, S \ {e}) = SumFunctionOnSet(g, S \ {e})
    BY <1>1, SumSame
  <1>4. SumFunctionOnSet(f, S \ {e}) \in Int
    BY <1>1, SumType
  <1>. QED
    BY <1>2, <1>3, <1>4

\* A part of the naturals adds up to no more than all of them.
LEMMA SumOfPart ==
    ASSUME NEW S, IsFiniteSet(S), NEW f, \A x \in S : f[x] \in Nat, NEW P \in SUBSET S
    PROVE  SumFunctionOnSet(f, P) <= SumFunctionOnSet(f, S)
  <1> DEFINE good == {T \in SUBSET S :
                        \A U \in SUBSET T : SumFunctionOnSet(f, U) <= SumFunctionOnSet(f, T)}
  <1>0. \A T \in SUBSET S : IsFiniteSet(T) /\ SumFunctionOnSet(f, T) \in Nat
    <2>. SUFFICES ASSUME NEW T \in SUBSET S
                  PROVE  IsFiniteSet(T) /\ SumFunctionOnSet(f, T) \in Nat
      OBVIOUS
    <2>1. IsFiniteSet(T) /\ \A x \in T : f[x] \in Nat
      BY FS_Subset
    <2>. QED
      BY <2>1, SumType
  <1>1. ASSUME NEW T \in SUBSET S, \A U \in SUBSET T : U # T => U \in good
        PROVE  T \in good
    <2>. SUFFICES ASSUME NEW U \in SUBSET T, U # T
                  PROVE  SumFunctionOnSet(f, U) <= SumFunctionOnSet(f, T)
      BY <1>0
    <2>1. PICK x \in T : x \notin U
      OBVIOUS
    <2>2. SumFunctionOnSet(f, T) = f[x] + SumFunctionOnSet(f, T \ {x})
      <3>1. \A y \in T : f[y] \in Int
        OBVIOUS
      <3>. QED
        BY <1>0, <3>1, SumTakes
    <2>3. SumFunctionOnSet(f, U) <= SumFunctionOnSet(f, T \ {x})
      BY <1>1, <2>1
    <2>. QED
      BY <1>0, <2>2, <2>3
  <1>. HIDE DEF good
  <1>2. \A T \in SUBSET S : T \in good
    BY <1>1, SubsetInduction
  <1>. QED
    BY <1>2 DEF good
=============================================================================
