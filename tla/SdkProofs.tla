------------------------------ MODULE SdkProofs ------------------------------
(***************************************************************************)
(* Proofs about an agent process and its governor, for any number of       *)
(* threads, runs, tools and rules, in both languages: what is executed is  *)
(* what was counted, nothing is counted twice, how stale a rule can be,    *)
(* how far a run's stack of scopes can be from the scopes the threads are  *)
(* in, and that a process that ends itself leaves its run stopped.         *)
(***************************************************************************)
EXTENDS SdkProperties, GovernorProofs

-----------------------------------------------------------------------------
(* Sums over finite sets *)

\* f is the sum of g over every part of S, whichever element is taken out.
Additive(f, g, S) ==
  /\ f \in [SUBSET S -> Nat]
  /\ f[{}] = 0
  /\ \A T \in SUBSET S : \A x \in T : f[T] = g[x] + f[T \ {x}]

\* A set of parts of a finite set has a least one, if it has any.
LEMMA LeastPart ==
  ASSUME NEW S, IsFiniteSet(S), NEW Bad \in SUBSET (SUBSET S), Bad # {}
  PROVE  \E T \in Bad : \A x \in T : T \ {x} \notin Bad
<1>1. Bad \subseteq FiniteSubsetsOf(S)
  BY FS_FiniteSubsetsOfFinite
<1>2. IsWellFoundedOn(StrictSubsetOrdering(S), FiniteSubsetsOf(S))
  BY FS_StrictSubsetOrderingWellFounded
<1>3. PICK T \in Bad : \A U \in Bad : ~ (<<U, T>> \in StrictSubsetOrdering(S))
  BY <1>1, <1>2, WFMin
<1>4. ASSUME NEW x \in T
      PROVE  <<T \ {x}, T>> \in StrictSubsetOrdering(S)
  BY DEF StrictSubsetOrdering
<1> QED
  BY <1>3, <1>4

LEMMA SumGrows ==
  ASSUME NEW S, IsFiniteSet(S), NEW g, NEW h, NEW e, NEW f,
         \A x \in S : g[x] \in Nat /\ h[x] \in Nat /\ g[x] <= h[x],
         Additive(e, g, S), Additive(f, h, S)
  PROVE  \A T \in SUBSET S : e[T] <= f[T]
<1> DEFINE Bad == {T \in SUBSET S : ~(e[T] <= f[T])}
<1> SUFFICES ASSUME Bad # {} PROVE FALSE
  OBVIOUS
<1>1. PICK T \in Bad : \A x \in T : T \ {x} \notin Bad
  <2>1. Bad \in SUBSET (SUBSET S)
    OBVIOUS
  <2> HIDE DEF Bad
  <2> QED
    BY <2>1, LeastPart
<1>2. T # {}
  <2>1. e[{}] = 0 /\ f[{}] = 0
    BY DEF Additive
  <2> QED
    BY <2>1
<1>3. PICK x \in T : TRUE
  BY <1>2
<1>4. T \ {x} \in SUBSET S /\ x \in S
  OBVIOUS
<1>5. e[T \ {x}] <= f[T \ {x}]
  BY <1>1, <1>3, <1>4
<1>6. e[T] = g[x] + e[T \ {x}] /\ f[T] = h[x] + f[T \ {x}]
  BY <1>3 DEF Additive
<1>7. e[T \ {x}] \in Nat /\ f[T \ {x}] \in Nat /\ g[x] \in Nat /\ h[x] \in Nat /\ g[x] <= h[x]
  BY <1>4 DEF Additive
<1> QED
  BY <1>5, <1>6, <1>7

LEMMA SumExists ==
  ASSUME NEW S, IsFiniteSet(S), NEW g, \A x \in S : g[x] \in Nat
  PROVE  \E f : Additive(f, g, S)
<1> DEFINE Bad == {T \in SUBSET S : \A f : ~Additive(f, g, T)}
<1> SUFFICES ASSUME S \in Bad PROVE FALSE
  OBVIOUS
<1>1. PICK T \in Bad : \A x \in T : T \ {x} \notin Bad
  <2>1. Bad \in SUBSET (SUBSET S) /\ Bad # {}
    OBVIOUS
  <2> HIDE DEF Bad
  <2> QED
    BY <2>1, LeastPart
<1>2. T # {}
  <2> DEFINE f == [U \in SUBSET {} |-> 0]
  <2>1. Additive(f, g, {})
    BY DEF Additive
  <2> QED
    BY <2>1
<1>3. PICK y \in T : TRUE
  BY <1>2
<1>4. T \ {y} \in SUBSET S /\ y \in S /\ g[y] \in Nat
  OBVIOUS
<1>5. PICK f : Additive(f, g, T \ {y})
  BY <1>1, <1>3, <1>4
<1> DEFINE e == [U \in SUBSET T |-> IF y \in U THEN g[y] + f[U \ {y}] ELSE f[U]]
<1>6. \A U \in SUBSET T : U \ {y} \in SUBSET (T \ {y}) /\ f[U \ {y}] \in Nat
  BY <1>5 DEF Additive
<1>7. e \in [SUBSET T -> Nat] /\ e[{}] = 0
  <2>1. ASSUME NEW U \in SUBSET T
        PROVE  e[U] \in Nat
    <3>1. CASE y \in U
      BY <1>4, <1>6, <3>1
    <3>2. CASE y \notin U
      <4>1. U \ {y} = U
        BY <3>2
      <4>2. e[U] = f[U \ {y}]
        BY <3>2, <4>1
      <4> QED
        BY <1>6, <4>2
    <3> QED
      BY <3>1, <3>2
  <2>2. \A U \in SUBSET T : e[U] \in Nat
    BY <2>1
  <2>3. e[{}] = f[{}]
    OBVIOUS
  <2> QED
    BY <1>5, <2>2, <2>3 DEF Additive
<1>8. ASSUME NEW U \in SUBSET T, NEW x \in U
      PROVE  e[U] = g[x] + e[U \ {x}]
  <2>1. U \ {x} \in SUBSET T /\ x \in T
    OBVIOUS
  <2>2. CASE x = y
    <3>1. y \notin U \ {x}
      BY <2>2
    <3> QED
      BY <2>1, <2>2, <3>1
  <2>3. CASE x # y /\ y \in U
    <3>1. U \ {y} \in SUBSET (T \ {y}) /\ x \in U \ {y}
      BY <2>3
    <3>2. f[U \ {y}] = g[x] + f[(U \ {y}) \ {x}]
      BY <1>5, <3>1 DEF Additive
    <3>3. (U \ {y}) \ {x} = (U \ {x}) \ {y} /\ y \in U \ {x}
      BY <2>3
    <3>4. e[U] = g[y] + f[U \ {y}] /\ e[U \ {x}] = g[y] + f[(U \ {x}) \ {y}]
      BY <2>1, <2>3, <3>3
    <3>5. g[x] \in Nat /\ f[(U \ {x}) \ {y}] \in Nat
      BY <1>6, <2>1
    <3>6. f[(U \ {y}) \ {x}] = f[(U \ {x}) \ {y}]
      BY <3>3
    <3> HIDE DEF e
    <3> QED
      BY <1>4, <3>2, <3>4, <3>5, <3>6
  <2>4. CASE y \notin U
    <3>1. U \in SUBSET (T \ {y}) /\ y \notin U \ {x}
      BY <2>4
    <3>2. f[U] = g[x] + f[U \ {x}]
      BY <1>5, <3>1 DEF Additive
    <3> QED
      BY <2>1, <2>4, <3>1, <3>2
  <2> QED
    BY <2>2, <2>3, <2>4
<1>9. Additive(e, g, T)
  BY <1>7, <1>8 DEF Additive
<1> QED
  BY <1>9

\* A fold over the parts of S takes out the element that pick says.
Folds(e, g, pick, S) ==
  e = [T \in SUBSET S |-> IF T = {} THEN 0 ELSE g[pick[T]] + e[T \ {pick[T]}]]

LEMMA FoldIsSum ==
  ASSUME NEW S, IsFiniteSet(S), NEW g, NEW pick, NEW f,
         Additive(f, g, S), \A T \in SUBSET S : T # {} => pick[T] \in T
  PROVE  /\ Folds(f, g, pick, S)
         /\ \A e : Folds(e, g, pick, S) => e = f
<1>1. Folds(f, g, pick, S)
  <2>1. ASSUME NEW T \in SUBSET S
        PROVE  f[T] = IF T = {} THEN 0 ELSE g[pick[T]] + f[T \ {pick[T]}]
    BY DEF Additive
  <2>2. f = [T \in SUBSET S |-> f[T]]
    BY DEF Additive
  <2> QED
    BY <2>1, <2>2 DEF Folds
<1>2. ASSUME NEW e, Folds(e, g, pick, S)
      PROVE  e = f
  <2> DEFINE Bad == {T \in SUBSET S : e[T] # f[T]}
  <2>1. Bad = {}
    <3> SUFFICES ASSUME Bad # {} PROVE FALSE
      OBVIOUS
    <3>1. PICK T \in Bad : \A x \in T : T \ {x} \notin Bad
      <4>1. Bad \in SUBSET (SUBSET S)
        OBVIOUS
      <4> HIDE DEF Bad
      <4> QED
        BY <4>1, LeastPart
    <3>2. e[T] = IF T = {} THEN 0 ELSE g[pick[T]] + e[T \ {pick[T]}]
      BY <1>2 DEF Folds
    <3>3. f[T] = IF T = {} THEN 0 ELSE g[pick[T]] + f[T \ {pick[T]}]
      BY <1>1 DEF Folds
    <3>4. T # {}
      BY <3>2, <3>3
    <3>5. PICK x \in T : x = pick[T]
      BY <3>4
    <3>6. e[T \ {x}] = f[T \ {x}]
      BY <3>1, <3>5
    <3> QED
      BY <3>2, <3>3, <3>4, <3>5, <3>6
  <2>2. e = [T \in SUBSET S |-> e[T]]
    BY <1>2 DEF Folds
  <2>3. f = [T \in SUBSET S |-> f[T]]
    BY DEF Additive
  <2> QED
    BY <2>1, <2>2, <2>3
<1> QED
  BY <1>1, <1>2

\* MapThenSumSet is that sum.
Total(g, S) == MapThenSumSet(LAMBDA x : g[x], S)

LEMMA TotalIsSum ==
  ASSUME NEW S, IsFiniteSet(S), NEW g, NEW f, Additive(f, g, S)
  PROVE  Total(g, S) = f[S]
<1> DEFINE Body(e) == [T \in SUBSET S |->
                         IF T = {} THEN 0
                         ELSE g[CHOOSE x \in T : TRUE] + e[T \ {CHOOSE x \in T : TRUE}]]
<1> DEFINE iter == CHOOSE e : e = Body(e)
<1> DEFINE pick == [T \in SUBSET S |-> CHOOSE x \in T : TRUE]
<1>1. Total(g, S) = iter[S]
  BY DEF Total, MapThenSumSet, MapThenFoldSet
<1>2. \A T \in SUBSET S : T # {} => pick[T] \in T
  OBVIOUS
<1>3. ASSUME NEW e
      PROVE  e = Body(e) <=> Folds(e, g, pick, S)
  BY DEF Folds
<1> HIDE DEF Body, pick
<1>4. f = Body(f) /\ \A e : e = Body(e) => e = f
  BY <1>2, <1>3, FoldIsSum
<1>5. iter = f
  BY <1>4
<1> HIDE DEF iter
<1> QED
  BY <1>1, <1>5

Lens(g, S) == MapThenSumSet(LAMBDA x : Len(g[x]), S)

LEMMA LensIsTotal ==
  ASSUME NEW S, IsFiniteSet(S), NEW g, \A x \in S : Len(g[x]) \in Nat
  PROVE  Lens(g, S) = Total([x \in S |-> Len(g[x])], S)
<1> DEFINE h == [x \in S |-> Len(g[x])]
<1> DEFINE Body(e) == [T \in SUBSET S |->
                         IF T = {} THEN 0
                         ELSE Len(g[CHOOSE x \in T : TRUE]) + e[T \ {CHOOSE x \in T : TRUE}]]
<1> DEFINE iter == CHOOSE e : e = Body(e)
<1> DEFINE pick == [T \in SUBSET S |-> CHOOSE x \in T : TRUE]
<1>1. Lens(g, S) = iter[S]
  BY DEF Lens, MapThenSumSet, MapThenFoldSet
<1>2. \A T \in SUBSET S : T # {} => pick[T] \in T
  OBVIOUS
<1>3. ASSUME NEW e
      PROVE  e = Body(e) <=> Folds(e, h, pick, S)
  BY <1>2 DEF Folds
<1>4. \A x \in S : h[x] \in Nat
  OBVIOUS
<1> HIDE DEF Body, pick, h
<1>5. PICK f : Additive(f, h, S)
  BY <1>4, SumExists
<1>6. f = Body(f) /\ \A e : e = Body(e) => e = f
  BY <1>2, <1>3, <1>5, FoldIsSum
<1>7. iter = f
  BY <1>6
<1> HIDE DEF iter
<1>8. Total(h, S) = f[S]
  BY <1>5, TotalIsSum
<1> QED
  BY <1>1, <1>7, <1>8 DEF h

LEMMA TotalNat ==
  ASSUME NEW S, IsFiniteSet(S), NEW g, \A x \in S : g[x] \in Nat
  PROVE  /\ Total(g, S) \in Nat
         /\ \A x \in S : g[x] <= Total(g, S)
<1>1. PICK f : Additive(f, g, S)
  BY SumExists
<1>2. Total(g, S) = f[S]
  BY <1>1, TotalIsSum
<1>3. ASSUME NEW x \in S
      PROVE  g[x] <= f[S]
  <2>1. S \in SUBSET S /\ S \ {x} \in SUBSET S
    OBVIOUS
  <2>2. f[S] = g[x] + f[S \ {x}] /\ f[S \ {x}] \in Nat /\ g[x] \in Nat
    BY <1>1, <2>1 DEF Additive
  <2> QED
    BY <2>2
<1> QED
  BY <1>1, <1>2, <1>3 DEF Additive

LEMMA TotalZero ==
  ASSUME NEW S, IsFiniteSet(S), NEW g, \A x \in S : g[x] = 0
  PROVE  Total(g, S) = 0
<1>1. PICK f : f = [T \in SUBSET S |-> 0]
  OBVIOUS
<1>2. Additive(f, g, S)
  BY <1>1 DEF Additive
<1>3. f[S] = 0
  BY <1>1
<1> QED
  BY <1>2, <1>3, TotalIsSum

LEMMA TotalGrows ==
  ASSUME NEW S, IsFiniteSet(S), NEW g, NEW h,
         \A x \in S : g[x] \in Nat /\ h[x] \in Nat /\ g[x] <= h[x]
  PROVE  Total(g, S) <= Total(h, S)
<1>1. PICK e : Additive(e, g, S)
  BY SumExists
<1>2. PICK f : Additive(f, h, S)
  BY SumExists
<1>3. S \in SUBSET S
  OBVIOUS
<1>4. e[S] <= f[S]
  BY <1>1, <1>2, <1>3, SumGrows
<1> QED
  BY <1>1, <1>2, <1>4, TotalIsSum

\* Changing one of what is added up changes the sum by as much.
LEMMA TotalPoint ==
  ASSUME NEW S, IsFiniteSet(S), NEW g, NEW h, NEW y \in S,
         \A x \in S : g[x] \in Nat /\ h[x] \in Nat /\ (x # y => g[x] = h[x])
  PROVE  Total(h, S) + g[y] = Total(g, S) + h[y]
<1>1. PICK e : Additive(e, g, S)
  BY SumExists
<1>2. PICK f : Additive(f, h, S)
  BY SumExists
<1> DEFINE R == S \ {y}
<1>3. S \in SUBSET S /\ R \in SUBSET S /\ IsFiniteSet(R)
  BY FS_Subset
<1>4. e[R] = f[R]
  <2> DEFINE a == [T \in SUBSET R |-> e[T]]
  <2> DEFINE b == [T \in SUBSET R |-> f[T]]
  <2>1. Additive(a, g, R)
    BY <1>1 DEF Additive
  <2>2. Additive(b, h, R)
    BY <1>2 DEF Additive
  <2>3. \A x \in R : g[x] \in Nat /\ h[x] \in Nat /\ g[x] <= h[x] /\ h[x] <= g[x]
    OBVIOUS
  <2>4. R \in SUBSET R /\ a[R] = e[R] /\ b[R] = f[R]
    OBVIOUS
  <2>5. e[R] \in Nat /\ f[R] \in Nat
    BY <1>1, <1>2, <1>3 DEF Additive
  <2> HIDE DEF a, b, R
  <2>6. a[R] <= b[R] /\ b[R] <= a[R]
    BY <1>3, <2>1, <2>2, <2>3, <2>4, SumGrows
  <2> QED
    BY <2>4, <2>5, <2>6
<1>5. e[S] = g[y] + e[R] /\ f[S] = h[y] + f[R]
  BY <1>1, <1>2, <1>3 DEF Additive
<1>6. e[R] \in Nat /\ f[R] \in Nat /\ g[y] \in Nat /\ h[y] \in Nat
  BY <1>1, <1>2, <1>3 DEF Additive
<1>7. Total(g, S) = e[S] /\ Total(h, S) = f[S]
  BY <1>1, <1>2, TotalIsSum
<1> QED
  BY <1>4, <1>5, <1>6, <1>7

\* As many elements, each adding at least one.
LEMMA TotalCovers ==
  ASSUME NEW S, IsFiniteSet(S), NEW g, \A x \in S : g[x] \in Nat,
         NEW L \in SUBSET S, \A x \in L : g[x] >= 1
  PROVE  Cardinality(L) <= Total(g, S)
<1> DEFINE one == [x \in S |-> IF x \in L THEN 1 ELSE 0]
<1> DEFINE f == [T \in SUBSET S |-> Cardinality(T \cap L)]
<1>1. \A T \in SUBSET S : IsFiniteSet(T \cap L) /\ Cardinality(T \cap L) \in Nat
  <2>1. \A T \in SUBSET S : T \cap L \in SUBSET S
    OBVIOUS
  <2> QED
    BY <2>1, FS_Subset, FS_CardinalityType
<1>2. ASSUME NEW T \in SUBSET S, NEW x \in T
      PROVE  f[T] = one[x] + f[T \ {x}]
  <2>1. T \ {x} \in SUBSET S /\ (T \ {x}) \cap L = (T \cap L) \ {x}
    OBVIOUS
  <2>2. Cardinality((T \cap L) \ {x})
          = IF x \in T \cap L THEN Cardinality(T \cap L) - 1 ELSE Cardinality(T \cap L)
    BY <1>1, FS_RemoveElement
  <2>3. Cardinality(T \cap L) \in Nat /\ x \in S
    BY <1>1
  <2>4. f[T] = Cardinality(T \cap L) /\ f[T \ {x}] = Cardinality((T \cap L) \ {x})
    BY <2>1
  <2> HIDE DEF f
  <2> QED
    BY <2>2, <2>3, <2>4
<1>3. f[{}] = 0
  <2>1. f[{}] = Cardinality({} \cap L) /\ {} \cap L = {}
    OBVIOUS
  <2> QED
    BY <2>1, FS_EmptySet
<1>4. Additive(f, one, S)
  <2>1. f \in [SUBSET S -> Nat]
    BY <1>1
  <2> HIDE DEF f, one
  <2> QED
    BY <1>2, <1>3, <2>1 DEF Additive
<1>5. Total(one, S) = Cardinality(L)
  <2>1. f[S] = Cardinality(L)
    <3>1. S \cap L = L /\ S \in SUBSET S
      OBVIOUS
    <3> QED
      BY <3>1
  <2> HIDE DEF f, one
  <2> QED
    BY <1>4, <2>1, TotalIsSum
<1>6. \A x \in S : one[x] \in Nat /\ one[x] <= g[x]
  OBVIOUS
<1> HIDE DEF one
<1> QED
  BY <1>5, <1>6, TotalGrows

-----------------------------------------------------------------------------
(* Counting what one thread or one request changes *)

LEMMA OneMoves ==
  ASSUME NEW S, IsFiniteSet(S), NEW A \in SUBSET S, NEW B \in SUBSET S, NEW t,
         \A u \in S : u # t => (u \in A <=> u \in B)
  PROVE  /\ Cardinality(A) \in Nat /\ Cardinality(B) \in Nat
         /\ Cardinality(B) + (IF t \in A THEN 1 ELSE 0)
              = Cardinality(A) + (IF t \in B THEN 1 ELSE 0)
<1>1. IsFiniteSet(A) /\ IsFiniteSet(B)
  BY FS_Subset
<1>2. Cardinality(A) \in Nat /\ Cardinality(B) \in Nat
  BY <1>1, FS_CardinalityType
<1>3. A \ {t} = B \ {t}
  OBVIOUS
<1>4. /\ Cardinality(A \ {t}) = IF t \in A THEN Cardinality(A) - 1 ELSE Cardinality(A)
      /\ Cardinality(B \ {t}) = IF t \in B THEN Cardinality(B) - 1 ELSE Cardinality(B)
  BY <1>1, FS_RemoveElement
<1> QED
  BY <1>2, <1>3, <1>4

LEMMA BeganCovers ==
  ASSUME told \in [Runs -> Nat], begun \in Tally, entries \in Nat
  PROVE  Began \in Nat /\ entries <= Began
<1> DEFINE used == [r \in Runs |-> told[r] + Total(begun[r], Tools)]
<1> DEFINE Body(e) == [T \in SUBSET Runs |->
              IF T = {} THEN 0
              ELSE (told[CHOOSE r \in T : TRUE] + Total(begun[CHOOSE r \in T : TRUE], Tools))
                     + e[T \ {CHOOSE r \in T : TRUE}]]
<1> DEFINE iter == CHOOSE e : e = Body(e)
<1> DEFINE pick == [T \in SUBSET Runs |-> CHOOSE r \in T : TRUE]
<1>1. Began = entries + iter[Runs]
  BY DEF Began, Total, MapThenSumSet, MapThenFoldSet
<1>2. \A T \in SUBSET Runs : T # {} => pick[T] \in T
  OBVIOUS
<1>3. ASSUME NEW e
      PROVE  e = Body(e) <=> Folds(e, used, pick, Runs)
  BY <1>2 DEF Folds
<1>4. \A r \in Runs : used[r] \in Nat
  <2>1. ASSUME NEW r \in Runs
        PROVE  Total(begun[r], Tools) \in Nat
    <3>1. \A x \in Tools : begun[r][x] \in Nat
      BY DEF Tally
    <3> QED
      BY <3>1, SdkAssumption, TotalNat
  <2> QED
    BY <2>1
<1>5. IsFiniteSet(Runs)
  BY SdkAssumption
<1> HIDE DEF Body, pick, used
<1>6. PICK f : Additive(f, used, Runs)
  BY <1>4, <1>5, SumExists
<1>7. f = Body(f) /\ \A e : e = Body(e) => e = f
  BY <1>2, <1>3, <1>5, <1>6, FoldIsSum
<1>8. iter = f
  BY <1>7
<1> HIDE DEF iter
<1>9. f[Runs] \in Nat
  BY <1>6 DEF Additive
<1> QED
  BY <1>1, <1>8, <1>9

LEMMA ToldBelow ==
  ASSUME told \in [Runs -> Nat],
         MapThenSumSet(LAMBDA r : told[r], Runs) < MaxTold
  PROVE  \A r \in Runs : told[r] + 1 \in 0 .. MaxTold
<1>1. Total(told, Runs) < MaxTold
  BY DEF Total
<1>2. \A r \in Runs : told[r] <= Total(told, Runs)
  BY SdkAssumption, TotalNat
<1>3. Total(told, Runs) \in Nat /\ MaxTold \in Nat
  BY SdkAssumption, TotalNat
<1> QED
  BY <1>1, <1>2, <1>3

-----------------------------------------------------------------------------
(* What the threads and the slots are always in *)

\* The places of a tool call.
OfTool == {"once", "load", "declare", "status", "rules", "refuse", "report", "call", "body"}

\* What a thread holds fits the place it is in.
InPlace ==
  \A t \in Threads :
    /\ at[t] \in OfTool => hand[t].on \in Tools
    /\ at[t] = "enter" => hand[t].on \in Names
    /\ at[t] = "exit" => inside[t] # <<>>
    /\ at[t] \in {"rules", "call"} => reached
    /\ at[t] = "call" => ~hand[t].armed
    /\ sdk = "python" /\ at[t] \in BestEffort => ~hand[t].armed

\* The places a request is posted from.
Posting == (Enforcing \cup BestEffort) \ {"status"}

\* A slot is waited on by one thread, and holds that thread's own request until
\* the governor is gone.
InSlots ==
  /\ \A t, u \in Threads :
       hand[t].slot # NoSlot /\ hand[t].slot = hand[u].slot => t = u
  /\ \A t \in Threads : hand[t].slot # NoSlot => at[t] \in Posting
  /\ \A t \in Threads :
       hand[t].slot # NoSlot /\ pc[hand[t].slot] # "idle" =>
         RunOf(hand[t].slot) = scope[t] /\ Asked(hand[t].slot) = Request(t)
  /\ \A c \in Clients : pc[c] # "idle" /\ Asked(c).op = "usage" => Asked(c).tokens = Spent

\* A run nobody has named is the template, a request in flight has opened its
\* run, and only a governor that is up has any.
InRuns ==
  /\ \A r \in Runs : r \notin open => run[r] = FreshRun
  /\ \A c \in Clients : pc[c] # "idle" => RunOf(c) \in open
  /\ governor # "up" => \A c \in Clients : pc[c] = "idle"

\* The history variables and the bounds.
InBooks ==
  /\ entries \in 0 .. MaxBegun[sdk]
  /\ begun \in Tally /\ bodies \in Tally /\ unheard \in Tally /\ forgotten \in Tally
  /\ told \in [Runs -> 0 .. MaxTold] /\ silent \in BOOLEAN
  /\ restarts \in Nat /\ faults \in Nat /\ restarts + faults \in 0 .. MaxFaults

Base == SdkTypeOK /\ InFlight /\ InPlace /\ InSlots /\ InRuns /\ InBooks

-----------------------------------------------------------------------------
(* What the steps of the SDK do to the threads *)

\* Thread t alone moves, to place p with what h says, and waits on nothing.
Takes(t, p, h) ==
  /\ at' \in [Threads -> Places] /\ hand' \in [Threads -> Locals]
  /\ at'[t] = p /\ hand'[t].slot = NoSlot
  /\ hand'[t].armed => Armed(p)
  /\ p \notin {"app", "quit"} => hand'[t].on = h.on /\ hand'[t].seen = h.seen
  /\ \A u \in Threads : u # t => at'[u] = at[u] /\ hand'[u] = hand[u]

LEMMA RestType ==
  /\ AtRest \in Locals
  /\ \A x \in Tools \cup Names : [AtRest EXCEPT !.on = x] \in Locals
<1>1. 0 \in 0 .. MaxTries
  BY SdkAssumption
<1>2. <<>> \in Seq(Tools)
  OBVIOUS
<1>3. AtRest \in Locals
  BY <1>1, <1>2 DEF AtRest, Locals
<1> QED
  BY <1>3 DEF Locals

LEMMA ProceedTakes ==
  ASSUME at \in [Threads -> Places], hand \in [Threads -> Locals], NEW t \in Threads,
         NEW p \in Places, NEW h \in Locals, Proceed(t, p, h)
  PROVE  Takes(t, p, h)
<1> DEFINE go == [h EXCEPT !.armed = Armed(p), !.tries = 0, !.slot = NoSlot]
<1>1. Armed(p) \in BOOLEAN
  BY DEF Armed, MakesContact
<1>2. 0 \in 0 .. MaxTries
  BY SdkAssumption
<1>3. /\ go \in Locals
      /\ go.slot = NoSlot /\ go.on = h.on /\ go.seen = h.seen
      /\ go.armed = Armed(p)
  BY <1>1, <1>2 DEF Locals
<1> HIDE DEF go
<1>4. /\ AtRest \in Locals /\ AtRest.slot = NoSlot /\ AtRest.armed = FALSE
  BY RestType DEF AtRest
<1> DEFINE new == IF p \in {"app", "quit"} THEN AtRest ELSE go
<1>5. new \in Locals /\ new.slot = NoSlot
  BY <1>3, <1>4
<1>6. new.armed => Armed(p)
  BY <1>3, <1>4
<1>7. p \notin {"app", "quit"} => new.on = h.on /\ new.seen = h.seen
  BY <1>3
<1>8. at' = [at EXCEPT ![t] = p] /\ hand' = [hand EXCEPT ![t] = new]
  BY DEF Proceed, go
<1> HIDE DEF new
<1>9. /\ at' \in [Threads -> Places] /\ hand' \in [Threads -> Locals]
      /\ at'[t] = p /\ hand'[t] = new
      /\ \A u \in Threads : u # t => at'[u] = at[u] /\ hand'[u] = hand[u]
  BY <1>5, <1>8
<1> QED
  BY <1>5, <1>6, <1>7, <1>9 DEF Takes

\* Where a call leads: to the body by an allow alone, and out of the process
\* from the places a Rust process ends at.
LEMMA OnwardPlaces ==
  ASSUME NEW t \in Threads, NEW answer
  PROVE  /\ Onward(t, answer) \in {"status", "report", "body", "app", "quit"}
         /\ Onward(t, answer) = "body" => at[t] = "call" /\ answer = "allowed"
         /\ at[t] = "call" /\ answer = "allowed" => Onward(t, answer) = "body"
         /\ Onward(t, answer) = "status" => at[t] = "declare"
         /\ Onward(t, answer) = "report" => at[t] = "status"
         /\ Onward(t, answer) = "quit" =>
              /\ sdk = "rust"
              /\ \/ at[t] \in {"report", "refuse"}
                 \/ at[t] = "call" /\ answer # "allowed" /\ hand[t].on \notin Builtin
<1>1. CASE sdk = "rust"
  BY <1>1 DEF Onward, RustLeads
<1>2. CASE sdk # "rust"
  BY <1>2 DEF Onward, Leads
<1> QED
  BY <1>1, <1>2

\* What the end of a call does to the scopes of thread t.
Scoped(t, answer) ==
  /\ inside' \in [Threads -> Seq(Names)]
  /\ \A u \in Threads : u # t => inside'[u] = inside[u]
  /\ at[t] = "enter" /\ (answer = "ok" \/ sdk = "rust") => Len(inside'[t]) = Len(inside[t]) + 1
  /\ at[t] = "exit" => Len(inside[t]) \in Nat \ {0} /\ Len(inside'[t]) = Len(inside[t]) - 1
  /\ at[t] # "exit" /\ ~(at[t] = "enter" /\ (answer = "ok" \/ sdk = "rust")) =>
       inside'[t] = inside[t]

LEMMA ConcludeTakes ==
  ASSUME SdkTypeOK, InPlace, NEW t \in Threads, NEW answer, Conclude(t, answer)
  PROVE  Takes(t, Onward(t, answer), hand[t]) /\ Scoped(t, answer)
<1>1. Onward(t, answer) \in Places
  BY OnwardPlaces DEF Places, Enforcing, BestEffort
<1>2. hand[t] \in Locals /\ Proceed(t, Onward(t, answer), hand[t])
  BY DEF SdkTypeOK, Conclude
<1>3. Takes(t, Onward(t, answer), hand[t])
  <2>1. PICK p \in Places : p = Onward(t, answer)
    BY <1>1
  <2> QED
    BY <1>2, <2>1, ProceedTakes DEF SdkTypeOK
<1>4. PICK s \in Seq(Names) : s = inside[t]
  BY DEF SdkTypeOK
<1> DEFINE new == CASE at[t] = "enter" /\ (answer = "ok" \/ sdk = "rust") -> Append(s, hand[t].on)
                    [] at[t] = "exit"                                     -> SubSeq(s, 1, Len(s) - 1)
                    [] OTHER                                              -> s
<1>5. inside' = [inside EXCEPT ![t] = new]
  BY <1>4 DEF Conclude
<1>6. CASE at[t] = "enter" /\ (answer = "ok" \/ sdk = "rust")
  <2>1. new = Append(s, hand[t].on) /\ hand[t].on \in Names
    BY <1>6 DEF InPlace
  <2> HIDE DEF new
  <2>2. new \in Seq(Names) /\ Len(new) = Len(s) + 1
    BY <2>1, AppendProperties
  <2>3. /\ inside' \in [Threads -> Seq(Names)] /\ inside'[t] = new
        /\ \A u \in Threads : u # t => inside'[u] = inside[u]
    BY <1>5, <2>2 DEF SdkTypeOK
  <2> QED
    BY <1>3, <1>4, <1>6, <2>2, <2>3 DEF Scoped
<1>7. CASE at[t] = "exit"
  <2>1. new = SubSeq(s, 1, Len(s) - 1) /\ s # <<>>
    BY <1>4, <1>7 DEF InPlace
  <2> HIDE DEF new
  <2>2. Len(s) \in Nat \ {0}
    BY <2>1
  <2>3. new \in Seq(Names) /\ Len(new) = Len(s) - 1
    <3>1. PICK n \in Nat : n = Len(s) - 1
      BY <2>2
    <3>2. \A i \in 1 .. n : s[i] \in Names
      BY <2>2, <3>1
    <3>3. 1 \in Int /\ n \in Int
      BY <3>1
    <3>4. /\ SubSeq(s, 1, n) \in Seq(Names)
          /\ Len(SubSeq(s, 1, n)) = IF 1 <= n THEN n - 1 + 1 ELSE 0
      BY <3>2, <3>3, SubSeqProperties
    <3> QED
      BY <2>1, <3>1, <3>4
  <2>4. /\ inside' \in [Threads -> Seq(Names)] /\ inside'[t] = new
        /\ \A u \in Threads : u # t => inside'[u] = inside[u]
    BY <1>5, <2>3 DEF SdkTypeOK
  <2> QED
    BY <1>3, <1>4, <1>7, <2>2, <2>3, <2>4 DEF Scoped
<1>8. CASE at[t] # "exit" /\ ~(at[t] = "enter" /\ (answer = "ok" \/ sdk = "rust"))
  <2>1. new = s
    BY <1>8
  <2> HIDE DEF new
  <2>2. /\ inside' \in [Threads -> Seq(Names)] /\ inside'[t] = inside[t]
        /\ \A u \in Threads : u # t => inside'[u] = inside[u]
    BY <1>4, <1>5, <2>1 DEF SdkTypeOK
  <2> QED
    BY <1>3, <1>8, <2>2 DEF Scoped
<1> QED
  BY <1>6, <1>7, <1>8

\* A thread that goes where what it holds fits.
LEMMA TakesInPlace ==
  ASSUME InPlace, NEW t \in Threads, NEW p \in Places, NEW h, Takes(t, p, h),
         sdk' = sdk, reached => reached',
         \A u \in Threads : u # t => inside'[u] = inside[u],
         p \in OfTool => h.on \in Tools,
         p = "enter" => h.on \in Names,
         p = "exit" => inside'[t] # <<>>,
         p = "rules" => reached', p = "call" => reached
  PROVE  InPlace'
<1>1. ASSUME NEW u \in Threads, u # t
      PROVE  /\ at'[u] \in OfTool => hand'[u].on \in Tools
             /\ at'[u] = "enter" => hand'[u].on \in Names
             /\ at'[u] = "exit" => inside'[u] # <<>>
             /\ at'[u] \in {"rules", "call"} => reached'
             /\ at'[u] = "call" => ~hand'[u].armed
             /\ sdk' = "python" /\ at'[u] \in BestEffort => ~hand'[u].armed
  <2>1. at'[u] = at[u] /\ hand'[u] = hand[u] /\ inside'[u] = inside[u]
    BY <1>1 DEF Takes
  <2> QED
    BY <2>1 DEF InPlace
<1>2. /\ at'[t] = p
      /\ hand'[t].armed => Armed(p)
      /\ p \notin {"app", "quit"} => hand'[t].on = h.on
  BY DEF Takes
<1>3. /\ p \in OfTool => hand'[t].on \in Tools
      /\ p = "enter" => hand'[t].on \in Names
  BY <1>2 DEF OfTool
<1>4. p = "call" => ~hand'[t].armed
  BY <1>2 DEF Armed
<1>5. sdk' = "python" /\ p \in BestEffort => ~hand'[t].armed
  BY <1>2 DEF Armed, MakesContact, BestEffort, Enforcing
<1>6. ASSUME NEW u \in Threads, u = t
      PROVE  /\ at'[u] \in OfTool => hand'[u].on \in Tools
             /\ at'[u] = "enter" => hand'[u].on \in Names
             /\ at'[u] = "exit" => inside'[u] # <<>>
             /\ at'[u] \in {"rules", "call"} => reached'
             /\ at'[u] = "call" => ~hand'[u].armed
             /\ sdk' = "python" /\ at'[u] \in BestEffort => ~hand'[u].armed
  BY <1>2, <1>3, <1>4, <1>5, <1>6
<1> QED
  BY <1>1, <1>6 DEF InPlace

LEMMA SameRequest ==
  ASSUME NEW t \in Threads, at'[t] = at[t], hand'[t].on = hand[t].on, sdk' = sdk
  PROVE  Request(t)' = Request(t)
BY DEF Request, ByReason

\* A step of thread t that ends with no request of its own outstanding leaves
\* the requests of the others where they are.
LEMMA QuietSlots ==
  ASSUME InSlots, NEW t \in Threads, hand'[t].slot = NoSlot,
         \A u \in Threads : u # t => at'[u] = at[u] /\ hand'[u] = hand[u],
         pc' = pc, call' = call, sdk' = sdk, scope' = scope
  PROVE  InSlots'
<1>1. ASSUME NEW u \in Threads, hand'[u].slot # NoSlot
      PROVE  u # t /\ at'[u] = at[u] /\ hand'[u] = hand[u] /\ Request(u)' = Request(u)
  <2>1. u # t
    BY <1>1
  <2> QED
    BY <2>1, SameRequest
<1>2. ASSUME NEW u \in Threads, NEW v \in Threads,
             hand'[u].slot # NoSlot, hand'[u].slot = hand'[v].slot
      PROVE  u = v
  BY <1>1, <1>2 DEF InSlots
<1>3. ASSUME NEW u \in Threads, hand'[u].slot # NoSlot
      PROVE  at'[u] \in Posting
  BY <1>1, <1>3 DEF InSlots
<1>4. ASSUME NEW u \in Threads, hand'[u].slot # NoSlot, pc'[hand'[u].slot] # "idle"
      PROVE  /\ call'[hand'[u].slot].run = scope'[u]
             /\ call'[hand'[u].slot].q = Request(u)'
  BY <1>1, <1>4 DEF InSlots, RunOf, Asked
<1>5. ASSUME NEW c \in Clients, pc'[c] # "idle", call'[c].q.op = "usage"
      PROVE  call'[c].q.tokens = Spent
  BY <1>5 DEF InSlots, Asked
<1> QED
  BY <1>2, <1>3, <1>4, <1>5 DEF InSlots, RunOf, Asked

LEMMA QuietRuns ==
  ASSUME InRuns, InFlight, UNCHANGED vars, governor' = governor
  PROVE  InRuns' /\ InFlight'
BY DEF vars, InRuns, InFlight, RunOf, Asked

LEMMA QuietBase ==
  ASSUME Base, NEW t \in Threads, NEW p \in Places, NEW h, Takes(t, p, h),
         UNCHANGED vars, sdk' = sdk, governor' = governor, scope' = scope,
         reached' \in BOOLEAN, reached => reached', declared' \in BOOLEAN,
         loaded' \in SUBSET (OwnRules \cup PackRules),
         inside' \in [Threads -> Seq(Names)],
         \A u \in Threads : u # t => inside'[u] = inside[u],
         p \in OfTool => h.on \in Tools,
         p = "enter" => h.on \in Names,
         p = "exit" => inside'[t] # <<>>,
         p = "rules" => reached', p = "call" => reached,
         InBooks'
  PROVE  Base'
<1>1. at' \in [Threads -> Places] /\ hand' \in [Threads -> Locals] /\ hand'[t].slot = NoSlot
  BY DEF Takes
<1>2. TypeOK'
  BY DEF Base, SdkTypeOK, TypeOK, vars
<1>3. SdkTypeOK'
  BY <1>1, <1>2 DEF Base, SdkTypeOK, InBooks
<1>4. InPlace'
  BY TakesInPlace DEF Base
<1>5. InSlots'
  <2>1. \A u \in Threads : u # t => at'[u] = at[u] /\ hand'[u] = hand[u]
    BY DEF Takes
  <2> QED
    BY <1>1, <2>1, QuietSlots DEF Base, vars
<1>6. InRuns' /\ InFlight'
  BY QuietRuns DEF Base
<1> QED
  BY <1>3, <1>4, <1>5, <1>6 DEF Base

\* The steps that begin something.
LEMMA CallToolTakes ==
  ASSUME Base, NEW t \in Threads, CallTool(t)
  PROVE  \E x \in Tools, p \in {"once", "status", "load"}, h \in Locals :
           /\ begun' = [begun EXCEPT ![scope[t]][x] = @ + 1]
           /\ h.on = x /\ Takes(t, p, h)
<1>1. PICK x \in Tools :
        /\ begun' = [begun EXCEPT ![scope[t]][x] = @ + 1]
        /\ Proceed(t, CASE sdk = "rust" -> "once"
                         [] sdk = "python" /\ declared  -> "status"
                         [] sdk = "python" /\ ~declared -> "load", [AtRest EXCEPT !.on = x])
  BY DEF CallTool
<1>2. PICK p \in {"once", "status", "load"} : Proceed(t, p, [AtRest EXCEPT !.on = x])
  <2>1. sdk = "rust" \/ (sdk = "python" /\ declared) \/ (sdk = "python" /\ ~declared)
    BY SdkAssumption DEF Base, SdkTypeOK
  <2> QED
    BY <1>1, <2>1
<1>3. PICK h \in Locals : h = [AtRest EXCEPT !.on = x]
  BY RestType
<1>4. p \in Places /\ h.on = x
  BY <1>3 DEF Places, Enforcing, BestEffort, AtRest
<1>5. Takes(t, p, h)
  BY <1>2, <1>3, <1>4, ProceedTakes DEF Base, SdkTypeOK
<1> QED
  BY <1>1, <1>4, <1>5

LEMMA CallToolBase ==
  ASSUME Base, NEW t \in Threads, CallTool(t)
  PROVE  Base'
<1>1. PICK x \in Tools, p \in {"once", "status", "load"}, h \in Locals :
        /\ begun' = [begun EXCEPT ![scope[t]][x] = @ + 1]
        /\ h.on = x /\ Takes(t, p, h)
  BY CallToolTakes
<1>2. begun' \in Tally
  BY <1>1 DEF Base, InBooks, Tally, SdkTypeOK
<1>3. InBooks'
  BY <1>2 DEF Base, InBooks, CallTool
<1>4. declared' \in BOOLEAN
  BY DEF Base, SdkTypeOK, CallTool
<1>5. /\ UNCHANGED vars /\ sdk' = sdk /\ governor' = governor /\ scope' = scope
      /\ reached' = reached /\ loaded' = loaded /\ inside' = inside
  BY DEF CallTool
<1>6. /\ reached' \in BOOLEAN /\ loaded' \in SUBSET (OwnRules \cup PackRules)
      /\ inside' \in [Threads -> Seq(Names)]
  BY <1>5 DEF Base, SdkTypeOK
<1>7. p \in Places
  BY <1>1 DEF Places, Enforcing, BestEffort
<1> QED
  BY <1>1, <1>3, <1>4, <1>5, <1>6, <1>7, QuietBase

LEMMA EnterAgentBase ==
  ASSUME Base, NEW t \in Threads, EnterAgent(t)
  PROVE  /\ Base'
         /\ \E h : Takes(t, "enter", h)
<1>1. PICK n \in Names : Proceed(t, "enter", [AtRest EXCEPT !.on = n])
  BY DEF EnterAgent
<1>2. PICK h \in Locals : h = [AtRest EXCEPT !.on = n]
  BY RestType
<1>3. "enter" \in Places /\ h.on = n
  BY <1>2 DEF Places, Enforcing, BestEffort, AtRest
<1>4. Takes(t, "enter", h)
  BY <1>1, <1>2, <1>3, ProceedTakes DEF Base, SdkTypeOK
<1>5. entries' \in 0 .. MaxBegun[sdk]
  <2>1. told \in [Runs -> Nat] /\ entries \in Nat
    BY SdkAssumption DEF Base, InBooks
  <2>2. Began \in Nat /\ entries <= Began
    BY <2>1, BeganCovers DEF Base, InBooks
  <2>3. MaxBegun[sdk] \in Nat
    BY SdkAssumption DEF Base, SdkTypeOK
  <2>4. Began < MaxBegun[sdk] /\ entries' = entries + 1
    BY DEF EnterAgent
  <2> QED
    BY <2>1, <2>2, <2>3, <2>4
<1>6. InBooks'
  BY <1>5 DEF Base, InBooks, EnterAgent, process
<1>7. /\ UNCHANGED vars /\ sdk' = sdk /\ governor' = governor /\ scope' = scope
      /\ reached' = reached /\ loaded' = loaded /\ inside' = inside /\ declared' = declared
  BY DEF EnterAgent, process
<1>8. /\ reached' \in BOOLEAN /\ loaded' \in SUBSET (OwnRules \cup PackRules)
      /\ inside' \in [Threads -> Seq(Names)] /\ declared' \in BOOLEAN
  BY <1>7 DEF Base, SdkTypeOK
<1>9. "enter" \notin OfTool
  BY DEF OfTool
<1> QED
  BY <1>1, <1>3, <1>4, <1>6, <1>7, <1>8, <1>9, QuietBase

LEMMA TellBase ==
  ASSUME Base, NEW t \in Threads, Tell(t)
  PROVE  /\ Base'
         /\ \E h : Takes(t, "tell", h)
<1>1. PICK h \in Locals : h = AtRest
  BY RestType
<1>2. "tell" \in Places
  BY DEF Places, Enforcing, BestEffort
<1>3. Takes(t, "tell", h)
  BY <1>1, <1>2, ProceedTakes DEF Base, SdkTypeOK, Tell
<1>4. told' \in [Runs -> 0 .. MaxTold]
  <2>1. told \in [Runs -> Nat]
    BY SdkAssumption DEF Base, InBooks
  <2>2. told[scope[t]] + 1 \in 0 .. MaxTold
    BY <2>1, ToldBelow DEF Base, SdkTypeOK, Tell
  <2> QED
    BY <2>2 DEF Base, InBooks, Tell
<1>5. InBooks'
  BY <1>4 DEF Base, InBooks, Tell, process
<1>6. /\ UNCHANGED vars /\ sdk' = sdk /\ governor' = governor /\ scope' = scope
      /\ reached' = reached /\ loaded' = loaded /\ inside' = inside /\ declared' = declared
  BY DEF Tell, process
<1>7. /\ reached' \in BOOLEAN /\ loaded' \in SUBSET (OwnRules \cup PackRules)
      /\ inside' \in [Threads -> Seq(Names)] /\ declared' \in BOOLEAN
  BY <1>6 DEF Base, SdkTypeOK
<1>8. "tell" \notin OfTool
  BY DEF OfTool
<1> QED
  BY <1>2, <1>3, <1>5, <1>6, <1>7, <1>8, QuietBase

-----------------------------------------------------------------------------
(* The steps of the wrapper that ask the governor nothing *)

\* A thread goes on in its wrapper, and nothing else changes than what the
\* books say.
LEMMA StrollBase ==
  ASSUME Base, NEW t \in Threads, NEW p \in Places, NEW h \in Locals, Proceed(t, p, h),
         UNCHANGED vars, sdk' = sdk, governor' = governor, scope' = scope,
         reached' = reached, declared' \in BOOLEAN, loaded' = loaded, inside' = inside,
         p \in OfTool => h.on \in Tools,
         p = "enter" => h.on \in Names,
         p = "exit" => inside[t] # <<>>,
         p \in {"rules", "call"} => reached,
         InBooks'
  PROVE  Base' /\ Takes(t, p, h)
<1>1. Takes(t, p, h)
  BY ProceedTakes DEF Base, SdkTypeOK
<1>2. /\ reached' \in BOOLEAN /\ loaded' \in SUBSET (OwnRules \cup PackRules)
      /\ inside' \in [Threads -> Seq(Names)]
  BY DEF Base, SdkTypeOK
<1> QED
  BY <1>1, <1>2, QuietBase

\* Where a thread goes from inside its wrapper without asking the governor.
LEMMA OnItsOwn ==
  ASSUME Base, NEW t \in Threads, Once(t) \/ LoadEnds(t) \/ LoadFails(t)
                                    \/ Clear(t) \/ Break(t) \/ Clash(t)
  PROVE  /\ Base'
         /\ UNCHANGED <<vars, sdk, governor, reached, loaded, scope, inside, tallies>>
         /\ \E p \in {"app", "status", "declare", "call", "refuse"} :
              /\ Takes(t, p, hand[t])
              /\ p \in {"status", "declare"} => at[t] \in {"once", "load"}
              /\ p \in {"call", "refuse"} => at[t] = "rules"
              /\ p = "call" => ~Denied(t)
         /\ at[t] \in {"once", "load", "rules"}
<1>1. /\ UNCHANGED <<vars, sdk, governor, reached, loaded, scope, inside, tallies>>
      /\ at[t] \in {"once", "load", "rules"} /\ declared' \in BOOLEAN
  BY DEF Once, LoadEnds, LoadFails, Clear, Break, Clash, process, Base, SdkTypeOK
<1>2. PICK p \in {"app", "status", "declare", "call", "refuse"}, h \in Locals :
        /\ Proceed(t, p, h)
        /\ p # "app" => h.on = hand[t].on /\ h.seen = hand[t].seen
        /\ p \in {"status", "declare"} => at[t] \in {"once", "load"}
        /\ p \in {"call", "refuse"} => at[t] = "rules"
        /\ p = "call" => ~Denied(t)
  <2>1. hand[t] \in Locals /\ AtRest \in Locals
    BY RestType DEF Base, SdkTypeOK
  <2>2. CASE Once(t)
    <3>1. CASE declared \/ loaded = {}
      <4>1. Proceed(t, "status", hand[t]) /\ at[t] = "once"
        BY <2>2, <3>1 DEF Once
      <4> QED
        BY <2>1, <4>1
    <3>2. CASE ~(declared \/ loaded = {})
      <4>1. Proceed(t, "declare", hand[t]) /\ at[t] = "once"
        BY <2>2, <3>2 DEF Once
      <4> QED
        BY <2>1, <4>1
    <3> QED
      BY <3>1, <3>2
  <2>3. CASE LoadEnds(t)
    <3>1. CASE loaded = {}
      <4>1. Proceed(t, "status", hand[t]) /\ at[t] = "load"
        BY <2>3, <3>1 DEF LoadEnds
      <4> QED
        BY <2>1, <4>1
    <3>2. CASE loaded # {}
      <4>1. Proceed(t, "declare", hand[t]) /\ at[t] = "load"
        BY <2>3, <3>2 DEF LoadEnds
      <4> QED
        BY <2>1, <4>1
    <3> QED
      BY <3>1, <3>2
  <2>4. CASE LoadFails(t) \/ Clash(t)
    <3>1. Proceed(t, "app", AtRest)
      BY <2>4 DEF LoadFails, Clash
    <3> QED
      BY <2>1, <3>1
  <2>5. CASE Clear(t)
    <3>1. PICK h \in Locals : h = [hand[t] EXCEPT !.cleared = loaded]
      <4>1. loaded \in SUBSET Rules
        BY SdkAssumption DEF Base, SdkTypeOK
      <4> QED
        BY <2>1, <4>1 DEF Locals
    <3>2. h.on = hand[t].on /\ h.seen = hand[t].seen
      BY <2>1, <3>1 DEF Locals
    <3>3. Proceed(t, "call", h) /\ at[t] = "rules" /\ ~Denied(t)
      BY <2>5, <3>1 DEF Clear
    <3> QED
      BY <3>2, <3>3
  <2>6. CASE Break(t)
    <3>1. Proceed(t, "refuse", hand[t]) /\ at[t] = "rules"
      BY <2>6 DEF Break
    <3> QED
      BY <2>1, <3>1
  <2> QED
    BY <2>2, <2>3, <2>4, <2>5, <2>6
<1>3. p \in Places
  BY <1>2 DEF Places, Enforcing, BestEffort
<1>4. p \in OfTool => h.on \in Tools
  <2>1. at[t] \in OfTool
    BY <1>1 DEF OfTool
  <2>2. hand[t].on \in Tools
    BY <2>1 DEF Base, InPlace
  <2> QED
    BY <1>2, <2>2 DEF OfTool
<1>5. p \in {"rules", "call"} => reached
  BY <1>2 DEF Base, InPlace
<1>6. InBooks'
  BY <1>1 DEF Base, InBooks, tallies, counted
<1>7. Base' /\ Takes(t, p, h)
  <2>1. /\ UNCHANGED vars /\ sdk' = sdk /\ governor' = governor /\ scope' = scope
        /\ reached' = reached /\ loaded' = loaded /\ inside' = inside
    BY <1>1
  <2> QED
    BY <1>1, <1>2, <1>3, <1>4, <1>5, <1>6, <2>1, StrollBase
<1>8. Takes(t, p, hand[t])
  BY <1>2, <1>7 DEF Takes
<1> QED
  BY <1>1, <1>2, <1>7, <1>8

LEMMA LeaveAgentBase ==
  ASSUME Base, NEW t \in Threads, LeaveAgent(t)
  PROVE  Base' /\ \E h : Takes(t, "exit", h)
<1>1. PICK n \in Names : n = inside[t][Len(inside[t])]
  <2>1. inside[t] \in Seq(Names) /\ inside[t] # <<>>
    BY DEF Base, SdkTypeOK, LeaveAgent
  <2>2. Len(inside[t]) \in 1 .. Len(inside[t])
    BY <2>1
  <2> QED
    BY <2>1, <2>2
<1>2. PICK h \in Locals : h = [AtRest EXCEPT !.on = n]
  BY RestType
<1>3. Proceed(t, "exit", h) /\ inside[t] # <<>>
  BY <1>1, <1>2 DEF LeaveAgent
<1>4. /\ UNCHANGED vars /\ sdk' = sdk /\ governor' = governor /\ scope' = scope
      /\ reached' = reached /\ loaded' = loaded /\ inside' = inside /\ declared' = declared
      /\ UNCHANGED tallies
  BY DEF LeaveAgent, process
<1>5. InBooks'
  BY <1>4 DEF Base, InBooks, tallies, counted
<1>6. declared' \in BOOLEAN /\ "exit" \in Places /\ "exit" \notin OfTool
  BY <1>4 DEF Base, SdkTypeOK, Places, Enforcing, BestEffort, OfTool
<1> QED
  BY <1>3, <1>4, <1>5, <1>6, StrollBase

LEMMA RunBodyBase ==
  ASSUME Base, NEW t \in Threads, RunBody(t)
  PROVE  Base' /\ Takes(t, "app", hand[t])
<1>1. PICK h \in Locals : h = AtRest
  BY RestType
<1>2. /\ UNCHANGED vars /\ sdk' = sdk /\ governor' = governor /\ scope' = scope
      /\ reached' = reached /\ loaded' = loaded /\ inside' = inside /\ declared' = declared
      /\ UNCHANGED <<entries, begun, unheard, told, silent, forgotten, restarts, faults>>
      /\ Proceed(t, "app", h)
  BY <1>1 DEF RunBody, process
<1>3. bodies' \in Tally
  <2>1. hand[t].on \in Tools /\ scope[t] \in Runs
    BY DEF Base, InPlace, OfTool, RunBody, SdkTypeOK
  <2> QED
    BY <2>1 DEF Base, InBooks, Tally, RunBody
<1>4. InBooks'
  BY <1>2, <1>3 DEF Base, InBooks
<1>5. declared' \in BOOLEAN /\ "app" \in Places /\ "app" \notin OfTool
  BY <1>2 DEF Base, SdkTypeOK, Places, OfTool
<1>6. Base' /\ Takes(t, "app", h)
  BY <1>2, <1>4, <1>5, StrollBase
<1>7. Takes(t, "app", hand[t])
  BY <1>6 DEF Takes
<1> QED
  BY <1>6, <1>7

LEMMA LoadRuleBase ==
  ASSUME Base, NEW t \in Threads, LoadRule(t)
  PROVE  Base'
<1>1. /\ UNCHANGED vars
      /\ UNCHANGED <<sdk, governor, reached, declared, scope, at, hand, inside, tallies>>
      /\ loaded' \in SUBSET (OwnRules \cup PackRules)
  BY DEF LoadRule, Base, SdkTypeOK
<1>2. TypeOK'
  BY <1>1 DEF Base, SdkTypeOK, TypeOK, vars
<1>3. InBooks'
  BY <1>1 DEF Base, InBooks, tallies, counted
<1>4. SdkTypeOK'
  BY <1>1, <1>2, <1>3 DEF Base, SdkTypeOK, InBooks
<1>5. InPlace'
  BY <1>1 DEF Base, InPlace
<1>6. \A u \in Threads : Request(u)' = Request(u)
  BY <1>1, SameRequest
<1>7. InSlots'
  BY <1>1, <1>6 DEF Base, InSlots, vars, RunOf, Asked
<1>8. InRuns' /\ InFlight'
  BY <1>1, QuietRuns DEF Base
<1> QED
  BY <1>3, <1>4, <1>5, <1>7, <1>8 DEF Base

-----------------------------------------------------------------------------
(* A request that fails, and the end of the process *)

\* Thread t tries its request again.
Retried(t) ==
  /\ Retrying(t) /\ at[t] # "call"
  /\ at' = at /\ inside' = inside /\ silent' = silent /\ reached' = reached
  /\ hand' \in [Threads -> Locals]
  /\ hand'[t].slot = NoSlot /\ hand'[t].armed = hand[t].armed
  /\ hand'[t].on = hand[t].on /\ hand'[t].seen = hand[t].seen
  /\ \A u \in Threads : u # t => hand'[u] = hand[u]

\* Thread t goes on without what the router would have answered.
Unanswered(t, answer) ==
  /\ Takes(t, Onward(t, answer), hand[t]) /\ Scoped(t, answer)
  /\ silent' = TRUE
  /\ reached' \in BOOLEAN /\ (reached => reached')

LEMMA NoAnswerForms ==
  ASSUME Base, NEW t \in Threads, NoAnswer(t), reached' = reached
  PROVE  Retried(t) \/ Unanswered(t, "none")
<1>1. CASE Retrying(t)
  <2>1. hand[t].tries + 1 \in 0 .. MaxTries
    <3>1. hand[t].tries \in 0 .. MaxTries /\ hand[t].tries < MaxTries /\ MaxTries \in Nat
      BY <1>1, SdkAssumption DEF Retrying, Base, SdkTypeOK, Locals
    <3> QED
      BY <3>1
  <2>2. hand[t] \in Locals
    BY DEF Base, SdkTypeOK
  <2>3. PICK h \in Locals : h = Attempted(hand[t])
    BY <2>1, <2>2 DEF Locals, Attempted
  <2>4. h.slot = NoSlot /\ h.armed = hand[t].armed /\ h.on = hand[t].on /\ h.seen = hand[t].seen
    BY <2>2, <2>3 DEF Locals, Attempted
  <2>5. hand' = [hand EXCEPT ![t] = h] /\ at' = at /\ inside' = inside /\ silent' = silent
    BY <1>1, <2>3 DEF NoAnswer
  <2>6. hand' \in [Threads -> Locals] /\ hand'[t] = h /\ \A u \in Threads : u # t => hand'[u] = hand[u]
    BY <2>5 DEF Base, SdkTypeOK
  <2>7. at[t] # "call"
    BY <1>1 DEF Retrying, Base, InPlace
  <2> QED
    BY <1>1, <2>4, <2>5, <2>6, <2>7 DEF Retried
<1>2. CASE ~Retrying(t)
  <2>1. Conclude(t, "none") /\ silent' = TRUE
    BY <1>2 DEF NoAnswer
  <2>2. reached' \in BOOLEAN
    BY DEF Base, SdkTypeOK
  <2> QED
    BY <2>1, <2>2, ConcludeTakes DEF Base, Unanswered
<1> QED
  BY <1>1, <1>2

GivesUp(t) == Unreachable(t) \/ TimeOut(t) \/ TurnedAway(t)

LEMMA GivesUpForms ==
  ASSUME Base, NEW t \in Threads, GivesUp(t)
  PROVE  /\ UNCHANGED <<vars, sdk, governor, declared, loaded, scope, counted, forgotten, restarts>>
         /\ Sending(t)
         /\ Retried(t) \/ Unanswered(t, "none") \/ (Unanswered(t, "refusal") /\ ~Waiting(t))
         /\ \/ Unreachable(t) /\ faults' = faults
            \/ ~Unreachable(t) /\ faults' = faults + 1
         /\ restarts' + faults' \in 0 .. MaxFaults /\ faults' \in Nat
<1>1. restarts \in Nat /\ faults \in Nat /\ restarts + faults \in 0 .. MaxFaults /\ MaxFaults \in Nat
  BY SdkAssumption DEF Base, InBooks
<1>2. CASE Unreachable(t)
  <2>1. NoAnswer(t) /\ reached' = reached /\ restarts' = restarts /\ faults' = faults
    BY <1>2 DEF Unreachable, process
  <2>2. Retried(t) \/ Unanswered(t, "none")
    BY <2>1, NoAnswerForms
  <2>3. /\ UNCHANGED <<vars, sdk, governor, declared, loaded, scope, counted, forgotten, restarts>>
        /\ Sending(t)
    BY <1>2 DEF Unreachable, process
  <2>4. restarts' + faults' \in 0 .. MaxFaults /\ faults' \in Nat
    BY <1>1, <2>1
  <2> QED
    BY <1>2, <2>1, <2>2, <2>3, <2>4
<1>3. CASE ~Unreachable(t) /\ TimeOut(t)
  <2>1. /\ NoAnswer(t) /\ reached' = reached /\ restarts' = restarts /\ faults' = faults + 1
        /\ restarts + faults < MaxFaults
    BY <1>3 DEF TimeOut, process
  <2>2. Retried(t) \/ Unanswered(t, "none")
    BY <2>1, NoAnswerForms
  <2>3. UNCHANGED <<vars, sdk, governor, declared, loaded, scope, counted, forgotten, restarts>>
    BY <1>3 DEF TimeOut, process
  <2>4. Sending(t)
    <3>1. at[t] = "status" \/ hand[t].slot # NoSlot
      BY <1>3 DEF TimeOut, Waiting
    <3>2. hand[t].slot # NoSlot => at[t] \in Posting
      BY DEF Base, InSlots
    <3> QED
      BY <3>1, <3>2 DEF Posting, Sending, Enforcing
  <2>5. restarts' + faults' \in 0 .. MaxFaults /\ faults' \in Nat
    BY <1>1, <2>1
  <2> QED
    BY <1>3, <2>1, <2>2, <2>3, <2>4, <2>5
<1>4. CASE ~Unreachable(t) /\ TurnedAway(t)
  <2>1. /\ Conclude(t, "refusal") /\ silent' = TRUE /\ restarts' = restarts /\ faults' = faults + 1
        /\ restarts + faults < MaxFaults
        /\ reached' = (reached \/ MakesContact(at[t]))
    BY <1>4 DEF TurnedAway
  <2>2. UNCHANGED <<vars, sdk, governor, declared, loaded, scope, counted, forgotten, restarts>>
    BY <1>4 DEF TurnedAway
  <2>3. Sending(t) /\ ~Waiting(t)
    BY <1>4 DEF TurnedAway
  <2>4. restarts' + faults' \in 0 .. MaxFaults /\ faults' \in Nat
    BY <1>1, <2>1
  <2>5. reached' \in BOOLEAN /\ (reached => reached')
    BY <2>1 DEF Base, SdkTypeOK, MakesContact
  <2>6. Unanswered(t, "refusal")
    BY <2>1, <2>5, ConcludeTakes DEF Base, Unanswered
  <2> QED
    BY <1>4, <2>1, <2>2, <2>3, <2>4, <2>6
<1> QED
  BY <1>2, <1>3, <1>4 DEF GivesUp

LEMMA GivesUpBase ==
  ASSUME Base, NEW t \in Threads, GivesUp(t)
  PROVE  Base'
<1>1. /\ UNCHANGED vars /\ sdk' = sdk /\ governor' = governor /\ declared' = declared
      /\ loaded' = loaded /\ scope' = scope /\ restarts' = restarts /\ forgotten' = forgotten
      /\ UNCHANGED counted
      /\ restarts' + faults' \in 0 .. MaxFaults /\ faults' \in Nat
      /\ Sending(t)
  BY GivesUpForms
<1>2. /\ declared' \in BOOLEAN /\ loaded' \in SUBSET (OwnRules \cup PackRules)
  BY <1>1 DEF Base, SdkTypeOK
<1>3. ASSUME silent' \in BOOLEAN
      PROVE  InBooks'
  BY <1>1, <1>3 DEF Base, InBooks, counted
<1>4. CASE Retried(t)
  <2>1. /\ at' = at /\ inside' = inside /\ silent' = silent /\ reached' = reached
        /\ hand' \in [Threads -> Locals]
        /\ hand'[t].slot = NoSlot /\ hand'[t].armed = hand[t].armed
        /\ hand'[t].on = hand[t].on
        /\ \A u \in Threads : u # t => hand'[u] = hand[u]
    BY <1>4 DEF Retried
  <2>2. InBooks'
    BY <1>3, <2>1 DEF Base, InBooks
  <2>3. TypeOK'
    BY <1>1 DEF Base, SdkTypeOK, TypeOK, vars
  <2>4. SdkTypeOK'
    BY <1>1, <1>2, <2>1, <2>2, <2>3 DEF Base, SdkTypeOK, InBooks
  <2>5. \A u \in Threads : hand'[u].on = hand[u].on /\ hand'[u].armed = hand[u].armed
    BY <2>1
  <2>6. InPlace'
    BY <1>1, <2>1, <2>5 DEF Base, InPlace
  <2>7. InSlots'
    <3>1. \A u \in Threads : u # t => at'[u] = at[u] /\ hand'[u] = hand[u]
      BY <2>1
    <3> QED
      BY <1>1, <2>1, <3>1, QuietSlots DEF Base, vars
  <2>8. InRuns' /\ InFlight'
    BY <1>1, QuietRuns DEF Base
  <2> QED
    BY <2>2, <2>4, <2>6, <2>7, <2>8 DEF Base
<1>5. ASSUME NEW answer \in {"none", "refusal"}, Unanswered(t, answer)
      PROVE  Base'
  <2>1. PICK p \in Places : p = Onward(t, answer)
    BY OnwardPlaces DEF Places, Enforcing, BestEffort
  <2>2. /\ Takes(t, p, hand[t]) /\ silent' \in BOOLEAN
        /\ reached' \in BOOLEAN /\ (reached => reached')
        /\ inside' \in [Threads -> Seq(Names)]
        /\ \A u \in Threads : u # t => inside'[u] = inside[u]
    BY <1>5, <2>1 DEF Unanswered, Scoped
  <2>3. p \in {"status", "report", "app", "quit"} /\ (p \in {"status", "report"} => at[t] \in OfTool)
    BY <1>5, <2>1, OnwardPlaces DEF OfTool
  <2>4. p \in OfTool => hand[t].on \in Tools
    BY <2>3 DEF Base, InPlace, OfTool
  <2>5. InBooks'
    BY <1>3, <2>2
  <2>6. p # "enter" /\ p # "exit" /\ p # "rules" /\ p # "call"
    BY <2>3
  <2> QED
    BY <1>1, <1>2, <2>2, <2>4, <2>5, <2>6, QuietBase
<1> QED
  BY <1>4, <1>5, GivesUpForms

LEMMA QuitBase ==
  ASSUME Base, NEW t \in Threads, Quit(t)
  PROVE  Base'
<1>1. /\ UNCHANGED vars /\ UNCHANGED process
      /\ UNCHANGED <<entries, begun, bodies, told, silent, forgotten, restarts, faults>>
      /\ at' = [u \in Threads |-> "dead"] /\ hand' = [u \in Threads |-> AtRest]
      /\ inside' = [u \in Threads |-> <<>>]
  BY DEF Quit
<1>2. /\ at' \in [Threads -> Places] /\ hand' \in [Threads -> Locals]
      /\ inside' \in [Threads -> Seq(Names)]
  <2>1. "dead" \in Places /\ AtRest \in Locals /\ <<>> \in Seq(Names)
    BY RestType DEF Places
  <2> QED
    BY <1>1, <2>1
<1>3. unheard' \in Tally
  <2>1. ASSUME NEW r \in Runs, NEW x \in Tools
        PROVE  /\ unheard[r][x] \in Nat
               /\ Cardinality({u \in Threads : at[u] = "body" /\ scope[u] = r /\ hand[u].on = x}) \in Nat
    <3>1. IsFiniteSet({u \in Threads : at[u] = "body" /\ scope[u] = r /\ hand[u].on = x})
      BY SdkAssumption, FS_Subset
    <3> QED
      BY <3>1, FS_CardinalityType DEF Base, InBooks, Tally
  <2>2. ASSUME NEW r \in Runs, NEW x \in Tools
        PROVE  unheard[r][x] + Cardinality({u \in Threads :
                         at[u] = "body" /\ scope[u] = r /\ hand[u].on = x}) \in Nat
    BY <2>1
  <2> QED
    BY <2>2 DEF Quit, Tally
<1>4. InBooks'
  BY <1>1, <1>3 DEF Base, InBooks, process
<1>5. TypeOK'
  BY <1>1 DEF Base, SdkTypeOK, TypeOK, vars
<1>6. SdkTypeOK'
  BY <1>1, <1>2, <1>4, <1>5 DEF Base, SdkTypeOK, InBooks, process
<1>7. InPlace'
  BY <1>1 DEF InPlace, OfTool, BestEffort
<1>8. InSlots'
  <2>1. \A u \in Threads : hand'[u].slot = NoSlot
    BY <1>1 DEF AtRest
  <2>2. pc' = pc /\ call' = call
    BY <1>1 DEF vars
  <2> QED
    BY <2>1, <2>2 DEF Base, InSlots, RunOf, Asked
<1>9. InRuns' /\ InFlight'
  BY <1>1, QuietRuns DEF Base, process
<1> QED
  BY <1>4, <1>6, <1>7, <1>8, <1>9 DEF Base

-----------------------------------------------------------------------------
(* The steps that reach the governor *)

LEMMA ResolveSame ==
  ASSUME Base, NEW r \in Runs
  PROVE  Resolve(r) = run
<1>1. run \in [Runs -> RunStates]
  BY DEF Base, SdkTypeOK, TypeOK
<1>2. CASE r \notin open
  <2>1. run[r] = FreshRun
    BY <1>2 DEF Base, InRuns
  <2> QED
    BY <1>1, <1>2, <2>1 DEF Resolve
<1> QED
  BY <1>2 DEF Resolve

\* Which place asks what.
LEMMA RequestForm ==
  ASSUME NEW t \in Threads, at[t] \in Posting
  PROVE  /\ Request(t).op = "tool" <=> at[t] = "call"
         /\ Request(t).op = "usage" <=> at[t] = "tell"
         /\ Request(t).op = "enter" <=> at[t] = "enter"
         /\ Request(t).op = "exit" <=> at[t] = "exit"
         /\ Request(t).op \in {"stop", "stopRule"} <=> at[t] \in {"refuse", "report"}
         /\ at[t] = "call" => Request(t).on = hand[t].on
         /\ at[t] = "tell" => Request(t).tokens = Spent
<1>1. at[t] \in {"call", "enter", "declare", "refuse", "report", "exit", "tell"}
  BY DEF Posting, Enforcing, BestEffort
<1>2. CASE at[t] = "call"
  <2>1. Request(t) = [op |-> "tool", which |-> "app", on |-> hand[t].on, tokens |-> 0]
    BY <1>2 DEF Request
  <2> QED
    BY <1>2, <2>1
<1>3. CASE at[t] = "enter"
  <2>1. Request(t) = [op |-> "enter", which |-> "app", on |-> hand[t].on, tokens |-> 0]
    BY <1>3 DEF Request
  <2> QED
    BY <1>3, <2>1
<1>4. CASE at[t] = "declare"
  <2>1. Request(t) = [op |-> "identify", which |-> "rules", on |-> RuleSet, tokens |-> 0]
    BY <1>4 DEF Request
  <2> QED
    BY <1>4, <2>1
<1>5. CASE at[t] = "refuse" /\ ByReason(t)
  <2>1. Request(t) = [op |-> "stop", which |-> "app", on |-> "RuleDenied", tokens |-> 0]
    BY <1>5 DEF Request
  <2> QED
    BY <1>5, <2>1
<1>6. CASE at[t] = "refuse" /\ ~ByReason(t)
  <2>1. Request(t) = [op |-> "stopRule", which |-> "app", on |-> hand[t].on, tokens |-> 0]
    BY <1>6 DEF Request
  <2> QED
    BY <1>6, <2>1
<1>7. CASE at[t] = "report"
  <2>1. Request(t) = [op |-> "stop", which |-> "app", on |-> "BridgeUnavailable", tokens |-> 0]
    BY <1>7 DEF Request
  <2> QED
    BY <1>7, <2>1
<1>8. CASE at[t] = "exit"
  <2>1. Request(t) = [op |-> "exit", which |-> "app", on |-> NoName, tokens |-> 0]
    BY <1>8 DEF Request
  <2> QED
    BY <1>8, <2>1
<1>9. CASE at[t] = "tell"
  <2>1. Request(t) = [[op |-> "usage", which |-> "app", on |-> NoName, tokens |-> 0]
                        EXCEPT !.tokens = Spent]
    BY <1>9 DEF Request
  <2>2. Request(t).op = "usage" /\ Request(t).tokens = Spent
    BY <2>1
  <2> QED
    BY <1>9, <2>2
<1> QED
  BY <1>1, <1>2, <1>3, <1>4, <1>5, <1>6, <1>7, <1>8, <1>9

\* A step after which each thread still waiting, and each request still in
\* flight, is one that was.
LEMMA SlotsKept ==
  ASSUME InSlots, sdk' = sdk, scope' = scope,
         \A u \in Threads : hand'[u].slot # NoSlot => at'[u] = at[u] /\ hand'[u] = hand[u],
         \A d \in Clients : pc'[d] # "idle" => pc[d] # "idle" /\ call'[d] = call[d],
         hand' \in [Threads -> Locals]
  PROVE  InSlots'
<1>1. ASSUME NEW u \in Threads, hand'[u].slot # NoSlot
      PROVE  at'[u] = at[u] /\ hand'[u] = hand[u] /\ Request(u)' = Request(u)
  <2>1. at'[u] = at[u] /\ hand'[u] = hand[u]
    BY <1>1
  <2> QED
    BY <2>1, SameRequest
<1>2. ASSUME NEW u \in Threads, NEW v \in Threads,
             hand'[u].slot # NoSlot, hand'[u].slot = hand'[v].slot
      PROVE  u = v
  BY <1>1, <1>2 DEF InSlots
<1>3. ASSUME NEW u \in Threads, hand'[u].slot # NoSlot
      PROVE  at'[u] \in Posting
  BY <1>1, <1>3 DEF InSlots
<1>4. ASSUME NEW u \in Threads, hand'[u].slot # NoSlot, pc'[hand'[u].slot] # "idle"
      PROVE  /\ call'[hand'[u].slot].run = scope'[u]
             /\ call'[hand'[u].slot].q = Request(u)'
  <2>1. hand'[u].slot \in Clients
    BY <1>4 DEF Locals
  <2> QED
    BY <1>1, <1>4, <2>1 DEF InSlots, RunOf, Asked
<1>5. ASSUME NEW c \in Clients, pc'[c] # "idle", call'[c].q.op = "usage"
      PROVE  call'[c].q.tokens = Spent
  BY <1>5 DEF InSlots, Asked
<1> QED
  BY <1>2, <1>3, <1>4, <1>5 DEF InSlots, RunOf, Asked

\* Thread t's request takes slot c.
Posts(t, c) ==
  /\ at[t] \in Posting /\ hand[t].slot = NoSlot
  /\ pc[c] = "idle" /\ \A u \in Threads : hand[u].slot # c
  /\ open' = open \cup {scope[t]} /\ run' = run
  /\ pc'[c] # "idle" /\ call'[c].run = scope[t] /\ call'[c].q = Request(t)
  /\ \A d \in Clients : d # c => pc'[d] = pc[d] /\ call'[d] = call[d]
  /\ hand' \in [Threads -> Locals]
  /\ hand'[t].slot = c /\ hand'[t].on = hand[t].on
  /\ hand'[t].seen = hand[t].seen /\ hand'[t].armed = hand[t].armed
  /\ \A u \in Threads : u # t => hand'[u] = hand[u]
  /\ UNCHANGED <<process, at, inside, tallies>>

LEMMA PostForm ==
  ASSUME Base, NEW t \in Threads, Post(t)
  PROVE  /\ governor = "up"
         /\ \E c \in Clients : Arrive(c) /\ Posts(t, c)
<1>1. PICK c \in FreeSlots :
        /\ Arrive(c)
        /\ call'[c] = [run |-> scope[t], q |-> Request(t)]
        /\ hand' = [hand EXCEPT ![t].slot = c]
  BY DEF Post
<1>2. c \in Clients /\ pc[c] = "idle" /\ \A u \in Threads : hand[u].slot # c
  BY <1>1 DEF FreeSlots
<1>3. /\ at[t] \in Posting /\ hand[t].slot = NoSlot /\ governor = "up"
      /\ UNCHANGED <<process, at, inside, tallies>>
  BY DEF Post, Sending, Waiting, Posting
<1>4. PICK r \in Runs, q \in Requests :
        /\ open' = open \cup {r}
        /\ run' = Resolve(r)
        /\ call' = [call EXCEPT ![c] = [run |-> r, q |-> q]]
        /\ pc' = [pc EXCEPT ![c] = IF q.op \in Ungated THEN "apply" ELSE "gate"]
  BY <1>1 DEF Arrive
<1>5. /\ call \in [Clients -> Calls \cup {NoCall}] /\ pc \in [Clients -> Steps]
      /\ hand \in [Threads -> Locals]
  BY DEF Base, SdkTypeOK, TypeOK
<1>6. call'[c] = [run |-> r, q |-> q]
  BY <1>2, <1>4, <1>5
<1>7. r = scope[t] /\ call'[c].run = scope[t] /\ call'[c].q = Request(t)
  BY <1>1, <1>6
<1>8. pc'[c] # "idle" /\ \A d \in Clients : d # c => pc'[d] = pc[d] /\ call'[d] = call[d]
  BY <1>2, <1>4, <1>5
<1>9. run' = run
  BY <1>4, ResolveSame
<1>10. PICK h \in Locals : h = [hand[t] EXCEPT !.slot = c]
  BY <1>2, <1>5 DEF Locals
<1>11. h.slot = c /\ h.on = hand[t].on /\ h.seen = hand[t].seen /\ h.armed = hand[t].armed
  BY <1>5, <1>10 DEF Locals
<1>12. /\ hand' \in [Threads -> Locals] /\ hand'[t] = h
       /\ \A u \in Threads : u # t => hand'[u] = hand[u]
  BY <1>1, <1>5, <1>10
<1> QED
  BY <1>1, <1>2, <1>3, <1>4, <1>7, <1>8, <1>9, <1>11, <1>12 DEF Posts

LEMMA PostBase ==
  ASSUME Base, NEW t \in Threads, Post(t)
  PROVE  Base'
<1>1. PICK c \in Clients : Arrive(c) /\ Posts(t, c)
  BY PostForm
<1>2. Typed'
  <2>1. [Next]_vars /\ Typed
    BY <1>1 DEF Next, Base, Typed, SdkTypeOK
  <2> QED
    BY <2>1, TypedStep
<1>3. /\ at' = at /\ inside' = inside /\ UNCHANGED tallies /\ UNCHANGED process
      /\ hand' \in [Threads -> Locals]
      /\ hand'[t].slot = c /\ hand'[t].on = hand[t].on
      /\ hand'[t].seen = hand[t].seen /\ hand'[t].armed = hand[t].armed
      /\ \A u \in Threads : u # t => hand'[u] = hand[u]
  BY <1>1 DEF Posts
<1>4. InBooks'
  BY <1>3 DEF Base, InBooks, tallies, counted, process
<1>5. SdkTypeOK'
  BY <1>2, <1>3, <1>4 DEF Typed, Base, SdkTypeOK, InBooks, process
<1>6. \A u \in Threads : hand'[u].on = hand[u].on /\ hand'[u].armed = hand[u].armed
  BY <1>3
<1>7. InPlace'
  BY <1>3, <1>6 DEF Base, InPlace, process
<1>8. InSlots'
  <2>1. \A u \in Threads : Request(u)' = Request(u)
    BY <1>3, <1>6, SameRequest DEF process
  <2>2. scope' = scope /\ NoSlot # c
    BY <1>3, SdkAssumption DEF process
  <2>3. /\ at[t] \in Posting /\ hand[t].slot = NoSlot
        /\ pc[c] = "idle" /\ \A u \in Threads : hand[u].slot # c
        /\ pc'[c] # "idle" /\ call'[c].run = scope[t] /\ call'[c].q = Request(t)
        /\ \A d \in Clients : d # c => pc'[d] = pc[d] /\ call'[d] = call[d]
    BY <1>1 DEF Posts
  <2>4. ASSUME NEW u \in Threads, NEW v \in Threads,
               hand'[u].slot # NoSlot, hand'[u].slot = hand'[v].slot
        PROVE  u = v
    BY <1>3, <2>2, <2>3, <2>4 DEF Base, InSlots
  <2>5. ASSUME NEW u \in Threads, hand'[u].slot # NoSlot
        PROVE  at'[u] \in Posting
    BY <1>3, <2>3, <2>5 DEF Base, InSlots
  <2>6. ASSUME NEW u \in Threads, hand'[u].slot # NoSlot, pc'[hand'[u].slot] # "idle"
        PROVE  /\ call'[hand'[u].slot].run = scope'[u]
               /\ call'[hand'[u].slot].q = Request(u)'
    <3>1. CASE u = t
      BY <1>3, <2>1, <2>2, <2>3, <3>1
    <3>2. CASE u # t
      <4>1. hand'[u] = hand[u] /\ hand[u].slot # c /\ hand[u].slot \in Clients
        BY <1>3, <2>3, <2>6, <3>2 DEF Locals
      <4>2. /\ pc'[hand[u].slot] = pc[hand[u].slot]
            /\ call'[hand[u].slot] = call[hand[u].slot]
        BY <2>3, <4>1
      <4>3. call[hand[u].slot].run = scope[u] /\ call[hand[u].slot].q = Request(u)
        BY <2>6, <4>1, <4>2 DEF Base, InSlots, RunOf, Asked
      <4> QED
        BY <2>1, <2>2, <4>1, <4>2, <4>3
    <3> QED
      BY <3>1, <3>2
  <2>7. ASSUME NEW d \in Clients, pc'[d] # "idle", call'[d].q.op = "usage"
        PROVE  call'[d].q.tokens = Spent
    <3>1. CASE d = c
      BY <2>3, <2>7, <3>1, RequestForm
    <3>2. CASE d # c
      BY <2>3, <2>7, <3>2 DEF Base, InSlots, Asked
    <3> QED
      BY <3>1, <3>2
  <2> QED
    BY <2>4, <2>5, <2>6, <2>7 DEF InSlots, RunOf, Asked
<1>9. InRuns'
  <2>1. /\ open' = open \cup {scope[t]} /\ run' = run
        /\ call'[c].run = scope[t]
        /\ \A d \in Clients : d # c => pc'[d] = pc[d] /\ call'[d] = call[d]
    BY <1>1 DEF Posts
  <2>2. governor' = governor /\ governor = "up"
    BY <1>3, PostForm DEF process
  <2>3. \A d \in Clients : pc'[d] # "idle" => call'[d].run \in open'
    BY <2>1 DEF Base, InRuns, RunOf
  <2> QED
    BY <2>1, <2>2, <2>3 DEF Base, InRuns, RunOf
<1> QED
  BY <1>2, <1>4, <1>5, <1>7, <1>8, <1>9 DEF Base, Typed

\* The run as thread t learns it.
LEMMA StatusForm ==
  ASSUME Base, NEW t \in Threads, Status(t)
  PROVE  /\ Base'
         /\ at[t] = "status" /\ reached' = TRUE
         /\ open' = open \cup {scope[t]}
         /\ UNCHANGED <<run, pc, call, sdk, governor, loaded, scope, inside, tallies>>
         /\ \E h \in Locals : /\ h.on = hand[t].on /\ h.seen = run[scope[t]].history
                              /\ Takes(t, "rules", h)
<1>1. /\ at[t] = "status" /\ reached' = TRUE
      /\ open' = open \cup {scope[t]} /\ run' = Resolve(scope[t])
      /\ Proceed(t, "rules", [hand[t] EXCEPT !.seen = run'[scope[t]].history])
      /\ UNCHANGED <<log, pc, call, issued, mark, sdk, governor, declared, loaded, scope,
                     inside, tallies>>
  BY DEF Status
<1>2. scope[t] \in Runs /\ hand[t] \in Locals
  BY DEF Base, SdkTypeOK
<1>3. run' = run
  BY <1>1, <1>2, ResolveSame
<1>4. run[scope[t]].history \in Seq(Tools)
  BY <1>2 DEF Base, SdkTypeOK, TypeOK, RunStates
<1>5. PICK h \in Locals : h = [hand[t] EXCEPT !.seen = run[scope[t]].history]
  BY <1>2, <1>4 DEF Locals
<1>6. h.on = hand[t].on /\ h.seen = run[scope[t]].history
  BY <1>2, <1>5 DEF Locals
<1>7. Takes(t, "rules", h)
  <2>1. Proceed(t, "rules", h)
    BY <1>1, <1>3, <1>5
  <2>2. "rules" \in Places
    BY DEF Places
  <2> QED
    BY <2>1, <2>2, ProceedTakes DEF Base, SdkTypeOK
<1>8. TypeOK'
  BY <1>1, <1>2, <1>3 DEF Base, SdkTypeOK, TypeOK
<1>9. InBooks'
  BY <1>1 DEF Base, InBooks, tallies, counted
<1>10. SdkTypeOK'
  <2>1. at' \in [Threads -> Places] /\ hand' \in [Threads -> Locals]
    BY <1>7 DEF Takes
  <2> QED
    BY <1>1, <1>8, <1>9, <2>1 DEF Base, SdkTypeOK, InBooks
<1>11. InPlace'
  <2>1. h.on \in Tools
    BY <1>1, <1>6 DEF Base, InPlace, OfTool
  <2>2. "rules" \in Places /\ sdk' = sdk /\ inside' = inside /\ (reached => reached') /\ reached'
    BY <1>1 DEF Places
  <2> QED
    BY <1>7, <2>1, <2>2, TakesInPlace DEF Base
<1>12. InSlots'
  <2>1. hand'[t].slot = NoSlot /\ \A u \in Threads : u # t => at'[u] = at[u] /\ hand'[u] = hand[u]
    BY <1>7 DEF Takes
  <2> QED
    BY <1>1, <2>1, QuietSlots DEF Base
<1>13. InRuns' /\ InFlight'
  BY <1>1, <1>3 DEF Base, InRuns, InFlight, RunOf, Asked
<1> QED
  BY <1>1, <1>3, <1>6, <1>7, <1>9, <1>10, <1>11, <1>12, <1>13 DEF Base

-----------------------------------------------------------------------------
(* The steps of the governor *)

\* The governor answers the request in slot c, leaving its run in state st.
Settles(c, answer, st) ==
  /\ pc[c] # "idle"
  /\ \/ answer = "gone" /\ pc[c] = "gate" /\ st = run[RunOf(c)] /\ Stopped(st)
     \/ /\ answer = "denied" /\ Asked(c).op = "tool"
        /\ \E v \in Denials : st = RecordDenied(run[RunOf(c)], Asked(c).on, v)
     \/ /\ answer = "allowed" /\ Asked(c).op = "tool"
        /\ st = RecordAllowed(run[RunOf(c)], Asked(c).on)
     \/ /\ answer = "error" /\ Asked(c).op = "tool" /\ Asked(c).on \in Builtin
        /\ st = RecordFailed(run[RunOf(c)], Asked(c).on)
     \/ /\ answer = "ok" /\ Asked(c).op # "tool"
        /\ st = Effect(run[RunOf(c)], Asked(c))
  /\ run' = [run EXCEPT ![RunOf(c)] = st]
  /\ Answered(c)
  /\ open' = open

\* What each answer says of the run it is about: old before, new after.
Outcome(q, answer, old, new) ==
  /\ answer = "allowed" =>
       /\ q.op = "tool" /\ q.on \in Tools
       /\ new.counts = [old.counts EXCEPT ![q.on] = @ + 1]
       /\ new.history = Append(old.history, q.on)
  /\ answer # "allowed" => new.counts = old.counts /\ new.history = old.history
  /\ answer = "ok" => q.op # "tool"
  /\ answer \in {"denied", "error"} => q.op = "tool"
  /\ answer = "error" => q.on \in Builtin
  /\ answer = "ok" /\ q.op = "enter" => Len(new.stack) = Len(old.stack) + 1
  /\ answer = "ok" /\ q.op = "exit" =>
       Len(new.stack) = IF Len(old.stack) = 0 THEN 0 ELSE Len(old.stack) - 1
  /\ ~(answer = "ok" /\ q.op \in {"enter", "exit"}) => new.stack = old.stack
  /\ new.tokens <= old.tokens + (IF answer = "ok" /\ q.op = "usage" THEN q.tokens ELSE 0)
  /\ Stopped(old) => Stopped(new)
  /\ answer \in {"gone", "denied"} => Stopped(new)
  /\ answer = "ok" /\ q.op \in {"stop", "stopRule"} => Stopped(new)

\* An event changes nothing else.
LEMMA EventAlone ==
  ASSUME NEW st \in RunStates, NEW kind, NEW on, NEW tokens
  PROVE  LET new == AppendEvent(st, kind, on, tokens)
         IN  /\ new.counts = st.counts /\ new.history = st.history
             /\ new.stack = st.stack /\ new.tokens = st.tokens
             /\ new.execution = st.execution
  BY DEF AppendEvent, RunStates

LEMMA IdentityAlone ==
  ASSUME NEW st \in RunStates, NEW which \in Identities, NEW name
  PROVE  LET new == RecordIdentity(st, which, name)
         IN  /\ new.counts = st.counts /\ new.history = st.history
             /\ new.stack = st.stack /\ new.tokens = st.tokens
             /\ new.execution = st.execution
  BY DEF RecordIdentity, AppendEvent, RunStates

LEMMA StopsAlone ==
  ASSUME NEW st \in RunStates, NEW reason \in StopReasons
  PROVE  LET new == MarkStopped(st, reason)
         IN  /\ new.counts = st.counts /\ new.history = st.history
             /\ new.stack = st.stack /\ new.tokens = st.tokens
             /\ Stopped(new)
  BY DEF MarkStopped, Stopped, RunStates, StopReasons, Reportable, Running

LEMMA EnterOutcome ==
  ASSUME NEW st \in RunStates, NEW name \in Names
  PROVE  LET new == EnterScope(st, name)
         IN  /\ new.counts = st.counts /\ new.history = st.history
             /\ Len(new.stack) = Len(st.stack) + 1 /\ new.tokens = st.tokens
             /\ new.execution = st.execution
<1> DEFINE mid == [st EXCEPT !.stack = Append(@, name)]
<1>1. st.stack \in Seq(Names)
  BY DEF RunStates
<1>2. Append(st.stack, name) \in Seq(Names) /\ Len(Append(st.stack, name)) = Len(st.stack) + 1
  BY <1>1, AppendProperties
<1>3. /\ mid \in RunStates /\ mid.stack = Append(st.stack, name)
      /\ mid.counts = st.counts /\ mid.history = st.history /\ mid.tokens = st.tokens
      /\ mid.execution = st.execution
  BY <1>2 DEF RunStates
<1> HIDE DEF mid
<1>4. EnterScope(st, name) = AppendEvent(mid, "AgentScopeEntered", name, 0)
  BY DEF EnterScope, mid
<1> QED
  BY <1>2, <1>3, <1>4, EventAlone

LEMMA ExitOutcome ==
  ASSUME NEW st \in RunStates
  PROVE  LET new == ExitScope(st)
         IN  /\ new.counts = st.counts /\ new.history = st.history
             /\ Len(new.stack) = IF Len(st.stack) = 0 THEN 0 ELSE Len(st.stack) - 1
             /\ new.tokens = st.tokens
             /\ new.execution = st.execution
<1>1. st.stack \in Seq(Names)
  BY DEF RunStates
<1>2. CASE st.stack = <<>>
  <2>1. ExitScope(st) = AppendEvent(st, "AgentScopeExited", NoName, 0)
    BY <1>2 DEF ExitScope
  <2>2. Len(st.stack) = 0
    BY <1>2
  <2> QED
    BY <2>1, <2>2, EventAlone
<1>3. CASE st.stack # <<>>
  <2> DEFINE mid == [st EXCEPT !.stack = SubSeq(@, 1, Len(@) - 1)]
  <2> DEFINE rest == SubSeq(st.stack, 1, Len(st.stack) - 1)
  <2>1. Len(st.stack) \in Nat \ {0}
    BY <1>1, <1>3
  <2>2. rest \in Seq(Names) /\ Len(rest) = Len(st.stack) - 1
    <3>1. PICK n \in Nat : n = Len(st.stack) - 1
      BY <2>1
    <3>2. \A i \in 1 .. n : st.stack[i] \in Names
      BY <1>1, <2>1, <3>1
    <3>3. 1 \in Int /\ n \in Int
      BY <3>1
    <3>4. /\ SubSeq(st.stack, 1, n) \in Seq(Names)
          /\ Len(SubSeq(st.stack, 1, n)) = IF 1 <= n THEN n - 1 + 1 ELSE 0
      BY <1>1, <3>2, <3>3, SubSeqProperties
    <3> QED
      BY <3>1, <3>4
  <2>3. /\ mid \in RunStates /\ mid.stack = rest
        /\ mid.counts = st.counts /\ mid.history = st.history /\ mid.tokens = st.tokens
        /\ mid.execution = st.execution
    BY <2>2 DEF RunStates
  <2>4. ExitScope(st) = AppendEvent(mid, "AgentScopeExited", st.stack[Len(st.stack)], 0)
    BY <1>3 DEF ExitScope
  <2> HIDE DEF mid, rest
  <2> QED
    BY <2>1, <2>2, <2>3, <2>4, EventAlone
<1> QED
  BY <1>2, <1>3

LEMMA UsageOutcome ==
  ASSUME NEW st \in RunStates, NEW harness \in Names \cup {NoName}, NEW total \in Nat
  PROVE  LET new == RecordUsage(st, harness, total)
         IN  /\ new.counts = st.counts /\ new.history = st.history
             /\ new.stack = st.stack /\ new.tokens <= st.tokens + total
             /\ new.execution = st.execution
<1> DEFINE named == RecordIdentity(st, "harness", harness)
<1> DEFINE spent == [named EXCEPT !.tokens = (@ + total) % TokenWrap]
<1>1. named \in RunStates
  BY RecordIdentityType DEF Identities
<1>2. /\ named.counts = st.counts /\ named.history = st.history
      /\ named.stack = st.stack /\ named.tokens = st.tokens
      /\ named.execution = st.execution
  BY IdentityAlone DEF Identities
<1> HIDE DEF named
<1>3. st.tokens \in Nat
  BY TokenAssumption DEF RunStates
<1>4. /\ (named.tokens + total) % TokenWrap \in 0 .. (TokenWrap - 1)
      /\ (named.tokens + total) % TokenWrap <= st.tokens + total
  <2>1. PICK n \in Nat : n = named.tokens + total
    BY <1>2, <1>3
  <2>2. n % TokenWrap \in 0 .. (TokenWrap - 1) /\ n % TokenWrap <= n
    BY <2>1, TokenAssumption
  <2> QED
    BY <1>2, <2>1, <2>2
<1>5. /\ spent \in RunStates /\ spent.tokens = (named.tokens + total) % TokenWrap
      /\ spent.counts = st.counts /\ spent.history = st.history /\ spent.stack = st.stack
      /\ spent.execution = st.execution
  BY <1>1, <1>2, <1>4 DEF RunStates
<1>6. RecordUsage(st, harness, total)
        = IF total = 0 THEN named ELSE AppendEvent(spent, "LlmUsageRecorded", NoName, total)
  BY DEF RecordUsage, named
<1> HIDE DEF spent
<1>7. CASE total = 0
  BY <1>2, <1>3, <1>6, <1>7
<1>8. CASE total # 0
  <2>1. RecordUsage(st, harness, total) = AppendEvent(spent, "LlmUsageRecorded", NoName, total)
    BY <1>6, <1>8
  <2> QED
    BY <1>4, <1>5, <2>1, EventAlone
<1> QED
  BY <1>7, <1>8

LEMMA EffectOutcome ==
  ASSUME NEW st \in RunStates, NEW q \in Requests, q.op # "tool"
  PROVE  Outcome(q, "ok", st, Effect(st, q))
<1>1. /\ \/ q.op \in {"enter", "exit", "usage", "identify", "stop", "stopRule"}
         \/ q.op \in Reads \cup Consults
      /\ q.which \in Identities
      /\ q.tokens \in Nat
      /\ q.op = "stopRule" => q.on \in Tools
      /\ q.op = "enter" => q.on \in Names
      /\ q.op \in {"usage", "identify"} => q.on \in Names \cup {NoName}
  BY GovernorAssumption DEF RequestSpace, Ops, WellFormed
<1>2. st.tokens \in Nat
  BY TokenAssumption DEF RunStates
<1>3. CASE q.op = "enter"
  <2>1. Effect(st, q) = EnterScope(st, q.on)
    BY <1>3 DEF Effect, Reads, Consults
  <2> QED
    BY <1>1, <1>2, <1>3, <2>1, EnterOutcome DEF Outcome, Stopped
<1>4. CASE q.op = "exit"
  <2>1. Effect(st, q) = ExitScope(st)
    BY <1>4 DEF Effect, Reads, Consults
  <2> QED
    BY <1>2, <1>4, <2>1, ExitOutcome DEF Outcome, Stopped
<1>5. CASE q.op = "usage"
  <2>1. Effect(st, q) = RecordUsage(st, q.on, q.tokens)
    BY <1>5 DEF Effect, Reads, Consults
  <2> QED
    BY <1>1, <1>2, <1>5, <2>1, UsageOutcome DEF Outcome, Stopped
<1>6. CASE q.op = "identify"
  <2>1. Effect(st, q) = RecordIdentity(st, q.which, q.on)
    BY <1>6 DEF Effect, Reads, Consults
  <2> QED
    BY <1>1, <1>2, <1>6, <2>1, IdentityAlone DEF Outcome, Stopped
<1>7. CASE q.op = "stop"
  <2>1. Effect(st, q) = MarkStopped(st, ValidReason(q.on))
    BY <1>7 DEF Effect, Reads, Consults, ReportStop
  <2>2. ValidReason(q.on) \in StopReasons
    BY DEF ValidReason, StopReasons
  <2> QED
    BY <1>2, <1>7, <2>1, <2>2, StopsAlone DEF Outcome
<1>8. CASE q.op = "stopRule"
  <2>1. Effect(st, q) = MarkStopped(AppendEvent(st, "RuleDenied", q.on, 0), "RuleDenied")
    BY <1>8 DEF Effect, Reads, Consults, ReportRuleDenied
  <2>2. PICK mid \in RunStates : mid = AppendEvent(st, "RuleDenied", q.on, 0)
    BY <1>1, <1>8, AppendEventType DEF EventKinds, Subjects
  <2>3. /\ mid.counts = st.counts /\ mid.history = st.history
        /\ mid.stack = st.stack /\ mid.tokens = st.tokens
    BY <2>2, EventAlone
  <2>4. "RuleDenied" \in StopReasons
    BY DEF StopReasons, Reportable
  <2> QED
    BY <1>2, <1>8, <2>1, <2>2, <2>3, <2>4, StopsAlone DEF Outcome
<1>9. CASE q.op \in Reads \cup Consults
  <2>1. Effect(st, q) = st
    BY <1>9 DEF Effect, Reads, Consults
  <2> QED
    BY <1>2, <1>9, <2>1 DEF Outcome, Reads, Consults
<1> QED
  BY <1>1, <1>3, <1>4, <1>5, <1>6, <1>7, <1>8, <1>9

LEMMA ToolOutcome ==
  ASSUME NEW st \in RunStates, NEW q \in Requests, q.op = "tool", q.on \in Tools
  PROVE  /\ Stopped(st) => Outcome(q, "gone", st, st)
         /\ \A v \in Denials : Outcome(q, "denied", st, RecordDenied(st, q.on, v))
         /\ Outcome(q, "allowed", st, RecordAllowed(st, q.on))
         /\ q.on \in Builtin => Outcome(q, "error", st, RecordFailed(st, q.on))
<1>1. st.tokens \in Nat
  BY TokenAssumption DEF RunStates
<1>2. Stopped(st) => Outcome(q, "gone", st, st)
  BY <1>1 DEF Outcome
<1>3. ASSUME NEW v \in Denials
      PROVE  Outcome(q, "denied", st, RecordDenied(st, q.on, v))
  <2>1. PICK mid \in RunStates : mid = AppendEvent(st, v, q.on, 0)
    BY AppendEventType DEF EventKinds, Subjects, Denials
  <2>2. /\ mid.counts = st.counts /\ mid.history = st.history
        /\ mid.stack = st.stack /\ mid.tokens = st.tokens
    BY <2>1, EventAlone
  <2>3. v \in StopReasons
    BY DEF StopReasons, Reportable, Denials
  <2>4. RecordDenied(st, q.on, v) = MarkStopped(mid, v)
    BY <2>1 DEF RecordDenied
  <2> QED
    BY <1>1, <2>2, <2>3, <2>4, StopsAlone DEF Outcome
<1>4. Outcome(q, "allowed", st, RecordAllowed(st, q.on))
  <2>1. PICK new : new = RecordAllowed(st, q.on)
    OBVIOUS
  <2>2. /\ new.counts = [st.counts EXCEPT ![q.on] = @ + 1]
        /\ new.history = Append(st.history, q.on)
        /\ new.stack = st.stack /\ new.tokens = st.tokens /\ new.execution = st.execution
    BY <2>1 DEF RecordAllowed, AppendEvent, RunStates
  <2>3. Stopped(st) => Stopped(new)
    BY <2>2 DEF Stopped
  <2>4. Outcome(q, "allowed", st, new)
    BY <1>1, <2>2, <2>3 DEF Outcome
  <2> QED
    BY <2>1, <2>4
<1>5. ASSUME q.on \in Builtin
      PROVE  Outcome(q, "error", st, RecordFailed(st, q.on))
  <2>1. PICK new : new = RecordFailed(st, q.on)
    OBVIOUS
  <2>2. /\ new.counts = st.counts /\ new.history = st.history
        /\ new.stack = st.stack /\ new.tokens = st.tokens /\ new.execution = st.execution
    BY <2>1, EventAlone DEF RecordFailed
  <2>3. Stopped(st) => Stopped(new)
    BY <2>2 DEF Stopped
  <2>4. Outcome(q, "error", st, new)
    BY <1>1, <1>5, <2>2, <2>3 DEF Outcome
  <2> QED
    BY <2>1, <2>4
<1> QED
  BY <1>2, <1>3, <1>4, <1>5

LEMMA GoneOutcome ==
  ASSUME NEW st \in RunStates, NEW q, Stopped(st)
  PROVE  Outcome(q, "gone", st, st)
<1>1. st.tokens \in Nat
  BY TokenAssumption DEF RunStates
<1> QED
  BY <1>1 DEF Outcome

LEMMA SettlesOutcome ==
  ASSUME Base, NEW c \in Clients, NEW answer, NEW st, Settles(c, answer, st)
  PROVE  /\ answer \in {"gone", "denied", "allowed", "error", "ok"}
         /\ RunOf(c) \in Runs /\ Asked(c) \in Requests
         /\ Outcome(Asked(c), answer, run[RunOf(c)], st)
         /\ run'[RunOf(c)] = st
         /\ \A r \in Runs : r # RunOf(c) => run'[r] = run[r]
<1>1. /\ RunOf(c) \in Runs /\ Asked(c) \in Requests /\ run[RunOf(c)] \in RunStates
      /\ Asked(c).op = "tool" => Asked(c).on \in Tools
  BY RequestType DEF Settles, Base, SdkTypeOK
<1>2. PICK old \in RunStates : old = run[RunOf(c)]
  BY <1>1
<1>3. /\ run'[RunOf(c)] = st
      /\ \A r \in Runs : r # RunOf(c) => run'[r] = run[r]
  BY <1>1 DEF Settles, Base, SdkTypeOK, TypeOK
<1>4. \/ answer = "gone" /\ st = old /\ Stopped(st)
      \/ /\ answer = "denied" /\ Asked(c).op = "tool"
         /\ \E v \in Denials : st = RecordDenied(old, Asked(c).on, v)
      \/ /\ answer = "allowed" /\ Asked(c).op = "tool"
         /\ st = RecordAllowed(old, Asked(c).on)
      \/ /\ answer = "error" /\ Asked(c).op = "tool" /\ Asked(c).on \in Builtin
         /\ st = RecordFailed(old, Asked(c).on)
      \/ /\ answer = "ok" /\ Asked(c).op # "tool"
         /\ st = Effect(old, Asked(c))
  BY <1>2 DEF Settles
<1>5. Outcome(Asked(c), answer, old, st)
  BY <1>1, <1>4, GoneOutcome, ToolOutcome, EffectOutcome
<1>6. answer \in {"gone", "denied", "allowed", "error", "ok"}
  BY <1>4
<1> QED
  BY <1>1, <1>2, <1>3, <1>5, <1>6

\* The governor goes on with the request in slot c.
Ponders(c) ==
  /\ pc[c] # "idle" /\ pc'[c] # "idle"
  /\ \A d \in Clients : d # c => pc'[d] = pc[d]
  /\ UNCHANGED <<open, run, call, at, hand, inside, reached, unheard>>

\* Thread t has the answer to the request in slot c.
Heard(c, answer, t) ==
  /\ hand[t].slot = c
  /\ Takes(t, Onward(t, answer), hand[t]) /\ Scoped(t, answer)
  /\ reached' = (reached \/ MakesContact(at[t]))
  /\ unheard' = unheard

\* Nobody waits for it any more.
Unheeded(c, answer) ==
  /\ \A t \in Threads : hand[t].slot # c
  /\ UNCHANGED <<at, hand, inside, reached>>
  /\ answer = "allowed" => unheard' = [unheard EXCEPT ![RunOf(c)][Asked(c).on] = @ + 1]
  /\ answer # "allowed" => unheard' = unheard

\* What a step of the governor leaves alone.
Serving ==
  /\ governor = "up"
  /\ UNCHANGED <<sdk, governor, declared, loaded, scope, entries, begun, bodies, told,
                 silent, forgotten, restarts, faults>>

LEMMA ServeForms ==
  ASSUME Base, NEW c \in Clients, Serve(c)
  PROVE  /\ Serving
         /\ \/ Ponders(c)
            \/ \E answer, st :
                 /\ Settles(c, answer, st)
                 /\ (\E t \in Threads : Heard(c, answer, t)) \/ Unheeded(c, answer)
<1>1. Serving
  BY DEF Serve, Serving
<1>2. ASSUME NEW answer, Deliver(c, answer)
      PROVE  (\E t \in Threads : Heard(c, answer, t)) \/ Unheeded(c, answer)
  <2>1. CASE \E t \in Threads :
               /\ hand[t].slot = c
               /\ Conclude(t, answer)
               /\ reached' = (reached \/ MakesContact(at[t]))
               /\ UNCHANGED unheard
    <3>1. PICK t \in Threads :
               /\ hand[t].slot = c
               /\ Conclude(t, answer)
               /\ reached' = (reached \/ MakesContact(at[t]))
               /\ UNCHANGED unheard
      BY <2>1
    <3>2. Takes(t, Onward(t, answer), hand[t]) /\ Scoped(t, answer)
      BY <3>1, ConcludeTakes DEF Base
    <3> QED
      BY <3>1, <3>2 DEF Heard
  <2>2. CASE /\ \A t \in Threads : hand[t].slot # c
             /\ unheard' = IF answer = "allowed"
                           THEN [unheard EXCEPT ![RunOf(c)][Asked(c).on] = @ + 1]
                           ELSE unheard
             /\ UNCHANGED <<at, hand, inside, reached>>
    BY <2>2 DEF Unheeded
  <2> QED
    BY <1>2, <2>1, <2>2 DEF Deliver
<1>3. CASE (Admit(c) \/ Policy(c)) /\ UNCHANGED <<at, hand, inside, reached, unheard>>
  <2>1. pc \in [Clients -> Steps]
    BY DEF Base, SdkTypeOK, TypeOK
  <2>2. ASSUME NEW next, pc' = [pc EXCEPT ![c] = next], next # "idle"
        PROVE  pc'[c] # "idle" /\ \A d \in Clients : d # c => pc'[d] = pc[d]
    BY <2>1, <2>2
  <2>3. pc'[c] # "idle" /\ \A d \in Clients : d # c => pc'[d] = pc[d]
    <3>1. CASE Admit(c)
      BY <2>2, <3>1 DEF Admit
    <3>2. CASE Policy(c)
      BY <2>2, <3>2 DEF Policy, Evaluate
    <3> QED
      BY <1>3, <3>1, <3>2
  <2>4. pc[c] # "idle" /\ UNCHANGED <<open, run, call>>
    BY <1>3 DEF Admit, Policy
  <2> QED
    BY <1>1, <1>3, <2>3, <2>4 DEF Ponders
<1>4. CASE Refuse(c) /\ Deliver(c, "gone")
  <2>1. run[RunOf(c)] = run'[RunOf(c)] /\ run' = [run EXCEPT ![RunOf(c)] = run[RunOf(c)]]
    BY <1>4 DEF Refuse, Base, SdkTypeOK, TypeOK
  <2>2. Settles(c, "gone", run[RunOf(c)])
    BY <1>4, <2>1 DEF Refuse, Settles
  <2> QED
    BY <1>1, <1>2, <1>4, <2>2
<1>5. CASE Deny(c) /\ Deliver(c, "denied")
  <2>1. Settles(c, "denied", RecordDenied(run[RunOf(c)], Asked(c).on, pc[c]))
    <3>1. pc[c] \in Denials /\ pc[c] \in ToolSteps /\ pc[c] # "idle"
      BY <1>5 DEF Deny, Denials, ToolSteps
    <3>2. Asked(c).op = "tool"
      BY <3>1 DEF Base, InFlight
    <3> QED
      BY <1>5, <3>1, <3>2 DEF Deny, Commit, Settles
  <2> QED
    BY <1>1, <1>2, <1>5, <2>1
<1>6. CASE Allow(c) /\ Deliver(c, "allowed")
  <2>1. Settles(c, "allowed", RecordAllowed(run[RunOf(c)], Asked(c).on))
    <3>1. pc[c] \in ToolSteps /\ pc[c] # "idle"
      BY <1>6 DEF Allow, ToolSteps
    <3>2. Asked(c).op = "tool"
      BY <3>1 DEF Base, InFlight
    <3> QED
      BY <1>6, <3>1, <3>2 DEF Allow, Commit, Settles
  <2> QED
    BY <1>1, <1>2, <1>6, <2>1
<1>7. CASE Fail(c) /\ Deliver(c, "error")
  <2>1. Settles(c, "error", RecordFailed(run[RunOf(c)], Asked(c).on))
    <3>1. pc[c] \in ToolSteps /\ pc[c] # "idle"
      BY <1>7 DEF Fail, ToolSteps
    <3>2. Asked(c).op = "tool"
      BY <3>1 DEF Base, InFlight
    <3> QED
      BY <1>7, <3>1, <3>2 DEF Fail, Commit, Settles
  <2> QED
    BY <1>1, <1>2, <1>7, <2>1
<1>8. CASE Apply(c) /\ Deliver(c, "ok")
  <2>1. Settles(c, "ok", Effect(run[RunOf(c)], Asked(c)))
    <3>1. pc[c] = "apply" /\ pc[c] # "idle"
      BY <1>8 DEF Apply
    <3>2. Asked(c).op # "tool"
      BY <3>1 DEF Base, InFlight
    <3> QED
      BY <1>8, <3>1, <3>2 DEF Apply, Commit, Settles
  <2> QED
    BY <1>1, <1>2, <1>8, <2>1
<1> QED
  BY <1>3, <1>4, <1>5, <1>6, <1>7, <1>8 DEF Serve

\* One more of a tool in a run.
LEMMA TallyUp ==
  ASSUME NEW f \in Tally, NEW r \in Runs, NEW x \in Tools, NEW g,
         g = [f EXCEPT ![r][x] = @ + 1]
  PROVE  /\ g \in Tally /\ g[r][x] = f[r][x] + 1
         /\ \A s \in Runs, y \in Tools : f[s][y] \in Nat /\ (s # r \/ y # x => g[s][y] = f[s][y])
<1>1. f[r][x] \in Nat
  BY DEF Tally
<1> QED
  BY <1>1 DEF Tally

\* An answered slot is free, and the others are as they were.
LEMMA AnsweredSlots ==
  ASSUME Base, NEW c \in Clients, Answered(c)
  PROVE  /\ pc'[c] = "idle"
         /\ \A d \in Clients : d # c => pc'[d] = pc[d] /\ call'[d] = call[d]
BY DEF Answered, Base, SdkTypeOK, TypeOK

LEMMA ServeBase ==
  ASSUME Base, NEW c \in Clients, Serve(c)
  PROVE  Base'
<1>1. Typed'
  <2>1. Handle(c)
    BY DEF Serve, Handle
  <2>2. [Next]_vars /\ Typed
    BY <2>1 DEF Next, Base, Typed, SdkTypeOK
  <2> QED
    BY <2>2, TypedStep
<1>2. Serving
  BY ServeForms
<1>3. CASE Ponders(c)
  <2>1. /\ at' = at /\ hand' = hand /\ inside' = inside /\ reached' = reached
        /\ unheard' = unheard /\ run' = run /\ open' = open /\ call' = call
        /\ pc[c] # "idle" /\ pc'[c] # "idle"
        /\ \A d \in Clients : d # c => pc'[d] = pc[d]
    BY <1>3 DEF Ponders
  <2>2. InBooks'
    BY <1>2, <2>1 DEF Base, InBooks, Serving
  <2>3. SdkTypeOK'
    BY <1>1, <1>2, <2>1, <2>2 DEF Typed, Base, SdkTypeOK, Serving, InBooks
  <2>4. InPlace'
    BY <1>2, <2>1 DEF Base, InPlace, Serving
  <2>5. InSlots'
    <3>1. hand' \in [Threads -> Locals] /\ sdk' = sdk /\ scope' = scope
      BY <1>2, <2>3 DEF SdkTypeOK, Serving
    <3>2. \A d \in Clients : pc'[d] # "idle" => pc[d] # "idle" /\ call'[d] = call[d]
      BY <2>1
    <3> QED
      BY <2>1, <3>1, <3>2, SlotsKept DEF Base
  <2>6. InRuns'
    <3>1. \A d \in Clients : pc'[d] # "idle" => pc[d] # "idle"
      BY <2>1
    <3> QED
      BY <1>2, <2>1, <3>1 DEF Base, InRuns, RunOf, Serving
  <2> QED
    BY <1>1, <2>2, <2>3, <2>4, <2>5, <2>6 DEF Base, Typed
<1>4. ASSUME NEW answer, NEW st, Settles(c, answer, st)
      PROVE  /\ InRuns'
             /\ \A d \in Clients : pc'[d] # "idle" => pc[d] # "idle" /\ call'[d] = call[d]
  <2>1. /\ pc'[c] = "idle" /\ open' = open /\ pc[c] # "idle"
        /\ \A d \in Clients : d # c => pc'[d] = pc[d] /\ call'[d] = call[d]
    BY <1>4, AnsweredSlots DEF Settles
  <2>2. \A d \in Clients : pc'[d] # "idle" => pc[d] # "idle" /\ call'[d] = call[d]
    BY <2>1
  <2>3. RunOf(c) \in open /\ \A r \in Runs : r # RunOf(c) => run'[r] = run[r]
    BY <1>4, <2>1, SettlesOutcome DEF Base, InRuns
  <2>4. InRuns'
    BY <1>2, <2>1, <2>2, <2>3 DEF Base, InRuns, RunOf, Serving
  <2> QED
    BY <2>2, <2>4
<1>5. ASSUME NEW answer, NEW st, Settles(c, answer, st), NEW t \in Threads, Heard(c, answer, t)
      PROVE  Base'
  <2>1. /\ hand[t].slot = c
        /\ Takes(t, Onward(t, answer), hand[t]) /\ Scoped(t, answer)
        /\ reached' = (reached \/ MakesContact(at[t]))
        /\ unheard' = unheard
    BY <1>5 DEF Heard
  <2>2. /\ at' \in [Threads -> Places] /\ hand' \in [Threads -> Locals]
        /\ hand'[t].slot = NoSlot
        /\ \A u \in Threads : u # t => at'[u] = at[u] /\ hand'[u] = hand[u]
        /\ inside' \in [Threads -> Seq(Names)]
        /\ \A u \in Threads : u # t => inside'[u] = inside[u]
    BY <2>1 DEF Takes, Scoped
  <2>3. InBooks'
    BY <1>2, <2>1 DEF Base, InBooks, Serving
  <2>4. reached' \in BOOLEAN /\ (reached => reached')
    BY <2>1 DEF Base, SdkTypeOK, MakesContact
  <2>5. SdkTypeOK'
    BY <1>1, <1>2, <2>2, <2>3, <2>4 DEF Typed, Base, SdkTypeOK, Serving, InBooks
  <2>6. InPlace'
    <3>1. PICK p \in Places : p = Onward(t, answer)
      BY OnwardPlaces DEF Places, Enforcing, BestEffort
    <3>2. /\ p \in {"status", "report", "body", "app", "quit"}
          /\ p \in {"status", "report", "body"} => at[t] \in OfTool
      BY <3>1, OnwardPlaces DEF OfTool
    <3>3. p \in OfTool => hand[t].on \in Tools
      BY <3>2 DEF Base, InPlace, OfTool
    <3>4. p # "enter" /\ p # "exit" /\ p # "rules" /\ p # "call"
      BY <3>2
    <3>5. Takes(t, p, hand[t]) /\ sdk' = sdk
      BY <1>2, <2>1, <3>1 DEF Serving
    <3> QED
      BY <2>2, <2>4, <3>3, <3>4, <3>5, TakesInPlace DEF Base
  <2>7. InSlots'
    <3>1. \A u \in Threads : hand'[u].slot # NoSlot => at'[u] = at[u] /\ hand'[u] = hand[u]
      BY <2>2
    <3>2. sdk' = sdk /\ scope' = scope
      BY <1>2 DEF Serving
    <3> QED
      BY <1>4, <1>5, <2>2, <3>1, <3>2, SlotsKept DEF Base
  <2> QED
    BY <1>1, <1>4, <1>5, <2>3, <2>5, <2>6, <2>7 DEF Base, Typed
<1>6. ASSUME NEW answer, NEW st, Settles(c, answer, st), Unheeded(c, answer)
      PROVE  Base'
  <2>1. at' = at /\ hand' = hand /\ inside' = inside /\ reached' = reached
    BY <1>6 DEF Unheeded
  <2>2. unheard' \in Tally
    <3>1. CASE answer = "allowed"
      <4>1. RunOf(c) \in Runs /\ Asked(c).on \in Tools
        BY <1>6, <3>1, SettlesOutcome DEF Outcome
      <4>2. PICK r \in Runs, x \in Tools : r = RunOf(c) /\ x = Asked(c).on
        BY <4>1
      <4>3. unheard' = [unheard EXCEPT ![r][x] = @ + 1] /\ unheard \in Tally
        BY <1>6, <3>1, <4>2 DEF Unheeded, Base, InBooks
      <4> QED
        BY <4>3, TallyUp
    <3>2. CASE answer # "allowed"
      BY <1>6, <3>2 DEF Unheeded, Base, InBooks
    <3> QED
      BY <3>1, <3>2
  <2>3. InBooks'
    BY <1>2, <2>2 DEF Base, InBooks, Serving
  <2>4. SdkTypeOK'
    BY <1>1, <1>2, <2>1, <2>3 DEF Typed, Base, SdkTypeOK, Serving, InBooks
  <2>5. InPlace'
    BY <1>2, <2>1 DEF Base, InPlace, Serving
  <2>6. InSlots'
    <3>1. hand' \in [Threads -> Locals] /\ sdk' = sdk /\ scope' = scope
      BY <1>2, <2>4 DEF SdkTypeOK, Serving
    <3> QED
      BY <1>4, <1>6, <2>1, <3>1, SlotsKept DEF Base
  <2> QED
    BY <1>1, <1>4, <1>6, <2>3, <2>4, <2>5, <2>6 DEF Base, Typed
<1> QED
  BY <1>3, <1>5, <1>6, ServeForms

\* The governor comes, goes and is started again.
LEMMA ListenBase ==
  ASSUME Base, Listen
  PROVE  Base'
<1>1. /\ UNCHANGED vars /\ governor' = "up"
      /\ UNCHANGED <<sdk, reached, declared, loaded, scope, at, hand, inside, tallies>>
  BY DEF Listen
<1>2. InBooks'
  BY <1>1 DEF Base, InBooks, tallies, counted
<1>3. TypeOK'
  BY <1>1 DEF Base, SdkTypeOK, TypeOK, vars
<1>4. SdkTypeOK'
  BY <1>1, <1>2, <1>3 DEF Base, SdkTypeOK, InBooks
<1>5. InPlace'
  BY <1>1 DEF Base, InPlace
<1>6. InSlots'
  BY <1>1, SlotsKept, <1>4 DEF Base, SdkTypeOK, vars
<1>7. InRuns' /\ InFlight'
  BY <1>1 DEF Base, InRuns, InFlight, RunOf, Asked, vars
<1> QED
  BY <1>2, <1>4, <1>5, <1>6, <1>7 DEF Base

LEMMA VanishBase ==
  ASSUME Base, Vanish
  PROVE  Base'
<1>1. /\ governor' = "gone"
      /\ pc' = [c \in Clients |-> "idle"] /\ call' = [c \in Clients |-> NoCall]
      /\ UNCHANGED <<open, run, log, issued, mark>>
      /\ UNCHANGED <<sdk, reached, declared, loaded, scope, at, hand, inside, tallies>>
  BY DEF Vanish
<1>2. InBooks'
  BY <1>1 DEF Base, InBooks, tallies, counted
<1>3. TypeOK'
  BY <1>1 DEF Base, SdkTypeOK, TypeOK, Steps
<1>4. SdkTypeOK'
  BY <1>1, <1>2, <1>3 DEF Base, SdkTypeOK, InBooks
<1>5. InPlace'
  BY <1>1 DEF Base, InPlace
<1>6. InSlots'
  <2>1. \A d \in Clients : pc'[d] # "idle" => pc[d] # "idle" /\ call'[d] = call[d]
    BY <1>1
  <2> QED
    BY <1>1, <1>4, <2>1, SlotsKept DEF Base, SdkTypeOK
<1>7. InRuns' /\ InFlight'
  BY <1>1 DEF Base, InRuns, InFlight, ToolSteps
<1> QED
  BY <1>2, <1>4, <1>5, <1>6, <1>7 DEF Base

LEMMA RestartForm ==
  ASSUME Base, Restart
  PROVE  /\ Base'
         /\ UNCHANGED <<pc, call, sdk, reached, declared, loaded, scope, at, hand, inside,
                        counted, silent, faults>>
         /\ governor = "gone" /\ governor' = "up" /\ restarts' = restarts + 1
         /\ \A c \in Clients : pc[c] = "idle"
         /\ \A r \in Runs :
              /\ \A x \in Tools : /\ forgotten'[r][x] = forgotten[r][x] + run[r].counts[x]
                                  /\ run'[r].counts[x] = 0
              /\ run'[r].history = <<>> /\ run'[r].stack = <<>> /\ run'[r].tokens = 0
<1>1. /\ UNCHANGED <<pc, call, sdk, reached, declared, loaded, scope, at, hand, inside,
                     counted, silent, faults>>
      /\ UNCHANGED <<log, issued>>
      /\ governor = "gone" /\ governor' = "up" /\ restarts' = restarts + 1
      /\ restarts + faults < MaxFaults
      /\ open' = {Primary}
      /\ run' = [r \in Runs |-> IF r = Primary THEN PlaceholderRun ELSE FreshRun]
      /\ mark' = [r \in Runs |-> [seq |-> 0, calls |-> 0]]
      /\ forgotten' = [r \in Runs |-> [x \in Tools |-> forgotten[r][x] + run[r].counts[x]]]
  BY DEF Restart
<1>2. \A c \in Clients : pc[c] = "idle"
  BY <1>1 DEF Base, InRuns
<1>3. \A r \in Runs, x \in Tools : forgotten[r][x] \in Nat /\ run[r].counts[x] \in Nat
  BY DEF Base, InBooks, Tally, SdkTypeOK, TypeOK, RunStates
<1>4. forgotten' \in Tally
  <2>1. \A r \in Runs, x \in Tools : forgotten[r][x] + run[r].counts[x] \in Nat
    BY <1>3
  <2> QED
    BY <1>1, <2>1 DEF Tally
<1>5. restarts' \in Nat /\ restarts' + faults' \in 0 .. MaxFaults
  <2>1. restarts \in Nat /\ faults \in Nat /\ MaxFaults \in Nat /\ faults' = faults
    BY <1>1, SdkAssumption DEF Base, InBooks
  <2> QED
    BY <1>1, <2>1
<1>6. InBooks'
  BY <1>1, <1>4, <1>5 DEF Base, InBooks, counted
<1>7. TypeOK'
  <2>1. run' \in [Runs -> RunStates]
    BY <1>1, FreshRunType
  <2>2. mark' \in [Runs -> Marks] /\ open' \in SUBSET Runs
    BY <1>1, GovernorAssumption DEF Marks
  <2> QED
    BY <1>1, <2>1, <2>2 DEF Base, SdkTypeOK, TypeOK
<1>8. SdkTypeOK'
  BY <1>1, <1>6, <1>7 DEF Base, SdkTypeOK, InBooks
<1>9. InPlace'
  BY <1>1 DEF Base, InPlace
<1>10. InSlots'
  BY <1>1, <1>8, SlotsKept DEF Base, SdkTypeOK
<1>11. InRuns' /\ InFlight'
  BY <1>1, <1>2, GovernorAssumption DEF Base, InRuns, InFlight, ToolSteps
<1>12. ASSUME NEW r \in Runs
       PROVE  /\ \A x \in Tools : /\ forgotten'[r][x] = forgotten[r][x] + run[r].counts[x]
                                  /\ run'[r].counts[x] = 0
              /\ run'[r].history = <<>> /\ run'[r].stack = <<>> /\ run'[r].tokens = 0
  <2>1. \/ run'[r] = PlaceholderRun
        \/ run'[r] = FreshRun
    BY <1>1
  <2> QED
    BY <1>1, <2>1 DEF FreshRun, PlaceholderRun
<1> QED
  BY <1>1, <1>2, <1>6, <1>8, <1>9, <1>10, <1>11, <1>12 DEF Base

-----------------------------------------------------------------------------
(* What the threads and the slots are always in, is kept *)

LEMMA BaseInit == SdkInit => Base
<1> SUFFICES ASSUME SdkInit
             PROVE  Base
  OBVIOUS
<1>1. Typed
  BY TypedInit DEF SdkInit
<1>2. /\ at = [t \in Threads |-> "app"] /\ hand = [t \in Threads |-> AtRest]
      /\ inside = [t \in Threads |-> <<>>]
      /\ sdk \in Sdks /\ scope \in Scopes[sdk]
      /\ loaded = OwnRules /\ reached = FALSE /\ declared = FALSE
      /\ governor \in {"absent", "up"}
  BY DEF SdkInit
<1>3. /\ entries = 0 /\ begun = Zero /\ bodies = Zero /\ unheard = Zero
      /\ told = [r \in Runs |-> 0] /\ silent = FALSE
      /\ forgotten = Zero /\ restarts = 0 /\ faults = 0
  BY DEF SdkInit
<1>4. Zero \in Tally
  BY DEF Zero, Tally
<1>5. MaxBegun[sdk] \in Nat /\ MaxTold \in Nat /\ MaxFaults \in Nat
  BY <1>2, SdkAssumption
<1>6. InBooks
  <2>1. 0 \in 0 .. MaxTold /\ 0 + 0 \in 0 .. MaxFaults /\ 0 \in 0 .. MaxBegun[sdk]
    BY <1>5
  <2> QED
    BY <1>3, <1>4, <2>1 DEF InBooks
<1>7. scope \in [Threads -> Runs]
  BY <1>2, SdkAssumption
<1>8. SdkTypeOK
  <2>1. at \in [Threads -> Places]
    BY <1>2 DEF Places
  <2>2. hand \in [Threads -> Locals]
    BY <1>2, RestType
  <2>3. inside \in [Threads -> Seq(Names)]
    <3>1. <<>> \in Seq(Names)
      OBVIOUS
    <3> QED
      BY <1>2, <3>1
  <2> QED
    BY <1>1, <1>2, <1>6, <1>7, <2>1, <2>2, <2>3 DEF Typed, SdkTypeOK, InBooks
<1>9. InPlace
  BY <1>2 DEF InPlace, OfTool, BestEffort
<1>10. \A c \in Clients : pc[c] = "idle"
  BY DEF SdkInit, Init
<1>11. InSlots
  <2>1. \A t \in Threads : hand[t].slot = NoSlot
    BY <1>2 DEF AtRest
  <2> QED
    BY <1>10, <2>1 DEF InSlots
<1>12. InRuns
  BY <1>10 DEF SdkInit, Init, InRuns
<1> QED
  BY <1>1, <1>6, <1>8, <1>9, <1>11, <1>12 DEF Base, Typed

\* What a step is.
LEMMA SdkSteps ==
  ASSUME [SdkNext]_<<vars, sdkVars>>
  PROVE  \/ \E t \in Threads :
              \/ CallTool(t) \/ EnterAgent(t) \/ LeaveAgent(t) \/ Tell(t)
              \/ LoadRule(t) \/ Quit(t) \/ RunBody(t)
              \/ Once(t) \/ LoadEnds(t) \/ LoadFails(t) \/ Clear(t) \/ Break(t) \/ Clash(t)
              \/ Post(t) \/ Status(t) \/ GivesUp(t)
         \/ \E c \in Clients : Serve(c)
         \/ Listen
         \/ Vanish
         \/ Restart
         \/ UNCHANGED <<vars, sdkVars>>
BY DEF SdkNext, Begin, Wrapper, GivesUp

LEMMA BaseStep == Base /\ [SdkNext]_<<vars, sdkVars>> => Base'
<1> SUFFICES ASSUME Base, [SdkNext]_<<vars, sdkVars>>
             PROVE  Base'
  OBVIOUS
<1>1. ASSUME NEW t \in Threads, CallTool(t) \/ EnterAgent(t) \/ LeaveAgent(t) \/ Tell(t)
      PROVE  Base'
  BY <1>1, CallToolBase, EnterAgentBase, LeaveAgentBase, TellBase
<1>2. ASSUME NEW t \in Threads, LoadRule(t) \/ Quit(t) \/ RunBody(t)
      PROVE  Base'
  BY <1>2, LoadRuleBase, QuitBase, RunBodyBase
<1>3. ASSUME NEW t \in Threads, Once(t) \/ LoadEnds(t) \/ LoadFails(t)
                                  \/ Clear(t) \/ Break(t) \/ Clash(t)
      PROVE  Base'
  BY <1>3, OnItsOwn
<1>4. ASSUME NEW t \in Threads, Post(t) \/ Status(t) \/ GivesUp(t)
      PROVE  Base'
  BY <1>4, PostBase, StatusForm, GivesUpBase
<1>5. ASSUME NEW c \in Clients, Serve(c)
      PROVE  Base'
  BY <1>5, ServeBase
<1>6. CASE Listen \/ Vanish \/ Restart
  BY <1>6, ListenBase, VanishBase, RestartForm
<1>7. CASE UNCHANGED <<vars, sdkVars>>
  <2>1. /\ UNCHANGED vars /\ governor' = governor
        /\ UNCHANGED <<sdk, reached, declared, loaded, scope, at, hand, inside, tallies>>
    BY <1>7 DEF sdkVars, process
  <2>2. InBooks'
    BY <2>1 DEF Base, InBooks, tallies, counted
  <2>3. TypeOK'
    BY <2>1 DEF Base, SdkTypeOK, TypeOK, vars
  <2>4. SdkTypeOK'
    BY <2>1, <2>2, <2>3 DEF Base, SdkTypeOK, InBooks
  <2>5. InPlace'
    BY <2>1 DEF Base, InPlace
  <2>6. InSlots'
    BY <2>1, <2>4, SlotsKept DEF Base, SdkTypeOK, vars
  <2>7. InRuns' /\ InFlight'
    BY <2>1, QuietRuns DEF Base
  <2> QED
    BY <2>2, <2>4, <2>5, <2>6, <2>7 DEF Base
<1> QED
  BY <1>1, <1>2, <1>3, <1>4, <1>5, <1>6, <1>7, SdkSteps

LEMMA AlwaysBase == SdkSpec => []Base
<1>1. SdkInit => Base
  BY BaseInit
<1>2. Base /\ [SdkNext]_<<vars, sdkVars>> => Base'
  BY BaseStep
<1> QED
  BY <1>1, <1>2, PTL DEF SdkSpec

-----------------------------------------------------------------------------
(* The bodies that run and the calls that are counted *)

\* The threads about to run the body of x in run r.
InBody(r, x) == {t \in Threads : at[t] = "body" /\ scope[t] = r /\ hand[t].on = x}

\* What one thread that moves does to them.
LEMMA BodyMoves ==
  ASSUME NEW t \in Threads, \A u \in Threads : u # t => at'[u] = at[u] /\ hand'[u] = hand[u],
         scope' = scope, NEW r, NEW x
  PROVE  /\ Cardinality(InBody(r, x)) \in Nat /\ Cardinality(InBody(r, x)') \in Nat
         /\ Cardinality(InBody(r, x)') + (IF t \in InBody(r, x) THEN 1 ELSE 0)
              = Cardinality(InBody(r, x)) + (IF t \in InBody(r, x)' THEN 1 ELSE 0)
<1>1. PICK B : B = InBody(r, x)'
  OBVIOUS
<1>2. /\ InBody(r, x) \in SUBSET Threads /\ B \in SUBSET Threads
      /\ \A u \in Threads : u # t => (u \in InBody(r, x) <=> u \in B)
  BY <1>1 DEF InBody
<1> QED
  BY <1>1, <1>2, SdkAssumption, OneMoves

\* The counters and the runs that the property adds up.
Matched(r, x) ==
  forgotten[r][x] + run[r].counts[x] = bodies[r][x] + unheard[r][x] + Cardinality(InBody(r, x))

LEMMA BodiesMatched == BodiesMatchCounts <=> \A r \in Runs, x \in Tools : Matched(r, x)
BY DEF BodiesMatchCounts, Matched, InBody

LEMMA BookTypes ==
  ASSUME Base, NEW r \in Runs, NEW x \in Tools
  PROVE  /\ forgotten[r][x] \in Nat /\ bodies[r][x] \in Nat /\ unheard[r][x] \in Nat
         /\ begun[r][x] \in Nat /\ run[r].counts[x] \in Nat
         /\ run[r].tokens \in Nat /\ run[r].stack \in Seq(Names) /\ run[r].history \in Seq(Tools)
         /\ told[r] \in Nat /\ faults \in Nat /\ restarts \in Nat
<1>1. /\ forgotten[r][x] \in Nat /\ bodies[r][x] \in Nat /\ unheard[r][x] \in Nat
      /\ begun[r][x] \in Nat
  BY DEF Base, InBooks, Tally
<1>2. told[r] \in Nat /\ faults \in Nat /\ restarts \in Nat
  BY SdkAssumption DEF Base, InBooks
<1>3. run[r] \in RunStates
  BY DEF Base, SdkTypeOK, TypeOK
<1>4. /\ run[r].counts[x] \in Nat
      /\ run[r].tokens \in Nat /\ run[r].stack \in Seq(Names) /\ run[r].history \in Seq(Tools)
  BY <1>3, TokenAssumption DEF RunStates
<1> QED
  BY <1>1, <1>2, <1>4

LEMMA BodiesQuiet ==
  ASSUME Base, NEW t \in Threads, \A u \in Threads : u # t => at'[u] = at[u] /\ hand'[u] = hand[u],
         at[t] # "body", at'[t] # "body", scope' = scope,
         NEW r \in Runs, NEW x \in Tools, Matched(r, x),
         UNCHANGED <<forgotten, bodies, unheard>>, run'[r].counts = run[r].counts
  PROVE  Matched(r, x)'
<1>1. PICK S, T : S = InBody(r, x) /\ T = InBody(r, x)'
  OBVIOUS
<1>2. t \notin S /\ t \notin T
  BY <1>1 DEF InBody
<1>3. Cardinality(T) = Cardinality(S)
  <2>1. /\ Cardinality(S) \in Nat /\ Cardinality(T) \in Nat
        /\ Cardinality(T) + (IF t \in S THEN 1 ELSE 0) = Cardinality(S) + (IF t \in T THEN 1 ELSE 0)
    BY <1>1, BodyMoves
  <2> QED
    BY <1>2, <2>1
<1> QED
  BY <1>1, <1>3 DEF Matched

\* Who is answered, and with what.
LEMMA HeardForm ==
  ASSUME Base, NEW c \in Clients, NEW answer, NEW st, Settles(c, answer, st),
         NEW t \in Threads, Heard(c, answer, t)
  PROVE  /\ at[t] \in Posting /\ RunOf(c) = scope[t] /\ Asked(c) = Request(t)
         /\ at[t] = "call" <=> Asked(c).op = "tool"
         /\ Onward(t, answer) = "body" <=> answer = "allowed"
         /\ at'[t] = Onward(t, answer) /\ hand'[t].slot = NoSlot
         /\ \A u \in Threads : u # t => at'[u] = at[u] /\ hand'[u] = hand[u]
<1>1. hand[t].slot = c /\ c # NoSlot /\ pc[c] # "idle"
  BY SdkAssumption DEF Heard, Settles
<1>2. at[t] \in Posting /\ RunOf(c) = scope[t] /\ Asked(c) = Request(t)
  BY <1>1 DEF Base, InSlots
<1>3. at[t] = "call" <=> Asked(c).op = "tool"
  BY <1>2, RequestForm
<1>4. answer = "allowed" => Asked(c).op = "tool"
  BY SettlesOutcome DEF Outcome
<1>5. Onward(t, answer) = "body" <=> answer = "allowed"
  BY <1>3, <1>4, OnwardPlaces
<1> QED
  BY <1>2, <1>3, <1>5 DEF Heard, Takes

LEMMA BodiesServe ==
  ASSUME Base, NEW c \in Clients, Serve(c), NEW r \in Runs, NEW x \in Tools, Matched(r, x)
  PROVE  Matched(r, x)'
<1>1. scope' = scope /\ forgotten' = forgotten /\ bodies' = bodies
  BY ServeForms DEF Serving
<1>2. CASE Ponders(c)
  <2>1. at' = at /\ hand' = hand /\ run' = run /\ unheard' = unheard
    BY <1>2 DEF Ponders
  <2>2. InBody(r, x)' = InBody(r, x)
    BY <1>1, <2>1 DEF InBody
  <2> QED
    BY <1>1, <2>1, <2>2 DEF Matched
<1>3. ASSUME NEW answer, NEW st, Settles(c, answer, st), NEW t \in Threads, Heard(c, answer, t)
      PROVE  Matched(r, x)'
  <2>1. /\ at[t] \in Posting /\ RunOf(c) = scope[t] /\ Asked(c) = Request(t)
        /\ at[t] = "call" <=> Asked(c).op = "tool"
        /\ Onward(t, answer) = "body" <=> answer = "allowed"
        /\ at'[t] = Onward(t, answer)
        /\ \A u \in Threads : u # t => at'[u] = at[u] /\ hand'[u] = hand[u]
    BY <1>3, HeardForm
  <2>2. at[t] # "body" /\ unheard' = unheard
    BY <1>3, <2>1 DEF Posting, Enforcing, BestEffort, Heard
  <2>3. /\ Outcome(Asked(c), answer, run[RunOf(c)], st)
        /\ run'[RunOf(c)] = st
        /\ r # RunOf(c) => run'[r] = run[r]
    BY <1>3, SettlesOutcome
  <2>4. CASE answer # "allowed"
    <3>1. run'[r].counts = run[r].counts
      BY <2>3, <2>4 DEF Outcome
    <3> QED
      BY <1>1, <2>1, <2>2, <2>4, <3>1, BodiesQuiet
  <2>5. CASE answer = "allowed"
    <3>1. PICK S, T : S = InBody(r, x) /\ T = InBody(r, x)'
      OBVIOUS
    <3>2. /\ Cardinality(S) \in Nat /\ Cardinality(T) \in Nat
          /\ Cardinality(T) + (IF t \in S THEN 1 ELSE 0) = Cardinality(S) + (IF t \in T THEN 1 ELSE 0)
      BY <1>1, <2>1, <3>1, BodyMoves
    <3>3. t \notin S
      BY <2>2, <3>1 DEF InBody
    <3>4. /\ Asked(c).op = "tool" /\ Asked(c).on = hand[t].on /\ Asked(c).on \in Tools
          /\ st.counts = [run[RunOf(c)].counts EXCEPT ![Asked(c).on] = @ + 1]
      BY <2>1, <2>3, <2>5, RequestForm DEF Outcome
    <3>5. at'[t] = "body" /\ hand'[t].on = hand[t].on
      BY <1>3, <2>1, <2>5 DEF Heard, Takes
    <3>6. t \in T <=> r = RunOf(c) /\ x = Asked(c).on
      BY <1>1, <2>1, <3>1, <3>4, <3>5 DEF InBody
    <3>7. run[r].counts \in [Tools -> Nat]
      BY DEF Base, SdkTypeOK, TypeOK, RunStates
    <3>8. run'[r].counts[x] = run[r].counts[x] + (IF t \in T THEN 1 ELSE 0)
      BY <2>3, <3>4, <3>6, <3>7
    <3>9. /\ forgotten[r][x] \in Nat /\ bodies[r][x] \in Nat /\ unheard[r][x] \in Nat
          /\ run[r].counts[x] \in Nat
      BY BookTypes
    <3> QED
      BY <1>1, <2>2, <3>1, <3>2, <3>3, <3>8, <3>9 DEF Matched
  <2> QED
    BY <2>4, <2>5
<1>4. ASSUME NEW answer, NEW st, Settles(c, answer, st), Unheeded(c, answer)
      PROVE  Matched(r, x)'
  <2>1. /\ Outcome(Asked(c), answer, run[RunOf(c)], st) /\ RunOf(c) \in Runs
        /\ run'[RunOf(c)] = st
        /\ r # RunOf(c) => run'[r] = run[r]
    BY <1>4, SettlesOutcome
  <2>2. InBody(r, x)' = InBody(r, x)
    BY <1>1, <1>4 DEF InBody, Unheeded
  <2>3. IsFiniteSet(InBody(r, x)) /\ Cardinality(InBody(r, x)) \in Nat
    BY SdkAssumption, FS_Subset, FS_CardinalityType DEF InBody
  <2>4. CASE answer # "allowed"
    <3>1. run'[r].counts = run[r].counts /\ unheard' = unheard
      BY <1>4, <2>1, <2>4 DEF Outcome, Unheeded
    <3> QED
      BY <1>1, <2>2, <3>1 DEF Matched
  <2>5. CASE answer = "allowed"
    <3>1. PICK s \in Runs, y \in Tools : s = RunOf(c) /\ y = Asked(c).on
      BY <2>1, <2>5 DEF Outcome
    <3>2. unheard' = [unheard EXCEPT ![s][y] = @ + 1] /\ unheard \in Tally
      BY <1>4, <2>5, <3>1 DEF Unheeded, Base, InBooks
    <3>3. unheard'[r][x] = unheard[r][x] + (IF r = s /\ x = y THEN 1 ELSE 0)
      <4>1. /\ unheard'[s][y] = unheard[s][y] + 1
            /\ unheard[r][x] \in Nat /\ (r # s \/ x # y => unheard'[r][x] = unheard[r][x])
        BY <3>2, TallyUp
      <4> QED
        BY <4>1
    <3>4. st.counts = [run[s].counts EXCEPT ![y] = @ + 1]
      BY <2>1, <2>5, <3>1 DEF Outcome
    <3>5. run[r].counts \in [Tools -> Nat]
      BY DEF Base, SdkTypeOK, TypeOK, RunStates
    <3>6. run'[r].counts[x] = run[r].counts[x] + (IF r = s /\ x = y THEN 1 ELSE 0)
      BY <2>1, <3>1, <3>4, <3>5
    <3>7. /\ forgotten[r][x] \in Nat /\ bodies[r][x] \in Nat /\ unheard[r][x] \in Nat
          /\ run[r].counts[x] \in Nat
      BY BookTypes
    <3> QED
      BY <1>1, <2>2, <2>3, <3>3, <3>6, <3>7 DEF Matched
  <2> QED
    BY <2>4, <2>5
<1> QED
  BY <1>2, <1>3, <1>4, ServeForms

LEMMA BodiesStep == Base /\ BodiesMatchCounts /\ [SdkNext]_<<vars, sdkVars>> => BodiesMatchCounts'
<1> SUFFICES ASSUME Base, \A r \in Runs, x \in Tools : Matched(r, x),
                    [SdkNext]_<<vars, sdkVars>>,
                    NEW r \in Runs, NEW x \in Tools
             PROVE  Matched(r, x)'
  BY DEF BodiesMatchCounts, Matched, InBody
<1>1. Matched(r, x)
  OBVIOUS
<1>2. IsFiniteSet(InBody(r, x)) /\ Cardinality(InBody(r, x)) \in Nat
  BY SdkAssumption, FS_Subset, FS_CardinalityType DEF InBody
<1>3. ASSUME NEW t \in Threads, CallTool(t) \/ EnterAgent(t) \/ LeaveAgent(t) \/ Tell(t)
      PROVE  Matched(r, x)'
  <2>1. /\ at[t] = "app" /\ UNCHANGED <<scope, run, forgotten, bodies, unheard>>
    BY <1>3 DEF CallTool, EnterAgent, LeaveAgent, Tell, vars, process, tallies, counted
  <2>2. \E p, h : p # "body" /\ Takes(t, p, h)
    BY <1>3, CallToolTakes, EnterAgentBase, LeaveAgentBase, TellBase
  <2>3. at'[t] # "body" /\ \A u \in Threads : u # t => at'[u] = at[u] /\ hand'[u] = hand[u]
    BY <2>2 DEF Takes
  <2> QED
    BY <1>1, <2>1, <2>3, BodiesQuiet
<1>4. ASSUME NEW t \in Threads, Once(t) \/ LoadEnds(t) \/ LoadFails(t)
                                  \/ Clear(t) \/ Break(t) \/ Clash(t)
      PROVE  Matched(r, x)'
  <2>1. /\ at[t] # "body" /\ UNCHANGED <<scope, run, forgotten, bodies, unheard>>
    BY <1>4, OnItsOwn DEF vars, tallies, counted
  <2>2. \E p, h : p # "body" /\ Takes(t, p, h)
    BY <1>4, OnItsOwn
  <2>3. at'[t] # "body" /\ \A u \in Threads : u # t => at'[u] = at[u] /\ hand'[u] = hand[u]
    BY <2>2 DEF Takes
  <2> QED
    BY <1>1, <2>1, <2>3, BodiesQuiet
<1>5. ASSUME NEW t \in Threads, RunBody(t)
      PROVE  Matched(r, x)'
  <2>1. /\ at[t] = "body" /\ UNCHANGED <<scope, run, forgotten, unheard>>
        /\ bodies' = [bodies EXCEPT ![scope[t]][hand[t].on] = @ + 1]
    BY <1>5 DEF RunBody, vars, process
  <2>2. at'[t] = "app" /\ \A u \in Threads : u # t => at'[u] = at[u] /\ hand'[u] = hand[u]
    BY <1>5, RunBodyBase DEF Takes
  <2>3. PICK s \in Runs, y \in Tools : s = scope[t] /\ y = hand[t].on
    BY <2>1 DEF Base, InPlace, OfTool, SdkTypeOK
  <2>4. bodies'[r][x] = bodies[r][x] + (IF r = s /\ x = y THEN 1 ELSE 0)
    <3>1. bodies' = [bodies EXCEPT ![s][y] = @ + 1] /\ bodies \in Tally
      BY <2>1, <2>3 DEF Base, InBooks
    <3>2. /\ bodies'[s][y] = bodies[s][y] + 1
          /\ bodies[r][x] \in Nat /\ (r # s \/ x # y => bodies'[r][x] = bodies[r][x])
      BY <3>1, TallyUp
    <3> QED
      BY <3>2
  <2>5. PICK S, T : S = InBody(r, x) /\ T = InBody(r, x)'
    OBVIOUS
  <2>6. /\ Cardinality(S) \in Nat /\ Cardinality(T) \in Nat
        /\ Cardinality(T) + (IF t \in S THEN 1 ELSE 0) = Cardinality(S) + (IF t \in T THEN 1 ELSE 0)
    BY <2>1, <2>2, <2>5, BodyMoves
  <2>7. t \notin T /\ (t \in S <=> r = s /\ x = y)
    BY <2>1, <2>2, <2>3, <2>5 DEF InBody
  <2>8. /\ forgotten[r][x] \in Nat /\ bodies[r][x] \in Nat /\ unheard[r][x] \in Nat
        /\ run[r].counts[x] \in Nat
    BY BookTypes
  <2> QED
    BY <1>1, <2>1, <2>4, <2>5, <2>6, <2>7, <2>8 DEF Matched
<1>6. ASSUME NEW t \in Threads, Quit(t)
      PROVE  Matched(r, x)'
  <2>1. /\ UNCHANGED <<run, forgotten, bodies>> /\ at' = [u \in Threads |-> "dead"]
        /\ unheard'[r][x] = unheard[r][x] + Cardinality(InBody(r, x))
    BY <1>6 DEF Quit, vars, InBody
  <2>2. InBody(r, x)' = {}
    BY <2>1 DEF InBody
  <2>3. Cardinality(InBody(r, x)') = 0
    BY <2>2, FS_EmptySet
  <2> QED
    BY <1>1, <1>2, <2>1, <2>3, BookTypes DEF Matched
<1>7. ASSUME NEW t \in Threads, Post(t)
      PROVE  Matched(r, x)'
  <2>1. PICK c \in Clients : Posts(t, c)
    BY <1>7, PostForm
  <2>2. /\ at[t] # "body" /\ at' = at /\ UNCHANGED <<scope, run, forgotten, bodies, unheard>>
        /\ \A u \in Threads : u # t => hand'[u] = hand[u]
    BY <2>1 DEF Posts, Posting, Enforcing, BestEffort, process, tallies, counted
  <2> QED
    BY <1>1, <2>2, BodiesQuiet
<1>8. ASSUME NEW t \in Threads, Status(t)
      PROVE  Matched(r, x)'
  <2>1. /\ at[t] = "status" /\ UNCHANGED <<scope, run, forgotten, bodies, unheard>>
        /\ \E h : Takes(t, "rules", h)
    BY <1>8, StatusForm DEF tallies, counted
  <2>2. at'[t] = "rules" /\ \A u \in Threads : u # t => at'[u] = at[u] /\ hand'[u] = hand[u]
    BY <2>1 DEF Takes
  <2> QED
    BY <1>1, <2>1, <2>2, BodiesQuiet
<1>9. ASSUME NEW t \in Threads, GivesUp(t)
      PROVE  Matched(r, x)'
  <2>1. UNCHANGED <<scope, run, forgotten, bodies, unheard>> /\ at[t] # "body"
    BY <1>9, GivesUpForms DEF vars, counted, Sending, Enforcing, BestEffort
  <2>2. at'[t] # "body" /\ \A u \in Threads : u # t => at'[u] = at[u] /\ hand'[u] = hand[u]
    <3>1. CASE Retried(t)
      BY <2>1, <3>1 DEF Retried
    <3>2. ASSUME NEW answer \in {"none", "refusal"}, Unanswered(t, answer)
          PROVE  at'[t] # "body" /\ \A u \in Threads : u # t => at'[u] = at[u] /\ hand'[u] = hand[u]
      BY <3>2, OnwardPlaces DEF Unanswered, Takes
    <3> QED
      BY <1>9, <3>1, <3>2, GivesUpForms
  <2> QED
    BY <1>1, <2>1, <2>2, BodiesQuiet
<1>10. ASSUME NEW c \in Clients, Serve(c)
       PROVE  Matched(r, x)'
  BY <1>1, <1>10, BodiesServe
<1>11. CASE Listen \/ Vanish \/ UNCHANGED <<vars, sdkVars>> \/ \E t \in Threads : LoadRule(t)
  <2>1. UNCHANGED <<at, hand, scope, run, forgotten, bodies, unheard>>
    BY <1>11 DEF Listen, Vanish, LoadRule, vars, sdkVars, process, tallies, counted
  <2>2. InBody(r, x)' = InBody(r, x)
    BY <2>1 DEF InBody
  <2> QED
    BY <1>1, <2>1, <2>2 DEF Matched
<1>12. CASE Restart
  <2>1. /\ UNCHANGED <<at, hand, scope, bodies, unheard>>
        /\ forgotten'[r][x] = forgotten[r][x] + run[r].counts[x] /\ run'[r].counts[x] = 0
    BY <1>12, RestartForm DEF counted
  <2>2. InBody(r, x)' = InBody(r, x)
    BY <2>1 DEF InBody
  <2> QED
    BY <1>1, <2>1, <2>2, BookTypes DEF Matched
<1> QED
  BY <1>3, <1>4, <1>5, <1>6, <1>7, <1>8, <1>9, <1>10, <1>11, <1>12, SdkSteps

\* The body of a tool runs once for each call the governor counted and for
\* nothing else, in any number of threads, runs and tools, through lost
\* answers, refusals, retries and restarts of the governor.
THEOREM BodiesAreCounted == SdkSpec => []BodiesMatchCounts
<1>1. SdkInit => BodiesMatchCounts
  <2> SUFFICES ASSUME SdkInit, NEW r \in Runs, NEW x \in Tools
               PROVE  Matched(r, x)
    BY BodiesMatched
  <2>1. InBody(r, x) = {}
    BY DEF SdkInit, InBody
  <2>2. Cardinality(InBody(r, x)) = 0
    BY <2>1, FS_EmptySet
  <2>3. run[r].counts[x] = 0
    BY InitialRuns DEF SdkInit
  <2> QED
    BY <2>2, <2>3 DEF SdkInit, Matched, Zero
<1>2. Base /\ BodiesMatchCounts /\ [SdkNext]_<<vars, sdkVars>> => BodiesMatchCounts'
  BY BodiesStep
<1> QED
  BY <1>1, <1>2, AlwaysBase, PTL DEF SdkSpec

-----------------------------------------------------------------------------
(* A call is counted once *)

\* The threads on their way to ask for tool x in run r, and the slots it is
\* asked for in.
Ahead(r, x) ==
  {t \in Threads :
     /\ scope[t] = r /\ hand[t].on = x
     /\ \/ at[t] \in {"once", "load", "declare", "status", "rules"}
        \/ at[t] = "call" /\ hand[t].slot = NoSlot}

Asking(r, x) ==
  {c \in Clients : pc[c] # "idle" /\ RunOf(c) = r /\ Asked(c).op = "tool" /\ Asked(c).on = x}

\* Each call begun is counted, asked for or on its way at most once.
Once1(r, x) ==
  forgotten[r][x] + run[r].counts[x] + Cardinality(Ahead(r, x)) + Cardinality(Asking(r, x))
    <= begun[r][x]

OnceInv == \A r \in Runs, x \in Tools : Once1(r, x)

LEMMA CountTypes ==
  /\ \A S \in SUBSET Threads : IsFiniteSet(S) /\ Cardinality(S) \in Nat
  /\ \A S \in SUBSET Clients : IsFiniteSet(S) /\ Cardinality(S) \in Nat
BY SdkAssumption, GovernorAssumption, FS_Subset, FS_CardinalityType

\* What one thread that moves does to a set of threads, and one slot to a set
\* of slots.
LEMMA ThreadMoves ==
  ASSUME NEW A \in SUBSET Threads, NEW B \in SUBSET Threads, NEW t,
         \A u \in Threads : u # t => (u \in A <=> u \in B)
  PROVE  /\ Cardinality(A) \in Nat /\ Cardinality(B) \in Nat
         /\ Cardinality(B) + (IF t \in A THEN 1 ELSE 0)
              = Cardinality(A) + (IF t \in B THEN 1 ELSE 0)
BY SdkAssumption, OneMoves

LEMMA SlotMoves ==
  ASSUME NEW A \in SUBSET Clients, NEW B \in SUBSET Clients, NEW c,
         \A d \in Clients : d # c => (d \in A <=> d \in B)
  PROVE  /\ Cardinality(A) \in Nat /\ Cardinality(B) \in Nat
         /\ Cardinality(B) + (IF c \in A THEN 1 ELSE 0)
              = Cardinality(A) + (IF c \in B THEN 1 ELSE 0)
BY GovernorAssumption, OneMoves

LEMMA AheadMoves ==
  ASSUME NEW t \in Threads, \A u \in Threads : u # t => at'[u] = at[u] /\ hand'[u] = hand[u],
         scope' = scope, NEW r, NEW x, NEW A, NEW B, A = Ahead(r, x), B = Ahead(r, x)'
  PROVE  /\ Cardinality(A) \in Nat /\ Cardinality(B) \in Nat
         /\ Cardinality(B) + (IF t \in A THEN 1 ELSE 0)
              = Cardinality(A) + (IF t \in B THEN 1 ELSE 0)
<1>1. /\ A \in SUBSET Threads /\ B \in SUBSET Threads
      /\ \A u \in Threads : u # t => (u \in A <=> u \in B)
  BY DEF Ahead
<1> QED
  BY <1>1, ThreadMoves

\* Thread t moves, and not to where more calls are ahead.
LEMMA OnceQuiet ==
  ASSUME Base, NEW t \in Threads, \A u \in Threads : u # t => at'[u] = at[u] /\ hand'[u] = hand[u],
         scope' = scope, NEW r \in Runs, NEW x \in Tools, Once1(r, x),
         t \in Ahead(r, x)' => t \in Ahead(r, x),
         UNCHANGED <<forgotten, begun>>, run'[r].counts = run[r].counts,
         Asking(r, x)' = Asking(r, x)
  PROVE  Once1(r, x)'
<1>1. PICK A, B : A = Ahead(r, x) /\ B = Ahead(r, x)'
  OBVIOUS
<1>2. Cardinality(A) \in Nat /\ Cardinality(B) \in Nat /\ Cardinality(B) <= Cardinality(A)
  <2>1. /\ Cardinality(A) \in Nat /\ Cardinality(B) \in Nat
        /\ Cardinality(B) + (IF t \in A THEN 1 ELSE 0) = Cardinality(A) + (IF t \in B THEN 1 ELSE 0)
    BY <1>1, AheadMoves
  <2> QED
    BY <1>1, <2>1
<1>3. PICK n \in Nat : n = Cardinality(Asking(r, x))
  BY CountTypes DEF Asking
<1>4. forgotten[r][x] \in Nat /\ run[r].counts[x] \in Nat /\ begun[r][x] \in Nat
  BY BookTypes
<1>5. forgotten[r][x] + run[r].counts[x] + Cardinality(A) + n <= begun[r][x]
  BY <1>1, <1>3 DEF Once1
<1>6. forgotten[r][x] + run[r].counts[x] + Cardinality(B) + n <= begun[r][x]
  BY <1>2, <1>4, <1>5
<1>7. forgotten'[r][x] + run'[r].counts[x] + Cardinality(B) + n <= begun'[r][x]
  BY <1>6
<1> QED
  BY <1>1, <1>3, <1>7 DEF Once1

LEMMA AskingSame ==
  ASSUME UNCHANGED <<pc, call>>, NEW r, NEW x
  PROVE  Asking(r, x)' = Asking(r, x)
BY DEF Asking, RunOf, Asked

LEMMA OnceBegins ==
  ASSUME Base, NEW t \in Threads, CallTool(t), NEW r \in Runs, NEW x \in Tools, Once1(r, x)
  PROVE  Once1(r, x)'
<1>1. PICK y \in Tools, p \in {"once", "status", "load"}, h \in Locals :
        /\ begun' = [begun EXCEPT ![scope[t]][y] = @ + 1]
        /\ h.on = y /\ Takes(t, p, h)
  BY CallToolTakes
<1>2. /\ UNCHANGED <<scope, run, pc, call, forgotten>> /\ at[t] = "app" /\ scope[t] \in Runs
  BY DEF CallTool, vars, Base, SdkTypeOK
<1>3. /\ \A u \in Threads : u # t => at'[u] = at[u] /\ hand'[u] = hand[u]
      /\ at'[t] = p /\ hand'[t].on = y
  BY <1>1 DEF Takes
<1>4. PICK s \in Runs : s = scope[t]
  BY <1>2
<1>5. PICK A, B : A = Ahead(r, x) /\ B = Ahead(r, x)'
  OBVIOUS
<1>6. /\ Cardinality(A) \in Nat /\ Cardinality(B) \in Nat
      /\ Cardinality(B) + (IF t \in A THEN 1 ELSE 0) = Cardinality(A) + (IF t \in B THEN 1 ELSE 0)
  BY <1>2, <1>3, <1>5, AheadMoves
<1>7. t \notin A /\ (t \in B <=> r = s /\ x = y)
  BY <1>2, <1>3, <1>4, <1>5 DEF Ahead
<1>8. begun'[r][x] = begun[r][x] + (IF r = s /\ x = y THEN 1 ELSE 0)
  <2>1. begun' = [begun EXCEPT ![s][y] = @ + 1] /\ begun \in Tally
    BY <1>1, <1>4 DEF Base, InBooks
  <2>2. /\ begun'[s][y] = begun[s][y] + 1
        /\ begun[r][x] \in Nat /\ (r # s \/ x # y => begun'[r][x] = begun[r][x])
    BY <2>1, TallyUp
  <2> QED
    BY <2>2
<1>9. PICK n \in Nat : n = Cardinality(Asking(r, x)) /\ n = Cardinality(Asking(r, x)')
  <2>1. Asking(r, x)' = Asking(r, x)
    BY <1>2, AskingSame
  <2> QED
    BY <2>1, CountTypes DEF Asking
<1>10. forgotten[r][x] \in Nat /\ run[r].counts[x] \in Nat /\ begun[r][x] \in Nat
  BY BookTypes
<1>11. forgotten[r][x] + run[r].counts[x] + Cardinality(A) + n <= begun[r][x]
  BY <1>5, <1>9 DEF Once1
<1>12. forgotten[r][x] + run[r].counts[x] + Cardinality(B) + n
         <= begun[r][x] + (IF r = s /\ x = y THEN 1 ELSE 0)
  BY <1>6, <1>7, <1>10, <1>11
<1> QED
  BY <1>2, <1>5, <1>8, <1>9, <1>12 DEF Once1

LEMMA OncePosts ==
  ASSUME Base, NEW t \in Threads, Post(t), NEW r \in Runs, NEW x \in Tools, Once1(r, x)
  PROVE  Once1(r, x)'
<1>1. PICK c \in Clients : Posts(t, c)
  BY PostForm
<1>2. /\ at' = at /\ UNCHANGED <<scope, run, forgotten, begun>>
      /\ \A u \in Threads : u # t => hand'[u] = hand[u]
      /\ hand'[t].on = hand[t].on /\ hand'[t].slot = c /\ hand[t].slot = NoSlot
      /\ at[t] \in Posting
      /\ pc[c] = "idle" /\ pc'[c] # "idle" /\ call'[c].run = scope[t] /\ call'[c].q = Request(t)
      /\ \A d \in Clients : d # c => pc'[d] = pc[d] /\ call'[d] = call[d]
  BY <1>1 DEF Posts, process, tallies, counted
<1>3. /\ Request(t).op = "tool" <=> at[t] = "call"
      /\ at[t] = "call" => Request(t).on = hand[t].on
  BY <1>2, RequestForm
<1>4. PICK A, B : A = Ahead(r, x) /\ B = Ahead(r, x)'
  OBVIOUS
<1>5. /\ Cardinality(A) \in Nat /\ Cardinality(B) \in Nat
      /\ Cardinality(B) + (IF t \in A THEN 1 ELSE 0) = Cardinality(A) + (IF t \in B THEN 1 ELSE 0)
  BY <1>2, <1>4, AheadMoves
<1>6. PICK C, D : C = Asking(r, x) /\ D = Asking(r, x)'
  OBVIOUS
<1>7. /\ Cardinality(C) \in Nat /\ Cardinality(D) \in Nat
      /\ Cardinality(D) + (IF c \in C THEN 1 ELSE 0) = Cardinality(C) + (IF c \in D THEN 1 ELSE 0)
  <2>1. /\ C \in SUBSET Clients /\ D \in SUBSET Clients
        /\ \A d \in Clients : d # c => (d \in C <=> d \in D)
    BY <1>2, <1>6 DEF Asking, RunOf, Asked
  <2> QED
    BY <2>1, SlotMoves
<1>8. c \notin C /\ (c \in D <=> at[t] = "call" /\ scope[t] = r /\ hand[t].on = x)
  BY <1>2, <1>3, <1>6 DEF Asking, RunOf, Asked
<1>9. CASE at[t] = "call"
  <2>1. c # NoSlot
    BY SdkAssumption
  <2>2. t \notin B /\ (t \in A <=> c \in D)
    BY <1>2, <1>4, <1>8, <1>9, <2>1 DEF Ahead
  <2>3. Cardinality(B) + Cardinality(D) = Cardinality(A) + Cardinality(C)
    BY <1>5, <1>7, <1>8, <2>2
  <2>4. forgotten[r][x] \in Nat /\ run[r].counts[x] \in Nat /\ begun[r][x] \in Nat
    BY BookTypes
  <2>5. forgotten[r][x] + run[r].counts[x] + Cardinality(A) + Cardinality(C) <= begun[r][x]
    BY <1>4, <1>6 DEF Once1
  <2>6. forgotten[r][x] + run[r].counts[x] + Cardinality(B) + Cardinality(D) <= begun[r][x]
    BY <1>5, <1>7, <2>3, <2>4, <2>5
  <2> QED
    BY <1>2, <1>4, <1>6, <2>6 DEF Once1
<1>10. CASE at[t] # "call"
  <2>1. t \in B => t \in A
    BY <1>2, <1>4, <1>10 DEF Ahead
  <2>2. C = D
    BY <1>2, <1>6, <1>8, <1>10 DEF Asking, RunOf, Asked
  <2> QED
    BY <1>2, <1>4, <1>6, <2>1, <2>2, OnceQuiet
<1> QED
  BY <1>9, <1>10

LEMMA OnceServe ==
  ASSUME Base, NEW c \in Clients, Serve(c), NEW r \in Runs, NEW x \in Tools, Once1(r, x)
  PROVE  Once1(r, x)'
<1>1. UNCHANGED <<scope, forgotten, begun>>
  BY ServeForms DEF Serving
<1>2. CASE Ponders(c)
  <2>1. /\ at' = at /\ hand' = hand /\ run' = run /\ call' = call
        /\ pc[c] # "idle" /\ pc'[c] # "idle" /\ \A d \in Clients : d # c => pc'[d] = pc[d]
    BY <1>2 DEF Ponders
  <2>2. Ahead(r, x)' = Ahead(r, x)
    BY <1>1, <2>1 DEF Ahead
  <2>3. Asking(r, x)' = Asking(r, x)
    <3>1. \A d \in Clients : pc'[d] # "idle" <=> pc[d] # "idle"
      BY <2>1
    <3> QED
      BY <2>1, <3>1 DEF Asking, RunOf, Asked
  <2> QED
    BY <1>1, <2>1, <2>2, <2>3 DEF Once1
<1>3. ASSUME NEW answer, NEW st, Settles(c, answer, st),
             Cardinality(Ahead(r, x)') <= Cardinality(Ahead(r, x))
      PROVE  Once1(r, x)'
  <2>1. /\ Outcome(Asked(c), answer, run[RunOf(c)], st)
        /\ run'[RunOf(c)] = st
        /\ r # RunOf(c) => run'[r] = run[r]
    BY <1>3, SettlesOutcome
  <2>2. /\ pc[c] # "idle" /\ pc'[c] = "idle"
        /\ \A d \in Clients : d # c => pc'[d] = pc[d] /\ call'[d] = call[d]
    BY <1>3, AnsweredSlots DEF Settles
  <2>3. PICK C, D : C = Asking(r, x) /\ D = Asking(r, x)'
    OBVIOUS
  <2>4. /\ Cardinality(C) \in Nat /\ Cardinality(D) \in Nat
        /\ Cardinality(D) + (IF c \in C THEN 1 ELSE 0) = Cardinality(C) + (IF c \in D THEN 1 ELSE 0)
    <3>1. /\ C \in SUBSET Clients /\ D \in SUBSET Clients
          /\ \A d \in Clients : d # c => (d \in C <=> d \in D)
      BY <2>2, <2>3 DEF Asking, RunOf, Asked
    <3> QED
      BY <3>1, SlotMoves
  <2>5. c \notin D
    BY <2>2, <2>3 DEF Asking
  <2>6. run'[r].counts[x] <= run[r].counts[x] + (IF c \in C THEN 1 ELSE 0)
        /\ run'[r].counts[x] \in Nat
    <3>1. run[r].counts \in [Tools -> Nat]
      BY DEF Base, SdkTypeOK, TypeOK, RunStates
    <3>2. CASE answer = "allowed" /\ r = RunOf(c) /\ x = Asked(c).on
      <4>1. run'[r].counts[x] = run[r].counts[x] + 1 /\ c \in C
        BY <2>1, <2>2, <2>3, <3>1, <3>2 DEF Outcome, Asking
      <4> QED
        BY <3>1, <4>1
    <3>3. CASE ~(answer = "allowed" /\ r = RunOf(c) /\ x = Asked(c).on)
      <4>1. run'[r].counts[x] = run[r].counts[x]
        BY <2>1, <3>1, <3>3 DEF Outcome
      <4> QED
        BY <3>1, <4>1
    <3> QED
      BY <3>2, <3>3
  <2>7. PICK m, n : m = Cardinality(Ahead(r, x)) /\ n = Cardinality(Ahead(r, x)')
    OBVIOUS
  <2>8. m \in Nat /\ n \in Nat /\ n <= m
    <3>1. Ahead(r, x) \in SUBSET Threads
      BY DEF Ahead
    <3>2. PICK B \in SUBSET Threads : B = Ahead(r, x)'
      BY DEF Ahead
    <3> QED
      BY <1>3, <2>7, <3>1, <3>2, CountTypes
  <2>9. forgotten[r][x] \in Nat /\ run[r].counts[x] \in Nat /\ begun[r][x] \in Nat
    BY BookTypes
  <2>10. forgotten[r][x] + run[r].counts[x] + m + Cardinality(C) <= begun[r][x]
    BY <2>3, <2>7 DEF Once1
  <2>11. forgotten[r][x] + run'[r].counts[x] + n + Cardinality(D) <= begun[r][x]
    BY <2>4, <2>5, <2>6, <2>8, <2>9, <2>10
  <2> QED
    BY <1>1, <2>3, <2>7, <2>11 DEF Once1
<1>4. ASSUME NEW answer, NEW st, Settles(c, answer, st), NEW t \in Threads, Heard(c, answer, t)
      PROVE  Cardinality(Ahead(r, x)') <= Cardinality(Ahead(r, x))
  <2>1. /\ at[t] \in Posting /\ at'[t] = Onward(t, answer)
        /\ \A u \in Threads : u # t => at'[u] = at[u] /\ hand'[u] = hand[u]
    BY <1>4, HeardForm
  <2>2. PICK A, B : A = Ahead(r, x) /\ B = Ahead(r, x)'
    OBVIOUS
  <2>3. /\ Cardinality(A) \in Nat /\ Cardinality(B) \in Nat
        /\ Cardinality(B) + (IF t \in A THEN 1 ELSE 0) = Cardinality(A) + (IF t \in B THEN 1 ELSE 0)
    BY <1>1, <2>1, <2>2, AheadMoves
  <2>4. t \in B => t \in A
    <3>1. t \in B => Onward(t, answer) = "status" /\ at[t] = "declare"
      BY <2>1, <2>2, OnwardPlaces DEF Ahead
    <3>2. Onward(t, answer) = "status" => hand'[t].on = hand[t].on
      BY <1>4 DEF Heard, Takes
    <3> QED
      BY <1>1, <2>2, <3>1, <3>2 DEF Ahead
  <2> QED
    BY <2>2, <2>3, <2>4
<1>5. ASSUME NEW answer, Unheeded(c, answer)
      PROVE  Cardinality(Ahead(r, x)') <= Cardinality(Ahead(r, x))
  <2>1. Ahead(r, x)' = Ahead(r, x)
    BY <1>1, <1>5 DEF Ahead, Unheeded
  <2>2. Cardinality(Ahead(r, x)) \in Nat
    BY CountTypes DEF Ahead
  <2> QED
    BY <2>1, <2>2
<1> QED
  BY <1>2, <1>3, <1>4, <1>5, ServeForms

LEMMA OnceStep == Base /\ OnceInv /\ [SdkNext]_<<vars, sdkVars>> => OnceInv'
<1> SUFFICES ASSUME Base, OnceInv, [SdkNext]_<<vars, sdkVars>>,
                    NEW r \in Runs, NEW x \in Tools
             PROVE  Once1(r, x)'
  BY DEF OnceInv
<1>1. Once1(r, x)
  BY DEF OnceInv
<1>2. forgotten[r][x] \in Nat /\ run[r].counts[x] \in Nat /\ begun[r][x] \in Nat
  BY BookTypes
<1>3. Cardinality(Ahead(r, x)) \in Nat /\ Cardinality(Asking(r, x)) \in Nat
  BY CountTypes DEF Ahead, Asking
<1>4. ASSUME NEW t \in Threads, EnterAgent(t) \/ LeaveAgent(t) \/ Tell(t) \/ RunBody(t)
      PROVE  Once1(r, x)'
  <2>1. UNCHANGED <<scope, run, pc, call, forgotten, begun>>
    BY <1>4 DEF EnterAgent, LeaveAgent, Tell, RunBody, vars, process, tallies, counted
  <2>2. \E p \in {"enter", "exit", "tell", "app"} : \E h : Takes(t, p, h)
    BY <1>4, EnterAgentBase, LeaveAgentBase, TellBase, RunBodyBase
  <2>3. t \notin Ahead(r, x)' /\ \A u \in Threads : u # t => at'[u] = at[u] /\ hand'[u] = hand[u]
    BY <2>2 DEF Takes, Ahead
  <2> QED
    BY <1>1, <2>1, <2>3, OnceQuiet, AskingSame
<1>5. ASSUME NEW t \in Threads, Once(t) \/ LoadEnds(t) \/ LoadFails(t)
                                  \/ Clear(t) \/ Break(t) \/ Clash(t)
      PROVE  Once1(r, x)'
  <2>1. UNCHANGED <<scope, run, pc, call, forgotten, begun>> /\ at[t] \in {"once", "load", "rules"}
    BY <1>5, OnItsOwn DEF vars, tallies, counted
  <2>2. PICK p \in {"app", "status", "declare", "call", "refuse"} : Takes(t, p, hand[t])
    BY <1>5, OnItsOwn
  <2>3. \A u \in Threads : u # t => at'[u] = at[u] /\ hand'[u] = hand[u]
    BY <2>2 DEF Takes
  <2>4. t \in Ahead(r, x)' => t \in Ahead(r, x)
    BY <2>1, <2>2 DEF Takes, Ahead
  <2> QED
    BY <1>1, <2>1, <2>3, <2>4, OnceQuiet, AskingSame
<1>6. ASSUME NEW t \in Threads, Quit(t)
      PROVE  Once1(r, x)'
  <2>1. UNCHANGED <<run, pc, call, forgotten, begun>> /\ at' = [u \in Threads |-> "dead"]
    BY <1>6 DEF Quit, vars
  <2>2. Ahead(r, x)' = {}
    BY <2>1 DEF Ahead
  <2>3. Cardinality(Ahead(r, x)') = 0 /\ Asking(r, x)' = Asking(r, x)
    BY <2>1, <2>2, FS_EmptySet, AskingSame
  <2>4. forgotten[r][x] + run[r].counts[x] + 0 + Cardinality(Asking(r, x)) <= begun[r][x]
    BY <1>1, <1>2, <1>3 DEF Once1
  <2> QED
    BY <2>1, <2>3, <2>4 DEF Once1
<1>7. ASSUME NEW t \in Threads, Status(t)
      PROVE  Once1(r, x)'
  <2>1. /\ at[t] = "status" /\ UNCHANGED <<scope, run, pc, call, forgotten, begun>>
        /\ \E h : h.on = hand[t].on /\ Takes(t, "rules", h)
    BY <1>7, StatusForm DEF tallies, counted
  <2>2. \A u \in Threads : u # t => at'[u] = at[u] /\ hand'[u] = hand[u]
    BY <2>1 DEF Takes
  <2>3. t \in Ahead(r, x)' => t \in Ahead(r, x)
    BY <2>1 DEF Takes, Ahead
  <2> QED
    BY <1>1, <2>1, <2>2, <2>3, OnceQuiet, AskingSame
<1>8. ASSUME NEW t \in Threads, GivesUp(t)
      PROVE  Once1(r, x)'
  <2>1. UNCHANGED <<scope, run, pc, call, forgotten, begun>>
    BY <1>8, GivesUpForms DEF vars, counted
  <2>2. CASE Retried(t)
    <3>1. \A u \in Threads : u # t => at'[u] = at[u] /\ hand'[u] = hand[u]
      BY <2>2 DEF Retried
    <3>2. t \in Ahead(r, x)' => t \in Ahead(r, x)
      BY <2>1, <2>2 DEF Retried, Ahead
    <3> QED
      BY <1>1, <2>1, <3>1, <3>2, OnceQuiet, AskingSame
  <2>3. ASSUME NEW answer \in {"none", "refusal"}, Unanswered(t, answer)
        PROVE  Once1(r, x)'
    <3>1. Takes(t, Onward(t, answer), hand[t])
      BY <2>3 DEF Unanswered
    <3>2. \A u \in Threads : u # t => at'[u] = at[u] /\ hand'[u] = hand[u]
      BY <3>1 DEF Takes
    <3>3. t \in Ahead(r, x)' => t \in Ahead(r, x)
      <4>1. t \in Ahead(r, x)' => Onward(t, answer) = "status" /\ at[t] = "declare"
        BY <3>1, OnwardPlaces DEF Takes, Ahead
      <4>2. Onward(t, answer) = "status" => hand'[t].on = hand[t].on
        BY <3>1 DEF Takes
      <4> QED
        BY <2>1, <4>1, <4>2 DEF Ahead
    <3> QED
      BY <1>1, <2>1, <3>2, <3>3, OnceQuiet, AskingSame
  <2> QED
    BY <1>8, <2>2, <2>3, GivesUpForms
<1>9. CASE Listen \/ UNCHANGED <<vars, sdkVars>> \/ \E t \in Threads : LoadRule(t)
  <2>1. UNCHANGED <<at, hand, scope, run, pc, call, forgotten, begun>>
    BY <1>9 DEF Listen, LoadRule, vars, sdkVars, process, tallies, counted
  <2>2. Ahead(r, x)' = Ahead(r, x) /\ Asking(r, x)' = Asking(r, x)
    BY <2>1, AskingSame DEF Ahead
  <2> QED
    BY <1>1, <2>1, <2>2 DEF Once1
<1>10. CASE Vanish
  <2>1. UNCHANGED <<at, hand, scope, run, forgotten, begun>> /\ pc' = [c \in Clients |-> "idle"]
    BY <1>10 DEF Vanish, tallies, counted
  <2>2. Ahead(r, x)' = Ahead(r, x) /\ Asking(r, x)' = {}
    BY <2>1 DEF Ahead, Asking
  <2>3. Cardinality(Asking(r, x)') = 0
    BY <2>2, FS_EmptySet
  <2>4. forgotten[r][x] + run[r].counts[x] + Cardinality(Ahead(r, x)) + 0 <= begun[r][x]
    BY <1>1, <1>2, <1>3 DEF Once1
  <2> QED
    BY <2>1, <2>2, <2>3, <2>4 DEF Once1
<1>11. CASE Restart
  <2>1. /\ UNCHANGED <<at, hand, scope, pc, call, begun>>
        /\ forgotten'[r][x] = forgotten[r][x] + run[r].counts[x] /\ run'[r].counts[x] = 0
    BY <1>11, RestartForm DEF counted
  <2>2. Ahead(r, x)' = Ahead(r, x) /\ Asking(r, x)' = Asking(r, x)
    BY <2>1, AskingSame DEF Ahead
  <2> QED
    BY <1>1, <1>2, <1>3, <2>1, <2>2 DEF Once1
<1>12. ASSUME NEW t \in Threads, CallTool(t) \/ Post(t)
       PROVE  Once1(r, x)'
  BY <1>1, <1>12, OnceBegins, OncePosts
<1>13. ASSUME NEW c \in Clients, Serve(c)
       PROVE  Once1(r, x)'
  BY <1>1, <1>13, OnceServe
<1> QED
  BY <1>4, <1>5, <1>6, <1>7, <1>8, <1>9, <1>10, <1>11, <1>12, <1>13, SdkSteps

LEMMA OnceInit == SdkInit => OnceInv
<1> SUFFICES ASSUME SdkInit, NEW r \in Runs, NEW x \in Tools
             PROVE  Once1(r, x)
  BY DEF OnceInv
<1>1. Ahead(r, x) = {} /\ Asking(r, x) = {}
  BY DEF SdkInit, Init, Ahead, Asking
<1>2. Cardinality(Ahead(r, x)) = 0 /\ Cardinality(Asking(r, x)) = 0
  BY <1>1, FS_EmptySet
<1>3. run[r].counts[x] = 0
  BY InitialRuns DEF SdkInit
<1> QED
  BY <1>2, <1>3 DEF SdkInit, Once1, Zero

LEMMA OnceCounted == Base /\ OnceInv => CountedOnce
<1> SUFFICES ASSUME Base, OnceInv, NEW r \in Runs, NEW x \in Tools
             PROVE  forgotten[r][x] + run[r].counts[x] <= begun[r][x]
  BY DEF CountedOnce
<1>1. Once1(r, x)
  BY DEF OnceInv
<1>2. Cardinality(Ahead(r, x)) \in Nat /\ Cardinality(Asking(r, x)) \in Nat
  BY CountTypes DEF Ahead, Asking
<1> QED
  BY <1>1, <1>2, BookTypes DEF Once1

-----------------------------------------------------------------------------
(* The tokens of a run *)

\* Thread t waits for a request that is still in flight.
Live(t) == hand[t].slot # NoSlot /\ pc[hand[t].slot] # "idle"

\* The threads that have yet to send the report of an LLM call of run r, and
\* the slots the reports are in.
Telling(r) == {t \in Threads : at[t] = "tell" /\ scope[t] = r /\ ~Live(t)}

Paying(r) == {c \in Clients : pc[c] # "idle" /\ RunOf(c) = r /\ Asked(c).op = "usage"}

\* How many reports of run r may be made.
Granted(r) == told[r] + (IF sdk = "rust" THEN faults ELSE 0)

Paid(r) ==
  run[r].tokens + Spent * (Cardinality(Telling(r)) + Cardinality(Paying(r)))
    <= Spent * Granted(r)

UsageInv == \A r \in Runs : Paid(r)

LEMMA Bills ==
  ASSUME NEW a \in Nat, NEW b \in Nat, NEW j \in Nat, NEW k \in Nat, NEW d \in Nat,
         NEW m \in Nat, NEW n \in Nat, NEW s \in Nat,
         a + s * j <= s * m, b <= a + s * d, k + d + m <= j + n
  PROVE  b + s * k <= s * n
<1>1. PICK e \in Nat : j + n = k + d + m + e
  <2>1. j + n - (k + d + m) \in Nat
    OBVIOUS
  <2> QED
    BY <2>1
<1>2. s * (j + n) = s * j + s * n
  OBVIOUS
<1>3. s * (k + d + m + e) = s * k + s * d + s * m + s * e
  OBVIOUS
<1>4. s * j + s * n = s * k + s * d + s * m + s * e
  BY <1>1, <1>2, <1>3
<1>5. /\ s * j \in Nat /\ s * n \in Nat /\ s * k \in Nat /\ s * d \in Nat
      /\ s * m \in Nat /\ s * e \in Nat
  OBVIOUS
<1> QED
  BY <1>4, <1>5

LEMMA UsageTypes ==
  ASSUME Base, NEW r \in Runs
  PROVE  /\ Granted(r) \in Nat /\ run[r].tokens \in Nat /\ Spent \in Nat
         /\ Telling(r) \in SUBSET Threads /\ Paying(r) \in SUBSET Clients
         /\ Cardinality(Telling(r)) \in Nat /\ Cardinality(Paying(r)) \in Nat
<1>1. run[r] \in RunStates /\ told[r] \in Nat /\ faults \in Nat
  BY SdkAssumption DEF Base, SdkTypeOK, TypeOK, InBooks
<1>2. run[r].tokens \in Nat
  BY <1>1, TokenAssumption DEF RunStates
<1>3. Telling(r) \in SUBSET Threads /\ Paying(r) \in SUBSET Clients
  BY DEF Telling, Paying
<1> QED
  BY <1>1, <1>2, <1>3, SdkAssumption, CountTypes DEF Granted

\* A step that adds d reports to the tokens and to the ones still to come no
\* more than it takes away or grants.
LEMMA PaidStep ==
  ASSUME Base, Base', NEW r \in Runs, Paid(r), NEW d \in Nat,
         run'[r].tokens <= run[r].tokens + Spent * d,
         Cardinality(Telling(r)') + Cardinality(Paying(r)') + d + Granted(r)
           <= Cardinality(Telling(r)) + Cardinality(Paying(r)) + Granted(r)'
  PROVE  Paid(r)'
<1>1. PICK A, B : A = Telling(r)' /\ B = Paying(r)'
  OBVIOUS
<1>2. Cardinality(A) \in Nat /\ Cardinality(B) \in Nat
  <2>1. A \in SUBSET Threads /\ B \in SUBSET Clients
    BY <1>1 DEF Telling, Paying
  <2> QED
    BY <2>1, CountTypes
<1>3. PICK a \in Nat, b \in Nat : a = run[r].tokens /\ b = run'[r].tokens
  <2>1. run[r] \in RunStates /\ run'[r] \in RunStates
    BY DEF Base, SdkTypeOK, TypeOK
  <2> QED
    BY <2>1, TokenAssumption DEF RunStates
<1>4. PICK m \in Nat, n \in Nat : m = Granted(r) /\ n = Granted(r)'
  BY SdkAssumption DEF Base, InBooks, Granted
<1>5. PICK j \in Nat : j = Cardinality(Telling(r)) + Cardinality(Paying(r))
  BY UsageTypes
<1>6. PICK k \in Nat : k = Cardinality(A) + Cardinality(B)
  BY <1>2
<1>7. a + Spent * j <= Spent * m
  BY <1>3, <1>4, <1>5 DEF Paid
<1>8. b <= a + Spent * d /\ k + d + m <= j + n
  BY <1>1, <1>2, <1>3, <1>4, <1>5, <1>6
<1>9. b + Spent * k <= Spent * n
  BY <1>7, <1>8, SdkAssumption, Bills
<1> QED
  BY <1>1, <1>3, <1>4, <1>6, <1>9 DEF Paid

\* What one thread that moves does to the threads that tell, when no other
\* thread's request comes or goes.
LEMMA TellingMoves ==
  ASSUME NEW t \in Threads, \A u \in Threads : u # t => at'[u] = at[u] /\ hand'[u] = hand[u],
         \A u \in Threads : u # t /\ hand[u].slot # NoSlot =>
            (pc'[hand[u].slot] = "idle" <=> pc[hand[u].slot] = "idle"),
         scope' = scope, NEW r, NEW A, NEW B, A = Telling(r), B = Telling(r)'
  PROVE  /\ Cardinality(A) \in Nat /\ Cardinality(B) \in Nat
         /\ Cardinality(B) + (IF t \in A THEN 1 ELSE 0)
              = Cardinality(A) + (IF t \in B THEN 1 ELSE 0)
<1>1. /\ A \in SUBSET Threads /\ B \in SUBSET Threads
      /\ \A u \in Threads : u # t => (u \in A <=> u \in B)
  BY DEF Telling, Live
<1> QED
  BY <1>1, ThreadMoves

\* Thread t moves, and not to where more reports are still to come.
LEMMA UsageQuiet ==
  ASSUME Base, Base', NEW t \in Threads,
         \A u \in Threads : u # t => at'[u] = at[u] /\ hand'[u] = hand[u],
         UNCHANGED <<pc, call, scope>>, NEW r \in Runs, Paid(r),
         t \in Telling(r)' /\ t \notin Telling(r) => Granted(r)' >= Granted(r) + 1,
         Granted(r)' >= Granted(r), run'[r].tokens = run[r].tokens
  PROVE  Paid(r)'
<1>1. PICK A, B : A = Telling(r) /\ B = Telling(r)'
  OBVIOUS
<1>2. /\ Cardinality(A) \in Nat /\ Cardinality(B) \in Nat
      /\ Cardinality(B) + (IF t \in A THEN 1 ELSE 0) = Cardinality(A) + (IF t \in B THEN 1 ELSE 0)
  BY <1>1, TellingMoves
<1>3. PICK C : C = Paying(r) /\ C = Paying(r)'
  BY DEF Paying, RunOf, Asked
<1>4. PICK m \in Nat, n \in Nat : m = Granted(r) /\ n = Granted(r)'
  BY SdkAssumption DEF Base, InBooks, Granted
<1>5. Cardinality(C) \in Nat
  BY <1>3, UsageTypes
<1>6. Cardinality(B) + Cardinality(C) + 0 + m <= Cardinality(A) + Cardinality(C) + n
  BY <1>1, <1>2, <1>4, <1>5
<1>7. run'[r].tokens <= run[r].tokens + Spent * 0
  BY UsageTypes
<1> QED
  BY <1>1, <1>3, <1>4, <1>6, <1>7, PaidStep

LEMMA UsageServe ==
  ASSUME Base, Base', NEW c \in Clients, Serve(c), NEW r \in Runs, Paid(r)
  PROVE  Paid(r)'
<1>1. UNCHANGED <<scope, told, faults, sdk>>
  BY ServeForms DEF Serving
<1>2. CASE Ponders(c)
  <2>1. /\ at' = at /\ hand' = hand /\ run' = run /\ call' = call
        /\ \A d \in Clients : pc'[d] # "idle" <=> pc[d] # "idle"
    BY <1>2 DEF Ponders
  <2>2. Telling(r)' = Telling(r)
    <3>1. \A u \in Threads : hand[u].slot # NoSlot => hand[u].slot \in Clients
      BY DEF Base, SdkTypeOK, Locals
    <3>2. \A u \in Threads : Live(u)' <=> Live(u)
      BY <2>1, <3>1 DEF Live
    <3> QED
      BY <1>1, <2>1, <3>2 DEF Telling
  <2>3. Paying(r)' = Paying(r)
    BY <2>1 DEF Paying, RunOf, Asked
  <2>4. Granted(r)' = Granted(r)
    BY <1>1 DEF Granted
  <2> QED
    BY <2>1, <2>2, <2>3, <2>4 DEF Paid
<1>3. ASSUME NEW answer, NEW st, Settles(c, answer, st), Telling(r)' = Telling(r)
      PROVE  Paid(r)'
  <2>1. /\ Outcome(Asked(c), answer, run[RunOf(c)], st)
        /\ run'[RunOf(c)] = st
        /\ r # RunOf(c) => run'[r] = run[r]
    BY <1>3, SettlesOutcome
  <2>2. /\ pc[c] # "idle" /\ pc'[c] = "idle"
        /\ \A d \in Clients : d # c => pc'[d] = pc[d] /\ call'[d] = call[d]
    BY <1>3, AnsweredSlots DEF Settles
  <2>3. PICK C, D : C = Paying(r) /\ D = Paying(r)'
    OBVIOUS
  <2>4. /\ Cardinality(C) \in Nat /\ Cardinality(D) \in Nat
        /\ Cardinality(D) + (IF c \in C THEN 1 ELSE 0) = Cardinality(C) + (IF c \in D THEN 1 ELSE 0)
    <3>1. /\ C \in SUBSET Clients /\ D \in SUBSET Clients
          /\ \A d \in Clients : d # c => (d \in C <=> d \in D)
      BY <2>2, <2>3 DEF Paying, RunOf, Asked
    <3> QED
      BY <3>1, SlotMoves
  <2>5. c \notin D
    BY <2>2, <2>3 DEF Paying
  <2>6. PICK m \in Nat, a \in Nat : m = Granted(r) /\ m = Granted(r)' /\ a = Cardinality(Telling(r))
    BY <1>1, UsageTypes DEF Granted
  <2>7. run[r].tokens \in Nat /\ run'[r].tokens \in Nat /\ Spent \in Nat
    <3>1. run'[r] \in RunStates
      BY DEF Base, SdkTypeOK, TypeOK
    <3>2. run'[r].tokens \in Nat
      BY <3>1, TokenAssumption DEF RunStates
    <3> QED
      BY <3>2, UsageTypes
  <2>8. CASE c \in C
    <3>1. run'[r].tokens <= run[r].tokens + Spent * 1
      <4>1. RunOf(c) = r /\ Asked(c).op = "usage" /\ Asked(c).tokens = Spent
        BY <2>2, <2>3, <2>8 DEF Paying, Base, InSlots
      <4>2. CASE answer = "ok"
        BY <2>1, <2>7, <4>1, <4>2 DEF Outcome
      <4>3. CASE answer # "ok"
        BY <2>1, <2>7, <4>1, <4>3 DEF Outcome
      <4> QED
        BY <4>2, <4>3
    <3>2. a + Cardinality(D) + 1 + m <= a + Cardinality(C) + m
      BY <2>4, <2>5, <2>6, <2>8
    <3> QED
      BY <1>3, <2>3, <2>6, <3>1, <3>2, PaidStep
  <2>9. CASE c \notin C
    <3>1. run'[r].tokens <= run[r].tokens + Spent * 0
      <4>1. CASE RunOf(c) = r
        <5>1. Asked(c).op # "usage"
          BY <2>2, <2>3, <2>9, <4>1 DEF Paying
        <5> QED
          BY <2>1, <2>7, <4>1, <5>1 DEF Outcome
      <4>2. CASE RunOf(c) # r
        BY <2>1, <2>7, <4>2
      <4> QED
        BY <4>1, <4>2
    <3>2. a + Cardinality(D) + 0 + m <= a + Cardinality(C) + m
      BY <2>4, <2>5, <2>6, <2>9
    <3> QED
      BY <1>3, <2>3, <2>6, <3>1, <3>2, PaidStep
  <2> QED
    BY <2>8, <2>9
<1>4. ASSUME NEW answer, NEW st, Settles(c, answer, st), NEW t \in Threads, Heard(c, answer, t)
      PROVE  Telling(r)' = Telling(r)
  <2>1. /\ at'[t] = Onward(t, answer) /\ hand[t].slot = c
        /\ \A u \in Threads : u # t => at'[u] = at[u] /\ hand'[u] = hand[u]
    BY <1>4, HeardForm DEF Heard
  <2>2. /\ pc[c] # "idle"
        /\ \A d \in Clients : d # c => pc'[d] = pc[d]
    BY <1>4, AnsweredSlots DEF Settles
  <2>3. t \notin Telling(r) /\ t \notin Telling(r)'
    <3>1. c # NoSlot
      BY SdkAssumption
    <3>2. Onward(t, answer) # "tell"
      BY OnwardPlaces
    <3> QED
      BY <2>1, <2>2, <3>1, <3>2 DEF Telling, Live
  <2>4. ASSUME NEW u \in Threads, u # t
        PROVE  u \in Telling(r)' <=> u \in Telling(r)
    <3>1. hand[u].slot = NoSlot \/ hand[u].slot \in Clients
      BY DEF Base, SdkTypeOK, Locals
    <3>2. hand[u].slot # c
      BY <2>1, <2>4, SdkAssumption DEF Base, InSlots
    <3>3. Live(u)' <=> Live(u)
      BY <2>1, <2>2, <2>4, <3>1, <3>2 DEF Live
    <3> QED
      BY <1>1, <2>1, <2>4, <3>3 DEF Telling
  <2>5. Telling(r) \subseteq Threads /\ Telling(r)' \subseteq Threads
    BY DEF Telling
  <2> QED
    BY <2>3, <2>4, <2>5
<1>5. ASSUME NEW answer, NEW st, Settles(c, answer, st), Unheeded(c, answer)
      PROVE  Telling(r)' = Telling(r)
  <2>1. /\ at' = at /\ hand' = hand /\ \A u \in Threads : hand[u].slot # c
        /\ \A d \in Clients : d # c => pc'[d] = pc[d]
    BY <1>5, AnsweredSlots DEF Settles, Unheeded
  <2>2. \A u \in Threads : hand[u].slot = NoSlot \/ hand[u].slot \in Clients
    BY DEF Base, SdkTypeOK, Locals
  <2>3. \A u \in Threads : Live(u)' <=> Live(u)
    BY <2>1, <2>2 DEF Live
  <2> QED
    BY <1>1, <2>1, <2>3 DEF Telling
<1> QED
  BY <1>2, <1>3, <1>4, <1>5, ServeForms

LEMMA UsagePosts ==
  ASSUME Base, Base', NEW t \in Threads, Post(t), NEW r \in Runs, Paid(r)
  PROVE  Paid(r)'
<1>1. PICK c \in Clients : Posts(t, c)
  BY PostForm
<1>2. /\ at' = at /\ UNCHANGED <<scope, run, told, sdk, faults>>
      /\ \A u \in Threads : u # t => hand'[u] = hand[u]
      /\ hand'[t].slot = c /\ hand[t].slot = NoSlot /\ at[t] \in Posting
      /\ pc[c] = "idle" /\ pc'[c] # "idle" /\ call'[c].run = scope[t] /\ call'[c].q = Request(t)
      /\ \A d \in Clients : d # c => pc'[d] = pc[d] /\ call'[d] = call[d]
      /\ \A u \in Threads : hand[u].slot # c
  BY <1>1 DEF Posts, process, tallies, counted
<1>3. Request(t).op = "usage" <=> at[t] = "tell"
  BY <1>2, RequestForm
<1>4. PICK A, B : A = Telling(r) /\ B = Telling(r)'
  OBVIOUS
<1>5. /\ Cardinality(A) \in Nat /\ Cardinality(B) \in Nat
      /\ Cardinality(B) + (IF t \in A THEN 1 ELSE 0) = Cardinality(A) + (IF t \in B THEN 1 ELSE 0)
  <2>1. \A u \in Threads : u # t /\ hand[u].slot # NoSlot =>
          (pc'[hand[u].slot] = "idle" <=> pc[hand[u].slot] = "idle")
    BY <1>2 DEF Base, SdkTypeOK, Locals
  <2> QED
    BY <1>2, <1>4, <2>1, TellingMoves
<1>6. PICK C, D : C = Paying(r) /\ D = Paying(r)'
  OBVIOUS
<1>7. /\ Cardinality(C) \in Nat /\ Cardinality(D) \in Nat
      /\ Cardinality(D) + (IF c \in C THEN 1 ELSE 0) = Cardinality(C) + (IF c \in D THEN 1 ELSE 0)
  <2>1. /\ C \in SUBSET Clients /\ D \in SUBSET Clients
        /\ \A d \in Clients : d # c => (d \in C <=> d \in D)
    BY <1>2, <1>6 DEF Paying, RunOf, Asked
  <2> QED
    BY <2>1, SlotMoves
<1>8. c \notin C /\ (c \in D <=> at[t] = "tell" /\ scope[t] = r)
  BY <1>2, <1>3, <1>6 DEF Paying, RunOf, Asked
<1>9. t \notin B /\ (t \in A <=> c \in D)
  <2>1. c # NoSlot
    BY SdkAssumption
  <2> QED
    BY <1>2, <1>4, <1>8, <2>1 DEF Telling, Live
<1>10. PICK m \in Nat : m = Granted(r) /\ m = Granted(r)'
  BY <1>2, UsageTypes DEF Granted
<1>11. Cardinality(B) + Cardinality(D) + 0 + m <= Cardinality(A) + Cardinality(C) + m
  BY <1>5, <1>7, <1>8, <1>9
<1>12. run'[r].tokens <= run[r].tokens + Spent * 0
  BY <1>2, UsageTypes
<1> QED
  BY <1>4, <1>6, <1>10, <1>11, <1>12, PaidStep

\* A report is granted when the LLM call is over, and one more, in Rust, each
\* time an answer to a request that is tried again is lost.
LEMMA UsageGivesUp ==
  ASSUME Base, Base', NEW t \in Threads, GivesUp(t), NEW r \in Runs, Paid(r)
  PROVE  Paid(r)'
<1>1. UNCHANGED <<vars, scope, told, sdk>> /\ faults \in Nat /\ (faults' = faults \/ faults' = faults + 1)
  BY GivesUpForms DEF counted, Base, InBooks
<1>2. UNCHANGED <<pc, call, scope>> /\ run'[r].tokens = run[r].tokens
  BY <1>1 DEF vars
<1>3. PICK m \in Nat, n \in Nat : m = Granted(r) /\ n = Granted(r)'
  BY SdkAssumption DEF Base, InBooks, Granted
<1>4. n >= m
  BY <1>1, <1>3, SdkAssumption DEF Granted, Base, InBooks
<1>5. CASE Retried(t)
  <2>1. \A u \in Threads : u # t => at'[u] = at[u] /\ hand'[u] = hand[u]
    BY <1>5 DEF Retried
  <2>2. ASSUME t \in Telling(r)', t \notin Telling(r)
        PROVE  n >= m + 1
    <3>1. at[t] = "tell" /\ hand[t].slot # NoSlot /\ pc[hand[t].slot] # "idle"
      BY <1>1, <1>5, <2>2 DEF Retried, Telling, Live
    <3>2. hand[t].armed
      BY <1>5 DEF Retried, Retrying
    <3>3. sdk = "rust"
      BY <3>1, <3>2, SdkAssumption DEF Base, InPlace, BestEffort, SdkTypeOK
    <3>4. ~Unreachable(t)
      BY <3>1 DEF Unreachable, Waiting
    <3>5. faults' = faults + 1
      BY <3>4, GivesUpForms
    <3>6. told[r] \in Nat
      BY SdkAssumption DEF Base, InBooks
    <3> QED
      BY <1>1, <1>3, <3>3, <3>5, <3>6 DEF Granted
  <2> QED
    BY <1>2, <1>3, <1>4, <2>1, <2>2, UsageQuiet
<1>6. ASSUME NEW answer, Unanswered(t, answer)
      PROVE  Paid(r)'
  <2>1. Takes(t, Onward(t, answer), hand[t])
    BY <1>6 DEF Unanswered
  <2>2. \A u \in Threads : u # t => at'[u] = at[u] /\ hand'[u] = hand[u]
    BY <2>1 DEF Takes
  <2>3. t \notin Telling(r)'
    BY <2>1, OnwardPlaces DEF Takes, Telling
  <2> QED
    BY <1>2, <1>3, <1>4, <2>2, <2>3, UsageQuiet
<1> QED
  BY <1>5, <1>6, GivesUpForms

LEMMA UsageVanishes ==
  ASSUME Base, Base', Vanish, NEW r \in Runs, Paid(r)
  PROVE  Paid(r)'
<1>1. UNCHANGED <<at, hand, scope, run, told, sdk, faults>> /\ pc' = [c \in Clients |-> "idle"]
  BY DEF Vanish, tallies, counted
<1>2. PICK A, B, C : A = Telling(r) /\ B = Telling(r)' /\ C = Paying(r)
  OBVIOUS
<1>3. PICK L : L = {t \in Threads : at[t] = "tell" /\ scope[t] = r /\ Live(t)}
  OBVIOUS
<1>4. Cardinality(L) <= Cardinality(C)
  <2>1. PICK f : f = [t \in L |-> hand[t].slot]
    OBVIOUS
  <2>2. ASSUME NEW t \in L
        PROVE  hand[t].slot \in C
    <3>1. t \in Threads /\ at[t] = "tell" /\ scope[t] = r /\ hand[t].slot # NoSlot /\ pc[hand[t].slot] # "idle"
      BY <1>3 DEF Live
    <3>2. hand[t].slot \in Clients
      BY <3>1 DEF Base, SdkTypeOK, Locals
    <3>3. RunOf(hand[t].slot) = r /\ Asked(hand[t].slot) = Request(t)
      BY <3>1 DEF Base, InSlots
    <3>4. Request(t).op = "usage"
      BY <3>1, RequestForm DEF Posting, BestEffort, Enforcing
    <3> QED
      BY <1>2, <3>1, <3>2, <3>3, <3>4 DEF Paying
  <2>3. \A t, u \in L : hand[t].slot = hand[u].slot => t = u
    BY <1>3 DEF Base, InSlots, Live
  <2>4. f \in Injection(L, C)
    BY <2>1, <2>2, <2>3 DEF Injection, IsInjective
  <2>5. IsFiniteSet(C)
    BY <1>2, CountTypes DEF Paying
  <2> QED
    BY <2>4, <2>5, FS_Injection
<1>5. B = A \cup L /\ A \cap L = {}
  BY <1>1, <1>2, <1>3 DEF Telling, Live, Base, SdkTypeOK, Locals
<1>6. IsFiniteSet(A) /\ IsFiniteSet(L) /\ Cardinality(A) \in Nat /\ Cardinality(L) \in Nat
  BY <1>2, <1>3, CountTypes DEF Telling
<1>7. Cardinality(B) = Cardinality(A) + Cardinality(L)
  <2>1. Cardinality(A \cap L) = 0
    BY <1>5, FS_EmptySet
  <2>2. Cardinality(A \cup L) = Cardinality(A) + Cardinality(L) - Cardinality(A \cap L)
    BY <1>6, FS_Union
  <2> QED
    BY <1>5, <1>6, <2>1, <2>2
<1>8. PICK D : D = Paying(r)'
  OBVIOUS
<1>9. Cardinality(D) = 0
  <2>1. D = {}
    BY <1>1, <1>8 DEF Paying
  <2> QED
    BY <2>1, FS_EmptySet
<1>10. PICK m \in Nat : m = Granted(r) /\ m = Granted(r)'
  BY <1>1, UsageTypes DEF Granted
<1>11. Cardinality(C) \in Nat
  BY <1>2, UsageTypes
<1>12. Cardinality(B) + Cardinality(D) + 0 + m <= Cardinality(A) + Cardinality(C) + m
  BY <1>4, <1>6, <1>7, <1>9, <1>11
<1>13. run'[r].tokens <= run[r].tokens + Spent * 0
  BY <1>1, UsageTypes
<1> QED
  BY <1>2, <1>8, <1>10, <1>12, <1>13, PaidStep

LEMMA UsageStep == Base /\ Base' /\ UsageInv /\ [SdkNext]_<<vars, sdkVars>> => UsageInv'
<1> SUFFICES ASSUME Base, Base', UsageInv, [SdkNext]_<<vars, sdkVars>>, NEW r \in Runs
             PROVE  Paid(r)'
  BY DEF UsageInv
<1>1. Paid(r)
  BY DEF UsageInv
<1>2. PICK m \in Nat : m = Granted(r)
  BY UsageTypes
<1>3. ASSUME NEW t \in Threads, CallTool(t) \/ EnterAgent(t) \/ LeaveAgent(t) \/ RunBody(t)
      PROVE  Paid(r)'
  <2>1. UNCHANGED <<scope, run, pc, call, told, faults, sdk>>
    BY <1>3 DEF CallTool, EnterAgent, LeaveAgent, RunBody, vars, process, tallies, counted
  <2>2. \E p \in {"once", "load", "status", "enter", "exit", "app"} : \E h : Takes(t, p, h)
    BY <1>3, CallToolTakes, EnterAgentBase, LeaveAgentBase, RunBodyBase
  <2>3. t \notin Telling(r)' /\ \A u \in Threads : u # t => at'[u] = at[u] /\ hand'[u] = hand[u]
    BY <2>2 DEF Takes, Telling
  <2>4. Granted(r)' = m
    BY <1>2, <2>1 DEF Granted
  <2> QED
    BY <1>1, <1>2, <2>1, <2>3, <2>4, UsageQuiet
<1>4. ASSUME NEW t \in Threads, Tell(t)
      PROVE  Paid(r)'
  <2>1. /\ UNCHANGED <<scope, run, pc, call, faults, sdk>>
        /\ told' = [told EXCEPT ![scope[t]] = @ + 1]
    BY <1>4 DEF Tell, vars, process
  <2>2. \A u \in Threads : u # t => at'[u] = at[u] /\ hand'[u] = hand[u]
    BY <1>4, TellBase DEF Takes
  <2>3. PICK n \in Nat : n = Granted(r)'
    BY SdkAssumption DEF Base, InBooks, Granted
  <2>4. told \in [Runs -> Nat] /\ faults \in Nat /\ scope[t] \in Runs
    BY SdkAssumption DEF Base, SdkTypeOK, InBooks
  <2>5. told'[r] = told[r] + (IF scope[t] = r THEN 1 ELSE 0)
    BY <2>1, <2>4
  <2>6. n = m + (IF scope[t] = r THEN 1 ELSE 0)
    BY <1>2, <2>1, <2>3, <2>4, <2>5 DEF Granted
  <2>7. t \in Telling(r)' => scope[t] = r
    BY <2>1 DEF Telling
  <2>8. n >= m /\ (t \in Telling(r)' => n >= m + 1)
    BY <2>6, <2>7
  <2>9. run'[r].tokens = run[r].tokens
    BY <2>1
  <2> QED
    BY <1>1, <1>2, <2>1, <2>2, <2>3, <2>8, <2>9, UsageQuiet
<1>5. ASSUME NEW t \in Threads, \/ Once(t) \/ LoadEnds(t) \/ LoadFails(t)
                                \/ Clear(t) \/ Break(t) \/ Clash(t) \/ Status(t)
      PROVE  Paid(r)'
  <2>1. UNCHANGED <<scope, run, pc, call, told, faults, sdk>>
    BY <1>5, OnItsOwn, StatusForm DEF vars, tallies, counted
  <2>2. \E p \in {"app", "status", "declare", "call", "refuse", "rules"} : \E h : Takes(t, p, h)
    BY <1>5, OnItsOwn, StatusForm
  <2>3. t \notin Telling(r)' /\ \A u \in Threads : u # t => at'[u] = at[u] /\ hand'[u] = hand[u]
    BY <2>2 DEF Takes, Telling
  <2>4. Granted(r)' = m
    BY <1>2, <2>1 DEF Granted
  <2> QED
    BY <1>1, <1>2, <2>1, <2>3, <2>4, UsageQuiet
<1>6. ASSUME NEW t \in Threads, Quit(t)
      PROVE  Paid(r)'
  <2>1. UNCHANGED <<run, pc, call, told, faults, sdk>> /\ at' = [u \in Threads |-> "dead"]
    BY <1>6 DEF Quit, vars, process
  <2>2. Telling(r)' = {} /\ Paying(r)' = Paying(r) /\ Granted(r)' = m
    BY <1>2, <2>1 DEF Telling, Paying, RunOf, Asked, Granted
  <2>3. Cardinality(Telling(r)') = 0
    BY <2>2, FS_EmptySet
  <2>4. 0 + Cardinality(Paying(r)) + 0 + m <= Cardinality(Telling(r)) + Cardinality(Paying(r)) + m
    BY UsageTypes
  <2>5. run'[r].tokens <= run[r].tokens + Spent * 0
    BY <2>1, UsageTypes
  <2> QED
    BY <1>1, <1>2, <2>2, <2>3, <2>4, <2>5, PaidStep
<1>7. CASE Listen \/ UNCHANGED <<vars, sdkVars>> \/ \E t \in Threads : LoadRule(t)
  <2>1. UNCHANGED <<at, hand, scope, run, pc, call, told, faults, sdk>>
    BY <1>7 DEF Listen, LoadRule, vars, sdkVars, process, tallies, counted
  <2>2. Telling(r)' = Telling(r) /\ Paying(r)' = Paying(r) /\ Granted(r)' = Granted(r)
    BY <2>1 DEF Telling, Live, Paying, RunOf, Asked, Granted
  <2> QED
    BY <1>1, <2>1, <2>2 DEF Paid
<1>8. CASE Restart
  <2>1. UNCHANGED <<at, hand, scope, pc, call, told, faults, sdk>> /\ run'[r].tokens = 0
    BY <1>8, RestartForm DEF counted
  <2>2. Telling(r)' = Telling(r) /\ Paying(r)' = Paying(r) /\ Granted(r)' = Granted(r)
    BY <2>1 DEF Telling, Live, Paying, RunOf, Asked, Granted
  <2>3. run[r].tokens \in Nat /\ Spent \in Nat
    BY UsageTypes
  <2>4. /\ Cardinality(Telling(r)) + Cardinality(Paying(r)) + 0 + m
             <= Cardinality(Telling(r)) + Cardinality(Paying(r)) + m
        /\ 0 <= run[r].tokens + Spent * 0
    BY <2>3, UsageTypes
  <2> QED
    BY <1>1, <1>2, <2>1, <2>2, <2>4, PaidStep
<1>9. ASSUME NEW t \in Threads, Post(t) \/ GivesUp(t)
      PROVE  Paid(r)'
  BY <1>1, <1>9, UsagePosts, UsageGivesUp
<1>10. ASSUME NEW c \in Clients, Serve(c)
       PROVE  Paid(r)'
  BY <1>1, <1>10, UsageServe
<1> QED
  BY <1>1, <1>3, <1>4, <1>5, <1>6, <1>7, <1>8, <1>9, <1>10, UsageVanishes, SdkSteps

LEMMA InitialBooks ==
  ASSUME Init, NEW r \in Runs
  PROVE  run[r].history = <<>> /\ run[r].stack = <<>> /\ run[r].tokens = 0
<1>1. PICK first \in {FreshRun, PlaceholderRun}, name \in Names :
        run = [s \in Runs |->
                 IF s = Primary THEN RecordIdentity(first, "governor", name) ELSE FreshRun]
  BY DEF Init
<1>2. \A st \in {FreshRun, PlaceholderRun} :
        st.history = <<>> /\ st.stack = <<>> /\ st.tokens = 0
  <2>1. FreshRun.history = <<>> /\ FreshRun.stack = <<>> /\ FreshRun.tokens = 0
    BY DEF FreshRun
  <2>2. /\ PlaceholderRun.history = FreshRun.history /\ PlaceholderRun.stack = FreshRun.stack
        /\ PlaceholderRun.tokens = FreshRun.tokens
    BY FreshRunType DEF PlaceholderRun, RunStates
  <2> QED
    BY <2>1, <2>2
<1>3. first \in RunStates /\ "governor" \in Identities
  BY FreshRunType DEF Identities
<1>5. LET new == RecordIdentity(first, "governor", name)
      IN  new.history = first.history /\ new.stack = first.stack /\ new.tokens = first.tokens
  BY <1>3, IdentityAlone
<1>6. run[r] = RecordIdentity(first, "governor", name) \/ run[r] = FreshRun
  BY <1>1
<1> QED
  BY <1>2, <1>5, <1>6

LEMMA UsageInit == SdkInit => UsageInv
<1> SUFFICES ASSUME SdkInit, NEW r \in Runs
             PROVE  Paid(r)
  BY DEF UsageInv
<1>1. Telling(r) = {} /\ Paying(r) = {}
  BY DEF Telling, Paying, SdkInit, Init
<1>2. Cardinality(Telling(r)) = 0 /\ Cardinality(Paying(r)) = 0
  BY <1>1, FS_EmptySet
<1>3. Granted(r) = 0
  BY DEF Granted, SdkInit
<1>4. run[r].tokens = 0
  BY InitialBooks DEF SdkInit
<1>5. Spent \in Nat
  BY SdkAssumption
<1> QED
  BY <1>2, <1>3, <1>4, <1>5 DEF Paid

LEMMA UsageReported == Base /\ UsageInv => UsageNotInflated
<1> SUFFICES ASSUME Base, UsageInv, NEW r \in Runs
             PROVE  run[r].tokens <= Spent * (told[r] + (IF sdk = "rust" THEN faults ELSE 0))
  BY DEF UsageNotInflated
<1>1. PICK k \in Nat : k = Cardinality(Telling(r)) + Cardinality(Paying(r))
  BY UsageTypes
<1>2. PICK m \in Nat : m = Granted(r)
  BY UsageTypes
<1>3. run[r].tokens + Spent * k <= Spent * m
  BY <1>1, <1>2 DEF UsageInv, Paid
<1>4. run[r].tokens \in Nat /\ Spent * k \in Nat /\ Spent * m \in Nat
  BY UsageTypes
<1>5. run[r].tokens <= Spent * m
  BY <1>3, <1>4
<1> QED
  BY <1>2, <1>5 DEF Granted

-----------------------------------------------------------------------------

\* In any number of threads and runs, through lost answers, refusals, retries
\* and restarts of the governor, every value is what it is declared to be, a
\* call that was begun is counted at most once, and the tokens of a run are at
\* most the ones reported, in Rust one report more for each lost answer.
THEOREM NothingIsCountedTwice == SdkSpec => []SdkInvariant
<1>1. SdkInit => OnceInv /\ UsageInv
  BY OnceInit, UsageInit
<1>2. Base /\ Base' /\ OnceInv /\ UsageInv /\ [SdkNext]_<<vars, sdkVars>> => OnceInv' /\ UsageInv'
  BY OnceStep, UsageStep
<1>3. Base /\ OnceInv /\ UsageInv => SdkInvariant
  BY OnceCounted, UsageReported DEF SdkInvariant, Base
<1> QED
  BY <1>1, <1>2, <1>3, AlwaysBase, PTL DEF SdkSpec

-----------------------------------------------------------------------------
(* A process that ends itself *)

\* Why a run need not be stopped yet, or is: nothing takes it back.
Excused(t) == silent \/ restarts > 0 \/ Stopped(run[scope[t]])

LEMMA ExcusedStays ==
  ASSUME Base, [SdkNext]_<<vars, sdkVars>>, NEW t \in Threads, Excused(t)
  PROVE  Excused(t)'
<1>1. CASE UNCHANGED <<run, silent, restarts, scope>>
  BY <1>1 DEF Excused
<1>2. ASSUME NEW u \in Threads, GivesUp(u)
      PROVE  Excused(t)'
  <2>1. UNCHANGED <<run, restarts, scope>> /\ (silent' = silent \/ silent' = TRUE)
    BY <1>2, GivesUpForms DEF vars, Retried, Unanswered
  <2> QED
    BY <2>1 DEF Excused
<1>3. ASSUME NEW u \in Threads, ~GivesUp(u),
             \/ CallTool(u) \/ EnterAgent(u) \/ LeaveAgent(u) \/ Tell(u)
             \/ LoadRule(u) \/ Quit(u) \/ RunBody(u)
             \/ Once(u) \/ LoadEnds(u) \/ LoadFails(u) \/ Clear(u) \/ Break(u) \/ Clash(u)
             \/ Post(u) \/ Status(u)
      PROVE  Excused(t)'
  <2>1. CASE Post(u)
    BY <1>1, <2>1, PostForm DEF Posts, process, tallies
  <2>2. CASE Status(u)
    BY <1>1, <2>2, StatusForm DEF tallies
  <2>3. CASE Once(u) \/ LoadEnds(u) \/ LoadFails(u) \/ Clear(u) \/ Break(u) \/ Clash(u)
    BY <1>1, <2>3, OnItsOwn DEF vars, tallies
  <2>4. CASE \/ CallTool(u) \/ EnterAgent(u) \/ LeaveAgent(u) \/ Tell(u)
             \/ LoadRule(u) \/ Quit(u) \/ RunBody(u)
    BY <1>1, <2>4 DEF CallTool, EnterAgent, LeaveAgent, Tell, LoadRule, Quit, RunBody,
                      vars, process, tallies
  <2> QED
    BY <1>3, <2>1, <2>2, <2>3, <2>4
<1>4. ASSUME NEW c \in Clients, Serve(c)
      PROVE  Excused(t)'
  <2>1. UNCHANGED <<silent, restarts, scope>>
    BY <1>4, ServeForms DEF Serving
  <2>2. CASE Ponders(c)
    BY <1>1, <2>1, <2>2 DEF Ponders
  <2>3. ASSUME NEW answer, NEW st, Settles(c, answer, st)
        PROVE  Excused(t)'
    <3>1. /\ Stopped(run[RunOf(c)]) => Stopped(st)
          /\ run'[RunOf(c)] = st /\ \A r \in Runs : r # RunOf(c) => run'[r] = run[r]
      BY <2>3, SettlesOutcome DEF Outcome
    <3>2. scope[t] \in Runs
      BY DEF Base, SdkTypeOK
    <3>3. Stopped(run[scope[t]]) => Stopped(run'[scope[t]])
      BY <3>1, <3>2
    <3> QED
      BY <2>1, <3>3 DEF Excused
  <2> QED
    BY <1>4, <2>2, <2>3, ServeForms
<1>5. CASE Restart
  <2>1. restarts' = restarts + 1 /\ restarts \in Nat
    BY <1>5, RestartForm DEF Base, InBooks
  <2> QED
    BY <2>1 DEF Excused
<1>6. CASE Listen \/ Vanish \/ UNCHANGED <<vars, sdkVars>>
  BY <1>1, <1>6 DEF Listen, Vanish, vars, sdkVars, process, tallies
<1> QED
  BY <1>2, <1>3, <1>4, <1>5, <1>6, SdkSteps

\* A thread that is answered and goes on to end the process has a stopped run:
\* the report stopped it, or the call was denied or found it stopped.
LEMMA HeardQuits ==
  ASSUME Base, NEW c \in Clients, NEW answer, NEW st, Settles(c, answer, st),
         NEW t \in Threads, Heard(c, answer, t), Onward(t, answer) = "quit"
  PROVE  Stopped(run'[scope[t]])
<1>1. /\ at[t] \in Posting /\ RunOf(c) = scope[t] /\ Asked(c) = Request(t)
      /\ Onward(t, answer) = "body" <=> answer = "allowed"
  BY HeardForm
<1>2. /\ answer \in {"gone", "denied", "allowed", "error", "ok"}
      /\ Outcome(Asked(c), answer, run[RunOf(c)], st)
      /\ run'[RunOf(c)] = st
  BY SettlesOutcome
<1>3. \/ at[t] \in {"report", "refuse"}
      \/ at[t] = "call" /\ answer # "allowed" /\ hand[t].on \notin Builtin
  BY OnwardPlaces
<1>4. CASE at[t] \in {"report", "refuse"}
  <2>1. Asked(c).op \in {"stop", "stopRule"}
    BY <1>1, <1>4, RequestForm
  <2>2. answer \notin {"allowed", "error"}
    BY <1>2, <2>1 DEF Outcome
  <2> QED
    BY <1>1, <1>2, <2>1, <2>2 DEF Outcome
<1>5. CASE at[t] = "call" /\ answer # "allowed" /\ hand[t].on \notin Builtin
  <2>1. Asked(c).op = "tool" /\ Asked(c).on = hand[t].on
    BY <1>1, <1>5, RequestForm
  <2>2. answer \in {"gone", "denied"}
    BY <1>2, <1>5, <2>1 DEF Outcome
  <2> QED
    BY <1>1, <1>2, <2>2 DEF Outcome
<1> QED
  BY <1>3, <1>4, <1>5

LEMMA QuitStep == Base /\ QuitIsReported /\ [SdkNext]_<<vars, sdkVars>> => QuitIsReported'
<1> SUFFICES ASSUME Base, QuitIsReported, [SdkNext]_<<vars, sdkVars>>, NEW t \in Threads,
                    at'[t] = "quit"
             PROVE  Excused(t)'
  BY DEF QuitIsReported, Excused
<1>1. CASE at[t] = "quit"
  BY <1>1, ExcusedStays DEF QuitIsReported, Excused
<1>2. CASE at[t] # "quit"
  <2>1. ASSUME NEW u \in Threads, NEW p, NEW h, Takes(u, p, h)
        PROVE  u = t /\ p = "quit"
    BY <1>2, <2>1 DEF Takes
  <2>2. ASSUME NEW u \in Threads, GivesUp(u)
        PROVE  Excused(t)'
    <3>1. \/ Retried(u)
          \/ \E answer : Unanswered(u, answer)
      BY <2>2, GivesUpForms
    <3> QED
      BY <1>2, <3>1 DEF Retried, Unanswered, Excused
  <2>3. ASSUME NEW u \in Threads, \/ CallTool(u) \/ EnterAgent(u) \/ LeaveAgent(u) \/ Tell(u)
                                  \/ RunBody(u) \/ Status(u)
                                  \/ Once(u) \/ LoadEnds(u) \/ LoadFails(u)
                                  \/ Clear(u) \/ Break(u) \/ Clash(u)
        PROVE  FALSE
    <3>1. \E p \in Places \ {"quit"} : \E h : Takes(u, p, h)
      BY <2>3, CallToolTakes, EnterAgentBase, LeaveAgentBase, TellBase, RunBodyBase, StatusForm,
         OnItsOwn DEF Places, Enforcing, BestEffort
    <3> QED
      BY <2>1, <3>1
  <2>4. ASSUME NEW u \in Threads, LoadRule(u) \/ Quit(u) \/ Post(u)
        PROVE  FALSE
    <3>1. CASE Post(u)
      BY <1>2, <3>1, PostForm DEF Posts
    <3>2. CASE LoadRule(u) \/ Quit(u)
      BY <1>2, <3>2 DEF LoadRule, Quit
    <3> QED
      BY <2>4, <3>1, <3>2
  <2>5. ASSUME NEW c \in Clients, Serve(c)
        PROVE  Excused(t)'
    <3>1. PICK answer, st : Settles(c, answer, st) /\ \E u \in Threads : Heard(c, answer, u)
      <4>1. ~Ponders(c) /\ \A answer : ~Unheeded(c, answer)
        BY <1>2 DEF Ponders, Unheeded
      <4>2. PICK answer, st : /\ Settles(c, answer, st)
                              /\ (\E u \in Threads : Heard(c, answer, u)) \/ Unheeded(c, answer)
        BY <2>5, <4>1, ServeForms
      <4> QED
        BY <4>1, <4>2
    <3> PICK u \in Threads : Heard(c, answer, u)
      BY <3>1
    <3>2. u = t /\ Onward(t, answer) = "quit"
      BY <2>1 DEF Heard
    <3>3. Stopped(run'[scope[t]]) /\ scope' = scope
      BY <2>5, <3>1, <3>2, HeardQuits, ServeForms DEF Serving
    <3> QED
      BY <3>3 DEF Excused
  <2>6. CASE Listen \/ Vanish \/ Restart \/ UNCHANGED <<vars, sdkVars>>
    BY <1>2, <2>6 DEF Listen, Vanish, Restart, sdkVars
  <2> QED
    BY <2>2, <2>3, <2>4, <2>5, <2>6, SdkSteps
<1> QED
  BY <1>1, <1>2

\* report_stop and std::process::exit(1): in any number of threads, a Rust
\* process that ends itself leaves its run stopped for a reason of its own,
\* unless some call of its went unanswered or the governor was started again.
THEOREM QuitsAreReported == SdkSpec => []QuitIsReported
<1>1. SdkInit => QuitIsReported
  BY DEF SdkInit, QuitIsReported
<1>2. Base /\ QuitIsReported /\ [SdkNext]_<<vars, sdkVars>> => QuitIsReported'
  BY QuitStep
<1> QED
  BY <1>1, <1>2, AlwaysBase, PTL DEF SdkSpec

-----------------------------------------------------------------------------
(* The rules and the history they decide on *)

\* Run r has called a tool with a label, or thread t has seen that it did.
Marked(r, label) == \E i \in DOMAIN run[r].history : Has(run[r].history[i], label)

Sees(t, label) == \E i \in DOMAIN hand[t].seen : Has(hand[t].seen[i], label)

\* The threads of run r, and the ones of them about to call a tool that have not
\* seen the label in the history.
Crew(r) == {t \in Threads : scope[t] = r}

Stale(r, label) ==
  {t \in Threads : scope[t] = r /\ at[t] \in {"rules", "call"} /\ ~Sees(t, label)}

\* Once the run has the first label, each thread but one, and each call whose
\* answer was lost, passes the rule once: while it is stale, or when it was.
\* The call that set the label was that one thread's, or one of the lost.
Bounded(r, before, after) ==
  Marked(r, before) =>
    Cardinality(RecordedAfter(r, before, after)) + Cardinality(Stale(r, before))
      <= Cardinality(Crew(r)) - 1 + Total(unheard[r], Tools)

\* A thread about to call a tool was cleared by the rules for what it has seen.
Cleared ==
  \A t \in Threads, rule \in OwnRules :
    at[t] = "call" /\ Sees(t, rule.before) => ~Has(hand[t].on, rule.after)

StaleInv ==
  /\ \A r \in Runs, rule \in OwnRules : Bounded(r, rule.before, rule.after)
  /\ Cleared
  /\ OwnRules \subseteq loaded

AfterIn(h, before, after) ==
  {i \in DOMAIN h : Has(h[i], after) /\ \E j \in 1 .. (i - 1) : Has(h[j], before)}

\* One call more is at most one more after another.
LEMMA AppendAfter ==
  ASSUME NEW h, NEW g, NEW x, NEW n \in Nat,
         DOMAIN h = 1 .. n, DOMAIN g = 1 .. (n + 1),
         g[n + 1] = x, \A i \in 1 .. n : g[i] = h[i],
         NEW before, NEW after,
         NEW A, NEW B, A = AfterIn(h, before, after), B = AfterIn(g, before, after)
  PROVE  /\ Cardinality(A) \in Nat /\ Cardinality(B) \in Nat
         /\ Cardinality(B) <= Cardinality(A) + 1
         /\ ~Has(x, after) => B = A
         /\ (\A i \in DOMAIN h : ~Has(h[i], before)) => B = {}
<1>2. /\ DOMAIN h = 1 .. n /\ DOMAIN g = 1 .. (n + 1)
      /\ g[n + 1] = x /\ \A i \in 1 .. n : g[i] = h[i]
  OBVIOUS
<1>3. A \subseteq 1 .. n /\ B \subseteq 1 .. (n + 1)
  BY <1>2 DEF AfterIn
<1>4. \A i \in 1 .. n : i \in A <=> i \in B
  BY <1>2 DEF AfterIn
<1>5. B \subseteq A \cup {n + 1}
  BY <1>3, <1>4
<1>6. IsFiniteSet(A) /\ Cardinality(A) \in Nat
  <2>1. IsFiniteSet(1 .. n) /\ A \in SUBSET (1 .. n)
    BY <1>3, FS_Interval
  <2> QED
    BY <2>1, FS_Subset, FS_CardinalityType
<1>7. /\ IsFiniteSet(A \cup {n + 1})
      /\ Cardinality(A \cup {n + 1}) <= Cardinality(A) + 1
  <2>1. PICK m : m = n + 1
    OBVIOUS
  <2>2. /\ IsFiniteSet(A \cup {m})
        /\ Cardinality(A \cup {m}) = IF m \in A THEN Cardinality(A) ELSE Cardinality(A) + 1
    BY <1>6, FS_AddElement
  <2> QED
    BY <1>6, <2>1, <2>2
<1>8. IsFiniteSet(B) /\ Cardinality(B) <= Cardinality(A \cup {n + 1})
  BY <1>5, <1>7, FS_Subset
<1>9. Cardinality(B) \in Nat /\ Cardinality(A \cup {n + 1}) \in Nat
  BY <1>7, <1>8, FS_CardinalityType
<1>10. Cardinality(B) <= Cardinality(A) + 1
  BY <1>6, <1>7, <1>8, <1>9
<1>11. ASSUME ~Has(x, after)
       PROVE  B = A
  <2>1. n + 1 \notin B
    BY <1>2, <1>11 DEF AfterIn
  <2>2. n + 1 \notin A
    BY <1>3
  <2>3. \A i : i \in B => i \in 1 .. n
    BY <1>3, <2>1
  <2>4. \A i : i \in B <=> i \in A
    BY <1>3, <1>4, <2>3
  <2> QED
    BY <2>4
<1>12. ASSUME \A i \in DOMAIN h : ~Has(h[i], before), NEW i \in B
       PROVE  FALSE
  <2>1. i \in 1 .. (n + 1) /\ \E j \in 1 .. (i - 1) : Has(g[j], before)
    BY <1>2 DEF AfterIn
  <2>2. PICK j \in 1 .. (i - 1) : Has(g[j], before)
    BY <2>1
  <2>3. j \in 1 .. n
    BY <2>1
  <2> QED
    BY <1>2, <1>12, <2>2, <2>3
<1> QED
  BY <1>6, <1>9, <1>10, <1>11, <1>12

LEMMA StaleTypes ==
  ASSUME Base, NEW r \in Runs, NEW before, NEW after
  PROVE  /\ RecordedAfter(r, before, after) = AfterIn(run[r].history, before, after)
         /\ run[r].history \in Seq(Tools)
         /\ unheard[r] \in [Tools -> Nat] /\ Total(unheard[r], Tools) \in Nat
         /\ IsFiniteSet(RecordedAfter(r, before, after))
         /\ Cardinality(RecordedAfter(r, before, after)) \in Nat
         /\ Stale(r, before) \in SUBSET Crew(r) /\ Crew(r) \in SUBSET Threads
         /\ Cardinality(Stale(r, before)) \in Nat /\ Cardinality(Crew(r)) \in Nat
<1>1. RecordedAfter(r, before, after) = AfterIn(run[r].history, before, after)
  BY DEF RecordedAfter, AfterIn
<1>2. run[r].history \in Seq(Tools)
  BY DEF Base, SdkTypeOK, TypeOK, RunStates
<1>3. unheard[r] \in [Tools -> Nat]
  BY DEF Base, InBooks, Tally
<1>4. Total(unheard[r], Tools) \in Nat
  BY <1>3, SdkAssumption, TotalNat
<1>5. RecordedAfter(r, before, after) \subseteq 1 .. Len(run[r].history) /\ Len(run[r].history) \in Nat
  BY <1>1, <1>2 DEF AfterIn
<1>6. IsFiniteSet(1 .. Len(run[r].history))
  BY <1>5, FS_Interval
<1>7. /\ IsFiniteSet(RecordedAfter(r, before, after))
      /\ Cardinality(RecordedAfter(r, before, after)) \in Nat
  BY <1>5, <1>6, FS_Subset, FS_CardinalityType
<1>8. Stale(r, before) \in SUBSET Crew(r) /\ Crew(r) \in SUBSET Threads
  BY DEF Stale, Crew
<1>9. Cardinality(Stale(r, before)) \in Nat /\ Cardinality(Crew(r)) \in Nat
  BY <1>8, CountTypes
<1> QED
  BY <1>1, <1>2, <1>3, <1>4, <1>7, <1>8, <1>9

\* A step that calls nothing in run r, and makes no thread stale.
LEMMA StaleQuiet ==
  ASSUME Base, Base', NEW r \in Runs, NEW before, NEW after, Bounded(r, before, after),
         run'[r].history = run[r].history, Stale(r, before)' \subseteq Stale(r, before),
         scope' = scope, \A x \in Tools : unheard[r][x] <= unheard'[r][x]
  PROVE  Bounded(r, before, after)'
<1>1. PICK C, L, M, R :
        /\ C = Crew(r) /\ C = Crew(r)' /\ L = Stale(r, before) /\ M = Stale(r, before)'
        /\ R = RecordedAfter(r, before, after) /\ R = RecordedAfter(r, before, after)'
  BY DEF Crew, RecordedAfter
<1>2. Marked(r, before)' <=> Marked(r, before)
  BY DEF Marked
<1>3. Cardinality(R) \in Nat /\ Cardinality(L) \in Nat /\ Cardinality(C) \in Nat
      /\ Total(unheard[r], Tools) \in Nat
  BY <1>1, StaleTypes
<1>4. Cardinality(M) \in Nat /\ Cardinality(M) <= Cardinality(L)
  <2>1. L \in SUBSET Threads /\ M \in SUBSET L
    BY <1>1 DEF Stale
  <2>2. IsFiniteSet(L)
    BY <2>1, CountTypes
  <2> QED
    BY <2>1, <2>2, FS_Subset, FS_CardinalityType
<1>5. PICK f, g : f = unheard[r] /\ g = unheard'[r]
  OBVIOUS
<1>6. \A x \in Tools : f[x] \in Nat /\ g[x] \in Nat /\ f[x] <= g[x]
  BY <1>5 DEF Base, InBooks, Tally
<1>7. Total(f, Tools) <= Total(g, Tools) /\ Total(g, Tools) \in Nat /\ Total(f, Tools) \in Nat
  BY <1>6, SdkAssumption, TotalGrows, TotalNat
<1>8. Total(unheard[r], Tools)' = Total(g, Tools)
  BY <1>5
<1>9. ASSUME Marked(r, before)
      PROVE  Cardinality(R) + Cardinality(M) <= Cardinality(C) - 1 + Total(g, Tools)
  <2>1. Cardinality(R) + Cardinality(L) <= Cardinality(C) - 1 + Total(f, Tools)
    BY <1>1, <1>5, <1>9 DEF Bounded
  <2> QED
    BY <1>3, <1>4, <1>7, <2>1
<1> QED
  BY <1>1, <1>2, <1>8, <1>9 DEF Bounded

\* A thread that is answered is no longer about to call a tool.
LEMMA StaleHeard ==
  ASSUME Base, NEW c \in Clients, NEW answer, NEW st, Settles(c, answer, st),
         NEW t \in Threads, Heard(c, answer, t), scope' = scope, NEW r, NEW label
  PROVE  /\ Stale(r, label)' \subseteq Stale(r, label) \ {t}
         /\ at'[t] \notin {"rules", "call"}
         /\ \A u \in Threads : u # t => at'[u] = at[u] /\ hand'[u] = hand[u]
<1>1. /\ at'[t] = Onward(t, answer)
      /\ \A u \in Threads : u # t => at'[u] = at[u] /\ hand'[u] = hand[u]
  BY HeardForm
<1>2. at'[t] \notin {"rules", "call"}
  BY <1>1, OnwardPlaces
<1> QED
  BY <1>1, <1>2 DEF Stale, Sees

\* A call of a tool in run r is allowed, and its answer heard by a thread that
\* was cleared by the rules, or by nobody.
LEMMA StaleAllowed ==
  ASSUME Base, Base', StaleInv, NEW c \in Clients, Serve(c), NEW st, Settles(c, "allowed", st),
         (\E t \in Threads : Heard(c, "allowed", t)) \/ Unheeded(c, "allowed"),
         NEW r \in Runs, r = RunOf(c), NEW rule \in OwnRules
  PROVE  Bounded(r, rule.before, rule.after)'
<1> PICK before, after : before = rule.before /\ after = rule.after
  OBVIOUS
<1>1. scope' = scope
  BY ServeForms DEF Serving
<1>2. PICK x \in Tools : x = Asked(c).on
  BY SettlesOutcome DEF Outcome
<1>3. run'[r].history = Append(run[r].history, x)
  BY <1>2, SettlesOutcome DEF Outcome
<1>4. PICK h, g : h = run[r].history /\ g = run'[r].history
  OBVIOUS
<1>5. h \in Seq(Tools) /\ g = Append(h, x) /\ x \in Tools
  BY <1>2, <1>3, <1>4, StaleTypes, SettlesOutcome DEF Outcome
<1>6. PICK A, B : A = AfterIn(h, before, after) /\ B = AfterIn(g, before, after)
  OBVIOUS
<1>7. /\ Cardinality(A) \in Nat /\ Cardinality(B) \in Nat
      /\ Cardinality(B) <= Cardinality(A) + 1
      /\ ~Has(x, after) => B = A
      /\ (\A i \in DOMAIN h : ~Has(h[i], before)) => B = {}
  <2>1. PICK n \in Nat : n = Len(h)
    BY <1>5
  <2>2. /\ DOMAIN h = 1 .. n /\ DOMAIN g = 1 .. (n + 1)
        /\ g[n + 1] = x /\ \A i \in 1 .. n : g[i] = h[i]
    BY <1>5, <2>1
  <2> QED
    BY <1>6, <2>1, <2>2, AppendAfter
<1>8. RecordedAfter(r, before, after) = A /\ RecordedAfter(r, before, after)' = B
  BY <1>4, <1>6 DEF RecordedAfter, AfterIn
<1>9. ~Marked(r, before) => Cardinality(B) = 0
  BY <1>4, <1>7, FS_EmptySet DEF Marked
<1>10. PICK C, L, M : /\ C = Crew(r) /\ C = Crew(r)'
                      /\ L = Stale(r, before) /\ M = Stale(r, before)'
  BY <1>1 DEF Crew
<1>11. /\ L \in SUBSET C /\ M \in SUBSET C /\ IsFiniteSet(C) /\ IsFiniteSet(L)
       /\ Cardinality(C) \in Nat /\ Cardinality(L) \in Nat /\ Cardinality(M) \in Nat
  BY <1>1, <1>10, CountTypes DEF Crew, Stale
<1>12. PICK j, k : j = Total(unheard[r], Tools) /\ k = Total(unheard'[r], Tools)
  OBVIOUS
<1>13. j \in Nat /\ k \in Nat
  <2>1. \A y \in Tools : unheard[r][y] \in Nat /\ unheard'[r][y] \in Nat
    BY DEF Base, InBooks, Tally
  <2> QED
    BY <1>12, <2>1, SdkAssumption, TotalNat
<1>14. Marked(r, before) => Cardinality(A) + Cardinality(L) <= Cardinality(C) - 1 + j
  BY <1>8, <1>10, <1>12 DEF StaleInv, Bounded
<1>15. ASSUME NEW t \in Threads, Heard(c, "allowed", t)
       PROVE  Cardinality(B) + Cardinality(M) <= Cardinality(C) - 1 + k
  <2>1. M \subseteq L \ {t} /\ unheard' = unheard
    BY <1>1, <1>10, <1>15, StaleHeard DEF Heard
  <2>2. j = k
    BY <1>12, <2>1
  <2>3. at[t] = "call" /\ scope[t] = r /\ hand[t].on = x
    <3>1. /\ at[t] \in Posting /\ RunOf(c) = scope[t] /\ Asked(c) = Request(t)
          /\ at[t] = "call" <=> Asked(c).op = "tool"
      BY <1>15, HeardForm
    <3>2. Asked(c).op = "tool"
      BY SettlesOutcome DEF Outcome
    <3> QED
      BY <1>2, <3>1, <3>2, RequestForm
  <2>4. t \in C
    BY <1>10, <2>3 DEF Crew
  <2>5. /\ Cardinality(L \ {t}) \in Nat /\ Cardinality(C \ {t}) = Cardinality(C) - 1
        /\ Cardinality(L \ {t}) = IF t \in L THEN Cardinality(L) - 1 ELSE Cardinality(L)
        /\ Cardinality(M) <= Cardinality(L \ {t}) /\ Cardinality(M) <= Cardinality(C \ {t})
    <3>1. /\ IsFiniteSet(L \ {t}) /\ IsFiniteSet(C \ {t})
          /\ Cardinality(C \ {t}) = Cardinality(C) - 1
          /\ Cardinality(L \ {t}) = IF t \in L THEN Cardinality(L) - 1 ELSE Cardinality(L)
      BY <1>11, <2>4, FS_RemoveElement
    <3>2. M \in SUBSET (L \ {t}) /\ M \in SUBSET (C \ {t})
      BY <1>11, <2>1
    <3> QED
      BY <3>1, <3>2, FS_Subset, FS_CardinalityType
  <2>6. CASE ~Marked(r, before)
    BY <1>7, <1>9, <1>11, <1>13, <2>2, <2>5, <2>6
  <2>7. CASE Marked(r, before) /\ t \in L
    BY <1>7, <1>11, <1>13, <1>14, <2>2, <2>5, <2>7
  <2>8. CASE Marked(r, before) /\ t \notin L
    <3>1. Sees(t, before)
      BY <1>10, <2>3, <2>8 DEF Stale
    <3>2. ~Has(x, after)
      BY <2>3, <3>1 DEF StaleInv, Cleared
    <3> QED
      BY <1>7, <1>11, <1>13, <1>14, <2>2, <2>5, <2>8, <3>2
  <2> QED
    BY <2>6, <2>7, <2>8
<1>16. ASSUME Unheeded(c, "allowed")
       PROVE  Cardinality(B) + Cardinality(M) <= Cardinality(C) - 1 + k
  <2>1. /\ at' = at /\ hand' = hand
        /\ unheard' = [unheard EXCEPT ![r][x] = @ + 1]
    BY <1>2, <1>16 DEF Unheeded
  <2>2. M = L
    BY <1>1, <1>10, <2>1 DEF Stale, Sees
  <2>3. k = j + 1
    <3>1. /\ unheard \in Tally /\ unheard'[r][x] = unheard[r][x] + 1 /\ unheard[r][x] \in Nat
          /\ \A y \in Tools : y # x => unheard'[r][y] = unheard[r][y]
      BY <2>1, TallyUp DEF Base, InBooks
    <3>2. \A y \in Tools : unheard[r][y] \in Nat /\ unheard'[r][y] \in Nat
      BY DEF Base, InBooks, Tally
    <3>3. PICK f, e : f = unheard[r] /\ e = unheard'[r]
      OBVIOUS
    <3>4. Total(e, Tools) + f[x] = Total(f, Tools) + e[x]
      BY <3>1, <3>2, <3>3, SdkAssumption, TotalPoint
    <3> QED
      BY <1>12, <1>13, <3>1, <3>3, <3>4
  <2>4. Cardinality(L) <= Cardinality(C)
    BY <1>11, FS_Subset
  <2>5. CASE ~Marked(r, before)
    BY <1>7, <1>9, <1>11, <1>13, <2>2, <2>3, <2>4, <2>5
  <2>6. CASE Marked(r, before)
    BY <1>7, <1>11, <1>13, <1>14, <2>2, <2>3, <2>6
  <2> QED
    BY <2>5, <2>6
<1>17. Cardinality(B) + Cardinality(M) <= Cardinality(C) - 1 + k
  BY <1>15, <1>16
<1>18. Total(unheard[r], Tools)' = k
  BY <1>12
<1> QED
  BY <1>8, <1>10, <1>17, <1>18 DEF Bounded

LEMMA StaleServe ==
  ASSUME Base, Base', StaleInv, NEW c \in Clients, Serve(c), NEW r \in Runs, NEW rule \in OwnRules
  PROVE  Bounded(r, rule.before, rule.after)'
<1>1. scope' = scope /\ Bounded(r, rule.before, rule.after)
  BY ServeForms DEF Serving, StaleInv
<1>2. CASE Ponders(c)
  <2>1. UNCHANGED <<run, at, hand, unheard>>
    BY <1>2 DEF Ponders
  <2>2. Stale(r, rule.before)' \subseteq Stale(r, rule.before)
    BY <1>1, <2>1 DEF Stale, Sees
  <2>3. \A x \in Tools : unheard[r][x] <= unheard'[r][x]
    BY <2>1 DEF Base, InBooks, Tally
  <2>4. run'[r].history = run[r].history
    BY <2>1
  <2> QED
    BY <1>1, <2>2, <2>3, <2>4, StaleQuiet
<1>3. ASSUME NEW answer, NEW st, Settles(c, answer, st),
             (\E t \in Threads : Heard(c, answer, t)) \/ Unheeded(c, answer)
      PROVE  Bounded(r, rule.before, rule.after)'
  <2>1. CASE answer = "allowed" /\ r = RunOf(c)
    BY <1>3, <2>1, StaleAllowed
  <2>2. CASE ~(answer = "allowed" /\ r = RunOf(c))
    <3>1. run'[r].history = run[r].history
      <4>1. CASE r = RunOf(c)
        <5>1. Outcome(Asked(c), answer, run[r], st) /\ run'[r] = st
          BY <1>3, <4>1, SettlesOutcome
        <5>2. answer # "allowed"
          BY <2>2, <4>1
        <5> QED
          BY <5>1, <5>2 DEF Outcome
      <4>2. CASE r # RunOf(c)
        BY <1>3, <4>2, SettlesOutcome
      <4> QED
        BY <4>1, <4>2
    <3>2. Stale(r, rule.before)' \subseteq Stale(r, rule.before)
      <4>1. ASSUME NEW t \in Threads, Heard(c, answer, t)
            PROVE  Stale(r, rule.before)' \subseteq Stale(r, rule.before)
        BY <1>1, <1>3, <4>1, StaleHeard
      <4>2. ASSUME Unheeded(c, answer)
            PROVE  Stale(r, rule.before)' \subseteq Stale(r, rule.before)
        BY <1>1, <4>2 DEF Unheeded, Stale, Sees
      <4> QED
        BY <1>3, <4>1, <4>2
    <3>3. \A x \in Tools : unheard[r][x] <= unheard'[r][x]
      <4>1. unheard[r] = unheard'[r]
        <5>1. CASE answer = "allowed" /\ Unheeded(c, answer)
          BY <2>2, <5>1 DEF Unheeded, Base, InBooks, Tally
        <5>2. CASE ~(answer = "allowed" /\ Unheeded(c, answer))
          BY <1>3, <5>2 DEF Unheeded, Heard
        <5> QED
          BY <5>1, <5>2
      <4>2. \A x \in Tools : unheard[r][x] \in Nat
        BY DEF Base, InBooks, Tally
      <4> QED
        BY <4>1, <4>2
    <3> QED
      BY <1>1, <3>1, <3>2, <3>3, StaleQuiet
  <2> QED
    BY <2>1, <2>2
<1> QED
  BY <1>2, <1>3, ServeForms

\* Thread t moves, and does not become stale.
LEMMA StaleMoves ==
  ASSUME Base, Base', NEW t \in Threads,
         \A u \in Threads : u # t => at'[u] = at[u] /\ hand'[u] = hand[u],
         scope' = scope, unheard' = unheard, run' = run,
         NEW r \in Runs, NEW before, NEW after, Bounded(r, before, after),
         Marked(r, before) /\ t \in Stale(r, before)' => t \in Stale(r, before)
  PROVE  Bounded(r, before, after)'
<1>1. CASE ~Marked(r, before)
  BY <1>1 DEF Bounded, Marked
<1>2. CASE Marked(r, before)
  <2>1. Stale(r, before)' \subseteq Stale(r, before)
    BY <1>2 DEF Stale, Sees
  <2>2. \A x \in Tools : unheard[r][x] <= unheard'[r][x]
    BY DEF Base, InBooks, Tally
  <2> QED
    BY <2>1, <2>2, StaleQuiet
<1> QED
  BY <1>1, <1>2

LEMMA StaleQuits ==
  ASSUME Base, Base', NEW t \in Threads, Quit(t), NEW r \in Runs, NEW before, NEW after,
         Bounded(r, before, after)
  PROVE  Bounded(r, before, after)'
<1>1. /\ at' = [u \in Threads |-> "dead"] /\ scope' = scope /\ run' = run
      /\ unheard' = [s \in Runs |-> [x \in Tools |->
           unheard[s][x] + Cardinality({u \in Threads :
                             at[u] = "body" /\ scope[u] = s /\ hand[u].on = x})]]
  BY DEF Quit, vars, process
<1>2. Stale(r, before)' \subseteq Stale(r, before)
  BY <1>1 DEF Stale
<1>3. ASSUME NEW x \in Tools
      PROVE  unheard[r][x] <= unheard'[r][x]
  <2>1. PICK S \in SUBSET Threads :
          S = {u \in Threads : at[u] = "body" /\ scope[u] = r /\ hand[u].on = x}
    OBVIOUS
  <2>2. Cardinality(S) \in Nat
    BY <2>1, CountTypes
  <2>3. unheard'[r][x] = unheard[r][x] + Cardinality(S) /\ unheard[r][x] \in Nat
    BY <1>1, <2>1 DEF Base, InBooks, Tally
  <2> QED
    BY <2>2, <2>3
<1> QED
  BY <1>1, <1>2, <1>3, StaleQuiet

LEMMA StaleStep ==
  ASSUME Base, Base', StaleInv, [SdkNext]_<<vars, sdkVars>>, NEW r \in Runs, NEW rule \in OwnRules
  PROVE  Bounded(r, rule.before, rule.after)'
<1> PICK before, after : before = rule.before /\ after = rule.after
  OBVIOUS
<1>1. Bounded(r, before, after)
  BY DEF StaleInv
<1>2. ASSUME NEW t \in Threads, UNCHANGED <<scope, unheard, run>>, NEW p, NEW h, Takes(t, p, h),
             p \notin {"rules", "call"}
      PROVE  Bounded(r, before, after)'
  <2>1. \A u \in Threads : u # t => at'[u] = at[u] /\ hand'[u] = hand[u]
    BY <1>2 DEF Takes
  <2>2. t \notin Stale(r, before)'
    BY <1>2 DEF Takes, Stale
  <2> QED
    BY <1>1, <1>2, <2>1, <2>2, StaleMoves
<1>3. ASSUME NEW t \in Threads, CallTool(t) \/ EnterAgent(t) \/ LeaveAgent(t) \/ Tell(t) \/ RunBody(t)
      PROVE  Bounded(r, before, after)'
  <2>1. UNCHANGED <<scope, unheard, run>>
    BY <1>3 DEF CallTool, EnterAgent, LeaveAgent, Tell, RunBody, vars, process, tallies, counted
  <2>2. \E p \in {"once", "load", "status", "enter", "exit", "tell", "app"} : \E h : Takes(t, p, h)
    BY <1>3, CallToolTakes, EnterAgentBase, LeaveAgentBase, TellBase, RunBodyBase
  <2> QED
    BY <1>2, <2>1, <2>2
<1>4. ASSUME NEW t \in Threads, Once(t) \/ LoadEnds(t) \/ LoadFails(t)
                                  \/ Clear(t) \/ Break(t) \/ Clash(t)
      PROVE  Bounded(r, before, after)'
  <2>1. UNCHANGED <<scope, unheard, run>>
    BY <1>4, OnItsOwn DEF vars, tallies, counted
  <2>2. PICK p \in {"app", "status", "declare", "call", "refuse"} :
          Takes(t, p, hand[t]) /\ (p = "call" => at[t] = "rules")
    BY <1>4, OnItsOwn
  <2>3. CASE p = "call"
    <3>1. \A u \in Threads : u # t => at'[u] = at[u] /\ hand'[u] = hand[u]
      BY <2>2 DEF Takes
    <3>2. t \in Stale(r, before)' => t \in Stale(r, before)
      BY <2>1, <2>2, <2>3 DEF Takes, Stale, Sees
    <3> QED
      BY <1>1, <2>1, <3>1, <3>2, StaleMoves
  <2>4. CASE p # "call"
    BY <1>2, <2>1, <2>2, <2>4
  <2> QED
    BY <2>3, <2>4
<1>5. ASSUME NEW t \in Threads, Status(t)
      PROVE  Bounded(r, before, after)'
  <2>1. /\ UNCHANGED <<scope, unheard, run>>
        /\ \E h \in Locals : h.seen = run[scope[t]].history /\ Takes(t, "rules", h)
    BY <1>5, StatusForm DEF tallies, counted
  <2>2. \A u \in Threads : u # t => at'[u] = at[u] /\ hand'[u] = hand[u]
    BY <2>1 DEF Takes
  <2>3. hand'[t].seen = run[scope[t]].history
    BY <2>1 DEF Takes
  <2>4. Marked(r, before) => t \notin Stale(r, before)'
    BY <2>1, <2>3 DEF Marked, Stale, Sees
  <2> QED
    BY <1>1, <2>1, <2>2, <2>4, StaleMoves
<1>6. ASSUME NEW t \in Threads, Post(t)
      PROVE  Bounded(r, before, after)'
  <2>1. /\ UNCHANGED <<at, scope, unheard, run>> /\ hand'[t].seen = hand[t].seen
        /\ \A u \in Threads : u # t => hand'[u] = hand[u]
    BY <1>6, PostForm DEF Posts, process, tallies, counted
  <2>2. t \in Stale(r, before)' => t \in Stale(r, before)
    BY <2>1 DEF Stale, Sees
  <2> QED
    BY <1>1, <2>1, <2>2, StaleMoves
<1>7. ASSUME NEW t \in Threads, GivesUp(t)
      PROVE  Bounded(r, before, after)'
  <2>1. UNCHANGED <<scope, unheard, run>>
    BY <1>7, GivesUpForms DEF vars, counted
  <2>2. CASE Retried(t)
    <3>1. \A u \in Threads : u # t => at'[u] = at[u] /\ hand'[u] = hand[u]
      BY <2>2 DEF Retried
    <3>2. t \in Stale(r, before)' => t \in Stale(r, before)
      BY <2>1, <2>2 DEF Retried, Stale, Sees
    <3> QED
      BY <1>1, <2>1, <3>1, <3>2, StaleMoves
  <2>3. ASSUME NEW answer, Unanswered(t, answer)
        PROVE  Bounded(r, before, after)'
    BY <1>2, <2>1, <2>3, OnwardPlaces DEF Unanswered
  <2> QED
    BY <1>7, <2>2, <2>3, GivesUpForms
<1>8. CASE Listen \/ Vanish \/ UNCHANGED <<vars, sdkVars>> \/ \E t \in Threads : LoadRule(t)
  <2>1. UNCHANGED <<at, hand, scope, unheard, run>>
    BY <1>8 DEF Listen, Vanish, LoadRule, vars, sdkVars, process, tallies, counted
  <2>2. PICK t \in Threads : TRUE
    BY SdkAssumption
  <2>3. t \in Stale(r, before)' => t \in Stale(r, before)
    BY <2>1 DEF Stale, Sees
  <2> QED
    BY <1>1, <2>1, <2>3, StaleMoves
<1>9. CASE Restart
  <2>1. run'[r].history = <<>>
    BY <1>9, RestartForm
  <2>2. ~Marked(r, before)'
    BY <2>1 DEF Marked
  <2> QED
    BY <2>2 DEF Bounded
<1>10. ASSUME NEW t \in Threads, Quit(t)
       PROVE  Bounded(r, before, after)'
  BY <1>1, <1>10, StaleQuits
<1>11. ASSUME NEW c \in Clients, Serve(c)
       PROVE  Bounded(r, before, after)'
  BY <1>11, StaleServe
<1> QED
  BY <1>3, <1>4, <1>5, <1>6, <1>7, <1>8, <1>9, <1>10, <1>11, SdkSteps

LEMMA ClearedStep ==
  ASSUME Base, StaleInv, [SdkNext]_<<vars, sdkVars>>
  PROVE  Cleared'
<1> SUFFICES ASSUME NEW t \in Threads, NEW rule \in OwnRules,
                    at'[t] = "call", Sees(t, rule.before)'
             PROVE  ~Has(hand'[t].on, rule.after)
  BY DEF Cleared
<1>1. CASE at[t] = "call" /\ hand'[t].on = hand[t].on /\ hand'[t].seen = hand[t].seen
  <2>1. Sees(t, rule.before)
    BY <1>1 DEF Sees
  <2> QED
    BY <1>1, <2>1 DEF StaleInv, Cleared
<1>2. ASSUME NEW u \in Threads, NEW p, NEW h, Takes(u, p, h), p # "call"
      PROVE  ~Has(hand'[t].on, rule.after)
  BY <1>1, <1>2 DEF Takes
<1>3. ASSUME NEW u \in Threads, \/ CallTool(u) \/ EnterAgent(u) \/ LeaveAgent(u) \/ Tell(u)
                                \/ RunBody(u) \/ Status(u)
      PROVE  ~Has(hand'[t].on, rule.after)
  <2>1. \E p \in Places \ {"call"} : \E h : Takes(u, p, h)
    BY <1>3, CallToolTakes, EnterAgentBase, LeaveAgentBase, TellBase, RunBodyBase, StatusForm
       DEF Places, Enforcing, BestEffort
  <2> QED
    BY <1>2, <2>1
<1>4. ASSUME NEW u \in Threads, Once(u) \/ LoadEnds(u) \/ LoadFails(u)
                                  \/ Clear(u) \/ Break(u) \/ Clash(u)
      PROVE  ~Has(hand'[t].on, rule.after)
  <2>1. PICK p : Takes(u, p, hand[u]) /\ (p = "call" => ~Denied(u))
    BY <1>4, OnItsOwn
  <2>2. CASE p = "call" /\ u = t
    <3>1. hand'[t].on = hand[t].on /\ hand'[t].seen = hand[t].seen
      BY <2>1, <2>2 DEF Takes
    <3>2. \E i \in DOMAIN hand[t].seen : Has(hand[t].seen[i], rule.before)
      BY <3>1 DEF Sees
    <3>3. ~Denies(rule, hand[t].seen, hand[t].on)
      BY <2>1, <2>2 DEF Denied, StaleInv
    <3> QED
      BY <3>1, <3>2, <3>3 DEF Denies
  <2>3. CASE p # "call"
    BY <1>2, <2>1, <2>3
  <2>4. CASE u # t
    BY <1>1, <2>1, <2>4 DEF Takes
  <2> QED
    BY <2>2, <2>3, <2>4
<1>5. ASSUME NEW u \in Threads, Post(u) \/ LoadRule(u) \/ Quit(u)
      PROVE  ~Has(hand'[t].on, rule.after)
  <2>1. CASE Post(u)
    <3>1. /\ at' = at /\ \A v \in Threads : v # u => hand'[v] = hand[v]
          /\ hand'[u].on = hand[u].on /\ hand'[u].seen = hand[u].seen
      BY <2>1, PostForm DEF Posts
    <3> QED
      BY <1>1, <3>1
  <2>2. CASE LoadRule(u)
    BY <1>1, <2>2 DEF LoadRule
  <2>3. CASE Quit(u)
    BY <2>3 DEF Quit
  <2> QED
    BY <1>5, <2>1, <2>2, <2>3
<1>6. ASSUME NEW u \in Threads, GivesUp(u)
      PROVE  ~Has(hand'[t].on, rule.after)
  <2>1. CASE Retried(u)
    <3>1. /\ at' = at /\ \A v \in Threads : v # u => hand'[v] = hand[v]
          /\ hand'[u].on = hand[u].on /\ hand'[u].seen = hand[u].seen
      BY <2>1 DEF Retried
    <3> QED
      BY <1>1, <3>1
  <2>2. ASSUME NEW answer, Unanswered(u, answer)
        PROVE  ~Has(hand'[t].on, rule.after)
    BY <1>2, <2>2, OnwardPlaces DEF Unanswered
  <2> QED
    BY <1>6, <2>1, <2>2, GivesUpForms
<1>7. ASSUME NEW c \in Clients, Serve(c)
      PROVE  ~Has(hand'[t].on, rule.after)
  <2>1. CASE at' = at /\ hand' = hand
    BY <1>1, <2>1
  <2>2. ASSUME NEW answer, NEW u \in Threads, Heard(c, answer, u)
        PROVE  ~Has(hand'[t].on, rule.after)
    BY <1>2, <2>2, OnwardPlaces DEF Heard
  <2>3. Ponders(c) => at' = at /\ hand' = hand
    BY DEF Ponders
  <2>4. \A answer : Unheeded(c, answer) => at' = at /\ hand' = hand
    BY DEF Unheeded
  <2> QED
    BY <1>7, <2>1, <2>2, <2>3, <2>4, ServeForms
<1>8. CASE Listen \/ Vanish \/ Restart \/ UNCHANGED <<vars, sdkVars>>
  BY <1>1, <1>8 DEF Listen, Vanish, Restart, sdkVars
<1> QED
  BY <1>3, <1>4, <1>5, <1>6, <1>7, <1>8, SdkSteps

\* A rule once registered stays registered.
LEMMA LoadedGrows ==
  ASSUME Base, [SdkNext]_<<vars, sdkVars>>
  PROVE  loaded \subseteq loaded'
<1>1. ASSUME NEW t \in Threads, \/ CallTool(t) \/ EnterAgent(t) \/ LeaveAgent(t) \/ Tell(t)
                                \/ LoadRule(t) \/ Quit(t) \/ RunBody(t)
      PROVE  loaded \subseteq loaded'
  BY <1>1 DEF CallTool, EnterAgent, LeaveAgent, Tell, LoadRule, Quit, RunBody, process
<1>2. ASSUME NEW t \in Threads, \/ Once(t) \/ LoadEnds(t) \/ LoadFails(t)
                                \/ Clear(t) \/ Break(t) \/ Clash(t)
                                \/ Post(t) \/ Status(t) \/ GivesUp(t)
      PROVE  loaded \subseteq loaded'
  BY <1>2, OnItsOwn, PostForm, StatusForm, GivesUpForms DEF Posts, process
<1>3. ASSUME NEW c \in Clients, Serve(c)
      PROVE  loaded \subseteq loaded'
  BY <1>3, ServeForms DEF Serving
<1>4. CASE Listen \/ Vanish \/ Restart \/ UNCHANGED <<vars, sdkVars>>
  BY <1>4 DEF Listen, Vanish, Restart, sdkVars, process
<1> QED
  BY <1>1, <1>2, <1>3, <1>4, SdkSteps

\* A rule of the application that denies what has one label after what has
\* another decides on a history that may be stale: in any number of threads and
\* runs it is passed by at most one call for each other thread in the run, and
\* one for each allowed call whose answer was lost.
THEOREM RulesAreBounded == SdkSpec => []RuleStalenessBounded
<1>1. SdkInit => StaleInv
  <2> SUFFICES ASSUME SdkInit
               PROVE  StaleInv
    OBVIOUS
  <2>1. ASSUME NEW r \in Runs, NEW rule \in OwnRules
        PROVE  Bounded(r, rule.before, rule.after)
    <3>1. run[r].history = <<>>
      BY InitialBooks DEF SdkInit
    <3>2. ~Marked(r, rule.before)
      BY <3>1 DEF Marked
    <3> QED
      BY <3>2 DEF Bounded
  <2>2. Cleared /\ OwnRules \subseteq loaded
    BY DEF SdkInit, Cleared
  <2> QED
    BY <2>1, <2>2 DEF StaleInv
<1>2. Base /\ Base' /\ StaleInv /\ [SdkNext]_<<vars, sdkVars>> => StaleInv'
  <2> SUFFICES ASSUME Base, Base', StaleInv, [SdkNext]_<<vars, sdkVars>>
               PROVE  StaleInv'
    OBVIOUS
  <2>1. \A r \in Runs, rule \in OwnRules : Bounded(r, rule.before, rule.after)'
    BY StaleStep
  <2>2. Cleared' /\ OwnRules \subseteq loaded'
    BY ClearedStep, LoadedGrows DEF StaleInv
  <2> QED
    BY <2>1, <2>2 DEF StaleInv
<1>3. Base /\ StaleInv => RuleStalenessBounded
  <2> SUFFICES ASSUME Base, StaleInv, NEW r \in open, NEW rule \in OwnRules,
                      RecordedAfter(r, rule.before, rule.after) # {}
               PROVE  Cardinality(RecordedAfter(r, rule.before, rule.after))
                        <= Cardinality(Crew(r)) - 1 + Total(unheard[r], Tools)
    BY DEF RuleStalenessBounded, Crew, Total
  <2>1. r \in Runs
    BY DEF Base, SdkTypeOK, TypeOK
  <2>2. Marked(r, rule.before)
    <3>1. PICK i \in DOMAIN run[r].history :
            \E j \in 1 .. (i - 1) : Has(run[r].history[j], rule.before)
      BY DEF RecordedAfter
    <3>2. PICK j \in 1 .. (i - 1) : Has(run[r].history[j], rule.before)
      BY <3>1
    <3>3. DOMAIN run[r].history = 1 .. Len(run[r].history) /\ Len(run[r].history) \in Nat
      BY <2>1, StaleTypes
    <3>4. j \in DOMAIN run[r].history
      BY <3>1, <3>2, <3>3
    <3> QED
      BY <3>2, <3>4 DEF Marked
  <2>3. PICK j, k : j = Cardinality(RecordedAfter(r, rule.before, rule.after))
                    /\ k = Cardinality(Stale(r, rule.before))
    OBVIOUS
  <2>4. j \in Nat /\ k \in Nat /\ Cardinality(Crew(r)) \in Nat /\ Total(unheard[r], Tools) \in Nat
    BY <2>1, <2>3, StaleTypes
  <2>5. j + k <= Cardinality(Crew(r)) - 1 + Total(unheard[r], Tools)
    BY <2>1, <2>2, <2>3 DEF StaleInv, Bounded
  <2> QED
    BY <2>3, <2>4, <2>5
<1> QED
  BY <1>1, <1>2, <1>3, AlwaysBase, PTL DEF SdkSpec

-----------------------------------------------------------------------------
(* The scopes of a run *)

\* Only a request that is refused for a stopped run waits at the gate.
Gated == \A c \in Clients : pc[c] = "gate" => Asked(c).op \notin Ungated

LEMMA GatedStep == Base /\ Gated /\ [SdkNext]_<<vars, sdkVars>> => Gated'
<1> SUFFICES ASSUME Base, Gated, [SdkNext]_<<vars, sdkVars>>, NEW c \in Clients, pc'[c] = "gate"
             PROVE  Asked(c)'.op \notin Ungated
  BY DEF Gated
<1>1. CASE pc'[c] = pc[c] /\ call'[c] = call[c]
  BY <1>1 DEF Gated, Asked
<1>2. ASSUME NEW t \in Threads, Post(t)
      PROVE  Asked(c)'.op \notin Ungated
  <2>1. PICK d \in Clients : Arrive(d) /\ Posts(t, d)
    BY <1>2, PostForm
  <2>2. CASE c # d
    BY <1>1, <2>1, <2>2 DEF Posts
  <2>3. CASE c = d
    <3>1. PICK r \in Runs, q \in Requests :
            /\ call' = [call EXCEPT ![c] = [run |-> r, q |-> q]]
            /\ pc' = [pc EXCEPT ![c] = IF q.op \in Ungated THEN "apply" ELSE "gate"]
      BY <2>1, <2>3 DEF Arrive
    <3>2. /\ call \in [Clients -> Calls \cup {NoCall}] /\ pc \in [Clients -> Steps]
      BY DEF Base, SdkTypeOK, TypeOK
    <3>3. call'[c] = [run |-> r, q |-> q] /\ q.op \notin Ungated
      BY <3>1, <3>2
    <3> QED
      BY <3>3 DEF Asked
  <2> QED
    BY <2>2, <2>3
<1>3. ASSUME NEW d \in Clients, Serve(d)
      PROVE  Asked(c)'.op \notin Ungated
  <2>1. pc \in [Clients -> Steps] /\ call \in [Clients -> Calls \cup {NoCall}]
    BY DEF Base, SdkTypeOK, TypeOK
  <2>2. \/ call' = call /\ \E next : next # "gate" /\ pc' = [pc EXCEPT ![d] = next]
        \/ Answered(d)
    BY <1>3 DEF Serve, Admit, Policy, Refuse, Deny, Allow, Fail, Apply, Evaluate
  <2>3. c # d
    BY <2>1, <2>2 DEF Answered
  <2>4. pc'[c] = pc[c] /\ call'[c] = call[c]
    BY <2>1, <2>2, <2>3 DEF Answered
  <2> QED
    BY <1>1, <2>4
<1>4. ASSUME NEW t \in Threads, \/ CallTool(t) \/ EnterAgent(t) \/ LeaveAgent(t) \/ Tell(t)
                                \/ LoadRule(t) \/ Quit(t) \/ RunBody(t)
      PROVE  Asked(c)'.op \notin Ungated
  BY <1>1, <1>4 DEF CallTool, EnterAgent, LeaveAgent, Tell, LoadRule, Quit, RunBody, vars
<1>5. ASSUME NEW t \in Threads, \/ Once(t) \/ LoadEnds(t) \/ LoadFails(t)
                                \/ Clear(t) \/ Break(t) \/ Clash(t) \/ Status(t) \/ GivesUp(t)
      PROVE  Asked(c)'.op \notin Ungated
  BY <1>1, <1>5, OnItsOwn, StatusForm, GivesUpForms DEF vars
<1>6. CASE Vanish
  BY <1>6 DEF Vanish
<1>7. CASE Listen \/ Restart \/ UNCHANGED <<vars, sdkVars>>
  BY <1>1, <1>7 DEF Listen, Restart, vars
<1> QED
  BY <1>2, <1>3, <1>4, <1>5, <1>6, <1>7, SdkSteps

\* The requests in flight that nobody waits for any more.
Left(r, op) ==
  {c \in Clients :
     pc[c] # "idle" /\ (\A t \in Threads : hand[t].slot # c)
       /\ RunOf(c) = r /\ Asked(c).op = op}

\* The threads leaving a scope that wait for a governor that is gone.
Lost(r) ==
  {t \in Threads :
     scope[t] = r /\ at[t] = "exit" /\ hand[t].slot # NoSlot /\ pc[hand[t].slot] = "idle"}

\* The @agent functions the threads of run r are in.
Nested(r) == Lens(inside, Crew(r))

\* The stack of run r and the scopes its threads are in.  Each entry too many,
\* of the stack or on its way to it, is one fault's; a scope to be left without
\* a request is one to spare.
Balanced(r) ==
  /\ Cardinality(Left(r, "enter")) <= faults
  /\ governor = "absent" => run[r].stack = <<>>
  /\ governor = "up" =>
       Len(run[r].stack) + Cardinality(Left(r, "enter")) + Cardinality(Lost(r))
         <= Nested(r) + faults
  /\ restarts = 0 /\ governor # "gone" /\ (sdk = "python" \/ ~(silent \/ Stopped(run[r]))) =>
       Nested(r) + Cardinality(Left(r, "exit")) <= Len(run[r].stack)

\* A Rust process whose calls were all answered has reached the governor before
\* it leaves a scope, and does not try that call again.
Contact ==
  ~silent /\ sdk = "rust" =>
    \A t \in Threads : /\ inside[t] # <<>> => reached
                       /\ at[t] = "exit" => ~hand[t].armed

Alive == \A t \in Threads : at[t] # "dead"

ScopeInv == Alive => Contact /\ \A r \in Runs : Balanced(r)

LEMMA ScopeTypes ==
  ASSUME Base, NEW r \in Runs
  PROVE  /\ \A op : Left(r, op) \in SUBSET Clients /\ Cardinality(Left(r, op)) \in Nat
         /\ Lost(r) \in SUBSET Crew(r) /\ Cardinality(Lost(r)) \in Nat
         /\ Crew(r) \in SUBSET Threads /\ IsFiniteSet(Crew(r))
         /\ Len(run[r].stack) \in Nat /\ Nested(r) \in Nat
         /\ \A t \in Threads : Len(inside[t]) \in Nat
         /\ Nested(r) = Total([t \in Crew(r) |-> Len(inside[t])], Crew(r))
         /\ Cardinality(Lost(r)) <= Nested(r)
         /\ faults \in Nat /\ restarts \in Nat
<1>1. \A op : Left(r, op) \in SUBSET Clients /\ Cardinality(Left(r, op)) \in Nat
  <2>1. \A op : Left(r, op) \in SUBSET Clients
    BY DEF Left
  <2> QED
    BY <2>1, CountTypes
<1>2. Crew(r) \in SUBSET Threads /\ Lost(r) \in SUBSET Crew(r)
  BY DEF Crew, Lost
<1>3. IsFiniteSet(Crew(r)) /\ Lost(r) \in SUBSET Threads /\ Cardinality(Lost(r)) \in Nat
  BY <1>2, CountTypes
<1>4. \A t \in Threads : inside[t] \in Seq(Names) /\ Len(inside[t]) \in Nat
  BY DEF Base, SdkTypeOK
<1>5. PICK S, g : S = Crew(r) /\ g = [t \in S |-> Len(inside[t])]
  OBVIOUS
<1>6. \A t \in S : Len(inside[t]) \in Nat /\ g[t] = Len(inside[t])
  BY <1>2, <1>4, <1>5
<1>7. Lens(inside, S) = Total(g, S)
  <2>1. Lens(inside, S) = Total([t \in S |-> Len(inside[t])], S)
    BY <1>3, <1>5, <1>6, LensIsTotal
  <2> QED
    BY <1>5, <2>1
<1>8. Total(g, S) \in Nat
  BY <1>3, <1>5, <1>6, TotalNat
<1>9. Cardinality(Lost(r)) <= Total(g, S)
  <2>1. \A t \in Lost(r) : g[t] >= 1
    <3>1. ASSUME NEW t \in Lost(r)
          PROVE  inside[t] # <<>> /\ inside[t] \in Seq(Names) /\ t \in S
      BY <1>2, <1>4, <1>5, <3>1 DEF Lost, Base, InPlace
    <3> QED
      BY <1>6, <3>1
  <2> QED
    BY <1>2, <1>3, <1>5, <1>6, <2>1, TotalCovers
<1>10. Len(run[r].stack) \in Nat
  BY DEF Base, SdkTypeOK, TypeOK, RunStates
<1>11. faults \in Nat /\ restarts \in Nat
  BY DEF Base, InBooks
<1> QED
  BY <1>1, <1>2, <1>3, <1>4, <1>5, <1>7, <1>8, <1>9, <1>10, <1>11 DEF Nested

\* What thread t does to the scopes of run r.
LEMMA NestedMoves ==
  ASSUME Base, Base', scope' = scope, NEW t \in Threads,
         \A u \in Threads : u # t => inside'[u] = inside[u], NEW r \in Runs
  PROVE  /\ Nested(r)' \in Nat
         /\ Nested(r)' + (IF scope[t] = r THEN Len(inside[t]) ELSE 0)
              = Nested(r) + (IF scope[t] = r THEN Len(inside'[t]) ELSE 0)
<1>1. PICK S, g, h : /\ S = Crew(r) /\ S = Crew(r)'
                     /\ g = [u \in S |-> Len(inside[u])] /\ h = [u \in S |-> Len(inside'[u])]
  BY DEF Crew
<1>2. S \in SUBSET Threads /\ IsFiniteSet(S)
  BY <1>1, ScopeTypes
<1>3. PICK after : after = inside'
  OBVIOUS
<1>4. \A u \in S : Len(inside[u]) \in Nat /\ Len(after[u]) \in Nat
  BY <1>2, <1>3 DEF Base, SdkTypeOK
<1>5. \A u \in S : /\ g[u] \in Nat /\ g[u] = Len(inside[u])
                   /\ h[u] \in Nat /\ h[u] = Len(after[u]) /\ (u # t => g[u] = h[u])
  BY <1>1, <1>2, <1>3, <1>4
<1>6. Nested(r) = Total(g, S)
  BY <1>1, ScopeTypes
<1>7. Nested(r)' = Total(h, S)
  <2>1. Lens(after, S) = Total([u \in S |-> Len(after[u])], S)
    BY <1>2, <1>4, LensIsTotal
  <2>2. h = [u \in S |-> Len(after[u])]
    BY <1>1, <1>3
  <2>3. Nested(r)' = Lens(after, S)
    BY <1>1, <1>3 DEF Nested
  <2> QED
    BY <2>1, <2>2, <2>3
<1>8. Total(g, S) \in Nat /\ Total(h, S) \in Nat
  BY <1>2, <1>5, TotalNat
<1>9. CASE scope[t] = r
  <2>1. t \in S
    BY <1>1, <1>9 DEF Crew
  <2>2. \A u \in S : g[u] \in Nat /\ h[u] \in Nat /\ (u # t => g[u] = h[u])
    BY <1>5
  <2>3. IsFiniteSet(S)
    BY <1>2
  <2>4. Total(h, S) + g[t] = Total(g, S) + h[t]
    BY <2>1, <2>2, <2>3, TotalPoint
  <2> QED
    BY <1>3, <1>5, <1>6, <1>7, <1>8, <1>9, <2>1, <2>4
<1>10. CASE scope[t] # r
  <2>1. t \notin S
    BY <1>1, <1>10 DEF Crew
  <2>2. \A u \in S : Len(inside[u]) = Len(inside'[u])
    BY <1>3, <1>5, <2>1
  <2>3. g = h
    BY <1>1, <2>2
  <2> QED
    BY <1>6, <1>7, <1>8, <1>10, <2>3
<1> QED
  BY <1>9, <1>10

\* Thread t moves, waiting for nothing before or after.
LEMMA LeftStays ==
  ASSUME NEW t \in Threads, \A u \in Threads : u # t => at'[u] = at[u] /\ hand'[u] = hand[u],
         hand[t].slot = NoSlot, hand'[t].slot = NoSlot, UNCHANGED <<pc, call, scope>>,
         NEW r
  PROVE  Lost(r)' = Lost(r) /\ \A op : Left(r, op)' = Left(r, op)
<1>1. \A c \in Clients : (\A u \in Threads : hand'[u].slot # c) <=> (\A u \in Threads : hand[u].slot # c)
  BY SdkAssumption
<1>2. \A op : Left(r, op)' = Left(r, op)
  BY <1>1 DEF Left, RunOf, Asked
<1>3. Lost(r)' = Lost(r)
  BY DEF Lost
<1> QED
  BY <1>2, <1>3

\* Nothing happens to the scopes of run r, the governor or the requests left.
LEMMA BalanceStays ==
  ASSUME Base, Base', NEW r \in Runs, Balanced(r),
         Lost(r)' = Lost(r), \A op : Left(r, op)' = Left(r, op),
         run'[r].stack = run[r].stack, Stopped(run[r]) => Stopped(run'[r]),
         UNCHANGED <<inside, scope, sdk, governor, restarts, faults, silent>>
  PROVE  Balanced(r)'
<1>1. Nested(r)' = Nested(r)
  BY DEF Nested, Crew
<1> QED
  BY <1>1 DEF Balanced

\* The steps of the threads that ask the governor nothing, or only to read.
LEMMA BalanceOfThreads ==
  ASSUME Base, Base', NEW r \in Runs, Balanced(r), NEW t \in Threads,
         \/ CallTool(t) \/ EnterAgent(t) \/ LeaveAgent(t) \/ Tell(t) \/ RunBody(t)
         \/ Once(t) \/ LoadEnds(t) \/ LoadFails(t) \/ Clear(t) \/ Break(t) \/ Clash(t)
         \/ Status(t)
  PROVE  Balanced(r)'
<1>1. /\ UNCHANGED <<run, pc, call, sdk, governor, scope, inside, restarts, faults, silent>>
      /\ at[t] \in {"app", "body", "once", "load", "rules", "status"}
  <2>1. CASE CallTool(t) \/ EnterAgent(t) \/ LeaveAgent(t) \/ Tell(t) \/ RunBody(t)
    BY <2>1 DEF CallTool, EnterAgent, LeaveAgent, Tell, RunBody, vars, process, tallies, counted
  <2>2. CASE Once(t) \/ LoadEnds(t) \/ LoadFails(t) \/ Clear(t) \/ Break(t) \/ Clash(t)
    BY <2>2, OnItsOwn DEF vars, tallies, counted
  <2>3. CASE Status(t)
    BY <2>3, StatusForm DEF tallies, counted
  <2> QED
    BY <2>1, <2>2, <2>3
<1>2. \E p, h : Takes(t, p, h)
  BY CallToolTakes, EnterAgentBase, LeaveAgentBase, TellBase, RunBodyBase, StatusForm, OnItsOwn
<1>3. /\ \A u \in Threads : u # t => at'[u] = at[u] /\ hand'[u] = hand[u]
      /\ hand'[t].slot = NoSlot
  BY <1>2 DEF Takes
<1>4. hand[t].slot = NoSlot
  BY <1>1 DEF Base, InSlots, Posting, Enforcing, BestEffort
<1>5. Lost(r)' = Lost(r) /\ \A op : Left(r, op)' = Left(r, op)
  BY <1>1, <1>3, <1>4, LeftStays
<1> QED
  BY <1>1, <1>5, BalanceStays

LEMMA BalanceOfPost ==
  ASSUME Base, Base', NEW r \in Runs, Balanced(r), NEW t \in Threads, Post(t)
  PROVE  Balanced(r)'
<1>1. PICK c \in Clients : Posts(t, c)
  BY PostForm
<1>2. /\ UNCHANGED <<run, at, sdk, governor, scope, inside, restarts, faults, silent>>
      /\ hand[t].slot = NoSlot /\ hand'[t].slot = c /\ pc[c] = "idle" /\ pc'[c] # "idle"
      /\ \A u \in Threads : hand[u].slot # c
      /\ \A u \in Threads : u # t => hand'[u] = hand[u]
      /\ \A d \in Clients : d # c => pc'[d] = pc[d] /\ call'[d] = call[d]
  BY <1>1 DEF Posts, process, tallies, counted
<1>3. ASSUME NEW op, NEW d \in Clients
      PROVE  d \in Left(r, op)' <=> d \in Left(r, op)
  <2>1. CASE d = c
    BY <1>2, <2>1 DEF Left
  <2>2. CASE d # c
    <3>1. (\A u \in Threads : hand'[u].slot # d) <=> (\A u \in Threads : hand[u].slot # d)
      BY <1>2, <2>2, SdkAssumption
    <3> QED
      BY <1>2, <2>2, <3>1 DEF Left, RunOf, Asked
  <2> QED
    BY <2>1, <2>2
<1>4. \A op : Left(r, op)' = Left(r, op)
  <2> SUFFICES ASSUME NEW op
               PROVE  Left(r, op)' = Left(r, op)
    OBVIOUS
  <2>1. PICK C, D : C = Left(r, op) /\ D = Left(r, op)'
    OBVIOUS
  <2>2. C \subseteq Clients /\ D \subseteq Clients
    BY <2>1 DEF Left
  <2>3. \A d \in Clients : d \in D <=> d \in C
    BY <1>3, <2>1
  <2>4. C = D
    BY <2>2, <2>3
  <2> QED
    BY <2>1, <2>4
<1>5. ASSUME NEW u \in Threads
      PROVE  u \in Lost(r)' <=> u \in Lost(r)
  <2>1. CASE u = t
    BY <1>2, <2>1 DEF Lost
  <2>2. CASE u # t
    <3>1. hand[u].slot = NoSlot \/ (hand[u].slot \in Clients /\ hand[u].slot # c)
      BY <1>2 DEF Base, SdkTypeOK, Locals
    <3> QED
      BY <1>2, <2>2, <3>1 DEF Lost
  <2> QED
    BY <2>1, <2>2
<1>6. Lost(r)' = Lost(r)
  <2>1. Lost(r) \subseteq Threads /\ Lost(r)' \subseteq Threads
    BY DEF Lost
  <2> QED
    BY <1>5, <2>1
<1> QED
  BY <1>2, <1>4, <1>6, BalanceStays

\* Thread t waits no more: the request it waited for, if it is in flight, is left.
LEMMA LeftGrows ==
  ASSUME Base, NEW t \in Threads, \A u \in Threads : u # t => at'[u] = at[u] /\ hand'[u] = hand[u],
         hand'[t].slot = NoSlot, UNCHANGED <<pc, call, scope>>, NEW r \in Runs
  PROVE  /\ Cardinality(Left(r, "enter")') =
              Cardinality(Left(r, "enter")) + (IF Live(t) /\ scope[t] = r /\ at[t] = "enter" THEN 1 ELSE 0)
         /\ Cardinality(Left(r, "exit")') =
              Cardinality(Left(r, "exit")) + (IF Live(t) /\ scope[t] = r /\ at[t] = "exit" THEN 1 ELSE 0)
         /\ Cardinality(Lost(r)') \in Nat
         /\ Cardinality(Lost(r)') + (IF t \in Lost(r) THEN 1 ELSE 0) = Cardinality(Lost(r))
<1>1. ASSUME NEW op
      PROVE  Cardinality(Left(r, op)') =
               Cardinality(Left(r, op)) + (IF Live(t) /\ scope[t] = r /\ Request(t).op = op THEN 1 ELSE 0)
  <2>1. PICK C, D : C = Left(r, op) /\ D = Left(r, op)'
    OBVIOUS
  <2>2. C \in SUBSET Clients /\ D \in SUBSET Clients
    BY <2>1 DEF Left
  <2>3. PICK c : c = hand[t].slot
    OBVIOUS
  <2>4. \A d \in Clients : d # c =>
          ((\A u \in Threads : hand'[u].slot # d) <=> (\A u \in Threads : hand[u].slot # d))
    BY <2>3, SdkAssumption
  <2>5. \A d \in Clients : d # c => (d \in C <=> d \in D)
    BY <2>1, <2>4 DEF Left, RunOf, Asked
  <2>6. /\ Cardinality(C) \in Nat /\ Cardinality(D) \in Nat
        /\ Cardinality(D) + (IF c \in C THEN 1 ELSE 0) = Cardinality(C) + (IF c \in D THEN 1 ELSE 0)
    BY <2>2, <2>5, SlotMoves
  <2>7. c \notin C
    BY <2>1, <2>3 DEF Left
  <2>8. c \in D <=> Live(t) /\ scope[t] = r /\ Request(t).op = op
    <3>1. CASE c = NoSlot
      BY <2>2, <2>3, <3>1, SdkAssumption DEF Live
    <3>2. CASE c # NoSlot
      <4>1. c \in Clients
        BY <2>3, <3>2 DEF Base, SdkTypeOK, Locals
      <4>2. \A u \in Threads : hand'[u].slot # c
        BY <2>3, <3>2 DEF Base, InSlots
      <4>3. pc[c] # "idle" => RunOf(c) = scope[t] /\ Asked(c) = Request(t)
        BY <2>3, <3>2 DEF Base, InSlots
      <4>4. c \in D <=> pc[c] # "idle" /\ RunOf(c) = r /\ Asked(c).op = op
        BY <2>1, <4>1, <4>2 DEF Left, RunOf, Asked
      <4> QED
        BY <2>3, <3>2, <4>3, <4>4 DEF Live
    <3> QED
      BY <3>1, <3>2
  <2> QED
    BY <2>1, <2>6, <2>7, <2>8
<1>2. Live(t) => /\ Request(t).op = "enter" <=> at[t] = "enter"
                 /\ Request(t).op = "exit" <=> at[t] = "exit"
  BY RequestForm DEF Live, Base, InSlots
<1>3. PICK L, M : L = Lost(r) /\ M = Lost(r)'
  OBVIOUS
<1>4. /\ Cardinality(L) \in Nat /\ Cardinality(M) \in Nat
      /\ Cardinality(M) + (IF t \in L THEN 1 ELSE 0) = Cardinality(L) + (IF t \in M THEN 1 ELSE 0)
  <2>1. /\ L \in SUBSET Threads /\ M \in SUBSET Threads
        /\ \A u \in Threads : u # t => (u \in L <=> u \in M)
    BY <1>3 DEF Lost
  <2> QED
    BY <2>1, ThreadMoves
<1>5. t \notin M
  BY <1>3 DEF Lost
<1>6. Cardinality(Left(r, "enter")') =
        Cardinality(Left(r, "enter")) + (IF Live(t) /\ scope[t] = r /\ Request(t).op = "enter" THEN 1 ELSE 0)
  BY <1>1
<1>7. Cardinality(Left(r, "exit")') =
        Cardinality(Left(r, "exit")) + (IF Live(t) /\ scope[t] = r /\ Request(t).op = "exit" THEN 1 ELSE 0)
  BY <1>1
<1> QED
  BY <1>2, <1>3, <1>4, <1>5, <1>6, <1>7

\* A thread whose call goes unanswered leaves its request behind, which is a
\* fault, or waited for a governor that was gone.
LEMMA BalanceOfGivingUp ==
  ASSUME Base, Base', Contact, NEW r \in Runs, Balanced(r), NEW t \in Threads, GivesUp(t)
  PROVE  Balanced(r)'
<1>1. UNCHANGED <<run, pc, call, sdk, governor, scope, restarts>>
  BY GivesUpForms DEF vars
<1>2. /\ \A u \in Threads : u # t => at'[u] = at[u] /\ hand'[u] = hand[u] /\ inside'[u] = inside[u]
      /\ hand'[t].slot = NoSlot
  BY GivesUpForms DEF Retried, Unanswered, Takes, Scoped
<1>3. PICK e, f, x, y, l, m :
        /\ e = Cardinality(Left(r, "enter")) /\ f = Cardinality(Left(r, "enter")')
        /\ x = Cardinality(Left(r, "exit")) /\ y = Cardinality(Left(r, "exit")')
        /\ l = Cardinality(Lost(r)) /\ m = Cardinality(Lost(r)')
  OBVIOUS
<1>4. PICK n, o, k : n = Nested(r) /\ o = Nested(r)' /\ k = Len(run[r].stack)
  OBVIOUS
<1>5. e \in Nat /\ x \in Nat /\ l \in Nat /\ n \in Nat /\ k \in Nat /\ faults \in Nat
  BY <1>3, <1>4, ScopeTypes
<1>6. /\ f = e + (IF Live(t) /\ scope[t] = r /\ at[t] = "enter" THEN 1 ELSE 0)
      /\ y = x + (IF Live(t) /\ scope[t] = r /\ at[t] = "exit" THEN 1 ELSE 0)
      /\ m \in Nat /\ m + (IF t \in Lost(r) THEN 1 ELSE 0) = l
  BY <1>1, <1>2, <1>3, LeftGrows
<1>7. PICK p, q, z :
        /\ p = (IF Live(t) /\ scope[t] = r /\ at[t] = "enter" THEN 1 ELSE 0)
        /\ q = (IF Live(t) /\ scope[t] = r /\ at[t] = "exit" THEN 1 ELSE 0)
        /\ z = (IF t \in Lost(r) THEN 1 ELSE 0)
  OBVIOUS
<1>8. /\ p \in Nat /\ q \in Nat /\ z \in Nat
      /\ f = e + p /\ y = x + q /\ m \in Nat /\ m + z = l
      /\ p <= 1 /\ z <= 1
      /\ (~Live(t) => p = 0 /\ q = 0)
      /\ (~(scope[t] = r /\ at[t] = "exit") => q = 0)
      /\ (Live(t) /\ scope[t] = r /\ at[t] = "exit" => p = 0 /\ q = 1)
      /\ (t \in Lost(r) => z = 1)
  BY <1>6, <1>7
<1>9. PICK a, b : a = Len(inside[t]) /\ b = Len(inside'[t])
  OBVIOUS
<1>10. a \in Nat /\ b \in Nat
  BY <1>9 DEF Base, SdkTypeOK
<1>11. /\ o \in Nat
       /\ (scope[t] = r => o + a = n + b)
       /\ (scope[t] # r => o = n)
  <2>1. o \in Nat /\ o + (IF scope[t] = r THEN a ELSE 0) = n + (IF scope[t] = r THEN b ELSE 0)
    BY <1>1, <1>2, <1>4, <1>9, NestedMoves
  <2>2. CASE scope[t] = r
    BY <2>1, <2>2
  <2>3. CASE scope[t] # r
    BY <1>5, <2>1, <2>3
  <2> QED
    BY <2>2, <2>3
<1>12. f \in Nat /\ y \in Nat /\ m \in Nat /\ m <= l
  BY <1>5, <1>8
<1>13. /\ Unreachable(t) => faults' = faults /\ ~Live(t) /\ (governor = "up" => Waiting(t))
       /\ ~Unreachable(t) => faults' = faults + 1
  BY GivesUpForms DEF Unreachable, Live, Waiting
<1>14. Unreachable(t) /\ governor = "up" /\ scope[t] = r /\ at[t] = "exit" => t \in Lost(r)
  BY <1>13 DEF Unreachable, Waiting, Lost
<1>15. /\ at[t] = "exit" => b + 1 = a
       /\ at[t] # "exit" => b >= a
       /\ (at[t] # "exit" /\ sdk = "python" => b = a)
       \/ inside' = inside
  <2>1. ASSUME NEW answer \in {"none", "refusal"}, Unanswered(t, answer)
        PROVE  /\ at[t] = "exit" => b + 1 = a
               /\ at[t] # "exit" => b >= a
               /\ (at[t] # "exit" /\ sdk = "python" => b = a)
    <3>1. Scoped(t, answer) /\ answer # "ok"
      BY <2>1 DEF Unanswered
    <3>2. CASE at[t] = "exit"
      BY <1>9, <1>10, <3>1, <3>2 DEF Scoped
    <3>3. CASE at[t] = "enter" /\ sdk = "rust"
      <4>1. b = a + 1
        BY <1>9, <3>1, <3>3 DEF Scoped
      <4> QED
        BY <1>10, <3>3, <4>1, SdkAssumption
    <3>4. CASE at[t] # "exit" /\ ~(at[t] = "enter" /\ sdk = "rust")
      <4>1. b = a
        BY <1>9, <3>1, <3>4 DEF Scoped
      <4> QED
        BY <1>10, <3>4, <4>1
    <3> QED
      BY <3>2, <3>3, <3>4
  <2> QED
    BY <2>1, GivesUpForms DEF Retried
<1>16. /\ scope[t] = r /\ at[t] = "exit" => o + 1 >= n
       /\ ~(scope[t] = r /\ at[t] = "exit") => o >= n
  <2>1. b + 1 >= a /\ (at[t] # "exit" => b >= a)
    <3>1. inside' = inside => b = a
      BY <1>9
    <3> QED
      BY <1>10, <1>15, <3>1
  <2>2. CASE scope[t] = r
    BY <1>5, <1>10, <1>11, <2>1, <2>2
  <2>3. CASE scope[t] # r
    BY <1>5, <1>11, <2>3
  <2> QED
    BY <2>2, <2>3
<1>17. f <= faults'
  <2>1. e <= faults
    BY <1>3 DEF Balanced
  <2>2. CASE Unreachable(t)
    BY <1>5, <1>8, <1>13, <2>1, <2>2
  <2>3. CASE ~Unreachable(t)
    BY <1>5, <1>8, <1>13, <2>1, <2>3
  <2> QED
    BY <2>2, <2>3
<1>18. governor = "up" => k + f + m <= o + faults'
  <2> SUFFICES ASSUME governor = "up"
               PROVE  k + f + m <= o + faults'
    OBVIOUS
  <2>1. k + e + l <= n + faults
    BY <1>3, <1>4 DEF Balanced
  <2>2. CASE Unreachable(t)
    <3>1. f = e /\ faults' = faults
      BY <1>5, <1>8, <1>13, <2>2
    <3>2. CASE scope[t] = r /\ at[t] = "exit"
      <4>1. m + 1 = l /\ o + 1 >= n
        BY <1>8, <1>14, <1>16, <2>2, <3>2
      <4> QED
        BY <1>5, <1>11, <1>12, <2>1, <3>1, <4>1
    <3>3. CASE ~(scope[t] = r /\ at[t] = "exit")
      BY <1>5, <1>11, <1>12, <1>16, <2>1, <3>1, <3>3
    <3> QED
      BY <3>2, <3>3
  <2>3. CASE ~Unreachable(t)
    <3>1. faults' = faults + 1 /\ m <= l
      BY <1>12, <1>13, <2>3
    <3>2. p + n <= o + 1
      <4>1. CASE scope[t] = r /\ at[t] = "exit"
        <5>1. p = 0
          BY <1>8, <4>1
        <5> QED
          BY <1>5, <1>11, <1>16, <4>1, <5>1
      <4>2. CASE ~(scope[t] = r /\ at[t] = "exit")
        BY <1>5, <1>8, <1>11, <1>16, <4>2
      <4> QED
        BY <4>1, <4>2
    <3> QED
      BY <1>5, <1>8, <1>11, <1>12, <2>1, <3>1, <3>2
  <2> QED
    BY <2>2, <2>3
<1>19. ASSUME restarts = 0, governor # "gone", sdk = "python" \/ ~(silent' \/ Stopped(run[r]))
       PROVE  o + y <= k
  <2>1. n + x <= k
    <3>1. silent => silent'
      BY GivesUpForms DEF Retried, Unanswered
    <3> QED
      BY <1>3, <1>4, <1>19, <3>1 DEF Balanced
  <2>2. CASE Retried(t)
    <3>1. ~(Live(t) /\ at[t] = "exit")
      <4>1. hand[t].armed /\ silent' = silent
        BY <2>2 DEF Retried, Retrying
      <4>2. CASE sdk = "python"
        BY <4>1, <4>2 DEF Base, InPlace, BestEffort
      <4>3. CASE sdk # "python"
        BY <1>19, <4>1, <4>3, SdkAssumption DEF Contact, Base, SdkTypeOK
      <4> QED
        BY <4>2, <4>3
    <3>2. b = a
      BY <1>9, <2>2 DEF Retried
    <3>3. o = n
      BY <1>5, <1>10, <1>11, <3>2
    <3>4. y = x
      BY <1>5, <1>8, <3>1
    <3> QED
      BY <2>1, <3>3, <3>4
  <2>3. ASSUME NEW answer \in {"none", "refusal"}, Unanswered(t, answer)
        PROVE  o + y <= k
    <3>1. sdk = "python"
      BY <1>19, <2>3 DEF Unanswered
    <3>2. inside' = inside => at[t] # "exit"
      <4>1. at[t] = "exit" => Len(inside[t]) \in Nat \ {0} /\ Len(inside'[t]) = Len(inside[t]) - 1
        BY <2>3 DEF Unanswered, Scoped
      <4> QED
        BY <4>1
    <3>3. inside' = inside => b = a
      BY <1>9
    <3>4. CASE scope[t] = r /\ at[t] = "exit"
      <4>1. b + 1 = a
        BY <1>15, <3>2, <3>4
      <4>2. o + 1 = n
        BY <1>5, <1>10, <1>11, <3>4, <4>1
      <4>3. q <= 1
        BY <1>7
      <4> QED
        BY <1>5, <1>8, <1>11, <2>1, <4>2, <4>3
    <3>5. CASE ~(scope[t] = r /\ at[t] = "exit")
      <4>1. scope[t] = r => b = a
        BY <1>15, <3>1, <3>3, <3>5
      <4>2. o = n /\ q = 0
        BY <1>5, <1>8, <1>10, <1>11, <3>5, <4>1
      <4> QED
        BY <1>5, <1>8, <2>1, <4>2
    <3> QED
      BY <3>4, <3>5
  <2> QED
    BY <2>2, <2>3, GivesUpForms
<1>20. governor = "absent" => run[r].stack = <<>>
  BY DEF Balanced
<1> QED
  BY <1>1, <1>3, <1>4, <1>17, <1>18, <1>19, <1>20 DEF Balanced

\* What an answer does to the requests left and to the threads lost.
LEMMA LeftAnswered ==
  ASSUME Base, NEW c \in Clients, NEW answer, NEW st, Settles(c, answer, st), Serving,
         NEW r \in Runs
  PROVE  /\ \A t \in Threads : Heard(c, answer, t) =>
              Lost(r)' = Lost(r) /\ \A op : Left(r, op)' = Left(r, op)
         /\ Unheeded(c, answer) =>
              /\ Lost(r)' = Lost(r)
              /\ \A op : /\ Cardinality(Left(r, op)') \in Nat
                         /\ Cardinality(Left(r, op)') + (IF RunOf(c) = r /\ Asked(c).op = op THEN 1 ELSE 0)
                              = Cardinality(Left(r, op))
<1>1. /\ pc[c] # "idle" /\ pc'[c] = "idle" /\ scope' = scope
      /\ \A d \in Clients : d # c => pc'[d] = pc[d] /\ call'[d] = call[d]
  BY DEF Settles, Answered, Serving, Base, SdkTypeOK, TypeOK
<1>2. \A u \in Threads : hand[u].slot = NoSlot \/ hand[u].slot \in Clients
  BY DEF Base, SdkTypeOK, Locals
<1>3. ASSUME NEW t \in Threads, Heard(c, answer, t)
      PROVE  Lost(r)' = Lost(r) /\ \A op : Left(r, op)' = Left(r, op)
  <2>1. /\ hand[t].slot = c /\ hand'[t].slot = NoSlot
        /\ \A u \in Threads : u # t => at'[u] = at[u] /\ hand'[u] = hand[u] /\ hand[u].slot # c
    BY <1>3, SdkAssumption DEF Heard, Takes, Base, InSlots
  <2>2. ASSUME NEW u \in Threads
        PROVE  u \in Lost(r)' <=> u \in Lost(r)
    <3>1. CASE u = t
      BY <1>1, <2>1, <3>1 DEF Lost
    <3>2. CASE u # t
      BY <1>1, <1>2, <2>1, <3>2 DEF Lost
    <3> QED
      BY <3>1, <3>2
  <2>3. Lost(r)' = Lost(r)
    <3>1. Lost(r) \subseteq Threads /\ Lost(r)' \subseteq Threads
      BY DEF Lost
    <3> QED
      BY <2>2, <3>1
  <2>4. ASSUME NEW op
        PROVE  Left(r, op)' = Left(r, op)
    <3>1. PICK C, D : C = Left(r, op) /\ D = Left(r, op)'
      OBVIOUS
    <3>2. C \subseteq Clients /\ D \subseteq Clients
      BY <3>1 DEF Left
    <3>3. \A d \in Clients : d # c =>
            ((\A u \in Threads : hand'[u].slot # d) <=> (\A u \in Threads : hand[u].slot # d))
      BY <2>1, SdkAssumption
    <3>4. \A d \in Clients : d # c => (d \in C <=> d \in D)
      BY <1>1, <3>1, <3>3 DEF Left, RunOf, Asked
    <3>5. c \notin C /\ c \notin D
      BY <1>1, <2>1, <3>1 DEF Left
    <3>6. C = D
      BY <3>2, <3>4, <3>5
    <3> QED
      BY <3>1, <3>6
  <2> QED
    BY <2>3, <2>4
<1>4. ASSUME Unheeded(c, answer)
      PROVE  /\ Lost(r)' = Lost(r)
             /\ \A op : /\ Cardinality(Left(r, op)') \in Nat
                        /\ Cardinality(Left(r, op)') + (IF RunOf(c) = r /\ Asked(c).op = op THEN 1 ELSE 0)
                             = Cardinality(Left(r, op))
  <2>1. at' = at /\ hand' = hand /\ \A u \in Threads : hand[u].slot # c
    BY <1>4 DEF Unheeded
  <2>2. ASSUME NEW u \in Threads
        PROVE  u \in Lost(r)' <=> u \in Lost(r)
    BY <1>1, <1>2, <2>1 DEF Lost
  <2>3. Lost(r)' = Lost(r)
    <3>1. Lost(r) \subseteq Threads /\ Lost(r)' \subseteq Threads
      BY DEF Lost
    <3> QED
      BY <2>2, <3>1
  <2>4. ASSUME NEW op
        PROVE  /\ Cardinality(Left(r, op)') \in Nat
               /\ Cardinality(Left(r, op)') + (IF RunOf(c) = r /\ Asked(c).op = op THEN 1 ELSE 0)
                    = Cardinality(Left(r, op))
    <3>1. PICK C, D : C = Left(r, op) /\ D = Left(r, op)'
      OBVIOUS
    <3>2. C \in SUBSET Clients /\ D \in SUBSET Clients
      BY <3>1 DEF Left
    <3>3. \A d \in Clients : d # c => (d \in C <=> d \in D)
      BY <1>1, <2>1, <3>1 DEF Left, RunOf, Asked
    <3>4. /\ Cardinality(C) \in Nat /\ Cardinality(D) \in Nat
          /\ Cardinality(D) + (IF c \in C THEN 1 ELSE 0) = Cardinality(C) + (IF c \in D THEN 1 ELSE 0)
      BY <3>2, <3>3, SlotMoves
    <3>5. c \notin D
      BY <1>1, <3>1 DEF Left
    <3>6. c \in C <=> RunOf(c) = r /\ Asked(c).op = op
      BY <1>1, <2>1, <3>1 DEF Left
    <3> QED
      BY <3>1, <3>4, <3>5, <3>6
  <2> QED
    BY <2>3, <2>4
<1> QED
  BY <1>3, <1>4

\* What an answer does to the stack of run r.
LEMMA StackAnswered ==
  ASSUME Base, Gated, NEW c \in Clients, NEW answer, NEW st, Settles(c, answer, st),
         NEW r \in Runs
  PROVE  /\ Len(run[r].stack) \in Nat /\ Len(run'[r].stack) \in Nat
         /\ Stopped(run[r]) => Stopped(run'[r])
         /\ RunOf(c) # r => Len(run'[r].stack) = Len(run[r].stack) /\ run'[r] = run[r]
         /\ RunOf(c) = r /\ Asked(c).op = "enter" =>
              \/ answer = "ok" /\ Len(run'[r].stack) = Len(run[r].stack) + 1
              \/ answer # "ok" /\ Stopped(run'[r]) /\ Len(run'[r].stack) = Len(run[r].stack)
         /\ RunOf(c) = r /\ Asked(c).op = "exit" =>
              /\ Len(run[r].stack) = 0 => Len(run'[r].stack) = 0
              /\ Len(run[r].stack) > 0 => Len(run'[r].stack) = Len(run[r].stack) - 1
         /\ RunOf(c) = r /\ Asked(c).op \notin {"enter", "exit"} =>
              Len(run'[r].stack) = Len(run[r].stack)
<1>1. Len(run[r].stack) \in Nat
  BY DEF Base, SdkTypeOK, TypeOK, RunStates
<1>2. CASE RunOf(c) # r
  <2>1. run'[r] = run[r]
    BY <1>2, SettlesOutcome
  <2> QED
    BY <1>1, <1>2, <2>1
<1>3. CASE RunOf(c) = r
  <2>1. PICK k, m : k = Len(run[r].stack) /\ m = Len(st.stack)
    OBVIOUS
  <2>2. run'[r] = st /\ Outcome(Asked(c), answer, run[r], st)
    BY <1>3, SettlesOutcome
  <2>3. Stopped(run[r]) => Stopped(st)
    BY <2>2 DEF Outcome
  <2>4. CASE Asked(c).op = "enter"
    <3>1. answer \in {"gone", "ok"}
      BY <2>4 DEF Settles
    <3>2. answer = "ok" => m = k + 1
      BY <2>1, <2>2, <2>4 DEF Outcome
    <3>3. answer = "gone" => m = k /\ Stopped(st)
      BY <2>1, <2>2, <2>4 DEF Outcome
    <3>4. m \in Nat
      BY <1>1, <2>1, <3>1, <3>2, <3>3
    <3> QED
      BY <1>1, <1>3, <2>1, <2>2, <2>3, <2>4, <3>1, <3>2, <3>3, <3>4
  <2>5. CASE Asked(c).op = "exit"
    <3>1. answer = "ok"
      BY <2>5 DEF Settles, Gated, Ungated
    <3>2. m = IF k = 0 THEN 0 ELSE k - 1
      BY <2>1, <2>2, <2>5, <3>1 DEF Outcome
    <3>3. k \in Nat
      BY <1>1, <2>1
    <3>4. m \in Nat /\ (k = 0 => m = 0) /\ (k > 0 => m = k - 1)
      <4>1. CASE k = 0
        BY <3>2, <4>1
      <4>2. CASE k # 0
        BY <3>2, <3>3, <4>2
      <4> QED
        BY <4>1, <4>2
    <3> QED
      BY <1>1, <1>3, <2>1, <2>2, <2>3, <2>5, <3>4
  <2>6. CASE Asked(c).op \notin {"enter", "exit"}
    <3>1. st.stack = run[r].stack
      BY <2>2, <2>6 DEF Outcome
    <3> QED
      BY <1>1, <1>3, <2>2, <2>3, <2>6, <3>1
  <2> QED
    BY <2>4, <2>5, <2>6
<1> QED
  BY <1>2, <1>3

\* Each thread lost is in a scope still.
LEMMA LostCovered ==
  ASSUME NEW S \in SUBSET Threads, NEW L \in SUBSET S, NEW ins,
         \A t \in S : Len(ins[t]) \in Nat, \A t \in L : Len(ins[t]) >= 1
  PROVE  Cardinality(L) <= Lens(ins, S)
<1>1. PICK g : g = [t \in S |-> Len(ins[t])]
  OBVIOUS
<1>2. IsFiniteSet(S)
  BY CountTypes
<1>3. \A t \in S : g[t] \in Nat
  BY <1>1
<1>4. \A t \in L : g[t] >= 1
  BY <1>1
<1>5. Cardinality(L) <= Total(g, S)
  BY <1>2, <1>3, <1>4, TotalCovers
<1>6. Lens(ins, S) = Total([t \in S |-> Len(ins[t])], S)
  BY <1>2, LensIsTotal
<1> QED
  BY <1>1, <1>5, <1>6

LEMMA BalanceOfHeard ==
  ASSUME Base, Base', Gated, NEW r \in Runs, Balanced(r), Serving,
         NEW c \in Clients, NEW answer, NEW st, Settles(c, answer, st),
         NEW t \in Threads, Heard(c, answer, t)
  PROVE  Balanced(r)'
<1>1. UNCHANGED <<sdk, governor, scope, restarts, faults, silent>> /\ governor = "up"
  BY DEF Serving
<1>2. /\ \A u \in Threads : u # t => inside'[u] = inside[u]
      /\ Scoped(t, answer)
  BY DEF Heard, Scoped
<1>3. Lost(r)' = Lost(r) /\ \A op : Left(r, op)' = Left(r, op)
  BY LeftAnswered
<1>4. PICK e, x, l, n, o, k, m :
        /\ e = Cardinality(Left(r, "enter")) /\ x = Cardinality(Left(r, "exit"))
        /\ l = Cardinality(Lost(r)) /\ n = Nested(r) /\ o = Nested(r)'
        /\ k = Len(run[r].stack) /\ m = Len(run'[r].stack)
  OBVIOUS
<1>5. /\ e \in Nat /\ x \in Nat /\ l \in Nat /\ n \in Nat /\ k \in Nat /\ m \in Nat
      /\ faults \in Nat
  BY <1>4, ScopeTypes, StackAnswered
<1>6. PICK a, b : a = Len(inside[t]) /\ b = Len(inside'[t])
  OBVIOUS
<1>7. a \in Nat /\ b \in Nat
  BY <1>6 DEF Base, SdkTypeOK
<1>8. /\ o \in Nat
      /\ (scope[t] = r => o + a = n + b)
      /\ (scope[t] # r => o = n)
  <2>1. o \in Nat /\ o + (IF scope[t] = r THEN a ELSE 0) = n + (IF scope[t] = r THEN b ELSE 0)
    BY <1>1, <1>2, <1>4, <1>6, NestedMoves
  <2>2. CASE scope[t] = r
    BY <2>1, <2>2
  <2>3. CASE scope[t] # r
    BY <1>5, <2>1, <2>3
  <2> QED
    BY <2>2, <2>3
<1>9. /\ RunOf(c) = scope[t] /\ Asked(c) = Request(t)
      /\ Asked(c).op = "enter" <=> at[t] = "enter"
      /\ Asked(c).op = "exit" <=> at[t] = "exit"
  <2>1. hand[t].slot = c /\ pc[c] # "idle" /\ c # NoSlot
    BY SdkAssumption DEF Heard, Settles
  <2>2. at[t] \in Posting /\ RunOf(c) = scope[t] /\ Asked(c) = Request(t)
    BY <2>1 DEF Base, InSlots
  <2> QED
    BY <2>2, RequestForm
<1>10. /\ e <= faults /\ k + e + l <= n + faults
       /\ restarts = 0 /\ (sdk = "python" \/ ~(silent \/ Stopped(run[r]))) => n + x <= k
  BY <1>1, <1>4 DEF Balanced
<1>11. Stopped(run[r]) => Stopped(run'[r])
  BY StackAnswered
<1>12. /\ m + e + l <= o + faults
       /\ restarts = 0 /\ (sdk = "python" \/ ~(silent \/ Stopped(run'[r]))) => o + x <= m
  <2>1. CASE scope[t] # r
    <3>1. m = k /\ o = n /\ run'[r] = run[r]
      BY <1>4, <1>8, <1>9, <2>1, StackAnswered
    <3> QED
      BY <1>10, <3>1
  <2>2. CASE scope[t] = r /\ at[t] = "enter" /\ answer = "ok"
    <3>1. m = k + 1
      BY <1>4, <1>9, <2>2, StackAnswered
    <3>2. b = a + 1
      BY <1>2, <1>6, <2>2 DEF Scoped
    <3>3. o = n + 1
      BY <1>5, <1>7, <1>8, <2>2, <3>2
    <3>4. m + e + l <= o + faults
      BY <1>5, <1>10, <3>1, <3>3
    <3>5. n + x <= k => o + x <= m
      BY <1>5, <3>1, <3>3
    <3> QED
      BY <1>10, <1>11, <3>4, <3>5
  <2>3. CASE scope[t] = r /\ at[t] = "enter" /\ answer # "ok"
    <3>1. m = k /\ Stopped(run'[r])
      BY <1>4, <1>9, <2>3, StackAnswered
    <3>2. CASE sdk = "rust"
      <4>1. b = a + 1
        BY <1>2, <1>6, <2>3, <3>2 DEF Scoped
      <4>2. o = n + 1
        BY <1>5, <1>7, <1>8, <2>3, <4>1
      <4>3. m + e + l <= o + faults
        BY <1>5, <1>10, <3>1, <4>2
      <4> QED
        BY <3>1, <3>2, <4>3
    <3>3. CASE sdk # "rust"
      <4>1. b = a
        BY <1>2, <1>6, <2>3, <3>3 DEF Scoped
      <4>2. o = n
        BY <1>5, <1>7, <1>8, <2>3, <4>1
      <4> QED
        BY <1>10, <1>11, <3>1, <4>2
    <3> QED
      BY <3>2, <3>3
  <2>4. CASE scope[t] = r /\ at[t] = "exit"
    <3>1. /\ k = 0 => m = 0
          /\ k > 0 => m = k - 1
      BY <1>4, <1>9, <2>4, StackAnswered
    <3>2. a \in Nat \ {0} /\ b = a - 1
      BY <1>2, <1>6, <2>4 DEF Scoped
    <3>3. o + 1 = n
      BY <1>5, <1>7, <1>8, <2>4, <3>2
    <3>4. l <= o
      <4>1. PICK S, ins : S = Crew(r) /\ ins = inside'
        OBVIOUS
      <4>2. Lost(r) \in SUBSET S /\ S \in SUBSET Threads
        BY <4>1, ScopeTypes
      <4>3. \A u \in Threads : Len(ins[u]) \in Nat /\ (ins[u] # <<>> => Len(ins[u]) >= 1)
        <5>1. \A u \in Threads : ins[u] \in Seq(Names)
          BY <4>1 DEF Base, SdkTypeOK
        <5> QED
          BY <5>1
      <4>4. \A u \in Lost(r) : u \in Threads /\ ins[u] # <<>>
        <5>1. \A u \in Lost(r)' : u \in Threads /\ inside'[u] # <<>>
          BY DEF Lost, Base, InPlace
        <5> QED
          BY <1>3, <4>1, <5>1
      <4>5. Cardinality(Lost(r)) <= Lens(ins, S)
        <5>1. \A u \in Lost(r) : Len(ins[u]) >= 1
          BY <4>3, <4>4
        <5>2. \A u \in S : Len(ins[u]) \in Nat
          BY <4>2, <4>3
        <5> QED
          BY <4>2, <5>1, <5>2, LostCovered
      <4>6. Nested(r)' = Lens(ins, S)
        BY <1>1, <4>1 DEF Nested, Crew
      <4> QED
        BY <1>4, <4>5, <4>6
    <3>5. CASE k = 0
      <4>1. m + e + l <= o + faults
        BY <1>5, <1>8, <1>10, <3>1, <3>4, <3>5
      <4>2. ~(n + x <= k)
        BY <1>5, <1>8, <3>3, <3>5
      <4> QED
        BY <1>10, <1>11, <4>1, <4>2
    <3>6. CASE k > 0
      <4>1. m + e + l <= o + faults
        BY <1>5, <1>8, <1>10, <3>1, <3>3, <3>6
      <4>2. n + x <= k => o + x <= m
        BY <1>5, <1>8, <3>1, <3>3, <3>6
      <4> QED
        BY <1>10, <1>11, <4>1, <4>2
    <3> QED
      BY <1>5, <3>5, <3>6
  <2>5. CASE scope[t] = r /\ at[t] \notin {"enter", "exit"}
    <3>1. m = k
      BY <1>4, <1>9, <2>5, StackAnswered
    <3>2. b = a
      <4>1. inside'[t] = inside[t]
        BY <1>2, <2>5 DEF Scoped
      <4> QED
        BY <1>6, <4>1
    <3>3. o = n
      <4>1. o + a = n + b
        BY <1>8, <2>5
      <4> QED
        BY <1>5, <1>7, <1>8, <3>2, <4>1
    <3> QED
      BY <1>10, <1>11, <3>1, <3>3
  <2> QED
    BY <2>1, <2>2, <2>3, <2>4, <2>5
<1> QED
  BY <1>1, <1>3, <1>4, <1>10, <1>12 DEF Balanced

LEMMA BalanceOfUnheeded ==
  ASSUME Base, Base', Gated, NEW r \in Runs, Balanced(r), Serving,
         NEW c \in Clients, NEW answer, NEW st, Settles(c, answer, st), Unheeded(c, answer)
  PROVE  Balanced(r)'
<1>1. UNCHANGED <<sdk, governor, scope, restarts, faults, silent>> /\ governor = "up"
  BY DEF Serving
<1>2. Nested(r)' = Nested(r)
  BY <1>1 DEF Unheeded, Nested, Crew
<1>3. PICK e, f, x, y, l, n, k, m :
        /\ e = Cardinality(Left(r, "enter")) /\ f = Cardinality(Left(r, "enter")')
        /\ x = Cardinality(Left(r, "exit")) /\ y = Cardinality(Left(r, "exit")')
        /\ l = Cardinality(Lost(r)) /\ n = Nested(r)
        /\ k = Len(run[r].stack) /\ m = Len(run'[r].stack)
  OBVIOUS
<1>4. /\ f \in Nat /\ y \in Nat /\ Lost(r)' = Lost(r)
      /\ f + (IF RunOf(c) = r /\ Asked(c).op = "enter" THEN 1 ELSE 0) = e
      /\ y + (IF RunOf(c) = r /\ Asked(c).op = "exit" THEN 1 ELSE 0) = x
  BY <1>3, LeftAnswered
<1>5. /\ e \in Nat /\ x \in Nat /\ l \in Nat /\ n \in Nat /\ k \in Nat /\ m \in Nat
      /\ faults \in Nat
  BY <1>3, ScopeTypes, StackAnswered
<1>6. /\ e <= faults /\ k + e + l <= n + faults
      /\ restarts = 0 /\ (sdk = "python" \/ ~(silent \/ Stopped(run[r]))) => n + x <= k
  BY <1>1, <1>3 DEF Balanced
<1>7. Stopped(run[r]) => Stopped(run'[r])
  BY StackAnswered
<1>8. /\ f <= faults /\ m + f + l <= n + faults
      /\ n + x <= k => n + y <= m
  <2>1. CASE RunOf(c) # r
    <3>1. f = e /\ y = x /\ m = k
      BY <1>3, <1>4, <1>5, <2>1, StackAnswered
    <3> QED
      BY <1>6, <3>1
  <2>2. CASE RunOf(c) = r /\ Asked(c).op = "enter"
    <3>1. f + 1 = e /\ y = x
      BY <1>4, <2>2
    <3>2. m = k \/ m = k + 1
      BY <1>3, <2>2, StackAnswered
    <3> QED
      BY <1>4, <1>5, <1>6, <3>1, <3>2
  <2>3. CASE RunOf(c) = r /\ Asked(c).op = "exit"
    <3>1. f = e /\ y + 1 = x
      BY <1>4, <2>3
    <3>2. /\ k = 0 => m = 0
          /\ k > 0 => m = k - 1
      BY <1>3, <2>3, StackAnswered
    <3>3. CASE k = 0
      BY <1>4, <1>5, <1>6, <3>1, <3>2, <3>3
    <3>4. CASE k > 0
      BY <1>4, <1>5, <1>6, <3>1, <3>2, <3>4
    <3> QED
      BY <1>5, <3>3, <3>4
  <2>4. CASE RunOf(c) = r /\ Asked(c).op \notin {"enter", "exit"}
    <3>1. f = e /\ y = x /\ m = k
      BY <1>3, <1>4, <2>4, StackAnswered
    <3> QED
      BY <1>6, <3>1
  <2> QED
    BY <2>1, <2>2, <2>3, <2>4
<1> QED
  BY <1>1, <1>2, <1>3, <1>4, <1>6, <1>7, <1>8 DEF Balanced

\* A governor that starts has nothing in flight; one that ends leaves the
\* scopes as they are.
LEMMA BalanceOfGovernor ==
  ASSUME Base, Base', NEW r \in Runs, Balanced(r), Listen \/ Vanish \/ Restart
  PROVE  Balanced(r)'
<1>1. UNCHANGED <<at, hand, inside, scope, sdk, faults, silent>>
  BY DEF Listen, Vanish, Restart, tallies, counted
<1>2. \A c \in Clients : pc'[c] = "idle"
  BY DEF Listen, Vanish, Restart, vars, Base, InRuns
<1>3. Left(r, "enter")' = {} /\ Left(r, "exit")' = {}
  BY <1>2 DEF Left
<1>4. PICK l, n, k : l = Cardinality(Lost(r)) /\ n = Nested(r) /\ k = Len(run[r].stack)
  OBVIOUS
<1>5. l \in Nat /\ n \in Nat /\ k \in Nat /\ l <= n /\ faults \in Nat /\ restarts \in Nat
  BY <1>4, ScopeTypes
<1>6. Nested(r)' = n /\ Cardinality(Left(r, "enter")') = 0 /\ Cardinality(Left(r, "exit")') = 0
  BY <1>1, <1>3, <1>4, FS_EmptySet DEF Nested, Crew
<1>7. CASE Vanish
  <2>1. governor' = "gone"
    BY <1>7 DEF Vanish
  <2> QED
    BY <1>1, <1>5, <1>6, <2>1 DEF Balanced
<1>8. ASSUME Listen \/ Restart
      PROVE  governor' = "up" /\ run'[r].stack = <<>> /\ Lost(r)' = Lost(r)
  <2>1. governor' = "up" /\ pc' = pc
    BY <1>8 DEF Listen, Restart, vars
  <2>2. Lost(r)' = Lost(r)
    BY <1>1, <2>1 DEF Lost
  <2>3. CASE Listen
    BY <2>1, <2>2, <2>3 DEF Listen, vars, Balanced
  <2>4. CASE Restart
    <3>1. run'[r] = IF r = Primary THEN PlaceholderRun ELSE FreshRun
      BY <2>4 DEF Restart
    <3>2. PlaceholderRun.stack = FreshRun.stack /\ FreshRun.stack = <<>>
      BY FreshRunType DEF PlaceholderRun, FreshRun, RunStates
    <3>3. run'[r].stack = <<>>
      BY <3>1, <3>2
    <3> QED
      BY <2>1, <2>2, <3>3
  <2> QED
    BY <1>8, <2>3, <2>4
<1>9. CASE Listen
  <2>1. governor' = "up" /\ run'[r].stack = <<>> /\ Lost(r)' = Lost(r)
    BY <1>8, <1>9
  <2>2. run' = run /\ restarts' = restarts /\ governor = "absent"
    BY <1>9 DEF Listen, vars, tallies
  <2>3. Cardinality(Lost(r)') = l /\ Len(run'[r].stack) = 0 /\ k = 0
    BY <1>4, <2>1, <2>2
  <2>4. restarts = 0 /\ (sdk = "python" \/ ~(silent \/ Stopped(run[r]))) =>
          n + Cardinality(Left(r, "exit")) <= k
    BY <1>4, <2>2 DEF Balanced
  <2>5. Cardinality(Left(r, "exit")) \in Nat
    BY ScopeTypes
  <2>6. restarts = 0 /\ (sdk = "python" \/ ~(silent \/ Stopped(run[r]))) => n + 0 <= 0
    BY <1>5, <2>3, <2>4, <2>5
  <2>7. 0 <= faults /\ 0 + 0 + l <= n + faults
    BY <1>5
  <2> QED
    BY <1>1, <1>6, <2>1, <2>2, <2>3, <2>6, <2>7 DEF Balanced
<1>10. CASE Restart
  <2>1. governor' = "up" /\ run'[r].stack = <<>> /\ Lost(r)' = Lost(r)
    BY <1>8, <1>10
  <2>2. restarts' # 0
    <3>1. restarts' = restarts + 1
      BY <1>10 DEF Restart
    <3> QED
      BY <1>5, <3>1
  <2>3. Cardinality(Lost(r)') = l /\ Len(run'[r].stack) = 0
    BY <1>4, <2>1
  <2>4. 0 <= faults /\ 0 + 0 + l <= n + faults
    BY <1>5
  <2> QED
    BY <1>1, <1>6, <2>1, <2>2, <2>3, <2>4 DEF Balanced
<1> QED
  BY <1>7, <1>9, <1>10

\* A dead process stays dead, and its threads die together.
LEMMA DeadStays ==
  ASSUME Base, [SdkNext]_<<vars, sdkVars>>, Alive'
  PROVE  Alive /\ ~\E t \in Threads : Quit(t)
<1>1. ASSUME NEW t \in Threads, Quit(t)
      PROVE  FALSE
  BY <1>1 DEF Quit, Alive
<1>2. ASSUME NEW u \in Threads, at[u] = "dead"
      PROVE  FALSE
  <2>1. at'[u] # "dead"
    BY DEF Alive
  <2>2. ASSUME NEW t \in Threads, NEW p, NEW h, Takes(t, p, h), at[t] # "dead"
        PROVE  FALSE
    BY <1>2, <2>1, <2>2 DEF Takes
  <2>3. ASSUME NEW t \in Threads, \/ CallTool(t) \/ EnterAgent(t) \/ LeaveAgent(t) \/ Tell(t)
                                  \/ RunBody(t) \/ Once(t) \/ LoadEnds(t) \/ LoadFails(t)
                                  \/ Clear(t) \/ Break(t) \/ Clash(t) \/ Status(t)
        PROVE  FALSE
    <3>1. at[t] # "dead"
      BY <2>3 DEF CallTool, EnterAgent, LeaveAgent, Tell, RunBody, Once, LoadEnds, LoadFails,
                  Clear, Break, Clash, Status
    <3>2. \E p, h : Takes(t, p, h)
      BY <2>3, CallToolTakes, EnterAgentBase, LeaveAgentBase, TellBase, RunBodyBase, StatusForm,
         OnItsOwn
    <3> QED
      BY <2>2, <3>1, <3>2
  <2>4. ASSUME NEW t \in Threads, GivesUp(t)
        PROVE  FALSE
    <3>1. at[t] # "dead"
      BY <2>4, GivesUpForms DEF Sending, Enforcing, BestEffort
    <3>2. at' = at \/ \E p, h : Takes(t, p, h)
      BY <2>4, GivesUpForms DEF Retried, Unanswered
    <3> QED
      BY <1>2, <2>1, <2>2, <3>1, <3>2
  <2>5. ASSUME NEW c \in Clients, Serve(c)
        PROVE  FALSE
    <3>1. ASSUME NEW answer, NEW t \in Threads, Heard(c, answer, t)
          PROVE  FALSE
      <4>1. hand[t].slot # NoSlot
        BY <3>1, SdkAssumption DEF Heard
      <4>2. at[t] # "dead"
        BY <4>1 DEF Base, InSlots, Posting, Enforcing, BestEffort
      <4> QED
        BY <2>2, <3>1, <4>2 DEF Heard
    <3>2. CASE at' = at
      BY <1>2, <2>1, <3>2
    <3> QED
      BY <2>5, <3>1, <3>2, ServeForms DEF Ponders, Unheeded
  <2>6. CASE \E t \in Threads : LoadRule(t) \/ Post(t)
    BY <1>2, <2>1, <2>6, PostForm DEF LoadRule, Posts
  <2>7. CASE Listen \/ Vanish \/ Restart \/ UNCHANGED <<vars, sdkVars>>
    BY <1>2, <2>1, <2>7 DEF Listen, Vanish, Restart, sdkVars
  <2> QED
    BY <1>1, <2>3, <2>4, <2>5, <2>6, <2>7, SdkSteps
<1> QED
  BY <1>1, <1>2 DEF Alive

\* A scope is entered by an answered call, and left by a thread that has
\* reached the governor.
LEMMA ContactStep ==
  ASSUME Base, Base', Contact, Alive', [SdkNext]_<<vars, sdkVars>>
  PROVE  Contact'
<1> SUFFICES ASSUME ~silent', sdk' = "rust", NEW u \in Threads
             PROVE  /\ inside'[u] # <<>> => reached'
                    /\ at'[u] = "exit" => ~hand'[u].armed
  BY DEF Contact
<1> DEFINE Kept == (inside'[u] # <<>> => reached') /\ (at'[u] = "exit" => ~hand'[u].armed)
<1>1. ASSUME sdk' = sdk, silent' = silent, inside' = inside, reached => reached',
             \/ at'[u] = at[u] /\ hand'[u].armed = hand[u].armed
             \/ hand'[u].armed => Armed(at'[u])
      PROVE  Kept
  <2>1. /\ inside[u] # <<>> => reached
        /\ at[u] = "exit" => ~hand[u].armed
    BY <1>1 DEF Contact
  <2>2. at'[u] = "exit" => inside'[u] # <<>>
    BY DEF Base, InPlace
  <2>3. reached => ~Armed(at'[u])
    BY DEF Armed
  <2> QED
    BY <1>1, <2>1, <2>2, <2>3
<1>2. ASSUME sdk' = sdk, silent' = silent, inside' = inside, reached => reached',
             NEW t \in Threads, NEW p, NEW h, Takes(t, p, h)
      PROVE  Kept
  <2>1. CASE u = t
    BY <1>1, <1>2, <2>1 DEF Takes
  <2>2. CASE u # t
    BY <1>1, <1>2, <2>2 DEF Takes
  <2> QED
    BY <2>1, <2>2
<1>3. ASSUME NEW t \in Threads, \/ CallTool(t) \/ EnterAgent(t) \/ LeaveAgent(t) \/ Tell(t)
                                \/ RunBody(t) \/ Once(t) \/ LoadEnds(t) \/ LoadFails(t)
                                \/ Clear(t) \/ Break(t) \/ Clash(t) \/ Status(t)
      PROVE  Kept
  <2>1. /\ sdk' = sdk /\ silent' = silent /\ inside' = inside
        /\ reached => reached'
    <3>1. CASE CallTool(t) \/ EnterAgent(t) \/ LeaveAgent(t) \/ Tell(t) \/ RunBody(t)
      BY <3>1 DEF CallTool, EnterAgent, LeaveAgent, Tell, RunBody, vars, process, tallies, counted
    <3>2. CASE Once(t) \/ LoadEnds(t) \/ LoadFails(t) \/ Clear(t) \/ Break(t) \/ Clash(t)
      BY <3>2, OnItsOwn DEF vars, tallies, counted
    <3>3. CASE Status(t)
      BY <3>3, StatusForm DEF tallies, counted
    <3> QED
      BY <1>3, <3>1, <3>2, <3>3
  <2>2. \E p, h : Takes(t, p, h)
    BY <1>3, CallToolTakes, EnterAgentBase, LeaveAgentBase, TellBase, RunBodyBase, StatusForm,
       OnItsOwn
  <2> QED
    BY <1>2, <2>1, <2>2
<1>4. ASSUME NEW t \in Threads, GivesUp(t)
      PROVE  Kept
  <2>1. sdk' = sdk
    BY <1>4, GivesUpForms
  <2>2. Retried(t)
    BY <1>4, GivesUpForms DEF Unanswered
  <2>3. /\ silent' = silent /\ inside' = inside /\ reached' = reached
        /\ at'[u] = at[u] /\ hand'[u].armed = hand[u].armed
    BY <2>2 DEF Retried
  <2> QED
    BY <1>1, <2>1, <2>3
<1>5. ASSUME NEW c \in Clients, Serve(c)
      PROVE  Kept
  <2>1. sdk' = sdk /\ silent' = silent
    BY <1>5, ServeForms DEF Serving
  <2>2. ASSUME NEW answer, NEW t \in Threads, Heard(c, answer, t)
        PROVE  Kept
    <3>1. reached' = TRUE
      BY <2>1, <2>2 DEF Heard, MakesContact
    <3>2. CASE u = t
      <4>1. at'[u] # "exit"
        BY <2>2, <3>2, OnwardPlaces DEF Heard, Takes
      <4> QED
        BY <3>1, <4>1
    <3>3. CASE u # t
      <4>1. at'[u] = at[u] /\ hand'[u] = hand[u] /\ inside'[u] = inside[u]
        BY <2>2, <3>3 DEF Heard, Takes, Scoped
      <4>2. at[u] = "exit" => ~hand[u].armed
        BY <2>1 DEF Contact
      <4> QED
        BY <3>1, <4>1, <4>2
    <3> QED
      BY <3>2, <3>3
  <2>3. CASE UNCHANGED <<at, hand, inside, reached>>
    BY <1>1, <2>1, <2>3
  <2> HIDE DEF Kept
  <2> QED
    BY <1>5, <2>2, <2>3, ServeForms DEF Ponders, Unheeded
<1>6. ASSUME \E t \in Threads : LoadRule(t)
      PROVE  Kept
  <2>1. UNCHANGED <<at, hand, inside, reached, sdk, silent>>
    BY <1>6 DEF LoadRule, tallies
  <2> QED
    BY <1>1, <2>1
<1>7. ASSUME NEW t \in Threads, Post(t)
      PROVE  Kept
  <2>1. UNCHANGED <<at, inside, reached, sdk, silent>> /\ hand'[u].armed = hand[u].armed
    BY <1>7, PostForm DEF Posts, process, tallies
  <2> QED
    BY <1>1, <2>1
<1>8. ASSUME Listen \/ Vanish \/ Restart \/ UNCHANGED <<vars, sdkVars>>
      PROVE  Kept
  <2>1. UNCHANGED <<at, hand, inside, reached, sdk, silent>>
    BY <1>8 DEF Listen, Vanish, Restart, sdkVars, process, tallies
  <2> QED
    BY <1>1, <2>1
<1>9. ~\E t \in Threads : Quit(t)
  BY DeadStays
<1> HIDE DEF Kept
<1>10. Kept
  BY <1>3, <1>4, <1>5, <1>6, <1>7, <1>8, <1>9, SdkSteps
<1> QED
  BY <1>10 DEF Kept

LEMMA BalanceStep ==
  ASSUME Base, Base', Gated, Contact, Alive', [SdkNext]_<<vars, sdkVars>>,
         NEW r \in Runs, Balanced(r)
  PROVE  Balanced(r)'
<1>1. ASSUME NEW c \in Clients, Serve(c)
      PROVE  Balanced(r)'
  <2>1. Serving
    BY <1>1, ServeForms
  <2>2. CASE Ponders(c)
    <3>1. /\ UNCHANGED <<run, call, at, hand, inside, scope, sdk, governor, restarts, faults, silent>>
          /\ \A d \in Clients : pc'[d] = "idle" <=> pc[d] = "idle"
      BY <2>1, <2>2 DEF Ponders, Serving
    <3>2. \A op : Left(r, op)' = Left(r, op)
      BY <3>1 DEF Left, RunOf, Asked
    <3>3. Lost(r)' = Lost(r)
      <4>1. \A u \in Threads : hand[u].slot = NoSlot \/ hand[u].slot \in Clients
        BY DEF Base, SdkTypeOK, Locals
      <4>2. \A u \in Threads : u \in Lost(r)' <=> u \in Lost(r)
        BY <3>1, <4>1 DEF Lost
      <4>3. Lost(r) \subseteq Threads /\ Lost(r)' \subseteq Threads
        BY DEF Lost
      <4> QED
        BY <4>2, <4>3
    <3> QED
      BY <3>1, <3>2, <3>3, BalanceStays
  <2>3. ASSUME NEW answer, NEW st, Settles(c, answer, st),
               (\E t \in Threads : Heard(c, answer, t)) \/ Unheeded(c, answer)
        PROVE  Balanced(r)'
    BY <2>1, <2>3, BalanceOfHeard, BalanceOfUnheeded
  <2> QED
    BY <1>1, <2>2, <2>3, ServeForms
<1>2. CASE (\E t \in Threads : LoadRule(t)) \/ UNCHANGED <<vars, sdkVars>>
  <2>1. UNCHANGED <<run, pc, call, at, hand, inside, scope, sdk, governor, restarts, faults, silent>>
    BY <1>2 DEF LoadRule, vars, sdkVars, process, tallies, counted
  <2>2. Lost(r)' = Lost(r) /\ \A op : Left(r, op)' = Left(r, op)
    BY <2>1 DEF Lost, Left, RunOf, Asked
  <2>3. run'[r].stack = run[r].stack /\ (Stopped(run[r]) => Stopped(run'[r]))
    BY <2>1
  <2> QED
    BY <2>1, <2>2, <2>3, BalanceStays
<1>3. ~\E t \in Threads : Quit(t)
  BY DeadStays
<1> QED
  BY <1>1, <1>2, <1>3, SdkSteps, BalanceOfThreads, BalanceOfPost, BalanceOfGivingUp,
     BalanceOfGovernor

LEMMA ScopeInit == SdkInit => Gated /\ ScopeInv
<1> SUFFICES ASSUME SdkInit
             PROVE  Gated /\ ScopeInv
  OBVIOUS
<1>1. /\ \A c \in Clients : pc[c] = "idle"
      /\ \A t \in Threads : at[t] = "app" /\ hand[t].slot = NoSlot /\ inside[t] = <<>>
      /\ restarts = 0 /\ faults = 0 /\ governor # "gone"
  BY DEF SdkInit, Init, AtRest
<1>2. Gated /\ Contact
  BY <1>1 DEF Gated, Contact
<1>3. ASSUME NEW r \in Runs
      PROVE  Balanced(r)
  <2>1. run[r].stack = <<>> /\ Len(run[r].stack) = 0
    BY InitialBooks DEF SdkInit
  <2>2. Left(r, "enter") = {} /\ Left(r, "exit") = {} /\ Lost(r) = {}
    BY <1>1 DEF Left, Lost
  <2>3. Nested(r) = 0
    <3>1. PICK S, g : S = Crew(r) /\ g = [t \in S |-> Len(inside[t])]
      OBVIOUS
    <3>2. S \in SUBSET Threads /\ IsFiniteSet(S)
      BY <3>1, CountTypes DEF Crew
    <3>3. \A t \in S : Len(inside[t]) = 0 /\ g[t] = 0
      BY <1>1, <3>1, <3>2
    <3>4. Total(g, S) = 0
      BY <3>2, <3>3, TotalZero
    <3>5. Lens(inside, S) = Total([t \in S |-> Len(inside[t])], S)
      BY <3>2, <3>3, LensIsTotal
    <3> QED
      BY <3>1, <3>4, <3>5 DEF Nested
  <2>4. /\ Cardinality(Left(r, "enter")) = 0 /\ Cardinality(Left(r, "exit")) = 0
        /\ Cardinality(Lost(r)) = 0
    BY <2>2, FS_EmptySet
  <2>5. 0 <= faults /\ 0 + 0 + 0 <= 0 + faults /\ 0 + 0 <= 0
    BY <1>1
  <2> QED
    BY <2>1, <2>3, <2>4, <2>5 DEF Balanced
<1> QED
  BY <1>2, <1>3 DEF ScopeInv

LEMMA ScopeReported == Base /\ ScopeInv => ScopesBalanced
<1> SUFFICES ASSUME Base, ScopeInv, governor # "gone", \A t \in Threads : at[t] # "dead",
                    NEW r \in open
             PROVE  /\ restarts = 0 /\ (sdk = "python" \/ ~(silent \/ Stopped(run[r])))
                         => Nested(r) <= Len(run[r].stack)
                    /\ Len(run[r].stack) <= Nested(r) + faults
  BY DEF ScopesBalanced, Nested, Lens, Crew
<1>1. r \in Runs /\ governor \in {"absent", "up", "gone"}
  BY DEF Base, SdkTypeOK, TypeOK
<1>2. Balanced(r)
  BY <1>1 DEF ScopeInv, Alive
<1>3. PICK e, x, l, n, k :
        /\ e = Cardinality(Left(r, "enter")) /\ x = Cardinality(Left(r, "exit"))
        /\ l = Cardinality(Lost(r)) /\ n = Nested(r) /\ k = Len(run[r].stack)
  OBVIOUS
<1>4. e \in Nat /\ x \in Nat /\ l \in Nat /\ n \in Nat /\ k \in Nat /\ faults \in Nat
  BY <1>1, <1>3, ScopeTypes
<1>5. restarts = 0 /\ (sdk = "python" \/ ~(silent \/ Stopped(run[r]))) => n <= k
  <2>1. restarts = 0 /\ (sdk = "python" \/ ~(silent \/ Stopped(run[r]))) => n + x <= k
    BY <1>2, <1>3 DEF Balanced
  <2> QED
    BY <1>4, <2>1
<1>6. k <= n + faults
  <2>1. CASE governor = "up"
    <3>1. k + e + l <= n + faults
      BY <1>2, <1>3, <2>1 DEF Balanced
    <3> QED
      BY <1>4, <3>1
  <2>2. CASE governor = "absent"
    <3>1. k = 0
      BY <1>2, <1>3, <2>2 DEF Balanced
    <3> QED
      BY <1>4, <3>1
  <2> QED
    BY <1>1, <2>1, <2>2
<1> QED
  BY <1>3, <1>5, <1>6

\* For any crew, any tools and any number of faults: while the process lives
\* and its governor has not gone, the stack the governor keeps of a run names
\* the scopes the process is in, but for one entry too many for each fault;
\* and never one too few in Python, or in Rust while every call was answered
\* and the run goes on.  handle_agent_enter, handle_agent_exit, the @agent
\* decorator and the agent macro.
THEOREM ScopesAreBalanced == SdkSpec => []ScopesBalanced
<1>1. SdkInit => Gated /\ ScopeInv
  BY ScopeInit
<1>2. Base /\ Base' /\ Gated /\ ScopeInv /\ [SdkNext]_<<vars, sdkVars>> => Gated' /\ ScopeInv'
  <2> SUFFICES ASSUME Base, Base', Gated, ScopeInv, [SdkNext]_<<vars, sdkVars>>
               PROVE  Gated' /\ ScopeInv'
    OBVIOUS
  <2>1. Gated'
    BY GatedStep
  <2>2. ASSUME Alive'
        PROVE  Contact' /\ \A r \in Runs : Balanced(r)'
    <3>1. Contact /\ \A r \in Runs : Balanced(r)
      BY <2>2, DeadStays DEF ScopeInv
    <3> QED
      BY <2>2, <3>1, ContactStep, BalanceStep
  <2> QED
    BY <2>1, <2>2 DEF ScopeInv
<1>3. Base /\ ScopeInv => ScopesBalanced
  BY ScopeReported
<1> QED
  BY <1>1, <1>2, <1>3, AlwaysBase, PTL DEF SdkSpec
=============================================================================
