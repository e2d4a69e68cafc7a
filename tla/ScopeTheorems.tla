---------------------------- MODULE ScopeTheorems ----------------------------
(***************************************************************************)
(* What the operators of ScopeTree do, and that the server of ScopeServer  *)
(* stays a tree: the facts that the proofs about Bootstrap and DirCycle    *)
(* share.  First what FoldLeft computes, one element at a time: the        *)
(* induction over the natural numbers is that of WellFoundedInduction,     *)
(* stated for sets; the operator that is folded is given as a function F,  *)
(* F[i] being what the i-th element does.                                  *)
(***************************************************************************)
EXTENDS ScopeServer, WellFoundedInduction, FiniteSetTheorems, SequenceTheorems, TLAPS

Less == {pair \in Nat \X Nat : pair[1] < pair[2]}

(* A set that has zero, and every successor of its members, has all.       *)
LEMMA SetInduction ==
  ASSUME NEW T, 0 \in T, \A n \in Nat : n \in T => n + 1 \in T
  PROVE  Nat \subseteq T
<1>1. IsWellFoundedOn(Less, Nat)
  BY NatLessThanWellFounded DEF OpToRel, Less
<1> SUFFICES ASSUME Nat \ T # {} PROVE FALSE
  OBVIOUS
<1>2. PICK x \in Nat \ T : \A y \in Nat \ T : ~(<<y, x>> \in Less)
  <2> HIDE DEF Less
  <2> QED
    BY <1>1, WFMin
<1>3. x - 1 \in Nat \ T /\ x - 1 < x
  BY <1>2
<1> QED
  BY <1>2, <1>3 DEF Less

(* A set of numbers up to n has a greatest member.                         *)
LEMMA MaxMember ==
  ASSUME NEW n \in Nat, NEW S \in SUBSET (1..n), S # {}
  PROVE  Max(S) \in S /\ \A i \in S : i <= Max(S)
<1> DEFINE T == {k \in Nat : \A R \in SUBSET (1..k) :
                   R # {} => \E m \in R : \A i \in R : i <= m}
<1>1. 0 \in T
  <2>1. 1..0 = {}
    OBVIOUS
  <2>2. \A R \in SUBSET (1..0) : R = {}
    BY <2>1
  <2> QED
    BY <2>2
<1>2. ASSUME NEW k \in Nat, k \in T
      PROVE  k + 1 \in T
  <2> SUFFICES ASSUME NEW R \in SUBSET (1..(k + 1)), R # {}
               PROVE  \E m \in R : \A i \in R : i <= m
    OBVIOUS
  <2>1. CASE k + 1 \in R
    BY <2>1
  <2>2. CASE k + 1 \notin R
    <3>1. R \in SUBSET (1..k)
      BY <2>2
    <3> QED
      BY <1>2, <3>1
  <2> QED
    BY <2>1, <2>2
<1>3. n \in T
  <2> HIDE DEF T
  <2> QED
    BY <1>1, <1>2, SetInduction
<1>4. \E m \in S : \A i \in S : i <= m
  BY <1>3
<1>5. \E m \in S : \A i \in S : m >= i
  BY <1>4
<1> QED
  BY <1>5 DEF Max

-----------------------------------------------------------------------------
(* The values of a fold after each element. *)

(* What the i-th element makes of x.                                       *)
Do(F, i, x) == F[i][x]
Steps(F, n, X) == \A i \in 1..n : \A x \in X : Do(F, i, x) \in X

Chain(f, n, X, b, F) ==
  /\ f \in [0..n -> X] /\ f[0] = b
  /\ \A i \in 1..n : f[i] = Do(F, i, f[i - 1])

(* There is such a chain, of any length,                                   *)
LEMMA ChainExists ==
  ASSUME NEW X, NEW n \in Nat, NEW b \in X, NEW F, Steps(F, n, X)
  PROVE  \E f : Chain(f, n, X, b, F)
<1> DEFINE T == {k \in Nat : k <= n => \E f : Chain(f, k, X, b, F)}
<1>1. 0 \in T
  <2> DEFINE f == [i \in 0..0 |-> b]
  <2>1. Chain(f, 0, X, b, F)
    BY DEF Chain
  <2> QED
    BY <2>1
<1>2. ASSUME NEW k \in Nat, k \in T
      PROVE  k + 1 \in T
  <2> SUFFICES ASSUME k + 1 <= n
               PROVE  \E g : Chain(g, k + 1, X, b, F)
    OBVIOUS
  <2>1. PICK f : Chain(f, k, X, b, F)
    BY <1>2
  <2>2. f \in [0..k -> X] /\ f[0] = b /\ \A i \in 1..k : f[i] = Do(F, i, f[i - 1])
    BY <2>1 DEF Chain
  <2> DEFINE g == [i \in 0..(k + 1) |-> IF i = k + 1 THEN Do(F, k + 1, f[k]) ELSE f[i]]
  <2>3. f[k] \in X /\ Do(F, k + 1, f[k]) \in X
    <3>1. k \in 0..k /\ k + 1 \in 1..n
      OBVIOUS
    <3> QED
      BY <2>2, <3>1 DEF Steps
  <2>4. g \in [0..(k + 1) -> X]
    BY <2>2, <2>3
  <2>5. g[0] = b
    BY <2>2
  <2>6. ASSUME NEW i \in 1..(k + 1)
        PROVE  g[i] = Do(F, i, g[i - 1])
    <3>1. CASE i = k + 1
      BY <3>1
    <3>2. CASE i # k + 1
      <4>1. i \in 1..k /\ i - 1 \in 0..k
        BY <3>2
      <4> QED
        BY <2>2, <4>1
    <3> QED
      BY <3>1, <3>2
  <2> QED
    BY <2>4, <2>5, <2>6 DEF Chain
<1>3. n \in T
  <2> HIDE DEF T
  <2> QED
    BY <1>1, <1>2, SetInduction
<1> QED
  BY <1>3

(* and no other: two chains agree as long as they apply the same.          *)
LEMMA ChainsAgree ==
  ASSUME NEW X, NEW n \in Nat, NEW m \in Nat, NEW b \in X,
         NEW F, NEW G, NEW f, NEW g,
         Chain(f, n, X, b, F), Chain(g, m, X, b, G),
         NEW k \in Nat, k <= n, k <= m, \A i \in 1..k : \A x \in X : Do(F, i, x) = Do(G, i, x)
  PROVE  f[k] = g[k]
<1> DEFINE T == {j \in Nat : j <= k => f[j] = g[j]}
<1>1. 0 \in T
  BY DEF Chain
<1>2. ASSUME NEW j \in Nat, j \in T
      PROVE  j + 1 \in T
  <2> SUFFICES ASSUME j + 1 <= k
               PROVE  f[j + 1] = g[j + 1]
    OBVIOUS
  <2>1. j + 1 \in 1..n /\ j + 1 \in 1..m /\ j + 1 \in 1..k /\ (j + 1) - 1 = j
    OBVIOUS
  <2>2. f[j + 1] = Do(F, j + 1, f[j]) /\ g[j + 1] = Do(G, j + 1, g[j])
    BY <2>1 DEF Chain
  <2>3. j \in 0..m /\ g[j] \in X
    BY <2>1 DEF Chain
  <2> QED
    BY <1>2, <2>1, <2>2, <2>3
<1>3. k \in T
  <2> HIDE DEF T
  <2> QED
    BY <1>1, <1>2, SetInduction
<1> QED
  BY <1>3

(* Where nothing is applied any more, nothing changes.                     *)
LEMMA ChainStill ==
  ASSUME NEW X, NEW n \in Nat, NEW b \in X, NEW F, NEW f, Chain(f, n, X, b, F),
         NEW k \in 0..n, \A i \in 1..n : i > k => \A x \in X : Do(F, i, x) = x
  PROVE  f[n] = f[k]
<1> DEFINE T == {j \in Nat : k + j <= n => f[k + j] = f[k]}
<1>1. 0 \in T
  OBVIOUS
<1>2. ASSUME NEW j \in Nat, j \in T
      PROVE  j + 1 \in T
  <2> SUFFICES ASSUME k + (j + 1) <= n
               PROVE  f[k + (j + 1)] = f[k]
    OBVIOUS
  <2> DEFINE i == k + (j + 1)
  <2>1. i \in 1..n /\ i > k /\ i - 1 = k + j /\ k + j \in 0..n
    OBVIOUS
  <2>2. f[i] = Do(F, i, f[i - 1]) /\ f[k + j] \in X
    BY <2>1 DEF Chain
  <2>3. \A x \in X : Do(F, i, x) = x
    BY <2>1
  <2> HIDE DEF i
  <2>4. f[i] = f[k + j]
    BY <2>1, <2>2, <2>3
  <2>5. f[k + j] = f[k]
    BY <1>2, <2>1
  <2> QED
    BY <2>4, <2>5 DEF i
<1>3. n - k \in T
  <2> HIDE DEF T
  <2>1. Nat \subseteq T
    BY <1>1, <1>2, SetInduction
  <2>2. n - k \in Nat
    OBVIOUS
  <2> QED
    BY <2>1, <2>2
<1> QED
  BY <1>3

-----------------------------------------------------------------------------
(* FoldLeft is defined by taking the greatest index from a set of indices. *)

(* Only the elements with an index in S do something.                      *)
OnlyAt(S, n, X, F) == [i \in 1..n |-> IF i \in S THEN F[i] ELSE [x \in X |-> x]]

(* The others leave everything as it is.                                   *)
LEMMA OnlyAtDoes ==
  ASSUME NEW X, NEW n \in Nat, NEW F, NEW S, NEW i \in 1..n, NEW x \in X
  PROVE  Do(OnlyAt(S, n, X, F), i, x) = IF i \in S THEN Do(F, i, x) ELSE x
BY DEF OnlyAt, Do

(* What is folded over the indices in S; the index taken last comes last.  *)
FoldOver(S, n, X, b, F) == (CHOOSE f : Chain(f, n, X, b, OnlyAt(S, n, X, F)))[n]

(* It is a value of the chain of all those elements,                       *)
LEMMA FoldOverIs ==
  ASSUME NEW X, NEW n \in Nat, NEW b \in X, NEW F, Steps(F, n, X),
         NEW S \in SUBSET (1..n)
  PROVE  \E f : /\ Chain(f, n, X, b, OnlyAt(S, n, X, F))
                /\ FoldOver(S, n, X, b, F) = f[n] /\ f[n] \in X
<1> DEFINE G == OnlyAt(S, n, X, F)
           f == CHOOSE g : Chain(g, n, X, b, G)
<1>1. Steps(G, n, X)
  BY OnlyAtDoes DEF Steps
<1>2. \E g : Chain(g, n, X, b, G)
  <2> HIDE DEF G
  <2> QED
    BY <1>1, ChainExists
<1>3. Chain(f, n, X, b, G)
  BY <1>2
<1>4. f[n] \in X
  <2> HIDE DEF f
  <2> QED
    BY <1>3 DEF Chain
<1> QED
  BY <1>3, <1>4 DEF FoldOver

(* the base where there is none,                                           *)
LEMMA FoldOverNone ==
  ASSUME NEW X, NEW n \in Nat, NEW b \in X, NEW F, Steps(F, n, X)
  PROVE  FoldOver({}, n, X, b, F) = b
<1> DEFINE G == OnlyAt({}, n, X, F)
<1>1. PICK f : Chain(f, n, X, b, G) /\ FoldOver({}, n, X, b, F) = f[n]
  BY FoldOverIs
<1>2. \A i \in 1..n : \A x \in X : Do(G, i, x) = x
  BY OnlyAtDoes
<1>3. f[n] = f[0]
  <2> HIDE DEF G
  <2>1. PICK k \in 0..n : k = 0
    OBVIOUS
  <2>2. \A i \in 1..n : i > k => \A x \in X : Do(G, i, x) = x
    BY <1>2, <2>1
  <2> QED
    BY <1>1, <2>1, <2>2, ChainStill
<1> QED
  BY <1>1, <1>3 DEF Chain

(* A chain whose last change is at m is the one without it up to there.    *)
LEMMA ChainLast ==
  ASSUME NEW X, NEW n \in Nat, NEW b \in X, NEW G, NEW H, NEW f, NEW g,
         Chain(f, n, X, b, G), Chain(g, n, X, b, H), NEW m \in 1..n,
         \A i \in 1..n : i > m => \A x \in X : Do(G, i, x) = x,
         \A i \in 1..n : i >= m => \A x \in X : Do(H, i, x) = x,
         \A i \in 1..n : i < m => \A x \in X : Do(G, i, x) = Do(H, i, x)
  PROVE  f[n] = Do(G, m, g[n])
<1>1. PICK k \in 0..n : k + 1 = m
  BY m - 1 \in 0..n
<1>2. f[n] = f[m]
  <2>1. m \in 0..n
    OBVIOUS
  <2> QED
    BY <2>1, ChainStill
<1>3. g[n] = g[k]
  <2>1. \A i \in 1..n : i > k => \A x \in X : Do(H, i, x) = x
    BY <1>1
  <2> QED
    BY <2>1, ChainStill
<1>4. f[k] = g[k]
  <2>1. k \in Nat /\ k <= n /\ \A i \in 1..k : \A x \in X : Do(G, i, x) = Do(H, i, x)
    BY <1>1
  <2> QED
    BY <2>1, ChainsAgree
<1>5. f[m] = Do(G, m, f[k])
  <2>1. m - 1 = k
    BY <1>1
  <2> QED
    BY <2>1 DEF Chain
<1> QED
  BY <1>2, <1>3, <1>4, <1>5

(* and otherwise what the last element makes of the others.                *)
LEMMA FoldOverLast ==
  ASSUME NEW X, NEW n \in Nat, NEW b \in X, NEW F, Steps(F, n, X),
         NEW S \in SUBSET (1..n), S # {}
  PROVE  FoldOver(S, n, X, b, F) = Do(F, Max(S), FoldOver(S \ {Max(S)}, n, X, b, F))
<1>1. PICK m \in 1..n : m = Max(S) /\ m \in S /\ \A i \in S : i <= m
  BY MaxMember
<1>2. PICK R \in SUBSET (1..n) : R = S \ {m}
  OBVIOUS
<1>3. PICK G : G = OnlyAt(S, n, X, F)
  OBVIOUS
<1>4. PICK H : H = OnlyAt(R, n, X, F)
  OBVIOUS
<1>5. PICK f : Chain(f, n, X, b, G) /\ FoldOver(S, n, X, b, F) = f[n]
  BY <1>3, FoldOverIs
<1>6. PICK g : Chain(g, n, X, b, H) /\ FoldOver(R, n, X, b, F) = g[n] /\ g[n] \in X
  BY <1>4, FoldOverIs
<1>7. /\ \A i \in 1..n : i > m => \A x \in X : Do(G, i, x) = x
      /\ \A i \in 1..n : i >= m => \A x \in X : Do(H, i, x) = x
      /\ \A i \in 1..n : i < m => \A x \in X : Do(G, i, x) = Do(H, i, x)
      /\ \A x \in X : Do(G, m, x) = Do(F, m, x)
  BY <1>1, <1>2, <1>3, <1>4, OnlyAtDoes
<1>8. f[n] = Do(G, m, g[n])
  <2>1. Chain(f, n, X, b, G) /\ Chain(g, n, X, b, H)
    BY <1>5, <1>6
  <2>2. \A i \in 1..n : i > m => \A x \in X : Do(G, i, x) = x
    BY <1>7
  <2>3. \A i \in 1..n : i >= m => \A x \in X : Do(H, i, x) = x
    BY <1>7
  <2>4. \A i \in 1..n : i < m => \A x \in X : Do(G, i, x) = Do(H, i, x)
    BY <1>7
  <2> QED
    BY <2>1, <2>2, <2>3, <2>4, ChainLast, SMTT(60)
<1> QED
  BY <1>1, <1>2, <1>5, <1>6, <1>7, <1>8

(* The function that FoldLeft chooses, when op(x, seq[i]) = Do(F, i, x).   *)
Iterates(iter, n, X, b, F) ==
  \A S \in SUBSET (1..n) :
    /\ S = {} => iter[S] = b
    /\ S # {} /\ iter[S \ {Max(S)}] \in X => iter[S] = Do(F, Max(S), iter[S \ {Max(S)}])

(* It has the values of the chain, whatever else it may be.                *)
LEMMA IterateIs ==
  ASSUME NEW X, NEW n \in Nat, NEW b \in X, NEW F, Steps(F, n, X),
         NEW iter, Iterates(iter, n, X, b, F)
  PROVE  \E f : Chain(f, n, X, b, F) /\ iter[1..n] = f[n]
<1>1. PICK f : Chain(f, n, X, b, F)
  BY ChainExists
<1> DEFINE T == {k \in Nat : k <= n => iter[1..k] = f[k]}
<1>2. 0 \in T
  <2>1. 1..0 = {} /\ {} \in SUBSET (1..n)
    OBVIOUS
  <2>2. iter[{}] = b
    BY <2>1 DEF Iterates
  <2> QED
    BY <1>1, <2>1, <2>2 DEF Chain
<1>3. ASSUME NEW k \in Nat, k \in T
      PROVE  k + 1 \in T
  <2> SUFFICES ASSUME k + 1 <= n
               PROVE  iter[1..(k + 1)] = f[k + 1]
    OBVIOUS
  <2> DEFINE S == 1..(k + 1)
  <2>1. S \in SUBSET (1..n) /\ S # {} /\ k + 1 \in S /\ \A i \in S : i <= k + 1
    <3>1. k + 1 \in 1..n /\ 1..(k + 1) \subseteq 1..n
      OBVIOUS
    <3> QED
      BY <3>1
  <2>2. Max(S) = k + 1
    <3>1. Max(S) \in S /\ \A i \in S : i <= Max(S)
      <4> HIDE DEF S
      <4> QED
        BY <2>1, MaxMember
    <3> QED
      BY <2>1, <3>1
  <2>3. S \ {k + 1} = 1..k
    OBVIOUS
  <2>4. iter[1..k] = f[k] /\ f[k] \in X /\ f[k + 1] = Do(F, k + 1, f[k])
    <3>1. k + 1 \in 1..n /\ k \in 0..n /\ (k + 1) - 1 = k
      OBVIOUS
    <3> QED
      BY <1>1, <1>3, <3>1 DEF Chain
  <2> HIDE DEF S
  <2>5. iter[S] = Do(F, k + 1, iter[1..k])
    BY <2>1, <2>2, <2>3, <2>4 DEF Iterates
  <2> QED
    BY <2>4, <2>5 DEF S
<1>4. n \in T
  <2> HIDE DEF T
  <2> QED
    BY <1>2, <1>3, SetInduction
<1> QED
  BY <1>1, <1>4

(* Such a function that has values in X only.                              *)
Iterate(iter, n, X, b, F) ==
  /\ iter \in [SUBSET (1..n) -> X]
  /\ \A S \in SUBSET (1..n) :
       iter[S] = IF S = {} THEN b ELSE Do(F, Max(S), iter[S \ {Max(S)}])

(* There is one, so that FoldLeft has one to choose.                       *)
LEMMA IterateExists ==
  ASSUME NEW X, NEW n \in Nat, NEW b \in X, NEW F, Steps(F, n, X)
  PROVE  \E iter : Iterate(iter, n, X, b, F)
<1> DEFINE iter == [S \in SUBSET (1..n) |-> FoldOver(S, n, X, b, F)]
<1>1. ASSUME NEW S \in SUBSET (1..n)
      PROVE  FoldOver(S, n, X, b, F) \in X
  <2>1. PICK f : FoldOver(S, n, X, b, F) = f[n] /\ f[n] \in X
    BY FoldOverIs
  <2> QED
    BY <2>1
<1>2. iter \in [SUBSET (1..n) -> X]
  BY <1>1
<1>3. ASSUME NEW S \in SUBSET (1..n)
      PROVE  iter[S] = IF S = {} THEN b ELSE Do(F, Max(S), iter[S \ {Max(S)}])
  <2>1. CASE S = {}
    BY <2>1, FoldOverNone
  <2>2. CASE S # {}
    <3>1. S \ {Max(S)} \in SUBSET (1..n)
      OBVIOUS
    <3>2. /\ iter[S \ {Max(S)}] = FoldOver(S \ {Max(S)}, n, X, b, F)
          /\ iter[S] = FoldOver(S, n, X, b, F)
      BY <3>1
    <3> HIDE DEF iter
    <3>3. FoldOver(S, n, X, b, F) = Do(F, Max(S), FoldOver(S \ {Max(S)}, n, X, b, F))
      BY <2>2, FoldOverLast
    <3> QED
      BY <2>2, <3>2, <3>3
  <2> QED
    BY <2>1, <2>2
<1> QED
  BY <1>2, <1>3 DEF Iterate

(* One more element comes last.                                            *)
LEMMA ChainAppend ==
  ASSUME NEW X, NEW n \in Nat, NEW b \in X, NEW F, NEW G, NEW f, NEW g,
         Chain(f, n, X, b, F), Chain(g, n + 1, X, b, G),
         \A i \in 1..n : \A x \in X : Do(F, i, x) = Do(G, i, x)
  PROVE  g[n + 1] = Do(G, n + 1, f[n])
<1>1. f[n] = g[n]
  BY ChainsAgree
<1>2. n + 1 \in 1..(n + 1) /\ (n + 1) - 1 = n
  OBVIOUS
<1> QED
  BY <1>1, <1>2 DEF Chain

-----------------------------------------------------------------------------
(* Elements of a sequence, and maps laid over each other. *)

(* What Chosen's function does with the i-th element.                      *)
ChosenStep(s, I, X) ==
  [i \in 1..Len(s) |-> [x \in X |-> IF i \in I THEN Append(x, s[i]) ELSE x]]

(* The chosen elements are a sequence of elements with an index in I.      *)
LEMMA ChosenIs ==
  ASSUME NEW S, NEW s \in Seq(S), NEW I, NEW T,
         \A i \in DOMAIN s : i \in I => s[i] \in T
  PROVE  Chosen(s, I) \in Seq(T)
<1>0. PICK n \in Nat : n = Len(s) /\ DOMAIN s = 1..n
  OBVIOUS
<1>1. PICK X : X = Seq(T)
  OBVIOUS
<1>2. PICK F : F = ChosenStep(s, I, X)
  OBVIOUS
<1>3. \A i \in 1..n : \A x \in X : Do(F, i, x) = IF i \in I THEN Append(x, s[i]) ELSE x
  BY <1>0, <1>2 DEF Do, ChosenStep
<1>4. Steps(F, n, X)
  <2> SUFFICES ASSUME NEW i \in 1..n, NEW x \in X
               PROVE  Do(F, i, x) \in X
    BY DEF Steps
  <2>1. x \in Seq(T) /\ (i \in I => s[i] \in T)
    BY <1>0, <1>1
  <2>2. i \in I => Append(x, s[i]) \in Seq(T)
    BY <2>1, AppendProperties
  <2> QED
    BY <1>1, <1>3, <2>1, <2>2
<1>5. PICK b \in X : b = <<>>
  BY <1>1, EmptySeq
<1>6. PICK f : Chain(f, n, X, b, F)
  BY <1>4, ChainExists
<1>7. f \in [0..n -> X] /\ f[0] = b /\ \A i \in 1..n : f[i] = Do(F, i, f[i - 1])
  BY <1>6 DEF Chain
<1>8. \A i \in 1..n : i - 1 \in 0..n
  OBVIOUS
<1>9. f = [k \in 0..n |-> IF k = 0 THEN <<>>
                          ELSE IF k \in I THEN Append(f[k - 1], s[k]) ELSE f[k - 1]]
  <2>1. ASSUME NEW k \in 0..n
        PROVE  f[k] = IF k = 0 THEN <<>>
                      ELSE IF k \in I THEN Append(f[k - 1], s[k]) ELSE f[k - 1]
    <3>1. CASE k = 0
      BY <1>5, <1>7, <3>1
    <3>2. CASE k # 0
      <4>1. k \in 1..n /\ f[k - 1] \in X
        BY <1>7, <1>8, <3>2
      <4> QED
        BY <1>3, <1>7, <3>2, <4>1
    <3> QED
      BY <3>1, <3>2
  <2> QED
    BY <1>7, <2>1
<1>10. PICK g : g = CHOOSE h : h = [k \in 0..n |-> IF k = 0 THEN <<>>
                          ELSE IF k \in I THEN Append(h[k - 1], s[k]) ELSE h[k - 1]]
  OBVIOUS
<1>11. g = [k \in 0..n |-> IF k = 0 THEN <<>>
                           ELSE IF k \in I THEN Append(g[k - 1], s[k]) ELSE g[k - 1]]
  BY <1>9, <1>10
<1> DEFINE N == {k \in Nat : k <= n => g[k] \in X}
<1>12. 0 \in N
  BY <1>5, <1>11
<1>13. ASSUME NEW k \in Nat, k \in N
       PROVE  k + 1 \in N
  <2> SUFFICES ASSUME k + 1 <= n
               PROVE  g[k + 1] \in X
    OBVIOUS
  <2>1. k + 1 \in 1..n /\ k + 1 \in 0..n /\ k + 1 # 0 /\ (k + 1) - 1 = k
    OBVIOUS
  <2>2. g[k + 1] = IF k + 1 \in I THEN Append(g[k], s[k + 1]) ELSE g[k]
    BY <1>11, <2>1
  <2>3. g[k] \in Seq(T) /\ (k + 1 \in I => s[k + 1] \in T)
    BY <1>0, <1>1, <1>13, <2>1
  <2> QED
    BY <1>1, <2>2, <2>3, AppendProperties
<1>14. g[n] \in X
  <2> HIDE DEF N
  <2>1. n \in N
    BY <1>12, <1>13, SetInduction
  <2> QED
    BY <2>1 DEF N
<1>15. Chosen(s, I) = g[n]
  BY <1>0, <1>10 DEF Chosen
<1> QED
  BY <1>1, <1>14, <1>15

LaidStep(layers, X) ==
  [i \in 1..Len(layers) |-> [x \in X |-> Overlaid(x, layers[i])]]

(* Layers that each keep a map in X do so together.                        *)
LEMMA LaidOverIn ==
  ASSUME NEW X, NEW map \in X, NEW layers, NEW n \in Nat, DOMAIN layers = 1..n,
         Len(layers) = n,
         \A i \in 1..n : \A x \in X : Overlaid(x, layers[i]) \in X
  PROVE  LaidOver(map, layers) \in X
<1>1. PICK b \in X : b = map
  OBVIOUS
<1>2. PICK F : F = LaidStep(layers, X)
  OBVIOUS
<1>4. \A i \in 1..n : \A x \in X : Do(F, i, x) = Overlaid(x, layers[i])
  BY <1>2 DEF Do, LaidStep
<1>6. Steps(F, n, X)
  BY <1>4 DEF Steps
<1>7. PICK g : Iterate(g, n, X, b, F)
  BY <1>6, IterateExists
<1>8. /\ g \in [SUBSET (1..n) -> X]
      /\ \A S \in SUBSET (1..n) :
           g[S] = IF S = {} THEN b ELSE Do(F, Max(S), g[S \ {Max(S)}])
  BY <1>7 DEF Iterate
<1>9. \A S \in SUBSET (1..n) : S # {} => Max(S) \in 1..n /\ S \ {Max(S)} \in SUBSET (1..n)
  BY MaxMember
<1>10. g = [S \in SUBSET (1..n) |->
              IF S = {} THEN b ELSE Overlaid(g[S \ {Max(S)}], layers[Max(S)])]
  BY <1>4, <1>8, <1>9
<1>11. PICK iter : iter = CHOOSE h : h = [S \in SUBSET (1..n) |->
              IF S = {} THEN b ELSE Overlaid(h[S \ {Max(S)}], layers[Max(S)])]
  OBVIOUS
<1>12. iter = [S \in SUBSET (1..n) |->
              IF S = {} THEN b ELSE Overlaid(iter[S \ {Max(S)}], layers[Max(S)])]
  BY <1>10, <1>11
<1>13. Iterates(iter, n, X, b, F)
  <2> SUFFICES ASSUME NEW S \in SUBSET (1..n)
               PROVE  /\ S = {} => iter[S] = b
                      /\ S # {} /\ iter[S \ {Max(S)}] \in X =>
                           iter[S] = Do(F, Max(S), iter[S \ {Max(S)}])
    BY DEF Iterates
  <2> QED
    BY <1>4, <1>9, <1>12
<1>14. LaidOver(map, layers) = iter[1..n]
  BY <1>1, <1>11 DEF LaidOver, FoldLeft, MapThenFoldSet
<1>15. PICK f : Chain(f, n, X, b, F) /\ iter[1..n] = f[n]
  BY <1>6, <1>13, IterateIs
<1>16. f[n] \in X
  BY <1>15 DEF Chain
<1> QED
  BY <1>14, <1>15, <1>16

-----------------------------------------------------------------------------
(* Paths. *)

Names == Seq(Nat)

(* Below and AtOrBelow, segment by segment.                                *)
LEMMA BelowMeans ==
  ASSUME NEW p \in Names, NEW d \in Names
  PROVE  /\ AtOrBelow(p, d) <=> Len(d) <= Len(p) /\ \A i \in 1..Len(d) : p[i] = d[i]
         /\ Below(p, d) <=> Len(d) < Len(p) /\ \A i \in 1..Len(d) : p[i] = d[i]
         /\ Below(p, d) <=> AtOrBelow(p, d) /\ p # d
<1>0. Len(p) \in Nat /\ Len(d) \in Nat
  BY DEF Names
<1>1. SubSeq(d, 1, Len(d)) = d
  BY SubSeqFull DEF Names
<1>2. ASSUME Len(d) <= Len(p)
      PROVE  /\ SubSeq(p, 1, Len(d)) \in Names /\ Len(SubSeq(p, 1, Len(d))) = Len(d)
             /\ \A i \in 1..Len(d) : SubSeq(p, 1, Len(d))[i] = p[i]
  BY <1>0, <1>2 DEF Names
<1>3. ASSUME Len(d) <= Len(p)
      PROVE  SubSeq(p, 1, Len(d)) = d <=> \A i \in 1..Len(d) : p[i] = d[i]
  BY <1>2, <1>3, SeqEqual DEF Names
<1>4. AtOrBelow(p, d) <=> Len(d) <= Len(p) /\ \A i \in 1..Len(d) : p[i] = d[i]
  BY <1>1, <1>3 DEF AtOrBelow, IsPrefix
<1>5. Below(p, d) <=> AtOrBelow(p, d) /\ p # d
  BY DEF Below, AtOrBelow, IsStrictPrefix
<1>6. ASSUME Len(d) <= Len(p), \A i \in 1..Len(d) : p[i] = d[i]
      PROVE  p # d <=> Len(d) < Len(p)
  BY <1>0, <1>6, SeqEqual DEF Names
<1> QED
  BY <1>0, <1>4, <1>5, <1>6

(* What is below something that is at or below d is below d.               *)
LEMMA BelowTransitive ==
  ASSUME NEW p \in Names, NEW q \in Names, NEW d \in Names, AtOrBelow(q, d)
  PROVE  /\ AtOrBelow(p, q) => AtOrBelow(p, d)
         /\ Below(p, q) => Below(p, d)
<1>0. Len(p) \in Nat /\ Len(d) \in Nat /\ Len(q) \in Nat
  BY DEF Names
<1> QED
  BY <1>0, BelowMeans

(* What is strictly below d, and what is below that.                       *)
LEMMA BelowStrictly ==
  ASSUME NEW p \in Names, NEW q \in Names, NEW d \in Names, Below(q, d), AtOrBelow(p, q)
  PROVE  Below(p, d)
<1>0. Len(p) \in Nat /\ Len(d) \in Nat /\ Len(q) \in Nat
  BY DEF Names
<1> QED
  BY <1>0, BelowMeans

(* Of two directories above one path, one is above the other.              *)
LEMMA BelowLinear ==
  ASSUME NEW p \in Names, NEW q \in Names, NEW d \in Names,
         AtOrBelow(p, q), AtOrBelow(p, d)
  PROVE  AtOrBelow(q, d) \/ Below(d, q)
<1>0. Len(p) \in Nat /\ Len(d) \in Nat /\ Len(q) \in Nat
  BY DEF Names
<1> QED
  BY <1>0, BelowMeans

(* Every directory a path is below is among its parents, except the root.  *)
LEMMA ParentsAre ==
  ASSUME NEW p \in Names, NEW d \in Names
  PROVE  d \in Parents(p) <=> d # Root /\ Below(p, d)
<1>0. Len(p) \in Nat /\ Len(d) \in Nat
  BY DEF Names
<1>1. ASSUME NEW n \in 1..(Len(p) - 1)
      PROVE  /\ SubSeq(p, 1, n) \in Names /\ Len(SubSeq(p, 1, n)) = n
             /\ \A i \in 1..n : SubSeq(p, 1, n)[i] = p[i]
  BY <1>0 DEF Names
<1>2. ASSUME d \in Parents(p)
      PROVE  d # Root /\ Below(p, d)
  <2>1. PICK n \in 1..(Len(p) - 1) : d = SubSeq(p, 1, n)
    BY <1>2 DEF Parents
  <2>2. Len(d) = n /\ n < Len(p) /\ n > 0 /\ \A i \in 1..n : d[i] = p[i]
    BY <1>0, <1>1, <2>1
  <2> QED
    BY <2>2, BelowMeans DEF Root
<1>3. ASSUME d # Root, Below(p, d)
      PROVE  d \in Parents(p)
  <2>1. Len(d) \in 1..(Len(p) - 1) /\ \A i \in 1..Len(d) : p[i] = d[i]
    BY <1>0, <1>3, BelowMeans, EmptySeq DEF Root, Names
  <2>2. SubSeq(p, 1, Len(d)) = d
    BY <1>1, <2>1, SeqEqual DEF Names
  <2> QED
    BY <2>1, <2>2 DEF Parents
<1> QED
  BY <1>2, <1>3

(* A path without its first segments.                                      *)
LEMMA RestOf ==
  ASSUME NEW s \in Names, NEW k \in Nat, k <= Len(s)
  PROVE  LET t == SubSeq(s, k + 1, Len(s))
         IN  t \in Names /\ Len(t) = Len(s) - k /\ \A i \in 1..Len(t) : t[i] = s[k + i]
BY DEF Names

(* A path followed by another.                                             *)
LEMMA Concatenated ==
  ASSUME NEW s \in Names, NEW t \in Names
  PROVE  /\ s \o t \in Names /\ Len(s \o t) = Len(s) + Len(t)
         /\ \A i \in 1..Len(s) : (s \o t)[i] = s[i]
         /\ \A i \in 1..Len(t) : (s \o t)[Len(s) + i] = t[i]
<1>0. Len(s) \in Nat /\ Len(t) \in Nat
  BY DEF Names
<1>1. \A i \in 1..(Len(s) + Len(t)) :
        (s \o t)[i] = IF i <= Len(s) THEN s[i] ELSE t[i - Len(s)]
  BY ConcatProperties DEF Names
<1>2. s \o t \in Names /\ Len(s \o t) = Len(s) + Len(t)
  BY ConcatProperties DEF Names
<1>3. ASSUME NEW i \in 1..Len(s)
      PROVE  (s \o t)[i] = s[i]
  BY <1>0, <1>1
<1>4. ASSUME NEW i \in 1..Len(t)
      PROVE  (s \o t)[Len(s) + i] = t[i]
  <2>1. Len(s) + i \in 1..(Len(s) + Len(t)) /\ ~(Len(s) + i <= Len(s))
        /\ (Len(s) + i) - Len(s) = i
    BY <1>0
  <2> QED
    BY <1>1, <2>1
<1> QED
  BY <1>2, <1>3, <1>4

(* The name of what moves along with a directory, and back.                *)
LEMMA RebasedIs ==
  ASSUME NEW p \in Names, NEW d \in Names, NEW e \in Names, AtOrBelow(p, d)
  PROVE  /\ Rebased(p, d, e) \in Names
         /\ AtOrBelow(Rebased(p, d, e), e)
         /\ Below(Rebased(p, d, e), e) <=> Below(p, d)
         /\ Rebased(Rebased(p, d, e), e, d) = p
<1>0. Len(p) \in Nat /\ Len(d) \in Nat /\ Len(e) \in Nat /\ Len(d) <= Len(p)
  BY BelowMeans DEF Names
<1>1. PICK t : t = SubSeq(p, Len(d) + 1, Len(p))
  OBVIOUS
<1>2. /\ t \in Names /\ Len(t) = Len(p) - Len(d)
      /\ \A i \in 1..Len(t) : t[i] = p[Len(d) + i]
  BY <1>0, <1>1, RestOf
<1>3. PICK r : r = e \o t
  OBVIOUS
<1>4. /\ r \in Names /\ Len(r) = Len(e) + Len(t)
      /\ \A i \in 1..Len(e) : r[i] = e[i]
      /\ \A i \in 1..Len(t) : r[Len(e) + i] = t[i]
  BY <1>0, <1>2, <1>3, Concatenated
<1>5. r = Rebased(p, d, e)
  BY <1>1, <1>3 DEF Rebased
<1>6. AtOrBelow(r, e)
  BY <1>0, <1>2, <1>4, BelowMeans
<1>7. Below(r, e) <=> Below(p, d)
  <2>1. Below(r, e) <=> Len(e) < Len(r)
    BY <1>0, <1>4, <1>6, BelowMeans
  <2>2. Below(p, d) <=> Len(d) < Len(p)
    BY <1>0, BelowMeans
  <2> QED
    BY <1>0, <1>2, <1>4, <2>1, <2>2
<1>8. SubSeq(r, Len(e) + 1, Len(r)) = t
  <2>1. PICK u : u = SubSeq(r, Len(e) + 1, Len(r))
    OBVIOUS
  <2>0. Len(e) \in Nat /\ Len(e) <= Len(r) /\ Len(r) - Len(e) = Len(t)
    BY <1>0, <1>2, <1>4 DEF Names
  <2>2. u \in Names /\ Len(u) = Len(r) - Len(e) /\ \A i \in 1..Len(u) : u[i] = r[Len(e) + i]
    BY <1>4, <2>0, <2>1, RestOf
  <2>3. \A i \in 1..Len(u) : u[i] = t[i]
    BY <1>2, <1>4, <2>0, <2>2
  <2> QED
    BY <1>2, <2>0, <2>1, <2>2, <2>3, SeqEqual DEF Names
<1>9. d \o t = p
  <2>1. PICK u : u = d \o t
    OBVIOUS
  <2>2. /\ u \in Names /\ Len(u) = Len(p)
        /\ \A i \in 1..Len(d) : u[i] = d[i]
        /\ \A i \in 1..Len(t) : u[Len(d) + i] = t[i]
    BY <1>0, <1>2, <2>1, Concatenated
  <2>3. ASSUME NEW i \in 1..Len(p)
        PROVE  u[i] = p[i]
    <3>1. CASE i <= Len(d)
      BY <1>0, <2>2, <3>1, BelowMeans
    <3>2. CASE i > Len(d)
      <4>1. i - Len(d) \in 1..Len(t) /\ Len(d) + (i - Len(d)) = i
        BY <1>0, <1>2, <3>2
      <4> QED
        BY <1>2, <2>2, <4>1
    <3> QED
      BY <1>0, <3>1, <3>2
  <2> QED
    BY <2>1, <2>2, <2>3, SeqEqual DEF Names
<1>10. Rebased(r, e, d) = p
  BY <1>8, <1>9 DEF Rebased
<1> QED
  BY <1>4, <1>5, <1>6, <1>7, <1>10

(* What is below something that moves is below its new name.               *)
LEMMA RebasedBelow ==
  ASSUME NEW p \in Names, NEW q \in Names, NEW d \in Names, NEW e \in Names,
         AtOrBelow(q, d), AtOrBelow(p, q)
  PROVE  /\ AtOrBelow(Rebased(p, d, e), Rebased(q, d, e))
         /\ Below(p, q) => Below(Rebased(p, d, e), Rebased(q, d, e))
<1>0. AtOrBelow(p, d) /\ Len(d) \in Nat /\ Len(e) \in Nat /\ Len(p) \in Nat /\ Len(q) \in Nat
  BY BelowTransitive DEF Names
<1>1. ASSUME NEW n \in Names, AtOrBelow(n, d)
      PROVE  /\ Rebased(n, d, e) \in Names
             /\ Len(Rebased(n, d, e)) = Len(e) + (Len(n) - Len(d))
             /\ \A i \in 1..Len(e) : Rebased(n, d, e)[i] = e[i]
             /\ \A i \in 1..(Len(n) - Len(d)) : Rebased(n, d, e)[Len(e) + i] = n[Len(d) + i]
  <2>0. Len(n) \in Nat /\ Len(d) \in Nat /\ Len(d) <= Len(n) /\ Len(e) \in Nat
    BY <1>1, BelowMeans DEF Names
  <2>1. PICK t : t = SubSeq(n, Len(d) + 1, Len(n))
    OBVIOUS
  <2>2. /\ t \in Names /\ Len(t) = Len(n) - Len(d)
        /\ \A i \in 1..Len(t) : t[i] = n[Len(d) + i]
    BY <2>0, <2>1, RestOf
  <2>3. PICK r : r = e \o t
    OBVIOUS
  <2>4. /\ r \in Names /\ Len(r) = Len(e) + Len(t)
        /\ \A i \in 1..Len(e) : r[i] = e[i]
        /\ \A i \in 1..Len(t) : r[Len(e) + i] = t[i]
    BY <2>2, <2>3, Concatenated, ZenonT(40)
  <2>5. r = Rebased(n, d, e)
    BY <2>1, <2>3 DEF Rebased
  <2> QED
    BY <2>0, <2>2, <2>4, <2>5
<1>2. PICK P \in Names, Q \in Names : P = Rebased(p, d, e) /\ Q = Rebased(q, d, e)
  BY <1>0, <1>1
<1>3. Len(Q) <= Len(P) /\ (Len(q) < Len(p) => Len(Q) < Len(P))
  BY <1>0, <1>1, <1>2, BelowMeans
<1>4. ASSUME NEW i \in 1..Len(Q)
      PROVE  P[i] = Q[i]
  <2>1. CASE i <= Len(e)
    BY <1>0, <1>1, <1>2, <2>1
  <2>2. CASE i > Len(e)
    <3>1. PICK j \in 1..(Len(q) - Len(d)) : i = Len(e) + j
      <4>1. Len(Q) = Len(e) + (Len(q) - Len(d)) /\ Len(d) <= Len(q)
        BY <1>0, <1>1, <1>2, BelowMeans
      <4>2. i - Len(e) \in 1..(Len(q) - Len(d)) /\ i = Len(e) + (i - Len(e))
        BY <1>0, <2>2, <4>1
      <4> QED
        BY <4>2
    <3>2. j \in 1..(Len(p) - Len(d)) /\ Len(d) + j \in 1..Len(q)
      BY <1>0, <3>1, BelowMeans
    <3>3. P[i] = p[Len(d) + j] /\ Q[i] = q[Len(d) + j]
      BY <1>0, <1>1, <1>2, <3>1, <3>2
    <3>4. p[Len(d) + j] = q[Len(d) + j]
      BY <3>2, BelowMeans
    <3> QED
      BY <3>3, <3>4
  <2> QED
    BY <1>0, <2>1, <2>2
<1> QED
  BY <1>0, <1>2, <1>3, <1>4, BelowMeans

(* Below a directory is what is directly in it, or below a directory that  *)
(* is.                                                                     *)
LEMMA BelowChild ==
  ASSUME NEW p \in Names, NEW d \in Names, Below(p, d)
  PROVE  \/ Parent(p) = d
         \/ \E e \in Parents(p) : e \in Names /\ Parent(e) = d /\ Below(p, e)
<1>0. Len(p) \in Nat /\ Len(d) \in Nat /\ Len(d) < Len(p)
  BY BelowMeans DEF Names
<1>1. ASSUME NEW n \in 1..Len(p)
      PROVE  /\ SubSeq(p, 1, n) \in Names /\ Len(SubSeq(p, 1, n)) = n
             /\ \A i \in 1..n : SubSeq(p, 1, n)[i] = p[i]
  BY <1>0 DEF Names
<1>2. PICK e \in Names : /\ e = SubSeq(p, 1, Len(d) + 1) /\ Len(e) = Len(d) + 1
                         /\ \A i \in 1..Len(e) : e[i] = p[i]
  <2>1. Len(d) + 1 \in 1..Len(p)
    BY <1>0
  <2> QED
    BY <1>1, <2>1
<1>3. Parent(e) = d
  <2>1. PICK u : u = SubSeq(e, 1, Len(e) - 1)
    OBVIOUS
  <2>2. u \in Names /\ Len(u) = Len(d) /\ \A i \in 1..Len(d) : u[i] = e[i]
    BY <1>0, <1>2, <2>1 DEF Names
  <2>3. \A i \in 1..Len(d) : u[i] = d[i]
    BY <1>0, <1>2, <2>2, BelowMeans
  <2>4. u = d
    BY <2>2, <2>3, SeqEqual DEF Names
  <2> QED
    BY <2>1, <2>4 DEF Parent, Front
<1>4. CASE Len(p) = Len(d) + 1
  <2>1. p = e
    BY <1>2, <1>4, SeqEqual DEF Names
  <2> QED
    BY <1>3, <2>1
<1>5. CASE Len(p) > Len(d) + 1
  <2>1. Below(p, e)
    BY <1>0, <1>2, <1>5, BelowMeans
  <2>2. e # Root
    BY <1>0, <1>2, EmptySeq DEF Root
  <2> QED
    BY <1>3, <2>1, <2>2, ParentsAre
<1> QED
  BY <1>0, <1>4, <1>5

(* Where a path is, its parent is below what is above the path.            *)
LEMMA ParentAbove ==
  ASSUME NEW p \in Names, p # Root, NEW d \in Names
  PROVE  /\ Parent(p) \in Names
         /\ Below(p, Parent(p))
         /\ Below(p, d) => AtOrBelow(Parent(p), d)
<1>0. Len(p) \in Nat /\ Len(d) \in Nat /\ Len(p) > 0
  BY EmptySeq DEF Names, Root
<1>1. PICK k \in 0..Len(p) : k = Len(p) - 1
  <2>1. Len(p) - 1 \in 0..Len(p)
    BY <1>0
  <2> QED
    BY <2>1
<1>2. PICK u : u = SubSeq(p, 1, k)
  OBVIOUS
<1>4. u \in Names /\ Len(u) = k /\ \A i \in 1..k : u[i] = p[i]
  BY <1>0, <1>2 DEF Names
<1>3. Parent(p) = u
  BY <1>1, <1>2 DEF Parent, Front
<1> QED
  BY <1>0, <1>1, <1>4, <1>3, BelowMeans

(* Nothing is above the root, and everything is at or below it.            *)
LEMMA RootAbove ==
  ASSUME NEW p \in Names
  PROVE  /\ Root \in Names /\ AtOrBelow(p, Root) /\ ~Below(Root, p)
         /\ AtOrBelow(p, p) /\ ~Below(p, p)
         /\ Below(p, Root) <=> p # Root
<1>0. Root \in Names /\ Len(Root) = 0 /\ Len(p) \in Nat
  BY EmptySeq DEF Names, Root
<1> QED
  BY <1>0, BelowMeans

-----------------------------------------------------------------------------
(* Maps keyed by path. *)

Map == UNION {[P -> Int] : P \in SUBSET Names}

(* The two maps have the same at p.                                        *)
Same(m, n, p) ==
  /\ p \in Paths(m) <=> p \in Paths(n)
  /\ p \in Paths(m) => m[p] = n[p]

(* A map is a function from its paths.                                     *)
LEMMA MapIs ==
  ASSUME NEW m \in Map
  PROVE  Paths(m) \subseteq Names /\ m \in [Paths(m) -> Int]
BY DEF Map, Paths

(* Any set of paths and contents for them make a map.                      *)
LEMMA MapFrom ==
  ASSUME NEW P \in SUBSET Names, NEW m \in [P -> Int]
  PROVE  m \in Map /\ Paths(m) = P
BY DEF Map, Paths

(* Maps that have the same everywhere are the same.                        *)
LEMMA MapEqual ==
  ASSUME NEW m \in Map, NEW n \in Map, \A p \in Names : Same(m, n, p)
  PROVE  m = n
<1>1. Paths(m) = Paths(n) /\ \A p \in Paths(m) : m[p] = n[p]
  BY MapIs DEF Same
<1> QED
  BY <1>1, MapIs

(* A new entry is there, the rest as it was.                               *)
LEMMA WithIs ==
  ASSUME NEW m \in Map, NEW p \in Names, NEW c \in Int
  PROVE  /\ With(m, p, c) \in Map /\ Paths(With(m, p, c)) = Paths(m) \cup {p}
         /\ p \in Paths(With(m, p, c)) /\ With(m, p, c)[p] = c
         /\ \A q \in Names : q # p => Same(With(m, p, c), m, q)
<1>1. PICK P : P = Paths(m) \cup {p} /\ P \in SUBSET Names
  BY MapIs
<1>2. PICK w : w = With(m, p, c)
  OBVIOUS
<1>3. w \in [P -> Int] /\ \A q \in P : w[q] = IF q = p THEN c ELSE m[q]
  BY <1>1, <1>2, MapIs DEF With
<1>4. w \in Map /\ Paths(w) = P
  BY <1>1, <1>3, MapFrom
<1> QED
  BY <1>1, <1>2, <1>3, <1>4 DEF Same

(* What is taken out is gone, the rest as it was.                          *)
LEMMA WithoutIs ==
  ASSUME NEW m \in Map, NEW S
  PROVE  /\ Without(m, S) \in Map /\ Paths(Without(m, S)) = Paths(m) \ S
         /\ \A q \in Names : q \notin S => Same(Without(m, S), m, q)
<1>1. PICK P : P = Paths(m) \ S /\ P \in SUBSET Names
  BY MapIs
<1>2. PICK w : w = Without(m, S)
  OBVIOUS
<1>3. w \in [P -> Int] /\ \A q \in P : w[q] = m[q]
  BY <1>1, <1>2, MapIs DEF Without
<1>4. w \in Map /\ Paths(w) = P
  BY <1>1, <1>3, MapFrom
<1> QED
  BY <1>1, <1>2, <1>3, <1>4 DEF Same

(* The new entries, and of the old ones those that have no new one.        *)
LEMMA OverlaidIs ==
  ASSUME NEW m \in Map, NEW n \in Map
  PROVE  /\ Overlaid(m, n) \in Map /\ Paths(Overlaid(m, n)) = Paths(m) \cup Paths(n)
         /\ \A q \in Names : q \in Paths(n) => Same(Overlaid(m, n), n, q)
         /\ \A q \in Names : q \notin Paths(n) => Same(Overlaid(m, n), m, q)
<1>1. PICK P : P = Paths(m) \cup Paths(n) /\ P \in SUBSET Names
  BY MapIs
<1>2. PICK w : w = Overlaid(m, n)
  OBVIOUS
<1>3. w \in [P -> Int] /\ \A q \in P : w[q] = IF q \in Paths(n) THEN n[q] ELSE m[q]
  BY <1>1, <1>2, MapIs DEF Overlaid
<1>4. w \in Map /\ Paths(w) = P
  BY <1>1, <1>3, MapFrom
<1> QED
  BY <1>1, <1>2, <1>3, <1>4 DEF Same

(* A part of a map is a map.                                               *)
LEMMA OnlyIs ==
  ASSUME NEW m \in Map, NEW S
  PROVE  /\ Only(m, S) \in Map /\ Paths(Only(m, S)) = Paths(m) \cap S
         /\ \A q \in Names : q \in S => Same(Only(m, S), m, q)
<1>1. PICK P : P = Paths(m) \cap S /\ P \in SUBSET Names
  BY MapIs
<1>2. PICK w : w = Only(m, S)
  OBVIOUS
<1>3. w \in [P -> Int] /\ \A q \in P : w[q] = m[q]
  BY <1>1, <1>2, MapIs DEF Only
<1>4. w \in Map /\ Paths(w) = P
  BY <1>1, <1>3, MapFrom
<1> QED
  BY <1>1, <1>2, <1>3, <1>4 DEF Same

(* Below a deleted directory nothing is left, elsewhere everything.        *)
LEMMA DeletePrefixIs ==
  ASSUME NEW m \in Map, NEW d \in Names
  PROVE  /\ DeletePrefix(m, d) \in Map
         /\ Paths(DeletePrefix(m, d)) \subseteq Paths(m)
         /\ \A q \in Names : Below(q, d) => q \notin Paths(DeletePrefix(m, d))
         /\ \A q \in Names : ~Below(q, d) => Same(DeletePrefix(m, d), m, q)
<1>1. \A q \in Names : Below(q, d) /\ q \in Paths(m) => q \in FilesBelow(m, d)
  BY DEF FilesBelow
<1>2. \A q \in Names : ~Below(q, d) => q \notin FilesBelow(m, d)
  BY DEF FilesBelow
<1> QED
  BY <1>1, <1>2, WithoutIs DEF DeletePrefix

(* What moves with a directory has its new name and not its old one.       *)
LEMMA RenamePrefixIs ==
  ASSUME NEW m \in Map, NEW d \in Names, NEW e \in Names
  PROVE  /\ RenamePrefix(m, d, e) \in Map
         /\ \A q \in Names : ~Below(q, d) /\ ~Below(q, e) => Same(RenamePrefix(m, d, e), m, q)
         /\ \A q \in Names : Below(q, d) /\ ~Below(q, e) => q \notin Paths(RenamePrefix(m, d, e))
         /\ \A q \in Names : Below(q, e) =>
              IF Rebased(q, e, d) \in Paths(m)
              THEN /\ q \in Paths(RenamePrefix(m, d, e))
                   /\ RenamePrefix(m, d, e)[q] = m[Rebased(q, e, d)]
              ELSE ~Below(q, d) => Same(RenamePrefix(m, d, e), m, q)
<1>1. PICK moved : moved = FilesBelow(m, d)
  OBVIOUS
<1>2. moved \subseteq Paths(m) /\ moved \subseteq Names
      /\ \A p \in Names : p \in moved <=> p \in Paths(m) /\ Below(p, d)
  BY <1>1, MapIs DEF FilesBelow
<1>3. PICK new : new = {Rebased(p, d, e) : p \in moved}
  OBVIOUS
<1>4. ASSUME NEW p \in moved
      PROVE  /\ Rebased(p, d, e) \in Names /\ Below(Rebased(p, d, e), e)
             /\ Rebased(Rebased(p, d, e), e, d) = p
  <2>1. p \in Names /\ AtOrBelow(p, d) /\ Below(p, d)
    BY <1>2, BelowMeans
  <2> QED
    BY <2>1, RebasedIs
<1>5. ASSUME NEW q \in Names
      PROVE  q \in new <=> Below(q, e) /\ Rebased(q, e, d) \in Paths(m)
  <2>1. ASSUME q \in new
        PROVE  Below(q, e) /\ Rebased(q, e, d) \in Paths(m)
    BY <1>2, <1>3, <1>4, <2>1
  <2>2. ASSUME Below(q, e), Rebased(q, e, d) \in Paths(m)
        PROVE  q \in new
    <3>1. AtOrBelow(q, e)
      BY <2>2, BelowMeans
    <3>2. /\ Rebased(q, e, d) \in Names /\ Below(Rebased(q, e, d), d)
          /\ Rebased(Rebased(q, e, d), d, e) = q
      BY <2>2, <3>1, RebasedIs
    <3> QED
      BY <1>2, <1>3, <2>2, <3>2
  <2> QED
    BY <2>1, <2>2
<1>6. new \in SUBSET Names
  BY <1>3, <1>4
<1>7. PICK n : n = [q \in new |-> m[Rebased(q, e, d)]]
  OBVIOUS
<1>8. n \in [new -> Int] /\ \A q \in new : n[q] = m[Rebased(q, e, d)]
  BY <1>5, <1>6, <1>7, MapIs
<1>9. n \in Map /\ Paths(n) = new
  BY <1>6, <1>8, MapFrom
<1>10. PICK w : w = Without(m, moved)
  OBVIOUS
<1>11. /\ w \in Map /\ Paths(w) = Paths(m) \ moved
       /\ \A q \in Names : q \notin moved => Same(w, m, q)
  BY <1>10, WithoutIs
<1>12. PICK r : r = Overlaid(w, n)
  OBVIOUS
<1>13. /\ r \in Map /\ Paths(r) = Paths(w) \cup Paths(n)
       /\ \A q \in Names : q \in Paths(n) => Same(r, n, q)
       /\ \A q \in Names : q \notin Paths(n) => Same(r, w, q)
  BY <1>9, <1>11, <1>12, OverlaidIs
<1>14. r = RenamePrefix(m, d, e)
  BY <1>1, <1>3, <1>7, <1>10, <1>12 DEF RenamePrefix
<1>15. ASSUME NEW q \in Names, ~Below(q, d), q \notin new
       PROVE  Same(r, m, q)
  BY <1>2, <1>9, <1>11, <1>13, <1>15 DEF Same
<1>16. ASSUME NEW q \in Names, Below(q, d), ~Below(q, e)
       PROVE  q \notin Paths(r)
  BY <1>2, <1>5, <1>9, <1>11, <1>13, <1>16
<1>17. ASSUME NEW q \in new
       PROVE  q \in Paths(r) /\ r[q] = m[Rebased(q, e, d)]
  BY <1>6, <1>8, <1>9, <1>13, <1>17 DEF Same
<1> QED
  BY <1>5, <1>13, <1>14, <1>15, <1>16, <1>17

(* The directories that move with a directory.                             *)
LEMMA RenameDirsIs ==
  ASSUME NEW D \in SUBSET Names, NEW d \in Names, NEW e \in Names
  PROVE  /\ RenameDirs(D, d, e) \in SUBSET Names
         /\ \A x \in Names :
              x \in RenameDirs(D, d, e) <=>
                \/ x \in D /\ ~AtOrBelow(x, d)
                \/ AtOrBelow(x, e) /\ Rebased(x, e, d) \in D
<1>1. PICK R : R = RenameDirs(D, d, e)
  OBVIOUS
<1>2. \A x : x \in R <=>
             \E y \in D : x = IF AtOrBelow(y, d) THEN Rebased(y, d, e) ELSE y
  BY <1>1 DEF RenameDirs
<1>3. ASSUME NEW y \in D, AtOrBelow(y, d)
      PROVE  /\ Rebased(y, d, e) \in Names /\ AtOrBelow(Rebased(y, d, e), e)
             /\ Rebased(Rebased(y, d, e), e, d) = y
  BY <1>3, RebasedIs
<1>4. R \in SUBSET Names
  BY <1>2, <1>3
<1>5. ASSUME NEW x \in Names, x \in R
      PROVE  \/ x \in D /\ ~AtOrBelow(x, d)
             \/ AtOrBelow(x, e) /\ Rebased(x, e, d) \in D
  BY <1>2, <1>3, <1>5
<1>6. ASSUME NEW x \in Names, AtOrBelow(x, e), Rebased(x, e, d) \in D
      PROVE  x \in R
  <2>1. PICK y \in D : y = Rebased(x, e, d)
    BY <1>6
  <2>2. AtOrBelow(y, d) /\ Rebased(y, d, e) = x
    BY <1>6, <2>1, RebasedIs
  <2> QED
    BY <1>2, <2>2
<1>7. ASSUME NEW x \in D, ~AtOrBelow(x, d)
      PROVE  x \in R
  BY <1>2, <1>7
<1> QED
  BY <1>1, <1>4, <1>5, <1>6, <1>7

-----------------------------------------------------------------------------
(* The server. *)

(* A tree of the scope.                                                    *)
TreeOK(t) ==
  /\ t \in [dirs : SUBSET DirPaths, files : Map]
  /\ Paths(t.files) \subseteq FilePaths
  /\ WellFormed(t)

(* The root is no entry; no path is both a file and a directory.           *)
LEMMA PathsAreNames ==
  /\ DirPaths \subseteq Names /\ FilePaths \subseteq Names
  /\ Root \notin DirPaths /\ Root \notin FilePaths
  /\ DirPaths \cap FilePaths = {}
BY PathsAssumption DEF Names

(* In a tree, what is above an entry is a directory.                       *)
LEMMA Hangs ==
  ASSUME NEW t, TreeOK(t), NEW p \in t.dirs \cup Paths(t.files), NEW d \in Names,
         Below(p, d), d # Root
  PROVE  d \in t.dirs
<1>1. p \in Names
  BY PathsAreNames DEF TreeOK
<1>2. d \in Parents(p)
  BY <1>1, ParentsAre
<1> QED
  BY <1>2 DEF TreeOK, WellFormed

(* This makes directories and files a tree.                                *)
LEMMA TreeFrom ==
  ASSUME NEW D \in SUBSET DirPaths, NEW m \in Map, Paths(m) \subseteq FilePaths,
         \A p \in D \cup Paths(m) : \A d \in Names : Below(p, d) /\ d # Root => d \in D
  PROVE  TreeOK([dirs |-> D, files |-> m])
<1>1. \A p \in D \cup Paths(m) : p \in Names
  BY PathsAreNames
<1>2. ASSUME NEW p \in D \cup Paths(m), NEW d \in Parents(p)
      PROVE  d \in D
  <2>1. p \in Names /\ d \in Names
    <3>1. PICK n \in 1..(Len(p) - 1) : d = SubSeq(p, 1, n)
      BY <1>2 DEF Parents
    <3>2. p \in Names
      BY <1>1
    <3> QED
      BY <3>1, <3>2 DEF Names
  <2>2. Below(p, d) /\ d # Root
    BY <1>2, <2>1, ParentsAre
  <2> QED
    BY <2>1, <2>2
<1>3. D \cap Paths(m) = {}
  BY PathsAreNames
<1> QED
  BY <1>2, <1>3 DEF TreeOK, WellFormed

(* Where a place is vacant, what is above it is there and nothing is below.*)
LEMMA VacantIs ==
  ASSUME NEW t, TreeOK(t), NEW p \in Names, Vacant(t, p)
  PROVE  /\ p # Root /\ p \notin t.dirs /\ p \notin Paths(t.files)
         /\ \A d \in Names : Below(p, d) /\ d # Root => d \in t.dirs
         /\ \A q \in t.dirs \cup Paths(t.files) : ~AtOrBelow(q, p)
<1>1. p # Root /\ p \notin t.dirs /\ p \notin Paths(t.files) /\ IsDir(t, Parent(p))
  BY DEF Vacant, Exists
<1>2. ASSUME NEW d \in Names, Below(p, d), d # Root
      PROVE  d \in t.dirs
  <2>1. Parent(p) \in Names /\ AtOrBelow(Parent(p), d)
    BY <1>1, <1>2, ParentAbove
  <2>2. Parent(p) # Root
    BY <1>2, <2>1, RootAbove, BelowMeans
  <2>3. Parent(p) \in t.dirs
    BY <1>1, <2>2 DEF IsDir
  <2>4. Parent(p) = d \/ Below(Parent(p), d)
    BY <2>1, BelowMeans
  <2> QED
    BY <1>2, <2>3, <2>4, Hangs
<1>3. ASSUME NEW q \in t.dirs \cup Paths(t.files), AtOrBelow(q, p)
      PROVE  FALSE
  <2>1. q \in Names /\ q # p
    BY <1>1, PathsAreNames DEF TreeOK
  <2>2. Below(q, p)
    BY <1>3, <2>1, BelowMeans
  <2> QED
    BY <1>1, <2>2, Hangs
<1> QED
  BY <1>1, <1>2, <1>3

(* A file is put where its parent is a directory.                          *)
LEMMA PutOK ==
  ASSUME NEW t, TreeOK(t), NEW p \in FilePaths, IsDir(t, Parent(p)), NEW c \in Int
  PROVE  TreeOK([dirs |-> t.dirs, files |-> With(t.files, p, c)])
<1>1. p \in Names /\ p # Root
  BY PathsAreNames
<1>2. With(t.files, p, c) \in Map /\ Paths(With(t.files, p, c)) = Paths(t.files) \cup {p}
  BY <1>1, WithIs DEF TreeOK
<1>3. ASSUME NEW q \in t.dirs \cup Paths(t.files) \cup {p}, NEW d \in Names, Below(q, d), d # Root
      PROVE  d \in t.dirs
  <2>1. CASE q \in t.dirs \cup Paths(t.files)
    BY <1>3, <2>1, Hangs
  <2>2. CASE q = p
    <3>1. Parent(p) \in Names /\ AtOrBelow(Parent(p), d)
      BY <1>1, <1>3, <2>2, ParentAbove
    <3>2. Parent(p) # Root
      BY <1>3, <3>1, RootAbove, BelowMeans
    <3>3. Parent(p) \in t.dirs
      BY <3>2 DEF IsDir
    <3>4. Parent(p) = d \/ Below(Parent(p), d)
      BY <3>1, BelowMeans
    <3> QED
      BY <1>3, <3>3, <3>4, Hangs
  <2> QED
    BY <2>1, <2>2
<1> QED
  BY <1>2, <1>3, TreeFrom DEF TreeOK

(* Files may go anywhere.                                                  *)
LEMMA FewerFilesOK ==
  ASSUME NEW t, TreeOK(t), NEW m \in Map, Paths(m) \subseteq Paths(t.files)
  PROVE  TreeOK([dirs |-> t.dirs, files |-> m])
<1>1. \A q \in t.dirs \cup Paths(m) : \A d \in Names : Below(q, d) /\ d # Root => d \in t.dirs
  BY Hangs
<1> QED
  BY <1>1, TreeFrom DEF TreeOK

(* A directory is made where its parent is one.                            *)
LEMMA MakeOK ==
  ASSUME NEW t, TreeOK(t), NEW d \in DirPaths, Vacant(t, d)
  PROVE  TreeOK([dirs |-> t.dirs \cup {d}, files |-> t.files])
<1>1. d \in Names
  BY PathsAreNames
<1>2. \A q \in t.dirs \cup {d} \cup Paths(t.files) : \A y \in Names :
        Below(q, y) /\ y # Root => y \in t.dirs
  BY <1>1, Hangs, VacantIs
<1> QED
  BY <1>2, TreeFrom DEF TreeOK

(* A directory is deleted with all that is below it.                       *)
LEMMA PrunedOK ==
  ASSUME NEW t, TreeOK(t), NEW d \in Names, d # Root
  PROVE  TreeOK(Pruned(t, d))
<1>1. PICK D : D = DeleteDirs(t.dirs, d)
  OBVIOUS
<1>2. PICK m : m = DeletePrefix(t.files, d)
  OBVIOUS
<1>3. D \subseteq t.dirs /\ \A x \in t.dirs : x \in D <=> ~AtOrBelow(x, d)
  BY <1>1 DEF DeleteDirs
<1>4. /\ m \in Map /\ Paths(m) \subseteq Paths(t.files)
      /\ \A q \in Names : Below(q, d) => q \notin Paths(m)
  BY <1>2, DeletePrefixIs DEF TreeOK
<1>5. ASSUME NEW q \in D \cup Paths(m), NEW y \in Names, Below(q, y), y # Root
      PROVE  y \in D
  <2>1. q \in t.dirs \cup Paths(t.files) /\ q \in Names
    BY <1>3, <1>4, PathsAreNames DEF TreeOK
  <2>2. y \in t.dirs
    BY <1>5, <2>1, Hangs
  <2>3. ASSUME AtOrBelow(y, d)
        PROVE  FALSE
    <3>1. Below(q, d)
      BY <1>5, <2>1, <2>3, BelowTransitive
    <3>2. AtOrBelow(q, d)
      BY <2>1, <3>1, BelowMeans
    <3> QED
      BY <1>3, <1>4, <1>5, <2>1, <3>1, <3>2
  <2> QED
    BY <1>3, <2>2, <2>3
<1>6. TreeOK([dirs |-> D, files |-> m])
  BY <1>3, <1>4, <1>5, TreeFrom DEF TreeOK
<1> QED
  BY <1>1, <1>2, <1>6 DEF Pruned

(* What is kept of a deleted directory: all that was at or below it.       *)
Restorable(trsh) ==
  LET top == trsh.top
      sub == trsh.sub
  IN  /\ trsh \in [top : DirPaths, sub : [dirs : SUBSET DirPaths, files : Map]]
      /\ Paths(sub.files) \subseteq FilePaths
      /\ top \in sub.dirs
      /\ \A x \in sub.dirs : AtOrBelow(x, top)
      /\ \A x \in Paths(sub.files) : Below(x, top)
      /\ \A x \in sub.dirs \cup Paths(sub.files) : \A y \in Names :
           Below(x, y) /\ AtOrBelow(y, top) => y \in sub.dirs

(* A subtree hangs together.                                               *)
LEMMA SubtreeKept ==
  ASSUME NEW t, TreeOK(t), NEW d \in t.dirs
  PROVE  Restorable([top |-> d, sub |-> Subtree(t, d)])
<1>0. d \in DirPaths /\ d \in Names /\ d # Root
  BY PathsAreNames DEF TreeOK
<1>1. PICK D : D = {e \in t.dirs : AtOrBelow(e, d)}
  OBVIOUS
<1>2. PICK m : m = Only(t.files, FilesBelow(t.files, d))
  OBVIOUS
<1>3. /\ m \in Map /\ Paths(m) \subseteq Paths(t.files)
      /\ \A x \in Paths(m) : Below(x, d)
  BY <1>2, OnlyIs DEF TreeOK, FilesBelow
<1>4. D \in SUBSET DirPaths /\ d \in D
  BY <1>0, <1>1, RootAbove DEF TreeOK
<1>5. ASSUME NEW x \in D \cup Paths(m), NEW y \in Names, Below(x, y), AtOrBelow(y, d)
      PROVE  y \in D
  <2>1. y # Root
    BY <1>0, <1>5, BelowMeans, RootAbove
  <2>2. x \in t.dirs \cup Paths(t.files)
    BY <1>1, <1>3
  <2>3. y \in t.dirs
    BY <1>5, <2>1, <2>2, Hangs
  <2> QED
    BY <1>1, <1>5, <2>3
<1>6. \A x \in D : AtOrBelow(x, d)
  BY <1>1
<1>7. PICK s : s = [top |-> d, sub |-> [dirs |-> D, files |-> m]]
  OBVIOUS
<1>8. Restorable(s)
  BY <1>0, <1>3, <1>4, <1>5, <1>6, <1>7 DEF Restorable, TreeOK
<1> QED
  BY <1>1, <1>2, <1>7, <1>8 DEF Subtree

(* It is restored where its place is vacant.                               *)
LEMMA GraftedOK ==
  ASSUME NEW t, TreeOK(t), NEW s, Restorable(s), Vacant(t, s.top)
  PROVE  TreeOK(Grafted(t, s.sub))
<1>0. s.top \in Names /\ s.top # Root
  BY PathsAreNames DEF Restorable
<1>1. PICK D : D = t.dirs \cup s.sub.dirs
  OBVIOUS
<1>2. PICK m : m = Overlaid(t.files, s.sub.files)
  OBVIOUS
<1>3. m \in Map /\ Paths(m) = Paths(t.files) \cup Paths(s.sub.files)
  BY <1>2, OverlaidIs DEF TreeOK, Restorable
<1>4. D \in SUBSET DirPaths /\ Paths(m) \subseteq FilePaths
  BY <1>1, <1>3 DEF TreeOK, Restorable
<1>5. ASSUME NEW q \in D \cup Paths(m), NEW y \in Names, Below(q, y), y # Root
      PROVE  y \in D
  <2>1. CASE q \in t.dirs \cup Paths(t.files)
    BY <1>1, <1>5, <2>1, Hangs
  <2>2. CASE q \in s.sub.dirs \cup Paths(s.sub.files)
    <3>1. q \in Names /\ AtOrBelow(q, s.top) /\ AtOrBelow(q, y)
      <4>1. q \in Names
        BY <2>2, PathsAreNames DEF Restorable
      <4> QED
        BY <1>0, <1>5, <2>2, <4>1, BelowMeans DEF Restorable
    <3>2. AtOrBelow(y, s.top) \/ Below(s.top, y)
      BY <1>0, <3>1, BelowLinear
    <3>3. CASE AtOrBelow(y, s.top)
      BY <1>1, <1>5, <2>2, <3>3 DEF Restorable
    <3>4. CASE Below(s.top, y)
      BY <1>0, <1>1, <1>5, <3>4, VacantIs
    <3> QED
      BY <3>2, <3>3, <3>4
  <2> QED
    BY <1>1, <1>3, <1>5, <2>1, <2>2
<1>6. TreeOK([dirs |-> D, files |-> m])
  BY <1>3, <1>4, <1>5, TreeFrom
<1> QED
  BY <1>1, <1>2, <1>6 DEF Grafted

(* A directory moves, with all that is below it, to a vacant place outside *)
(* of itself.                                                              *)
LEMMA MovedOK ==
  ASSUME NEW t, TreeOK(t), NEW d \in t.dirs, NEW e \in Names, Vacant(t, e), ~AtOrBelow(e, d),
         Moved(t, d, e).dirs \subseteq DirPaths, Paths(Moved(t, d, e).files) \subseteq FilePaths
  PROVE  TreeOK(Moved(t, d, e))
<1>0. d \in Names /\ d # Root /\ t.dirs \in SUBSET Names /\ t.files \in Map
  BY PathsAreNames DEF TreeOK
<1>1. PICK D : D = RenameDirs(t.dirs, d, e)
  OBVIOUS
<1>2. PICK m : m = RenamePrefix(t.files, d, e)
  OBVIOUS
<1>3. Moved(t, d, e) = [dirs |-> D, files |-> m]
  BY <1>1, <1>2 DEF Moved
<1>4. D \subseteq DirPaths /\ Paths(m) \subseteq FilePaths
  BY <1>3
<1>5. \A x \in Names : x \in D <=> \/ x \in t.dirs /\ ~AtOrBelow(x, d)
                                   \/ AtOrBelow(x, e) /\ Rebased(x, e, d) \in t.dirs
  BY <1>0, <1>1, RenameDirsIs
<1>6. m \in Map
  BY <1>0, <1>2, RenamePrefixIs
<1>7. ~AtOrBelow(d, e)
  BY VacantIs
<1>8. ASSUME NEW x \in Paths(m)
      PROVE  \/ x \in Paths(t.files) /\ ~AtOrBelow(x, d)
             \/ AtOrBelow(x, e) /\ Rebased(x, e, d) \in Paths(t.files)
  <2>0. x \in Names
    BY <1>4, PathsAreNames
  <2>1. CASE Below(x, e)
    <3>1. AtOrBelow(x, e)
      BY <1>0, <2>0, <2>1, BelowMeans
    <3>2. CASE Rebased(x, e, d) \notin Paths(t.files)
      <4>1. ~Below(x, d)
        <5>1. Below(x, d) => AtOrBelow(x, d)
          BY <1>0, <2>0, BelowMeans
        <5>2. Below(d, e) => AtOrBelow(d, e)
          BY <1>0, BelowMeans
        <5>3. Below(x, d) => AtOrBelow(e, d) \/ Below(d, e)
          BY <1>0, <2>0, <3>1, <5>1, BelowLinear
        <5> QED
          BY <1>7, <5>2, <5>3
      <4>2. x \in Paths(t.files)
        BY <1>0, <1>2, <1>8, <2>0, <2>1, <3>2, <4>1, RenamePrefixIs DEF Same
      <4> QED
        BY <3>1, <4>2, VacantIs
    <3> QED
      BY <3>1, <3>2
  <2>2. CASE ~Below(x, e)
    <3>1. ~Below(x, d) /\ x \in Paths(t.files)
      BY <1>0, <1>2, <1>8, <2>0, <2>2, RenamePrefixIs DEF Same
    <3>2. x # d
      BY <3>1, PathsAreNames DEF TreeOK
    <3> QED
      BY <1>0, <2>0, <3>1, <3>2, BelowMeans
  <2> QED
    BY <2>1, <2>2
<1>9. ASSUME NEW x \in D \cup Paths(m), NEW y \in Names, Below(x, y), y # Root
      PROVE  y \in D
  <2>0. x \in Names /\ AtOrBelow(x, y)
    BY <1>4, <1>9, PathsAreNames, BelowMeans
  <2>1. \/ x \in t.dirs \cup Paths(t.files) /\ ~AtOrBelow(x, d)
        \/ AtOrBelow(x, e) /\ Rebased(x, e, d) \in t.dirs \cup Paths(t.files)
    BY <1>5, <1>8, <2>0
  <2>2. CASE x \in t.dirs \cup Paths(t.files) /\ ~AtOrBelow(x, d)
    <3>1. y \in t.dirs
      BY <1>9, <2>2, Hangs
    <3>2. ~AtOrBelow(y, d)
      BY <1>0, <2>0, <2>2, BelowTransitive
    <3> QED
      BY <1>5, <3>1, <3>2
  <2>3. CASE AtOrBelow(x, e) /\ Rebased(x, e, d) \in t.dirs \cup Paths(t.files)
    <3>1. AtOrBelow(y, e) \/ Below(e, y)
      BY <2>0, <2>3, BelowLinear
    <3>2. CASE AtOrBelow(y, e)
      <4>1. PICK w : w = Rebased(y, e, d)
        OBVIOUS
      <4>2. w \in Names /\ AtOrBelow(w, d)
        BY <1>0, <3>2, <4>1, RebasedIs
      <4>3. Below(Rebased(x, e, d), w)
        BY <1>0, <1>9, <2>0, <3>2, <4>1, RebasedBelow
      <4>4. w # Root
        BY <1>0, <4>2, BelowMeans, RootAbove
      <4>5. w \in t.dirs
        BY <2>3, <4>2, <4>3, <4>4, Hangs
      <4> QED
        BY <1>5, <3>2, <4>1, <4>5
    <3>3. CASE Below(e, y)
      <4>1. y \in t.dirs
        BY <1>9, <3>3, VacantIs
      <4>2. ~AtOrBelow(y, d)
        <5>1. AtOrBelow(e, y)
          BY <3>3, BelowMeans
        <5> QED
          BY <1>0, <5>1, BelowTransitive
      <4> QED
        BY <1>5, <4>1, <4>2
    <3> QED
      BY <3>1, <3>2, <3>3
  <2> QED
    BY <2>1, <2>2, <2>3
<1> QED
  BY <1>3, <1>4, <1>6, <1>9, TreeFrom

(* The entries of the log.                                                 *)
Entries == [act : {"put", "delete", "move", "mkdir"}, isDir : BOOLEAN,
            before : Names, after : Names, content : Int]

(* The server's part of the invariant.                                     *)
ServerTyped ==
  /\ TreeOK(tree)
  /\ log \in Seq(Entries)
  /\ trash = EmptyTrash \/ Restorable(trash)

(* The first trees are trees.                                              *)
LEMMA ServerTypedInit == ServerInit => ServerTyped
<1> SUFFICES ASSUME ServerInit
             PROVE  ServerTyped
  OBVIOUS
<1>1. PICK t \in Trees : t = tree
  BY DEF ServerInit
<1>2. t \in [dirs : SUBSET DirPaths, files : [Paths(t.files) -> Nat \ {NoContent}]]
      /\ Paths(t.files) \subseteq FilePaths /\ WellFormed(t)
  BY PathsAssumption
<1>3. t.files \in Map
  BY <1>2, PathsAreNames, MapFrom
<1>4. TreeOK(t)
  BY <1>2, <1>3 DEF TreeOK
<1> QED
  BY <1>1, <1>4 DEF ServerInit, ServerTyped

(* A request that moves no directory makes the tree t the tree u and leaves *)
(* the entry ch in the log.                                                *)
Evolves(t, u, ch) ==
  \/ \E p \in FilePaths, c \in Int :
       /\ ch = FilePut(p, c)
       /\ u = [dirs |-> t.dirs, files |-> With(t.files, p, c)]
  \/ \E p \in Paths(t.files) :
       /\ ch = FileDelete(p)
       /\ u = [dirs |-> t.dirs, files |-> Without(t.files, {p})]
  \/ \E p \in Paths(t.files), q \in FilePaths :
       /\ ch = FileMove(p, q, t.files[p])
       /\ u = [dirs |-> t.dirs, files |-> With(Without(t.files, {p}), q, t.files[p])]
  \/ \E d \in DirPaths :
       /\ ch = DirMake(d)
       /\ u = [dirs |-> t.dirs \cup {d}, files |-> t.files]
  \/ \E d \in t.dirs : ch = DirDelete(d) /\ u = Pruned(t, d)
  \/ \E s : /\ Restorable(s) /\ Vacant(t, s.top)
            /\ ch = DirPut(s.top) /\ u = Grafted(t, s.sub)

(* A directory moves.                                                      *)
Moves(t, u, ch, d, e) ==
  /\ d \in t.dirs /\ e \in DirPaths /\ Vacant(t, e) /\ ~AtOrBelow(e, d)
  /\ ch = DirMove(d, e) /\ u = Moved(t, d, e)

(* Every change is an entry.                                               *)
LEMMA EntryTyped ==
  ASSUME NEW act \in {"put", "delete", "move", "mkdir"}, NEW isDir \in BOOLEAN,
         NEW p \in Names, NEW q \in Names, NEW c \in Int
  PROVE  Change(act, isDir, p, q, c) \in Entries
BY DEF Change, Entries

(* Replacing the files of a tree.                                          *)
LEMMA TreeParts ==
  ASSUME NEW t, TreeOK(t), NEW x
  PROVE  /\ [t EXCEPT !.files = x] = [dirs |-> t.dirs, files |-> x]
         /\ [t EXCEPT !.dirs = x] = [dirs |-> x, files |-> t.files]
BY DEF TreeOK

(* Every request of another client leaves a tree.                          *)
LEMMA EachFileChange ==
  ASSUME ServerTyped, FileChange
  PROVE  /\ ServerTyped'
         /\ \E ch \in Entries : log' = Append(log, ch) /\ Evolves(tree, tree', ch)
<1>0. TreeOK(tree) /\ log \in Seq(Entries) /\ (trash = EmptyTrash \/ Restorable(trash))
  BY DEF ServerTyped
<1>1. /\ Root \in Names /\ NoContent \in Int /\ NewContent \in Int
      /\ tree.files \in Map /\ Paths(tree.files) \subseteq FilePaths
      /\ FilePaths \subseteq Names
  <2>1. Len(log) \in Nat
    BY <1>0
  <2> QED
    BY <1>0, <2>1, PathsAreNames, RootAbove, EmptySeq DEF NoContent, NewContent, TreeOK, Root, Names
<1>2. ASSUME NEW ch \in Entries, log' = Append(log, ch), TreeOK(tree'), trash' = trash
      PROVE  ServerTyped'
  <2>1. log' \in Seq(Entries)
    BY <1>0, <1>2
  <2>2. trash' = EmptyTrash \/ Restorable(trash')
    BY <1>0, <1>2
  <2> QED
    BY <1>2, <2>1, <2>2 DEF ServerTyped, EmptyTrash, Restorable, TreeOK
<1>3. ASSUME NEW p \in FilePaths, PutFile(p)
      PROVE  /\ ServerTyped'
             /\ \E ch \in Entries : log' = Append(log, ch) /\ Evolves(tree, tree', ch)
  <2>1. FilePut(p, NewContent) \in Entries
    BY <1>1, EntryTyped DEF FilePut
  <2>2. tree' = [dirs |-> tree.dirs, files |-> With(tree.files, p, NewContent)]
    BY <1>0, <1>3, TreeParts DEF PutFile, Answer
  <2>3. TreeOK(tree')
    BY <1>0, <1>1, <1>3, <2>2, PutOK DEF PutFile
  <2>4. log' = Append(log, FilePut(p, NewContent)) /\ trash' = trash
    BY <1>3 DEF PutFile, Answer
  <2>5. Evolves(tree, tree', FilePut(p, NewContent))
    BY <1>1, <2>2 DEF Evolves
  <2> QED
    BY <1>2, <2>1, <2>3, <2>4, <2>5
<1>4. ASSUME NEW p \in FilePaths, DeleteFile(p)
      PROVE  /\ ServerTyped'
             /\ \E ch \in Entries : log' = Append(log, ch) /\ Evolves(tree, tree', ch)
  <2>1. FileDelete(p) \in Entries
    BY <1>1, EntryTyped DEF FileDelete
  <2>2. tree' = [dirs |-> tree.dirs, files |-> Without(tree.files, {p})]
    BY <1>0, <1>4, TreeParts DEF DeleteFile, Answer
  <2>3. TreeOK(tree')
    BY <1>0, <1>1, <2>2, WithoutIs, FewerFilesOK
  <2>4. log' = Append(log, FileDelete(p)) /\ trash' = trash
    BY <1>4 DEF DeleteFile, Answer
  <2>5. Evolves(tree, tree', FileDelete(p))
    BY <1>4, <2>2 DEF Evolves, DeleteFile
  <2> QED
    BY <1>2, <2>1, <2>3, <2>4, <2>5
<1>5. ASSUME NEW p \in FilePaths, NEW q \in FilePaths, MoveFile(p, q)
      PROVE  /\ ServerTyped'
             /\ \E ch \in Entries : log' = Append(log, ch) /\ Evolves(tree, tree', ch)
  <2>0. p \in Paths(tree.files) /\ Vacant(tree, q) /\ tree.files[p] \in Int
    BY <1>1, <1>5, MapIs DEF MoveFile
  <2>1. FileMove(p, q, tree.files[p]) \in Entries
    BY <1>1, <2>0, EntryTyped DEF FileMove
  <2>2. tree' = [dirs |-> tree.dirs,
                 files |-> With(Without(tree.files, {p}), q, tree.files[p])]
    BY <1>0, <1>5, TreeParts DEF MoveFile, Answer
  <2>3. TreeOK(tree')
    <3>1. PICK t : t = [dirs |-> tree.dirs, files |-> Without(tree.files, {p})]
      OBVIOUS
    <3>2. TreeOK(t)
      BY <1>0, <1>1, <3>1, WithoutIs, FewerFilesOK
    <3>3. IsDir(t, Parent(q))
      BY <2>0, <3>1 DEF Vacant, IsDir
    <3>4. TreeOK([dirs |-> t.dirs, files |-> With(t.files, q, tree.files[p])])
      BY <2>0, <3>2, <3>3, PutOK
    <3> QED
      BY <2>2, <3>1, <3>4
  <2>4. log' = Append(log, FileMove(p, q, tree.files[p])) /\ trash' = trash
    BY <1>5 DEF MoveFile, Answer
  <2>5. Evolves(tree, tree', FileMove(p, q, tree.files[p]))
    BY <2>0, <2>2 DEF Evolves
  <2> QED
    BY <1>2, <2>1, <2>3, <2>4, <2>5
<1> QED
  BY <1>3, <1>4, <1>5 DEF FileChange

(* The same for a directory that is made, deleted or restored.             *)
LEMMA EachDirChange ==
  ASSUME ServerTyped, DirChange
  PROVE  /\ ServerTyped'
         /\ \E ch \in Entries : log' = Append(log, ch) /\ Evolves(tree, tree', ch)
<1>0. TreeOK(tree) /\ log \in Seq(Entries) /\ (trash = EmptyTrash \/ Restorable(trash))
  BY DEF ServerTyped
<1>1. Root \in Names /\ NoContent \in Int /\ DirPaths \subseteq Names /\ tree.dirs \subseteq DirPaths
  BY <1>0, PathsAreNames, EmptySeq DEF NoContent, TreeOK, Root, Names
<1>2. ASSUME NEW ch \in Entries, log' = Append(log, ch), TreeOK(tree'),
             trash' = EmptyTrash \/ Restorable(trash')
      PROVE  ServerTyped'
  <2>1. log' \in Seq(Entries)
    BY <1>0, <1>2
  <2> QED
    BY <1>2, <2>1 DEF ServerTyped, EmptyTrash, Restorable, TreeOK
<1>3. ASSUME NEW d \in DirPaths, MakeDir(d)
      PROVE  /\ ServerTyped'
             /\ \E ch \in Entries : log' = Append(log, ch) /\ Evolves(tree, tree', ch)
  <2>1. DirMake(d) \in Entries
    BY <1>1, EntryTyped DEF DirMake
  <2>2. tree' = [dirs |-> tree.dirs \cup {d}, files |-> tree.files]
    BY <1>0, <1>3, TreeParts DEF MakeDir, Answer
  <2>3. TreeOK(tree')
    BY <1>0, <1>3, <2>2, MakeOK DEF MakeDir
  <2>4. log' = Append(log, DirMake(d)) /\ trash' = trash
    BY <1>3 DEF MakeDir, Answer
  <2>5. Evolves(tree, tree', DirMake(d))
    BY <2>2 DEF Evolves
  <2> QED
    BY <1>0, <1>2, <2>1, <2>3, <2>4, <2>5
<1>4. ASSUME NEW d \in DirPaths, DeleteDir(d)
      PROVE  /\ ServerTyped'
             /\ \E ch \in Entries : log' = Append(log, ch) /\ Evolves(tree, tree', ch)
  <2>1. DirDelete(d) \in Entries
    BY <1>1, EntryTyped DEF DirDelete
  <2>2. d \in tree.dirs /\ tree' = Pruned(tree, d) /\ log' = Append(log, DirDelete(d))
        /\ trash' = [top |-> d, sub |-> Subtree(tree, d)]
    BY <1>4 DEF DeleteDir, Answer
  <2>3. TreeOK(tree')
    BY <1>0, <1>1, <2>2, PrunedOK, PathsAreNames
  <2>4. Restorable(trash')
    BY <1>0, <2>2, SubtreeKept
  <2>5. Evolves(tree, tree', DirDelete(d))
    BY <2>2 DEF Evolves
  <2> QED
    BY <1>2, <2>1, <2>2, <2>3, <2>4, <2>5
<1>5. ASSUME RestoreDir
      PROVE  /\ ServerTyped'
             /\ \E ch \in Entries : log' = Append(log, ch) /\ Evolves(tree, tree', ch)
  <2>0. Restorable(trash) /\ Vacant(tree, trash.top) /\ trash' = EmptyTrash
        /\ tree' = Grafted(tree, trash.sub) /\ log' = Append(log, DirPut(trash.top))
    BY <1>0, <1>5 DEF RestoreDir, Answer
  <2>1. DirPut(trash.top) \in Entries
    BY <1>1, <2>0, EntryTyped DEF DirPut, Restorable
  <2>3. TreeOK(tree')
    BY <1>0, <2>0, GraftedOK
  <2>5. Evolves(tree, tree', DirPut(trash.top))
    BY <2>0 DEF Evolves
  <2> QED
    BY <1>2, <2>0, <2>1, <2>3, <2>5
<1> QED
  BY <1>3, <1>4, <1>5 DEF DirChange

(* A directory that moves takes what is in it along, under a name that     *)
(* was free.                                                               *)
LEMMA EachMove ==
  ASSUME ServerTyped, NEW d \in DirPaths, NEW e \in DirPaths, MoveDir(d, e)
  PROVE  /\ ServerTyped'
         /\ \E ch \in Entries : log' = Append(log, ch) /\ Moves(tree, tree', ch, d, e)
<1>0. TreeOK(tree) /\ log \in Seq(Entries) /\ (trash = EmptyTrash \/ Restorable(trash))
  BY DEF ServerTyped
<1>1. Root \in Names /\ NoContent \in Int /\ DirPaths \subseteq Names
  BY PathsAreNames, EmptySeq DEF NoContent, Root, Names
<1>2. DirMove(d, e) \in Entries
  BY <1>1, EntryTyped DEF DirMove
<1>3. /\ d \in tree.dirs /\ Vacant(tree, e) /\ ~AtOrBelow(e, d)
      /\ tree' = Moved(tree, d, e) /\ log' = Append(log, DirMove(d, e)) /\ trash' = trash
      /\ RenameDirs(tree.dirs, d, e) \subseteq DirPaths
      /\ Paths(Moved(tree, d, e).files) \subseteq FilePaths
  BY DEF MoveDir, Answer
<1>4. Moved(tree, d, e).dirs \subseteq DirPaths
  BY <1>3 DEF Moved
<1>5. TreeOK(tree')
  BY <1>0, <1>1, <1>3, <1>4, MovedOK
<1>6. log' \in Seq(Entries) /\ (trash' = EmptyTrash \/ Restorable(trash'))
  BY <1>0, <1>2, <1>3
<1>7. ServerTyped'
  BY <1>5, <1>6 DEF ServerTyped, EmptyTrash, Restorable, TreeOK
<1>8. Moves(tree, tree', DirMove(d, e), d, e)
  BY <1>3 DEF Moves
<1> QED
  BY <1>2, <1>3, <1>7, <1>8
=============================================================================
