----------------------------- MODULE FoldProofs -----------------------------
(***************************************************************************)
(* The models go through a list from its first element to its last with    *)
(* FoldLeft, whose value the library chooses as a function of sets of      *)
(* places.  Such a function exists, and a fold has a run: one state per    *)
(* place, along which what its steps keep is proved.                       *)
(***************************************************************************)
EXTENDS SequencesExt, NaturalsInduction, WellFoundedInduction, TLAPS

(* A set of naturals that is not empty has a least element: how an induction *)
(* over places is made here.                                                 *)
LEMMA Least ==
  ASSUME NEW T, T \subseteq Nat, T # {}
  PROVE  \E m \in T : \A n \in T : ~ (n < m)
<1> DEFINE R == OpToRel(<, Nat)
<1>1. IsWellFoundedOn(R, Nat)
  BY NatLessThanWellFounded
<1>2. \A x \in Nat, y \in Nat : x < y => <<x, y>> \in R
  BY DEF OpToRel
<1> HIDE DEF R
<1>3. PICK m \in T : \A n \in T : ~ (<<n, m>> \in R)
  BY <1>1, WFMin
<1>4. ASSUME NEW n \in T PROVE ~ (n < m)
  <2>1. n \in Nat /\ m \in Nat
    OBVIOUS
  <2>2. QED
    BY <1>2, <1>3, <2>1
<1>5. QED
  BY <1>3, <1>4

(* What holds at 0, and at a place whenever at the one before, holds at      *)
(* every place up to n.                                                      *)
LEMMA UpTo ==
  ASSUME NEW n \in Nat, NEW P, 0 \in P, \A k \in 1 .. n : k - 1 \in P => k \in P
  PROVE  \A k \in 0 .. n : k \in P
<1> SUFFICES ASSUME ~ (\A k \in 0 .. n : k \in P) PROVE FALSE
  OBVIOUS
<1> DEFINE T == {k \in 0 .. n : k \notin P}
<1>1. T \subseteq Nat /\ T # {}
  OBVIOUS
<1>2. PICK m \in T : \A k \in T : ~ (k < m)
  BY <1>1, Least
<1>3. m # 0 /\ m \in 1 .. n
  BY <1>2
<1>4. m - 1 \in 0 .. n /\ m - 1 < m
  BY <1>3
<1>5. m - 1 \in P
  BY <1>2, <1>4
<1>6. QED
  BY <1>2, <1>3, <1>5

(* The greatest place of a set whose places are at most k, one of them k.    *)
LEMMA MaxUpTo ==
  ASSUME NEW k \in Nat \ {0}, NEW T \in SUBSET (1 .. k), k \in T
  PROVE  Max(T) = k
<1>1. \A y \in T : k >= y
  OBVIOUS
<1>2. \A x \in T : (\A y \in T : x >= y) => x = k
  OBVIOUS
<1>3. QED
  BY <1>1, <1>2 DEF Max

\* f is the table of a fold over n elements: what each set of places makes of
\* init, the last place applied last.
FoldTable(S, n, init, step, f) ==
  /\ f \in [SUBSET (1 .. n) -> S]
  /\ f[{}] = init
  /\ \A T \in SUBSET (1 .. n) : T # {} =>
       /\ Max(T) \in 1 .. n
       /\ f[T] = step[<<Max(T), f[T \ {Max(T)}]>>]

(* The table of a fold exists, whatever its step: so the equation FoldLeft   *)
(* chooses a function by has one.                                            *)
LEMMA FoldTableExists ==
  ASSUME NEW S, NEW n \in Nat, NEW init \in S, NEW step \in [(1 .. n) \X S -> S]
  PROVE  \E f : FoldTable(S, n, init, step, f)
<1> DEFINE Q == {k \in 0 .. n : \E f : FoldTable(S, k, init, step, f)}
<1>1. 0 \in Q
  <2> DEFINE f == [T \in SUBSET (1 .. 0) |-> init]
  <2>1. 1 .. 0 = {}
    OBVIOUS
  <2>2. f \in [SUBSET (1 .. 0) -> S] /\ f[{}] = init
    OBVIOUS
  <2>3. FoldTable(S, 0, init, step, f)
    BY <2>1, <2>2 DEF FoldTable
  <2> HIDE DEF f
  <2>4. QED
    BY <2>3
<1>2. ASSUME NEW k \in 1 .. n, k - 1 \in Q
      PROVE  k \in Q
  <2>1. PICK g : FoldTable(S, k - 1, init, step, g)
    BY <1>2
  <2> DEFINE f == [T \in SUBSET (1 .. k) |->
                     IF k \in T THEN step[<<k, g[T \ {k}]>>] ELSE g[T]]
  <2>2. \A T \in SUBSET (1 .. k) :
          /\ T \ {k} \in SUBSET (1 .. (k - 1))
          /\ k \notin T => T \in SUBSET (1 .. (k - 1))
          /\ k \in T => Max(T) = k
    BY MaxUpTo
  <2>3. f \in [SUBSET (1 .. k) -> S]
    BY <2>1, <2>2 DEF FoldTable
  <2>4. \A T \in SUBSET (1 .. (k - 1)) : f[T] = g[T]
    OBVIOUS
  <2>5. ASSUME NEW T \in SUBSET (1 .. k), T # {}
        PROVE  Max(T) \in 1 .. k /\ f[T] = step[<<Max(T), f[T \ {Max(T)}]>>]
    <3>1. CASE k \in T
      <4>1. f[T] = step[<<k, g[T \ {k}]>>]
        BY <3>1
      <4>2. QED
        BY <2>2, <2>4, <3>1, <4>1
    <3>2. CASE k \notin T
      <4>1. T \in SUBSET (1 .. (k - 1)) /\ f[T] = g[T]
        BY <2>2, <2>4, <3>2
      <4>2. f[T \ {Max(T)}] = g[T \ {Max(T)}]
        BY <2>4, <4>1
      <4>3. Max(T) \in 1 .. k - 1 /\ g[T] = step[<<Max(T), g[T \ {Max(T)}]>>]
        BY <2>1, <2>5, <4>1 DEF FoldTable
      <4>4. QED
        BY <4>1, <4>2, <4>3
    <3>3. QED
      BY <3>1, <3>2
  <2>6. f[{}] = init
    BY <2>1, <2>4 DEF FoldTable
  <2> HIDE DEF f
  <2>7. FoldTable(S, k, init, step, f)
    BY <2>3, <2>5, <2>6 DEF FoldTable
  <2>8. QED
    BY <2>7
<1>3. \A k \in 0 .. n : k \in Q
  <2> HIDE DEF Q
  <2>1. QED
    BY <1>1, <1>2, UpTo
<1>4. QED
  <2>1. n \in Q
    BY <1>3
  <2>2. QED
    BY <2>1

\* run goes from init to result, one step at a time.
FoldRun(S, n, init, step, run, result) ==
  /\ run \in [0 .. n -> S]
  /\ run[0] = init
  /\ \A k \in 1 .. n : run[k] = step[<<k, run[k - 1]>>]
  /\ run[n] = result

(* What satisfies the equation of a fold takes init through a run of it.     *)
LEMMA FoldRuns ==
  ASSUME NEW S, NEW n \in Nat, NEW init \in S, NEW step \in [(1 .. n) \X S -> S],
         NEW iter, iter[{}] = init,
         \A T \in SUBSET (1 .. n) : T # {} /\ iter[T \ {Max(T)}] \in S =>
           iter[T] = step[<<Max(T), iter[T \ {Max(T)}]>>]
  PROVE  \E run : FoldRun(S, n, init, step, run, iter[1 .. n])
<1> DEFINE P == {k \in 0 .. n : iter[1 .. k] \in S}
<1>1. ASSUME NEW k \in 1 .. n, iter[1 .. k - 1] \in S
      PROVE  iter[1 .. k] = step[<<k, iter[1 .. k - 1]>>]
  <2>1. 1 .. k \in SUBSET (1 .. n) /\ 1 .. k # {} /\ k \in 1 .. k
    OBVIOUS
  <2>2. Max(1 .. k) = k
    BY <2>1, MaxUpTo
  <2>3. (1 .. k) \ {k} = 1 .. k - 1
    OBVIOUS
  <2>4. QED
    BY <1>1, <2>1, <2>2, <2>3
<1>2. 1 .. 0 = {}
  OBVIOUS
<1>3. 0 \in P
  BY <1>2
<1>4. ASSUME NEW k \in 1 .. n, k - 1 \in P PROVE k \in P
  <2>1. <<k, iter[1 .. k - 1]>> \in (1 .. n) \X S
    BY <1>4
  <2>2. step[<<k, iter[1 .. k - 1]>>] \in S
    BY <2>1
  <2>3. QED
    BY <1>1, <1>4, <2>2
<1>5. \A k \in 0 .. n : k \in P
  <2> HIDE DEF P
  <2>1. QED
    BY <1>3, <1>4, UpTo
<1> DEFINE run == [k \in 0 .. n |-> iter[1 .. k]]
<1>6. run \in [0 .. n -> S]
  BY <1>5
<1>7. run[0] = init /\ run[n] = iter[1 .. n]
  BY <1>2
<1>8. \A k \in 1 .. n : run[k] = step[<<k, run[k - 1]>>]
  BY <1>1, <1>5
<1> HIDE DEF run
<1>9. FoldRun(S, n, init, step, run, iter[1 .. n])
  BY <1>6, <1>7, <1>8 DEF FoldRun
<1>10. QED
  BY <1>9
=============================================================================
