----------------------------- MODULE LoopProofs -----------------------------
(***************************************************************************)
(* Induction over data, and the proofs about the loops of the program that *)
(* the specification writes as folds: first the lemmas that such a proof   *)
(* takes, then the lines that a Client cuts from its buffer, then the      *)
(* digits of a target, then the random programs and what runs them, and    *)
(* last the launches that the cards are told, one after the other.         *)
(*                                                                         *)
(* The induction theorems of the library take an operator, which no prover *)
(* here can instantiate.  That a well-founded relation has no descending   *)
(* chain needs none: every set of naturals, and every set of subsets of a  *)
(* finite set, has a least element, which is what an induction takes for   *)
(* its counterexample.  From that follow induction up to a bound, and that *)
(* a function exists that satisfies the equation of a fold; the CHOOSE by  *)
(* which FoldLeft is defined then takes one that does.                     *)
(***************************************************************************)
EXTENDS Stream, Targets, MachineCode, Threads, FiniteSetTheorems, SequenceTheorems,
        WellFoundedInduction, TLAPS

-----------------------------------------------------------------------------
(* A set of natural numbers that is not empty has a least element.          *)
LEMMA LeastOf ==
    ASSUME NEW T, T \subseteq Nat, T # {}
    PROVE  \E i \in T : \A j \in T : i <= j
  <1>1. PICK i \in T : \A j \in T : ~(<<j, i>> \in OpToRel(<, Nat))
    BY NatLessThanWellFounded, WFMin
  <1>2. ASSUME NEW j \in T PROVE i <= j
    <2>1. i \in Nat /\ j \in Nat
      OBVIOUS
    <2>2. ~(j < i)
      BY <1>1, <2>1 DEF OpToRel
    <2> QED BY <2>1, <2>2
  <1> QED BY <1>2

(* A set that has 0 and, with each number below n, the next one, has all of *)
(* them: by the least one that it would lack.                               *)
LEMMA UpTo ==
    ASSUME NEW n \in Nat, NEW T, 0 \in T, \A i \in 1..n : i - 1 \in T => i \in T
    PROVE  \A i \in 0..n : i \in T
  <1> DEFINE Lacks == {i \in 0..n : i \notin T}
  <1>1. SUFFICES Lacks = {}
    OBVIOUS
  <1>2. SUFFICES ASSUME Lacks # {} PROVE FALSE
    OBVIOUS
  <1>3. PICK i \in Lacks : \A j \in Lacks : i <= j
    <2>1. Lacks \subseteq Nat
      OBVIOUS
    <2> HIDE DEF Lacks
    <2> QED BY <1>2, <2>1, LeastOf
  <1>4. i \in 1..n /\ i - 1 \in 0..n
    BY <1>3
  <1>5. i - 1 \in T
    BY <1>3, <1>4
  <1> QED BY <1>3, <1>4, <1>5

(* A set of numbers up to n that is not empty has a greatest one, and Max of *)
(* FiniteSetsExt is that.                                                   *)
LEMMA MaximumOf ==
    ASSUME NEW n \in Nat, NEW T \in SUBSET (1..n), T # {}
    PROVE  Max(T) \in T /\ \A y \in T : y <= Max(T)
<1> DEFINE U == {n - y : y \in T}
<1>1. U \in SUBSET Nat /\ U # {}
  <2>1. \A y \in T : n - y \in Nat
    OBVIOUS
  <2> QED BY <2>1
<1>2. PICK u \in U : \A y \in U : u <= y
  <2> HIDE DEF U
  <2> QED BY <1>1, LeastOf
<1>3. PICK x \in T : u = n - x
  BY <1>2
<1>4. \A y \in T : x >= y
  <2> SUFFICES ASSUME NEW y \in T PROVE x >= y
    OBVIOUS
  <2>1. n - y \in U
    OBVIOUS
  <2>2. u <= n - y
    BY <1>2, <2>1
  <2> QED BY <1>3, <2>2
<1> QED BY <1>3, <1>4 DEF Max

(* What follows the first n of b numbers, after a numbers more.             *)
LEMMA AfterPart ==
    ASSUME NEW a \in Nat, NEW b \in Nat, NEW n \in 0..b, NEW i \in 1..(b - n)
    PROVE  n + i \in 1..b /\ a + (n + i) \in 1..(a + b)
  OBVIOUS

(* A function on 1..n is a sequence of n elements. *)
LEMMA FunctionIsSeq ==
    ASSUME NEW S, NEW n \in Nat, NEW f \in [1..n -> S]
    PROVE  f \in Seq(S) /\ Len(f) = n
  OBVIOUS

(* The greatest number up to k is k.                                        *)
LEMMA MaxOfInterval ==
    ASSUME NEW k \in Nat \ {0}
    PROVE  Max(1..k) = k /\ (1..k) \ {k} = 1..(k - 1) /\ 1..k # {}
<1>1. Max(1..k) \in 1..k /\ \A y \in 1..k : y <= Max(1..k)
  <2> DEFINE T == 1..k
  <2>1. T \in SUBSET (1..k) /\ T # {}
    OBVIOUS
  <2> HIDE DEF T
  <2>2. Max(T) \in T /\ \A y \in T : y <= Max(T)
    BY <2>1, MaximumOf
  <2> QED BY <2>2 DEF T
<1>2. k \in 1..k
  OBVIOUS
<1> DEFINE m == Max(1..k)
<1> HIDE DEF m
<1>3. m \in 1..k /\ k <= m
  BY <1>1, <1>2 DEF m
<1>4. m = k
  BY <1>3
<1>5. (1..k) \ {k} = 1..(k - 1) /\ 1..k # {}
  OBVIOUS
<1> QED BY <1>4, <1>5 DEF m

-----------------------------------------------------------------------------
(* A set of subsets of a finite set has one of which no other is a part.    *)
LEMMA MinimalSubset ==
    ASSUME NEW S, IsFiniteSet(S), NEW T \in SUBSET (SUBSET S), T # {}
    PROVE  \E x \in T : \A y \in T : ~(y \subseteq x /\ y # x)
<1>1. IsWellFoundedOn(StrictSubsetOrdering(S), SUBSET S)
  BY FS_StrictSubsetOrderingWellFounded, FS_FiniteSubsetsOfFinite
<1>2. \E x \in T : \A y \in T : ~(<<y, x>> \in StrictSubsetOrdering(S))
  BY <1>1, WFMin
<1> QED BY <1>2 DEF StrictSubsetOrdering

(* The function of the subsets of S that FoldFunctionOnSet is defined with: it takes
   the element c[T] from T, and G[x] folds in the element x. *)
Recurses(iter, S, c, V, base, G) ==
    /\ iter \in [SUBSET S -> V]
    /\ \A T \in SUBSET S : iter[T] = IF T = {} THEN base ELSE G[c[T]][iter[T \ {c[T]}]]

(* There is such a function, whatever is folded: the least set of pairs that
   has <<{}, base>> and is closed under a step is one, for a least subset at
   which it had no value or two would show that it is not the least set. *)
LEMMA SubsetRecursion ==
    ASSUME NEW S, IsFiniteSet(S), NEW c, \A T \in SUBSET S : T # {} => c[T] \in T,
           NEW V, NEW base \in V, NEW G \in [S -> [V -> V]]
    PROVE  \E iter : Recurses(iter, S, c, V, base, G)
<1> DEFINE P == (SUBSET S) \X V
           Closed(Q) == /\ <<{}, base>> \in Q
                        /\ \A T \in SUBSET S, v \in V :
                               T # {} /\ <<T \ {c[T]}, v>> \in Q => <<T, G[c[T]][v]>> \in Q
           R == {p \in P : \A Q \in SUBSET P : Closed(Q) => p \in Q}
<1>1. R \in SUBSET P
  OBVIOUS
<1>2. \A T \in SUBSET S, v \in V : T # {} => c[T] \in S /\ G[c[T]][v] \in V /\ T \ {c[T]} \in SUBSET S
  OBVIOUS
<1>3. Closed(R)
  <2>1. <<{}, base>> \in R
    OBVIOUS
  <2>2. ASSUME NEW T \in SUBSET S, NEW v \in V, T # {}, <<T \ {c[T]}, v>> \in R
        PROVE  <<T, G[c[T]][v]>> \in R
    <3>1. <<T, G[c[T]][v]>> \in P
      BY <1>2, <2>2
    <3>2. ASSUME NEW Q \in SUBSET P, Closed(Q) PROVE <<T, G[c[T]][v]>> \in Q
      BY <2>2, <3>2
    <3> QED BY <3>1, <3>2
  <2> QED BY <2>1, <2>2
<1>4. ASSUME NEW Q \in SUBSET P, Closed(Q) PROVE R \subseteq Q
  BY <1>4
<1>5. \A T \in SUBSET S : \E v \in V : <<T, v>> \in R
  <2> DEFINE B == {T \in SUBSET S : \A v \in V : <<T, v>> \notin R}
  <2>1. SUFFICES ASSUME B # {} PROVE FALSE
    OBVIOUS
  <2> HIDE DEF R
  <2>2. PICK T \in B : \A U \in B : ~(U \subseteq T /\ U # T)
    <3>1. B \in SUBSET (SUBSET S)
      OBVIOUS
    <3> HIDE DEF B
    <3> QED BY <2>1, <3>1, MinimalSubset
  <2>3. T # {}
    BY <1>3
  <2>4. PICK v \in V : <<T \ {c[T]}, v>> \in R
    <3>1. T \ {c[T]} \notin B
      BY <2>2, <2>3
    <3> QED BY <3>1
  <2>5. <<T, G[c[T]][v]>> \in R
    BY <1>3, <2>3, <2>4
  <2> QED BY <1>2, <2>3, <2>4, <2>5
<1>6. \A T \in SUBSET S : \A v, w \in V : <<T, v>> \in R /\ <<T, w>> \in R => v = w
  <2> DEFINE B == {T \in SUBSET S : \E v, w \in V : <<T, v>> \in R /\ <<T, w>> \in R /\ v # w}
  <2>1. SUFFICES ASSUME B # {} PROVE FALSE
    OBVIOUS
  <2>2. PICK T \in B : \A U \in B : ~(U \subseteq T /\ U # T)
    <3>1. B \in SUBSET (SUBSET S)
      OBVIOUS
    <3> HIDE DEF B
    <3> QED BY <2>1, <3>1, MinimalSubset
  <2>3. PICK v \in V, w \in V : <<T, v>> \in R /\ <<T, w>> \in R /\ v # w
    BY <2>2
  <2>4. PICK u \in V : \A x \in V : x # u => Closed(R \ {<<T, x>>})
    <3> HIDE DEF R
    <3>1. CASE T = {}
      <4>1. ASSUME NEW x \in V, x # base PROVE Closed(R \ {<<T, x>>})
        BY <1>3, <3>1, <4>1
      <4> QED BY <4>1
    <3>2. CASE T # {}
      <4>1. PICK y \in V : <<T \ {c[T]}, y>> \in R
        BY <1>5, <1>2, <3>2
      <4>2. \A z \in V : <<T \ {c[T]}, z>> \in R => z = y
        <5>1. T \ {c[T]} \notin B
          BY <2>2, <3>2
        <5> QED BY <4>1, <5>1
      <4>3. ASSUME NEW x \in V, x # G[c[T]][y] PROVE Closed(R \ {<<T, x>>})
        <5>1. <<{}, base>> \in R \ {<<T, x>>}
          BY <1>3, <3>2
        <5>2. ASSUME NEW U \in SUBSET S, NEW z \in V, U # {}, <<U \ {c[U]}, z>> \in R \ {<<T, x>>}
              PROVE  <<U, G[c[U]][z]>> \in R \ {<<T, x>>}
          <6>1. <<U, G[c[U]][z]>> \in R
            BY <1>3, <5>2
          <6>2. U = T => z = y
            BY <4>2, <5>2
          <6> QED BY <6>1, <6>2, <4>3
        <5> QED BY <5>1, <5>2
      <4> DEFINE u == G[c[T]][y]
      <4>4. u \in V
        BY <1>2, <3>2, <4>1
      <4>5. \A x \in V : x # u => Closed(R \ {<<T, x>>})
        BY <4>3
      <4> HIDE DEF u, Closed
      <4> QED BY <4>4, <4>5
    <3> QED BY <3>1, <3>2
  <2>5. ASSUME NEW x \in V, x # u, <<T, x>> \in R PROVE FALSE
    <3>1. R \ {<<T, x>>} \in SUBSET P
      BY <1>1
    <3>2. Closed(R \ {<<T, x>>})
      BY <2>4, <2>5
    <3>3. R \subseteq R \ {<<T, x>>}
      <4> DEFINE Q == R \ {<<T, x>>}
      <4>1. Q \in SUBSET P /\ Closed(Q)
        BY <3>1, <3>2
      <4> HIDE DEF Q, R, Closed
      <4>2. R \subseteq Q
        BY <1>4, <4>1
      <4> QED BY <4>2 DEF Q
    <3> QED BY <3>3, <2>5
  <2> QED BY <2>3, <2>5
<1> DEFINE iter == [T \in SUBSET S |-> CHOOSE v \in V : <<T, v>> \in R]
<1> HIDE DEF R
<1>7. \A T \in SUBSET S : iter[T] \in V /\ <<T, iter[T]>> \in R
  BY <1>5
<1>8. ASSUME NEW T \in SUBSET S PROVE iter[T] = IF T = {} THEN base ELSE G[c[T]][iter[T \ {c[T]}]]
  <2>1. CASE T = {}
    BY <2>1, <1>3, <1>6, <1>7
  <2>2. CASE T # {}
    <3>1. iter[T \ {c[T]}] \in V /\ <<T \ {c[T]}, iter[T \ {c[T]}]>> \in R
      BY <1>7, <1>2, <2>2
    <3> DEFINE r == iter[T \ {c[T]}]
    <3> HIDE DEF r, iter
    <3>2. r \in V /\ <<T \ {c[T]}, r>> \in R
      BY <3>1 DEF r
    <3>3. <<T, G[c[T]][r]>> \in R /\ G[c[T]][r] \in V
      BY <1>3, <1>2, <2>2, <3>2
    <3>4. iter[T] = G[c[T]][r]
      BY <1>6, <1>7, <3>3
    <3> QED BY <3>4, <2>2 DEF r
  <2> QED BY <2>1, <2>2
<1>9. iter \in [SUBSET S -> V]
  BY <1>7
<1> HIDE DEF iter
<1> QED BY <1>8, <1>9 DEF Recurses

(* The function that FoldLeft is defined with, of a sequence of n elements:
   it takes the last of the elements that remain, and G[i] folds in the i-th. *)
Folds(iter, n, V, base, G) ==
    /\ iter \in [SUBSET (1..n) -> V]
    /\ \A T \in SUBSET (1..n) : iter[T] = IF T = {} THEN base ELSE G[Max(T)][iter[T \ {Max(T)}]]

(* There is such a function, whatever is folded.                            *)
LEMMA FoldExists ==
    ASSUME NEW n \in Nat, NEW V, NEW base \in V, NEW G \in [1..n -> [V -> V]]
    PROVE  \E iter : Folds(iter, n, V, base, G)
<1> DEFINE S == 1..n
           c == [T \in SUBSET S |-> Max(T)]
<1>1. IsFiniteSet(S)
  BY FS_Interval
<1>2. \A T \in SUBSET S : T # {} => c[T] \in T
  BY MaximumOf
<1>3. G \in [S -> [V -> V]]
  OBVIOUS
<1>4. \A T \in SUBSET S : c[T] = Max(T)
  OBVIOUS
<1> HIDE DEF c
<1> HIDE DEF S
<1>5. \E iter : Recurses(iter, S, c, V, base, G)
  BY <1>1, <1>2, <1>3, SubsetRecursion
<1>6. PICK iter : Recurses(iter, S, c, V, base, G)
  BY <1>5
<1>7. /\ iter \in [SUBSET S -> V]
      /\ \A T \in SUBSET S : iter[T] = IF T = {} THEN base ELSE G[Max(T)][iter[T \ {Max(T)}]]
  BY <1>4, <1>6 DEF Recurses
<1> QED BY <1>7 DEF S, Folds

-----------------------------------------------------------------------------
(* What SumFunctionOnSet adds up, in whatever order CHOOSE takes the elements, *)
(* is the sum: one element and what the others add up to.                   *)
Adds(sum, S, f) ==
    /\ sum \in [SUBSET S -> Nat] /\ sum[{}] = 0
    /\ \A T \in SUBSET S : \A x \in T : sum[T] = f[x] + sum[T \ {x}]

(* It is such a sum.                                                        *)
LEMMA SumAdds ==
    ASSUME NEW S, IsFiniteSet(S), NEW f \in [S -> Nat]
    PROVE  \E sum : Adds(sum, S, f) /\ sum[S] = SumFunctionOnSet(f, S)
  <1> DEFINE c == [T \in SUBSET S |-> CHOOSE x \in T : TRUE]
             G == [x \in S |-> [v \in Nat |-> f[x] + v]]
             Equation(g) ==
                 g = [T \in SUBSET S |-> IF T = {} THEN 0
                                          ELSE f[CHOOSE x \in T : TRUE] + g[T \ {CHOOSE x \in T : TRUE}]]
             iter == CHOOSE g : Equation(g)
  <1>1. \A T \in SUBSET S : T # {} => c[T] \in T
    OBVIOUS
  <1>2. G \in [S -> [Nat -> Nat]]
    OBVIOUS
  <1>3. \A T \in SUBSET S : c[T] = CHOOSE x \in T : TRUE
    OBVIOUS
  <1>4. \A x \in S, v \in Nat : G[x][v] = f[x] + v
    OBVIOUS
  <1> HIDE DEF c, G
  <1>5. SumFunctionOnSet(f, S) = iter[S]
    BY DEF SumFunctionOnSet, FoldFunctionOnSet, MapThenFoldSet
  <1>6. \E g : Equation(g)
    <2>1. PICK g : Recurses(g, S, c, Nat, 0, G)
      BY <1>1, <1>2, SubsetRecursion
    <2>2. g \in [SUBSET S -> Nat]
      BY <2>1 DEF Recurses
    <2>3. ASSUME NEW T \in SUBSET S
          PROVE  g[T] = IF T = {} THEN 0
                        ELSE f[CHOOSE x \in T : TRUE] + g[T \ {CHOOSE x \in T : TRUE}]
      <3>1. CASE T # {}
        <4>1. g[T] = G[c[T]][g[T \ {c[T]}]]
          BY <2>1, <3>1 DEF Recurses
        <4>2. c[T] \in S /\ T \ {c[T]} \in SUBSET S
          BY <1>1, <3>1
        <4>3. g[T \ {c[T]}] \in Nat
          BY <2>2, <4>2
        <4>4. g[T] = f[c[T]] + g[T \ {c[T]}]
          BY <1>4, <4>1, <4>2, <4>3
        <4> QED BY <1>3, <3>1, <4>4
      <3>2. CASE T = {}
        BY <2>1, <3>2 DEF Recurses
      <3> QED BY <3>1, <3>2
    <2> QED BY <2>2, <2>3
  <1>7. Equation(iter)
    BY <1>6
  <1> HIDE DEF iter
  <1>8. \A T \in SUBSET S : T # {} => c[T] \in S /\ iter[T] = f[c[T]] + iter[T \ {c[T]}]
    BY <1>1, <1>3, <1>7
  <1>9. iter[{}] = 0 /\ DOMAIN iter = SUBSET S /\ iter = [T \in SUBSET S |-> iter[T]]
    <2>1. {} \in SUBSET S
      OBVIOUS
    <2> QED BY <1>7, <2>1
  <1>10. \A T \in SUBSET S : iter[T] \in Nat
    <2> DEFINE Bad == {T \in SUBSET S : iter[T] \notin Nat}
    <2>1. SUFFICES ASSUME Bad # {} PROVE FALSE
      OBVIOUS
    <2>2. PICK T \in Bad : \A U \in Bad : ~(U \subseteq T /\ U # T)
      <3>1. Bad \in SUBSET (SUBSET S)
        OBVIOUS
      <3> HIDE DEF Bad
      <3> QED BY <2>1, <3>1, MinimalSubset
    <2>3. T # {} /\ T \in SUBSET S
      <3>1. iter[{}] \in Nat
        BY <1>9
      <3> QED BY <2>2, <3>1
    <2>4. T \ {c[T]} \in SUBSET S /\ T \ {c[T]} \subseteq T /\ T \ {c[T]} # T
      BY <1>1, <2>3
    <2>5. iter[T \ {c[T]}] \in Nat
      BY <2>2, <2>4
    <2> QED BY <1>8, <2>2, <2>3, <2>5
  <1>11. \A T \in SUBSET S : \A x \in T : iter[T] = f[x] + iter[T \ {x}]
    <2> DEFINE Bad == {T \in SUBSET S : \E x \in T : iter[T] # f[x] + iter[T \ {x}]}
    <2>1. SUFFICES ASSUME Bad # {} PROVE FALSE
      OBVIOUS
    <2>2. PICK T \in Bad : \A U \in Bad : ~(U \subseteq T /\ U # T)
      <3>1. Bad \in SUBSET (SUBSET S)
        OBVIOUS
      <3> HIDE DEF Bad
      <3> QED BY <2>1, <3>1, MinimalSubset
    <2>3. PICK x \in T : iter[T] # f[x] + iter[T \ {x}]
      BY <2>2
    <2> DEFINE y == c[T]
               A == T \ {x}
               B == T \ {y}
               C == (T \ {x}) \ {y}
    <2>4. T \in SUBSET S /\ T # {} /\ y \in T /\ y \in S /\ x \in S /\ iter[T] = f[y] + iter[B]
      BY <1>1, <1>8, <2>2, <2>3
    <2> HIDE DEF y
    <2>5. x # y
      BY <2>3, <2>4
    <2>6. A \in SUBSET S /\ B \in SUBSET S /\ C \in SUBSET S /\ A # T /\ B # T /\ A \subseteq T /\ B \subseteq T
          /\ y \in A /\ x \in B /\ A \ {y} = C /\ B \ {x} = C
      BY <2>3, <2>4, <2>5
    <2>7. A \notin Bad /\ B \notin Bad
      BY <2>2, <2>6
    <2>8. iter[A] = f[y] + iter[C] /\ iter[B] = f[x] + iter[C]
      BY <2>6, <2>7
    <2>9. iter[A] \in Nat /\ iter[B] \in Nat /\ iter[C] \in Nat /\ f[x] \in Nat /\ f[y] \in Nat
      BY <1>10, <2>4, <2>6
    <2>10. f[y] + (f[x] + iter[C]) = f[x] + (f[y] + iter[C])
      BY <2>9
    <2> QED BY <2>3, <2>4, <2>8, <2>10
  <1> QED BY <1>5, <1>9, <1>10, <1>11 DEF Adds

-----------------------------------------------------------------------------
(* The inductive invariant of Stream: what is in the buffer of a Client, on   *)
(* its way to it and still to be written by its pool is the text of the pool, *)
(* in order, from after the lines that were heard.                            *)

(* The pieces that a pool writes to its connection c, and the bytes that they
   are carried in. *)
PieceSet(c) == UNION {{Piece(c, l, p) : p \in 1..LineSizes[l]} : l \in DOMAIN LineSizes}
ByteSet(c) == [piece : PieceSet(c), last : BOOLEAN]

(* The piece that a pool writes after x. *)
After(x) ==
    IF EndsLine(x) THEN Piece(x.connection, x.line + 1, 1)
    ELSE Piece(x.connection, x.line, x.part + 1)

(* What the pool writes from the part q of its line l on. *)
InOrder(c, s, l, q) ==
    /\ s \in Seq(PieceSet(c))
    /\ s # <<>> => s[1] = Piece(c, l, q)
    /\ \A i \in 1..(Len(s) - 1) : s[i + 1] = After(s[i])

(* What is in the buffer, on its way and still to be written. *)
Flow(buffer, bytes, rest) == (buffer \o Pieces(bytes)) \o rest

(* Each record is a line. *)
Marked(bytes) == \A i \in DOMAIN bytes : bytes[i].last = EndsLine(bytes[i].piece)

(* The types, and that a handshake is one of a pool that has TLS. *)
StreamTyped ==
    /\ pool \in PoolKinds /\ connection \in Nat
    /\ socket \in {"lookup", "connecting", "handshake", "up", "closing"}
    /\ socket = "handshake" => pool.secure

(* A server with another certificate is never heard. *)
Unheard ==
    pool.fingerprint /\ ~pool.genuine => socket # "up" /\ heard = <<>> /\ ~garbled /\ ~loggedIn

(* Where nothing of the last connection is left. *)
Emptied ==
    /\ socket = "lookup" => wire = <<>> /\ unwritten = <<>>
    /\ socket \in {"lookup", "connecting", "handshake"} => heard = <<>> /\ readBio = <<>>

(* The lines that were heard are the first ones, and what is to come goes on
   after them. *)
Flowing ==
    /\ ~garbled /\ heard \in Seq(Nat) /\ heard = [l \in 1..Len(heard) |-> l]
    /\ socket # "lookup" =>
        /\ recvBuf \in Seq(PieceSet(connection)) /\ readBio \in Seq(ByteSet(connection))
        /\ wire \in Seq(ByteSet(connection)) /\ unwritten \in Seq(PieceSet(connection))
        /\ IF pool.secure
           THEN recvBuf = <<>> /\ Marked(readBio \o wire) /\ (unwritten # <<>> => unwritten[1].part = 1)
           ELSE readBio = <<>>
        /\ InOrder(connection, Flow(recvBuf, readBio \o wire, unwritten), Len(heard) + 1, 1)

(* The lines are those of the pool where each fits the buffer that a TLS record
   is read to (Framed); its certificate matters in every case. *)
StreamInv == StreamTyped /\ Unheard /\ (Framed => Emptied /\ Flowing)

-----------------------------------------------------------------------------
(* The loops of read, of the TLS decryption, of parse and of the pool, each as
   the values between its iterations. *)

(* A record is given to parse in texts of its pieces.                       *)
LEMMA InBuffersType ==
    ASSUME NEW P, NEW record \in Seq(P)
    PROVE  InBuffers(record) \in Seq(Seq(P))
  <1> DEFINE n == (Len(record) + TlsBuffer - 1) \div TlsBuffer
             t(i) == SubSeq(record, (i - 1) * TlsBuffer + 1,
                            IF i * TlsBuffer < Len(record) THEN i * TlsBuffer ELSE Len(record))
  <1>1. n \in Nat
    BY StreamAssumption
  <1>2. ASSUME NEW i \in 1..n PROVE t(i) \in Seq(P)
    <2>1. (i - 1) * TlsBuffer \in Nat /\ i * TlsBuffer \in Nat
      BY StreamAssumption
    <2> DEFINE a == (i - 1) * TlsBuffer + 1
               b == IF i * TlsBuffer < Len(record) THEN i * TlsBuffer ELSE Len(record)
    <2>2. a \in Nat /\ b \in Nat /\ a >= 1 /\ b <= Len(record)
      BY <2>1
    <2> HIDE DEF a, b
    <2>3. \A j \in a..b : record[j] \in P
      BY <2>2
    <2>4. SubSeq(record, a, b) \in Seq(P)
      BY <2>2, <2>3, SubSeqProperties
    <2> QED BY <2>4 DEF a, b
  <1>3. InBuffers(record) = [i \in 1..n |-> t(i)]
    BY DEF InBuffers
  <1> HIDE DEF n, t
  <1> QED BY <1>1, <1>2, <1>3

(* Client::read goes on from piece to piece.                                *)
LEMMA CutFolds ==
    ASSUME NEW P, NEW buffer \in Seq(P)
    PROVE  \E F : /\ F[0] = [lines |-> <<>>, rest |-> <<>>]
                  /\ \A k \in 1..Len(buffer) : F[k] = CutAt(F[k - 1], buffer[k])
                  /\ F[Len(buffer)] = Cut(buffer)
  <1> DEFINE n == Len(buffer)
             base == [lines |-> <<>>, rest |-> <<>>]
             V == [lines : Seq(Seq(P)), rest : Seq(P)]
             G == [i \in 1..n |-> [v \in V |-> CutAt(v, buffer[i])]]
             Equation(f) ==
                 f = [T \in SUBSET DOMAIN buffer |->
                         IF T = {} THEN base ELSE CutAt(f[T \ {Max(T)}], buffer[Max(T)])]
             iter == CHOOSE f : Equation(f)
  <1>1. n \in Nat /\ DOMAIN buffer = 1..n /\ \A i \in 1..n : buffer[i] \in P
    BY LenProperties, ElementOfSeq
  <1>2. base \in V /\ \A v \in V, x \in P : CutAt(v, x) \in V
    <2>1. base \in V
      OBVIOUS
    <2>2. ASSUME NEW v \in V, NEW x \in P PROVE CutAt(v, x) \in V
      <3>1. v.lines \in Seq(Seq(P)) /\ v.rest \in Seq(P) /\ Append(v.rest, x) \in Seq(P)
        OBVIOUS
      <3>2. Append(v.lines, Append(v.rest, x)) \in Seq(Seq(P))
        <4> DEFINE line == Append(v.rest, x)
                   S == Seq(P)
        <4>1. line \in S /\ v.lines \in Seq(S)
          BY <3>1
        <4> HIDE DEF line, S
        <4> QED BY <4>1 DEF line, S
      <3>3. CASE EndsLine(x)
        BY <3>2, <3>3 DEF CutAt
      <3>4. CASE ~EndsLine(x)
        BY <3>1, <3>4 DEF CutAt
      <3> QED BY <3>3, <3>4
    <2> QED BY <2>1, <2>2
  <1> HIDE DEF V
  <1>3. Cut(buffer) = iter[DOMAIN buffer]
    BY DEF Cut, FoldLeft, MapThenFoldSet
  <1>4. \E f : Equation(f)
    <2>1. base \in V /\ G \in [1..n -> [V -> V]]
      BY <1>1, <1>2
    <2>2. PICK f : Folds(f, n, V, base, G)
      <3> HIDE DEF n, base, G
      <3> QED BY <1>1, <2>1, FoldExists
    <2>3. ASSUME NEW T \in SUBSET (1..n)
          PROVE  f[T] = IF T = {} THEN base ELSE CutAt(f[T \ {Max(T)}], buffer[Max(T)])
      <3>1. CASE T # {}
        <4>1. Max(T) \in 1..n /\ f[T \ {Max(T)}] \in V
          BY <1>1, <2>2, <3>1, MaximumOf DEF Folds
        <4> QED BY <2>2, <3>1, <4>1 DEF Folds
      <3>2. CASE T = {}
        BY <2>2, <3>2 DEF Folds
      <3> QED BY <3>1, <3>2
    <2> HIDE DEF base
    <2>4. f = [T \in SUBSET (1..n) |-> IF T = {} THEN base ELSE CutAt(f[T \ {Max(T)}], buffer[Max(T)])]
      BY <2>2, <2>3 DEF Folds
    <2> QED BY <1>1, <2>4
  <1>5. Equation(iter)
    BY <1>4
  <1> DEFINE F == [k \in 0..n |-> iter[1..k]]
  <1> HIDE DEF iter
  <1>6. F[0] = base
    BY <1>1, <1>5
  <1>7. ASSUME NEW k \in 1..n PROVE F[k] = CutAt(F[k - 1], buffer[k])
    <2> DEFINE T == 1..k
    <2>1. Max(T) = k /\ T \ {k} = 1..(k - 1) /\ T # {}
      <3>1. k \in Nat \ {0}
        BY <1>1
      <3> QED BY <3>1, MaxOfInterval, Zenon
    <2>2. T \in SUBSET (1..n) /\ k - 1 \in 0..n /\ k \in 0..n
      BY <1>1
    <2> HIDE DEF T
    <2>3. iter[T] = IF T = {} THEN base ELSE CutAt(iter[T \ {Max(T)}], buffer[Max(T)])
      BY <1>1, <1>5, <2>2
    <2> QED BY <2>1, <2>2, <2>3 DEF T
  <1>8. F[n] = Cut(buffer)
    BY <1>1, <1>3
  <1> QED BY <1>1, <1>6, <1>7, <1>8

(* Tls::read goes on from byte to byte.                                     *)
LEMMA RecordsFolds ==
    ASSUME NEW P, NEW B, B = [piece : P, last : BOOLEAN], NEW bio \in Seq(B)
    PROVE  \E F : /\ F[0] = [texts |-> <<>>, plain |-> <<>>, rest |-> <<>>]
                  /\ \A k \in 1..Len(bio) : F[k] = Decrypted(F[k - 1], bio[k])
                  /\ F[Len(bio)] = Records(bio)
  <1> DEFINE n == Len(bio)
             base == [texts |-> <<>>, plain |-> <<>>, rest |-> <<>>]
             V == [texts : Seq(Seq(P)), plain : Seq(P), rest : Seq(B)]
             G == [i \in 1..n |-> [v \in V |-> Decrypted(v, bio[i])]]
             Equation(f) ==
                 f = [T \in SUBSET DOMAIN bio |->
                         IF T = {} THEN base ELSE Decrypted(f[T \ {Max(T)}], bio[Max(T)])]
             iter == CHOOSE f : Equation(f)
  <1>1. n \in Nat /\ DOMAIN bio = 1..n /\ \A i \in 1..n : bio[i] \in B
    BY LenProperties, ElementOfSeq
  <1>2. base \in V /\ \A v \in V, x \in B : Decrypted(v, x) \in V
    <2>1. base \in V
      OBVIOUS
    <2>2. ASSUME NEW v \in V, NEW x \in B PROVE Decrypted(v, x) \in V
      <3>1. v.texts \in Seq(Seq(P)) /\ v.plain \in Seq(P) /\ v.rest \in Seq(B)
            /\ Append(v.plain, x.piece) \in Seq(P) /\ Append(v.rest, x) \in Seq(B)
        OBVIOUS
      <3>2. InBuffers(Append(v.plain, x.piece)) \in Seq(Seq(P))
        BY <3>1, InBuffersType
      <3>3. v.texts \o InBuffers(Append(v.plain, x.piece)) \in Seq(Seq(P))
        BY <3>1, <3>2, ConcatProperties
      <3>4. CASE x.last
        BY <3>3, <3>4 DEF Decrypted
      <3>5. CASE ~x.last
        BY <3>1, <3>5 DEF Decrypted
      <3> QED BY <3>4, <3>5
    <2> QED BY <2>1, <2>2
  <1> HIDE DEF V
  <1>3. Records(bio) = iter[DOMAIN bio]
    BY DEF Records, FoldLeft, MapThenFoldSet
  <1>4. \E f : Equation(f)
    <2>1. base \in V /\ G \in [1..n -> [V -> V]]
      BY <1>1, <1>2
    <2>2. PICK f : Folds(f, n, V, base, G)
      <3> HIDE DEF n, base, G
      <3> QED BY <1>1, <2>1, FoldExists
    <2>3. ASSUME NEW T \in SUBSET (1..n)
          PROVE  f[T] = IF T = {} THEN base ELSE Decrypted(f[T \ {Max(T)}], bio[Max(T)])
      <3>1. CASE T # {}
        <4>1. Max(T) \in 1..n /\ f[T \ {Max(T)}] \in V
          BY <1>1, <2>2, <3>1, MaximumOf DEF Folds
        <4> QED BY <2>2, <3>1, <4>1 DEF Folds
      <3>2. CASE T = {}
        BY <2>2, <3>2 DEF Folds
      <3> QED BY <3>1, <3>2
    <2> HIDE DEF base
    <2>4. f = [T \in SUBSET (1..n) |-> IF T = {} THEN base ELSE Decrypted(f[T \ {Max(T)}], bio[Max(T)])]
      BY <2>2, <2>3 DEF Folds
    <2> QED BY <1>1, <2>4
  <1>5. Equation(iter)
    BY <1>4
  <1> DEFINE F == [k \in 0..n |-> iter[1..k]]
  <1> HIDE DEF iter
  <1>6. F[0] = base
    BY <1>1, <1>5
  <1>7. ASSUME NEW k \in 1..n PROVE F[k] = Decrypted(F[k - 1], bio[k])
    <2> DEFINE T == 1..k
    <2>1. Max(T) = k /\ T \ {k} = 1..(k - 1) /\ T # {}
      <3>1. k \in Nat \ {0}
        BY <1>1
      <3> QED BY <3>1, MaxOfInterval, Zenon
    <2>2. T \in SUBSET (1..n) /\ k - 1 \in 0..n /\ k \in 0..n
      BY <1>1
    <2> HIDE DEF T
    <2>3. iter[T] = IF T = {} THEN base ELSE Decrypted(iter[T \ {Max(T)}], bio[Max(T)])
      BY <1>1, <1>5, <2>2
    <2> QED BY <2>1, <2>2, <2>3 DEF T
  <1>8. F[n] = Records(bio)
    BY <1>1, <1>3
  <1> QED BY <1>1, <1>6, <1>7, <1>8

(* parse is given one text after the other.                                 *)
LEMMA ParsedFolds ==
    ASSUME NEW c, NEW Kinds, NEW texts \in Seq(Kinds), NEW lines \in Seq(Nat)
    PROVE  \E F : /\ F[0] = lines
                  /\ \A k \in 1..Len(texts) : F[k] = Parsed(c, F[k - 1], texts[k])
                  /\ F[Len(texts)] = AllParsed(c, lines, texts)
  <1> DEFINE n == Len(texts)
             base == lines
             V == Seq(Nat \cup {t[1].line : t \in Kinds})
             G == [i \in 1..n |-> [v \in V |-> Parsed(c, v, texts[i])]]
             Equation(f) ==
                 f = [T \in SUBSET DOMAIN texts |->
                         IF T = {} THEN base ELSE Parsed(c, f[T \ {Max(T)}], texts[Max(T)])]
             iter == CHOOSE f : Equation(f)
  <1>1. n \in Nat /\ DOMAIN texts = 1..n /\ \A i \in 1..n : texts[i] \in Kinds
    BY LenProperties, ElementOfSeq
  <1>2. base \in V /\ \A v \in V, x \in Kinds : Parsed(c, v, x) \in V
    BY DEF Parsed
  <1> HIDE DEF V
  <1>3. AllParsed(c, lines, texts) = iter[DOMAIN texts]
    BY DEF AllParsed, FoldLeft, MapThenFoldSet
  <1>4. \E f : Equation(f)
    <2>1. base \in V /\ G \in [1..n -> [V -> V]]
      BY <1>1, <1>2
    <2>2. PICK f : Folds(f, n, V, base, G)
      <3> HIDE DEF n, base, G
      <3> QED BY <1>1, <2>1, FoldExists
    <2>3. ASSUME NEW T \in SUBSET (1..n)
          PROVE  f[T] = IF T = {} THEN base ELSE Parsed(c, f[T \ {Max(T)}], texts[Max(T)])
      <3>1. CASE T # {}
        <4>1. Max(T) \in 1..n /\ f[T \ {Max(T)}] \in V
          BY <1>1, <2>2, <3>1, MaximumOf DEF Folds
        <4> QED BY <2>2, <3>1, <4>1 DEF Folds
      <3>2. CASE T = {}
        BY <2>2, <3>2 DEF Folds
      <3> QED BY <3>1, <3>2
    <2> HIDE DEF base
    <2>4. f = [T \in SUBSET (1..n) |-> IF T = {} THEN base ELSE Parsed(c, f[T \ {Max(T)}], texts[Max(T)])]
      BY <2>2, <2>3 DEF Folds
    <2> QED BY <1>1, <2>4
  <1>5. Equation(iter)
    BY <1>4
  <1> DEFINE F == [k \in 0..n |-> iter[1..k]]
  <1> HIDE DEF iter
  <1>6. F[0] = base
    BY <1>1, <1>5
  <1>7. ASSUME NEW k \in 1..n PROVE F[k] = Parsed(c, F[k - 1], texts[k])
    <2> DEFINE T == 1..k
    <2>1. Max(T) = k /\ T \ {k} = 1..(k - 1) /\ T # {}
      <3>1. k \in Nat \ {0}
        BY <1>1
      <3> QED BY <3>1, MaxOfInterval, Zenon
    <2>2. T \in SUBSET (1..n) /\ k - 1 \in 0..n /\ k \in 0..n
      BY <1>1
    <2> HIDE DEF T
    <2>3. iter[T] = IF T = {} THEN base ELSE Parsed(c, iter[T \ {Max(T)}], texts[Max(T)])
      BY <1>1, <1>5, <2>2
    <2> QED BY <2>1, <2>2, <2>3 DEF T
  <1>8. F[n] = AllParsed(c, lines, texts)
    BY <1>1, <1>3
  <1> QED BY <1>1, <1>6, <1>7, <1>8

(* The pool writes one line after the other.                                *)
LEMMA AllLinesFolds ==
    ASSUME NEW c, NEW numbers \in Seq(Nat), numbers = [l \in DOMAIN LineSizes |-> l]
    PROVE  \E F : /\ F[0] = <<>>
                  /\ \A k \in 1..Len(numbers) : F[k] = (F[k - 1] \o LineOf(c, numbers[k]))
                  /\ F[Len(numbers)] = AllLines(c)
  <1> DEFINE n == Len(numbers)
             base == <<>>
             V == Seq({Piece(c, l, p) : l \in Nat, p \in Nat})
             G == [i \in 1..n |-> [v \in V |-> (v \o LineOf(c, numbers[i]))]]
             Equation(f) ==
                 f = [T \in SUBSET DOMAIN numbers |->
                         IF T = {} THEN base ELSE (f[T \ {Max(T)}] \o LineOf(c, numbers[Max(T)]))]
             iter == CHOOSE f : Equation(f)
  <1>1. n \in Nat /\ DOMAIN numbers = 1..n /\ \A i \in 1..n : numbers[i] \in DOMAIN LineSizes
    BY LenProperties, ElementOfSeq
  <1>2. base \in V /\ \A v \in V, x \in DOMAIN LineSizes : (v \o LineOf(c, x)) \in V
    <2>1. base \in V
      OBVIOUS
    <2>2. ASSUME NEW v \in V, NEW x \in DOMAIN LineSizes PROVE v \o LineOf(c, x) \in V
      <3>1. x \in Nat /\ LineSizes[x] \in Nat
        BY StreamAssumption
      <3> DEFINE W == {Piece(c, l, p) : l \in Nat, p \in Nat}
      <3>2. \A p \in 1..LineSizes[x] : Piece(c, x, p) \in W
        BY <3>1
      <3>3. v \in Seq(W) /\ V = Seq(W)
        OBVIOUS
      <3> HIDE DEF W
      <3>4. LineOf(c, x) \in Seq(W)
        <4>1. LineOf(c, x) \in [1..LineSizes[x] -> W]
          BY <3>2 DEF LineOf
        <4>2. LineSizes[x] \in Nat
          BY <3>1
        <4> HIDE DEF V
        <4> QED BY <4>1, <4>2, FunctionIsSeq
      <3> HIDE DEF V
      <3> QED BY <3>3, <3>4, ConcatProperties
    <2> HIDE DEF V, base
    <2> QED BY <2>1, <2>2
  <1> HIDE DEF V
  <1>3. AllLines(c) = iter[DOMAIN numbers]
    BY DEF AllLines, FoldLeft, MapThenFoldSet
  <1>4. \E f : Equation(f)
    <2>1. base \in V /\ G \in [1..n -> [V -> V]]
      BY <1>1, <1>2
    <2>2. PICK f : Folds(f, n, V, base, G)
      <3> HIDE DEF n, base, G
      <3> QED BY <1>1, <2>1, FoldExists
    <2>3. ASSUME NEW T \in SUBSET (1..n)
          PROVE  f[T] = IF T = {} THEN base ELSE (f[T \ {Max(T)}] \o LineOf(c, numbers[Max(T)]))
      <3>1. CASE T # {}
        <4>1. Max(T) \in 1..n /\ f[T \ {Max(T)}] \in V
          BY <1>1, <2>2, <3>1, MaximumOf DEF Folds
        <4> QED BY <2>2, <3>1, <4>1 DEF Folds
      <3>2. CASE T = {}
        BY <2>2, <3>2 DEF Folds
      <3> QED BY <3>1, <3>2
    <2> HIDE DEF base
    <2>4. f = [T \in SUBSET (1..n) |-> IF T = {} THEN base ELSE (f[T \ {Max(T)}] \o LineOf(c, numbers[Max(T)]))]
      BY <2>2, <2>3 DEF Folds
    <2>5. Equation(f)
      <3>1. DOMAIN numbers = 1..n
        BY <1>1
      <3> HIDE DEF n
      <3> QED BY <2>4, <3>1, Zenon
    <2> HIDE DEF Equation
    <2> QED BY <2>5
  <1>5. Equation(iter)
    BY <1>4, Zenon
  <1> DEFINE F == [k \in 0..n |-> iter[1..k]]
  <1> HIDE DEF iter
  <1>6. F[0] = base
    BY <1>1, <1>5
  <1>7. ASSUME NEW k \in 1..n PROVE F[k] = (F[k - 1] \o LineOf(c, numbers[k]))
    <2> DEFINE T == 1..k
    <2>1. Max(T) = k /\ T \ {k} = 1..(k - 1) /\ T # {}
      <3>1. k \in Nat \ {0}
        BY <1>1
      <3> QED BY <3>1, MaxOfInterval, Zenon
    <2>2. T \in SUBSET (1..n) /\ k - 1 \in 0..n /\ k \in 0..n
      BY <1>1
    <2> HIDE DEF T
    <2>3. iter[T] = IF T = {} THEN base ELSE (iter[T \ {Max(T)}] \o LineOf(c, numbers[Max(T)]))
      BY <1>1, <1>5, <2>2
    <2> QED BY <2>1, <2>2, <2>3 DEF T
  <1>8. F[n] = AllLines(c)
    BY <1>1, <1>3
  <1> QED BY <1>1, <1>6, <1>7, <1>8

-----------------------------------------------------------------------------
(* Reading a text that is in order. *)

(* m lines from the line l on, and the first j pieces of the line l. *)
Lines(c, l, m) == [i \in 1..m |-> LineOf(c, l + i - 1)]
PartOf(c, l, j) == [p \in 1..j |-> Piece(c, l, p)]

(* Of a text s from the line l on, k pieces are m lines and j pieces of the
   next. *)
Reached(c, l, s, k, m, j) ==
    /\ m \in Nat /\ j \in Nat
    /\ \A i \in 1..m : l + i - 1 \in DOMAIN LineSizes
    /\ j > 0 => l + m \in DOMAIN LineSizes /\ j < LineSizes[l + m]
    /\ k < Len(s) => s[k + 1] = Piece(c, l + m, j + 1)

(* What one piece more, the k-th, does to it.                               *)
Grows(c, l, s, k, m, j) ==
    /\ s[k] = Piece(c, l + m, j + 1)
    /\ EndsLine(s[k]) =>
        /\ Reached(c, l, s, k, m + 1, 0)
        /\ Append(PartOf(c, l + m, j), s[k]) = LineOf(c, l + m)
        /\ Append(Lines(c, l, m), LineOf(c, l + m)) = Lines(c, l, m + 1)
    /\ ~EndsLine(s[k]) =>
        /\ Reached(c, l, s, k, m, j + 1)
        /\ Append(PartOf(c, l + m, j), s[k]) = PartOf(c, l + m, j + 1)

(* A piece of a text is one of a line that the pool has.                    *)
LEMMA PieceFacts ==
    ASSUME NEW c, NEW l, NEW p, Piece(c, l, p) \in PieceSet(c)
    PROVE  l \in DOMAIN LineSizes /\ l \in Nat \ {0} /\ LineSizes[l] \in Nat \ {0} /\ p \in 1..LineSizes[l]
  <1>1. PICK k \in DOMAIN LineSizes : \E q \in 1..LineSizes[k] : Piece(c, l, p) = Piece(c, k, q)
    BY DEF PieceSet
  <1>2. PICK q \in 1..LineSizes[k] : Piece(c, l, p) = Piece(c, k, q)
    BY <1>1
  <1>3. l = k /\ p = q
    BY <1>2 DEF Piece
  <1> QED BY <1>2, <1>3, StreamAssumption

(* One piece more is read: it ends its line, or it is one more of it.       *)
LEMMA OnePieceMore ==
    ASSUME NEW c, NEW l \in Nat \ {0}, NEW s, InOrder(c, s, l, 1), NEW k \in 1..Len(s),
           NEW m, NEW j, Reached(c, l, s, k - 1, m, j)
    PROVE  Grows(c, l, s, k, m, j)
  <1> DEFINE x == s[k]
  <1>1. Len(s) \in Nat /\ k \in Nat /\ k - 1 < Len(s) /\ x \in PieceSet(c) /\ m \in Nat /\ j \in Nat
    BY DEF InOrder, Reached
  <1>2. x = Piece(c, l + m, j + 1)
    BY <1>1 DEF Reached
  <1>3. l + m \in DOMAIN LineSizes /\ LineSizes[l + m] \in Nat \ {0} /\ j + 1 \in 1..LineSizes[l + m]
    BY <1>1, <1>2, PieceFacts
  <1>4. EndsLine(x) <=> j + 1 = LineSizes[l + m]
    BY <1>2 DEF EndsLine, Piece
  <1>5. k < Len(s) => s[k + 1] = After(x)
    BY <1>1 DEF InOrder
  <1>6. Append(PartOf(c, l + m, j), x) = PartOf(c, l + m, j + 1)
    BY <1>1, <1>2 DEF PartOf
  <1>7. ASSUME EndsLine(x) PROVE Reached(c, l, s, k, m + 1, 0)
    <2>1. k < Len(s) => s[k + 1] = Piece(c, l + (m + 1), 0 + 1)
      BY <1>1, <1>2, <1>5, <1>7 DEF After, Piece
    <2>2. \A i \in 1..(m + 1) : l + i - 1 \in DOMAIN LineSizes
      <3>1. \A i \in 1..m : l + i - 1 \in DOMAIN LineSizes
        BY DEF Reached
      <3>2. l + (m + 1) - 1 = l + m /\ 1..(m + 1) = 1..m \cup {m + 1}
        BY <1>1
      <3> QED BY <1>3, <3>1, <3>2
    <2> QED BY <1>1, <2>1, <2>2 DEF Reached
  <1>8. ASSUME EndsLine(x) PROVE PartOf(c, l + m, j + 1) = LineOf(c, l + m)
    BY <1>4, <1>8 DEF PartOf, LineOf
  <1>9. Append(Lines(c, l, m), LineOf(c, l + m)) = Lines(c, l, m + 1)
    <2> DEFINE L(i) == LineOf(c, l + i - 1)
    <2>1. Lines(c, l, m) = [i \in 1..m |-> L(i)] /\ Lines(c, l, m + 1) = [i \in 1..(m + 1) |-> L(i)]
      BY DEF Lines
    <2>2. LineOf(c, l + m) = L(m + 1)
      BY <1>1
    <2> HIDE DEF L
    <2> QED BY <1>1, <2>1, <2>2
  <1>10. ASSUME ~EndsLine(x) PROVE Reached(c, l, s, k, m, j + 1)
    <2>1. k < Len(s) => s[k + 1] = Piece(c, l + m, (j + 1) + 1)
      BY <1>1, <1>2, <1>5, <1>10 DEF After, Piece
    <2> QED BY <1>1, <1>3, <1>4, <1>10, <2>1 DEF Reached
  <1> QED BY <1>2, <1>6, <1>7, <1>8, <1>9, <1>10 DEF Grows

(* Where nothing has been read.                                             *)
LEMMA NothingReached ==
    ASSUME NEW c, NEW l \in Nat \ {0}, NEW s, InOrder(c, s, l, 1)
    PROVE  Reached(c, l, s, 0, 0, 0) /\ Lines(c, l, 0) = <<>> /\ PartOf(c, l, 0) = <<>>
  BY DEF InOrder, Reached, Lines, PartOf

(* What a piece does to what has been cut.                                  *)
LEMMA CutMore ==
    ASSUME NEW lines, NEW rest, NEW x
    PROVE  CutAt([lines |-> lines, rest |-> rest], x) =
               IF EndsLine(x) THEN [lines |-> Append(lines, Append(rest, x)), rest |-> <<>>]
               ELSE [lines |-> lines, rest |-> Append(rest, x)]
  <1> DEFINE cut == [lines |-> lines, rest |-> rest]
  <1>1. [cut EXCEPT !.rest = Append(@, x)] = [lines |-> lines, rest |-> Append(rest, x)]
    OBVIOUS
  <1>2. cut.lines = lines /\ cut.rest = rest
    OBVIOUS
  <1> HIDE DEF cut
  <1> QED BY <1>1, <1>2 DEF CutAt, cut

(* What is cut from the buffer is the lines that are complete, and the pieces of
   the one that is not. *)
LEMMA CutsLines ==
    ASSUME NEW c, NEW l \in Nat \ {0}, NEW s, InOrder(c, s, l, 1), NEW n \in 0..Len(s)
    PROVE  \E m, j : /\ Reached(c, l, s, n, m, j)
                     /\ Cut(SubSeq(s, 1, n)) = [lines |-> Lines(c, l, m), rest |-> PartOf(c, l + m, j)]
  <1> DEFINE buffer == SubSeq(s, 1, n)
             CutIs(cut, k) == \E m, j : /\ Reached(c, l, s, k, m, j)
                                        /\ cut = [lines |-> Lines(c, l, m), rest |-> PartOf(c, l + m, j)]
  <1>1. s \in Seq(PieceSet(c)) /\ Len(s) \in Nat /\ n \in Nat
    BY DEF InOrder
  <1>2. buffer \in Seq(PieceSet(c)) /\ Len(buffer) = n /\ \A k \in 1..n : buffer[k] = s[k]
    BY <1>1
  <1> HIDE DEF buffer
  <1>3. PICK F : /\ F[0] = [lines |-> <<>>, rest |-> <<>>]
                 /\ \A k \in 1..Len(buffer) : F[k] = CutAt(F[k - 1], buffer[k])
                 /\ F[Len(buffer)] = Cut(buffer)
    BY <1>2, CutFolds
  <1> HIDE DEF CutIs
  <1>4. CutIs(F[0], 0)
    <2>1. Reached(c, l, s, 0, 0, 0) /\ Lines(c, l, 0) = <<>> /\ PartOf(c, l + 0, 0) = <<>>
      BY NothingReached
    <2>2. F[0] = [lines |-> Lines(c, l, 0), rest |-> PartOf(c, l + 0, 0)]
      BY <1>3, <2>1
    <2> QED BY <2>1, <2>2 DEF CutIs
  <1>5. ASSUME NEW k \in 1..n, CutIs(F[k - 1], k - 1) PROVE CutIs(F[k], k)
    <2>1. PICK m, j : /\ Reached(c, l, s, k - 1, m, j)
                      /\ F[k - 1] = [lines |-> Lines(c, l, m), rest |-> PartOf(c, l + m, j)]
      BY <1>5 DEF CutIs
    <2>2. k \in 1..Len(s) /\ F[k] = CutAt(F[k - 1], s[k])
      BY <1>1, <1>2, <1>3
    <2> DEFINE x == s[k]
               lines == Lines(c, l, m)
               rest == PartOf(c, l + m, j)
    <2>6. F[k] = IF EndsLine(x) THEN [lines |-> Append(lines, Append(rest, x)), rest |-> <<>>]
                 ELSE [lines |-> lines, rest |-> Append(rest, x)]
      <3> HIDE DEF lines, rest
      <3>1. F[k] = CutAt([lines |-> lines, rest |-> rest], x)
        BY <2>1, <2>2 DEF lines, rest
      <3> QED BY <3>1, CutMore
    <2>3. Grows(c, l, s, k, m, j)
      BY <2>1, <2>2, OnePieceMore
    <2>4. CASE EndsLine(x)
      <3>1. PartOf(c, l + (m + 1), 0) = <<>>
        BY DEF PartOf
      <3>2. F[k] = [lines |-> Lines(c, l, m + 1), rest |-> PartOf(c, l + (m + 1), 0)]
        BY <2>6, <2>3, <2>4, <3>1 DEF Grows
      <3>3. Reached(c, l, s, k, m + 1, 0)
        BY <2>3, <2>4 DEF Grows
      <3> QED BY <3>2, <3>3 DEF CutIs
    <2>5. CASE ~EndsLine(x)
      <3>1. F[k] = [lines |-> Lines(c, l, m), rest |-> PartOf(c, l + m, j + 1)]
        BY <2>6, <2>3, <2>5 DEF Grows
      <3>2. Reached(c, l, s, k, m, j + 1)
        BY <2>3, <2>5 DEF Grows
      <3> QED BY <3>1, <3>2 DEF CutIs
    <2> QED BY <2>4, <2>5
  <1> DEFINE W == {k \in 0..n : CutIs(F[k], k)}
  <1>6. 0 \in W /\ \A k \in 1..n : k - 1 \in W => k \in W
    BY <1>1, <1>4, <1>5
  <1> HIDE DEF W
  <1>7. n \in W
    <2>1. n \in Nat /\ n \in 0..n
      BY <1>1
    <2>2. \A i \in 0..n : i \in W
      BY <1>6, <2>1, UpTo
    <2> QED BY <2>1, <2>2
  <1> QED BY <1>2, <1>3, <1>7 DEF W, CutIs, buffer

(* What is left of a text, behind the pieces of a line that is not complete, goes
   on with that line. *)
LEMMA GoesOn ==
    ASSUME NEW c, NEW l \in Nat \ {0}, NEW s, InOrder(c, s, l, 1), NEW n \in 0..Len(s),
           NEW m, NEW j, Reached(c, l, s, n, m, j)
    PROVE  /\ PartOf(c, l + m, j) \in Seq(PieceSet(c))
           /\ InOrder(c, PartOf(c, l + m, j) \o SubSeq(s, n + 1, Len(s)), l + m, 1)
  <1> DEFINE a == PartOf(c, l + m, j)
             b == SubSeq(s, n + 1, Len(s))
             t == a \o b
  <1>1. s \in Seq(PieceSet(c)) /\ Len(s) \in Nat /\ n \in Nat /\ m \in Nat /\ j \in Nat
    BY DEF InOrder, Reached
  <1>2. a \in Seq(PieceSet(c)) /\ Len(a) = j /\ \A p \in 1..j : a[p] = Piece(c, l + m, p)
    <2>1. ASSUME NEW p \in 1..j PROVE Piece(c, l + m, p) \in PieceSet(c)
      <3>1. l + m \in DOMAIN LineSizes /\ LineSizes[l + m] \in Nat /\ p \in 1..LineSizes[l + m]
        BY <1>1, StreamAssumption DEF Reached
      <3> QED BY <3>1 DEF PieceSet
    <2> QED BY <1>1, <2>1 DEF PartOf
  <1>3. b \in Seq(PieceSet(c)) /\ Len(b) = Len(s) - n /\ \A i \in 1..(Len(s) - n) : b[i] = s[n + i]
    <2>1. \A i \in (n + 1)..Len(s) : s[i] \in PieceSet(c)
      BY <1>1
    <2>2. b \in Seq(PieceSet(c))
      BY <1>1, <2>1, SubSeqProperties
    <2> QED BY <1>1, <2>2
  <1> HIDE DEF a, b
  <1>4. /\ t \in Seq(PieceSet(c)) /\ Len(t) = j + (Len(s) - n)
        /\ \A i \in 1..Len(t) : t[i] = IF i <= j THEN Piece(c, l + m, i) ELSE s[n + (i - j)]
    <2>1. t \in Seq(PieceSet(c)) /\ Len(t) = Len(a) + Len(b)
      BY <1>2, <1>3, ConcatProperties
    <2>2. \A i \in 1..(Len(a) + Len(b)) : t[i] = IF i <= Len(a) THEN a[i] ELSE b[i - Len(a)]
      BY <1>2, <1>3, ConcatProperties
    <2> HIDE DEF t
    <2>3. Len(t) = j + (Len(s) - n)
      BY <1>2, <1>3, <2>1
    <2>4. ASSUME NEW i \in 1..Len(t) PROVE t[i] = IF i <= j THEN Piece(c, l + m, i) ELSE s[n + (i - j)]
      <3>1. t[i] = IF i <= j THEN a[i] ELSE b[i - j]
        BY <1>2, <2>1, <2>2
      <3>2. i <= j => a[i] = Piece(c, l + m, i)
        BY <1>1, <1>2, <2>3
      <3>3. ~(i <= j) => b[i - j] = s[n + (i - j)]
        <4>1. ~(i <= j) => i - j \in 1..(Len(s) - n)
          BY <1>1, <2>3
        <4> QED BY <1>3, <4>1
      <3> QED BY <3>1, <3>2, <3>3
    <2> QED BY <2>1, <2>3, <2>4
  <1> HIDE DEF t
  <1>5. t # <<>> => t[1] = Piece(c, l + m, 1)
    BY <1>1, <1>4 DEF Reached
  <1>6. ASSUME NEW i \in 1..(Len(t) - 1) PROVE t[i + 1] = After(t[i])
    <2>1. i \in Nat /\ i + 1 \in 1..Len(t) /\ i \in 1..Len(t)
      BY <1>1, <1>4
    <2>2. CASE i <= j
      <3>1. t[i] = Piece(c, l + m, i) /\ l + m \in DOMAIN LineSizes /\ j < LineSizes[l + m]
        BY <1>1, <1>4, <2>1, <2>2 DEF Reached
      <3>2. t[i + 1] = Piece(c, l + m, i + 1)
        <4>1. CASE i < j
          BY <1>1, <1>4, <2>1, <4>1
        <4>2. CASE i = j
          BY <1>1, <1>4, <2>1, <4>2 DEF Reached
        <4> QED BY <1>1, <2>1, <2>2, <4>1, <4>2
      <3>3. ~EndsLine(t[i])
        BY <1>1, <2>1, <2>2, <3>1, StreamAssumption DEF EndsLine, Piece
      <3> QED BY <3>1, <3>2, <3>3 DEF After, Piece
    <2>3. CASE i > j
      <3>1. t[i] = s[n + (i - j)] /\ t[i + 1] = s[n + (i - j) + 1] /\ n + (i - j) \in 1..(Len(s) - 1)
        BY <1>1, <1>4, <2>1, <2>3
      <3> QED BY <3>1 DEF InOrder
    <2> QED BY <1>1, <2>1, <2>2, <2>3
  <1> QED BY <1>2, <1>4, <1>5, <1>6 DEF InOrder, t, a, b

(* A line that fits the buffer of TLS is given to parse in one text.        *)
LEMMA OneText ==
    ASSUME NEW P, NEW record \in Seq(P), Len(record) \in 1..TlsBuffer
    PROVE  InBuffers(record) = <<record>>
  <1>1. TlsBuffer \in Nat \ {0} /\ Len(record) \in Nat
    BY StreamAssumption
  <1>2. (Len(record) + TlsBuffer - 1) \div TlsBuffer = 1
    <2>1. \A a, b \in Nat : b > 0 /\ a >= b /\ a < b + b => a \div b = 1
      OBVIOUS
    <2> QED BY <1>1, <2>1
  <1>3. SubSeq(record, (1 - 1) * TlsBuffer + 1,
               IF 1 * TlsBuffer < Len(record) THEN 1 * TlsBuffer ELSE Len(record)) = record
    <2>1. (1 - 1) * TlsBuffer + 1 = 1 /\ 1 * TlsBuffer = TlsBuffer
      BY <1>1
    <2>2. SubSeq(record, 1, Len(record)) = record
      BY SubSeqFull
    <2> DEFINE a == (1 - 1) * TlsBuffer + 1
               b == IF 1 * TlsBuffer < Len(record) THEN 1 * TlsBuffer ELSE Len(record)
    <2>3. a = 1 /\ b = Len(record)
      BY <1>1, <2>1
    <2> HIDE DEF a, b
    <2>4. SubSeq(record, a, b) = record
      BY <2>2, <2>3
    <2> QED BY <2>4 DEF a, b
  <1> DEFINE t(i) == SubSeq(record, (i - 1) * TlsBuffer + 1,
                            IF i * TlsBuffer < Len(record) THEN i * TlsBuffer ELSE Len(record))
  <1>4. InBuffers(record) = [i \in 1..1 |-> t(i)]
    BY <1>2 DEF InBuffers
  <1>5. t(1) = record
    BY <1>3
  <1> HIDE DEF t
  <1> QED BY <1>4, <1>5

(* The pieces that bytes carry.                                             *)
LEMMA PiecesOf ==
    ASSUME NEW P, NEW w \in Seq([piece : P, last : BOOLEAN])
    PROVE  /\ Pieces(w) \in Seq(P) /\ Len(Pieces(w)) = Len(w) /\ Len(w) \in Nat
           /\ \A k \in 1..Len(w) : Pieces(w)[k] = w[k].piece
  <1> DEFINE B == [piece : P, last : BOOLEAN]
  <1>1. \A b \in B : b.piece \in P
    OBVIOUS
  <1>2. w \in Seq(B)
    OBVIOUS
  <1> HIDE DEF B
  <1>3. DOMAIN w = 1..Len(w) /\ Len(w) \in Nat /\ \A k \in 1..Len(w) : w[k].piece \in P
    BY <1>1, <1>2
  <1> QED BY <1>3 DEF Pieces

(* What Tls::read has made of bytes: the texts of m lines, and j pieces of a line,
   whose bytes it keeps. *)
RecordsAre(v, c, l, s, k, m, j) ==
    /\ Reached(c, l, s, k, m, j)
    /\ v = [texts |-> Lines(c, l, m), plain |-> PartOf(c, l + m, j), rest |-> v.rest]
    /\ v.rest \in Seq(ByteSet(c)) /\ Marked(v.rest) /\ Pieces(v.rest) = PartOf(c, l + m, j)

(* The records of a pool that writes each line in one of its own, none longer
   than the buffer, are read as its lines. *)
LEMMA ReadsLines ==
    ASSUME NEW c, NEW l \in Nat \ {0}, NEW w \in Seq(ByteSet(c)), Marked(w), NEW u,
           InOrder(c, Flow(<<>>, w, u), l, 1), u \in Seq(PieceSet(c)),
           \A i \in DOMAIN LineSizes : LineSizes[i] <= TlsBuffer, NEW n \in 0..Len(w)
    PROVE  \E m, j : RecordsAre(Records(SubSeq(w, 1, n)), c, l, Flow(<<>>, w, u), n, m, j)
  <1> DEFINE bio == SubSeq(w, 1, n)
             s == Flow(<<>>, w, u)
             ReadIs(v, k) == \E m, j : RecordsAre(v, c, l, s, k, m, j)
  <1>1. /\ Len(w) \in Nat /\ n \in Nat /\ n <= Len(s) /\ Len(s) \in Nat
        /\ \A k \in 1..n : s[k] = w[k].piece
    <2>1. Pieces(w) \in Seq(PieceSet(c)) /\ Len(Pieces(w)) = Len(w) /\ \A k \in 1..Len(w) : Pieces(w)[k] = w[k].piece
      BY PiecesOf DEF ByteSet
    <2>2. <<>> \o Pieces(w) = Pieces(w)
      BY <2>1, ConcatEmptySeq
    <2>3. /\ Len(Pieces(w) \o u) = Len(w) + Len(u)
          /\ \A k \in 1..(Len(w) + Len(u)) : (Pieces(w) \o u)[k] = IF k <= Len(w) THEN Pieces(w)[k] ELSE u[k - Len(w)]
      <3> DEFINE p == Pieces(w)
      <3> HIDE DEF p
      <3>1. p \in Seq(PieceSet(c)) /\ Len(p) = Len(w)
        BY <2>1 DEF p
      <3>2. /\ Len(p \o u) = Len(p) + Len(u)
            /\ \A k \in 1..(Len(p) + Len(u)) : (p \o u)[k] = IF k <= Len(p) THEN p[k] ELSE u[k - Len(p)]
        BY <3>1, ConcatProperties
      <3> QED BY <3>1, <3>2 DEF p
    <2>4. Len(w) \in Nat /\ Len(u) \in Nat
      OBVIOUS
    <2> DEFINE p == Pieces(w)
    <2>5. s = p \o u
      BY <2>2 DEF Flow
    <2>6. /\ Len(p \o u) = Len(w) + Len(u) /\ \A k \in 1..Len(w) : p[k] = w[k].piece
          /\ \A k \in 1..(Len(w) + Len(u)) : (p \o u)[k] = IF k <= Len(w) THEN p[k] ELSE u[k - Len(w)]
      BY <2>1, <2>3
    <2> HIDE DEF p, s
    <2>7. /\ Len(s) = Len(w) + Len(u) /\ Len(s) \in Nat
          /\ \A k \in 1..Len(w) : k \in 1..(Len(w) + Len(u)) /\ s[k] = p[k]
      BY <2>4, <2>5, <2>6
    <2> QED BY <2>4, <2>6, <2>7 DEF s
  <1>2. bio \in Seq(ByteSet(c)) /\ Len(bio) = n /\ \A k \in 1..n : bio[k] = w[k] /\ w[k] \in ByteSet(c)
    <2> DEFINE B == ByteSet(c)
    <2> HIDE DEF B
    <2>1. w \in Seq(B)
      BY DEF B
    <2>2. SubSeq(w, 1, n) \in Seq(B) /\ Len(SubSeq(w, 1, n)) = n
          /\ \A k \in 1..n : SubSeq(w, 1, n)[k] = w[k] /\ w[k] \in B
      BY <1>1, <2>1
    <2> QED BY <2>2 DEF B
  <1> HIDE DEF bio, s
  <1>3. PICK F : /\ F[0] = [texts |-> <<>>, plain |-> <<>>, rest |-> <<>>]
                 /\ \A k \in 1..Len(bio) : F[k] = Decrypted(F[k - 1], bio[k])
                 /\ F[Len(bio)] = Records(bio)
    BY <1>2, RecordsFolds DEF ByteSet
  <1> HIDE DEF ReadIs
  <1>4. ReadIs(F[0], 0)
    <2>1. Reached(c, l, s, 0, 0, 0) /\ Lines(c, l, 0) = <<>> /\ PartOf(c, l + 0, 0) = <<>>
      BY NothingReached DEF s
    <2>2. Pieces(<<>>) = <<>> /\ Marked(<<>>)
      BY DEF Pieces, Marked
    <2>3. RecordsAre(F[0], c, l, s, 0, 0, 0)
      BY <1>3, <2>1, <2>2 DEF RecordsAre
    <2> QED BY <2>3 DEF ReadIs
  <1>5. ASSUME NEW k \in 1..n, ReadIs(F[k - 1], k - 1) PROVE ReadIs(F[k], k)
    <2>1. PICK m, j : RecordsAre(F[k - 1], c, l, s, k - 1, m, j)
      BY <1>5 DEF ReadIs
    <2> DEFINE v == F[k - 1]
               x == w[k]
    <2>2. /\ Reached(c, l, s, k - 1, m, j) /\ v.texts = Lines(c, l, m) /\ v.plain = PartOf(c, l + m, j)
          /\ v.rest \in Seq(ByteSet(c)) /\ Marked(v.rest) /\ Pieces(v.rest) = PartOf(c, l + m, j)
          /\ v = [texts |-> v.texts, plain |-> v.plain, rest |-> v.rest]
      BY <2>1 DEF RecordsAre
    <2>3. Grows(c, l, s, k, m, j)
      <3>1. k \in 1..Len(s)
        BY <1>1
      <3> QED BY <3>1, <2>2, OnePieceMore DEF s
    <2>4. F[k] = Decrypted(v, x) /\ x \in ByteSet(c) /\ s[k] = x.piece /\ x.last = EndsLine(x.piece)
      <3>1. k \in DOMAIN w
        BY <1>1
      <3> QED BY <1>1, <1>2, <1>3, <3>1 DEF Marked
    <2> HIDE DEF v, x
    <2>5. F[k] = IF x.last
                 THEN [texts |-> v.texts \o InBuffers(Append(v.plain, x.piece)), plain |-> <<>>, rest |-> <<>>]
                 ELSE [texts |-> v.texts, plain |-> Append(v.plain, x.piece), rest |-> Append(v.rest, x)]
      BY <2>4 DEF Decrypted
    <2>6. CASE x.last
      <3>1. EndsLine(s[k])
        BY <2>4, <2>6
      <3>2. Append(v.plain, x.piece) = LineOf(c, l + m)
        BY <2>2, <2>3, <2>4, <3>1 DEF Grows
      <3>3. InBuffers(LineOf(c, l + m)) = <<LineOf(c, l + m)>>
        <4>1. l + m \in DOMAIN LineSizes /\ LineSizes[l + m] \in 1..TlsBuffer
          <5>1. s[k] \in PieceSet(c)
            BY <2>4 DEF ByteSet
          <5> QED BY <2>3, <5>1, PieceFacts, StreamAssumption DEF Grows
        <4>2. LineOf(c, l + m) \in Seq(PieceSet(c)) /\ Len(LineOf(c, l + m)) = LineSizes[l + m]
          <5> DEFINE y == l + m
          <5>1. \A p \in 1..LineSizes[y] : Piece(c, y, p) \in PieceSet(c)
            BY <4>1 DEF PieceSet
          <5>2. LineSizes[y] \in Nat
            BY <4>1, StreamAssumption
          <5>3. LineOf(c, y) \in [1..LineSizes[y] -> PieceSet(c)]
            BY <5>1, Zenon DEF LineOf
          <5> HIDE DEF y
          <5>4. LineOf(c, y) \in Seq(PieceSet(c)) /\ Len(LineOf(c, y)) = LineSizes[y]
            BY <5>2, <5>3, FunctionIsSeq, Zenon
          <5> QED BY <5>4 DEF y
        <4> QED BY <4>1, <4>2, OneText
      <3>4. Lines(c, l, m) \o <<LineOf(c, l + m)>> = Lines(c, l, m + 1)
        <4> DEFINE L(i) == LineOf(c, l + i - 1)
                   S == {L(i) : i \in 1..(m + 1)}
        <4>1. Lines(c, l, m) \in Seq(S) /\ LineOf(c, l + m) \in S
          <5>1. m \in Nat /\ m + 1 \in 1..(m + 1) /\ l + (m + 1) - 1 = l + m
            BY <2>2 DEF Reached
          <5>2. Lines(c, l, m) = [i \in 1..m |-> L(i)] /\ LineOf(c, l + m) = L(m + 1)
            BY <5>1 DEF Lines
          <5> HIDE DEF L
          <5>3. \A i \in 1..m : L(i) \in S
            BY <5>1
          <5>4. [i \in 1..m |-> L(i)] \in Seq(S)
            <6> HIDE DEF S
            <6> QED BY <5>1, <5>3
          <5> QED BY <5>1, <5>2, <5>4
        <4> HIDE DEF S
        <4>2. Lines(c, l, m) \o <<LineOf(c, l + m)>> = Append(Lines(c, l, m), LineOf(c, l + m))
          BY <4>1, AppendIsConcat
        <4> QED BY <2>3, <3>1, <4>2 DEF Grows
      <3>5. F[k] = [texts |-> Lines(c, l, m + 1), plain |-> <<>>, rest |-> <<>>]
        <4> DEFINE t == v.texts \o InBuffers(Append(v.plain, x.piece))
        <4>1. t = Lines(c, l, m + 1)
          BY <2>2, <3>2, <3>3, <3>4
        <4>2. F[k] = [texts |-> t, plain |-> <<>>, rest |-> <<>>]
          BY <2>5, <2>6
        <4> HIDE DEF t
        <4> QED BY <4>1, <4>2
      <3>6. PartOf(c, l + (m + 1), 0) = <<>> /\ Pieces(<<>>) = <<>> /\ Marked(<<>>)
        BY DEF PartOf, Pieces, Marked
      <3>7. Reached(c, l, s, k, m + 1, 0)
        BY <2>3, <3>1 DEF Grows
      <3>8. RecordsAre(F[k], c, l, s, k, m + 1, 0)
        <4>1. F[k].rest = <<>> /\ <<>> \in Seq(ByteSet(c))
          BY <3>5
        <4> QED BY <3>5, <3>6, <3>7, <4>1 DEF RecordsAre
      <3> QED BY <3>8 DEF ReadIs
    <2>7. CASE ~x.last
      <3>1. ~EndsLine(s[k])
        BY <2>4, <2>7
      <3> DEFINE r == Append(v.rest, x)
      <3>2. F[k] = [texts |-> Lines(c, l, m), plain |-> Append(v.plain, x.piece), rest |-> r]
        <4> HIDE DEF r
        <4> QED BY <2>2, <2>5, <2>7 DEF r
      <3>3. Append(v.plain, x.piece) = PartOf(c, l + m, j + 1)
        BY <2>2, <2>3, <2>4, <3>1 DEF Grows
      <3>4. Append(v.rest, x) \in Seq(ByteSet(c)) /\ Marked(Append(v.rest, x))
            /\ Pieces(Append(v.rest, x)) = Append(Pieces(v.rest), x.piece)
        <4> DEFINE B == ByteSet(c)
                   z == v.rest
        <4>1. z \in Seq(B) /\ x \in B /\ (\A i \in DOMAIN z : z[i].last = EndsLine(z[i].piece)) /\ x.last = EndsLine(x.piece)
          BY <2>2, <2>4 DEF Marked
        <4> HIDE DEF B, z
        <4>2. Append(z, x) \in Seq(B) /\ Len(Append(z, x)) = Len(z) + 1 /\ DOMAIN Append(z, x) = 1..(Len(z) + 1)
              /\ DOMAIN z = 1..Len(z) /\ Len(z) \in Nat
              /\ \A i \in 1..(Len(z) + 1) : Append(z, x)[i] = IF i <= Len(z) THEN z[i] ELSE x
          BY <4>1
        <4>3. Marked(Append(z, x))
          BY <4>1, <4>2 DEF Marked
        <4>4. Pieces(Append(z, x)) = Append(Pieces(z), x.piece)
          BY <4>2 DEF Pieces
        <4> QED BY <4>2, <4>3, <4>4 DEF B, z
      <3>5. Reached(c, l, s, k, m, j + 1)
        BY <2>3, <3>1 DEF Grows
      <3>6. Pieces(r) = PartOf(c, l + m, j + 1)
        BY <2>2, <3>3, <3>4
      <3>7. RecordsAre(F[k], c, l, s, k, m, j + 1)
        <4>1. F[k] = [texts |-> Lines(c, l, m), plain |-> PartOf(c, l + m, j + 1), rest |-> r]
          <5> HIDE DEF r
          <5> QED BY <3>2, <3>3
        <4>2. r \in Seq(ByteSet(c)) /\ Marked(r)
          BY <3>4
        <4> HIDE DEF r
        <4>3. F[k].rest = r
          BY <4>1
        <4> QED BY <3>5, <3>6, <4>1, <4>2, <4>3 DEF RecordsAre
      <3> QED BY <3>7 DEF ReadIs
    <2> QED BY <2>6, <2>7
  <1> DEFINE W == {k \in 0..n : ReadIs(F[k], k)}
  <1>6. 0 \in W /\ \A k \in 1..n : k - 1 \in W => k \in W
    <2>1. 0 \in W
      BY <1>1, <1>4
    <2>2. ASSUME NEW k \in 1..n, k - 1 \in W PROVE k \in W
      <3>1. ReadIs(F[k], k)
        BY <1>5, <2>2
      <3>2. k \in 0..n
        BY <1>1
      <3> QED BY <3>1, <3>2
    <2> QED BY <2>1, <2>2
  <1> HIDE DEF W
  <1>7. n \in W
    <2>1. n \in Nat
      BY <1>1
    <2>2. \A k \in 0..n : k \in W
      BY <1>6, <2>1, UpTo
    <2> QED BY <2>1, <2>2
  <1> QED BY <1>2, <1>3, <1>7 DEF W, ReadIs, bio, s

-----------------------------------------------------------------------------
(* The text of a pool between the pool and the Client. *)

(* A sequence that is another one followed by a third.                      *)
Joined(P, a, b, x) ==
    /\ x \in Seq(P) /\ Len(a) \in Nat /\ Len(b) \in Nat /\ Len(x) = Len(a) + Len(b)
    /\ \A i \in 1..Len(a) : x[i] = a[i]
    /\ \A i \in 1..Len(b) : x[Len(a) + i] = b[i]

(* \o joins two sequences.                                                  *)
LEMMA Join ==
    ASSUME NEW P, NEW a \in Seq(P), NEW b \in Seq(P)
    PROVE  Joined(P, a, b, a \o b)
  BY DEF Joined

(* The lines of a pool are written in order.                                *)
LEMMA WritesInOrder ==
    ASSUME NEW c
    PROVE  InOrder(c, AllLines(c), 1, 1)
  <1> DEFINE L == Len(LineSizes)
             numbers == [l \in DOMAIN LineSizes |-> l]
             UpToLine(t, k) == /\ InOrder(c, t, 1, 1)
                               /\ k = 0 => t = <<>>
                               /\ k > 0 => t # <<>> /\ t[Len(t)] = Piece(c, k, LineSizes[k])
  <1>1. L \in Nat /\ DOMAIN LineSizes = 1..L /\ \A l \in 1..L : LineSizes[l] \in Nat \ {0}
    BY StreamAssumption
  <1>2. numbers \in Seq(Nat) /\ Len(numbers) = L /\ \A k \in 1..L : numbers[k] = k
    BY <1>1
  <1>3. PICK F : /\ F[0] = <<>>
                 /\ \A k \in 1..Len(numbers) : F[k] = F[k - 1] \o LineOf(c, numbers[k])
                 /\ F[Len(numbers)] = AllLines(c)
    <2>1. numbers = [l \in DOMAIN LineSizes |-> l]
      OBVIOUS
    <2> HIDE DEF numbers
    <2> QED BY <1>2, <2>1, AllLinesFolds
  <1> HIDE DEF numbers, UpToLine
  <1>4. UpToLine(F[0], 0)
    BY <1>3 DEF UpToLine, InOrder
  <1>5. ASSUME NEW k \in 1..L, UpToLine(F[k - 1], k - 1) PROVE UpToLine(F[k], k)
    <2> DEFINE t == F[k - 1]
               line == LineOf(c, k)
               n == LineSizes[k]
               P == PieceSet(c)
    <2>1. n \in Nat \ {0} /\ k \in Nat \ {0} /\ k \in DOMAIN LineSizes
      BY <1>1
    <2>2. /\ t \in Seq(P) /\ (t # <<>> => t[1] = Piece(c, 1, 1))
          /\ \A i \in 1..(Len(t) - 1) : t[i + 1] = After(t[i])
          /\ k = 1 => t = <<>>
          /\ k > 1 => t # <<>> /\ t[Len(t)] = Piece(c, k - 1, LineSizes[k - 1])
      BY <1>5, <2>1 DEF UpToLine, InOrder
    <2>3. line \in Seq(P) /\ Len(line) = n /\ \A p \in 1..n : line[p] = Piece(c, k, p)
      BY <2>1 DEF LineOf, PieceSet
    <2>4. F[k] = t \o line
      BY <1>2, <1>3
    <2> HIDE DEF t, line, n, P
    <2> DEFINE u == t \o line
    <2>5. /\ u \in Seq(P) /\ Len(u) = Len(t) + n /\ Len(t) \in Nat
          /\ \A i \in 1..Len(u) : u[i] = IF i <= Len(t) THEN t[i] ELSE Piece(c, k, i - Len(t))
      <3>1. Joined(P, t, line, u)
        BY <2>2, <2>3, Join
      <3> HIDE DEF u
      <3>2. Len(t) \in Nat /\ u \in Seq(P) /\ Len(u) = Len(t) + n
        BY <2>3, <3>1 DEF Joined
      <3>3. ASSUME NEW i \in 1..Len(u), ~(i <= Len(t)) PROVE u[i] = Piece(c, k, i - Len(t))
        <4>1. i - Len(t) \in 1..n /\ i = Len(t) + (i - Len(t))
          BY <2>1, <3>2, <3>3
        <4> DEFINE j == i - Len(t)
        <4> HIDE DEF j
        <4>2. u[Len(t) + j] = Piece(c, k, j)
          BY <2>3, <3>1, <4>1 DEF Joined, j
        <4> QED BY <4>1, <4>2 DEF j
      <3>4. ASSUME NEW i \in 1..Len(u), i <= Len(t) PROVE u[i] = t[i]
        <4>1. i \in 1..Len(t)
          BY <3>2, <3>4
        <4> QED BY <3>1, <4>1 DEF Joined
      <3> QED BY <3>2, <3>3, <3>4
    <2> HIDE DEF u
    <2>6. u # <<>> /\ u[1] = Piece(c, 1, 1) /\ u[Len(u)] = Piece(c, k, n)
      <3>1. Len(t) = 0 => k = 1
        BY <2>1, <2>2
      <3>2. Len(u) > 0 /\ 1 \in 1..Len(u) /\ Len(u) \in 1..Len(u) /\ ~(Len(u) <= Len(t)) /\ Len(u) - Len(t) = n
        BY <2>1, <2>5
      <3>3. u[Len(u)] = Piece(c, k, n)
        BY <2>5, <3>2
      <3>4. u[1] = Piece(c, 1, 1)
        BY <2>2, <2>5, <3>1, <3>2
      <3> QED BY <3>2, <3>3, <3>4, <2>5
    <2>7. ASSUME NEW i \in 1..(Len(u) - 1) PROVE u[i + 1] = After(u[i])
      <3>1. i \in 1..Len(u) /\ i + 1 \in 1..Len(u) /\ i \in Nat
        BY <2>1, <2>5
      <3>2. CASE i < Len(t)
        <4>1. u[i] = t[i] /\ u[i + 1] = t[i + 1] /\ i \in 1..(Len(t) - 1)
          BY <2>5, <3>1, <3>2
        <4> QED BY <2>2, <4>1
      <3>3. CASE i = Len(t)
        <4>1. k > 1 /\ k - 1 \in Nat
          BY <2>1, <2>2, <3>1, <3>3
        <4>2. u[i] = Piece(c, k - 1, LineSizes[k - 1])
          BY <2>2, <2>5, <3>1, <3>3, <4>1
        <4>3. u[i + 1] = Piece(c, k, 1)
          BY <2>5, <3>1, <3>3
        <4> QED BY <2>1, <4>2, <4>3 DEF After, EndsLine, Piece
      <3>4. CASE i > Len(t)
        <4>1. u[i] = Piece(c, k, i - Len(t)) /\ u[i + 1] = Piece(c, k, (i - Len(t)) + 1) /\ i - Len(t) < n
          BY <2>1, <2>5, <3>1, <3>4
        <4>2. i - Len(t) \in Nat /\ i - Len(t) # n
          BY <2>1, <2>5, <3>1, <3>4, <4>1
        <4> QED BY <4>1, <4>2 DEF After, EndsLine, Piece, n
      <3> QED BY <2>5, <3>1, <3>2, <3>3, <3>4
    <2>8. InOrder(c, u, 1, 1)
      BY <2>5, <2>6, <2>7 DEF InOrder, P
    <2> QED BY <2>1, <2>4, <2>6, <2>8 DEF UpToLine, u, n
  <1> DEFINE W == {k \in 0..L : UpToLine(F[k], k)}
  <1>6. 0 \in W /\ \A k \in 1..L : k - 1 \in W => k \in W
    BY <1>1, <1>4, <1>5
  <1> HIDE DEF W
  <1>7. \A k \in 0..L : k \in W
    BY <1>1, <1>6, UpTo
  <1> QED BY <1>1, <1>2, <1>3, <1>7 DEF W, UpToLine

(* The elements of a flow: those of the buffer, of the bytes and of the text. *)
IsFlow(P, b, w, u, f) ==
    /\ Len(b) \in Nat /\ Len(w) \in Nat /\ Len(u) \in Nat
    /\ f \in Seq(P) /\ Len(f) = Len(b) + Len(w) + Len(u)
    /\ \A i \in 1..Len(b) : f[i] = b[i]
    /\ \A i \in 1..Len(w) : f[Len(b) + i] = w[i].piece
    /\ \A i \in 1..Len(u) : f[Len(b) + Len(w) + i] = u[i]

(* A flow has them, and is what has them.                                   *)
LEMMA FlowElements ==
    ASSUME NEW P, NEW b \in Seq(P), NEW w \in Seq([piece : P, last : BOOLEAN]), NEW u \in Seq(P)
    PROVE  IsFlow(P, b, w, u, Flow(b, w, u))
  <1> DEFINE p == Pieces(w)
             bp == b \o p
             f == bp \o u
  <1>1. p \in Seq(P) /\ Len(p) = Len(w) /\ Len(w) \in Nat /\ \A k \in 1..Len(w) : p[k] = w[k].piece
    BY PiecesOf
  <1> HIDE DEF p
  <1>2. Joined(P, b, p, bp)
    BY <1>1, Join
  <1> HIDE DEF bp
  <1>3. Joined(P, bp, u, f)
    <2>1. bp \in Seq(P)
      BY <1>2 DEF Joined
    <2> QED BY <2>1, Join
  <1> HIDE DEF f
  <1>4. Len(b) \in Nat /\ Len(u) \in Nat /\ Len(bp) = Len(b) + Len(w) /\ f \in Seq(P)
        /\ Len(f) = Len(b) + Len(w) + Len(u)
    BY <1>1, <1>2, <1>3 DEF Joined
  <1>5. ASSUME NEW i \in 1..Len(b) PROVE f[i] = b[i]
    <2>1. i \in 1..Len(bp)
      BY <1>1, <1>4
    <2> QED BY <2>1, <1>2, <1>3 DEF Joined
  <1>6. ASSUME NEW i \in 1..Len(w) PROVE f[Len(b) + i] = w[i].piece
    <2>1. Len(b) + i \in 1..Len(bp) /\ i \in 1..Len(p)
      BY <1>1, <1>4
    <2> QED BY <2>1, <1>1, <1>2, <1>3 DEF Joined
  <1>7. ASSUME NEW i \in 1..Len(u) PROVE f[Len(b) + Len(w) + i] = u[i]
    BY <1>3, <1>4 DEF Joined
  <1>8. Flow(b, w, u) = f
    BY DEF Flow, f, bp, p
  <1> QED BY <1>1, <1>4, <1>5, <1>6, <1>7, <1>8 DEF IsFlow

(* Two flows of the same elements are the same.                             *)
LEMMA FlowUnique ==
    ASSUME NEW P, NEW b, NEW w, NEW u, NEW f, NEW g, IsFlow(P, b, w, u, f), IsFlow(P, b, w, u, g)
    PROVE  f = g
  <1>1. f \in Seq(P) /\ g \in Seq(P) /\ Len(f) = Len(g) /\ Len(f) \in Nat
    BY DEF IsFlow
  <1>2. ASSUME NEW i \in 1..Len(f) PROVE f[i] = g[i]
    <2>1. CASE i <= Len(b)
      <3>1. i \in 1..Len(b)
        BY <1>1, <2>1 DEF IsFlow
      <3> QED BY <3>1 DEF IsFlow
    <2>2. CASE ~(i <= Len(b)) /\ i <= Len(b) + Len(w)
      <3>1. i - Len(b) \in 1..Len(w) /\ i = Len(b) + (i - Len(b))
        BY <1>1, <2>2 DEF IsFlow
      <3> DEFINE j == i - Len(b)
      <3> HIDE DEF j
      <3>2. f[Len(b) + j] = g[Len(b) + j]
        BY <3>1 DEF IsFlow, j
      <3> QED BY <3>1, <3>2 DEF j
    <2>3. CASE ~(i <= Len(b) + Len(w))
      <3>1. i - (Len(b) + Len(w)) \in 1..Len(u) /\ i = Len(b) + Len(w) + (i - (Len(b) + Len(w)))
        BY <1>1, <2>3 DEF IsFlow
      <3> DEFINE j == i - (Len(b) + Len(w))
      <3> HIDE DEF j
      <3>2. f[Len(b) + Len(w) + j] = g[Len(b) + Len(w) + j]
        BY <3>1 DEF IsFlow, j
      <3> QED BY <3>1, <3>2 DEF j
    <2> QED BY <2>1, <2>2, <2>3
  <1> QED BY <1>1, <1>2, SeqEqual

(* What is read is the front of the flow, and the rest remains. *)
FrontIsRead(P, b, w, u, n, s) ==
    /\ Len(b) + n \in 0..Len(s)
    /\ b \o Pieces(SubSeq(w, 1, n)) = SubSeq(s, 1, Len(b) + n)
    /\ \A r \in Seq(P) : Flow(r, SubSeq(w, n + 1, Len(w)), u) = r \o SubSeq(s, Len(b) + n + 1, Len(s))

(* A Client that takes n bytes from the connection reads the front of it.   *)
LEMMA ReadFlow ==
    ASSUME NEW P, NEW b \in Seq(P), NEW w \in Seq([piece : P, last : BOOLEAN]), NEW u \in Seq(P),
           NEW n \in 0..Len(w), NEW s, s = Flow(b, w, u)
    PROVE  FrontIsRead(P, b, w, u, n, s)
  <1> DEFINE B == [piece : P, last : BOOLEAN]
             came == SubSeq(w, 1, n)
             left == SubSeq(w, n + 1, Len(w))
  <1>1. IsFlow(P, b, w, u, s)
    BY FlowElements
  <1>2. Len(b) \in Nat /\ Len(w) \in Nat /\ Len(u) \in Nat /\ n \in Nat /\ n <= Len(w)
        /\ s \in Seq(P) /\ Len(s) = Len(b) + Len(w) + Len(u)
    BY <1>1 DEF IsFlow
  <1>3. /\ came \in Seq(B) /\ Len(came) = n /\ \A i \in 1..n : came[i] = w[i]
        /\ left \in Seq(B) /\ Len(left) = Len(w) - n /\ \A i \in 1..(Len(w) - n) : left[i] = w[n + i]
    <2> HIDE DEF B
    <2>1. w \in Seq(B)
      BY DEF B
    <2>2. came \in Seq(B) /\ Len(came) = n /\ \A i \in 1..n : came[i] = w[i]
      BY <1>2, <2>1
    <2>3. left \in Seq(B) /\ Len(left) = Len(w) - n /\ \A i \in 1..(Len(w) - n) : left[i] = w[n + i]
      <3>1. \A i \in (n + 1)..Len(w) : w[i] \in B
        BY <1>2, <2>1
      <3>2. left \in Seq(B)
        BY <1>2, <3>1, SubSeqProperties
      <3> QED BY <1>2, <2>1, <3>2
    <2> QED BY <2>2, <2>3
  <1>4. Len(b) + n \in 0..Len(s)
    BY <1>2
  <1>5. b \o Pieces(came) = SubSeq(s, 1, Len(b) + n)
    <2> DEFINE p == Pieces(came)
               x == b \o p
               y == SubSeq(s, 1, Len(b) + n)
    <2>1. p \in Seq(P) /\ Len(p) = n /\ \A i \in 1..n : p[i] = w[i].piece
      <3> HIDE DEF came
      <3>1. p \in Seq(P) /\ Len(p) = Len(came) /\ \A i \in 1..Len(came) : p[i] = came[i].piece
        BY <1>3, PiecesOf
      <3> HIDE DEF p
      <3> QED BY <1>3, <3>1
    <2> HIDE DEF p
    <2>2. Joined(P, b, p, x)
      BY <2>1, Join
    <2>3. y \in Seq(P) /\ Len(y) = Len(b) + n /\ \A i \in 1..(Len(b) + n) : y[i] = s[i]
      BY <1>2, <1>4
    <2> HIDE DEF x, y
    <2>4. ASSUME NEW i \in 1..(Len(b) + n) PROVE x[i] = y[i]
      <3>1. CASE i <= Len(b)
        <4>1. i \in 1..Len(b)
          BY <1>2, <3>1
        <4> QED BY <1>1, <2>2, <2>3, <4>1 DEF Joined, IsFlow
      <3>2. CASE ~(i <= Len(b))
        <4>1. i - Len(b) \in 1..n /\ i - Len(b) \in 1..Len(w) /\ i = Len(b) + (i - Len(b))
          BY <1>2, <3>2
        <4> DEFINE j == i - Len(b)
        <4> HIDE DEF j
        <4>2. x[Len(b) + j] = s[Len(b) + j]
          BY <1>1, <2>1, <2>2, <4>1 DEF Joined, IsFlow, j
        <4> QED BY <2>3, <4>1, <4>2 DEF j
      <3> QED BY <3>1, <3>2
    <2>5. x \in Seq(P) /\ Len(x) = Len(y)
      BY <2>1, <2>2, <2>3 DEF Joined
    <2>6. x = y
      BY <1>2, <2>3, <2>4, <2>5, SeqEqual
    <2> QED BY <2>6 DEF x, y, p
  <1>6. ASSUME NEW r \in Seq(P) PROVE Flow(r, left, u) = r \o SubSeq(s, Len(b) + n + 1, Len(s))
    <2> DEFINE t == SubSeq(s, Len(b) + n + 1, Len(s))
               y == r \o t
    <2>1. t \in Seq(P) /\ Len(t) = Len(w) + Len(u) - n
          /\ \A i \in 1..(Len(w) + Len(u) - n) : t[i] = s[Len(b) + n + i]
      <3>1. \A i \in (Len(b) + n + 1)..Len(s) : s[i] \in P
        BY <1>2
      <3>2. t \in Seq(P)
        BY <1>2, <3>1, SubSeqProperties
      <3>3. Len(b) + n + 1 \in 1..(Len(s) + 1) /\ Len(s) - (Len(b) + n) = Len(w) + Len(u) - n
        BY <1>2
      <3>4. Len(t) = Len(w) + Len(u) - n
        BY <1>2, <3>3
      <3>5. \A i \in 1..(Len(w) + Len(u) - n) : t[i] = s[Len(b) + n + i]
        BY <1>2, <3>3
      <3> HIDE DEF t
      <3> QED BY <3>2, <3>4, <3>5
    <2> HIDE DEF t, left
    <2>2. Joined(P, r, t, y)
      BY <2>1, Join
    <2> HIDE DEF y
    <2>3. Len(r) \in Nat /\ y \in Seq(P) /\ Len(y) = Len(r) + Len(left) + Len(u) /\ Len(left) = Len(w) - n
      BY <1>2, <1>3, <2>1, <2>2 DEF Joined
    <2>4. ASSUME NEW i \in 1..Len(left) PROVE y[Len(r) + i] = left[i].piece
      <3>1. i \in 1..(Len(w) - n) /\ i \in 1..(Len(w) + Len(u) - n) /\ n + i \in 1..Len(w)
            /\ Len(b) + n + i = Len(b) + (n + i)
        BY <1>2, <2>3
      <3>2. y[Len(r) + i] = s[Len(b) + (n + i)]
        BY <2>1, <2>2, <3>1 DEF Joined
      <3> QED BY <1>1, <1>3, <3>1, <3>2 DEF IsFlow
    <2>5. ASSUME NEW i \in 1..Len(u) PROVE y[Len(r) + Len(left) + i] = u[i]
      <3>1. Len(left) + i \in 1..(Len(w) + Len(u) - n) /\ Len(b) + n + (Len(left) + i) = Len(b) + Len(w) + i
            /\ Len(r) + Len(left) + i = Len(r) + (Len(left) + i)
        BY <1>2, <2>3
      <3>2. y[Len(r) + (Len(left) + i)] = s[Len(b) + Len(w) + i]
        BY <2>1, <2>2, <3>1 DEF Joined
      <3> QED BY <1>1, <3>1, <3>2 DEF IsFlow
    <2>6. \A i \in 1..Len(r) : y[i] = r[i]
      BY <2>2 DEF Joined
    <2>7. IsFlow(P, r, left, u, y)
      BY <1>2, <2>3, <2>4, <2>5, <2>6 DEF IsFlow
    <2>8. IsFlow(P, r, left, u, Flow(r, left, u))
      BY <1>3, FlowElements
    <2>9. Flow(r, left, u) = y
      BY <2>7, <2>8, FlowUnique
    <2> QED BY <2>9 DEF y, t
  <1> QED BY <1>4, <1>5, <1>6 DEF FrontIsRead, came, left

(* What was unwritten stays in its place in the flow. *)
WrittenStays(b, w, u, n, bytes) == Flow(b, w \o bytes, SubSeq(u, n + 1, Len(u))) = Flow(b, w, u)

(* A pool that writes n pieces leaves the flow as it is.                    *)
LEMMA WriteFlow ==
    ASSUME NEW P, NEW b \in Seq(P), NEW w \in Seq([piece : P, last : BOOLEAN]), NEW u \in Seq(P),
           NEW n \in 0..Len(u), NEW bytes \in Seq([piece : P, last : BOOLEAN]),
           Len(bytes) = n, \A i \in 1..n : bytes[i].piece = u[i]
    PROVE  WrittenStays(b, w, u, n, bytes)
  <1> DEFINE B == [piece : P, last : BOOLEAN]
             v == SubSeq(u, n + 1, Len(u))
             x == w \o bytes
             f == Flow(b, w, u)
  <1>1. IsFlow(P, b, w, u, f)
    BY FlowElements
  <1>2. Len(b) \in Nat /\ Len(w) \in Nat /\ Len(u) \in Nat /\ n \in Nat /\ n <= Len(u)
        /\ f \in Seq(P) /\ Len(f) = Len(b) + Len(w) + Len(u)
    BY <1>1 DEF IsFlow
  <1>3. v \in Seq(P) /\ Len(v) = Len(u) - n /\ \A i \in 1..(Len(u) - n) : v[i] = u[n + i]
    <2>1. \A i \in (n + 1)..Len(u) : u[i] \in P
      BY <1>2
    <2>2. v \in Seq(P)
      BY <1>2, <2>1, SubSeqProperties
    <2> QED BY <1>2, <2>2
  <1>4. Joined(B, w, bytes, x)
    BY Join
  <1> HIDE DEF v, f
  <1>5. x \in Seq(B) /\ Len(x) = Len(w) + n
    BY <1>4 DEF Joined
  <1>6. IsFlow(P, b, x, v, Flow(b, x, v))
    BY <1>3, <1>5, FlowElements
  <1> HIDE DEF x
  <1>7. ASSUME NEW i \in 1..Len(x) PROVE f[Len(b) + i] = x[i].piece
    <2>1. CASE i <= Len(w)
      <3>1. i \in 1..Len(w)
        BY <1>2, <1>5, <2>1
      <3> QED BY <1>1, <1>4, <3>1 DEF IsFlow, Joined
    <2>2. CASE ~(i <= Len(w))
      <3>1. i - Len(w) \in 1..n /\ i = Len(w) + (i - Len(w)) /\ i - Len(w) \in 1..Len(u)
        BY <1>2, <1>5, <2>2
      <3> DEFINE j == i - Len(w)
      <3> HIDE DEF j
      <3>2. x[Len(w) + j] = bytes[j] /\ bytes[j].piece = u[j]
        BY <1>4, <3>1 DEF Joined, j
      <3>3. f[Len(b) + Len(w) + j] = u[j]
        BY <1>1, <3>1 DEF IsFlow, j
      <3>4. Len(b) + i = Len(b) + Len(w) + j
        BY <1>2, <1>5 DEF j
      <3> QED BY <3>1, <3>2, <3>3, <3>4 DEF j
    <2> QED BY <2>1, <2>2
  <1>8. ASSUME NEW i \in 1..Len(v) PROVE f[Len(b) + Len(x) + i] = v[i]
    <2>1. n + i \in 1..Len(u) /\ i \in 1..(Len(u) - n) /\ Len(b) + Len(x) + i = Len(b) + Len(w) + (n + i)
      BY <1>2, <1>3, <1>5
    <2> QED BY <1>1, <1>3, <2>1 DEF IsFlow
  <1>9. IsFlow(P, b, x, v, f)
    <2>1. Len(x) \in Nat /\ Len(v) \in Nat /\ Len(f) = Len(b) + Len(x) + Len(v)
      BY <1>2, <1>3, <1>5
    <2>2. \A i \in 1..Len(b) : f[i] = b[i]
      BY <1>1 DEF IsFlow
    <2> QED BY <1>2, <1>7, <1>8, <2>1, <2>2 DEF IsFlow
  <1>10. Flow(b, x, v) = f
    BY <1>6, <1>9, FlowUnique
  <1> QED BY <1>10 DEF WrittenStays, x, v, f

(* Three sequences in a row are the same however they are grouped. *)
GroupedAlike(a, b, d) == (a \o b) \o d = a \o (b \o d)

(* They always are: \o is associative.                                      *)
LEMMA Grouped ==
    ASSUME NEW P, NEW a \in Seq(P), NEW b \in Seq(P), NEW d \in Seq(P)
    PROVE  GroupedAlike(a, b, d)
  BY ConcatAssociative DEF GroupedAlike

(* What the pool has still to write is in order, from where it begins.      *)
LEMMA TextInOrder ==
    ASSUME NEW c, NEW b \in Seq(PieceSet(c)), NEW w \in Seq(ByteSet(c)), NEW u \in Seq(PieceSet(c)), u # <<>>,
           NEW l, NEW q, InOrder(c, Flow(b, w, u), l, q)
    PROVE  u[1] \in PieceSet(c) /\ InOrder(c, u, u[1].line, u[1].part)
  <1> DEFINE f == Flow(b, w, u)
             P == PieceSet(c)
  <1>1. IsFlow(P, b, w, u, f)
    BY FlowElements DEF ByteSet
  <1>2. Len(u) \in Nat \ {0} /\ u[1] \in P
    OBVIOUS
  <1>3. u[1] = Piece(c, u[1].line, u[1].part)
    BY <1>2 DEF PieceSet, Piece
  <1> HIDE DEF f
  <1>4. ASSUME NEW i \in 1..(Len(u) - 1) PROVE u[i + 1] = After(u[i])
    <2> DEFINE k == Len(b) + Len(w) + i
    <2>1. k \in 1..(Len(f) - 1) /\ k + 1 = Len(b) + Len(w) + (i + 1) /\ i \in 1..Len(u) /\ i + 1 \in 1..Len(u)
      BY <1>1, <1>2 DEF IsFlow
    <2>2. f[k + 1] = After(f[k])
      BY <2>1 DEF InOrder, f
    <2>3. f[Len(b) + Len(w) + (i + 1)] = u[i + 1] /\ f[k] = u[i]
      BY <1>1, <2>1 DEF IsFlow
    <2> QED BY <2>1, <2>2, <2>3
  <1> QED BY <1>2, <1>3, <1>4 DEF InOrder

(* A record that is the first line of a text ends with it, and the next line
   begins behind it. *)
LEMMA OneLine ==
    ASSUME NEW c, NEW l \in Nat \ {0}, NEW u, InOrder(c, u, l, 1), NEW n \in 1..Len(u), n = LineSizes[l]
    PROVE  /\ \A k \in 1..n : EndsLine(u[k]) <=> k = n
           /\ n < Len(u) => u[n + 1].part = 1
  <1>1. n \in Nat \ {0} /\ Len(u) \in Nat
    BY DEF InOrder
  <1> DEFINE W == {k \in 0..(n - 1) : Reached(c, l, u, k, 0, k)}
  <1>2. 0 \in W
    <2>1. Reached(c, l, u, 0, 0, 0)
      BY NothingReached
    <2> QED BY <1>1, <2>1
  <1>3. ASSUME NEW k \in 1..(n - 1), k - 1 \in W PROVE k \in W
    <2>1. k \in 1..Len(u) /\ k \in 0..(n - 1) /\ (k - 1) + 1 = k /\ k # n
      BY <1>1
    <2>2. Reached(c, l, u, k - 1, 0, k - 1)
      BY <1>3
    <2>3. Grows(c, l, u, k, 0, k - 1)
      BY <2>1, <2>2, OnePieceMore
    <2>4. u[k] = Piece(c, l + 0, (k - 1) + 1)
      BY <2>3 DEF Grows
    <2>5. ~EndsLine(u[k])
      BY <2>1, <2>4 DEF EndsLine, Piece
    <2>6. Reached(c, l, u, k, 0, (k - 1) + 1)
      BY <2>3, <2>5 DEF Grows
    <2> QED BY <2>1, <2>6
  <1> HIDE DEF W
  <1>4. \A k \in 0..(n - 1) : k \in W
    <2>1. n - 1 \in Nat
      BY <1>1
    <2> QED BY <1>2, <1>3, <2>1, UpTo
  <1>5. ASSUME NEW k \in 1..n PROVE Grows(c, l, u, k, 0, k - 1)
    <2>1. k - 1 \in 0..(n - 1) /\ k \in 1..Len(u)
      BY <1>1
    <2>2. Reached(c, l, u, k - 1, 0, k - 1)
      BY <1>4, <2>1 DEF W
    <2> QED BY <2>1, <2>2, OnePieceMore
  <1>6. ASSUME NEW k \in 1..n PROVE EndsLine(u[k]) <=> k = n
    <2>1. u[k] = Piece(c, l + 0, (k - 1) + 1) /\ l + 0 = l /\ (k - 1) + 1 = k
      BY <1>1, <1>5 DEF Grows
    <2> QED BY <2>1 DEF EndsLine, Piece
  <1>7. ASSUME n < Len(u) PROVE u[n + 1].part = 1
    <2>1. n \in 1..n
      BY <1>1
    <2>2. Reached(c, l, u, n, 0 + 1, 0)
      BY <1>5, <1>6, <2>1 DEF Grows
    <2> QED BY <1>7, <2>2 DEF Reached, Piece
  <1> QED BY <1>6, <1>7

(* parse goes on from text to text. *)
ParsesFrom(F, c, lines, texts) ==
    /\ F[0] = lines
    /\ \A k \in 1..Len(texts) : F[k] = Parsed(c, F[k - 1], texts[k])
    /\ F[Len(texts)] = AllParsed(c, lines, texts)

(* What parse makes of texts has such values between them.                  *)
LEMMA Parses ==
    ASSUME NEW c, NEW T, NEW texts \in Seq(T), NEW lines \in Seq(Nat)
    PROVE  \E F : ParsesFrom(F, c, lines, texts)
  BY ParsedFolds DEF ParsesFrom

(* What is given to parse as lines is heard as lines, after those before.    *)
LEMMA HearsLines ==
    ASSUME NEW c, NEW h \in Nat, NEW m \in Nat, \A i \in 1..m : (h + 1) + i - 1 \in DOMAIN LineSizes,
           NEW before, before = [x \in 1..h |-> x], NEW texts, texts = Lines(c, h + 1, m)
    PROVE  /\ AllParsed(c, before, texts) = [x \in 1..(h + m) |-> x]
           /\ \A i \in DOMAIN texts : IsLine(c, texts[i])
  <1> DEFINE T == {LineOf(c, l) : l \in DOMAIN LineSizes}
  <1>1. DOMAIN texts = 1..m /\ \A i \in 1..m : h + i \in DOMAIN LineSizes /\ texts[i] = LineOf(c, h + i)
    <2>1. \A i \in 1..m : (h + 1) + i - 1 = h + i
      OBVIOUS
    <2> QED BY <2>1 DEF Lines
  <1>2. ASSUME NEW l \in DOMAIN LineSizes
        PROVE  LineOf(c, l)[1].line = l /\ IsLine(c, LineOf(c, l))
    <2>1. LineSizes[l] \in Nat \ {0}
      BY StreamAssumption
    <2>2. LineOf(c, l)[1].line = l /\ DOMAIN LineOf(c, l) = 1..LineSizes[l] /\ 1 \in 1..LineSizes[l]
      BY <2>1 DEF LineOf, Piece
    <2>3. LineOf(c, l) # <<>>
      <3> DEFINE line == LineOf(c, l)
      <3>1. line \in Seq(PieceSet(c)) /\ Len(line) = LineSizes[l]
        BY <2>1 DEF LineOf, PieceSet
      <3> HIDE DEF line
      <3>2. line # <<>>
        BY <2>1, <3>1
      <3> QED BY <3>2 DEF line
    <2> QED BY <2>2, <2>3 DEF IsLine
  <1>3. \A i \in 1..m : texts[i] \in T /\ texts[i][1].line = h + i /\ IsLine(c, texts[i])
    BY <1>1, <1>2
  <1> HIDE DEF T
  <1>4. texts \in Seq(T) /\ Len(texts) = m
    <2>1. texts \in [1..m -> T]
      BY <1>1, <1>3 DEF Lines
    <2> QED BY <2>1
  <1>5. before \in Seq(Nat)
    OBVIOUS
  <1>6. PICK F : ParsesFrom(F, c, before, texts)
    <2>1. texts \in Seq(T)
      BY <1>4
    <2> QED BY <1>5, <2>1, Parses
  <1> DEFINE Heard(k) == [x \in 1..(h + k) |-> x]
             W == {k \in 0..m : F[k] = Heard(k)}
  <1>7. 0 \in W
    BY <1>6 DEF ParsesFrom
  <1>8. ASSUME NEW k \in 1..m, k - 1 \in W PROVE k \in W
    <2>1. F[k] = Append(F[k - 1], h + k)
      BY <1>3, <1>4, <1>6 DEF Parsed, ParsesFrom
    <2>2. F[k - 1] = Heard(k - 1)
      BY <1>8
    <2>3. Append(Heard(k - 1), h + k) = Heard(k)
      <3>1. h + (k - 1) \in Nat /\ h + k = (h + (k - 1)) + 1
        OBVIOUS
      <3> QED BY <3>1
    <2> HIDE DEF Heard
    <2>4. F[k] = Heard(k)
      BY <2>1, <2>2, <2>3
    <2> QED BY <2>4
  <1> HIDE DEF W
  <1>9. m \in W
    <2>1. m \in Nat /\ m \in 0..m
      BY <1>1
    <2>2. \A k \in 1..m : k - 1 \in W => k \in W
      BY <1>8, Zenon
    <2> QED BY <1>7, <2>1, <2>2, UpTo, Zenon
  <1> QED BY <1>1, <1>3, <1>4, <1>6, <1>9 DEF W, ParsesFrom

(* The invariant holds where a Client starts.                               *)
LEMMA StreamStarts == StreamInit => StreamInv
  BY DEF StreamInit, StreamInv, StreamTyped, Unheard, Emptied, Flowing

(* What is read without TLS.                                                *)
LEMMA ReadsPlain ==
    ASSUME StreamInv, Framed, NEW n \in 1..Len(wire), OnRead(n), ~pool.secure
    PROVE  Flowing'
  <1> DEFINE c == connection
             P == PieceSet(c)
             l == Len(heard) + 1
             s == Flow(recvBuf, wire, unwritten)
             k == Len(recvBuf) + n
  <1>1. /\ socket = "up" /\ recvBuf \in Seq(P) /\ wire \in Seq(ByteSet(c)) /\ unwritten \in Seq(P)
        /\ readBio = <<>> /\ ~garbled /\ heard \in Seq(Nat) /\ heard = [x \in 1..Len(heard) |-> x] /\ Len(heard) \in Nat
        /\ InOrder(c, Flow(recvBuf, readBio \o wire, unwritten), l, 1)
    BY DEF StreamInv, StreamTyped, Flowing, OnRead
  <1>2. readBio \o wire = wire
    BY <1>1, ConcatEmptySeq
  <1>3. InOrder(c, s, l, 1) /\ s \in Seq(P)
    BY <1>1, <1>2 DEF InOrder
  <1>4. n \in 0..Len(wire) /\ l \in Nat \ {0}
    BY <1>1
  <1>5. /\ k \in 0..Len(s)
        /\ recvBuf \o Pieces(SubSeq(wire, 1, n)) = SubSeq(s, 1, k)
        /\ \A r \in Seq(P) : Flow(r, SubSeq(wire, n + 1, Len(wire)), unwritten) = r \o SubSeq(s, k + 1, Len(s))
    <2>1. FrontIsRead(P, recvBuf, wire, unwritten, n, s)
      BY <1>1, <1>4, ReadFlow DEF ByteSet
    <2> QED BY <2>1 DEF FrontIsRead
  <1> HIDE DEF s, k
  <1>6. PICK m, j : /\ Reached(c, l, s, k, m, j)
                    /\ Cut(SubSeq(s, 1, k)) = [lines |-> Lines(c, l, m), rest |-> PartOf(c, l + m, j)]
    <2>1. k \in 0..Len(s) /\ l \in Nat \ {0} /\ InOrder(c, s, l, 1)
      BY <1>3, <1>4, <1>5
    <2> HIDE DEF l
    <2> QED BY <2>1, CutsLines
  <1>7. PartOf(c, l + m, j) \in Seq(P) /\ InOrder(c, PartOf(c, l + m, j) \o SubSeq(s, k + 1, Len(s)), l + m, 1)
    BY <1>3, <1>4, <1>5, <1>6, GoesOn
  <1> DEFINE cut == Cut(recvBuf \o Pieces(Came(n)))
  <1>8. cut.lines = Lines(c, l, m) /\ cut.rest = PartOf(c, l + m, j)
    <2>1. cut = [lines |-> Lines(c, l, m), rest |-> PartOf(c, l + m, j)]
      BY <1>5, <1>6 DEF Came
    <2> HIDE DEF cut
    <2> QED BY <2>1
  <1>9. /\ heard' = AllParsed(c, heard, cut.lines) /\ recvBuf' = cut.rest /\ UNCHANGED <<readBio, pool, socket, connection, unwritten>>
        /\ garbled' = (garbled \/ \E i \in DOMAIN cut.lines : ~IsLine(c, cut.lines[i]))
        /\ wire' = SubSeq(wire, n + 1, Len(wire))
    BY DEF OnRead, Given
  <1> HIDE DEF cut
  <1>10. /\ AllParsed(c, heard, Lines(c, l, m)) = [x \in 1..(Len(heard) + m) |-> x]
         /\ \A i \in DOMAIN Lines(c, l, m) : IsLine(c, Lines(c, l, m)[i])
    <2>1. m \in Nat /\ \A i \in 1..m : (Len(heard) + 1) + i - 1 \in DOMAIN LineSizes
      BY <1>6 DEF Reached
    <2> QED BY <1>1, <2>1, HearsLines
  <1>11. heard' \in Seq(Nat) /\ heard' = [x \in 1..Len(heard') |-> x] /\ Len(heard') + 1 = l + m /\ ~garbled'
    <2>1. heard' = [x \in 1..(Len(heard) + m) |-> x] /\ Len(heard) + m \in Nat
      BY <1>1, <1>6, <1>8, <1>9, <1>10 DEF Reached
    <2>2. Len(heard') = Len(heard) + m /\ heard' \in Seq(Nat)
      BY <2>1
    <2>3. ~garbled'
      BY <1>1, <1>8, <1>9, <1>10
    <2> QED BY <1>1, <1>6, <2>1, <2>2, <2>3 DEF Reached
  <1>12. wire' \in Seq(ByteSet(c))
    <2> DEFINE B == ByteSet(c)
    <2> HIDE DEF B
    <2>1. wire \in Seq(B) /\ n \in Nat
      BY <1>1, <1>4 DEF B
    <2>2. \A i \in (n + 1)..Len(wire) : wire[i] \in B
      BY <2>1
    <2>3. SubSeq(wire, n + 1, Len(wire)) \in Seq(B)
      BY <2>1, <2>2, SubSeqProperties
    <2> QED BY <1>9, <2>3 DEF B
  <1>13. readBio' \o wire' = wire'
    BY <1>1, <1>9, <1>12, ConcatEmptySeq
  <1>14. Flow(recvBuf', wire', unwritten') = PartOf(c, l + m, j) \o SubSeq(s, k + 1, Len(s))
    BY <1>5, <1>7, <1>8, <1>9
  <1>15. recvBuf' \in Seq(P) /\ readBio' \in Seq(ByteSet(c)) /\ unwritten' \in Seq(P) /\ readBio' = <<>>
    BY <1>1, <1>7, <1>8, <1>9
  <1>16. InOrder(c, Flow(recvBuf', readBio' \o wire', unwritten'), Len(heard') + 1, 1)
    BY <1>7, <1>11, <1>13, <1>14
  <1>17. connection' = c /\ ~pool'.secure
    BY <1>9
  <1> QED BY <1>11, <1>12, <1>15, <1>16, <1>17 DEF Flowing

(* What is read over TLS.                                                   *)
LEMMA ReadsRecords ==
    ASSUME StreamInv, Framed, NEW n \in 1..Len(wire), OnRead(n), pool.secure
    PROVE  Flowing'
  <1> DEFINE c == connection
             P == PieceSet(c)
             B == ByteSet(c)
             l == Len(heard) + 1
             w == readBio \o wire
             s == Flow(<<>>, w, unwritten)
             k == Len(readBio) + n
             left == SubSeq(wire, n + 1, Len(wire))
  <1>1. /\ socket = "up" /\ recvBuf = <<>> /\ readBio \in Seq(B) /\ wire \in Seq(B) /\ unwritten \in Seq(P)
        /\ Marked(w) /\ ~garbled /\ heard \in Seq(Nat) /\ heard = [x \in 1..Len(heard) |-> x] /\ Len(heard) \in Nat
        /\ InOrder(c, s, l, 1) /\ (unwritten # <<>> => unwritten[1].part = 1)
    BY DEF StreamInv, StreamTyped, Flowing, OnRead
  <1>2. \A i \in DOMAIN LineSizes : LineSizes[i] <= TlsBuffer
    BY DEF Framed
  <1> HIDE DEF B
  <1>3. Joined(B, readBio, wire, w)
    BY <1>1, Join
  <1> HIDE DEF w
  <1>4. /\ n \in Nat /\ n <= Len(wire) /\ Len(wire) \in Nat /\ Len(readBio) \in Nat /\ l \in Nat \ {0}
        /\ w \in Seq(B) /\ Len(w) = Len(readBio) + Len(wire) /\ k \in 0..Len(w)
    BY <1>1, <1>3 DEF Joined
  <1> HIDE DEF s
  <1>5. /\ left \in Seq(B) /\ Len(left) = Len(wire) - n /\ \A i \in 1..(Len(wire) - n) : left[i] = wire[n + i]
        /\ SubSeq(wire, 1, n) \in Seq(B) /\ Len(SubSeq(wire, 1, n)) = n /\ \A i \in 1..n : SubSeq(wire, 1, n)[i] = wire[i]
    <2>1. \A i \in (n + 1)..Len(wire) : wire[i] \in B
      BY <1>1, <1>4
    <2>2. left \in Seq(B)
      BY <1>4, <2>1, SubSeqProperties
    <2> QED BY <1>1, <1>4, <2>2
  <1>6. readBio \o SubSeq(wire, 1, n) = SubSeq(w, 1, k)
    <2> DEFINE came == SubSeq(wire, 1, n)
               x == readBio \o came
               y == SubSeq(w, 1, k)
    <2>1. came \in Seq(B) /\ Len(came) = n /\ \A i \in 1..n : came[i] = wire[i]
      BY <1>5
    <2> HIDE DEF came
    <2>2. Joined(B, readBio, came, x)
      BY <1>1, <2>1, Join
    <2>3. y \in Seq(B) /\ Len(y) = k /\ \A i \in 1..k : y[i] = w[i]
      BY <1>4
    <2> HIDE DEF x, y
    <2>4. ASSUME NEW i \in 1..k PROVE x[i] = y[i]
      <3>1. CASE i <= Len(readBio)
        <4>1. i \in 1..Len(readBio)
          BY <1>4, <3>1
        <4> QED BY <1>3, <2>2, <2>3, <4>1 DEF Joined
      <3>2. CASE ~(i <= Len(readBio))
        <4>1. i - Len(readBio) \in 1..n /\ i - Len(readBio) \in 1..Len(wire) /\ i = Len(readBio) + (i - Len(readBio))
          BY <1>4, <3>2
        <4> DEFINE j == i - Len(readBio)
        <4> HIDE DEF j
        <4>2. x[Len(readBio) + j] = w[Len(readBio) + j]
          BY <1>3, <2>1, <2>2, <4>1 DEF Joined, j
        <4> QED BY <2>3, <4>1, <4>2 DEF j
      <3> QED BY <3>1, <3>2
    <2>5. x \in Seq(B) /\ Len(x) = k /\ k \in Nat
      BY <1>4, <2>1, <2>2 DEF Joined
    <2>6. x = y
      BY <2>3, <2>4, <2>5, SeqEqual
    <2> QED BY <2>6 DEF x, y, came
  <1>7. SubSeq(w, k + 1, Len(w)) = left
    <2> DEFINE y == SubSeq(w, k + 1, Len(w))
    <2>1. y \in Seq(B) /\ Len(y) = Len(wire) - n /\ \A i \in 1..(Len(wire) - n) : y[i] = w[k + i]
      <3>1. \A i \in (k + 1)..Len(w) : w[i] \in B
        BY <1>4
      <3>2. y \in Seq(B)
        BY <1>4, <3>1, SubSeqProperties
      <3> QED BY <1>4, <3>2
    <2> HIDE DEF y, left
    <2>2. ASSUME NEW i \in 1..(Len(wire) - n) PROVE y[i] = left[i]
      <3>1. n + i \in 1..Len(wire) /\ k + i = Len(readBio) + (n + i)
        BY <1>4
      <3> QED BY <1>3, <1>5, <2>1, <3>1 DEF Joined
    <2>3. y = left
      BY <1>4, <1>5, <2>1, <2>2, SeqEqual
    <2> QED BY <2>3 DEF y
  <1>8. /\ Len(<<>>) + k \in 0..Len(s)
        /\ \A r \in Seq(P) : Flow(r, SubSeq(w, k + 1, Len(w)), unwritten) = r \o SubSeq(s, Len(<<>>) + k + 1, Len(s))
    <2>1. FrontIsRead(P, <<>>, w, unwritten, k, s)
      <3>1. <<>> \in Seq(P)
        OBVIOUS
      <3> QED BY <1>1, <1>4, <3>1, ReadFlow DEF ByteSet, B, s
    <2> QED BY <2>1 DEF FrontIsRead
  <1>9. k \in 0..Len(s) /\ \A r \in Seq(P) : Flow(r, left, unwritten) = r \o SubSeq(s, k + 1, Len(s))
    <2>1. Len(<<>>) + k = k
      BY <1>4
    <2> QED BY <1>7, <1>8, <2>1
  <1> DEFINE r == Records(readBio \o Came(n))
  <1>10. PICK m, j : RecordsAre(r, c, l, s, k, m, j)
    <2>1. \E m, j : RecordsAre(Records(SubSeq(w, 1, k)), c, l, s, k, m, j)
      BY <1>1, <1>2, <1>4, ReadsLines DEF B, s
    <2>2. r = Records(SubSeq(w, 1, k))
      BY <1>6 DEF Came
    <2> HIDE DEF r
    <2> QED BY <2>1, <2>2
  <1>11. /\ heard' = AllParsed(c, heard, r.texts) /\ readBio' = r.rest /\ UNCHANGED <<recvBuf, pool, socket, connection, unwritten>>
         /\ garbled' = (garbled \/ \E i \in DOMAIN r.texts : ~IsLine(c, r.texts[i]))
         /\ wire' = left
    BY DEF OnRead, Given
  <1> HIDE DEF r, left, k
  <1>12. /\ Reached(c, l, s, k, m, j) /\ r.texts = Lines(c, l, m)
         /\ r.rest \in Seq(B) /\ Marked(r.rest) /\ Pieces(r.rest) = PartOf(c, l + m, j)
    BY <1>10 DEF RecordsAre, B
  <1>13. PartOf(c, l + m, j) \in Seq(P) /\ InOrder(c, PartOf(c, l + m, j) \o SubSeq(s, k + 1, Len(s)), l + m, 1)
    BY <1>1, <1>4, <1>9, <1>12, GoesOn
  <1>14. /\ AllParsed(c, heard, Lines(c, l, m)) = [x \in 1..(Len(heard) + m) |-> x]
         /\ \A i \in DOMAIN Lines(c, l, m) : IsLine(c, Lines(c, l, m)[i])
    <2>1. m \in Nat /\ \A i \in 1..m : (Len(heard) + 1) + i - 1 \in DOMAIN LineSizes
      BY <1>12 DEF Reached
    <2> QED BY <1>1, <2>1, HearsLines
  <1>15. heard' \in Seq(Nat) /\ heard' = [x \in 1..Len(heard') |-> x] /\ Len(heard') + 1 = l + m /\ ~garbled'
    <2>1. heard' = [x \in 1..(Len(heard) + m) |-> x] /\ Len(heard) + m \in Nat
      BY <1>1, <1>11, <1>12, <1>14 DEF Reached
    <2>2. Len(heard') = Len(heard) + m /\ heard' \in Seq(Nat)
      BY <2>1
    <2>3. ~garbled'
      BY <1>1, <1>11, <1>12, <1>14
    <2> QED BY <1>1, <1>12, <2>1, <2>2, <2>3 DEF Reached
  <1> DEFINE v == r.rest \o left
  <1>16. Joined(B, r.rest, left, v)
    BY <1>5, <1>12, Join
  <1>17. Marked(v)
    <2> HIDE DEF v
    <2>1. v \in Seq(B) /\ Len(v) \in Nat /\ DOMAIN v = 1..Len(v) /\ Len(v) = Len(r.rest) + Len(left)
          /\ Len(r.rest) \in Nat /\ Len(left) \in Nat /\ DOMAIN w = 1..Len(w) /\ DOMAIN r.rest = 1..Len(r.rest)
      BY <1>4, <1>12, <1>16 DEF Joined
    <2>2. ASSUME NEW i \in 1..Len(v) PROVE v[i].last = EndsLine(v[i].piece)
      <3>1. CASE i <= Len(r.rest)
        <4>1. i \in 1..Len(r.rest)
          BY <2>1, <3>1
        <4>2. v[i] = r.rest[i]
          BY <1>16, <4>1 DEF Joined
        <4> QED BY <1>12, <2>1, <4>1, <4>2 DEF Marked
      <3>2. CASE ~(i <= Len(r.rest))
        <4> DEFINE j0 == i - Len(r.rest)
        <4>1. j0 \in 1..Len(left) /\ i = Len(r.rest) + j0
          BY <2>1, <3>2
        <4> HIDE DEF j0
        <4>2. v[i] = left[j0]
          BY <1>16, <4>1 DEF Joined
        <4>3. n + j0 \in 1..Len(wire) /\ Len(readBio) + (n + j0) \in 1..Len(w) /\ j0 \in 1..(Len(wire) - n)
          <5>1. j0 \in 1..(Len(wire) - n)
            BY <1>5, <4>1
          <5>2. Len(readBio) \in Nat /\ Len(wire) \in Nat /\ n \in 0..Len(wire)
            BY <1>4
          <5>3. n + j0 \in 1..Len(wire) /\ Len(readBio) + (n + j0) \in 1..(Len(readBio) + Len(wire))
            BY <5>1, <5>2, AfterPart
          <5> QED BY <1>4, <5>1, <5>3
        <4>4. left[j0] = w[Len(readBio) + (n + j0)]
          BY <1>3, <1>5, <4>3 DEF Joined
        <4> DEFINE q == Len(readBio) + (n + j0)
        <4>5. w[q].last = EndsLine(w[q].piece)
          <5>1. q \in DOMAIN w /\ Marked(w)
            BY <1>1, <2>1, <4>3
          <5> HIDE DEF q
          <5> QED BY <5>1 DEF Marked
        <4>6. v[i] = w[q]
          BY <4>2, <4>4
        <4> HIDE DEF q
        <4> QED BY <4>5, <4>6
      <3> QED BY <3>1, <3>2
    <2> QED BY <2>1, <2>2 DEF Marked
  <1>18. Flow(<<>>, v, unwritten) = Flow(Pieces(r.rest), left, unwritten)
    <2>1. Pieces(v) = Pieces(r.rest) \o Pieces(left)
      <3> DEFINE a == Pieces(r.rest)
                 b == Pieces(left)
                 x == a \o b
                 y == Pieces(v)
      <3>1. a \in Seq(P) /\ Len(a) = Len(r.rest) /\ \A i \in 1..Len(r.rest) : a[i] = r.rest[i].piece
        BY <1>12, PiecesOf DEF B, ByteSet
      <3>2. b \in Seq(P) /\ Len(b) = Len(left) /\ \A i \in 1..Len(left) : b[i] = left[i].piece
        BY <1>5, PiecesOf DEF B, ByteSet
      <3>3. y \in Seq(P) /\ Len(y) = Len(v) /\ \A i \in 1..Len(v) : y[i] = v[i].piece
        <4>1. v \in Seq(B)
          BY <1>16 DEF Joined
        <4> QED BY <4>1, PiecesOf DEF B, ByteSet
      <3> HIDE DEF a, b, y
      <3>4. Joined(P, a, b, x)
        BY <3>1, <3>2, Join
      <3> HIDE DEF x, v
      <3>5. ASSUME NEW i \in 1..Len(v) PROVE x[i] = y[i]
        <4>1. Len(v) = Len(r.rest) + Len(left) /\ Len(r.rest) \in Nat /\ Len(left) \in Nat
          BY <1>16 DEF Joined
        <4>2. CASE i <= Len(r.rest)
          <5>1. i \in 1..Len(r.rest)
            BY <4>1, <4>2
          <5>2. v[i] = r.rest[i]
            BY <1>16, <5>1 DEF Joined
          <5>3. x[i] = a[i] /\ a[i] = r.rest[i].piece
            BY <3>1, <3>4, <5>1 DEF Joined
          <5>4. y[i] = v[i].piece
            BY <3>3
          <5> QED BY <5>2, <5>3, <5>4
        <4>3. CASE ~(i <= Len(r.rest))
          <5> DEFINE j0 == i - Len(r.rest)
          <5>1. j0 \in 1..Len(left) /\ i = Len(r.rest) + j0
            BY <4>1, <4>3
          <5> HIDE DEF j0
          <5>2. v[Len(r.rest) + j0] = left[j0]
            BY <1>16, <5>1 DEF Joined
          <5>3. x[Len(r.rest) + j0] = left[j0].piece
            BY <3>1, <3>2, <3>4, <5>1 DEF Joined
          <5>4. y[i] = v[i].piece
            BY <3>3
          <5>5. x[i] = left[j0].piece /\ v[i] = left[j0]
            BY <5>1, <5>2, <5>3
          <5> QED BY <5>4, <5>5
        <4> QED BY <4>2, <4>3
      <3>6. x \in Seq(P) /\ Len(x) = Len(y)
        BY <1>16, <3>1, <3>2, <3>3, <3>4 DEF Joined
      <3>7. x = y
        BY <3>3, <3>5, <3>6, SeqEqual
      <3> QED BY <3>7 DEF x, y, a, b
    <2>2. <<>> \o Pieces(v) = Pieces(v)
      <3>1. v \in Seq(B)
        BY <1>16 DEF Joined
      <3>2. Pieces(v) \in Seq(P)
        BY <3>1, PiecesOf DEF B, ByteSet
      <3> QED BY <3>2, ConcatEmptySeq
    <2> QED BY <2>1, <2>2 DEF Flow
  <1>19. Flow(<<>>, v, unwritten) = PartOf(c, l + m, j) \o SubSeq(s, k + 1, Len(s))
    BY <1>9, <1>12, <1>13, <1>18
  <1>20. readBio' \o wire' = v
    BY <1>11
  <1> HIDE DEF v
  <1>21. recvBuf' = <<>> /\ readBio' \in Seq(B) /\ wire' \in Seq(B) /\ unwritten' \in Seq(P)
         /\ (unwritten' # <<>> => unwritten'[1].part = 1) /\ recvBuf' \in Seq(P)
    BY <1>1, <1>5, <1>11, <1>12
  <1>22. InOrder(c, Flow(recvBuf', readBio' \o wire', unwritten'), Len(heard') + 1, 1)
    <2>1. Flow(recvBuf', readBio' \o wire', unwritten') = PartOf(c, l + m, j) \o SubSeq(s, k + 1, Len(s))
      BY <1>11, <1>19, <1>20, <1>21
    <2> QED BY <1>13, <1>15, <2>1
  <1>23. connection' = c /\ pool'.secure /\ Marked(readBio' \o wire')
    BY <1>11, <1>17, <1>20
  <1> QED BY <1>15, <1>21, <1>22, <1>23 DEF Flowing, B

(* What the pool writes.                                                    *)
LEMMA WritesOn ==
    ASSUME StreamInv, Framed, PoolWrites
    PROVE  Flowing'
  <1> DEFINE c == connection
             P == PieceSet(c)
             B == ByteSet(c)
             l == Len(heard) + 1
             w == readBio \o wire
             u == unwritten
  <1>1. PICK n \in 1..Len(unwritten) :
            /\ Writable(n)
            /\ wire' = wire \o [i \in 1..n |-> [piece |-> unwritten[i], last |-> i = n]]
            /\ unwritten' = SubSeq(unwritten, n + 1, Len(unwritten))
    BY DEF PoolWrites
  <1> DEFINE bytes == [i \in 1..n |-> [piece |-> unwritten[i], last |-> i = n]]
             v == SubSeq(u, n + 1, Len(u))
  <1>2. /\ socket \in {"handshake", "up"} /\ recvBuf \in Seq(P) /\ readBio \in Seq(B) /\ wire \in Seq(B) /\ u \in Seq(P)
        /\ ~garbled /\ heard \in Seq(Nat) /\ heard = [x \in 1..Len(heard) |-> x]
        /\ InOrder(c, Flow(recvBuf, w, u), l, 1)
        /\ IF pool.secure THEN recvBuf = <<>> /\ Marked(w) /\ (u # <<>> => u[1].part = 1) ELSE readBio = <<>>
    BY DEF StreamInv, Flowing, PoolWrites
  <1>3. UNCHANGED <<pool, socket, connection, recvBuf, readBio, heard, garbled>>
    BY DEF PoolWrites
  <1>4. n \in Nat \ {0} /\ n <= Len(u) /\ Len(u) \in Nat
    BY <1>2
  <1>5. bytes \in Seq(B) /\ Len(bytes) = n /\ \A i \in 1..n : bytes[i].piece = u[i] /\ bytes[i].last = (i = n)
    <2>1. ASSUME NEW i \in 1..n PROVE [piece |-> u[i], last |-> i = n] \in B
      <3>1. u[i] \in P
        BY <1>2, <1>4
      <3> QED BY <3>1 DEF ByteSet
    <2> HIDE DEF B
    <2> QED BY <1>4, <2>1
  <1>6. v \in Seq(P) /\ Len(v) = Len(u) - n /\ \A i \in 1..(Len(u) - n) : v[i] = u[n + i]
    <2>1. \A i \in (n + 1)..Len(u) : u[i] \in P
      BY <1>2, <1>4
    <2>2. v \in Seq(P)
      BY <1>4, <2>1, SubSeqProperties
    <2> QED BY <1>2, <1>4, <2>2
  <1> HIDE DEF bytes, v
  <1>7. w \in Seq(B) /\ wire \o bytes \in Seq(B) /\ readBio \o (wire \o bytes) = w \o bytes
    <2> HIDE DEF B
    <2>1. Joined(B, readBio, wire, w) /\ Joined(B, wire, bytes, wire \o bytes)
      BY <1>2, <1>5, Join
    <2>2. readBio \in Seq(B) /\ wire \in Seq(B) /\ bytes \in Seq(B)
      BY <1>2, <1>5
    <2>3. (readBio \o wire) \o bytes = readBio \o (wire \o bytes)
      BY <2>2, ConcatAssociative, SMTT(30)
    <2> HIDE DEF w
    <2> QED BY <2>1, <2>3 DEF Joined, w
  <1>8. wire' = wire \o bytes /\ unwritten' = v
    BY <1>1 DEF bytes, v
  <1> HIDE DEF w
  <1>9. Flow(recvBuf, w \o bytes, v) = Flow(recvBuf, w, u)
    <2>1. n \in 0..Len(u) /\ Len(bytes) = n
      BY <1>4, <1>5
    <2>2. \A i \in 1..n : bytes[i].piece = u[i]
      BY <1>5
    <2>3. recvBuf \in Seq(P) /\ u \in Seq(P)
      BY <1>2
    <2>4. w \in Seq([piece : P, last : BOOLEAN]) /\ bytes \in Seq([piece : P, last : BOOLEAN])
      BY <1>5, <1>7 DEF ByteSet
    <2> HIDE DEF P
    <2>5. WrittenStays(recvBuf, w, u, n, bytes)
      BY <2>1, <2>2, <2>3, <2>4, WriteFlow
    <2> QED BY <2>5 DEF WrittenStays, v
  <1>10. InOrder(c, Flow(recvBuf', readBio' \o wire', unwritten'), l, 1)
    BY <1>2, <1>3, <1>7, <1>8, <1>9
  <1>11. ASSUME pool.secure PROVE Marked(w \o bytes) /\ (v # <<>> => v[1].part = 1)
    <2>1. u # <<>> /\ u[1].part = 1 /\ u[1] \in P /\ InOrder(c, u, u[1].line, 1)
      <3>1. u # <<>>
        BY <1>2, <1>4
      <3> QED BY <1>2, <1>7, <1>11, <3>1, TextInOrder
    <2>2. u[1].line \in Nat \ {0} /\ n = LineSizes[u[1].line]
      <3>1. u[1] = Piece(c, u[1].line, u[1].part)
        BY <2>1 DEF PieceSet, Piece
      <3> QED BY <1>1, <1>11, <2>1, <3>1, PieceFacts DEF Writable, Framed
    <2>3. (\A i \in 1..n : EndsLine(u[i]) <=> i = n) /\ (n < Len(u) => u[n + 1].part = 1)
      <3>1. n \in 1..Len(u)
        BY <1>4
      <3> QED BY <2>1, <2>2, <3>1, OneLine
    <2>4. Joined(B, w, bytes, w \o bytes)
      <3> HIDE DEF B
      <3> QED BY <1>5, <1>7, Join
    <2> DEFINE x == w \o bytes
    <2> HIDE DEF x
    <2>5. Joined(B, w, bytes, x)
      BY <2>4 DEF x
    <2>6. x \in Seq(B) /\ DOMAIN x = 1..Len(x) /\ Len(x) = Len(w) + n /\ Len(w) \in Nat /\ DOMAIN w = 1..Len(w)
      <3> HIDE DEF B
      <3> QED BY <1>5, <1>7, <2>5 DEF Joined
    <2>7. ASSUME NEW i \in 1..Len(x) PROVE x[i].last = EndsLine(x[i].piece)
      <3>1. CASE i <= Len(w)
        <4>1. i \in 1..Len(w)
          BY <2>6, <3>1
        <4>2. x[i] = w[i]
          BY <2>5, <4>1 DEF Joined
        <4> QED BY <1>2, <1>11, <2>6, <4>1, <4>2 DEF Marked
      <3>2. CASE ~(i <= Len(w))
        <4> DEFINE j == i - Len(w)
        <4>1. j \in 1..n /\ i = Len(w) + j
          BY <1>4, <2>6, <3>2
        <4> HIDE DEF j
        <4>2. x[i] = bytes[j]
          BY <1>5, <2>5, <4>1 DEF Joined
        <4>3. EndsLine(u[j]) <=> j = n
          BY <2>3, <4>1
        <4>4. EndsLine(u[j]) \in BOOLEAN /\ (j = n) \in BOOLEAN
          BY DEF EndsLine
        <4> QED BY <1>5, <4>1, <4>2, <4>3, <4>4
      <3> QED BY <3>1, <3>2
    <2>8. Marked(x)
      BY <2>6, <2>7 DEF Marked
    <2>9. v # <<>> => v[1].part = 1
      <3>1. v # <<>> => 1 \in 1..(Len(u) - n) /\ n < Len(u)
        BY <1>4, <1>6
      <3> QED BY <1>6, <2>3, <3>1
    <2> QED BY <2>8, <2>9 DEF x
  <1>12. wire' \in Seq(B) /\ unwritten' \in Seq(P) /\ readBio' \o wire' = w \o bytes
    BY <1>3, <1>6, <1>7, <1>8
  <1> QED BY <1>2, <1>3, <1>8, <1>10, <1>11, <1>12 DEF Flowing

(* Every step keeps what is to come in order.                               *)
LEMMA FlowStep ==
    ASSUME StreamInv, Framed, StreamNext
    PROVE  Flowing'
  <1>1. ~garbled /\ heard \in Seq(Nat) /\ heard = [l \in 1..Len(heard) |-> l]
    BY DEF StreamInv, Flowing
  <1>2. CASE PoolWrites
    BY <1>2, WritesOn
  <1>3. CASE Connect
    <2> DEFINE c == connection'
    <2>1. socket = "lookup" /\ heard = <<>> /\ wire = <<>>
      BY <1>3 DEF Connect, StreamInv, Emptied
    <2>2. heard' = <<>> /\ garbled' = garbled /\ wire' = <<>> /\ recvBuf' = <<>> /\ readBio' = <<>> /\ pool' = pool
          /\ unwritten' = AllLines(c)
      BY <1>3, <2>1 DEF Connect, EmptiedBuffer
    <2>3. InOrder(c, AllLines(c), 1, 1)
      <3>1. \A x : InOrder(x, AllLines(x), 1, 1)
        BY WritesInOrder
      <3> QED BY <2>2, <3>1
    <2>4. unwritten' \in Seq(PieceSet(c)) /\ (unwritten' # <<>> => unwritten'[1].part = 1)
      BY <2>2, <2>3 DEF InOrder, Piece
    <2>5. Flow(<<>>, <<>>, unwritten') = unwritten'
      <3>1. Pieces(<<>>) = <<>>
        BY DEF Pieces
      <3>2. <<>> \o <<>> = <<>>
        OBVIOUS
      <3>3. <<>> \o unwritten' = unwritten'
        BY <2>4, ConcatEmptySeq
      <3> QED BY <3>1, <3>2, <3>3 DEF Flow
    <2>6. <<>> \o <<>> = <<>> /\ Len(<<>>) + 1 = 1 /\ Marked(<<>>)
      BY DEF Marked
    <2>7. InOrder(c, Flow(recvBuf', readBio' \o wire', unwritten'), Len(heard') + 1, 1)
      BY <2>2, <2>3, <2>5, <2>6
    <2>8. /\ recvBuf' \in Seq(PieceSet(c)) /\ readBio' \in Seq(ByteSet(c)) /\ wire' \in Seq(ByteSet(c))
          /\ ~garbled' /\ heard' \in Seq(Nat) /\ heard' = [l \in 1..Len(heard') |-> l]
      BY <1>1, <2>2
    <2>9. IF pool'.secure
          THEN recvBuf' = <<>> /\ Marked(readBio' \o wire') /\ (unwritten' # <<>> => unwritten'[1].part = 1)
          ELSE readBio' = <<>>
      BY <2>2, <2>4, <2>6
    <2> QED BY <2>4, <2>7, <2>8, <2>9 DEF Flowing
  <1>4. CASE OnConnect \/ Close \/ \E n \in 1..Len(wire) : OnReadFull(n)
    <2>1. /\ UNCHANGED <<pool, connection, unwritten, wire, recvBuf, readBio, heard, garbled>> /\ socket # "lookup"
      BY <1>4 DEF OnConnect, Close, OnReadFull
    <2> QED BY <2>1 DEF Flowing, StreamInv
  <1>5. ASSUME NEW n \in 0..Len(wire), HandshakeRead(n) PROVE Flowing'
    <2> DEFINE B == ByteSet(connection)
    <2>1. /\ socket = "handshake" /\ readBio = <<>> /\ pool.secure /\ wire \in Seq(B)
          /\ recvBuf = <<>> /\ Marked(readBio \o wire) /\ (unwritten # <<>> => unwritten[1].part = 1)
          /\ recvBuf \in Seq(PieceSet(connection)) /\ unwritten \in Seq(PieceSet(connection))
          /\ InOrder(connection, Flow(recvBuf, readBio \o wire, unwritten), Len(heard) + 1, 1)
      BY <1>5 DEF HandshakeRead, StreamInv, StreamTyped, Emptied, Flowing
    <2>2. /\ readBio' = SubSeq(wire, 1, n) /\ wire' = SubSeq(wire, n + 1, Len(wire))
          /\ UNCHANGED <<pool, connection, unwritten, recvBuf, heard, garbled>>
      BY <1>5 DEF HandshakeRead
    <2> HIDE DEF B
    <2>3. readBio \o wire = wire /\ Len(wire) \in Nat
      BY <2>1, ConcatEmptySeq
    <2>4. readBio' \in Seq(B) /\ wire' \in Seq(B)
      <3>1. \A i \in 1..n : wire[i] \in B
        BY <2>1, <2>3
      <3>2. \A i \in (n + 1)..Len(wire) : wire[i] \in B
        BY <2>1, <2>3
      <3> QED BY <2>2, <2>3, <3>1, <3>2, SubSeqProperties
    <2>5. readBio' \o wire' = wire
      <3>1. CASE Len(wire) = 0
        <4>1. n = 0 /\ wire = <<>>
          BY <2>1, <2>3, <3>1
        <4>2. SubSeq(wire, 1, 0) = <<>>
          BY SubSeqEmpty
        <4>3. readBio' = <<>> /\ wire' = <<>>
          BY <2>2, <3>1, <4>1, <4>2
        <4> QED BY <4>1, <4>3, ConcatEmptySeq
      <3>2. CASE Len(wire) # 0
        <4>1. 1 \in 1..(Len(wire) + 1) /\ n \in (1 - 1)..Len(wire) /\ Len(wire) \in n..Len(wire)
          BY <2>3, <3>2
        <4>2. SubSeq(wire, 1, n) \o SubSeq(wire, n + 1, Len(wire)) = SubSeq(wire, 1, Len(wire))
          BY <2>1, <4>1, ConcatAdjacentSubSeq
        <4>3. SubSeq(wire, 1, Len(wire)) = wire
          BY <2>1, SubSeqFull
        <4> QED BY <2>2, <4>2, <4>3, Zenon
      <3> QED BY <3>1, <3>2
    <2>6. connection' = connection /\ pool'.secure /\ Marked(readBio' \o wire') /\ recvBuf' = <<>>
          /\ InOrder(connection, Flow(recvBuf', readBio' \o wire', unwritten'), Len(heard') + 1, 1)
          /\ (unwritten' # <<>> => unwritten'[1].part = 1)
          /\ recvBuf' \in Seq(PieceSet(connection)) /\ unwritten' \in Seq(PieceSet(connection))
      BY <2>1, <2>2, <2>3, <2>5
    <2>7. ~garbled' /\ heard' \in Seq(Nat) /\ heard' = [l \in 1..Len(heard') |-> l]
      BY <1>1, <2>2
    <2> QED BY <2>4, <2>6, <2>7 DEF Flowing, B
  <1>6. ASSUME NEW n \in 1..Len(wire), OnRead(n) PROVE Flowing'
    BY <1>6, ReadsPlain, ReadsRecords
  <1>7. CASE OnClose
    BY <1>1, <1>7 DEF OnClose, Fresh, Flowing
  <1> QED BY <1>2, <1>3, <1>4, <1>5, <1>6, <1>7 DEF StreamNext

(* Every step keeps the invariant.                                          *)
LEMMA StreamStep ==
    ASSUME StreamInv, [StreamNext]_streamVars
    PROVE  StreamInv'
  <1>1. CASE UNCHANGED streamVars
    <2>1. UNCHANGED <<StreamTyped, Unheard, Framed, Emptied, Flowing>>
      BY <1>1 DEF streamVars, StreamTyped, Unheard, Framed, Emptied, Flowing
    <2> QED BY <2>1 DEF StreamInv
  <1>2. CASE StreamNext
    <2> USE DEF StreamInv
    <2>1. pool' = pool /\ (Framed' <=> Framed)
      BY <1>2 DEF StreamNext, PoolWrites, Connect, OnConnect, HandshakeRead, OnRead, OnReadFull, Close, OnClose, Framed
    <2>2. pool.fingerprint => pool.secure
      BY DEF StreamTyped, PoolKinds
    <2>3. StreamTyped'
      BY <1>2, <2>1 DEF StreamNext, PoolWrites, Connect, OnConnect, HandshakeRead, OnRead, OnReadFull, Close, OnClose,
            Fresh, StreamTyped, AfterVerify
    <2>4. Unheard'
      BY <1>2, <2>1, <2>2 DEF StreamNext, PoolWrites, Connect, OnConnect, HandshakeRead, OnRead, OnReadFull, Close, OnClose,
            Fresh, Unheard, verifyFingerprint, AfterVerify
    <2>5. ASSUME Framed PROVE Emptied'
      BY <1>2, <2>5 DEF StreamNext, PoolWrites, Connect, OnConnect, HandshakeRead, OnRead, OnReadFull, Close, OnClose,
            Fresh, Emptied, AfterVerify
    <2>6. ASSUME Framed PROVE Flowing'
      BY <1>2, <2>6, FlowStep
    <2> QED BY <2>1, <2>3, <2>4, <2>5, <2>6
  <1> QED BY <1>1, <1>2

(* However the pieces of the pool's lines arrive, and whatever the connection
   before left in the buffer, the lines that a Client parses are those the pool
   wrote, in their order, and nothing else is parsed: without TLS, and with it
   where each record is a line that the decryption buffer holds.  Nothing is
   heard from a server whose certificate has another fingerprint than the one
   that is configured, nor is it told the login. *)
THEOREM HearsOwnPool == StreamSpec => []HearsItsPool
  <1>1. StreamInit => StreamInv
    BY StreamStarts
  <1>2. StreamInv /\ [StreamNext]_streamVars => StreamInv'
    BY StreamStep
  <1>3. StreamInv => HearsItsPool
    BY DEF StreamInv, Unheard, Flowing, HearsItsPool, LinesInOrder, HeardOnlyVerified
  <1> QED BY <1>1, <1>2, <1>3, PTL DEF StreamSpec

-----------------------------------------------------------------------------
(* The numbers of Targets. *)

(* Power is the powers of two, up to the full width.                        *)
LEMMA PowerDoubles ==
    /\ Power \in [0..(2 * HalfDigits) -> Nat \ {0}]
    /\ Power[0] = 1
    /\ \A k \in 1..(2 * HalfDigits) : Power[k] = 2 * Power[k - 1]
  <1> DEFINE n == 2 * HalfDigits
             D == [0..n -> Nat \ {0}]
             Up(g, k) == g[0] = 1 /\ \A i \in 1..k : g[i] = 2 * g[i - 1]
             Equation(g) == g = [i \in 0..n |-> IF i = 0 THEN 1 ELSE 2 * g[i - 1]]
             W == {k \in 0..n : \E g \in D : Up(g, k)}
  <1>1. n \in Nat
    BY TargetsAssumption
  <1> HIDE DEF n
  <1>2. 0 \in W
    <2> DEFINE g == [i \in 0..n |-> 1]
    <2>1. g \in D /\ Up(g, 0) /\ 0 \in 0..n
      BY <1>1
    <2> HIDE DEF D, Up, g
    <2> QED BY <2>1
  <1>3. ASSUME NEW k \in 1..n, k - 1 \in W PROVE k \in W
    <2>1. PICK g \in D : Up(g, k - 1)
      BY <1>3
    <2> DEFINE h == [g EXCEPT ![k] = 2 * g[k - 1]]
    <2>2. k \in 0..n /\ k - 1 \in 0..n /\ k \in Nat
      BY <1>1
    <2>3. g[k - 1] \in Nat \ {0} /\ 2 * g[k - 1] \in Nat \ {0}
      BY <2>2
    <2>4. h \in D
      BY <2>2, <2>3
    <2>5. h[k] = 2 * g[k - 1] /\ \A i \in 0..(k - 1) : h[i] = g[i]
      BY <2>2
    <2> HIDE DEF h
    <2>6. h[0] = 1
      BY <2>1, <2>2, <2>5
    <2>7. ASSUME NEW i \in 1..k PROVE h[i] = 2 * h[i - 1]
      <3>1. i - 1 \in 0..(k - 1)
        BY <2>2
      <3>2. CASE i = k
        BY <2>5, <3>1, <3>2
      <3>3. CASE i # k
        <4>1. i \in 1..(k - 1) /\ i \in 0..(k - 1)
          BY <2>2, <3>3
        <4> QED BY <2>1, <2>5, <3>1, <4>1
      <3> QED BY <3>2, <3>3
    <2>8. Up(h, k)
      BY <2>6, <2>7
    <2> QED BY <2>2, <2>4, <2>8
  <1>4. n \in W
    <2> HIDE DEF W
    <2>1. \A k \in 0..n : k \in W
      BY <1>1, <1>2, <1>3, UpTo
    <2> QED BY <1>1, <2>1
  <1>5. PICK g \in D : Up(g, n)
    BY <1>4
  <1>6. Equation(g)
    <2>1. ASSUME NEW i \in 0..n PROVE g[i] = IF i = 0 THEN 1 ELSE 2 * g[i - 1]
      <3>1. i # 0 => i \in 1..n
        BY <1>1
      <3> QED BY <1>5, <3>1
    <2> QED BY <1>5, <2>1
  <1>7. Power = CHOOSE h : Equation(h)
    BY DEF Power, n
  <1>8. Equation(Power)
    <2> HIDE DEF Equation
    <2> QED BY <1>6, <1>7
  <1>9. Power[0] = 1 /\ DOMAIN Power = 0..n /\ Power = [i \in 0..n |-> Power[i]]
    BY <1>1, <1>8
  <1>10. ASSUME NEW k \in 1..n PROVE Power[k] = 2 * Power[k - 1]
    <2>1. k \in 0..n /\ k # 0
      BY <1>1
    <2> QED BY <1>8, <2>1
  <1>11. \A k \in 0..n : Power[k] \in Nat \ {0}
    <2> DEFINE P == {k \in 0..n : Power[k] \in Nat \ {0}}
    <2>1. 0 \in P
      BY <1>1, <1>9
    <2>2. ASSUME NEW k \in 1..n, k - 1 \in P PROVE k \in P
      <3>1. Power[k] = 2 * Power[k - 1]
        BY <1>10
      <3>2. Power[k - 1] \in Nat \ {0} /\ k \in 0..n
        BY <1>1, <2>2
      <3> QED BY <3>1, <3>2
    <2> HIDE DEF P
    <2>3. \A k \in 0..n : k \in P
      BY <1>1, <2>1, <2>2, UpTo
    <2> QED BY <2>3 DEF P
  <1>12. Power \in [0..n -> Nat \ {0}]
    BY <1>9, <1>11
  <1> QED BY <1>9, <1>10, <1>12 DEF n

(* The numbers of the two widths: the full one is the square of the other, but
   for its end. *)
LEMMA Widths ==
    /\ Power[HalfDigits] = Half + 1 /\ Half \in Nat \ {0}
    /\ Full = Half * (Half + 2) /\ Full \in Nat \ {0}
  <1> DEFINE n == HalfDigits
             p == Power[n]
             W == {k \in 0..n : Power[n + k] = p * Power[k]}
  <1>1. n \in Nat \ {0} /\ 2 * n = n + n
    BY TargetsAssumption
  <1>2. /\ Power \in [0..(n + n) -> Nat \ {0}] /\ Power[0] = 1
        /\ \A k \in 1..(n + n) : Power[k] = 2 * Power[k - 1]
    BY <1>1, PowerDoubles
  <1> HIDE DEF n
  <1>3. p \in Nat \ {0}
    <2>1. n \in 0..(n + n)
      BY <1>1
    <2> QED BY <1>2, <2>1
  <1> HIDE DEF p
  <1>4. 0 \in W
    BY <1>1, <1>2, <1>3 DEF p
  <1>5. ASSUME NEW k \in 1..n, k - 1 \in W PROVE k \in W
    <2>1. k \in 0..n /\ k - 1 \in 0..(n + n) /\ n + k \in 1..(n + n) /\ k \in 1..(n + n) /\ (n + k) - 1 = n + (k - 1)
      BY <1>1
    <2>2. Power[n + k] = 2 * Power[n + (k - 1)] /\ Power[k] = 2 * Power[k - 1] /\ Power[n + (k - 1)] = p * Power[k - 1]
      BY <1>2, <1>5, <2>1
    <2> DEFINE q == Power[k - 1]
    <2>3. q \in Nat
      BY <1>2, <2>1
    <2> HIDE DEF q
    <2>4. 2 * (p * q) = p * (2 * q)
      BY <1>3, <2>3
    <2> QED BY <2>1, <2>2, <2>4 DEF q
  <1> HIDE DEF W
  <1>6. \A k \in 0..n : k \in W
    BY <1>1, <1>4, <1>5, UpTo
  <1>7. Power[n + n] = p * p
    BY <1>1, <1>6 DEF W, p
  <1>8. p >= 2
    <2>1. n \in 1..(n + n) /\ n - 1 \in 0..(n + n)
      BY <1>1
    <2>2. p = 2 * Power[n - 1] /\ Power[n - 1] \in Nat \ {0}
      BY <1>2, <2>1 DEF p
    <2> QED BY <2>2
  <1>9. Half = p - 1
    BY DEF Half, p, n
  <1>10. Full = p * p - 1
    BY <1>1, <1>7 DEF Full, n
  <1>11. p * p - 1 = (p - 1) * (p - 1 + 2)
    BY <1>3
  <1>12. p - 1 \in Nat \ {0} /\ p - 1 + 2 \in Nat \ {0}
    BY <1>3, <1>8
  <1> DEFINE h == p - 1
             g == h + 2
  <1>13. h * g \in Nat \ {0}
    <2>1. h \in Nat \ {0} /\ g \in Nat \ {0}
      BY <1>12
    <2> HIDE DEF h, g
    <2> QED BY <2>1
  <1> QED BY <1>3, <1>9, <1>10, <1>11, <1>12, <1>13 DEF p, n

(* n characters, of which some may be no digit, are a number of n digits.   *)
LEMMA HexBound ==
    ASSUME NEW n \in {HalfDigits, 2 * HalfDigits}, NEW in, \A i \in 1..n : in[i] \in {0, 1, NoDigit}
    PROVE  fromHex(in, n) \in 0..(Power[n] - 1)
  <1> DEFINE v == Values(in, n)
  <1>1. n \in Nat /\ n \in 0..(2 * HalfDigits) /\ n % 2 = 0
    BY TargetsAssumption
  <1>2. PICK m \in Nat : n = 2 * m
    <2>1. n = 2 * (n \div 2) /\ n \div 2 \in Nat
      BY <1>1
    <2> QED BY <2>1
  <1>3. \A k \in 0..n : Power[k] \in Nat \ {0}
    BY <1>1, PowerDoubles
  <1>4. ASSUME NEW i \in 1..n PROVE v[i] \in Nat /\ Place(i) \in 0..n /\ v[i] <= Power[Place(i)]
    <2>1. Place(i) \in 0..n
      <3>1. i % 2 = 1 \/ i >= 2
        BY <1>1
      <3> QED BY <1>1, <3>1 DEF Place
    <2>2. Power[Place(i)] \in Nat
      BY <1>3, <2>1
    <2>3. v[i] = 0 \/ (in[i] # NoDigit /\ v[i] = in[i] * Power[Place(i)])
      BY DEF Values
    <2>4. in[i] # NoDigit => in[i] = 0 \/ in[i] = 1
      OBVIOUS
    <2> DEFINE p == Power[Place(i)]
    <2> HIDE DEF p, v
    <2>5. v[i] = 0 \/ v[i] = 0 * p \/ v[i] = 1 * p
      BY <2>3, <2>4 DEF p
    <2>6. p \in Nat
      BY <2>2 DEF p
    <2>7. v[i] = 0 \/ v[i] = p
      BY <2>5, <2>6
    <2> QED BY <2>1, <2>6, <2>7 DEF p
  <1>5. v \in [1..n -> Nat] /\ IsFiniteSet(1..n)
    <2>1. v = [i \in 1..n |-> v[i]]
      BY DEF Values
    <2>2. IsFiniteSet(1..n)
      BY <1>1, FS_Interval
    <2> HIDE DEF v
    <2> QED BY <1>4, <2>1, <2>2
  <1>6. PICK sum : Adds(sum, 1..n, v) /\ sum[1..n] = SumFunctionOnSet(v, 1..n)
    <2> HIDE DEF v
    <2> QED BY <1>5, SumAdds
  <1>7. sum[1..n] = fromHex(in, n)
    BY <1>6 DEF fromHex
  <1> HIDE DEF v
  <1> DEFINE W == {k \in 0..m : sum[1..(2 * k)] <= Power[2 * k] - 1}
  <1>8. 0 \in W
    <2>1. 1..(2 * 0) = {} /\ 2 * 0 = 0 /\ Power[0] = 1
      BY PowerDoubles
    <2>2. sum[{}] = 0
      BY <1>6 DEF Adds
    <2>3. sum[1..(2 * 0)] <= Power[2 * 0] - 1
      BY <2>1, <2>2
    <2> QED BY <1>2, <2>3
  <1>9. ASSUME NEW k \in 1..m, k - 1 \in W PROVE k \in W
    <2> DEFINE b == 2 * k
               a == b - 1
               c == b - 2
    <2>1. /\ a \in 1..n /\ b \in 1..n /\ c \in 0..n /\ c = 2 * (k - 1) /\ k \in 0..m
          /\ a - 1 = c /\ b - 1 = a /\ a \in Nat /\ b \in Nat
      BY <1>1, <1>2
    <2>2. a % 2 = 1 /\ b % 2 = 0
      BY <1>2
    <2>3. Place(a) = a /\ Place(b) = c
      BY <2>2 DEF Place
    <2>4. sum[1..c] <= Power[c] - 1
      BY <1>9, <2>1
    <2> HIDE DEF a, b, c
    <2>5. Power[b] = 2 * Power[a] /\ Power[a] = 2 * Power[c] /\ Power[c] \in Nat
      <3>1. a \in 1..(2 * HalfDigits) /\ b \in 1..(2 * HalfDigits)
        BY <1>1, <2>1
      <3> QED BY <1>3, <2>1, <3>1, PowerDoubles
    <2>6. v[a] \in Nat /\ v[a] <= Power[a] /\ v[b] \in Nat /\ v[b] <= Power[c]
      BY <1>4, <2>1, <2>3
    <2>7. sum[1..b] = v[b] + sum[1..a]
      <3> DEFINE T == 1..b
      <3>1. T \in SUBSET (1..n) /\ b \in T /\ T \ {b} = 1..a
        BY <1>1, <2>1
      <3> HIDE DEF T
      <3>2. sum[T] = v[b] + sum[T \ {b}]
        BY <1>6, <3>1 DEF Adds
      <3> QED BY <3>1, <3>2 DEF T
    <2>8. sum[1..a] = v[a] + sum[1..c]
      <3> DEFINE T == 1..a
      <3>1. T \in SUBSET (1..n) /\ a \in T /\ T \ {a} = 1..c
        BY <1>1, <2>1
      <3> HIDE DEF T
      <3>2. sum[T] = v[a] + sum[T \ {a}]
        BY <1>6, <3>1 DEF Adds
      <3> QED BY <3>1, <3>2 DEF T
    <2>9. sum[1..c] \in Nat
      <3>1. 1..c \in SUBSET (1..n)
        BY <1>1, <2>1
      <3> QED BY <1>6, <3>1 DEF Adds
    <2>10. sum[1..b] <= Power[b] - 1
      BY <2>4, <2>5, <2>6, <2>7, <2>8, <2>9
    <2> QED BY <2>1, <2>10 DEF b
  <1> HIDE DEF W
  <1>10. m \in W
    <2>1. \A k \in 0..m : k \in W
      BY <1>8, <1>9, UpTo
    <2>2. m \in 0..m
      OBVIOUS
    <2> QED BY <2>1, <2>2
  <1>11. sum[1..n] \in Nat
    <2>1. 1..n \in SUBSET (1..n)
      OBVIOUS
    <2> QED BY <1>6, <2>1 DEF Adds
  <1>12. sum[1..n] <= Power[n] - 1
    BY <1>2, <1>10 DEF W
  <1>13. Power[n] \in Nat \ {0}
    BY <1>1, <1>3
  <1> QED BY <1>7, <1>11, <1>12, <1>13

(* The quotient of a division is the number of times that it goes.          *)
LEMMA Quotient ==
    ASSUME NEW a \in Nat, NEW b \in Nat \ {0}
    PROVE  a \div b \in Nat /\ b * (a \div b) <= a /\ a < b * (a \div b) + b
  OBVIOUS

(* It is less for a greater divisor.                                        *)
LEMMA QuotientFalls ==
    ASSUME NEW a \in Nat, NEW b \in Nat \ {0}, NEW d \in Nat \ {0}, b <= d
    PROVE  a \div d <= a \div b
  <1> DEFINE x == a \div b
             y == a \div d
  <1>1. x \in Nat /\ y \in Nat /\ a < b * x + b /\ d * y <= a
    BY Quotient
  <1> HIDE DEF x, y
  <1>2. SUFFICES ASSUME x < y PROVE FALSE
    BY <1>1 DEF x, y
  <1>3. PICK e \in Nat : y = x + 1 + e
    <2>1. y = x + 1 + (y - x - 1) /\ y - x - 1 \in Nat
      BY <1>1, <1>2
    <2> QED BY <2>1
  <1>4. PICK g \in Nat : d = b + g
    <2>1. d = b + (d - b) /\ d - b \in Nat
      OBVIOUS
    <2> QED BY <2>1
  <1>5. d * y = b * x + b + b * e + g * y
    BY <1>1, <1>3, <1>4
  <1>6. b * e \in Nat /\ g * y \in Nat /\ b * x \in Nat
    BY <1>1
  <1> QED BY <1>1, <1>5, <1>6

(* Widening a number of half the width keeps its difficulty.                *)
LEMMA WidenedKeeps ==
    ASSUME NEW d \in 1..Half
    PROVE  Full \div d \in Nat \ {0} /\ Full \div (Full \div d) = d
  <1> DEFINE q == Full \div d
             r == Full \div q
  <1>1. Full = Half * (Half + 2) /\ Half \in Nat /\ Full \in Nat /\ d \in Nat \ {0}
    BY Widths
  <1>2. q \in Nat /\ d * q <= Full /\ Full < d * q + d
    BY <1>1, Quotient
  <1> HIDE DEF q
  <1>3. q > d
    <2>1. SUFFICES ASSUME q <= d PROVE FALSE
      BY <1>1, <1>2
    <2>2. PICK e \in Nat : Half = d + e
      <3>1. Half = d + (Half - d) /\ Half - d \in Nat
        BY <1>1
      <3> QED BY <3>1
    <2>3. PICK g \in Nat : d = q + g
      <3>1. d = q + (d - q) /\ d - q \in Nat
        BY <1>1, <1>2, <2>1
      <3> QED BY <3>1
    <2>4. Full = d * q + d * g + d * e + e * d + e * e + 2 * d + 2 * e
      BY <1>1, <1>2, <2>2, <2>3
    <2>5. d * g \in Nat /\ d * e \in Nat /\ e * d \in Nat /\ e * e \in Nat /\ d * q \in Nat
      BY <1>1, <1>2
    <2> QED BY <1>1, <1>2, <2>4, <2>5
  <1>4. q \in Nat \ {0}
    BY <1>1, <1>2, <1>3
  <1>5. r \in Nat /\ q * r <= Full /\ Full < q * r + q
    BY <1>1, <1>4, Quotient
  <1> HIDE DEF r
  <1>6. d * q = q * d
    BY <1>1, <1>2
  <1>7. ~(r < d)
    <2>1. SUFFICES ASSUME r < d PROVE FALSE
      OBVIOUS
    <2>2. PICK e \in Nat : d = r + 1 + e
      <3>1. d = r + 1 + (d - r - 1) /\ d - r - 1 \in Nat
        BY <1>1, <1>5, <2>1
      <3> QED BY <3>1
    <2>3. q * d = q * r + q + q * e
      BY <1>2, <1>5, <2>2
    <2>4. q * e \in Nat /\ q * r \in Nat
      BY <1>2, <1>5
    <2> QED BY <1>1, <1>2, <1>5, <1>6, <2>3, <2>4
  <1>8. ~(r > d)
    <2>1. SUFFICES ASSUME r > d PROVE FALSE
      OBVIOUS
    <2>2. PICK e \in Nat : r = d + 1 + e
      <3>1. r = d + 1 + (r - d - 1) /\ r - d - 1 \in Nat
        BY <1>1, <1>5, <2>1
      <3> QED BY <3>1
    <2>3. q * r = q * d + q + q * e
      BY <1>2, <1>1, <2>2
    <2>4. q * e \in Nat /\ q * d \in Nat
      BY <1>1, <1>2
    <2> QED BY <1>1, <1>2, <1>3, <1>5, <1>6, <2>3, <2>4
  <1>9. r = d
    BY <1>1, <1>5, <1>7, <1>8
  <1> QED BY <1>4, <1>9 DEF q, r

-----------------------------------------------------------------------------
(* The inductive invariant of Targets: the difficulty is that of the target, and
   the target of a number of half the width is the one that this number asks
   for. *)
TargetsInv ==
    /\ text \in Seq({0, 1, NoDigit}) /\ stack \in [1..(2 * HalfDigits) -> {0, 1, NoDigit}]
    /\ word \in {-1} \cup (1..Full) /\ (word # -1 => result = "true")
    /\ result = "true" =>
        /\ m_target \in Nat \ {0} /\ m_diff = Full \div m_target
        /\ Len(text) = HalfDigits =>
            LET asked == Half \div fromHex(text, HalfDigits)
            IN  asked \in 1..Half /\ m_target = Full \div asked

(* A text of half the width is read as it is.                               *)
LEMMA ReadsText ==
    ASSUME text \in Seq({0, 1, NoDigit}), stack \in [1..(2 * HalfDigits) -> {0, 1, NoDigit}],
           NEW n \in {HalfDigits, 2 * HalfDigits}
    PROVE  /\ \A i \in 1..n : Read(n)[i] \in {0, 1, NoDigit}
           /\ Len(text) = n => Read(n) = text
  <1>1. n \in Nat /\ Len(text) \in Nat /\ \A i \in 1..n : i \in 1..(2 * HalfDigits)
    BY TargetsAssumption
  <1>2. ASSUME NEW i \in 1..n PROVE Read(n)[i] \in {0, 1, NoDigit}
    <2>1. Read(n)[i] = IF i <= Len(text) THEN text[i] ELSE stack[i]
      BY DEF Read
    <2>2. i <= Len(text) => text[i] \in {0, 1, NoDigit}
      BY <1>1
    <2>3. stack[i] \in {0, 1, NoDigit}
      BY <1>1
    <2> QED BY <2>1, <2>2, <2>3
  <1>3. ASSUME Len(text) = n PROVE Read(n) = text
    <2>1. text = [i \in 1..n |-> text[i]]
      BY <1>3
    <2>2. \A i \in 1..n : i <= Len(text)
      BY <1>1, <1>3
    <2> QED BY <2>1, <2>2 DEF Read
  <1> QED BY <1>2, <1>3

(* A number of half the width that is not 0 asks for a difficulty.          *)
LEMMA Asked ==
    ASSUME NEW number \in 1..Half
    PROVE  /\ Half \div number \in 1..Half
           /\ Widened(number) \in Nat \ {0} /\ Widened(number) = Full \div (Half \div number)
  <1> DEFINE d == Half \div number
  <1>1. Half \in Nat \ {0} /\ number \in Nat \ {0} /\ 1 \in Nat \ {0}
    BY Widths
  <1>2. d \in Nat /\ number * d <= Half /\ Half < number * d + number
    BY <1>1, Quotient
  <1> HIDE DEF d
  <1>3. d # 0
    <2>1. SUFFICES ASSUME d = 0 PROVE FALSE
      OBVIOUS
    <2>2. number * d = 0
      BY <1>1, <2>1
    <2> QED BY <1>1, <1>2, <2>2
  <1>4. d <= Half
    <2>1. PICK e \in Nat : number = 1 + e
      <3>1. number = 1 + (number - 1) /\ number - 1 \in Nat
        BY <1>1
      <3> QED BY <3>1
    <2>2. number * d = d + e * d /\ e * d \in Nat
      BY <1>2, <2>1
    <2> QED BY <1>1, <1>2, <2>2
  <1>5. d \in 1..Half
    BY <1>1, <1>2, <1>3, <1>4
  <1>6. Full \div d \in Nat \ {0}
    BY <1>5, WidenedKeeps
  <1> QED BY <1>5, <1>6 DEF d, Widened

(* setTarget keeps it.                                                      *)
LEMMA SetsTarget ==
    ASSUME TargetsInv, SetTarget
    PROVE  TargetsInv'
  <1> DEFINE n == IF Len(text) <= HalfDigits THEN HalfDigits ELSE 2 * HalfDigits
             in == Read(n)
             number == fromHex(in, n)
  <1>1. word = -1 /\ text' = text /\ stack' = stack /\ word' = word
    BY DEF TargetsInv, SetTarget
  <1>2. n \in {HalfDigits, 2 * HalfDigits} /\ HalfDigits # 2 * HalfDigits /\ (Len(text) = HalfDigits => n = HalfDigits)
    BY TargetsAssumption
  <1>3. SUFFICES ASSUME result' = "true"
                 PROVE  /\ m_target' \in Nat \ {0} /\ m_diff' = Full \div m_target'
                        /\ Len(text) = HalfDigits =>
                            /\ Half \div fromHex(text, HalfDigits) \in 1..Half
                            /\ m_target' = Full \div (Half \div fromHex(text, HalfDigits))
    BY <1>1 DEF TargetsInv
  <1>4. /\ number # 0 /\ m_diff' = Full \div m_target'
        /\ m_target' = IF n = HalfDigits THEN Widened(number) ELSE number
    BY <1>3 DEF SetTarget, toDiff
  <1> HIDE DEF n
  <1>5. number \in 0..(Power[n] - 1)
    <2>1. \A i \in 1..n : in[i] \in {0, 1, NoDigit}
      BY <1>2, ReadsText DEF TargetsInv
    <2> HIDE DEF in
    <2> QED BY <1>2, <2>1, HexBound
  <1>6. Power[n] \in Nat
    <2>1. n \in 0..(2 * HalfDigits)
      BY <1>2, TargetsAssumption
    <2> QED BY <2>1, PowerDoubles
  <1>7. Len(text) = HalfDigits => in = text
    BY <1>2, ReadsText DEF TargetsInv
  <1>8. Len(text) = HalfDigits => number = fromHex(text, HalfDigits)
    BY <1>2, <1>7
  <1> HIDE DEF number
  <1>9. CASE n = HalfDigits
    <2>1. number \in 1..Half
      BY <1>4, <1>5, <1>9, Widths
    <2>2. /\ Half \div number \in 1..Half /\ Widened(number) \in Nat \ {0}
          /\ Widened(number) = Full \div (Half \div number)
      BY <2>1, Asked
    <2> QED BY <1>4, <1>8, <1>9, <2>2
  <1>10. CASE n # HalfDigits
    <2>1. number \in Nat \ {0}
      BY <1>4, <1>5, <1>6
    <2> QED BY <1>2, <1>4, <1>10, <2>1
  <1> QED BY <1>9, <1>10

(* What a target asks for is what is counted, and its shares have it.       *)
LEMMA InvCounts == TargetsInv => CountsDifficulty
  <1> SUFFICES ASSUME TargetsInv PROVE CountsDifficulty
    OBVIOUS
  <1>1. Full \in Nat \ {0} /\ Half \in Nat \ {0}
    BY Widths
  <1>2. ASSUME result = "true", Len(text) = HalfDigits PROVE diff = Half \div fromHex(text, HalfDigits)
    <2> DEFINE d == Half \div fromHex(text, HalfDigits)
    <2>1. d \in 1..Half /\ m_target = Full \div d /\ m_diff = Full \div m_target
      BY <1>2 DEF TargetsInv
    <2> HIDE DEF d
    <2>2. m_diff = d
      BY <2>1, WidenedKeeps
    <2>3. \A h \in Nat : \A e \in 1..h : e % (h + 1) = e
      OBVIOUS
    <2>4. d % (Half + 1) = d
      BY <1>1, <2>1, <2>3
    <2> QED BY <2>2, <2>4 DEF diff, d
  <1>3. ASSUME word # -1, diff = m_diff
        PROVE  (IsShare => actualDiff >= diff) /\ (actualDiff > diff => IsShare)
    <2>1. m_target \in Nat \ {0} /\ m_diff = Full \div m_target /\ word \in Nat \ {0}
      BY <1>1, <1>3 DEF TargetsInv
    <2>2. word <= m_target => Full \div m_target <= Full \div word
      BY <1>1, <2>1, QuotientFalls
    <2>3. m_target <= word => Full \div word <= Full \div m_target
      BY <1>1, <2>1, QuotientFalls
    <2> DEFINE x == Full \div word
               y == Full \div m_target
    <2>4. x \in Nat /\ y \in Nat
      BY <1>1, <2>1, Quotient
    <2>5. actualDiff = x /\ diff = y
      BY <1>3, <2>1 DEF actualDiff, toDiff
    <2> HIDE DEF x, y
    <2>6. (word <= m_target => y <= x) /\ (m_target <= word => x <= y)
      BY <2>2, <2>3 DEF x, y
    <2> QED BY <2>1, <2>4, <2>5, <2>6 DEF IsShare
  <1> QED BY <1>2, <1>3 DEF CountsDifficulty, AsksDifficulty, SharesReachDifficulty

(* Whatever text a pool sends as the target and whatever the stack held, the
   difficulty that is shown and counted for a target of half the width is the one
   that the pool asked for, although setTarget widens the number and divides it
   again; and a hash is taken for a share of a target exactly where it has
   reached the difficulty. *)
THEOREM DifficultyCounts == TargetsSpec => []CountsDifficulty
  <1>1. TargetsInit => TargetsInv
    <2> SUFFICES ASSUME TargetsInit PROVE TargetsInv
      OBVIOUS
    <2>1. \A n \in Nat : \A f : f \in [1..n -> {0, 1, NoDigit}] => f \in Seq({0, 1, NoDigit})
      OBVIOUS
    <2>2. text \in Seq({0, 1, NoDigit})
      <3>1. PICK n \in Nat : text \in [1..n -> {0, 1, NoDigit}]
        <4>1. 3 \in Nat /\ HalfDigits \in Nat /\ 2 * HalfDigits + 1 \in Nat
          BY TargetsAssumption
        <4>2. CASE text \in Numbers
          <5>1. PICK n \in 0..(2 * HalfDigits) : text \in [1..n -> {0, 1}]
            BY <4>2 DEF Numbers
          <5>2. n \in Nat /\ text \in [1..n -> {0, 1, NoDigit}]
            BY <4>1, <5>1
          <5> QED BY <5>2
        <4>3. CASE text \in Texts(3)
          BY <4>1, <4>3 DEF Texts
        <4>4. CASE text \in Texts(HalfDigits)
          BY <4>1, <4>4 DEF Texts
        <4>5. CASE text = TooLong
          <5>1. text \in [1..(2 * HalfDigits + 1) -> {0, 1, NoDigit}]
            BY <4>5 DEF TooLong
          <5> QED BY <4>1, <5>1
        <4>6. text \in Sent
          BY DEF TargetsInit
        <4> QED BY <4>2, <4>3, <4>4, <4>5, <4>6 DEF Sent
      <3> QED BY <2>1, <3>1
    <2>3. stack \in [1..(2 * HalfDigits) -> {0, 1, NoDigit}]
      <3>1. PICK d \in {0, 1, NoDigit} : stack = [i \in 1..(2 * HalfDigits) |-> d]
        BY DEF TargetsInit
      <3> QED BY <3>1
    <2> QED BY <2>2, <2>3 DEF TargetsInit, TargetsInv
  <1>2. TargetsInv /\ [TargetsNext]_targetVars => TargetsInv'
    <2> SUFFICES ASSUME TargetsInv, [TargetsNext]_targetVars PROVE TargetsInv'
      OBVIOUS
    <2>1. CASE SetTarget
      BY <2>1, SetsTarget
    <2>2. CASE Hashed
      <3>1. UNCHANGED <<text, stack, result, m_target, m_diff>> /\ word' \in 1..Full /\ result = "true"
        BY <2>2 DEF Hashed
      <3> QED BY <3>1 DEF TargetsInv
    <2>3. CASE UNCHANGED targetVars
      BY <2>3 DEF targetVars, TargetsInv
    <2> QED BY <2>1, <2>2, <2>3 DEF TargetsNext
  <1> QED BY <1>1, <1>2, InvCounts, PTL DEF TargetsSpec

-----------------------------------------------------------------------------
(* The loops of MachineCode over any instructions: the interpreter, the text for
   a card, the generator of the machine code and the processor. *)
Interprets(s) == FoldLeft(Interpreted, InitialRegisters, s)
Performs(s) == FoldLeft(Performed, InitialRegisters, s)
Adding == [out |-> <<>>, rot |-> -1]
AddsAll(s) == FoldLeft(Added, Adding, s)
Executes(s) == FoldLeft(Executed, Machine, s)

(* The interpreter has values between its instructions.                      *)
LEMMA InterpretedFolds ==
    ASSUME NEW P, NEW s \in Seq(P)
    PROVE  \E F : /\ F[0] = InitialRegisters
                  /\ \A k \in 1..Len(s) : F[k] = Interpreted(F[k - 1], s[k])
                  /\ F[Len(s)] = Interprets(s)
  <1> DEFINE n == Len(s)
             base == InitialRegisters
             Equation(f) ==
                 f = [T \in SUBSET DOMAIN s |->
                         IF T = {} THEN base ELSE Interpreted(f[T \ {Max(T)}], s[Max(T)])]
             iter == CHOOSE f : Equation(f)
             To(f, k) ==
                 \A T \in SUBSET (1..k) :
                     f[T] = IF T = {} THEN base ELSE Interpreted(f[T \ {Max(T)}], s[Max(T)])
             W == {k \in 0..n : \E f : To(f, k)}
  <1>1. n \in Nat /\ DOMAIN s = 1..n
    BY LenProperties
  <1>2. Interprets(s) = iter[DOMAIN s]
    BY DEF Interprets, FoldLeft, MapThenFoldSet
  <1> HIDE DEF n, base
  <1>3. 0 \in W
    <2> DEFINE f == [T \in SUBSET (1..0) |-> base]
    <2>1. ASSUME NEW T \in SUBSET (1..0) PROVE f[T] = base /\ T = {}
      OBVIOUS
    <2> HIDE DEF f
    <2>2. To(f, 0)
      BY <2>1
    <2>3. 0 \in 0..n
      BY <1>1
    <2> HIDE DEF To
    <2> QED BY <2>2, <2>3
  <1>4. ASSUME NEW k \in 1..n, k - 1 \in W PROVE k \in W
    <2>1. PICK f : To(f, k - 1)
      BY <1>4
    <2>2. k \in Nat \ {0} /\ k \in 0..n
      BY <1>1
    <2> DEFINE S == 1..k
               R == 1..(k - 1)
               h == [T \in SUBSET S |-> IF T \in SUBSET R THEN f[T] ELSE Interpreted(f[T \ {k}], s[k])]
    <2>3. ASSUME NEW T \in SUBSET S
          PROVE  h[T] = IF T \in SUBSET R THEN f[T] ELSE Interpreted(f[T \ {k}], s[k])
      OBVIOUS
    <2> HIDE DEF h
    <2>4. ASSUME NEW T \in SUBSET S
          PROVE  h[T] = IF T = {} THEN base ELSE Interpreted(h[T \ {Max(T)}], s[Max(T)])
      <3>1. CASE T = {}
        <4>1. T \in SUBSET R
          BY <3>1
        <4> QED BY <2>1, <2>3, <3>1, <4>1
      <3>2. CASE T # {} /\ T \in SUBSET R
        <4>1. T \ {Max(T)} \in SUBSET R /\ T \ {Max(T)} \in SUBSET S
          BY <3>2
        <4>2. h[T] = f[T] /\ h[T \ {Max(T)}] = f[T \ {Max(T)}]
          BY <2>3, <3>2, <4>1
        <4>3. f[T] = Interpreted(f[T \ {Max(T)}], s[Max(T)])
          BY <2>1, <3>2
        <4> QED BY <3>2, <4>2, <4>3
      <3>3. CASE T \notin SUBSET R
        <4>1. k \in T /\ T # {}
          <5>1. PICK y \in T : y \notin R
            BY <3>3
          <5> QED BY <2>2, <5>1
        <4>2. Max(T) = k
          <5>1. Max(T) \in T /\ \A y \in T : y <= Max(T)
            BY <2>2, <4>1, MaximumOf
          <5> DEFINE m == Max(T)
          <5> HIDE DEF m
          <5>2. m \in 1..k /\ k <= m
            BY <4>1, <5>1 DEF m
          <5>3. m = k
            BY <2>2, <5>2
          <5> QED BY <5>3 DEF m
        <4>3. T \ {k} \in SUBSET R /\ T \ {k} \in SUBSET S
          BY <2>2
        <4>4. h[T \ {k}] = f[T \ {k}]
          BY <2>3, <4>3
        <4>5. h[T] = Interpreted(f[T \ {k}], s[k])
          BY <2>3, <3>3
        <4> QED BY <4>1, <4>2, <4>4, <4>5
      <3> QED BY <3>1, <3>2, <3>3
    <2>5. To(h, k)
      BY <2>4
    <2> QED BY <2>2, <2>5
  <1>5. n \in W
    <2> HIDE DEF W
    <2>1. \A k \in 0..n : k \in W
      BY <1>1, <1>3, <1>4, UpTo
    <2> QED BY <1>1, <2>1
  <1>6. PICK f : To(f, n)
    BY <1>5
  <1>7. Equation([T \in SUBSET (1..n) |-> f[T]])
    <2> DEFINE g == [T \in SUBSET (1..n) |-> f[T]]
    <2>1. ASSUME NEW T \in SUBSET (1..n)
          PROVE  g[T] = IF T = {} THEN base ELSE Interpreted(g[T \ {Max(T)}], s[Max(T)])
      <3>1. T \ {Max(T)} \in SUBSET (1..n)
        OBVIOUS
      <3>2. g[T] = f[T] /\ g[T \ {Max(T)}] = f[T \ {Max(T)}]
        BY <3>1
      <3> HIDE DEF g
      <3> QED BY <1>6, <3>2
    <2>2. g = [T \in SUBSET (1..n) |-> g[T]]
      OBVIOUS
    <2> HIDE DEF g
    <2>3. g = [T \in SUBSET (1..n) |-> IF T = {} THEN base ELSE Interpreted(g[T \ {Max(T)}], s[Max(T)])]
      BY <2>1, <2>2
    <2> QED BY <1>1, <2>3 DEF g
  <1>8. Equation(iter)
    <2> HIDE DEF Equation
    <2> QED BY <1>7
  <1> DEFINE F == [k \in 0..n |-> iter[1..k]]
  <1> HIDE DEF iter
  <1>9. \A T \in SUBSET (1..n) : iter[T] = IF T = {} THEN base ELSE Interpreted(iter[T \ {Max(T)}], s[Max(T)])
    BY <1>1, <1>8
  <1>10. F[0] = base
    <2>1. 1..0 = {} /\ 1..0 \in SUBSET (1..n) /\ 0 \in 0..n
      BY <1>1
    <2> QED BY <1>9, <2>1
  <1>11. ASSUME NEW k \in 1..n PROVE F[k] = Interpreted(F[k - 1], s[k])
    <2> DEFINE T == 1..k
    <2>1. Max(T) = k /\ T \ {k} = 1..(k - 1) /\ T # {}
      <3>1. k \in Nat \ {0}
        BY <1>1
      <3> QED BY <3>1, MaxOfInterval, Zenon
    <2>2. T \in SUBSET (1..n) /\ k - 1 \in 0..n /\ k \in 0..n
      BY <1>1
    <2> HIDE DEF T
    <2>3. iter[T] = IF T = {} THEN base ELSE Interpreted(iter[T \ {Max(T)}], s[Max(T)])
      BY <1>9, <2>2
    <2> QED BY <2>1, <2>2, <2>3 DEF T
  <1>12. F[n] = Interprets(s)
    BY <1>1, <1>2
  <1> QED BY <1>10, <1>11, <1>12 DEF n, base

(* ... and only those.                                                       *)
LEMMA InterpretedOnce ==
    ASSUME NEW P, NEW s \in Seq(P), NEW F, F[0] = InitialRegisters,
           \A k \in 1..Len(s) : F[k] = Interpreted(F[k - 1], s[k])
    PROVE  Interprets(s) = F[Len(s)]
  <1>1. PICK H : /\ H[0] = InitialRegisters
                 /\ \A k \in 1..Len(s) : H[k] = Interpreted(H[k - 1], s[k])
                 /\ H[Len(s)] = Interprets(s)
    BY InterpretedFolds
  <1> DEFINE n == Len(s)
             W == {k \in 0..n : F[k] = H[k]}
  <1>2. n \in Nat
    BY LenProperties
  <1> HIDE DEF n
  <1>3. 0 \in W
    BY <1>1, <1>2
  <1>4. ASSUME NEW k \in 1..n, k - 1 \in W PROVE k \in W
    <2>1. k \in 0..n /\ F[k - 1] = H[k - 1]
      BY <1>2, <1>4
    <2>2. F[k] = Interpreted(F[k - 1], s[k]) /\ H[k] = Interpreted(H[k - 1], s[k])
      BY <1>1 DEF n
    <2> QED BY <2>1, <2>2
  <1>5. \A k \in 0..n : k \in W
    <2> HIDE DEF W
    <2> QED BY <1>2, <1>3, <1>4, UpTo
  <1>6. F[n] = H[n]
    BY <1>2, <1>5
  <1> QED BY <1>1, <1>6 DEF n


(* So has the text for a card.                                               *)
LEMMA PerformedFolds ==
    ASSUME NEW P, NEW s \in Seq(P)
    PROVE  \E F : /\ F[0] = InitialRegisters
                  /\ \A k \in 1..Len(s) : F[k] = Performed(F[k - 1], s[k])
                  /\ F[Len(s)] = Performs(s)
  <1> DEFINE n == Len(s)
             base == InitialRegisters
             Equation(f) ==
                 f = [T \in SUBSET DOMAIN s |->
                         IF T = {} THEN base ELSE Performed(f[T \ {Max(T)}], s[Max(T)])]
             iter == CHOOSE f : Equation(f)
             To(f, k) ==
                 \A T \in SUBSET (1..k) :
                     f[T] = IF T = {} THEN base ELSE Performed(f[T \ {Max(T)}], s[Max(T)])
             W == {k \in 0..n : \E f : To(f, k)}
  <1>1. n \in Nat /\ DOMAIN s = 1..n
    BY LenProperties
  <1>2. Performs(s) = iter[DOMAIN s]
    BY DEF Performs, FoldLeft, MapThenFoldSet
  <1> HIDE DEF n, base
  <1>3. 0 \in W
    <2> DEFINE f == [T \in SUBSET (1..0) |-> base]
    <2>1. ASSUME NEW T \in SUBSET (1..0) PROVE f[T] = base /\ T = {}
      OBVIOUS
    <2> HIDE DEF f
    <2>2. To(f, 0)
      BY <2>1
    <2>3. 0 \in 0..n
      BY <1>1
    <2> HIDE DEF To
    <2> QED BY <2>2, <2>3
  <1>4. ASSUME NEW k \in 1..n, k - 1 \in W PROVE k \in W
    <2>1. PICK f : To(f, k - 1)
      BY <1>4
    <2>2. k \in Nat \ {0} /\ k \in 0..n
      BY <1>1
    <2> DEFINE S == 1..k
               R == 1..(k - 1)
               h == [T \in SUBSET S |-> IF T \in SUBSET R THEN f[T] ELSE Performed(f[T \ {k}], s[k])]
    <2>3. ASSUME NEW T \in SUBSET S
          PROVE  h[T] = IF T \in SUBSET R THEN f[T] ELSE Performed(f[T \ {k}], s[k])
      OBVIOUS
    <2> HIDE DEF h
    <2>4. ASSUME NEW T \in SUBSET S
          PROVE  h[T] = IF T = {} THEN base ELSE Performed(h[T \ {Max(T)}], s[Max(T)])
      <3>1. CASE T = {}
        <4>1. T \in SUBSET R
          BY <3>1
        <4> QED BY <2>1, <2>3, <3>1, <4>1
      <3>2. CASE T # {} /\ T \in SUBSET R
        <4>1. T \ {Max(T)} \in SUBSET R /\ T \ {Max(T)} \in SUBSET S
          BY <3>2
        <4>2. h[T] = f[T] /\ h[T \ {Max(T)}] = f[T \ {Max(T)}]
          BY <2>3, <3>2, <4>1
        <4>3. f[T] = Performed(f[T \ {Max(T)}], s[Max(T)])
          BY <2>1, <3>2
        <4> QED BY <3>2, <4>2, <4>3
      <3>3. CASE T \notin SUBSET R
        <4>1. k \in T /\ T # {}
          <5>1. PICK y \in T : y \notin R
            BY <3>3
          <5> QED BY <2>2, <5>1
        <4>2. Max(T) = k
          <5>1. Max(T) \in T /\ \A y \in T : y <= Max(T)
            BY <2>2, <4>1, MaximumOf
          <5> DEFINE m == Max(T)
          <5> HIDE DEF m
          <5>2. m \in 1..k /\ k <= m
            BY <4>1, <5>1 DEF m
          <5>3. m = k
            BY <2>2, <5>2
          <5> QED BY <5>3 DEF m
        <4>3. T \ {k} \in SUBSET R /\ T \ {k} \in SUBSET S
          BY <2>2
        <4>4. h[T \ {k}] = f[T \ {k}]
          BY <2>3, <4>3
        <4>5. h[T] = Performed(f[T \ {k}], s[k])
          BY <2>3, <3>3
        <4> QED BY <4>1, <4>2, <4>4, <4>5
      <3> QED BY <3>1, <3>2, <3>3
    <2>5. To(h, k)
      BY <2>4
    <2> QED BY <2>2, <2>5
  <1>5. n \in W
    <2> HIDE DEF W
    <2>1. \A k \in 0..n : k \in W
      BY <1>1, <1>3, <1>4, UpTo
    <2> QED BY <1>1, <2>1
  <1>6. PICK f : To(f, n)
    BY <1>5
  <1>7. Equation([T \in SUBSET (1..n) |-> f[T]])
    <2> DEFINE g == [T \in SUBSET (1..n) |-> f[T]]
    <2>1. ASSUME NEW T \in SUBSET (1..n)
          PROVE  g[T] = IF T = {} THEN base ELSE Performed(g[T \ {Max(T)}], s[Max(T)])
      <3>1. T \ {Max(T)} \in SUBSET (1..n)
        OBVIOUS
      <3>2. g[T] = f[T] /\ g[T \ {Max(T)}] = f[T \ {Max(T)}]
        BY <3>1
      <3> HIDE DEF g
      <3> QED BY <1>6, <3>2
    <2>2. g = [T \in SUBSET (1..n) |-> g[T]]
      OBVIOUS
    <2> HIDE DEF g
    <2>3. g = [T \in SUBSET (1..n) |-> IF T = {} THEN base ELSE Performed(g[T \ {Max(T)}], s[Max(T)])]
      BY <2>1, <2>2
    <2> QED BY <1>1, <2>3 DEF g
  <1>8. Equation(iter)
    <2> HIDE DEF Equation
    <2> QED BY <1>7
  <1> DEFINE F == [k \in 0..n |-> iter[1..k]]
  <1> HIDE DEF iter
  <1>9. \A T \in SUBSET (1..n) : iter[T] = IF T = {} THEN base ELSE Performed(iter[T \ {Max(T)}], s[Max(T)])
    BY <1>1, <1>8
  <1>10. F[0] = base
    <2>1. 1..0 = {} /\ 1..0 \in SUBSET (1..n) /\ 0 \in 0..n
      BY <1>1
    <2> QED BY <1>9, <2>1
  <1>11. ASSUME NEW k \in 1..n PROVE F[k] = Performed(F[k - 1], s[k])
    <2> DEFINE T == 1..k
    <2>1. Max(T) = k /\ T \ {k} = 1..(k - 1) /\ T # {}
      <3>1. k \in Nat \ {0}
        BY <1>1
      <3> QED BY <3>1, MaxOfInterval, Zenon
    <2>2. T \in SUBSET (1..n) /\ k - 1 \in 0..n /\ k \in 0..n
      BY <1>1
    <2> HIDE DEF T
    <2>3. iter[T] = IF T = {} THEN base ELSE Performed(iter[T \ {Max(T)}], s[Max(T)])
      BY <1>9, <2>2
    <2> QED BY <2>1, <2>2, <2>3 DEF T
  <1>12. F[n] = Performs(s)
    BY <1>1, <1>2
  <1> QED BY <1>10, <1>11, <1>12 DEF n, base

(* ... and only those.                                                       *)
LEMMA PerformedOnce ==
    ASSUME NEW P, NEW s \in Seq(P), NEW F, F[0] = InitialRegisters,
           \A k \in 1..Len(s) : F[k] = Performed(F[k - 1], s[k])
    PROVE  Performs(s) = F[Len(s)]
  <1>1. PICK H : /\ H[0] = InitialRegisters
                 /\ \A k \in 1..Len(s) : H[k] = Performed(H[k - 1], s[k])
                 /\ H[Len(s)] = Performs(s)
    BY PerformedFolds
  <1> DEFINE n == Len(s)
             W == {k \in 0..n : F[k] = H[k]}
  <1>2. n \in Nat
    BY LenProperties
  <1> HIDE DEF n
  <1>3. 0 \in W
    BY <1>1, <1>2
  <1>4. ASSUME NEW k \in 1..n, k - 1 \in W PROVE k \in W
    <2>1. k \in 0..n /\ F[k - 1] = H[k - 1]
      BY <1>2, <1>4
    <2>2. F[k] = Performed(F[k - 1], s[k]) /\ H[k] = Performed(H[k - 1], s[k])
      BY <1>1 DEF n
    <2> QED BY <2>1, <2>2
  <1>5. \A k \in 0..n : k \in W
    <2> HIDE DEF W
    <2> QED BY <1>2, <1>3, <1>4, UpTo
  <1>6. F[n] = H[n]
    BY <1>2, <1>5
  <1> QED BY <1>1, <1>6 DEF n


(* So has the generator of the machine code.                                 *)
LEMMA AddedFolds ==
    ASSUME NEW P, NEW s \in Seq(P)
    PROVE  \E F : /\ F[0] = Adding
                  /\ \A k \in 1..Len(s) : F[k] = Added(F[k - 1], s[k])
                  /\ F[Len(s)] = AddsAll(s)
  <1> DEFINE n == Len(s)
             base == Adding
             Equation(f) ==
                 f = [T \in SUBSET DOMAIN s |->
                         IF T = {} THEN base ELSE Added(f[T \ {Max(T)}], s[Max(T)])]
             iter == CHOOSE f : Equation(f)
             To(f, k) ==
                 \A T \in SUBSET (1..k) :
                     f[T] = IF T = {} THEN base ELSE Added(f[T \ {Max(T)}], s[Max(T)])
             W == {k \in 0..n : \E f : To(f, k)}
  <1>1. n \in Nat /\ DOMAIN s = 1..n
    BY LenProperties
  <1>2. AddsAll(s) = iter[DOMAIN s]
    BY DEF AddsAll, FoldLeft, MapThenFoldSet
  <1> HIDE DEF n, base
  <1>3. 0 \in W
    <2> DEFINE f == [T \in SUBSET (1..0) |-> base]
    <2>1. ASSUME NEW T \in SUBSET (1..0) PROVE f[T] = base /\ T = {}
      OBVIOUS
    <2> HIDE DEF f
    <2>2. To(f, 0)
      BY <2>1
    <2>3. 0 \in 0..n
      BY <1>1
    <2> HIDE DEF To
    <2> QED BY <2>2, <2>3
  <1>4. ASSUME NEW k \in 1..n, k - 1 \in W PROVE k \in W
    <2>1. PICK f : To(f, k - 1)
      BY <1>4
    <2>2. k \in Nat \ {0} /\ k \in 0..n
      BY <1>1
    <2> DEFINE S == 1..k
               R == 1..(k - 1)
               h == [T \in SUBSET S |-> IF T \in SUBSET R THEN f[T] ELSE Added(f[T \ {k}], s[k])]
    <2>3. ASSUME NEW T \in SUBSET S
          PROVE  h[T] = IF T \in SUBSET R THEN f[T] ELSE Added(f[T \ {k}], s[k])
      OBVIOUS
    <2> HIDE DEF h
    <2>4. ASSUME NEW T \in SUBSET S
          PROVE  h[T] = IF T = {} THEN base ELSE Added(h[T \ {Max(T)}], s[Max(T)])
      <3>1. CASE T = {}
        <4>1. T \in SUBSET R
          BY <3>1
        <4> QED BY <2>1, <2>3, <3>1, <4>1
      <3>2. CASE T # {} /\ T \in SUBSET R
        <4>1. T \ {Max(T)} \in SUBSET R /\ T \ {Max(T)} \in SUBSET S
          BY <3>2
        <4>2. h[T] = f[T] /\ h[T \ {Max(T)}] = f[T \ {Max(T)}]
          BY <2>3, <3>2, <4>1
        <4>3. f[T] = Added(f[T \ {Max(T)}], s[Max(T)])
          BY <2>1, <3>2
        <4> QED BY <3>2, <4>2, <4>3
      <3>3. CASE T \notin SUBSET R
        <4>1. k \in T /\ T # {}
          <5>1. PICK y \in T : y \notin R
            BY <3>3
          <5> QED BY <2>2, <5>1
        <4>2. Max(T) = k
          <5>1. Max(T) \in T /\ \A y \in T : y <= Max(T)
            BY <2>2, <4>1, MaximumOf
          <5> DEFINE m == Max(T)
          <5> HIDE DEF m
          <5>2. m \in 1..k /\ k <= m
            BY <4>1, <5>1 DEF m
          <5>3. m = k
            BY <2>2, <5>2
          <5> QED BY <5>3 DEF m
        <4>3. T \ {k} \in SUBSET R /\ T \ {k} \in SUBSET S
          BY <2>2
        <4>4. h[T \ {k}] = f[T \ {k}]
          BY <2>3, <4>3
        <4>5. h[T] = Added(f[T \ {k}], s[k])
          BY <2>3, <3>3
        <4> QED BY <4>1, <4>2, <4>4, <4>5
      <3> QED BY <3>1, <3>2, <3>3
    <2>5. To(h, k)
      BY <2>4
    <2> QED BY <2>2, <2>5
  <1>5. n \in W
    <2> HIDE DEF W
    <2>1. \A k \in 0..n : k \in W
      BY <1>1, <1>3, <1>4, UpTo
    <2> QED BY <1>1, <2>1
  <1>6. PICK f : To(f, n)
    BY <1>5
  <1>7. Equation([T \in SUBSET (1..n) |-> f[T]])
    <2> DEFINE g == [T \in SUBSET (1..n) |-> f[T]]
    <2>1. ASSUME NEW T \in SUBSET (1..n)
          PROVE  g[T] = IF T = {} THEN base ELSE Added(g[T \ {Max(T)}], s[Max(T)])
      <3>1. T \ {Max(T)} \in SUBSET (1..n)
        OBVIOUS
      <3>2. g[T] = f[T] /\ g[T \ {Max(T)}] = f[T \ {Max(T)}]
        BY <3>1
      <3> HIDE DEF g
      <3> QED BY <1>6, <3>2
    <2>2. g = [T \in SUBSET (1..n) |-> g[T]]
      OBVIOUS
    <2> HIDE DEF g
    <2>3. g = [T \in SUBSET (1..n) |-> IF T = {} THEN base ELSE Added(g[T \ {Max(T)}], s[Max(T)])]
      BY <2>1, <2>2
    <2> QED BY <1>1, <2>3 DEF g
  <1>8. Equation(iter)
    <2> HIDE DEF Equation
    <2> QED BY <1>7
  <1> DEFINE F == [k \in 0..n |-> iter[1..k]]
  <1> HIDE DEF iter
  <1>9. \A T \in SUBSET (1..n) : iter[T] = IF T = {} THEN base ELSE Added(iter[T \ {Max(T)}], s[Max(T)])
    BY <1>1, <1>8
  <1>10. F[0] = base
    <2>1. 1..0 = {} /\ 1..0 \in SUBSET (1..n) /\ 0 \in 0..n
      BY <1>1
    <2> QED BY <1>9, <2>1
  <1>11. ASSUME NEW k \in 1..n PROVE F[k] = Added(F[k - 1], s[k])
    <2> DEFINE T == 1..k
    <2>1. Max(T) = k /\ T \ {k} = 1..(k - 1) /\ T # {}
      <3>1. k \in Nat \ {0}
        BY <1>1
      <3> QED BY <3>1, MaxOfInterval, Zenon
    <2>2. T \in SUBSET (1..n) /\ k - 1 \in 0..n /\ k \in 0..n
      BY <1>1
    <2> HIDE DEF T
    <2>3. iter[T] = IF T = {} THEN base ELSE Added(iter[T \ {Max(T)}], s[Max(T)])
      BY <1>9, <2>2
    <2> QED BY <2>1, <2>2, <2>3 DEF T
  <1>12. F[n] = AddsAll(s)
    BY <1>1, <1>2
  <1> QED BY <1>10, <1>11, <1>12 DEF n, base


(* So has the processor.                                                     *)
LEMMA ExecutedFolds ==
    ASSUME NEW P, NEW s \in Seq(P)
    PROVE  \E F : /\ F[0] = Machine
                  /\ \A k \in 1..Len(s) : F[k] = Executed(F[k - 1], s[k])
                  /\ F[Len(s)] = Executes(s)
  <1> DEFINE n == Len(s)
             base == Machine
             Equation(f) ==
                 f = [T \in SUBSET DOMAIN s |->
                         IF T = {} THEN base ELSE Executed(f[T \ {Max(T)}], s[Max(T)])]
             iter == CHOOSE f : Equation(f)
             To(f, k) ==
                 \A T \in SUBSET (1..k) :
                     f[T] = IF T = {} THEN base ELSE Executed(f[T \ {Max(T)}], s[Max(T)])
             W == {k \in 0..n : \E f : To(f, k)}
  <1>1. n \in Nat /\ DOMAIN s = 1..n
    BY LenProperties
  <1>2. Executes(s) = iter[DOMAIN s]
    BY DEF Executes, FoldLeft, MapThenFoldSet
  <1> HIDE DEF n, base
  <1>3. 0 \in W
    <2> DEFINE f == [T \in SUBSET (1..0) |-> base]
    <2>1. ASSUME NEW T \in SUBSET (1..0) PROVE f[T] = base /\ T = {}
      OBVIOUS
    <2> HIDE DEF f
    <2>2. To(f, 0)
      BY <2>1
    <2>3. 0 \in 0..n
      BY <1>1
    <2> HIDE DEF To
    <2> QED BY <2>2, <2>3
  <1>4. ASSUME NEW k \in 1..n, k - 1 \in W PROVE k \in W
    <2>1. PICK f : To(f, k - 1)
      BY <1>4
    <2>2. k \in Nat \ {0} /\ k \in 0..n
      BY <1>1
    <2> DEFINE S == 1..k
               R == 1..(k - 1)
               h == [T \in SUBSET S |-> IF T \in SUBSET R THEN f[T] ELSE Executed(f[T \ {k}], s[k])]
    <2>3. ASSUME NEW T \in SUBSET S
          PROVE  h[T] = IF T \in SUBSET R THEN f[T] ELSE Executed(f[T \ {k}], s[k])
      OBVIOUS
    <2> HIDE DEF h
    <2>4. ASSUME NEW T \in SUBSET S
          PROVE  h[T] = IF T = {} THEN base ELSE Executed(h[T \ {Max(T)}], s[Max(T)])
      <3>1. CASE T = {}
        <4>1. T \in SUBSET R
          BY <3>1
        <4> QED BY <2>1, <2>3, <3>1, <4>1
      <3>2. CASE T # {} /\ T \in SUBSET R
        <4>1. T \ {Max(T)} \in SUBSET R /\ T \ {Max(T)} \in SUBSET S
          BY <3>2
        <4>2. h[T] = f[T] /\ h[T \ {Max(T)}] = f[T \ {Max(T)}]
          BY <2>3, <3>2, <4>1
        <4>3. f[T] = Executed(f[T \ {Max(T)}], s[Max(T)])
          BY <2>1, <3>2
        <4> QED BY <3>2, <4>2, <4>3
      <3>3. CASE T \notin SUBSET R
        <4>1. k \in T /\ T # {}
          <5>1. PICK y \in T : y \notin R
            BY <3>3
          <5> QED BY <2>2, <5>1
        <4>2. Max(T) = k
          <5>1. Max(T) \in T /\ \A y \in T : y <= Max(T)
            BY <2>2, <4>1, MaximumOf
          <5> DEFINE m == Max(T)
          <5> HIDE DEF m
          <5>2. m \in 1..k /\ k <= m
            BY <4>1, <5>1 DEF m
          <5>3. m = k
            BY <2>2, <5>2
          <5> QED BY <5>3 DEF m
        <4>3. T \ {k} \in SUBSET R /\ T \ {k} \in SUBSET S
          BY <2>2
        <4>4. h[T \ {k}] = f[T \ {k}]
          BY <2>3, <4>3
        <4>5. h[T] = Executed(f[T \ {k}], s[k])
          BY <2>3, <3>3
        <4> QED BY <4>1, <4>2, <4>4, <4>5
      <3> QED BY <3>1, <3>2, <3>3
    <2>5. To(h, k)
      BY <2>4
    <2> QED BY <2>2, <2>5
  <1>5. n \in W
    <2> HIDE DEF W
    <2>1. \A k \in 0..n : k \in W
      BY <1>1, <1>3, <1>4, UpTo
    <2> QED BY <1>1, <2>1
  <1>6. PICK f : To(f, n)
    BY <1>5
  <1>7. Equation([T \in SUBSET (1..n) |-> f[T]])
    <2> DEFINE g == [T \in SUBSET (1..n) |-> f[T]]
    <2>1. ASSUME NEW T \in SUBSET (1..n)
          PROVE  g[T] = IF T = {} THEN base ELSE Executed(g[T \ {Max(T)}], s[Max(T)])
      <3>1. T \ {Max(T)} \in SUBSET (1..n)
        OBVIOUS
      <3>2. g[T] = f[T] /\ g[T \ {Max(T)}] = f[T \ {Max(T)}]
        BY <3>1
      <3> HIDE DEF g
      <3> QED BY <1>6, <3>2
    <2>2. g = [T \in SUBSET (1..n) |-> g[T]]
      OBVIOUS
    <2> HIDE DEF g
    <2>3. g = [T \in SUBSET (1..n) |-> IF T = {} THEN base ELSE Executed(g[T \ {Max(T)}], s[Max(T)])]
      BY <2>1, <2>2
    <2> QED BY <1>1, <2>3 DEF g
  <1>8. Equation(iter)
    <2> HIDE DEF Equation
    <2> QED BY <1>7
  <1> DEFINE F == [k \in 0..n |-> iter[1..k]]
  <1> HIDE DEF iter
  <1>9. \A T \in SUBSET (1..n) : iter[T] = IF T = {} THEN base ELSE Executed(iter[T \ {Max(T)}], s[Max(T)])
    BY <1>1, <1>8
  <1>10. F[0] = base
    <2>1. 1..0 = {} /\ 1..0 \in SUBSET (1..n) /\ 0 \in 0..n
      BY <1>1
    <2> QED BY <1>9, <2>1
  <1>11. ASSUME NEW k \in 1..n PROVE F[k] = Executed(F[k - 1], s[k])
    <2> DEFINE T == 1..k
    <2>1. Max(T) = k /\ T \ {k} = 1..(k - 1) /\ T # {}
      <3>1. k \in Nat \ {0}
        BY <1>1
      <3> QED BY <3>1, MaxOfInterval, Zenon
    <2>2. T \in SUBSET (1..n) /\ k - 1 \in 0..n /\ k \in 0..n
      BY <1>1
    <2> HIDE DEF T
    <2>3. iter[T] = IF T = {} THEN base ELSE Executed(iter[T \ {Max(T)}], s[Max(T)])
      BY <1>9, <2>2
    <2> QED BY <2>1, <2>2, <2>3 DEF T
  <1>12. F[n] = Executes(s)
    BY <1>1, <1>2
  <1> QED BY <1>10, <1>11, <1>12 DEF n, base

(* ... and only those.                                                       *)
LEMMA ExecutedOnce ==
    ASSUME NEW P, NEW s \in Seq(P), NEW F, F[0] = Machine,
           \A k \in 1..Len(s) : F[k] = Executed(F[k - 1], s[k])
    PROVE  Executes(s) = F[Len(s)]
  <1>1. PICK H : /\ H[0] = Machine
                 /\ \A k \in 1..Len(s) : H[k] = Executed(H[k - 1], s[k])
                 /\ H[Len(s)] = Executes(s)
    BY ExecutedFolds
  <1> DEFINE n == Len(s)
             W == {k \in 0..n : F[k] = H[k]}
  <1>2. n \in Nat
    BY LenProperties
  <1> HIDE DEF n
  <1>3. 0 \in W
    BY <1>1, <1>2
  <1>4. ASSUME NEW k \in 1..n, k - 1 \in W PROVE k \in W
    <2>1. k \in 0..n /\ F[k - 1] = H[k - 1]
      BY <1>2, <1>4
    <2>2. F[k] = Executed(F[k - 1], s[k]) /\ H[k] = Executed(H[k - 1], s[k])
      BY <1>1 DEF n
    <2> QED BY <2>1, <2>2
  <1>5. \A k \in 0..n : k \in W
    <2> HIDE DEF W
    <2> QED BY <1>2, <1>3, <1>4, UpTo
  <1>6. F[n] = H[n]
    BY <1>2, <1>5
  <1> QED BY <1>1, <1>6 DEF n

(* One instruction more is run after the others.                            *)
LEMMA ExecutesMore ==
    ASSUME NEW P, NEW s \in Seq(P), NEW x \in P
    PROVE  Executes(Append(s, x)) = Executed(Executes(s), x)
  <1> DEFINE a == Append(s, x)
             n == Len(s)
  <1>1. a \in Seq(P) /\ n \in Nat /\ Len(a) = n + 1 /\ a[n + 1] = x /\ \A k \in 1..n : a[k] = s[k]
    OBVIOUS
  <1> HIDE DEF a
  <1>2. PICK F : F[0] = Machine /\ (\A k \in 1..Len(a) : F[k] = Executed(F[k - 1], a[k]))
             /\ F[Len(a)] = Executes(a)
    BY <1>1, ExecutedFolds
  <1>3. F[n + 1] = Executed(F[n], x) /\ F[n + 1] = Executes(a)
    <2>1. n + 1 \in 1..Len(a) /\ (n + 1) - 1 = n
      BY <1>1
    <2> QED BY <1>1, <1>2, <2>1
  <1>4. \A k \in 1..n : F[k] = Executed(F[k - 1], s[k])
    <2>1. \A k \in 1..n : k \in 1..Len(a)
      BY <1>1
    <2> QED BY <1>1, <1>2, <2>1
  <1>5. Executes(s) = F[n]
    BY <1>2, <1>4, ExecutedOnce
  <1> QED BY <1>3, <1>5 DEF a

-----------------------------------------------------------------------------
(* The instructions of a program as the generator draws them: what a fragment
   has no place for is not drawn. *)
Constants == {<<"C", n>> : n \in Nat} \cup {<<>>}
Proper ==
    {i \in [opcode : {"MUL", "ADD", "SUB", "ROR", "ROL", "XOR"}, dst_index : Outputs, src_index : Registers,
            C : Constants] :
        /\ i.opcode \in {"ADD", "SUB", "XOR"} => i.src_index # i.dst_index
        /\ i.opcode \in {"MUL", "ROR", "ROL"} => i.src_index # 8}

(* The machine code of the processor. *)
Mnemonics == {"mov", "imul", "add", "addc", "sub", "ror", "rol", "xor"}
X86Codes == [op : Mnemonics, dst : 0..15, src : 0..15 \cup Constants, prefix : Nat]
From(p) == p.src + 8 * (p.prefix % 2)

(* The text for a card says what the interpreter does.                      *)
LEMMA CardSaysSame ==
    ASSUME NEW r, NEW i \in Proper
    PROVE  Performed(r, Statement(i)) = Interpreted(r, i)
  <1>1. i.opcode \in {"MUL", "ADD", "SUB", "ROR", "ROL", "XOR"}
    BY DEF Proper
  <1>2. CASE i.opcode = "MUL"
    BY <1>2 DEF Performed, Statement, Interpreted, Meaning
  <1>3. CASE i.opcode = "ADD"
    BY <1>3 DEF Performed, Statement, Interpreted, Meaning
  <1>4. CASE i.opcode = "SUB"
    BY <1>4 DEF Performed, Statement, Interpreted, Meaning
  <1>5. CASE i.opcode = "ROR"
    BY <1>5 DEF Performed, Statement, Interpreted, Meaning
  <1>6. CASE i.opcode = "ROL"
    BY <1>6 DEF Performed, Statement, Interpreted, Meaning
  <1>7. CASE i.opcode = "XOR"
    BY <1>7 DEF Performed, Statement, Interpreted, Meaning
  <1> QED BY <1>1, <1>2, <1>3, <1>4, <1>5, <1>6, <1>7

(* The registers have numbers of their own, and none has that of rcx.       *)
LEMMA X86Numbers ==
    /\ \A r \in Registers : X86[r] \in 0..15 /\ X86[r] # 1
    /\ \A r, s \in Registers : X86[r] = X86[s] => r = s
    /\ \A r \in Registers : X86[r] % 8 \in 0..7
       /\ (X86[r] >= 8 => X86[r] = (X86[r] % 8) + 8)
                            /\ (X86[r] < 8 => X86[r] = X86[r] % 8)
  <1>1. /\ X86[0] = 3 /\ X86[1] = 6 /\ X86[2] = 7 /\ X86[3] = 5 /\ X86[4] = 4
        /\ X86[5] = 15 /\ X86[6] = 0 /\ X86[7] = 2 /\ X86[8] = 9
    BY DEF X86, Registers
  <1>2. \A r \in Registers : r = 0 \/ r = 1 \/ r = 2 \/ r = 3 \/ r = 4 \/ r = 5 \/ r = 6 \/ r = 7 \/ r = 8
    BY DEF Registers
  <1>3. \A r \in Registers : X86[r] \in 0..15 /\ X86[r] # 1
    BY <1>1, <1>2
  <1>4. \A r, s \in Registers : X86[r] = X86[s] => r = s
    BY <1>1, <1>2
  <1>5. \A n \in 0..15 : n % 8 \in 0..7 /\ (n >= 8 => n = (n % 8) + 8) /\ (n < 8 => n = n % 8)
    OBVIOUS
  <1> QED BY <1>3, <1>4, <1>5

(* The names of the operations in the machine code. *)
Mnemonic == [op \in {"MUL", "ADD", "SUB", "ROR", "ROL", "XOR"} |->
    CASE op = "MUL" -> "imul" [] op = "ADD" -> "add" [] op = "SUB" -> "sub"
      [] op = "ROR" -> "ror" [] op = "ROL" -> "rol" [] op = "XOR" -> "xor"]

(* An index is put together of three fields. *)
IsIndex(a, x, y, z) == a = x + 8 * y + 32 * z

(* They are taken from it as they were put in.                              *)
LEMMA IndexParts ==
    ASSUME NEW a, NEW x \in 0..7, NEW y \in 0..3, NEW z \in 0..7, IsIndex(a, x, y, z)
    PROVE  a % 8 = x /\ (a \div 8) % 4 = y /\ a \div 32 = z /\ a \in 0..255
  <1> USE DEF IsIndex
  <1>1. a \in 0..255
    OBVIOUS
  <1>2. a % 8 = x
    OBVIOUS
  <1>3. a \div 8 = y + 4 * z
    OBVIOUS
  <1>4. (y + 4 * z) % 4 = y
    OBVIOUS
  <1>5. a \div 32 = z
    OBVIOUS
  <1> QED BY <1>1, <1>2, <1>3, <1>4, <1>5

(* The fragment at the index of an instruction is the one of the instruction,
   and so is what is before it. *)
LEMMA FragmentOf ==
    ASSUME NEW i \in Proper
    PROVE  /\ Fragment(Index(i)) = X86Code(Mnemonic[i.opcode], i.dst_index, i.src_index)
           /\ Index(i) \in 0..255
           /\ IsRotation(i.opcode) => MovFragment(Index(i)) = <<X86Code("mov", 0, i.src_index)>>
  <1> DEFINE o == TableOpcode(i.opcode)
             d == i.dst_index
             s == IF i.src_index = 8 THEN d ELSE i.src_index
             c == Index(i)
  <1>1. i.opcode \in {"MUL", "ADD", "SUB", "ROR", "ROL", "XOR"} /\ d \in 0..3
        /\ i.src_index \in 0..8
    BY DEF Proper, Outputs, Registers
  <1>2. o \in {0, 3, 4, 5, 6, 7} /\ s \in 0..7
    BY <1>1 DEF TableOpcode
  <1>3. c = o + 8 * d + 32 * s
    BY DEF Index
  <1>4. IsIndex(c, o, d, s)
    <2> HIDE DEF o, s, c, d
    <2> QED BY <1>3, SMTT(30) DEF IsIndex
  <1> HIDE DEF o, s, c
  <1>5. c % 8 = o /\ (c \div 8) % 4 = d /\ c \div 32 = s /\ c \in 0..255
    <2>1. o \in 0..7 /\ d \in 0..3 /\ s \in 0..7
      BY <1>1, <1>2
    <2> QED BY <1>4, <2>1, IndexParts
  <1>6. IsRotation(i.opcode) => o \in {5, 6} /\ s = i.src_index
    BY DEF IsRotation, o, s, TableOpcode, Proper
  <1> DEFINE from == IF o \in {3, 4, 7} /\ s = d THEN 8 ELSE s
  <1>7. from = i.src_index
    BY <1>1 DEF o, s, TableOpcode, Proper
  <1>8. Fragment(c) = X86Code(Mnemonic[i.opcode], d, i.src_index)
    <2> HIDE DEF from
    <2>1. /\ o = 0 => Fragment(c) = X86Code("imul", d, from)
          /\ o = 3 => Fragment(c) = X86Code("add", d, from)
          /\ o = 4 => Fragment(c) = X86Code("sub", d, from)
          /\ o = 5 => Fragment(c) = X86Code("ror", d, from)
          /\ o = 6 => Fragment(c) = X86Code("rol", d, from)
          /\ o = 7 => Fragment(c) = X86Code("xor", d, from)
      BY <1>5 DEF Fragment, from
    <2>2. /\ i.opcode = "MUL" => o = 0 /\ Mnemonic[i.opcode] = "imul"
          /\ i.opcode = "ADD" => o = 3 /\ Mnemonic[i.opcode] = "add"
          /\ i.opcode = "SUB" => o = 4 /\ Mnemonic[i.opcode] = "sub"
          /\ i.opcode = "ROR" => o = 5 /\ Mnemonic[i.opcode] = "ror"
          /\ i.opcode = "ROL" => o = 6 /\ Mnemonic[i.opcode] = "rol"
          /\ i.opcode = "XOR" => o = 7 /\ Mnemonic[i.opcode] = "xor"
      BY DEF o, TableOpcode, Mnemonic
    <2> QED BY <1>1, <1>7, <2>1, <2>2
  <1>9. IsRotation(i.opcode) => MovFragment(c) = <<X86Code("mov", 0, i.src_index)>>
    BY <1>5, <1>6 DEF MovFragment
  <1> QED BY <1>5, <1>8, <1>9 DEF c

(* The fragment of an operation on two registers, or the one cut to 32 bits. *)
IsCode(p, op, d, s) == p \in {X86Code(op, d, s), CutTo32(X86Code(op, d, s))}
HasFields(p, op, d, s) ==
    p \in X86Codes /\ p.op = op /\ p.dst = X86[d] /\ From(p) = X86[s]

(* A fragment has its own registers, with its prefix or with the one that cuts
   a multiplication. *)
LEMMA CodeOf ==
    ASSUME NEW op \in Mnemonics, NEW d \in Registers, NEW s \in Registers,
           NEW p, IsCode(p, op, d, s)
    PROVE  HasFields(p, op, d, s)
  <1>1. X86[d] \in 0..15 /\ X86[s] \in 0..15 /\ X86[s] % 8 \in 0..7
    BY X86Numbers
  <1>2. 72 % 2 = 0 /\ 73 % 2 = 1 /\ 65 % 2 = 1 /\ 0 % 2 = 0
    OBVIOUS
  <1>3. PICK n \in {72, 73, 65, 0} :
            /\ p = [op |-> op, dst |-> X86[d], src |-> X86[s] % 8, prefix |-> n]
            /\ n % 2 = IF X86[s] >= 8 THEN 1 ELSE 0
    <2>1. CASE p = X86Code(op, d, s)
      BY <1>2, <2>1 DEF X86Code
    <2>2. CASE p = CutTo32(X86Code(op, d, s))
      <3>1. CASE X86[s] >= 8
        BY <1>2, <2>2, <3>1 DEF X86Code, CutTo32
      <3>2. CASE ~(X86[s] >= 8)
        BY <1>2, <2>2, <3>2 DEF X86Code, CutTo32
      <3> QED BY <3>1, <3>2
    <2> QED BY <2>1, <2>2 DEF IsCode
  <1>4. (X86[s] % 8) + 8 * (n % 2) = X86[s]
    BY <1>1, <1>3, X86Numbers
  <1>5. p \in [op : Mnemonics, dst : 0..15, src : 0..15 \cup Constants, prefix : Nat]
    BY <1>1, <1>3
  <1> QED BY <1>3, <1>4, <1>5 DEF X86Codes, HasFields, From

(* What the processor does, an instruction at a time.                       *)
LEMMA ExecutedCases ==
    ASSUME NEW r, NEW m
    PROVE  /\ m.op = "mov"  => Executed(r, m) = [r EXCEPT ![1] = r[From(m)]]
           /\ m.op = "addc" => Executed(r, m) = [r EXCEPT ![m.dst] = Operation("ADD", r[m.dst], m.src)]
           /\ m.op = "ror"  => Executed(r, m) = [r EXCEPT ![m.dst] = Operation("ROR", r[m.dst], r[1])]
           /\ m.op = "rol"  => Executed(r, m) = [r EXCEPT ![m.dst] = Operation("ROL", r[m.dst], r[1])]
           /\ m.op = "imul" => Executed(r, m) = [r EXCEPT ![m.dst] = Operation("MUL", r[m.dst], r[From(m)])]
           /\ m.op = "add"  => Executed(r, m) = [r EXCEPT ![m.dst] = Operation("ADD", r[m.dst], r[From(m)])]
           /\ m.op = "sub"  => Executed(r, m) = [r EXCEPT ![m.dst] = Operation("SUB", r[m.dst], r[From(m)])]
           /\ m.op = "xor"  => Executed(r, m) = [r EXCEPT ![m.dst] = Operation("XOR", r[m.dst], r[From(m)])]
  <1>1. CASE m.op = "mov"
    BY <1>1 DEF Executed, From
  <1>2. CASE m.op = "addc"
    BY <1>2 DEF Executed, From
  <1>3. CASE m.op = "ror"
    BY <1>3 DEF Executed, From
  <1>4. CASE m.op = "rol"
    BY <1>4 DEF Executed, From
  <1>5. CASE m.op = "imul"
    BY <1>5 DEF Executed, From
  <1>6. CASE m.op = "add"
    BY <1>6 DEF Executed, From
  <1>7. CASE m.op = "sub"
    BY <1>7 DEF Executed, From
  <1>8. CASE m.op = "xor"
    BY <1>8 DEF Executed, From
  <1> QED BY <1>1, <1>2, <1>3, <1>4, <1>5, <1>6, <1>7, <1>8

(* What a fragment does to the registers of the processor. *)
Takes(op, m, s) == IF IsRotation(op) THEN m[1] ELSE m[X86[s]]
Runs(m, p, n, value) == Executed(m, p) = [m EXCEPT ![n] = value]

(* A rotation takes its count from rcx, the others take the source.         *)
LEMMA FragmentRuns ==
    ASSUME NEW m, NEW i \in Proper,
           NEW p, IsCode(p, Mnemonic[i.opcode], i.dst_index, i.src_index)
    PROVE  /\ p \in X86Codes
           /\ Runs(m, p, X86[i.dst_index],
                   Operation(i.opcode, m[X86[i.dst_index]], Takes(i.opcode, m, i.src_index)))
  <1> DEFINE op == i.opcode
             d == i.dst_index
             s == i.src_index
  <1>1. op \in {"MUL", "ADD", "SUB", "ROR", "ROL", "XOR"} /\ d \in Registers /\ s \in Registers
    BY DEF Proper, Outputs, Registers
  <1>2. Mnemonic[op] \in Mnemonics
    <2>1. /\ Mnemonic["MUL"] = "imul" /\ Mnemonic["ADD"] = "add" /\ Mnemonic["SUB"] = "sub"
          /\ Mnemonic["ROR"] = "ror" /\ Mnemonic["ROL"] = "rol" /\ Mnemonic["XOR"] = "xor"
      BY DEF Mnemonic
    <2> QED BY <1>1, <2>1 DEF Mnemonics
  <1> HIDE DEF op, d, s
  <1>3. p \in X86Codes /\ p.op = Mnemonic[op] /\ p.dst = X86[d] /\ From(p) = X86[s]
    <2>1. IsCode(p, Mnemonic[op], d, s)
      BY DEF op, d, s
    <2> QED BY <1>1, <1>2, <2>1, CodeOf DEF HasFields
  <1>4. CASE op = "MUL"
    <2>1. p.op = "imul"
      BY <1>3, <1>4 DEF Mnemonic
    <2>2. Runs(m, p, X86[d], Operation("MUL", m[X86[d]], m[X86[s]]))
      BY <1>3, <2>1, ExecutedCases DEF Runs
    <2>3. Takes(op, m, s) = m[X86[s]]
      BY <1>4 DEF Takes, IsRotation
    <2> QED BY <1>3, <1>4, <2>2, <2>3 DEF op, d, s
  <1>5. CASE op = "ADD"
    <2>1. p.op = "add"
      BY <1>3, <1>5 DEF Mnemonic
    <2>2. Runs(m, p, X86[d], Operation("ADD", m[X86[d]], m[X86[s]]))
      BY <1>3, <2>1, ExecutedCases DEF Runs
    <2>3. Takes(op, m, s) = m[X86[s]]
      BY <1>5 DEF Takes, IsRotation
    <2> QED BY <1>3, <1>5, <2>2, <2>3 DEF op, d, s
  <1>6. CASE op = "SUB"
    <2>1. p.op = "sub"
      BY <1>3, <1>6 DEF Mnemonic
    <2>2. Runs(m, p, X86[d], Operation("SUB", m[X86[d]], m[X86[s]]))
      BY <1>3, <2>1, ExecutedCases DEF Runs
    <2>3. Takes(op, m, s) = m[X86[s]]
      BY <1>6 DEF Takes, IsRotation
    <2> QED BY <1>3, <1>6, <2>2, <2>3 DEF op, d, s
  <1>7. CASE op = "ROR"
    <2>1. p.op = "ror"
      BY <1>3, <1>7 DEF Mnemonic
    <2>2. Runs(m, p, X86[d], Operation("ROR", m[X86[d]], m[1]))
      BY <1>3, <2>1, ExecutedCases DEF Runs
    <2>3. Takes(op, m, s) = m[1]
      BY <1>7 DEF Takes, IsRotation
    <2> QED BY <1>3, <1>7, <2>2, <2>3 DEF op, d, s
  <1>8. CASE op = "ROL"
    <2>1. p.op = "rol"
      BY <1>3, <1>8 DEF Mnemonic
    <2>2. Runs(m, p, X86[d], Operation("ROL", m[X86[d]], m[1]))
      BY <1>3, <2>1, ExecutedCases DEF Runs
    <2>3. Takes(op, m, s) = m[1]
      BY <1>8 DEF Takes, IsRotation
    <2> QED BY <1>3, <1>8, <2>2, <2>3 DEF op, d, s
  <1>9. CASE op = "XOR"
    <2>1. p.op = "xor"
      BY <1>3, <1>9 DEF Mnemonic
    <2>2. Runs(m, p, X86[d], Operation("XOR", m[X86[d]], m[X86[s]]))
      BY <1>3, <2>1, ExecutedCases DEF Runs
    <2>3. Takes(op, m, s) = m[X86[s]]
      BY <1>9 DEF Takes, IsRotation
    <2> QED BY <1>3, <1>9, <2>2, <2>3 DEF op, d, s
  <1> QED BY <1>1, <1>4, <1>5, <1>6, <1>7, <1>8, <1>9

(* The count of a rotation goes to rcx.                                     *)
LEMMA MovRuns ==
    ASSUME NEW m, NEW s \in Registers
    PROVE  X86Code("mov", 0, s) \in X86Codes /\ Runs(m, X86Code("mov", 0, s), 1, m[X86[s]])
  <1> DEFINE p == X86Code("mov", 0, s)
  <1>1. "mov" \in Mnemonics /\ 0 \in Registers
    BY DEF Registers, Mnemonics
  <1>2. p \in X86Codes /\ p.op = "mov" /\ From(p) = X86[s]
    BY <1>1, CodeOf DEF HasFields, IsCode
  <1> HIDE DEF p
  <1>3. Runs(m, p, 1, m[X86[s]])
    BY <1>2, ExecutedCases DEF Runs
  <1> QED BY <1>2, <1>3 DEF p

(* The constant of an addition, as it is added after the fragment. *)
AddedConstant(i) == [op |-> "addc", dst |-> X86[i.dst_index], src |-> i.C, prefix |-> 0]

(* It is added to the same register.                                        *)
LEMMA ConstantRuns ==
    ASSUME NEW m, NEW i \in Proper
    PROVE  /\ AddedConstant(i) \in X86Codes
           /\ Runs(m, AddedConstant(i), X86[i.dst_index], Operation("ADD", m[X86[i.dst_index]], i.C))
  <1>1. i.C \in Constants /\ i.dst_index \in Registers
    BY DEF Proper, Outputs, Registers
  <1>2. X86[i.dst_index] \in 0..15
    BY <1>1, X86Numbers
  <1>3. AddedConstant(i) \in [op : Mnemonics, dst : 0..15, src : 0..15 \cup Constants, prefix : Nat]
    BY <1>1, <1>2 DEF AddedConstant, Mnemonics
  <1>4. Runs(m, AddedConstant(i), X86[i.dst_index], Operation("ADD", m[X86[i.dst_index]], i.C))
    <2> DEFINE p == AddedConstant(i)
    <2>1. p.op = "addc" /\ p.dst = X86[i.dst_index] /\ p.src = i.C
      BY DEF AddedConstant
    <2> HIDE DEF p
    <2>2. Runs(m, p, X86[i.dst_index], Operation("ADD", m[X86[i.dst_index]], i.C))
      BY <2>1, ExecutedCases DEF Runs
    <2> QED BY <2>2 DEF p
  <1> QED BY <1>3, <1>4 DEF X86Codes

-----------------------------------------------------------------------------
(* The machine code after some instructions: its registers are those of the
   interpreter, and rcx has the register that the generator takes it to have. *)
SameRegisters(r, m, rot) ==
    /\ DOMAIN r = Registers /\ DOMAIN m = 0..15
    /\ \A x \in Registers : m[X86[x]] = r[x]
    /\ rot # -1 => rot \in Registers /\ m[1] = r[rot]

(* A register that is written is the same one in both.                      *)
LEMMA WritesRegister ==
    ASSUME NEW r, NEW m, NEW rot, SameRegisters(r, m, rot), NEW d \in Registers, NEW v
    PROVE  /\ SameRegisters([r EXCEPT ![d] = v], [m EXCEPT ![X86[d]] = v], IF d = rot THEN -1 ELSE rot)
           /\ [m EXCEPT ![X86[d]] = v][X86[d]] = v
  <1>1. X86[d] \in DOMAIN m /\ X86[d] # 1 /\ 1 \in DOMAIN m
    BY X86Numbers DEF SameRegisters
  <1>2. ASSUME NEW x \in Registers PROVE [m EXCEPT ![X86[d]] = v][X86[x]] = [r EXCEPT ![d] = v][x]
    BY <1>1, X86Numbers DEF SameRegisters
  <1>3. ASSUME rot # -1, rot # d PROVE [m EXCEPT ![X86[d]] = v][1] = [r EXCEPT ![d] = v][rot]
    BY <1>1, <1>3 DEF SameRegisters
  <1> QED BY <1>1, <1>2, <1>3 DEF SameRegisters

(* rcx is none of the registers of a program.                               *)
LEMMA WritesCount ==
    ASSUME NEW r, NEW m, NEW rot, SameRegisters(r, m, rot), NEW s \in Registers
    PROVE  /\ SameRegisters(r, [m EXCEPT ![1] = m[X86[s]]], s)
           /\ [m EXCEPT ![1] = m[X86[s]]][1] = r[s]
           /\ \A x \in Registers : [m EXCEPT ![1] = m[X86[s]]][X86[x]] = r[x]
  <1>1. 1 \in DOMAIN m /\ \A x \in Registers : X86[x] \in DOMAIN m /\ X86[x] # 1
    BY X86Numbers DEF SameRegisters
  <1> QED BY <1>1 DEF SameRegisters

-----------------------------------------------------------------------------
(* What a step of the generator adds: the count of a rotation, if rcx does not
   have it yet; the fragment; the constant of an addition. *)
Moves(state, i) == IsRotation(i.opcode) /\ i.src_index # state.rot
Counted(state, i) ==
    IF Moves(state, i) THEN Append(state.out, X86Code("mov", 0, i.src_index)) ELSE state.out
Count(state, i) == IF Moves(state, i) THEN i.src_index ELSE state.rot
PieceOf(i) == IF i.opcode = "MUL" THEN CutTo32(Fragment(Index(i))) ELSE Fragment(Index(i))
Forgets(i, rot) == IF i.dst_index = rot THEN -1 ELSE rot

(* They are added one after the other.                                      *)
LEMMA AddedParts ==
    ASSUME NEW state, state.out \in Seq(X86Codes), NEW i \in Proper
    PROVE  /\ IsCode(PieceOf(i), Mnemonic[i.opcode], i.dst_index, i.src_index)
           /\ Counted(state, i) \in Seq(X86Codes) /\ PieceOf(i) \in X86Codes
           /\ Added(state, i).rot = Forgets(i, Count(state, i))
           /\ Added(state, i).out =
                IF i.opcode = "ADD" THEN Append(Append(Counted(state, i), PieceOf(i)), AddedConstant(i))
                ELSE Append(Counted(state, i), PieceOf(i))
  <1> DEFINE c == Index(i)
             o == Counted(state, i)
             piece == PieceOf(i)
             mov == X86Code("mov", 0, i.src_index)
  <1>1. i.dst_index \in Registers /\ i.src_index \in Registers
        /\ i.opcode \in {"MUL", "ADD", "SUB", "ROR", "ROL", "XOR"}
    BY DEF Proper, Outputs, Registers
  <1>2. IsCode(piece, Mnemonic[i.opcode], i.dst_index, i.src_index)
    BY FragmentOf DEF IsCode, PieceOf
  <1>3. piece \in X86Codes /\ piece.dst = X86[i.dst_index]
    <2>1. Mnemonic[i.opcode] \in Mnemonics
      <3>1. /\ Mnemonic["MUL"] = "imul" /\ Mnemonic["ADD"] = "add" /\ Mnemonic["SUB"] = "sub"
            /\ Mnemonic["ROR"] = "ror" /\ Mnemonic["ROL"] = "rol" /\ Mnemonic["XOR"] = "xor"
        BY DEF Mnemonic
      <3> QED BY <1>1, <3>1 DEF Mnemonics
    <2> QED BY <1>1, <1>2, <2>1, CodeOf DEF HasFields
  <1>4. mov \in X86Codes
    BY <1>1, MovRuns
  <1>5. state.out \o (IF Moves(state, i) THEN MovFragment(c) ELSE <<>>) = o /\ o \in Seq(X86Codes)
    <2> HIDE DEF mov
    <2>1. CASE Moves(state, i)
      <3>1. MovFragment(c) = <<mov>> /\ o = Append(state.out, mov)
        BY <2>1, FragmentOf DEF Moves, Counted, mov
      <3> HIDE DEF c, o
      <3>2. state.out \o <<mov>> = Append(state.out, mov)
        OBVIOUS
      <3> QED BY <1>4, <2>1, <3>1, <3>2
    <2>2. CASE ~Moves(state, i)
      <3>1. o = state.out
        BY <2>2 DEF Counted
      <3> HIDE DEF c, o
      <3>2. state.out \o <<>> = state.out
        OBVIOUS
      <3> QED BY <2>2, <3>1, <3>2
    <2> QED BY <2>1, <2>2
  <1>6. Added(state, i).rot = Forgets(i, Count(state, i))
    BY DEF Added, Forgets, Count, Moves
  <1>7. Added(state, i).out =
            (o \o <<piece>>) \o (IF i.opcode = "ADD" THEN <<AddedConstant(i)>> ELSE <<>>)
    <2>1. Added(state, i).out =
            ((state.out \o (IF Moves(state, i) THEN MovFragment(c) ELSE <<>>)) \o <<piece>>)
                \o (IF i.opcode = "ADD"
                    THEN <<[op |-> "addc", dst |-> piece.dst, src |-> i.C, prefix |-> 0]>> ELSE <<>>)
      BY DEF Added, Moves, PieceOf
    <2> HIDE DEF o, piece, c
    <2> QED BY <1>3, <1>5, <2>1 DEF AddedConstant
  <1> HIDE DEF o, piece
  <1>8. AddedConstant(i) \in X86Codes
    BY ConstantRuns
  <1>9. o \o <<piece>> = Append(o, piece) /\ Append(o, piece) \in Seq(X86Codes)
    <2>1. o \in Seq(X86Codes) /\ piece \in X86Codes
      BY <1>3, <1>5
    <2> QED BY <2>1
  <1>10. Append(o, piece) \o <<AddedConstant(i)>> = Append(Append(o, piece), AddedConstant(i))
    BY <1>8, <1>9
  <1>11. Append(o, piece) \o <<>> = Append(o, piece)
    BY <1>9
  <1>12. Added(state, i).out = IF i.opcode = "ADD" THEN Append(Append(o, piece), AddedConstant(i))
                             ELSE Append(o, piece)
    <2>1. CASE i.opcode = "ADD"
      BY <1>7, <1>9, <1>10, <2>1
    <2>2. CASE i.opcode # "ADD"
      BY <1>7, <1>9, <1>11, <2>2
    <2> QED BY <2>1, <2>2
  <1> QED BY <1>2, <1>3, <1>5, <1>6, <1>12 DEF o, piece

(* The generator keeps the registers of the interpreter.                    *)
LEMMA AddedSame ==
    ASSUME NEW state, state.out \in Seq(X86Codes), NEW i \in Proper, NEW r,
           SameRegisters(r, Executes(state.out), state.rot)
    PROVE  /\ Added(state, i).out \in Seq(X86Codes)
           /\ SameRegisters(Interpreted(r, i), Executes(Added(state, i).out), Added(state, i).rot)
  <1> DEFINE o == Counted(state, i)
             piece == PieceOf(i)
             op == i.opcode
             d == i.dst_index
             s == i.src_index
             m == Executes(o)
             v == Operation(op, r[d], r[s])
             rot == Count(state, i)
             new == Forgets(i, rot)
             r1 == [r EXCEPT ![d] = v]
  <1>1. d \in Registers /\ s \in Registers /\ op \in {"MUL", "ADD", "SUB", "ROR", "ROL", "XOR"}
        /\ d # -1
    BY DEF Proper, Outputs, Registers
  <1>2. o \in Seq(X86Codes) /\ piece \in X86Codes /\ IsCode(piece, Mnemonic[op], d, s)
    BY AddedParts
  <1>3. SameRegisters(r, m, rot) /\ (IsRotation(op) => m[1] = r[s])
    <2>1. CASE Moves(state, i)
      <3> DEFINE mov == X86Code("mov", 0, s)
                 m0 == Executes(state.out)
      <3>1. mov \in X86Codes /\ Runs(m0, mov, 1, m0[X86[s]])
        BY <1>1, MovRuns
      <3>2. o = Append(state.out, mov) /\ rot = s
        BY <2>1 DEF Counted, Count
      <3> HIDE DEF mov, o
      <3>3. Executes(o) = [m0 EXCEPT ![1] = m0[X86[s]]]
        BY <3>1, <3>2, ExecutesMore DEF Runs
      <3>4. SameRegisters(r, m0, state.rot)
        OBVIOUS
      <3> DEFINE q == [m0 EXCEPT ![1] = m0[X86[s]]]
      <3> HIDE DEF m0
      <3>5. SameRegisters(r, q, s) /\ q[1] = r[s]
        BY <1>1, <3>4, WritesCount
      <3>6. m = q
        BY <3>3
      <3> HIDE DEF q, m
      <3> QED BY <3>2, <3>5, <3>6
    <2>2. CASE ~Moves(state, i)
      <3>1. o = state.out /\ rot = state.rot
        BY <2>2 DEF Counted, Count
      <3>2. IsRotation(op) => s = state.rot
        BY <2>2 DEF Moves
      <3>3. SameRegisters(r, m, rot)
        BY <3>1
      <3> HIDE DEF m, rot
      <3>4. IsRotation(op) => rot \in Registers /\ rot # -1 /\ rot = s
        BY <1>1, <3>1, <3>2 DEF Registers
      <3> QED BY <3>3, <3>4 DEF SameRegisters
    <2> QED BY <2>1, <2>2
  <1> HIDE DEF o, piece, rot
  <1>4. Executes(Append(o, piece)) = [m EXCEPT ![X86[d]] = v]
    <2>1. Runs(m, piece, X86[d], Operation(op, m[X86[d]], Takes(op, m, s)))
      BY <1>2, FragmentRuns
    <2>2. m[X86[d]] = r[d] /\ Takes(op, m, s) = r[s]
      BY <1>1, <1>3 DEF SameRegisters, Takes
    <2>3. Executes(Append(o, piece)) = Executed(m, piece)
      BY <1>2, ExecutesMore
    <2> HIDE DEF m
    <2> QED BY <2>1, <2>2, <2>3 DEF Runs
  <1>5. SameRegisters(r1, Executes(Append(o, piece)), new)
    <2> HIDE DEF m, v
    <2>1. SameRegisters(r1, [m EXCEPT ![X86[d]] = v], IF d = rot THEN -1 ELSE rot)
      BY <1>1, <1>3, WritesRegister
    <2> QED BY <1>4, <2>1 DEF Forgets, m, v
  <1>6. Append(o, piece) \in Seq(X86Codes)
    BY <1>2
  <1>7. Added(state, i).rot = new
    BY AddedParts DEF rot
  <1>8. CASE op # "ADD"
    <2>1. Added(state, i).out = Append(o, piece)
      BY <1>8, AddedParts DEF o, piece
    <2>2. Interpreted(r, i) = r1
      BY <1>8 DEF Interpreted
    <2> HIDE DEF r1, new
    <2> QED BY <1>5, <1>6, <1>7, <2>1, <2>2
  <1>9. CASE op = "ADD"
    <2> DEFINE o1 == Append(o, piece)
               m1 == Executes(o1)
               w == Operation("ADD", r1[d], i.C)
    <2>1. Added(state, i).out = Append(o1, AddedConstant(i))
      BY <1>9, AddedParts DEF o, piece
    <2>2. AddedConstant(i) \in X86Codes
          /\ Runs(m1, AddedConstant(i), X86[d], Operation("ADD", m1[X86[d]], i.C))
      BY ConstantRuns
    <2>3. Interpreted(r, i) = [r1 EXCEPT ![d] = w]
      <3>1. DOMAIN r = Registers
        BY <1>3 DEF SameRegisters
      <3>2. r1[d] = Operation("ADD", r[d], r[s])
        BY <1>1, <1>9, <3>1
      <3>3. Interpreted(r, i) = [r EXCEPT ![d] = w]
        BY <1>9, <3>2 DEF Interpreted
      <3> HIDE DEF w, v
      <3> QED BY <1>1, <3>1, <3>3
    <2> HIDE DEF o1, r1, new
    <2>4. m1[X86[d]] = r1[d] /\ SameRegisters(r1, m1, new)
      BY <1>1, <1>5 DEF SameRegisters, o1
    <2>5. Executes(Append(o1, AddedConstant(i))) = [m1 EXCEPT ![X86[d]] = w]
      <3>1. Executes(Append(o1, AddedConstant(i))) = Executed(m1, AddedConstant(i))
        BY <1>6, <2>2, ExecutesMore DEF o1
      <3> HIDE DEF m1
      <3> QED BY <2>2, <2>4, <3>1 DEF Runs
    <2>6. SameRegisters([r1 EXCEPT ![d] = w], [m1 EXCEPT ![X86[d]] = w], IF d = new THEN -1 ELSE new)
      <3> HIDE DEF m1, w
      <3> QED BY <1>1, <2>4, WritesRegister
    <2>7. (IF d = new THEN -1 ELSE new) = new
      BY <1>1 DEF new, Forgets
    <2>8. Append(o1, AddedConstant(i)) \in Seq(X86Codes)
      BY <1>6, <2>2 DEF o1
    <2> HIDE DEF m1, w
    <2> QED BY <1>7, <2>1, <2>3, <2>5, <2>6, <2>7, <2>8
  <1> QED BY <1>8, <1>9

(* At the start the registers are the same.                                 *)
LEMMA MachineSame == SameRegisters(InitialRegisters, Machine, -1)
  <1>1. DOMAIN InitialRegisters = Registers /\ DOMAIN Machine = 0..15
    BY DEF InitialRegisters, Machine
  <1>2. ASSUME NEW x \in Registers PROVE Machine[X86[x]] = InitialRegisters[x]
    <2> DEFINE n == X86[x]
               y == CHOOSE r \in Registers : X86[r] = n
    <2>1. n \in 0..15 /\ \E r \in Registers : X86[r] = n
      BY X86Numbers
    <2>2. y \in Registers /\ X86[y] = n
      BY <2>1
    <2>3. Machine[n] = InitialRegisters[y]
      <3> HIDE DEF n
      <3> QED BY <2>1 DEF Machine
    <2> HIDE DEF y
    <2>4. y = x
      BY <2>2, X86Numbers
    <2> QED BY <2>3, <2>4
  <1> QED BY <1>1, <1>2 DEF SameRegisters

(* An instruction of the interpreter leaves a function of the registers.    *)
LEMMA InterpretedIsFunction ==
    ASSUME NEW r, NEW i
    PROVE  Interpreted(r, i) = [x \in DOMAIN r |-> Interpreted(r, i)[x]]
  <1> DEFINE v == CASE i.opcode = "ADD" -> Operation("ADD", Operation("ADD", r[i.dst_index], r[i.src_index]), i.C)
                    [] OTHER -> Operation(i.opcode, r[i.dst_index], r[i.src_index])
  <1>1. Interpreted(r, i) = [r EXCEPT ![i.dst_index] = v]
    BY DEF Interpreted
  <1> HIDE DEF v
  <1> QED BY <1>1

(* The machine code of a program has the registers of its interpretation.   *)
LEMMA CompiledSame ==
    ASSUME NEW s \in Seq(Proper)
    PROVE  /\ AddsAll(s).out \in Seq(X86Codes)
           /\ Interprets(s) = [x \in Registers |-> Executes(AddsAll(s).out)[X86[x]]]
  <1>1. PICK F : /\ F[0] = InitialRegisters
                 /\ \A k \in 1..Len(s) : F[k] = Interpreted(F[k - 1], s[k])
                 /\ F[Len(s)] = Interprets(s)
    BY InterpretedFolds
  <1>2. PICK G : /\ G[0] = Adding
                 /\ \A k \in 1..Len(s) : G[k] = Added(G[k - 1], s[k])
                 /\ G[Len(s)] = AddsAll(s)
    BY AddedFolds
  <1> DEFINE n == Len(s)
             Good(k) == /\ G[k].out \in Seq(X86Codes)
                        /\ SameRegisters(F[k], Executes(G[k].out), G[k].rot)
                        /\ F[k] = [x \in Registers |-> F[k][x]]
             W == {k \in 0..n : Good(k)}
  <1>3. n \in Nat /\ \A k \in 1..n : s[k] \in Proper
    OBVIOUS
  <1> HIDE DEF n
  <1>4. 0 \in W
    <2>1. Executes(<<>>) = Machine
      <3>1. <<>> \in Seq(Proper) /\ Len(<<>>) = 0
        OBVIOUS
      <3> QED BY <3>1, ExecutedFolds
    <2>2. G[0].out = <<>> /\ G[0].rot = -1 /\ <<>> \in Seq(X86Codes)
      BY <1>2 DEF Adding
    <2>3. SameRegisters(F[0], Executes(G[0].out), G[0].rot)
      BY <1>1, <2>1, <2>2, MachineSame
    <2>4. F[0] = [x \in Registers |-> F[0][x]]
      BY <1>1 DEF InitialRegisters
    <2>5. Good(0) /\ 0 \in 0..n
      BY <1>3, <2>2, <2>3, <2>4
    <2> HIDE DEF Good
    <2> QED BY <2>5
  <1>5. ASSUME NEW k \in 1..n, k - 1 \in W PROVE k \in W
    <2> DEFINE j == k - 1
    <2>1. Good(j) /\ s[k] \in Proper /\ k \in 0..n
      BY <1>3, <1>5
    <2>2. F[k] = Interpreted(F[j], s[k]) /\ G[k] = Added(G[j], s[k])
      BY <1>1, <1>2 DEF n
    <2> HIDE DEF j
    <2>3. G[k].out \in Seq(X86Codes) /\ SameRegisters(F[k], Executes(G[k].out), G[k].rot)
      BY <2>1, <2>2, AddedSame
    <2>4. F[k] = [x \in Registers |-> F[k][x]]
      <3>1. DOMAIN F[j] = Registers
        BY <2>1 DEF SameRegisters
      <3> QED BY <2>2, <3>1, InterpretedIsFunction
    <2>5. Good(k)
      BY <2>3, <2>4
    <2> HIDE DEF Good
    <2> QED BY <2>1, <2>5
  <1>6. Good(n)
    <2> HIDE DEF Good
    <2>1. \A k \in 0..n : k \in W
      <3> HIDE DEF W
      <3> QED BY <1>3, <1>4, <1>5, UpTo
    <2> QED BY <1>3, <2>1
  <1> DEFINE m == Executes(G[n].out)
  <1>7. G[n].out \in Seq(X86Codes) /\ G[n] = AddsAll(s) /\ F[n] = Interprets(s)
    BY <1>1, <1>2, <1>6 DEF n
  <1>8. SameRegisters(F[n], m, G[n].rot) /\ F[n] = [x \in Registers |-> F[n][x]]
    BY <1>6
  <1> HIDE DEF m
  <1>9. F[n] = [x \in Registers |-> m[X86[x]]]
    BY <1>8 DEF SameRegisters
  <1> QED BY <1>7, <1>9 DEF m

(* The text for a card does, too.                                           *)
LEMMA CardSame ==
    ASSUME NEW s \in Seq(Proper)
    PROVE  Performs([k \in DOMAIN s |-> Statement(s[k])]) = Interprets(s)
  <1> DEFINE n == Len(s)
             t == [k \in DOMAIN s |-> Statement(s[k])]
             P == {Statement(i) : i \in Proper}
  <1>1. n \in Nat /\ DOMAIN s = 1..n /\ \A k \in 1..n : s[k] \in Proper
    OBVIOUS
  <1>2. t \in Seq(P) /\ Len(t) = n /\ \A k \in 1..n : t[k] = Statement(s[k])
    <2> HIDE DEF n
    <2>1. t = [k \in 1..n |-> Statement(s[k])]
      BY <1>1
    <2>2. \A k \in 1..n : Statement(s[k]) \in P
      BY <1>1
    <2> HIDE DEF P
    <2> QED BY <1>1, <2>1, <2>2
  <1>3. PICK F : /\ F[0] = InitialRegisters
                 /\ \A k \in 1..Len(s) : F[k] = Interpreted(F[k - 1], s[k])
                 /\ F[Len(s)] = Interprets(s)
    BY InterpretedFolds
  <1> HIDE DEF t, P
  <1>4. ASSUME NEW k \in 1..Len(t) PROVE F[k] = Performed(F[k - 1], t[k])
    <2>1. F[k] = Interpreted(F[k - 1], s[k]) /\ s[k] \in Proper /\ t[k] = Statement(s[k])
      BY <1>1, <1>2, <1>3
    <2> QED BY <2>1, CardSaysSame
  <1>5. Performs(t) = F[Len(t)]
    BY <1>2, <1>3, <1>4, PerformedOnce
  <1> QED BY <1>2, <1>3, <1>5 DEF t

(* A program that the generator draws means the same everywhere.            *)
LEMMA OneProgram ==
    ASSUME Program \in Seq(Proper)
    PROVE  SameMeaning /\ WellStitched
  <1> DEFINE s == Program
             t == [i \in DOMAIN Program |-> Statement(Program[i])]
  <1>1. Interpret = Interprets(s)
    BY DEF Interpret, Interprets, FoldLeft, MapThenFoldSet
  <1>2. add_random_math = AddsAll(s).out
    BY DEF add_random_math, AddsAll, Adding, FoldLeft, MapThenFoldSet
  <1>3. OnCard = Performs(t)
    BY DEF OnCard, Performs, FoldLeft, MapThenFoldSet
  <1>4. AfterMachineCode = Executes(AddsAll(s).out)
    <2>1. AfterMachineCode = Executes(add_random_math)
      BY DEF AfterMachineCode, Executes, FoldLeft, MapThenFoldSet
    <2> QED BY <1>2, <2>1
  <1>5. SameMeaning
    <2>1. Compiled = [x \in Registers |-> Executes(AddsAll(s).out)[X86[x]]]
      BY <1>4 DEF Compiled
    <2>2. Interprets(s) = [x \in Registers |-> Executes(AddsAll(s).out)[X86[x]]]
      BY CompiledSame
    <2>3. Performs(t) = Interprets(s)
      BY CardSame
    <2> HIDE DEF s, t
    <2> QED BY <1>1, <1>3, <2>1, <2>2, <2>3 DEF SameMeaning
  <1>6. \A i \in DOMAIN Program : Index(Program[i]) \in 0..255
    <2>1. \A i \in DOMAIN Program : Program[i] \in Proper
      OBVIOUS
    <2> QED BY <2>1, FragmentOf
  <1>7. \A x \in Templates : Target(x) = Mainloop
    <2>1. Len(add_random_math) \in Nat
      <3>1. AddsAll(s).out \in Seq(X86Codes)
        BY CompiledSame
      <3> QED BY <1>2, <3>1
    <2>2. \A x \in Templates : JumpEnd(x) \in Int
      BY <2>1 DEF JumpEnd, Part
    <2> QED BY <2>2 DEF Target, Distance, Mainloop
  <1> QED BY <1>5, <1>6, <1>7 DEF WellStitched

-----------------------------------------------------------------------------
(* The generator of random programs. *)
(* Its operations and the instruction at the end. *)
Operations == {"MUL", "ADD", "SUB", "ROR", "ROL", "XOR"}
Ended == Instruction("RET", 0, 0, <<>>)

(* What each turn of its outer loop starts afresh. *)
IsAttempt(w) ==
    /\ DOMAIN w = {"latency", "asic_latency", "inst_data", "alu_busy", "rotated", "rotate_count", "num_retries",
                   "total_iterations", "r8_used"}
    /\ w.latency \in [Registers -> Nat] /\ w.asic_latency \in [Registers -> Nat]
    /\ w.inst_data \in [Registers -> [value : Nat, opcode : Operations \cup {"none"}, source : Nat]]
    /\ w.alu_busy \in SUBSET ((0..TOTAL_LATENCY) \X (0..2)) /\ w.rotated \in [Outputs -> BOOLEAN]
    /\ w.rotate_count \in Nat /\ w.num_retries \in Nat /\ w.total_iterations \in Nat
       /\ w.r8_used \in BOOLEAN

(* The type of the generator; what it hands out ends with RET. *)
MathTypeOK ==
    /\ variant \in {"WOW", "4"} /\ phase \in {"draw", "pad", "done"}
    /\ drawn \in Nat /\ data_index \in 0..DataSize /\ IsAttempt(attempt)
    /\ phase # "done" => code \in Seq(Proper)
    /\ phase = "done" =>
          \E c \in Seq(Proper) : /\ code = Append(c, Ended)
                                 /\ Len(c) <= NUM_INSTRUCTIONS_MAX /\ drawn <= Len(c)

(* The phases keep to the sizes of the loops. *)
LengthsOK ==
    /\ phase = "draw" => Len(code) < NUM_INSTRUCTIONS_MIN /\ drawn = Len(code)
    /\ phase = "pad" => Len(code) <= NUM_INSTRUCTIONS_MAX /\ drawn <= Len(code)

(* The operation of the bits has a latency and pipelines.                   *)
LEMMA DecodedIs ==
    ASSUME NEW bits \in 0..7, NEW direction \in {"ROR", "ROL"}
    PROVE  Decoded(bits, direction) \in Operations
  BY DEF Decoded, Operations

(* They are the arguments of small tables.                                  *)
LEMMA OperationNumbers ==
    ASSUME NEW op \in Operations
    PROVE  op_latency(op) \in 1..3 /\ asic_op_latency(op) \in 1..3 /\ op_ALUs(op) \in {1, 3}
           /\ (op = "ADD" => op_latency(op) = 2)
  BY DEF Operations, op_latency, asic_op_latency, op_ALUs

(* What is drawn is proper, with its source replaced.                       *)
LEMMA DrawnProper ==
    ASSUME NEW op \in Operations, NEW a \in Outputs, NEW src \in 0..7, NEW n \in Nat
    PROVE  /\ Source(op, a, src) \in Registers
           /\ Instruction(op, a, Source(op, a, src), IF op = "ADD" THEN <<"C", n>> ELSE <<>>) \in Proper
  <1> DEFINE b == Source(op, a, src)
             C == IF op = "ADD" THEN <<"C", n>> ELSE <<>>
  <1>1. b \in Registers /\ (op \in {"ADD", "SUB", "XOR"} => b # a)
        /\ (op \in {"MUL", "ROR", "ROL"} => b # 8)
    BY DEF Source, Registers, Outputs
  <1>2. C \in Constants
    BY DEF Constants
  <1> HIDE DEF b, C
  <1>3. Instruction(op, a, b, C) \in Proper
    BY <1>1, <1>2 DEF Instruction, Proper, Operations
  <1> QED BY <1>1, <1>3 DEF b, C

(* One of four registers comes first and one last.                          *)
LEMMA ExtremesAre ==
    ASSUME attempt.asic_latency \in [Registers -> Nat]
    PROVE  Earliest \in Outputs /\ Latest \in Outputs
  <1> DEFINE f == attempt.asic_latency
             E == {r \in Outputs : \A s \in Outputs : f[r] <= f[s]}
             L == {r \in Outputs : \A s \in Outputs : f[r] >= f[s]}
  <1>1. f[0] \in Nat /\ f[1] \in Nat /\ f[2] \in Nat /\ f[3] \in Nat
    BY DEF Registers
  <1>2. \A s \in Outputs : s = 0 \/ s = 1 \/ s = 2 \/ s = 3
    BY DEF Outputs
  <1>3. 0 \in Outputs /\ 1 \in Outputs /\ 2 \in Outputs /\ 3 \in Outputs /\ Outputs \subseteq Nat
    BY DEF Outputs
  <1> HIDE DEF f
  <1>4. \E r \in Outputs : \A s \in Outputs : f[r] <= f[s]
    <2>1. \E r \in Outputs : f[r] <= f[0] /\ f[r] <= f[1] /\ f[r] <= f[2] /\ f[r] <= f[3]
      BY <1>1, <1>3
    <2> QED BY <1>2, <2>1
  <1>5. \E r \in Outputs : \A s \in Outputs : f[r] >= f[s]
    <2>1. \E r \in Outputs : f[r] >= f[0] /\ f[r] >= f[1] /\ f[r] >= f[2] /\ f[r] >= f[3]
      BY <1>1, <1>3
    <2> QED BY <1>2, <2>1
  <1>6. ASSUME NEW S \in SUBSET Outputs, S # {} PROVE Min(S) \in S
    <2>1. PICK x \in S : \A y \in S : x <= y
      BY <1>3, <1>6, LeastOf
    <2> QED BY <2>1 DEF Min
  <1>7. E \in SUBSET Outputs /\ E # {} /\ L \in SUBSET Outputs /\ L # {}
    BY <1>4, <1>5
  <1>8. Earliest = Min(E) /\ Latest = Min(L)
    BY DEF Earliest, Latest, f
  <1> HIDE DEF E, L
  <1>9. Min(E) \in Outputs /\ Min(L) \in Outputs
    BY <1>6, <1>7
  <1> QED BY <1>8, <1>9

(* Where an instruction starts, a pipeline can take it, if it ends in time. *)
LEMMA StartIs ==
    ASSUME IsAttempt(attempt), NEW op \in Operations, NEW a \in Outputs, NEW b \in Registers,
           NEW at, at = Start(op, a, b)
    PROVE  /\ at \in Nat
           /\ at + op_latency(op) <= TOTAL_LATENCY =>
                /\ Free(op, at) # {} /\ Max(Free(op, at)) \in 0..2
                /\ at \in 0..TOTAL_LATENCY /\ (op = "ADD" => at + 1 \in 0..TOTAL_LATENCY)
  <1> DEFINE ready == Later(attempt.latency[a], attempt.latency[b])
             cycles == {n \in ready..TOTAL_LATENCY - 1 : Free(op, n) # {}}
  <1>1. TOTAL_LATENCY \in Nat /\ ready \in Nat
    <2>1. attempt.latency \in [Registers -> Nat]
      BY DEF IsAttempt
    <2>2. attempt.latency[a] \in Nat /\ attempt.latency[b] \in Nat
      BY <2>1 DEF Registers, Outputs
    <2> QED BY <2>2, GeneratorAssumption DEF Later
  <1>2. at = IF cycles = {} THEN Later(ready, TOTAL_LATENCY) ELSE Min(cycles)
    BY DEF Start
  <1> HIDE DEF ready
  <1>3. op_latency(op) \in 1..3 /\ (op = "ADD" => op_latency(op) = 2)
    BY OperationNumbers
  <1>4. CASE cycles = {}
    <2>1. at \in Nat /\ at >= TOTAL_LATENCY
      BY <1>1, <1>2, <1>4 DEF Later
    <2> QED BY <1>1, <1>3, <2>1
  <1>5. CASE cycles # {}
    <2>1. cycles \in SUBSET Nat
      BY <1>1
    <2> HIDE DEF cycles
    <2>2. at \in cycles
      <3>1. PICK x \in cycles : \A y \in cycles : x <= y
        BY <1>5, <2>1, LeastOf
      <3> QED BY <1>2, <1>5, <3>1 DEF Min
    <2>3. at \in Nat /\ at <= TOTAL_LATENCY - 1 /\ Free(op, at) # {}
      BY <1>1, <2>2 DEF cycles
    <2> DEFINE F == Free(op, at)
    <2>4. F \in SUBSET (0..2)
      <3>1. op_ALUs(op) \in {1, 3}
        BY OperationNumbers
      <3> QED BY <3>1 DEF Free
    <2> HIDE DEF F
    <2>5. F # {} => Max(F) \in F
      <3> SUFFICES ASSUME F # {} PROVE Max(F) \in F
        OBVIOUS
      <3>1. \E x \in F : \A y \in F : x >= y
        <4>1. \A y \in F : y = 0 \/ y = 1 \/ y = 2
          BY <2>4
        <4>2. CASE 2 \in F
          BY <4>1, <4>2
        <4>3. CASE 2 \notin F /\ 1 \in F
          BY <4>1, <4>3
        <4>4. CASE 2 \notin F /\ 1 \notin F
          <5>1. \A y \in F : y = 0
            BY <4>1, <4>4
          <5> QED BY <5>1
        <4> QED BY <4>2, <4>3, <4>4
      <3> QED BY <3>1 DEF Max
    <2>6. Max(F) \in 0..2
      BY <2>3, <2>4, <2>5 DEF F
    <2>7. Free(op, at) # {} /\ Max(Free(op, at)) \in 0..2
      BY <2>3, <2>6 DEF F
    <2> HIDE DEF F
    <2>8. at \in 0..TOTAL_LATENCY
          /\ (op = "ADD" /\ at + op_latency(op) <= TOTAL_LATENCY => at + 1 \in 0..TOTAL_LATENCY)
      BY <1>1, <1>3, <2>3
    <2> QED BY <2>3, <2>7, <2>8
  <1> QED BY <1>4, <1>5

(* An attempt starts with its type.                                         *)
LEMMA FreshType == IsAttempt(FreshAttempt)
  <1>1. [r \in Registers |-> NoInstruction(r)] \in
            [Registers -> [value : Nat, opcode : Operations \cup {"none"}, source : Nat]]
    <2>1. ASSUME NEW r \in Registers
          PROVE  NoInstruction(r) \in [value : Nat, opcode : Operations \cup {"none"}, source : Nat]
      BY DEF NoInstruction, Operations, Registers
    <2> QED BY <2>1
  <1>2. [r \in Registers |-> 0] \in [Registers -> Nat]
        /\ [r \in Outputs |-> FALSE] \in [Outputs -> BOOLEAN]
    OBVIOUS
  <1> QED BY <1>1, <1>2 DEF FreshAttempt, IsAttempt

(* The counters of an attempt have their type.                              *)
LEMMA IteratedType ==
    ASSUME IsAttempt(attempt)
    PROVE  /\ IsAttempt(Iterated)
           /\ Iterated.inst_data = attempt.inst_data /\ Iterated.rotated = attempt.rotated
           /\ IsAttempt([Iterated EXCEPT !.num_retries = @ + 1])
           /\ [Iterated EXCEPT !.num_retries = @ + 1].inst_data = attempt.inst_data
           /\ [Iterated EXCEPT !.num_retries = @ + 1].rotated = attempt.rotated
  <1> DEFINE w == Iterated
  <1>1. IsAttempt(w) /\ w.inst_data = attempt.inst_data /\ w.rotated = attempt.rotated
    BY DEF Iterated, IsAttempt
  <1> HIDE DEF w
  <1> DEFINE v == [w EXCEPT !.num_retries = @ + 1]
  <1>2. IsAttempt(v) /\ v.inst_data = w.inst_data /\ v.rotated = w.rotated
    BY <1>1 DEF IsAttempt
  <1> QED BY <1>1, <1>2 DEF w

(* What an instruction changes of an attempt. *)
Emitted(op, a, b, at, alu, done) ==
    [Iterated EXCEPT
        !.rotate_count = IF IsRotation(op) THEN @ + 1 ELSE @,
        !.alu_busy = @ \cup {<<at, alu>>} \cup (IF op = "ADD" THEN {<<at + 1, alu>>} ELSE {}),
        !.latency[a] = done,
        !.asic_latency[a] = Later(@, attempt.asic_latency[b]) + asic_op_latency(op),
        !.rotated[a] = IsRotation(op),
        !.inst_data[a] = [value |-> Len(code), opcode |-> op, source |-> attempt.inst_data[b].value],
        !.r8_used = @ \/ b = 8]

(* What is remembered of it for the instructions after it. *)
Remembers(w, op, a, b) ==
    /\ IsAttempt(w)
    /\ w.rotated = [attempt.rotated EXCEPT ![a] = IsRotation(op)]
    /\ w.inst_data = [attempt.inst_data EXCEPT ![a] =
                        [value |-> Len(code), opcode |-> op, source |-> attempt.inst_data[b].value]]

(* They have their types, and what it remembers of the register is new.     *)
LEMMA EmittedType ==
    ASSUME IsAttempt(attempt), Len(code) \in Nat, NEW op \in Operations, NEW a \in Outputs,
           NEW b \in Registers,
           NEW at \in 0..TOTAL_LATENCY, op = "ADD" => at + 1 \in 0..TOTAL_LATENCY,
           NEW alu \in 0..2, NEW done \in Nat
    PROVE  Remembers(Emitted(op, a, b, at, alu, done), op, a, b)
  <1> DEFINE w == Iterated
             new == Emitted(op, a, b, at, alu, done)
  <1>1. DOMAIN new = DOMAIN w
    BY DEF Emitted
  <1>2. new.latency = [w.latency EXCEPT ![a] = done]
    BY IteratedType DEF Emitted, IsAttempt
  <1>3. new.asic_latency = [w.asic_latency EXCEPT ![a] = Later(@, attempt.asic_latency[b]) + asic_op_latency(op)]
    BY IteratedType DEF Emitted, IsAttempt
  <1>4. new.inst_data = [w.inst_data EXCEPT ![a] =
                            [value |-> Len(code), opcode |-> op, source |-> attempt.inst_data[b].value]]
    BY IteratedType DEF Emitted, IsAttempt
  <1>5. new.rotated = [w.rotated EXCEPT ![a] = IsRotation(op)]
    BY IteratedType DEF Emitted, IsAttempt
  <1>6. new.alu_busy = w.alu_busy \cup {<<at, alu>>} \cup (IF op = "ADD" THEN {<<at + 1, alu>>} ELSE {})
    BY IteratedType DEF Emitted, IsAttempt
  <1>7. /\ new.rotate_count = IF IsRotation(op) THEN w.rotate_count + 1 ELSE w.rotate_count
        /\ new.num_retries = w.num_retries /\ new.total_iterations = w.total_iterations
        /\ new.r8_used = (w.r8_used \/ b = 8)
    BY IteratedType DEF Emitted, IsAttempt
  <1>8. /\ w.inst_data = attempt.inst_data /\ w.rotated = attempt.rotated /\ IsAttempt(w)
        /\ a \in Registers /\ asic_op_latency(op) \in Nat
    BY IteratedType, OperationNumbers DEF Outputs, Registers
  <1> HIDE DEF new, w
  <1>9. new.latency \in [Registers -> Nat]
    BY <1>2, <1>8 DEF IsAttempt
  <1>10. new.asic_latency \in [Registers -> Nat]
    <2>1. w.asic_latency[a] \in Nat /\ attempt.asic_latency[b] \in Nat
      BY <1>8 DEF IsAttempt
    <2>2. Later(w.asic_latency[a], attempt.asic_latency[b]) + asic_op_latency(op) \in Nat
      BY <1>8, <2>1 DEF Later
    <2>3. w.asic_latency \in [Registers -> Nat]
      BY <1>8 DEF IsAttempt
    <2> QED BY <1>3, <2>2, <2>3
  <1>11. new.inst_data \in [Registers -> [value : Nat, opcode : Operations \cup {"none"}, source : Nat]]
    <2> DEFINE T == [value : Nat, opcode : Operations \cup {"none"}, source : Nat]
    <2>1. w.inst_data \in [Registers -> T] /\ attempt.inst_data \in [Registers -> T]
      BY <1>8 DEF IsAttempt
    <2>2. attempt.inst_data[b].value \in Nat
      BY <2>1
    <2>3. [value |-> Len(code), opcode |-> op, source |-> attempt.inst_data[b].value] \in T
      BY <2>2
    <2> HIDE DEF T
    <2>4. new.inst_data \in [Registers -> T]
      BY <1>4, <2>1, <2>3
    <2> QED BY <2>4 DEF T
  <1>12. new.alu_busy \in SUBSET ((0..TOTAL_LATENCY) \X (0..2))
    <2>1. w.alu_busy \in SUBSET ((0..TOTAL_LATENCY) \X (0..2))
      BY <1>8 DEF IsAttempt
    <2>2. <<at, alu>> \in (0..TOTAL_LATENCY) \X (0..2)
      OBVIOUS
    <2>3. op = "ADD" => <<at + 1, alu>> \in (0..TOTAL_LATENCY) \X (0..2)
      OBVIOUS
    <2> QED BY <1>6, <2>1, <2>2, <2>3
  <1>13. new.rotated \in [Outputs -> BOOLEAN]
    <2>1. IsRotation(op) \in BOOLEAN
      BY DEF IsRotation
    <2> QED BY <1>5, <1>8, <2>1 DEF IsAttempt
  <1>14. new.rotate_count \in Nat /\ new.num_retries \in Nat /\ new.total_iterations \in Nat
         /\ new.r8_used \in BOOLEAN
    <2>1. w.rotate_count \in Nat /\ w.num_retries \in Nat /\ w.total_iterations \in Nat
      BY <1>8 DEF IsAttempt
    <2>2. (w.r8_used \/ b = 8) \in BOOLEAN
      OBVIOUS
    <2> QED BY <1>7, <2>1, <2>2
  <1>15. IsAttempt(new)
    BY <1>1, <1>8, <1>9, <1>10, <1>11, <1>12, <1>13, <1>14 DEF IsAttempt
  <1> QED BY <1>4, <1>5, <1>8, <1>15 DEF new, Remembers

(* A turn of the first loop, by what the bytes mean. *)
Turn(op, a, b, at, index) ==
    \/ attempt' = Iterated /\ data_index' = index /\ UNCHANGED <<phase, code, drawn>>
    \/ /\ attempt' = [Iterated EXCEPT !.num_retries = @ + 1]
       /\ data_index' = index /\ UNCHANGED <<phase, code, drawn>>
    \/ /\ ~Foldable(op, a, b) /\ at + op_latency(op) <= TOTAL_LATENCY
       /\ Emit(op, a, b, at)
       /\ data_index' = IF op = "ADD" THEN Taken(index, 4) ELSE index

(* A draw is such a turn, with operands that fit.                           *)
LEMMA DrawTurns ==
    ASSUME MathTypeOK, Draw
    PROVE  \E op \in Operations, a \in Outputs, b \in Registers, index \in 0..DataSize :
              /\ Turn(op, a, b, Start(op, a, b), index) /\ variant' = variant
              /\ Instruction(op, a, b, IF op = "ADD" THEN <<"C", Len(code)>> ELSE <<>>) \in Proper
  <1>1. PICK bits \in Opcodes, a \in Dsts, src \in Srcs, direction \in {"ROR", "ROL"} :
            Turn(Decoded(bits, direction), a, Source(Decoded(bits, direction), a, src),
                 Start(Decoded(bits, direction), a, Source(Decoded(bits, direction), a, src)),
                 Taken(Taken(data_index, 1), IF bits = 5 THEN 1 ELSE 0))
    BY DEF Draw, Turn
  <1> DEFINE op == Decoded(bits, direction)
             b == Source(op, a, src)
             index == Taken(Taken(data_index, 1), IF bits = 5 THEN 1 ELSE 0)
  <1>2. bits \in 0..7 /\ a \in Outputs /\ src \in 0..7 /\ DataSize \in Nat /\ DataSize >= 4
    BY GeneratorAssumption DEF Outputs
  <1>3. op \in Operations
    BY <1>2, DecodedIs
  <1>4. index \in 0..DataSize
    BY <1>2 DEF Taken, MathTypeOK
  <1>5. Len(code) \in Nat /\ variant' = variant
    BY DEF MathTypeOK, Draw
  <1> HIDE DEF op, index
  <1>6. b \in Registers
        /\ Instruction(op, a, b, IF op = "ADD" THEN <<"C", Len(code)>> ELSE <<>>) \in Proper
    BY <1>2, <1>3, <1>5, DrawnProper
  <1>7. Turn(op, a, b, Start(op, a, b), index)
    BY <1>1 DEF op, index
  <1> HIDE DEF b
  <1> QED BY <1>2, <1>3, <1>4, <1>5, <1>6, <1>7

(* An instruction more, in all that the generator keeps.                    *)
LEMMA EmitStep ==
    ASSUME MathTypeOK, LengthsOK, phase = "draw", NEW op \in Operations, NEW a \in Outputs,
           NEW b \in Registers,
           NEW at, at = Start(op, a, b), at + op_latency(op) <= TOTAL_LATENCY, Emit(op, a, b, at),
           Instruction(op, a, b, IF op = "ADD" THEN <<"C", Len(code)>> ELSE <<>>) \in Proper
    PROVE  /\ code' = Append(code, Instruction(op, a, b, IF op = "ADD" THEN <<"C", Len(code)>> ELSE <<>>))
           /\ code' \in Seq(Proper) /\ Len(code') = Len(code) + 1 /\ Len(code) \in Nat
              /\ drawn' = Len(code')
           /\ phase' = (IF Len(code') >= NUM_INSTRUCTIONS_MIN THEN "pad" ELSE "draw")
           /\ Remembers(attempt', op, a, b)
  <1> DEFINE i == Instruction(op, a, b, IF op = "ADD" THEN <<"C", Len(code)>> ELSE <<>>)
             alu == Max(Free(op, at))
             done == at + op_latency(op)
  <1>1. code \in Seq(Proper) /\ IsAttempt(attempt) /\ Len(code) \in Nat
    BY DEF MathTypeOK
  <1>2. at \in 0..TOTAL_LATENCY /\ (op = "ADD" => at + 1 \in 0..TOTAL_LATENCY) /\ alu \in 0..2
        /\ done \in Nat
    <2>1. at \in Nat /\ op_latency(op) \in Nat
      BY <1>1, StartIs, OperationNumbers
    <2>2. at \in 0..TOTAL_LATENCY /\ (op = "ADD" => at + 1 \in 0..TOTAL_LATENCY) /\ alu \in 0..2
      BY <1>1, StartIs
    <2> QED BY <2>1, <2>2
  <1>3. attempt' = Emitted(op, a, b, at, alu, done)
    BY DEF Emit, Emitted
  <1>4. code' = Append(code, i) /\ drawn' = Len(code')
        /\ phase' = (IF Len(code') >= NUM_INSTRUCTIONS_MIN THEN "pad" ELSE "draw")
    BY DEF Emit
  <1> HIDE DEF i, alu, done
  <1>5. code' \in Seq(Proper) /\ Len(code') = Len(code) + 1
    <2>1. i \in Proper
      BY DEF i
    <2> QED BY <1>1, <1>4, <2>1
  <1>6. Remembers(attempt', op, a, b)
    <2>1. Remembers(Emitted(op, a, b, at, alu, done), op, a, b)
      BY <1>1, <1>2, EmittedType
    <2> QED BY <1>3, <2>1
  <1> QED BY <1>1, <1>4, <1>5, <1>6 DEF i

(* The generator starts with these.                                         *)
LEMMA MathStarts == MathInit => MathTypeOK /\ LengthsOK
  <1> SUFFICES ASSUME MathInit PROVE MathTypeOK /\ LengthsOK
    OBVIOUS
  <1>1. IsAttempt(attempt)
    BY FreshType DEF MathInit
  <1>2. code \in Seq(Proper) /\ Len(code) = 0
    BY DEF MathInit
  <1>3. DataSize \in 0..DataSize /\ NUM_INSTRUCTIONS_MIN \in Nat \ {0}
    BY GeneratorAssumption
  <1> QED BY <1>1, <1>2, <1>3 DEF MathInit, MathTypeOK, LengthsOK

(* Every step keeps them.                                                   *)
LEMMA MathStep == MathTypeOK /\ LengthsOK /\ [MathNext]_mathVars => MathTypeOK' /\ LengthsOK'
  <1> SUFFICES ASSUME MathTypeOK, LengthsOK, [MathNext]_mathVars PROVE MathTypeOK' /\ LengthsOK'
    OBVIOUS
  <1>1. NUM_INSTRUCTIONS_MIN \in Nat \ {0} /\ NUM_INSTRUCTIONS_MAX \in Nat
        /\ NUM_INSTRUCTIONS_MAX >= NUM_INSTRUCTIONS_MIN
    BY GeneratorAssumption
  <1>2. CASE Draw
    <2>1. PICK op \in Operations, a \in Outputs, b \in Registers, index \in 0..DataSize :
              /\ Turn(op, a, b, Start(op, a, b), index) /\ variant' = variant
              /\ Instruction(op, a, b, IF op = "ADD" THEN <<"C", Len(code)>> ELSE <<>>) \in Proper
      BY <1>2, DrawTurns
    <2> DEFINE at == Start(op, a, b)
    <2>2. phase = "draw" /\ IsAttempt(attempt) /\ DataSize \in Nat /\ DataSize >= 4
          /\ code \in Seq(Proper) /\ Len(code) \in Nat
      BY <1>2, GeneratorAssumption DEF Draw, MathTypeOK
    <2>3. data_index' \in 0..DataSize
      BY <2>1, <2>2 DEF Turn, Taken
    <2>4. CASE (attempt' = Iterated \/ attempt' = [Iterated EXCEPT !.num_retries = @ + 1])
               /\ UNCHANGED <<phase, code, drawn>>
      <3>1. IsAttempt(attempt')
        BY <2>2, <2>4, IteratedType
      <3> QED BY <2>1, <2>2, <2>3, <2>4, <3>1 DEF MathTypeOK, LengthsOK
    <2>5. CASE at + op_latency(op) <= TOTAL_LATENCY /\ Emit(op, a, b, at)
      <3>1. /\ code' \in Seq(Proper) /\ Len(code') = Len(code) + 1 /\ drawn' = Len(code')
            /\ phase' = (IF Len(code') >= NUM_INSTRUCTIONS_MIN THEN "pad" ELSE "draw")
            /\ IsAttempt(attempt')
        BY <2>1, <2>2, <2>5, EmitStep DEF Remembers
      <3>2. Len(code) < NUM_INSTRUCTIONS_MIN /\ variant' \in {"WOW", "4"} /\ drawn' \in Nat
        BY <2>1, <2>2, <3>1 DEF LengthsOK, MathTypeOK
      <3>3. MathTypeOK'
        BY <2>3, <3>1, <3>2 DEF MathTypeOK
      <3>4. LengthsOK'
        BY <1>1, <2>2, <3>1, <3>2 DEF LengthsOK
      <3> QED BY <3>3, <3>4
    <2> QED BY <2>1, <2>4, <2>5 DEF Turn
  <1>3. CASE GiveUp
    <2>1. UNCHANGED <<variant, code, drawn, data_index, attempt>> /\ phase = "draw"
          /\ phase' = "pad"
      BY <1>3 DEF GiveUp
    <2>2. Len(code) \in Nat /\ code \in Seq(Proper)
      BY <2>1 DEF MathTypeOK
    <2> QED BY <1>1, <2>1, <2>2 DEF MathTypeOK, LengthsOK
  <1>4. CASE Pad
    <2> DEFINE op == IF (Len(code) - drawn) % 3 = 0 THEN "ROR" ELSE "MUL"
               i == Instruction(op, Earliest, Latest, <<>>)
    <2>1. phase = "pad" /\ phase' = "pad" /\ UNCHANGED <<variant, drawn, data_index>>
          /\ code' = Append(code, i)
          /\ Len(code) < NUM_INSTRUCTIONS_MAX
      BY <1>4 DEF Pad, Short
    <2>2. code \in Seq(Proper) /\ Len(code) \in Nat /\ IsAttempt(attempt)
      BY <2>1 DEF MathTypeOK
    <2>3. Earliest \in Outputs /\ Latest \in Outputs /\ Earliest \in Registers
          /\ Latest \in Registers
      <3>1. attempt.asic_latency \in [Registers -> Nat]
        BY <2>2 DEF IsAttempt
      <3>2. Earliest \in Outputs /\ Latest \in Outputs
        BY <3>1, ExtremesAre
      <3> QED BY <3>2 DEF Outputs, Registers
    <2>4. op \in Operations /\ op \in {"ROR", "MUL"}
      BY DEF Operations
    <2> HIDE DEF op
    <2>5. i \in Proper
      <3>1. <<>> \in Constants /\ Latest # 8
        BY <2>3 DEF Constants, Outputs
      <3> HIDE DEF Constants
      <3> QED BY <2>3, <2>4, <3>1 DEF Instruction, Proper
    <2>6. code' \in Seq(Proper) /\ Len(code') = Len(code) + 1
      <3> HIDE DEF i
      <3> QED BY <2>1, <2>2, <2>5
    <2>7. IsAttempt(attempt')
      <3> DEFINE w == attempt
                 e == Earliest
                 u == w.latency[Latest] + op_latency(op)
                 v == w.asic_latency[Latest] + asic_op_latency(op)
      <3>1. u \in Nat /\ v \in Nat
        <4>1. w.latency[Latest] \in Nat /\ w.asic_latency[Latest] \in Nat
          BY <2>2, <2>3 DEF IsAttempt
        <4>2. op_latency(op) \in Nat /\ asic_op_latency(op) \in Nat
          BY <2>4, OperationNumbers
        <4> QED BY <4>1, <4>2
      <3>2. attempt' = [w EXCEPT !.latency[e] = u, !.asic_latency[e] = v]
        BY <1>4 DEF Pad, op
      <3>3. IsAttempt(w) /\ e \in Registers
        BY <2>2, <2>3
      <3> HIDE DEF w, u, v, e
      <3> QED BY <3>1, <3>2, <3>3 DEF IsAttempt
    <2>8. MathTypeOK'
      BY <2>1, <2>6, <2>7 DEF MathTypeOK
    <2>9. LengthsOK'
      BY <1>1, <2>1, <2>2, <2>6 DEF MathTypeOK, LengthsOK
    <2> QED BY <2>8, <2>9
  <1>5. CASE Again
    <2>1. /\ phase' = "draw" /\ code' = <<>> /\ drawn' = 0 /\ attempt' = FreshAttempt
             /\ UNCHANGED <<variant, data_index>>
      BY <1>5 DEF Again
    <2>2. <<>> \in Seq(Proper) /\ Len(<<>>) = 0
      OBVIOUS
    <2> QED BY <1>1, <2>1, <2>2, FreshType DEF MathTypeOK, LengthsOK
  <1>6. CASE Finish
    <2>1. phase = "pad" /\ phase' = "done" /\ code' = Append(code, Ended)
          /\ UNCHANGED <<variant, drawn, data_index, attempt>>
      BY <1>6 DEF Finish, Ended
    <2>2. code \in Seq(Proper) /\ Len(code) <= NUM_INSTRUCTIONS_MAX /\ drawn <= Len(code)
      BY <2>1 DEF MathTypeOK, LengthsOK
    <2> QED BY <2>1, <2>2 DEF MathTypeOK, LengthsOK
  <1>7. CASE UNCHANGED mathVars
    BY <1>7 DEF mathVars, MathTypeOK, LengthsOK
  <1> QED BY <1>2, <1>3, <1>4, <1>5, <1>6, <1>7 DEF MathNext

(* The programs of the generator mean the same to the interpreter, to the   *)
(* machine code that is pieced together for them and to a card, and the     *)
(* loop of the machine code closes, for every size of the generator.        *)
THEOREM MeansOne == MathSpec => []OneMeaning
  <1>1. ASSUME MathTypeOK, phase = "done" PROVE SameMeaning /\ WellStitched
    <2>1. PICK c \in Seq(Proper) : code = Append(c, Ended)
      BY <1>1 DEF MathTypeOK
    <2>2. Program = c
      BY <2>1 DEF Program
    <2>3. Program \in Seq(Proper)
      BY <2>2
    <2> QED BY <2>3, OneProgram
  <1>2. MathTypeOK => OneMeaning
    BY <1>1 DEF OneMeaning
  <1> QED BY <1>2, MathStarts, MathStep, PTL DEF MathSpec

(* The instruction j is the last of c that writes r. *)
LastWrite(c, r, j) ==
    /\ j \in 1..Len(c) /\ c[j].dst_index = r
    /\ \A k \in j + 1..Len(c) : c[k].dst_index # r

(* What an attempt knows of a register: what wrote it last, and the value of
   the source, while that has not been written. *)
Knows(c, w, r, j) ==
    /\ w.rotated[r] = IsRotation(c[j].opcode)
    /\ w.inst_data[r].opcode = c[j].opcode
    /\ c[j].src_index >= 4 => w.inst_data[r].source = 255
    /\ (\A k \in j..Len(c) : c[k].dst_index # c[j].src_index) =>
          w.inst_data[r].source = w.inst_data[c[j].src_index].value
Known(c, w) ==
    /\ \A r \in Registers : r >= 4 => w.inst_data[r].value = 255
    /\ \A r \in Outputs, j \in 1..Len(c) : LastWrite(c, r, j) => Knows(c, w, r, j)

(* NothingToFold of the first n instructions of c. *)
Same(c, j, i) ==
    \/ c[j].src_index >= 4 /\ c[i].src_index >= 4
    \/ c[j].src_index = c[i].src_index /\ \A k \in j..i - 1 : c[k].dst_index # c[i].src_index
FoldsInto(c, j, i) ==
    \/ IsRotation(c[i].opcode) /\ IsRotation(c[j].opcode)
    \/ c[i].opcode = c[j].opcode /\ c[i].opcode # "MUL" /\ Same(c, j, i)
Before(c, j, i) ==
    /\ c[j].dst_index = c[i].dst_index
    /\ \A k \in j + 1..i - 1 : c[k].dst_index # c[i].dst_index
NoFolds(c, n) == \A i \in 1..n : \A j \in 1..i - 1 : Before(c, j, i) => ~FoldsInto(c, j, i)

(* It is about the drawn ones.                                              *)
LEMMA NoFoldsIs == NothingToFold <=> NoFolds(code, drawn)
  <1>1. \A i, j : SameValue(j, i) <=> Same(code, j, i)
    BY DEF SameValue, Same
  <1>2. \A i, j : j \in WriteBefore(i) <=> j \in 1..i - 1 /\ Before(code, j, i)
    BY DEF WriteBefore, Before
  <1> HIDE DEF Same, Before
  <1>3. \A i, j : FoldsInto(code, j, i) <=>
            ~(/\ ~(IsRotation(code[i].opcode) /\ IsRotation(code[j].opcode))
              /\ code[i].opcode = code[j].opcode => code[i].opcode = "MUL" \/ ~SameValue(j, i))
    BY <1>1 DEF FoldsInto
  <1> QED BY <1>2, <1>3 DEF NothingToFold, NoFolds

(* What comes after them does not matter.                                   *)
LEMMA NoFoldsKept ==
    ASSUME NEW c, NEW d, NEW n \in Nat, NoFolds(c, n), \A k \in 1..n : d[k] = c[k]
    PROVE  NoFolds(d, n)
  <1> SUFFICES ASSUME NEW i \in 1..n, NEW j \in 1..i - 1, Before(d, j, i) PROVE ~FoldsInto(d, j, i)
    BY DEF NoFolds
  <1>1. i \in 1..n /\ j \in 1..n /\ \A k \in j..i - 1 : k \in 1..n
    OBVIOUS
  <1>2. \A k \in j + 1..i - 1 : k \in j..i - 1
    OBVIOUS
  <1>3. d[i] = c[i] /\ d[j] = c[j] /\ \A k \in j..i - 1 : d[k] = c[k]
    BY <1>1
  <1>4. Before(c, j, i)
    BY <1>2, <1>3 DEF Before
  <1>5. ~FoldsInto(c, j, i)
    BY <1>4 DEF NoFolds
  <1>6. Same(d, j, i) <=> Same(c, j, i)
    BY <1>3 DEF Same
  <1> QED BY <1>3, <1>5, <1>6 DEF FoldsInto

(* An instruction that is drawn folds with none, by what the attempt knows. *)
LEMMA DrawnFolds ==
    ASSUME code \in Seq(Proper), IsAttempt(attempt), Known(code, attempt), NoFolds(code, Len(code)),
           NEW i \in Proper, ~Foldable(i.opcode, i.dst_index, i.src_index)
    PROVE  NoFolds(Append(code, i), Len(code) + 1)
  <1> DEFINE n == Len(code)
             d == Append(code, i)
  <1>1. n \in Nat /\ d[n + 1] = i /\ \A k \in 1..n : d[k] = code[k]
    OBVIOUS
  <1> HIDE DEF n, d
  <1>2. NoFolds(d, n)
    BY <1>1, NoFoldsKept DEF n
  <1>3. ASSUME NEW j \in 1..n, Before(d, j, n + 1) PROVE ~FoldsInto(d, j, n + 1)
    <2> DEFINE a == i.dst_index
               b == i.src_index
    <2>1. a \in Outputs /\ b \in Registers
      BY DEF Proper
    <2>2. d[j] = code[j] /\ (n + 1) - 1 = n /\ (\A k \in j..n : k \in 1..n)
          /\ (\A k \in j + 1..n : k \in 1..n)
      BY <1>1
    <2>3. LastWrite(code, a, j)
      BY <1>1, <1>3, <2>2 DEF Before, LastWrite, n
    <2>4. Knows(code, attempt, a, j)
      BY <2>1, <2>3 DEF Known, n
    <2>5. ~(IsRotation(i.opcode) /\ IsRotation(code[j].opcode))
      BY <2>4 DEF Foldable, Knows
    <2>6. ASSUME i.opcode = code[j].opcode, i.opcode # "MUL", Same(d, j, n + 1) PROVE FALSE
      <3>1. attempt.inst_data[a].opcode = i.opcode
        BY <2>4, <2>6 DEF Knows
      <3>2. CASE code[j].src_index >= 4 /\ b >= 4
        <4>1. attempt.inst_data[a].source = 255 /\ attempt.inst_data[b].value = 255
          BY <2>1, <2>4, <3>2 DEF Knows, Known
        <4> QED BY <2>6, <3>1, <4>1 DEF Foldable
      <3>3. CASE code[j].src_index = b /\ \A k \in j..n : code[k].dst_index # b
        <4>1. attempt.inst_data[a].source = attempt.inst_data[b].value
          BY <2>4, <3>3 DEF Knows, n
        <4> QED BY <2>6, <3>1, <4>1 DEF Foldable
      <3>4. \/ code[j].src_index >= 4 /\ b >= 4
            \/ code[j].src_index = b /\ \A k \in j..n : code[k].dst_index # b
        BY <1>1, <2>2, <2>6 DEF Same
      <3> QED BY <3>2, <3>3, <3>4
    <2> QED BY <1>1, <2>2, <2>5, <2>6 DEF FoldsInto
  <1> SUFFICES ASSUME NEW x \in 1..n + 1, NEW j \in 1..x - 1, Before(d, j, x)
        PROVE  ~FoldsInto(d, j, x)
    BY DEF NoFolds, d, n
  <1>4. CASE x \in 1..n
    BY <1>2, <1>4 DEF NoFolds
  <1>5. CASE x = n + 1
    <2>1. j \in 1..n
      BY <1>1, <1>5
    <2> QED BY <1>3, <1>5, <2>1
  <1> QED BY <1>1, <1>4, <1>5

(* The attempt goes on knowing what was drawn.                              *)
LEMMA DrawnKnown ==
    ASSUME code \in Seq(Proper), IsAttempt(attempt), Known(code, attempt), NEW i \in Proper,
           NEW w, Remembers(w, i.opcode, i.dst_index, i.src_index)
    PROVE  Known(Append(code, i), w)
  <1> DEFINE n == Len(code)
             d == Append(code, i)
             a == i.dst_index
             b == i.src_index
             u == attempt.inst_data
             v == w.inst_data
  <1>1. n \in Nat /\ d[n + 1] = i /\ Len(d) = n + 1 /\ \A k \in 1..n : d[k] = code[k]
    OBVIOUS
  <1>2. a \in Outputs /\ b \in Registers /\ a \in Registers
        /\ (\A r \in Outputs : r \in Registers) /\ ~(a >= 4)
    BY DEF Proper, Outputs, Registers
  <1>3. /\ DOMAIN u = Registers /\ DOMAIN attempt.rotated = Outputs
        /\ v = [u EXCEPT ![a] = [value |-> n, opcode |-> i.opcode, source |-> u[b].value]]
        /\ w.rotated = [attempt.rotated EXCEPT ![a] = IsRotation(i.opcode)]
    BY DEF IsAttempt, Remembers
  <1>4. v[a].opcode = i.opcode /\ v[a].source = u[b].value /\ w.rotated[a] = IsRotation(i.opcode)
    BY <1>2, <1>3
  <1>5. \A r \in Registers : r # a => v[r] = u[r]
    BY <1>3
  <1>6. \A r \in Outputs : r # a => w.rotated[r] = attempt.rotated[r]
    BY <1>3
  <1> HIDE DEF n, d, u, v
  <1>7. \A r \in Registers : r >= 4 => v[r].value = 255
    BY <1>2, <1>5 DEF Known, u
  <1>8. ASSUME NEW r \in Outputs, NEW j \in 1..Len(d), LastWrite(d, r, j) PROVE Knows(d, w, r, j)
    <2>1. CASE r = a
      <3>1. j = n + 1
        <4>1. ASSUME j \in 1..n PROVE FALSE
          <5>1. n + 1 \in j + 1..Len(d)
            BY <1>1, <4>1
          <5>2. d[n + 1].dst_index = r
            BY <1>1, <2>1
          <5> QED BY <1>8, <5>1, <5>2 DEF LastWrite
        <4> QED BY <1>1, <4>1
      <3>2. d[j] = i
        BY <1>1, <3>1
      <3>3. w.rotated[r] = IsRotation(d[j].opcode) /\ v[r].opcode = d[j].opcode
        BY <1>4, <2>1, <3>2
      <3>4. d[j].src_index >= 4 => v[r].source = 255
        BY <1>2, <1>4, <2>1, <3>2 DEF Known, u
      <3>5. ASSUME \A k \in j..Len(d) : d[k].dst_index # d[j].src_index
            PROVE  v[r].source = v[d[j].src_index].value
        <4>1. j \in j..Len(d)
          BY <1>1, <3>1
        <4>2. b # a
          BY <3>2, <3>5, <4>1
        <4> QED BY <1>2, <1>4, <1>5, <2>1, <3>2, <4>2
      <3> QED BY <3>3, <3>4, <3>5 DEF Knows, v
    <2>2. CASE r # a
      <3>1. j \in 1..n
        BY <1>1, <1>8, <2>2 DEF LastWrite
      <3>2. d[j] = code[j] /\ (\A k \in j + 1..n : k \in j + 1..Len(d) /\ d[k] = code[k])
            /\ (\A k \in j..n : k \in j..Len(d) /\ d[k] = code[k]) /\ n + 1 \in j..Len(d)
        BY <1>1, <3>1
      <3>3. LastWrite(code, r, j)
        BY <1>8, <3>1, <3>2 DEF LastWrite, n
      <3>4. Knows(code, attempt, r, j)
        BY <3>1, <3>3 DEF Known, n
      <3>5. r \in Registers /\ v[r] = u[r] /\ w.rotated[r] = attempt.rotated[r]
        BY <1>2, <1>5, <1>6, <2>2
      <3>6. w.rotated[r] = IsRotation(d[j].opcode) /\ v[r].opcode = d[j].opcode
            /\ (d[j].src_index >= 4 => v[r].source = 255)
        BY <3>2, <3>4, <3>5 DEF Knows, u
      <3>7. ASSUME \A k \in j..Len(d) : d[k].dst_index # d[j].src_index
            PROVE  v[r].source = v[d[j].src_index].value
        <4>1. d[j].src_index # a
          BY <1>1, <3>2, <3>7
        <4>2. \A k \in j..n : code[k].dst_index # code[j].src_index
          BY <3>2, <3>7
        <4>3. u[r].source = u[code[j].src_index].value
          BY <3>4, <4>2 DEF Knows, u, n
        <4>4. code[j].src_index \in Registers
          BY <3>1 DEF n, Proper
        <4> QED BY <1>5, <3>2, <3>5, <4>1, <4>3, <4>4
      <3> QED BY <3>6, <3>7 DEF Knows, v
    <2> QED BY <2>1, <2>2
  <1> QED BY <1>7, <1>8 DEF Known, d, v

(* What is drawn so far does not fold, and the attempt knows enough of it. *)
FoldsInv == NoFolds(code, drawn) /\ (phase = "draw" => Known(code, attempt))

(* An attempt that has drawn nothing knows all of it.                       *)
LEMMA FreshKnows == Known(<<>>, FreshAttempt) /\ NoFolds(<<>>, 0)
  <1>1. \A r \in Registers : r >= 4 => FreshAttempt.inst_data[r].value = 255
    BY DEF FreshAttempt, NoInstruction, Registers
  <1>2. 1..Len(<<>>) = {} /\ 1..0 = {}
    OBVIOUS
  <1> QED BY <1>1, <1>2 DEF Known, NoFolds

(* The padding and the end of a program leave what was drawn.               *)
LEMMA AppendKeeps ==
    ASSUME code \in Seq(Proper),
           NEW x, code' = Append(code, x), drawn' = drawn, drawn \in Nat, drawn <= Len(code),
           FoldsInv, phase' # "draw"
    PROVE  FoldsInv'
  <1>1. \A k \in 1..drawn : code'[k] = code[k]
    <2>1. \A k \in 1..Len(code) : Append(code, x)[k] = code[k]
      OBVIOUS
    <2> QED BY <2>1
  <1>2. NoFolds(code', drawn)
    BY <1>1, NoFoldsKept DEF FoldsInv
  <1> QED BY <1>2 DEF FoldsInv

(* Every step keeps it.                                                     *)
LEMMA FoldsStep == MathTypeOK /\ LengthsOK /\ FoldsInv /\ [MathNext]_mathVars => FoldsInv'
  <1> SUFFICES ASSUME MathTypeOK, LengthsOK, FoldsInv, [MathNext]_mathVars PROVE FoldsInv'
    OBVIOUS
  <1>1. CASE Draw
    <2>1. PICK op \in Operations, a \in Outputs, b \in Registers, index \in 0..DataSize :
              /\ Turn(op, a, b, Start(op, a, b), index) /\ variant' = variant
              /\ Instruction(op, a, b, IF op = "ADD" THEN <<"C", Len(code)>> ELSE <<>>) \in Proper
      BY <1>1, DrawTurns
    <2> DEFINE at == Start(op, a, b)
               i == Instruction(op, a, b, IF op = "ADD" THEN <<"C", Len(code)>> ELSE <<>>)
    <2>2. phase = "draw" /\ IsAttempt(attempt) /\ code \in Seq(Proper) /\ Known(code, attempt)
          /\ drawn = Len(code) /\ NoFolds(code, Len(code))
      BY <1>1 DEF Draw, MathTypeOK, LengthsOK, FoldsInv
    <2>3. CASE (attempt' = Iterated \/ attempt' = [Iterated EXCEPT !.num_retries = @ + 1])
               /\ UNCHANGED <<phase, code, drawn>>
      <3>1. attempt'.inst_data = attempt.inst_data /\ attempt'.rotated = attempt.rotated
        BY <2>2, <2>3, IteratedType
      <3>2. Known(code, attempt')
        BY <2>2, <3>1 DEF Known, Knows
      <3> QED BY <2>2, <2>3, <3>2 DEF FoldsInv
    <2>4. CASE ~Foldable(op, a, b) /\ at + op_latency(op) <= TOTAL_LATENCY /\ Emit(op, a, b, at)
      <3>1. /\ code' = Append(code, i) /\ Len(code') = Len(code) + 1 /\ drawn' = Len(code')
            /\ Remembers(attempt', op, a, b)
        BY <2>1, <2>2, <2>4, EmitStep
      <3>2. i \in Proper /\ i.opcode = op /\ i.dst_index = a /\ i.src_index = b
        BY <2>1 DEF Instruction
      <3> HIDE DEF i
      <3>3. NoFolds(Append(code, i), Len(code) + 1)
        BY <2>2, <2>4, <3>2, DrawnFolds
      <3>4. Known(Append(code, i), attempt')
        BY <2>2, <3>1, <3>2, DrawnKnown
      <3> QED BY <3>1, <3>3, <3>4 DEF FoldsInv
    <2> QED BY <2>1, <2>3, <2>4 DEF Turn
  <1>2. CASE GiveUp
    BY <1>2 DEF GiveUp, FoldsInv
  <1>3. CASE Pad
    <2>1. phase = "pad" /\ phase' = "pad" /\ drawn' = drawn /\ code \in Seq(Proper)
          /\ drawn \in Nat /\ drawn <= Len(code)
      BY <1>3 DEF Pad, MathTypeOK, LengthsOK
    <2>2. \E x : code' = Append(code, x)
      BY <1>3 DEF Pad
    <2> QED BY <2>1, <2>2, AppendKeeps
  <1>4. CASE Again
    <2>1. code' = <<>> /\ drawn' = 0 /\ attempt' = FreshAttempt
      BY <1>4 DEF Again
    <2> QED BY <2>1, FreshKnows DEF FoldsInv
  <1>5. CASE Finish
    <2>1. phase = "pad" /\ phase' = "done" /\ drawn' = drawn /\ code \in Seq(Proper)
          /\ drawn \in Nat /\ drawn <= Len(code)
      BY <1>5 DEF Finish, MathTypeOK, LengthsOK
    <2>2. \E x : code' = Append(code, x)
      BY <1>5 DEF Finish
    <2> QED BY <2>1, <2>2, AppendKeeps
  <1>6. CASE UNCHANGED mathVars
    BY <1>6 DEF mathVars, FoldsInv
  <1> QED BY <1>1, <1>2, <1>3, <1>4, <1>5, <1>6 DEF MathNext

(* The safety half of DrawsPrograms: whatever the bytes, a program stays    *)
(* within the arrays of the generator, and none of the instructions that    *)
(* are drawn can be folded into the one that wrote the register before it.  *)
THEOREM DrawsWell == MathSpec => [](ArraysSuffice /\ NothingToFold)
  <1>1. MathInit => FoldsInv
    <2> SUFFICES ASSUME MathInit PROVE FoldsInv
      OBVIOUS
    <2>1. code = <<>> /\ drawn = 0 /\ attempt = FreshAttempt
      BY DEF MathInit
    <2> QED BY <2>1, FreshKnows DEF FoldsInv
  <1>2. MathTypeOK /\ LengthsOK => ArraysSuffice
    <2> SUFFICES ASSUME MathTypeOK, LengthsOK PROVE ArraysSuffice
      OBVIOUS
    <2>1. NUM_INSTRUCTIONS_MIN \in Nat /\ NUM_INSTRUCTIONS_MAX \in Nat
          /\ NUM_INSTRUCTIONS_MAX >= NUM_INSTRUCTIONS_MIN
          /\ DataSize \in Nat
      BY GeneratorAssumption
    <2>2. attempt.alu_busy \subseteq (0..TOTAL_LATENCY) \X (0..2) /\ data_index <= DataSize
      BY <2>1 DEF MathTypeOK, IsAttempt
    <2>3. Len(code) <= NUM_INSTRUCTIONS_MAX + 1
      <3>1. CASE phase = "done"
        <4>1. PICK c \in Seq(Proper) : code = Append(c, Ended) /\ Len(c) <= NUM_INSTRUCTIONS_MAX
          BY <3>1 DEF MathTypeOK
        <4>2. Len(code) = Len(c) + 1 /\ Len(c) \in Nat
          BY <4>1
        <4> QED BY <2>1, <4>1, <4>2
      <3>2. CASE phase # "done"
        <4>1. Len(code) \in Nat
          BY <3>2 DEF MathTypeOK
        <4>2. phase = "draw" \/ phase = "pad"
          BY <3>2 DEF MathTypeOK
        <4> QED BY <2>1, <4>1, <4>2 DEF LengthsOK
      <3> QED BY <3>1, <3>2
    <2> QED BY <2>2, <2>3 DEF ArraysSuffice
  <1>3. FoldsInv => NothingToFold
    BY NoFoldsIs DEF FoldsInv
  <1> QED BY <1>1, <1>2, <1>3, MathStarts, MathStep, FoldsStep, PTL DEF MathSpec

-----------------------------------------------------------------------------
(***************************************************************************)
(* The threads of the cards.  A launch that was taken is settled: its card *)
(* is there, and nothing of it is left to be chosen; bound, it may have a  *)
(* number of NVML.  What is asked for may leave threads and blocks open.   *)
(*                                                                         *)
(* Three loops are folds: over what the command line or the automatic      *)
(* choice asks for, over the objects of a file, and over the numbers of    *)
(* --cuda-devices.  Of each is shown that it keeps the threads settled and *)
(* that it does nothing to a GPU thread but take its memory, and of the    *)
(* first, where no thread holds memory yet, that each card is taken once   *)
(* and with a number of threads that it can run.                           *)
(***************************************************************************)
CardNumbers == 0..(CardCount - 1)
BoundThreads ==
    [index : CardNumbers, threads : Nat, blocks : Nat, bfactor : Nat, bsleep : Nat,
     syncMode : 0..3, affinity : Int, nvmlId : Int]
Settled == {t \in BoundThreads : t.nvmlId = -1}
Requests ==
    {t \in [index : Int, threads : Nat \cup {-1}, blocks : Nat \cup {-1}, bfactor : Nat, bsleep : Nat,
            syncMode : 0..3, affinity : Int, nvmlId : {-1}] : t.threads = -1 => t.blocks # 0}
Objects == {object \in ThreadObjects : object.threads = -1 => object.blocks # 0}
MinerSet == [thread : BoundThreads, memory : {"none", "held", "lost"}]
Lists == [threads : Seq(Settled), miners : Seq(MinerSet)]

OnRig == IsRig(rig) /\ launchKind.algo \in Algo

LargestHash == 524288

(* What a hash takes.                                                       *)
LEMMA AlgoIs == Algo = {"CN", "LITE", "HEAVY", "PICO"}
  BY DEF Algo, AlgoNames, ToSet

LEMMA HashTakes ==
    ASSUME NEW algo \in Algo
    PROVE  /\ HashMemory(algo) \in Nat \ {0} /\ HashMemory(algo) <= LargestHash
           /\ perThread(algo) = HashMemory(algo) + IF algo = "HEAVY" THEN 2134 ELSE 2109
           /\ \A t : Allocated(algo, t) =
                        t.blocks * t.threads * (HashMemory(algo) + IF algo = "HEAVY" THEN 110 ELSE 91)
  <1>1. HashMemory(algo) \in Nat \ {0} /\ HashMemory(algo) <= LargestHash
    <2>1. CASE algo = "CN"
      <3>1. cn_select_memory(algo) = 2097152
        BY SMT, <2>1 DEF cn_select_memory, MiB
      <3> QED BY SMT, <3>1 DEF HashMemory, Words8, LargestHash
    <2>2. CASE algo = "LITE"
      <3>1. cn_select_memory(algo) = 1048576
        BY SMT, <2>2 DEF cn_select_memory, MiB
      <3> QED BY SMT, <3>1 DEF HashMemory, Words8, LargestHash
    <2>3. CASE algo = "HEAVY"
      <3>1. cn_select_memory(algo) = 4194304
        BY SMT, <2>3 DEF cn_select_memory, MiB
      <3> QED BY SMT, <3>1 DEF HashMemory, Words8, LargestHash
    <2>4. CASE algo = "PICO"
      <3>1. cn_select_memory(algo) = 262144
        BY SMT, <2>4 DEF cn_select_memory, MiB
      <3> QED BY SMT, <3>1 DEF HashMemory, Words8, LargestHash
    <2> QED BY AlgoIs, <2>1, <2>2, <2>3, <2>4
  <1>2. perThread(algo) = HashMemory(algo) + IF algo = "HEAVY" THEN 2134 ELSE 2109
    BY <1>1 DEF perThread, Words8
  <1>3. ASSUME NEW t
        PROVE  Allocated(algo, t) =
                    t.blocks * t.threads * (HashMemory(algo) + IF algo = "HEAVY" THEN 110 ELSE 91)
    <2>1. CASE algo = "HEAVY"
      <3>1. Words8(400 + 160 + 160 + 128 + 16 + 20) = 110
        BY DEF Words8
      <3> QED BY <2>1, <3>1 DEF Allocated
    <2>2. CASE algo # "HEAVY"
      <3>1. Words8(200 + 160 + 160 + 128 + 16 + 64) = 91
        BY DEF Words8
      <3> QED BY <2>2, <3>1 DEF Allocated
    <2> QED BY <2>1, <2>2
  <1> QED BY <1>1, <1>2, <1>3

(* A card of the rig.                                                       *)
LEMMA CardFacts ==
    ASSUME OnRig
    PROVE  /\ CardCount \in Nat
           /\ \A index \in CardNumbers :
                /\ CardAt(index) \in Card
                /\ CardAt(index).mpcount <= IF CardAt(index).major < 6 THEN 24 ELSE 512
  <1>1. rig.cards \in Seq(Card)
    BY DEF OnRig, IsRig
  <1>2. CardCount \in Nat /\ DOMAIN rig.cards = 1..CardCount
    BY <1>1 DEF CardCount
  <1>3. ASSUME NEW index \in CardNumbers
        PROVE  CardAt(index) \in Card /\ CardAt(index).mpcount <= IF CardAt(index).major < 6 THEN 24 ELSE 512
    <2>1. index + 1 \in 1..CardCount
      BY <1>2 DEF CardNumbers
    <2>2. rig.cards[index + 1] \in Card
      BY <1>1, <1>2, <2>1, ElementOfSeq
    <2> QED BY <1>2, <2>1, <2>2 DEF CardAt, OnRig, IsRig
  <1> QED BY <1>2, <1>3

-----------------------------------------------------------------------------
(* The memory that is free on a card is a number, and all of it is when     *)
(* nothing is held there.                                                   *)
LEMMA FreeNumber ==
    ASSUME OnRig, NEW ms \in Seq(MinerSet), NEW index \in CardNumbers
    PROVE  /\ FreeOn(ms, index) \in Int
           /\ Holding(ms, index) = {} => FreeOn(ms, index) = CardAt(index).free
  <1> DEFINE S == Holding(ms, index)
             size(i) == Allocated(launchKind.algo, ms[i].thread)
             c == [T \in SUBSET S |-> CHOOSE i \in T : TRUE]
             G == [i \in S |-> [v \in Nat |-> v + size(i)]]
             Equation(f) ==
                 f = [T \in SUBSET S |->
                        IF T = {} THEN 0
                        ELSE f[T \ {CHOOSE i \in T : TRUE}] + size(CHOOSE i \in T : TRUE)]
             iter == CHOOSE f : Equation(f)
  <1>1. IsFiniteSet(S)
    <2>1. Len(ms) \in Nat /\ S \subseteq 1..Len(ms)
      BY DEF Holding
    <2>2. IsFiniteSet(1..Len(ms))
      BY <2>1, FS_Interval
    <2> HIDE DEF S
    <2> QED BY <2>1, <2>2, FS_Subset
  <1>2. \A i \in S : size(i) \in Nat
    <2> SUFFICES ASSUME NEW i \in S PROVE size(i) \in Nat
      OBVIOUS
    <2>1. ms[i] \in MinerSet
      BY DEF Holding
    <2>2. ms[i].thread.blocks \in Nat /\ ms[i].thread.threads \in Nat
      BY <2>1 DEF MinerSet, BoundThreads
    <2> DEFINE b == ms[i].thread.blocks
               n == ms[i].thread.threads
               h == HashMemory(launchKind.algo) + IF launchKind.algo = "HEAVY" THEN 110 ELSE 91
    <2>3. size(i) = b * n * h /\ h \in Nat
      BY HashTakes DEF OnRig
    <2>4. b \in Nat /\ n \in Nat
      BY <2>2
    <2> HIDE DEF b, n, h, size
    <2> QED BY <2>3, <2>4
  <1> HIDE DEF size
  <1>3. FreeOn(ms, index) = CardAt(index).free - iter[S]
    BY DEF FreeOn, FoldSet, MapThenFoldSet, size
  <1>4. \E f : Equation(f)
    <2>1. \A T \in SUBSET S : T # {} => c[T] \in T
      OBVIOUS
    <2>2. G \in [S -> [Nat -> Nat]]
      BY <1>2
    <2>3. \A T \in SUBSET S : c[T] = CHOOSE i \in T : TRUE
      OBVIOUS
    <2>4. \A i \in S, v \in Nat : G[i][v] = v + size(i)
      OBVIOUS
    <2> HIDE DEF c, G
    <2>5. PICK f : Recurses(f, S, c, Nat, 0, G)
      <3> HIDE DEF S
      <3> QED BY <1>1, <2>1, <2>2, SubsetRecursion
    <2>6. f \in [SUBSET S -> Nat]
      BY <2>5 DEF Recurses
    <2>7. ASSUME NEW T \in SUBSET S
          PROVE  f[T] = IF T = {} THEN 0
                        ELSE f[T \ {CHOOSE i \in T : TRUE}] + size(CHOOSE i \in T : TRUE)
      <3>1. CASE T # {}
        <4>1. f[T] = G[c[T]][f[T \ {c[T]}]]
          BY <2>5, <3>1 DEF Recurses
        <4>2. c[T] \in S /\ T \ {c[T]} \in SUBSET S
          BY <2>1, <3>1
        <4>3. f[T \ {c[T]}] \in Nat
          BY <2>6, <4>2
        <4>4. f[T] = f[T \ {c[T]}] + size(c[T])
          BY <2>4, <4>1, <4>2, <4>3
        <4> QED BY <2>3, <3>1, <4>4
      <3>2. CASE T = {}
        BY <2>5, <3>2 DEF Recurses
      <3> QED BY <3>1, <3>2
    <2> HIDE DEF S
    <2>8. f = [T \in SUBSET S |->
                IF T = {} THEN 0 ELSE f[T \ {CHOOSE i \in T : TRUE}] + size(CHOOSE i \in T : TRUE)]
      BY <2>6, <2>7
    <2> QED BY <2>8
  <1>5. Equation(iter)
    <2> HIDE DEF Equation
    <2> QED BY <1>4
  <1> HIDE DEF iter
  <1>6. iter[S] \in Nat
    <2> DEFINE B == {T \in SUBSET S : iter[T] \notin Nat}
    <2>1. SUFFICES ASSUME B # {} PROVE FALSE
      OBVIOUS
    <2>2. PICK T \in B : \A U \in B : ~(U \subseteq T /\ U # T)
      <3>1. B \in SUBSET (SUBSET S)
        OBVIOUS
      <3> HIDE DEF B, S
      <3> QED BY <1>1, <2>1, <3>1, MinimalSubset
    <2> DEFINE x == CHOOSE i \in T : TRUE
    <2>3. T # {}
      BY <1>5
    <2>4. x \in T /\ x \in S
      BY <2>3
    <2>5. iter[T] = iter[T \ {x}] + size(x)
      BY <1>5, <2>3
    <2> HIDE DEF x, S
    <2>6. T \ {x} \notin B /\ T \ {x} \in SUBSET S
      BY <2>2, <2>4
    <2> QED BY <1>2, <2>2, <2>4, <2>5, <2>6
  <1>7. S = {} => iter[S] = 0
    BY <1>5
  <1>8. CardAt(index).free \in Nat
    BY CardFacts DEF Card
  <1> HIDE DEF S
  <1> QED BY <1>3, <1>6, <1>7, <1>8 DEF S

MostMemory == 2147483647

(* What may be taken of a card is a number, which is not negative.           *)
LEMMA LimitedNumber ==
    ASSUME NEW card \in Card, NEW free \in Int
    PROVE  /\ maxMemUsage(card) \in Nat /\ Reserved \in Nat
           /\ limitedMemory(card, free) \in Nat
  <1>1. Reserved \in Nat
    BY SMT DEF Reserved, Words8, MiB
  <1>2. GiB \in Nat /\ TiB \in Nat
    BY SMT DEF GiB, TiB, Words8, MiB
  <1>3. maxMemUsage(card) \in Nat
    <2>1. 2 * GiB \in Nat /\ 4 * GiB \in Nat
      BY <1>2
    <2>2. CASE card.major = 6 /\ card.mpcount < 15
      BY <2>1, <2>2 DEF maxMemUsage
    <2>3. CASE card.major = 6 /\ card.mpcount \in 15..20
      BY <2>1, <2>3 DEF maxMemUsage
    <2>4. CASE card.major \in 3..5
      BY <2>1, <2>4 DEF maxMemUsage
    <2>5. CASE card.major = 2
      BY <1>2, <2>5 DEF maxMemUsage
    <2>6. CASE /\ ~(card.major = 6 /\ card.mpcount < 15) /\ ~(card.major = 6 /\ card.mpcount \in 15..20)
               /\ card.major \notin 3..5 /\ card.major # 2
      BY <1>2, <2>6 DEF maxMemUsage
    <2> QED BY <2>2, <2>3, <2>4, <2>5, <2>6
  <1>4. limitedMemory(card, free) \in Nat
    <2> DEFINE most == maxMemUsage(card)
               kept == Reserved
    <2>1. most \in Nat /\ kept \in Nat
      BY <1>1, <1>3
    <2>2. limitedMemory(card, free) = IF free < kept \/ most < free - kept THEN most ELSE free - kept
      BY DEF limitedMemory
    <2> HIDE DEF most, kept
    <2> QED BY <2>1, <2>2
  <1> QED BY <1>1, <1>3, <1>4

(* So are the blocks and the threads that are chosen.                        *)
LEMMA AutoNumbers ==
    ASSUME OnRig, NEW card \in Card, NEW blocks \in Nat \ {0}, NEW free \in Int, NEW v2
    PROVE  AutoLaunch(card, blocks, free, v2).blocks \in Nat /\ AutoLaunch(card, blocks, free, v2).threads \in Nat
  <1> DEFINE limited == limitedMemory(card, free)
             per == perThread(launchKind.algo)
             most == (limited \div per) \div blocks
             even == 2 * (most \div 2)
  <1>1. limited \in Nat
    BY LimitedNumber
  <1>2. per \in Nat \ {0}
    <2>1. launchKind.algo \in Algo
      BY DEF OnRig
    <2> QED BY <2>1, HashTakes
  <1>3. even \in Nat
    <2>1. limited \div per \in Nat
      BY <1>1, <1>2, Quotient
    <2>2. most \in Nat
      BY <2>1, Quotient
    <2>3. most \div 2 \in Nat
      BY <2>2, Quotient
    <2> QED BY <2>3
  <1>4. card.mpcount \in Nat
    BY DEF Card
  <1>5. CASE v2 /\ card.major < 6 /\ OldCardFits(card, limited)
    <2>1. AutoLaunch(card, blocks, free, v2) = [blocks |-> 8 * card.mpcount, threads |-> 4]
      BY <1>5 DEF AutoLaunch
    <2> QED BY <1>4, <2>1
  <1>6. CASE ~(v2 /\ card.major < 6 /\ OldCardFits(card, limited))
    <2>1. AutoLaunch(card, blocks, free, v2) =
            [blocks |-> blocks, threads |-> IF card.major = 2 /\ even > 64 THEN 64 ELSE even]
      BY <1>6 DEF AutoLaunch
    <2> HIDE DEF even
    <2> QED BY <1>3, <2>1
  <1> QED BY <1>5, <1>6

-----------------------------------------------------------------------------
(* cudaDeviceReset loses memory, and changes nothing else.                   *)
OnlyLost(ms, after) ==
    /\ after \in Seq(MinerSet) /\ Len(after) = Len(ms)
    /\ \A i \in 1..Len(ms) :
        /\ after[i].thread = ms[i].thread
        /\ after[i].memory # ms[i].memory => ms[i].memory = "held" /\ after[i].memory = "lost"

LEMMA LostNothing ==
    ASSUME NEW ms \in Seq(MinerSet)
    PROVE  OnlyLost(ms, ms)
  BY DEF OnlyLost

LEMMA LostMore ==
    ASSUME NEW ms \in Seq(MinerSet), NEW one, NEW two, OnlyLost(ms, one), OnlyLost(one, two)
    PROVE  OnlyLost(ms, two)
  BY DEF OnlyLost

LEMMA ResetLoses ==
    ASSUME NEW ms \in Seq(MinerSet), NEW index
    PROVE  /\ OnlyLost(ms, Reset(ms, index))
           /\ \A i \in 1..Len(ms) : ms[i].thread.index # index => Reset(ms, index)[i] = ms[i]
           /\ Holding(Reset(ms, index), index) = {}
  <1> DEFINE after == Reset(ms, index)
  <1>1. DOMAIN ms = 1..Len(ms) /\ Len(ms) \in Nat /\ \A i \in 1..Len(ms) : ms[i] \in MinerSet
    BY ElementOfSeq, LenProperties
  <1>2. ASSUME NEW i \in 1..Len(ms)
        PROVE  /\ after[i] \in MinerSet /\ after[i].thread = ms[i].thread
               /\ after[i].memory = IF ms[i].memory = "held" /\ ms[i].thread.index = index THEN "lost"
                                    ELSE ms[i].memory
               /\ ms[i].thread.index # index => after[i] = ms[i]
    <2>1. i \in DOMAIN ms /\ ms[i] \in MinerSet
      BY <1>1
    <2>2. after[i] = IF i \in Holding(ms, index) THEN [ms[i] EXCEPT !.memory = "lost"] ELSE ms[i]
      BY <2>1 DEF Reset
    <2>3. i \in Holding(ms, index) <=> ms[i].memory = "held" /\ ms[i].thread.index = index
      BY <2>1 DEF Holding
    <2> HIDE DEF after
    <2> QED BY <2>1, <2>2, <2>3 DEF MinerSet
  <1>3. after = [i \in 1..Len(ms) |-> after[i]]
    BY <1>1 DEF Reset
  <1> HIDE DEF after
  <1>4. after \in Seq(MinerSet) /\ Len(after) = Len(ms) /\ DOMAIN after = 1..Len(ms)
    BY <1>1, <1>2, <1>3
  <1>5. OnlyLost(ms, after)
    BY <1>2, <1>4 DEF OnlyLost
  <1>6. Holding(after, index) = {}
    BY <1>2, <1>4 DEF Holding
  <1> QED BY <1>2, <1>5, <1>6 DEF after

-----------------------------------------------------------------------------
(* What cuda_get_deviceinfo accepts is settled; it resets the card only for *)
(* a launch that leaves the threads open.                                    *)
LEMMA DeviceSettles ==
    ASSUME OnRig, NEW ms \in Seq(MinerSet), NEW t \in Requests, NEW v2
    PROVE  LET info == DeviceInfo(ms, t, v2)
           IN  /\ info.ok => info.thread \in Settled
               /\ info.ok => info.thread.index = t.index
               /\ OnlyLost(ms, info.miners)
               /\ t.threads # -1 => info.miners = ms
  <1> DEFINE exists == t.index \in 0..(CardCount - 1)
             card == CardAt(t.index)
             blocks == IF t.blocks = -1 THEN card.mpcount * (IF card.major < 3 THEN 2 ELSE 3) ELSE t.blocks
             auto == AutoLaunch(card, blocks, FreeOn(ms, t.index), v2)
  <1>1. /\ t.threads \in Nat \cup {-1} /\ t.blocks \in Nat \cup {-1} /\ (t.threads = -1 => t.blocks # 0)
        /\ t.index \in Int
    BY DEF Requests
  <1>2. ASSUME exists
        PROVE  t.index \in CardNumbers /\ card \in Card /\ blocks \in Nat /\ (t.threads = -1 => blocks # 0)
    <2>1. t.index \in CardNumbers /\ card \in Card
      BY <1>2, CardFacts DEF CardNumbers
    <2>2. card.mpcount \in Nat \ {0}
      BY <2>1 DEF Card
    <2> QED BY <1>1, <2>1, <2>2
  <1>3. ASSUME exists, NEW b \in Nat, NEW n \in Nat
        PROVE  /\ [t EXCEPT !.blocks = b, !.threads = n] \in Settled
               /\ [t EXCEPT !.blocks = b, !.threads = n].index = t.index
    <2>1. t.index \in CardNumbers
      BY <1>2, <1>3
    <2> DEFINE u == [t EXCEPT !.blocks = b, !.threads = n]
    <2>2. t \in [index : Int, threads : Nat \cup {-1}, blocks : Nat \cup {-1}, bfactor : Nat, bsleep : Nat,
                 syncMode : 0..3, affinity : Int, nvmlId : {-1}]
      BY DEF Requests
    <2>3. u = [index |-> t.index, threads |-> n, blocks |-> b, bfactor |-> t.bfactor, bsleep |-> t.bsleep,
               syncMode |-> t.syncMode, affinity |-> t.affinity, nvmlId |-> t.nvmlId]
      <3>1. t = [index |-> t.index, threads |-> t.threads, blocks |-> t.blocks, bfactor |-> t.bfactor,
                 bsleep |-> t.bsleep, syncMode |-> t.syncMode, affinity |-> t.affinity,
                 nvmlId |-> t.nvmlId]
        BY <2>2
      <3>2. /\ u = [f \in DOMAIN t |-> IF f = "threads" THEN n ELSE IF f = "blocks" THEN b ELSE t[f]]
            /\ DOMAIN t = {"index", "threads", "blocks", "bfactor", "bsleep", "syncMode", "affinity", "nvmlId"}
        BY <2>2
      <3> QED BY <3>1, <3>2
    <2>4. t.bfactor \in Nat /\ t.bsleep \in Nat /\ t.syncMode \in 0..3 /\ t.affinity \in Int /\ t.nvmlId = -1
      BY <2>2
    <2> HIDE DEF u
    <2>5. u \in BoundThreads /\ u.nvmlId = -1 /\ u.index = t.index
      BY <1>3, <2>1, <2>3, <2>4 DEF BoundThreads
    <2> QED BY <2>5 DEF Settled, u
  <1>4. CASE ~exists
    <2>1. DeviceInfo(ms, t, v2) = [ok |-> FALSE, thread |-> t, miners |-> ms]
      BY <1>4 DEF DeviceInfo
    <2> QED BY <2>1, LostNothing
  <1>5. CASE exists /\ t.threads # -1
    <2>1. DeviceInfo(ms, t, v2) = [ok |-> TRUE, thread |-> [t EXCEPT !.blocks = blocks], miners |-> ms]
      BY <1>5 DEF DeviceInfo
    <2> HIDE DEF blocks
    <2>2. blocks \in Nat /\ t.threads \in Nat
      BY <1>1, <1>2, <1>5
    <2>3. [t EXCEPT !.blocks = blocks] = [t EXCEPT !.blocks = blocks, !.threads = t.threads]
      BY DEF Requests
    <2> DEFINE info == DeviceInfo(ms, t, v2)
    <2>4. info.thread = [t EXCEPT !.blocks = blocks, !.threads = t.threads] /\ info.miners = ms
      BY <2>1, <2>3
    <2>5. info.thread \in Settled /\ info.thread.index = t.index
      BY <1>3, <1>5, <2>2, <2>4
    <2> QED BY <2>4, <2>5, LostNothing
  <1>6. CASE exists /\ t.threads = -1 /\ ~card.usable
    <2>1. DeviceInfo(ms, t, v2) = [ok |-> FALSE, thread |-> t, miners |-> ms]
      BY <1>6 DEF DeviceInfo
    <2> QED BY <1>6, <2>1, LostNothing
  <1>7. CASE exists /\ t.threads = -1 /\ card.usable
    <2>1. DeviceInfo(ms, t, v2) = [ok |-> TRUE, miners |-> Reset(ms, t.index),
                  thread |-> [t EXCEPT !.blocks = auto.blocks, !.threads = auto.threads]]
      BY <1>7 DEF DeviceInfo
    <2>2. auto.blocks \in Nat /\ auto.threads \in Nat
      <3>1. FreeOn(ms, t.index) \in Int /\ card \in Card /\ blocks \in Nat \ {0}
        BY <1>2, <1>7, FreeNumber
      <3> HIDE DEF card, blocks
      <3> QED BY <3>1, AutoNumbers
    <2>3. OnlyLost(ms, Reset(ms, t.index))
      BY ResetLoses
    <2> DEFINE info == DeviceInfo(ms, t, v2)
    <2> HIDE DEF auto
    <2>4. info.thread = [t EXCEPT !.blocks = auto.blocks, !.threads = auto.threads]
      BY <2>1
    <2>5. info.thread \in Settled /\ info.thread.index = t.index
      BY <1>3, <1>7, <2>2, <2>4
    <2>6. OnlyLost(ms, info.miners)
      BY <2>1, <2>3
    <2> QED BY <1>7, <2>5, <2>6
  <1> QED BY <1>4, <1>5, <1>6, <1>7

(* A launch that is taken is one thread more.                                *)
LEMMA LaunchedIn ==
    ASSUME OnRig, NEW s \in Lists, NEW t \in Requests, NEW v2
    PROVE  /\ Launched(s, t, v2) \in Lists
           /\ OnlyLost(s.miners, Launched(s, t, v2).miners)
           /\ t.threads # -1 => Launched(s, t, v2).miners = s.miners
           /\ LET info == DeviceInfo(s.miners, t, v2)
              IN  Launched(s, t, v2).threads =
                    IF info.ok THEN Append(s.threads, info.thread) ELSE s.threads
  <1> DEFINE info == DeviceInfo(s.miners, t, v2)
  <1>1. s.threads \in Seq(Settled) /\ s.miners \in Seq(MinerSet)
    BY DEF Lists
  <1>2. /\ info.ok => info.thread \in Settled
        /\ OnlyLost(s.miners, info.miners)
        /\ t.threads # -1 => info.miners = s.miners
    BY <1>1, DeviceSettles
  <1>3. Launched(s, t, v2) =
            IF info.ok THEN [threads |-> Append(s.threads, info.thread), miners |-> info.miners] ELSE s
    BY DEF Launched
  <1>4. OnlyLost(s.miners, s.miners)
    BY <1>1, LostNothing
  <1>5. info.miners \in Seq(MinerSet)
    BY <1>2 DEF OnlyLost
  <1> HIDE DEF info
  <1>6. Launched(s, t, v2) \in Lists
    BY <1>1, <1>2, <1>3, <1>5 DEF Lists
  <1> QED BY <1>2, <1>3, <1>4, <1>6 DEF info

(* The threads of a file, each as the constructor makes it.                  *)
LEMMA ReadsThread ==
    ASSUME NEW object \in ThreadObjects
    PROVE  CudaThread(object) =
            [index |-> object.index, threads |-> object.threads, blocks |-> object.blocks,
             bfactor |-> setBFactor(object.bfactor), bsleep |-> object.bsleep,
             syncMode |-> IF object.sync_mode > 3 THEN 3 ELSE object.sync_mode,
             affinity |-> object.affine_to_cpu, nvmlId |-> -1]
  BY DEF CudaThread, Thread

LEMMA ParsedIn ==
    ASSUME OnRig, NEW s \in Lists, NEW object \in Objects
    PROVE  /\ parseThread(s, object) \in Lists
           /\ OnlyLost(s.miners, parseThread(s, object).miners)
  <1> DEFINE t == CudaThread(object)
             valid == t.blocks >= -1 /\ t.threads >= -1 /\ t.bsleep >= 0
  <1>1. object \in ThreadObjects /\ (object.threads = -1 => object.blocks # 0)
    BY DEF Objects
  <1>2. ASSUME valid PROVE t \in Requests
    <2>1. t = [index |-> object.index, threads |-> object.threads, blocks |-> object.blocks,
               bfactor |-> setBFactor(object.bfactor), bsleep |-> object.bsleep,
               syncMode |-> IF object.sync_mode > 3 THEN 3 ELSE object.sync_mode,
               affinity |-> object.affine_to_cpu, nvmlId |-> -1]
      BY <1>1, ReadsThread
    <2>2. /\ object.index \in Nat /\ object.threads \in Int /\ object.blocks \in Int
          /\ object.bfactor \in Int /\ object.bsleep \in Int /\ object.sync_mode \in Nat
          /\ object.affine_to_cpu \in Int
      BY <1>1 DEF ThreadObjects
    <2>3. setBFactor(object.bfactor) \in Nat
      BY <2>2 DEF setBFactor
    <2> HIDE DEF t
    <2>4. object.threads \in Nat \cup {-1} /\ object.blocks \in Nat \cup {-1} /\ object.bsleep \in Nat
      BY <1>2, <2>1, <2>2
    <2>5. (IF object.sync_mode > 3 THEN 3 ELSE object.sync_mode) \in 0..3
      BY <2>2
    <2> QED BY <1>1, <2>1, <2>2, <2>3, <2>4, <2>5 DEF Requests
  <1>3. parseThread(s, object) = IF valid THEN Launched(s, t, FALSE) ELSE s
    BY DEF parseThread
  <1>4. OnlyLost(s.miners, s.miners)
    BY LostNothing DEF Lists
  <1> HIDE DEF t
  <1> QED BY <1>2, <1>3, <1>4, LaunchedIn

(* One launch after the other.                                              *)
LEMMA ConfiguredFolds ==
    ASSUME OnRig, NEW v2, NEW s \in Lists, NEW list \in Seq(Requests)
    PROVE  \E F : /\ F[0] = s /\ \A k \in 0..Len(list) : F[k] \in Lists
                  /\ \A k \in 1..Len(list) : F[k] = Launched(F[k - 1], list[k], v2)
                  /\ F[Len(list)] = Configured(s, list, v2)
  <1> DEFINE n == Len(list)
             V == Lists
             G == [i \in 1..n |-> [v \in V |-> Launched(v, list[i], v2)]]
             Equation(f) ==
                 f = [T \in SUBSET DOMAIN list |-> IF T = {} THEN s ELSE Launched(f[T \ {Max(T)}], list[Max(T)], v2)]
             iter == CHOOSE f : Equation(f)
  <1>1. n \in Nat /\ DOMAIN list = 1..n /\ \A i \in 1..n : list[i] \in Requests
    BY LenProperties, ElementOfSeq
  <1>2. s \in V /\ \A v \in V, x \in Requests : Launched(v, x, v2) \in V
    BY LaunchedIn
  <1> HIDE DEF V
  <1>3. Configured(s, list, v2) = iter[DOMAIN list]
    BY DEF Configured, FoldLeft, MapThenFoldSet
  <1>4. \E f : Equation(f)
    <2>1. s \in V /\ G \in [1..n -> [V -> V]]
      BY <1>1, <1>2
    <2>2. PICK f : Folds(f, n, V, s, G)
      <3> HIDE DEF n, G
      <3> QED BY <1>1, <2>1, FoldExists
    <2>3. ASSUME NEW T \in SUBSET (1..n)
          PROVE  f[T] = IF T = {} THEN s ELSE Launched(f[T \ {Max(T)}], list[Max(T)], v2)
      <3>1. CASE T # {}
        <4>1. Max(T) \in 1..n /\ f[T \ {Max(T)}] \in V
          BY <1>1, <2>2, <3>1, MaximumOf DEF Folds
        <4> QED BY <2>2, <3>1, <4>1 DEF Folds
      <3>2. CASE T = {}
        BY <2>2, <3>2 DEF Folds
      <3> QED BY <3>1, <3>2
    <2>4. f = [T \in SUBSET (1..n) |-> IF T = {} THEN s ELSE Launched(f[T \ {Max(T)}], list[Max(T)], v2)]
      BY <2>2, <2>3 DEF Folds
    <2> QED BY <1>1, <2>4
  <1>5. Equation(iter)
    BY <1>4
  <1> DEFINE F == [k \in 0..n |-> iter[1..k]]
  <1> HIDE DEF iter
  <1>6. F[0] = s
    BY <1>1, <1>5
  <1>7. ASSUME NEW k \in 1..n PROVE F[k] = Launched(F[k - 1], list[k], v2)
    <2> DEFINE T == 1..k
    <2>1. Max(T) = k /\ T \ {k} = 1..(k - 1) /\ T # {}
      <3>1. k \in Nat \ {0}
        BY <1>1
      <3> QED BY <3>1, MaxOfInterval, Zenon
    <2>2. T \in SUBSET (1..n) /\ k - 1 \in 0..n /\ k \in 0..n
      BY <1>1
    <2> HIDE DEF T
    <2>3. iter[T] = IF T = {} THEN s ELSE Launched(iter[T \ {Max(T)}], list[Max(T)], v2)
      BY <1>1, <1>5, <2>2
    <2> QED BY <2>1, <2>2, <2>3 DEF T
  <1>8. F[n] = Configured(s, list, v2)
    BY <1>1, <1>3
  <1>9. \A k \in 0..n : F[k] \in V
    <2> DEFINE W == {k \in 0..n : F[k] \in V}
    <2> HIDE DEF F, n
    <2>1. 0 \in W
      BY <1>1, <1>2, <1>6
    <2>2. ASSUME NEW k \in 1..n, k - 1 \in W PROVE k \in W
      BY <1>1, <1>2, <1>7, <2>2
    <2> HIDE DEF W
    <2>3. \A k \in 0..n : k \in W
      BY <1>1, <2>1, <2>2, UpTo
    <2> QED BY <2>3 DEF W
  <1> QED BY <1>1, <1>6, <1>7, <1>8, <1>9 DEF V

(* One object of a file after the other.                                     *)
LEMMA ParsedThreadsFold ==
    ASSUME OnRig, NEW s \in Lists, NEW list \in Seq(Objects)
    PROVE  \E F : /\ F[0] = s /\ \A k \in 0..Len(list) : F[k] \in Lists
                  /\ \A k \in 1..Len(list) : F[k] = parseThread(F[k - 1], list[k])
                  /\ F[Len(list)] = parseThreads(s, list)
  <1> DEFINE n == Len(list)
             V == Lists
             G == [i \in 1..n |-> [v \in V |-> parseThread(v, list[i])]]
             Equation(f) ==
                 f = [T \in SUBSET DOMAIN list |-> IF T = {} THEN s ELSE parseThread(f[T \ {Max(T)}], list[Max(T)])]
             iter == CHOOSE f : Equation(f)
  <1>1. n \in Nat /\ DOMAIN list = 1..n /\ \A i \in 1..n : list[i] \in Objects
    BY LenProperties, ElementOfSeq
  <1>2. s \in V /\ \A v \in V, x \in Objects : parseThread(v, x) \in V
    BY ParsedIn
  <1> HIDE DEF V
  <1>3. parseThreads(s, list) = iter[DOMAIN list]
    BY DEF parseThreads, FoldLeft, MapThenFoldSet
  <1>4. \E f : Equation(f)
    <2>1. s \in V /\ G \in [1..n -> [V -> V]]
      BY <1>1, <1>2
    <2>2. PICK f : Folds(f, n, V, s, G)
      <3> HIDE DEF n, G
      <3> QED BY <1>1, <2>1, FoldExists
    <2>3. ASSUME NEW T \in SUBSET (1..n)
          PROVE  f[T] = IF T = {} THEN s ELSE parseThread(f[T \ {Max(T)}], list[Max(T)])
      <3>1. CASE T # {}
        <4>1. Max(T) \in 1..n /\ f[T \ {Max(T)}] \in V
          BY <1>1, <2>2, <3>1, MaximumOf DEF Folds
        <4> QED BY <2>2, <3>1, <4>1 DEF Folds
      <3>2. CASE T = {}
        BY <2>2, <3>2 DEF Folds
      <3> QED BY <3>1, <3>2
    <2>4. f = [T \in SUBSET (1..n) |-> IF T = {} THEN s ELSE parseThread(f[T \ {Max(T)}], list[Max(T)])]
      BY <2>2, <2>3 DEF Folds
    <2> QED BY <1>1, <2>4
  <1>5. Equation(iter)
    BY <1>4
  <1> DEFINE F == [k \in 0..n |-> iter[1..k]]
  <1> HIDE DEF iter
  <1>6. F[0] = s
    BY <1>1, <1>5
  <1>7. ASSUME NEW k \in 1..n PROVE F[k] = parseThread(F[k - 1], list[k])
    <2> DEFINE T == 1..k
    <2>1. Max(T) = k /\ T \ {k} = 1..(k - 1) /\ T # {}
      <3>1. k \in Nat \ {0}
        BY <1>1
      <3> QED BY <3>1, MaxOfInterval, Zenon
    <2>2. T \in SUBSET (1..n) /\ k - 1 \in 0..n /\ k \in 0..n
      BY <1>1
    <2> HIDE DEF T
    <2>3. iter[T] = IF T = {} THEN s ELSE parseThread(iter[T \ {Max(T)}], list[Max(T)])
      BY <1>1, <1>5, <2>2
    <2> QED BY <2>1, <2>2, <2>3 DEF T
  <1>8. F[n] = parseThreads(s, list)
    BY <1>1, <1>3
  <1>9. \A k \in 0..n : F[k] \in V
    <2> DEFINE W == {k \in 0..n : F[k] \in V}
    <2> HIDE DEF F, n
    <2>1. 0 \in W
      BY <1>1, <1>2, <1>6
    <2>2. ASSUME NEW k \in 1..n, k - 1 \in W PROVE k \in W
      BY <1>1, <1>2, <1>7, <2>2
    <2> HIDE DEF W
    <2>3. \A k \in 0..n : k \in W
      BY <1>1, <2>1, <2>2, UpTo
    <2> QED BY <2>3 DEF W
  <1> QED BY <1>1, <1>6, <1>7, <1>8, <1>9 DEF V

(* One number of --cuda-devices after the other.                             *)
LEMMA DevicesFold ==
    ASSUME OnRig, NEW s \in Seq(Int), NEW list \in Seq(Int)
    PROVE  \E F : /\ F[0] = s /\ \A k \in 0..Len(list) : F[k] \in Seq(Int)
                  /\ \A k \in 1..Len(list) : F[k] = parseDevice(F[k - 1], list[k])
                  /\ F[Len(list)] = FoldLeft(parseDevice, s, list)
  <1> DEFINE n == Len(list)
             V == Seq(Int)
             G == [i \in 1..n |-> [v \in V |-> parseDevice(v, list[i])]]
             Equation(f) ==
                 f = [T \in SUBSET DOMAIN list |-> IF T = {} THEN s ELSE parseDevice(f[T \ {Max(T)}], list[Max(T)])]
             iter == CHOOSE f : Equation(f)
  <1>1. n \in Nat /\ DOMAIN list = 1..n /\ \A i \in 1..n : list[i] \in Int
    BY LenProperties, ElementOfSeq
  <1>2. s \in V /\ \A v \in V, x \in Int : parseDevice(v, x) \in V
    BY CardFacts DEF parseDevice
  <1> HIDE DEF V
  <1>3. FoldLeft(parseDevice, s, list) = iter[DOMAIN list]
    BY DEF FoldLeft, MapThenFoldSet
  <1>4. \E f : Equation(f)
    <2>1. s \in V /\ G \in [1..n -> [V -> V]]
      BY <1>1, <1>2
    <2>2. PICK f : Folds(f, n, V, s, G)
      <3> HIDE DEF n, G
      <3> QED BY <1>1, <2>1, FoldExists
    <2>3. ASSUME NEW T \in SUBSET (1..n)
          PROVE  f[T] = IF T = {} THEN s ELSE parseDevice(f[T \ {Max(T)}], list[Max(T)])
      <3>1. CASE T # {}
        <4>1. Max(T) \in 1..n /\ f[T \ {Max(T)}] \in V
          BY <1>1, <2>2, <3>1, MaximumOf DEF Folds
        <4> QED BY <2>2, <3>1, <4>1 DEF Folds
      <3>2. CASE T = {}
        BY <2>2, <3>2 DEF Folds
      <3> QED BY <3>1, <3>2
    <2>4. f = [T \in SUBSET (1..n) |-> IF T = {} THEN s ELSE parseDevice(f[T \ {Max(T)}], list[Max(T)])]
      BY <2>2, <2>3 DEF Folds
    <2> QED BY <1>1, <2>4
  <1>5. Equation(iter)
    BY <1>4
  <1> DEFINE F == [k \in 0..n |-> iter[1..k]]
  <1> HIDE DEF iter
  <1>6. F[0] = s
    BY <1>1, <1>5
  <1>7. ASSUME NEW k \in 1..n PROVE F[k] = parseDevice(F[k - 1], list[k])
    <2> DEFINE T == 1..k
    <2>1. Max(T) = k /\ T \ {k} = 1..(k - 1) /\ T # {}
      <3>1. k \in Nat \ {0}
        BY <1>1
      <3> QED BY <3>1, MaxOfInterval, Zenon
    <2>2. T \in SUBSET (1..n) /\ k - 1 \in 0..n /\ k \in 0..n
      BY <1>1
    <2> HIDE DEF T
    <2>3. iter[T] = IF T = {} THEN s ELSE parseDevice(iter[T \ {Max(T)}], list[Max(T)])
      BY <1>1, <1>5, <2>2
    <2> QED BY <2>1, <2>2, <2>3 DEF T
  <1>8. F[n] = FoldLeft(parseDevice, s, list)
    BY <1>1, <1>3
  <1>9. \A k \in 0..n : F[k] \in V
    <2> DEFINE W == {k \in 0..n : F[k] \in V}
    <2> HIDE DEF F, n
    <2>1. 0 \in W
      BY <1>1, <1>2, <1>6
    <2>2. ASSUME NEW k \in 1..n, k - 1 \in W PROVE k \in W
      BY <1>1, <1>2, <1>7, <2>2
    <2> HIDE DEF W
    <2>3. \A k \in 0..n : k \in W
      BY <1>1, <2>1, <2>2, UpTo
    <2> QED BY <2>3 DEF W
  <1> QED BY <1>1, <1>6, <1>7, <1>8, <1>9 DEF V

(* A list of launches keeps the miners, but for the memory that is lost.     *)
LEMMA ConfiguredIn ==
    ASSUME OnRig, NEW s \in Lists, NEW list \in Seq(Requests), NEW v2
    PROVE  Configured(s, list, v2) \in Lists /\ OnlyLost(s.miners, Configured(s, list, v2).miners)
  <1>1. PICK F : /\ F[0] = s /\ \A k \in 0..Len(list) : F[k] \in Lists
                 /\ \A k \in 1..Len(list) : F[k] = Launched(F[k - 1], list[k], v2)
                 /\ F[Len(list)] = Configured(s, list, v2)
    BY ConfiguredFolds
  <1> DEFINE n == Len(list)
             W == {k \in 0..n : OnlyLost(s.miners, F[k].miners)}
  <1>2. n \in Nat /\ \A k \in 1..n : list[k] \in Requests
    BY LenProperties, ElementOfSeq
  <1>3. s.miners \in Seq(MinerSet)
    BY DEF Lists
  <1> HIDE DEF n
  <1>4. 0 \in W
    BY <1>1, <1>2, <1>3, LostNothing
  <1>5. ASSUME NEW k \in 1..n, k - 1 \in W PROVE k \in W
    <2>1. F[k - 1] \in Lists /\ list[k] \in Requests /\ F[k] = Launched(F[k - 1], list[k], v2) /\ k \in 0..n
      BY <1>1, <1>2, <1>5 DEF n
    <2>2. OnlyLost(F[k - 1].miners, F[k].miners)
      BY <2>1, LaunchedIn
    <2>3. OnlyLost(s.miners, F[k - 1].miners)
      BY <1>5
    <2> QED BY <1>3, <2>1, <2>2, <2>3, LostMore
  <1>6. \A k \in 0..n : k \in W
    <2> HIDE DEF W
    <2> QED BY <1>2, <1>4, <1>5, UpTo
  <1>7. n \in 0..n
    BY <1>2
  <1> QED BY <1>1, <1>6, <1>7 DEF n

LEMMA ParsedThreadsIn ==
    ASSUME OnRig, NEW s \in Lists, NEW list \in Seq(Objects)
    PROVE  parseThreads(s, list) \in Lists /\ OnlyLost(s.miners, parseThreads(s, list).miners)
  <1>1. PICK F : /\ F[0] = s /\ \A k \in 0..Len(list) : F[k] \in Lists
                 /\ \A k \in 1..Len(list) : F[k] = parseThread(F[k - 1], list[k])
                 /\ F[Len(list)] = parseThreads(s, list)
    BY ParsedThreadsFold
  <1> DEFINE n == Len(list)
             W == {k \in 0..n : OnlyLost(s.miners, F[k].miners)}
  <1>2. n \in Nat /\ \A k \in 1..n : list[k] \in Objects
    BY LenProperties, ElementOfSeq
  <1>3. s.miners \in Seq(MinerSet)
    BY DEF Lists
  <1> HIDE DEF n
  <1>4. 0 \in W
    BY <1>1, <1>2, <1>3, LostNothing
  <1>5. ASSUME NEW k \in 1..n, k - 1 \in W PROVE k \in W
    <2>1. F[k - 1] \in Lists /\ list[k] \in Objects /\ F[k] = parseThread(F[k - 1], list[k]) /\ k \in 0..n
      BY <1>1, <1>2, <1>5 DEF n
    <2>2. OnlyLost(F[k - 1].miners, F[k].miners)
      BY <2>1, ParsedIn
    <2>3. OnlyLost(s.miners, F[k - 1].miners)
      BY <1>5
    <2> QED BY <1>3, <2>1, <2>2, <2>3, LostMore
  <1>6. \A k \in 0..n : k \in W
    <2> HIDE DEF W
    <2> QED BY <1>2, <1>4, <1>5, UpTo
  <1>7. n \in 0..n
    BY <1>2
  <1> QED BY <1>1, <1>6, <1>7 DEF n

-----------------------------------------------------------------------------
(* The command line.                                                         *)
Clis ==
    [devices : Seq(Int), threads : Seq(Nat \cup {-1}), blocks : Seq((Nat \ {0}) \cup {-1}),
     bfactors : Seq(Nat), bsleeps : Seq(Nat), affinity : Seq(Int), maxThreads : Int, maxUsage : Nat]

LEMMA NewCliIn == NewCli \in Clis
  BY DEF NewCli, Clis

LEMMA ConcatIn ==
    ASSUME NEW P, NEW a \in Seq(P), NEW b \in Seq(P)
    PROVE  a \o b \in Seq(P)
  OBVIOUS

LEMMA CliKeeps ==
    ASSUME OnRig, NEW c \in Clis, NEW option, IsLaunchOption(option)
    PROVE  CliParsed(c, option) \in Clis
  <1>0. /\ c.devices \in Seq(Int) /\ c.threads \in Seq(Nat \cup {-1})
        /\ c.blocks \in Seq((Nat \ {0}) \cup {-1}) /\ c.bfactors \in Seq(Nat)
        /\ c.bsleeps \in Seq(Nat) /\ c.affinity \in Seq(Int) /\ c.maxThreads \in Int /\ c.maxUsage \in Nat
    BY DEF Clis
  <1>1. CASE option.key = "cuda-launch"
    <2> DEFINE list == option.value
               more == [i \in DOMAIN list |-> Positive(list[i].threads)]
               wide == [i \in DOMAIN list |-> Positive(list[i].blocks)]
    <2>1. list \in Seq([threads : Int, blocks : Int])
      BY <1>1 DEF IsLaunchOption
    <2>2. Len(list) \in Nat /\ DOMAIN list = 1..Len(list)
          /\ \A i \in 1..Len(list) : list[i] \in [threads : Int, blocks : Int]
      BY <2>1, LenProperties, ElementOfSeq
    <2>3. \A m \in Int : Positive(m) \in (Nat \ {0}) \cup {-1} /\ Positive(m) \in Nat \cup {-1}
      BY DEF Positive
    <2>4. ASSUME NEW i \in 1..Len(list)
          PROVE  Positive(list[i].threads) \in Nat \cup {-1} /\ Positive(list[i].blocks) \in (Nat \ {0}) \cup {-1}
      <3>1. list[i].threads \in Int /\ list[i].blocks \in Int
        BY <2>2
      <3> QED BY <2>3, <3>1
    <2> HIDE DEF list
    <2>5. more \in Seq(Nat \cup {-1}) /\ wide \in Seq((Nat \ {0}) \cup {-1})
      <3>1. more \in [1..Len(list) -> Nat \cup {-1}]
        BY <2>2, <2>4, Zenon
      <3>2. wide \in [1..Len(list) -> (Nat \ {0}) \cup {-1}]
        BY <2>2, <2>4, Zenon
      <3>3. \A S : \A f : f \in [1..Len(list) -> S] => f \in Seq(S)
        <4>1. Len(list) \in Nat
          BY <2>2
        <4> HIDE DEF list
        <4> QED BY <4>1, SeqDef, Zenon
      <3> HIDE DEF more, wide
      <3>4. more \in Seq(Nat \cup {-1})
        BY <3>1, <3>3, Zenon
      <3>5. wide \in Seq((Nat \ {0}) \cup {-1})
        BY <3>2, <3>3, Zenon
      <3> QED BY <3>4, <3>5
    <2>6. CliParsed(c, option) = [c EXCEPT !.threads = c.threads \o more, !.blocks = c.blocks \o wide]
      BY <1>1 DEF CliParsed, parseLaunch, list
    <2> HIDE DEF more, wide
    <2>7. c.threads \o more \in Seq(Nat \cup {-1}) /\ c.blocks \o wide \in Seq((Nat \ {0}) \cup {-1})
      BY <1>0, <2>5, ConcatIn
    <2> QED BY <1>0, <2>6, <2>7 DEF Clis
  <1>2. CASE option.key = "cuda-devices"
    <2>1. option.value \in Seq(Int)
      BY <1>2 DEF IsLaunchOption
    <2> DEFINE chosen == FoldLeft(parseDevice, c.devices, option.value)
    <2>2. chosen \in Seq(Int)
      <3>1. PICK F : /\ \A k \in 0..Len(option.value) : F[k] \in Seq(Int)
                     /\ F[Len(option.value)] = chosen
        BY <1>0, <2>1, DevicesFold, ZenonT(30)
      <3>2. Len(option.value) \in 0..Len(option.value)
        BY <2>1
      <3> QED BY <3>1, <3>2
    <2>3. CliParsed(c, option) = [c EXCEPT !.devices = chosen]
      BY <1>2 DEF CliParsed, parseDevices
    <2> HIDE DEF chosen
    <2> QED BY <2>2, <2>3 DEF Clis
  <1>3. CASE option.key = "cuda-bfactor"
    <2>1. option.value \in Seq(Nat)
      BY <1>3 DEF IsLaunchOption
    <2>2. CliParsed(c, option) = [c EXCEPT !.bfactors = c.bfactors \o option.value]
      BY <1>3 DEF CliParsed
    <2>3. c.bfactors \o option.value \in Seq(Nat)
      BY <1>0, <2>1, ConcatIn
    <2> QED BY <2>2, <2>3 DEF Clis
  <1>4. CASE option.key = "cuda-bsleep"
    <2>1. option.value \in Seq(Nat)
      BY <1>4 DEF IsLaunchOption
    <2>2. CliParsed(c, option) = [c EXCEPT !.bsleeps = c.bsleeps \o option.value]
      BY <1>4 DEF CliParsed
    <2>3. c.bsleeps \o option.value \in Seq(Nat)
      BY <1>0, <2>1, ConcatIn
    <2> QED BY <2>2, <2>3 DEF Clis
  <1>5. CASE option.key = "cuda-affinity"
    <2>1. option.value \in Seq(Int)
      BY <1>5 DEF IsLaunchOption
    <2>2. CliParsed(c, option) = [c EXCEPT !.affinity = c.affinity \o option.value]
      BY <1>5 DEF CliParsed
    <2>3. c.affinity \o option.value \in Seq(Int)
      BY <1>0, <2>1, ConcatIn
    <2> QED BY <2>2, <2>3 DEF Clis
  <1>6. CASE option.key = "cuda-max-threads"
    <2>1. option.value \in Int
      BY <1>6 DEF IsLaunchOption
    <2>2. CliParsed(c, option) = [c EXCEPT !.maxThreads = option.value]
      BY <1>6 DEF CliParsed
    <2> QED BY <2>1, <2>2 DEF Clis
  <1>7. CASE option.key = "max-gpu-usage"
    <2>1. option.value \in Nat
      BY <1>7 DEF IsLaunchOption
    <2>2. CliParsed(c, option) = [c EXCEPT !.maxUsage = option.value]
      BY <1>7 DEF CliParsed
    <2> QED BY <2>1, <2>2 DEF Clis
  <1>8. option.key \in {"cuda-launch", "cuda-devices", "cuda-bfactor", "cuda-bsleep", "cuda-affinity",
                        "cuda-max-threads", "max-gpu-usage"}
    BY DEF IsLaunchOption
  <1> QED BY <1>1, <1>2, <1>3, <1>4, <1>5, <1>6, <1>7, <1>8

LEMMA GetIn ==
    ASSUME NEW P, NEW list \in Seq(P), NEW default \in P, NEW i \in Nat \ {0}
    PROVE  get(list, i, default) \in P
  <1>1. Len(list) \in Nat /\ (list # <<>> => Len(list) > 0) /\ \A k \in 1..Len(list) : list[k] \in P
    BY EmptySeq, LenProperties, ElementOfSeq
  <1>2. CASE list = <<>>
    BY <1>2 DEF get
  <1>3. CASE list # <<>> /\ i > Len(list)
    <2>1. get(list, i, default) = list[Len(list)]
      BY <1>3 DEF get, Last
    <2> QED BY <1>1, <1>3, <2>1
  <1>4. CASE list # <<>> /\ ~(i > Len(list))
    <2>1. get(list, i, default) = list[i]
      BY <1>4 DEF get
    <2>2. i \in 1..Len(list)
      BY <1>1, <1>4
    <2> QED BY <1>1, <2>1, <2>2
  <1> QED BY <1>2, <1>3, <1>4

(* What the options and the automatic choice ask for.                        *)
Automatically(c, i) == Thread(AllCards[i], -1, -1, get(c.bfactors, 1, 0), get(c.bsleeps, 1, 0), -1)

LEMMA AsksFor ==
    ASSUME NEW index \in Int, NEW count \in Nat \cup {-1}, NEW blocks \in (Nat \ {0}) \cup {-1},
           NEW bfactor \in Nat, NEW bsleep \in Nat, NEW affinity \in Int
    PROVE  Thread(index, count, blocks, bfactor, bsleep, affinity) \in Requests
  BY DEF Thread, Requests

LEMMA AllCardsIs ==
    ASSUME OnRig
    PROVE  /\ AllCards \in Seq(Int) /\ Len(AllCards) = CardCount
           /\ \A i \in 1..CardCount : AllCards[i] = i - 1
  BY CardFacts DEF AllCards

LEMMA AutomaticallyIs ==
    ASSUME OnRig, NEW c \in Clis
    PROVE  [i \in 1..CardCount |-> Automatically(c, i)] \in Seq(Requests)
  <1>1. CardCount \in Nat
    BY CardFacts
  <1>2. ASSUME NEW i \in 1..CardCount PROVE Automatically(c, i) \in Requests
    <2>1. AllCards[i] \in Int
      BY <1>1, AllCardsIs
    <2>2. get(c.bfactors, 1, 0) \in Nat /\ get(c.bsleeps, 1, 0) \in Nat
      <3>1. c.bfactors \in Seq(Nat) /\ c.bsleeps \in Seq(Nat)
        BY DEF Clis
      <3>2. 1 \in Nat \ {0} /\ 0 \in Nat
        OBVIOUS
      <3>3. get(c.bfactors, 1, 0) \in Nat
        BY <3>1, <3>2, GetIn
      <3>4. get(c.bsleeps, 1, 0) \in Nat
        BY <3>1, <3>2, GetIn
      <3> QED BY <3>3, <3>4
    <2> QED BY <2>1, <2>2, AsksFor DEF Automatically
  <1> QED BY <1>1, <1>2

LEMMA SetsUp ==
    ASSUME OnRig, NEW c \in Clis, NEW s \in Lists
    PROVE  /\ setup(c, s) \in Lists /\ OnlyLost(s.miners, setup(c, s).miners)
           /\ autoConf(c, s) \in Lists /\ OnlyLost(s.miners, autoConf(c, s).miners)
  <1> DEFINE devices == IF c.devices = <<>> THEN AllCards ELSE c.devices
             wanted(i) == Thread(devices[i], get(c.threads, i, -1), get(c.blocks, i, -1),
                                 get(c.bfactors, i, 0), get(c.bsleeps, i, 0), get(c.affinity, i, -1))
             list == [i \in DOMAIN devices |-> wanted(i)]
  <1>1. devices \in Seq(Int)
    BY AllCardsIs DEF Clis
  <1>2. Len(devices) \in Nat /\ DOMAIN devices = 1..Len(devices) /\ \A i \in 1..Len(devices) : devices[i] \in Int
    BY <1>1, LenProperties, ElementOfSeq
  <1> HIDE DEF devices
  <1>3. ASSUME NEW i \in 1..Len(devices) PROVE wanted(i) \in Requests
    <2>1. /\ c.threads \in Seq(Nat \cup {-1}) /\ c.blocks \in Seq((Nat \ {0}) \cup {-1})
          /\ c.bfactors \in Seq(Nat) /\ c.bsleeps \in Seq(Nat) /\ c.affinity \in Seq(Int)
      BY DEF Clis
    <2>2. i \in Nat \ {0}
      BY <1>2
    <2>3. get(c.threads, i, -1) \in Nat \cup {-1}
      <3>1. -1 \in Nat \cup {-1}
        OBVIOUS
      <3> QED BY <2>1, <2>2, <3>1, GetIn
    <2>4. get(c.blocks, i, -1) \in (Nat \ {0}) \cup {-1}
      <3>1. -1 \in (Nat \ {0}) \cup {-1}
        OBVIOUS
      <3> QED BY <2>1, <2>2, <3>1, GetIn
    <2>5. get(c.bfactors, i, 0) \in Nat /\ get(c.bsleeps, i, 0) \in Nat
      BY <2>1, <2>2, GetIn
    <2>6. get(c.affinity, i, -1) \in Int
      <3>1. -1 \in Int
        OBVIOUS
      <3> QED BY <2>1, <2>2, <3>1, GetIn
    <2> QED BY <1>2, <2>3, <2>4, <2>5, <2>6, AsksFor
  <1>4. list \in Seq(Requests)
    <2> HIDE DEF wanted
    <2> QED BY <1>2, <1>3
  <1>5. setup(c, s) = Configured(s, list, isCNv2)
    BY DEF setup, devices
  <1>6. autoConf(c, s) = Configured(s, [i \in 1..CardCount |-> Automatically(c, i)], isCNv2)
    BY DEF autoConf, Automatically
  <1> HIDE DEF list
  <1> QED BY <1>4, <1>5, <1>6, AutomaticallyIs, ConfiguredIn

(* The number that bind gives a thread: none, or the last of those whose card
   is at the thread's address with no thread before it there. *)
Ids(ts, i) == {n \in DOMAIN rig.nvml : i \in BoundAt(ts, n) /\ \A j \in BoundAt(ts, n) : i <= j}

(* A thread without its number.                                              *)
Unbound(t) == [t EXCEPT !.nvmlId = -1]

LEMMA Numbered ==
    ASSUME NEW t \in BoundThreads, NEW id
    PROVE  [t EXCEPT !.nvmlId = id] =
            [index |-> t.index, threads |-> t.threads, blocks |-> t.blocks, bfactor |-> t.bfactor,
             bsleep |-> t.bsleep, syncMode |-> t.syncMode, affinity |-> t.affinity, nvmlId |-> id]
  <1> DEFINE u == [t EXCEPT !.nvmlId = id]
  <1>1. /\ t = [index |-> t.index, threads |-> t.threads, blocks |-> t.blocks, bfactor |-> t.bfactor,
                bsleep |-> t.bsleep, syncMode |-> t.syncMode, affinity |-> t.affinity, nvmlId |-> t.nvmlId]
        /\ DOMAIN t = {"index", "threads", "blocks", "bfactor", "bsleep", "syncMode", "affinity", "nvmlId"}
    BY DEF BoundThreads
  <1>2. u = [f \in DOMAIN t |-> IF f = "nvmlId" THEN id ELSE t[f]]
    BY <1>1
  <1> HIDE DEF u
  <1> QED BY <1>1, <1>2 DEF u

LEMMA BoundParts ==
    ASSUME NEW t \in BoundThreads, NEW id \in Int
    PROVE  /\ [t EXCEPT !.nvmlId = id] \in BoundThreads
           /\ [t EXCEPT !.nvmlId = id].index = t.index
           /\ Unbound([t EXCEPT !.nvmlId = id]) = Unbound(t)
  <1> DEFINE u == [t EXCEPT !.nvmlId = id]
  <1>1. u = [index |-> t.index, threads |-> t.threads, blocks |-> t.blocks, bfactor |-> t.bfactor,
             bsleep |-> t.bsleep, syncMode |-> t.syncMode, affinity |-> t.affinity, nvmlId |-> id]
    BY Numbered
  <1> HIDE DEF u
  <1>2. u \in BoundThreads /\ u.index = t.index
    BY <1>1 DEF BoundThreads
  <1>3. Unbound(u) = Unbound(t)
    BY <1>1, <1>2, Numbered DEF Unbound
  <1> QED BY <1>2, <1>3 DEF u

LEMMA UnboundIs ==
    ASSUME NEW t \in BoundThreads
    PROVE  Unbound(t) \in Settled /\ (t.nvmlId = -1 => Unbound(t) = t)
  <1>1. Unbound(t) =
            [index |-> t.index, threads |-> t.threads, blocks |-> t.blocks, bfactor |-> t.bfactor,
             bsleep |-> t.bsleep, syncMode |-> t.syncMode, affinity |-> t.affinity, nvmlId |-> -1]
    BY Numbered DEF Unbound
  <1>2. t = [index |-> t.index, threads |-> t.threads, blocks |-> t.blocks, bfactor |-> t.bfactor,
             bsleep |-> t.bsleep, syncMode |-> t.syncMode, affinity |-> t.affinity, nvmlId |-> t.nvmlId]
    BY DEF BoundThreads
  <1>3. Unbound(t) \in Settled
    BY <1>1 DEF BoundThreads, Settled
  <1> QED BY <1>1, <1>2, <1>3

LEMMA BindsOne ==
    ASSUME OnRig, NEW ts \in Seq(Settled), NEW i \in 1..Len(ts)
    PROVE  /\ bind(ts)[i] \in BoundThreads /\ Unbound(bind(ts)[i]) = ts[i] /\ bind(ts)[i].index = ts[i].index
           /\ bind(ts)[i].nvmlId # -1 => bind(ts)[i].nvmlId \in Ids(ts, i)
           /\ Ids(ts, i) # {} => bind(ts)[i].nvmlId \in Ids(ts, i)
  <1> DEFINE ids == Ids(ts, i)
             last == CHOOSE n \in ids : \A m \in ids : m <= n
  <1>1. DOMAIN ts = 1..Len(ts) /\ ts[i] \in Settled
    BY LenProperties, ElementOfSeq
  <1>2. ts[i] \in BoundThreads /\ ts[i].nvmlId = -1
    BY <1>1 DEF Settled
  <1>3. bind(ts)[i] = IF ids = {} THEN ts[i] ELSE [ts[i] EXCEPT !.nvmlId = last]
    BY <1>1 DEF bind, Ids
  <1>4. rig.nvml \in Seq(Address) /\ Len(rig.nvml) \in Nat /\ ids \in SUBSET (1..Len(rig.nvml))
    BY LenProperties DEF OnRig, IsRig, Ids
  <1>5. CASE ids = {}
    <2>1. bind(ts)[i] = ts[i]
      BY <1>3, <1>5
    <2>2. Unbound(ts[i]) = ts[i]
      BY <1>2, UnboundIs
    <2> QED BY <1>2, <1>5, <2>1, <2>2
  <1>6. CASE ids # {}
    <2>1. last \in ids
      <3> HIDE DEF ids
      <3> DEFINE m == Len(rig.nvml)
      <3>1. m \in Nat /\ ids \in SUBSET (1..m)
        BY <1>4
      <3> HIDE DEF m
      <3>2. Max(ids) \in ids /\ \A y \in ids : y <= Max(ids)
        BY <1>6, <3>1, MaximumOf
      <3> QED BY <3>2
    <2> HIDE DEF last
    <2>2. last \in Int
      BY <1>4, <2>1
    <2>3. bind(ts)[i] = [ts[i] EXCEPT !.nvmlId = last]
      BY <1>3, <1>6
    <2> HIDE DEF ids
    <2>4. Unbound(ts[i]) = ts[i]
      BY <1>2, UnboundIs
    <2> QED BY <1>2, <2>1, <2>2, <2>3, <2>4, BoundParts DEF ids
  <1> QED BY <1>5, <1>6

(* Whoever they are, threads that are bound are so to their own cards, and no
   number of a card with a thread is left. *)
LEMMA BindsOwn ==
    ASSUME OnRig, NEW ts \in Seq(Settled)
    PROVE  /\ bind(ts) \in Seq(BoundThreads) /\ Len(bind(ts)) = Len(ts)
           /\ \A i \in 1..Len(ts) : Unbound(bind(ts)[i]) = ts[i] /\ bind(ts)[i].index = ts[i].index
           /\ \A i \in 1..Len(ts) : bind(ts)[i].nvmlId # -1 =>
                rig.nvml[bind(ts)[i].nvmlId] = CardAt(ts[i].index).pci
           /\ \A i \in 1..Len(ts), n \in DOMAIN rig.nvml :
                rig.nvml[n] = CardAt(ts[i].index).pci => \E j \in 1..Len(ts) : bind(ts)[j].nvmlId = n
  <1>1. DOMAIN ts = 1..Len(ts) /\ Len(ts) \in Nat /\ \A i \in 1..Len(ts) : ts[i] \in Settled
    BY LenProperties, ElementOfSeq
  <1>2. bind(ts) = [i \in 1..Len(ts) |-> bind(ts)[i]]
    BY <1>1 DEF bind
  <1>3. bind(ts) \in Seq(BoundThreads) /\ Len(bind(ts)) = Len(ts)
    <2>1. \A i \in 1..Len(ts) : bind(ts)[i] \in BoundThreads
      BY BindsOne
    <2> DEFINE bs == bind(ts)
    <2> HIDE DEF bs
    <2>2. bs = [i \in 1..Len(ts) |-> bs[i]] /\ \A i \in 1..Len(ts) : bs[i] \in BoundThreads
      BY <1>2, <2>1 DEF bs
    <2>3. bs \in Seq(BoundThreads) /\ Len(bs) = Len(ts)
      BY <1>1, <2>2
    <2> QED BY <2>3 DEF bs
  <1>4. \A n, m \in DOMAIN rig.nvml : rig.nvml[n] \in Address /\ (rig.nvml[n] = rig.nvml[m] => n = m)
    BY ElementOfSeq, LenProperties DEF OnRig, IsRig
  <1>5. \A i \in 1..Len(ts) : CardAt(ts[i].index).pci \in Address
    <2> SUFFICES ASSUME NEW i \in 1..Len(ts) PROVE CardAt(ts[i].index).pci \in Address
      OBVIOUS
    <2>1. ts[i].index \in CardNumbers
      BY <1>1 DEF Settled, BoundThreads
    <2>2. CardAt(ts[i].index) \in Card
      BY <2>1, CardFacts
    <2> QED BY <2>2 DEF Card
  <1>6. \A a, b \in Address : SamePci(a, b) <=> a = b
    BY DEF SamePci, Address
  <1>7. ASSUME NEW i \in 1..Len(ts), NEW n \in Ids(ts, i) PROVE rig.nvml[n] = CardAt(ts[i].index).pci
    <2>1. n \in DOMAIN rig.nvml /\ SamePci(CardAt(ts[i].index).pci, rig.nvml[n])
      BY DEF Ids, BoundAt
    <2> QED BY <1>4, <1>5, <1>6, <2>1
  <1>8. ASSUME NEW i \in 1..Len(ts), NEW n \in DOMAIN rig.nvml, rig.nvml[n] = CardAt(ts[i].index).pci
        PROVE  \E j \in 1..Len(ts) : bind(ts)[j].nvmlId = n
    <2>1. i \in BoundAt(ts, n)
      BY <1>1, <1>4, <1>6, <1>8 DEF BoundAt
    <2>2. BoundAt(ts, n) \subseteq 1..Len(ts) /\ BoundAt(ts, n) \subseteq Nat
      BY <1>1 DEF BoundAt
    <2>3. PICK j \in BoundAt(ts, n) : \A k \in BoundAt(ts, n) : j <= k
      <3> DEFINE U == BoundAt(ts, n)
      <3>1. U \subseteq Nat /\ U # {}
        BY <2>1, <2>2
      <3> HIDE DEF U
      <3>2. \E j \in U : \A k \in U : j <= k
        BY <3>1, LeastOf
      <3> QED BY <3>2 DEF U
    <2>4. j \in 1..Len(ts) /\ n \in Ids(ts, j)
      BY <2>2, <2>3 DEF Ids
    <2>5. bind(ts)[j].nvmlId \in Ids(ts, j)
      BY <2>4, BindsOne
    <2> DEFINE m == bind(ts)[j].nvmlId
    <2> HIDE DEF m
    <2>6. m \in DOMAIN rig.nvml /\ rig.nvml[m] = CardAt(ts[j].index).pci /\ rig.nvml[n] = CardAt(ts[j].index).pci
      BY <1>7, <2>4, <2>5 DEF m, Ids
    <2>7. m = n
      BY <1>4, <2>6
    <2> QED BY <2>4, <2>7 DEF m
  <1>9. \A i \in 1..Len(ts) : Unbound(bind(ts)[i]) = ts[i] /\ bind(ts)[i].index = ts[i].index
    BY BindsOne
  <1>10. \A i \in 1..Len(ts) : bind(ts)[i].nvmlId # -1 =>
                rig.nvml[bind(ts)[i].nvmlId] = CardAt(ts[i].index).pci
    BY <1>7, BindsOne
  <1> QED BY <1>3, <1>8, <1>9, <1>10

-----------------------------------------------------------------------------
(* The limits of automatic threads only lower their number.                  *)
LEMMA LimitKeeps ==
    ASSUME NEW c \in Clis, NEW t \in Settled
    PROVE  limit(t, c) \in Settled /\ limit(t, c).index = t.index
  <1>0. t \in BoundThreads /\ t.threads \in Nat /\ c.maxThreads \in Int /\ c.maxUsage \in Nat
    BY DEF Settled, BoundThreads, Clis
  <1>1. ASSUME NEW n \in Nat
        PROVE  [t EXCEPT !.threads = n] \in Settled /\ [t EXCEPT !.threads = n].index = t.index
    BY <1>0 DEF Settled, BoundThreads
  <1>2. CASE c.maxThreads > 0 /\ t.threads > c.maxThreads
    <2>1. limit(t, c) = [t EXCEPT !.threads = c.maxThreads] /\ c.maxThreads \in Nat
      BY <1>0, <1>2 DEF limit
    <2> QED BY <1>1, <2>1
  <1>3. CASE c.maxThreads <= 0 /\ c.maxUsage < 100
    <2> DEFINE n == (t.threads * c.maxUsage) \div 100
    <2>1. ~(c.maxThreads > 0 /\ t.threads > c.maxThreads)
      BY <1>0, <1>3
    <2>2. limit(t, c) = [t EXCEPT !.threads = n]
      BY <1>3, <2>1 DEF limit
    <2>3. n \in Nat
      <3>1. t.threads * c.maxUsage \in Nat
        BY <1>0
      <3> QED BY <3>1, Quotient
    <2> HIDE DEF n
    <2> QED BY <1>1, <2>2, <2>3
  <1>4. CASE ~(c.maxThreads > 0 /\ t.threads > c.maxThreads) /\ ~(c.maxThreads <= 0 /\ c.maxUsage < 100)
    <2>1. limit(t, c) = t
      BY <1>4 DEF limit
    <2> QED BY <2>1
  <1> QED BY <1>2, <1>3, <1>4

(* What is left of a thread when it is saved and loaded: all but its number, and
   a bfactor that a file may not have. *)
Saved(t) == [Unbound(t) EXCEPT !.bfactor = setBFactor(t.bfactor)]

LEMMA SavedIs ==
    ASSUME NEW t \in BoundThreads
    PROVE  /\ ThreadObject(t) \in Objects /\ CudaThread(ThreadObject(t)) = Saved(t)
           /\ Saved(t) \in Settled /\ (t.bfactor <= 12 => Saved(t) = Unbound(t))
  <1>1. ThreadObject(t) =
            [index |-> t.index, threads |-> t.threads, blocks |-> t.blocks, bfactor |-> t.bfactor,
             bsleep |-> t.bsleep, sync_mode |-> t.syncMode, affine_to_cpu |-> t.affinity]
    BY DEF ThreadObject
  <1>2. /\ t.index \in CardNumbers /\ t.threads \in Nat /\ t.blocks \in Nat /\ t.bfactor \in Nat
        /\ t.bsleep \in Nat /\ t.syncMode \in 0..3 /\ t.affinity \in Int
    BY DEF BoundThreads
  <1>3. CardNumbers \subseteq Nat
    BY DEF CardNumbers
  <1>4. ThreadObject(t) \in ThreadObjects /\ ThreadObject(t).threads # -1
    <2>1. /\ t.index \in Nat /\ t.threads \in Int /\ t.blocks \in Int /\ t.bfactor \in Int /\ t.bsleep \in Int
          /\ t.syncMode \in Nat /\ t.affinity \in Int /\ t.threads # -1
      <3>1. t.index \in Nat
        BY <1>2, <1>3
      <3>2. t.threads \in Int /\ t.threads # -1 /\ t.blocks \in Int
        BY <1>2
      <3>3. t.bfactor \in Int /\ t.bsleep \in Int
        BY <1>2
      <3>4. t.syncMode \in Nat /\ t.affinity \in Int
        BY <1>2
      <3> QED BY <3>1, <3>2, <3>3, <3>4
    <2> QED BY <1>1, <2>1 DEF ThreadObjects
  <1>5. CudaThread(ThreadObject(t)) =
            [index |-> t.index, threads |-> t.threads, blocks |-> t.blocks,
             bfactor |-> setBFactor(t.bfactor), bsleep |-> t.bsleep, syncMode |-> t.syncMode,
             affinity |-> t.affinity, nvmlId |-> -1]
    <2>1. (IF t.syncMode > 3 THEN 3 ELSE t.syncMode) = t.syncMode
      BY <1>2
    <2> DEFINE object == ThreadObject(t)
    <2>2. CudaThread(object) =
            [index |-> object.index, threads |-> object.threads, blocks |-> object.blocks,
             bfactor |-> setBFactor(object.bfactor), bsleep |-> object.bsleep,
             syncMode |-> IF object.sync_mode > 3 THEN 3 ELSE object.sync_mode,
             affinity |-> object.affine_to_cpu, nvmlId |-> -1]
      BY <1>4, ReadsThread
    <2>3. /\ object.index = t.index /\ object.threads = t.threads /\ object.blocks = t.blocks
          /\ object.bfactor = t.bfactor /\ object.bsleep = t.bsleep /\ object.sync_mode = t.syncMode
          /\ object.affine_to_cpu = t.affinity
      BY <1>1
    <2> HIDE DEF object
    <2>4. CudaThread(object) =
            [index |-> t.index, threads |-> t.threads, blocks |-> t.blocks,
             bfactor |-> setBFactor(t.bfactor), bsleep |-> t.bsleep, syncMode |-> t.syncMode,
             affinity |-> t.affinity, nvmlId |-> -1]
      BY <2>1, <2>2, <2>3
    <2> QED BY <2>4 DEF object
  <1>6. Unbound(t) =
            [index |-> t.index, threads |-> t.threads, blocks |-> t.blocks, bfactor |-> t.bfactor,
             bsleep |-> t.bsleep, syncMode |-> t.syncMode, affinity |-> t.affinity, nvmlId |-> -1]
    BY Numbered DEF Unbound
  <1>7. Saved(t) =
            [index |-> t.index, threads |-> t.threads, blocks |-> t.blocks,
             bfactor |-> setBFactor(t.bfactor), bsleep |-> t.bsleep, syncMode |-> t.syncMode,
             affinity |-> t.affinity, nvmlId |-> -1]
    BY <1>6 DEF Saved
  <1>8. setBFactor(t.bfactor) \in Nat /\ (t.bfactor <= 12 => setBFactor(t.bfactor) = t.bfactor)
    BY <1>2 DEF setBFactor
  <1>9. Saved(t) \in Settled
    BY <1>2, <1>7, <1>8 DEF Settled, BoundThreads
  <1> QED BY <1>4, <1>5, <1>6, <1>7, <1>8, <1>9 DEF Objects

(* A thread with nothing to choose is taken as it is.                        *)
LEMMA TakenAsIs ==
    ASSUME OnRig, NEW s \in Lists, NEW t \in Settled, NEW v2
    PROVE  Launched(s, t, v2) = [threads |-> Append(s.threads, t), miners |-> s.miners]
  <1>1. t \in BoundThreads /\ t.index \in 0..(CardCount - 1) /\ t.threads # -1 /\ t.blocks # -1
    BY DEF Settled, BoundThreads, CardNumbers
  <1> DEFINE blocks == IF t.blocks = -1 THEN CardAt(t.index).mpcount * (IF CardAt(t.index).major < 3 THEN 2 ELSE 3)
                       ELSE t.blocks
  <1>2. DeviceInfo(s.miners, t, v2) = [ok |-> TRUE, thread |-> [t EXCEPT !.blocks = blocks], miners |-> s.miners]
    BY <1>1 DEF DeviceInfo
  <1>3. blocks = t.blocks
    BY <1>1
  <1> HIDE DEF blocks
  <1>4. [t EXCEPT !.blocks = t.blocks] = t
    BY <1>1 DEF BoundThreads
  <1>5. DeviceInfo(s.miners, t, v2) = [ok |-> TRUE, thread |-> t, miners |-> s.miners]
    BY <1>2, <1>3, <1>4
  <1> QED BY <1>5 DEF Launched

(* What toConfig writes is read as it was, and no card is reset for it.      *)
LEMMA ReadsSaved ==
    ASSUME OnRig, NEW ts \in Seq(BoundThreads), NEW ms \in Seq(MinerSet)
    PROVE  /\ toConfig(ts) \in Seq(Objects)
           /\ LoadedThreads(toConfig(ts), ms) =
                [threads |-> [i \in 1..Len(ts) |-> Saved(ts[i])], miners |-> ms]
  <1> DEFINE n == Len(ts)
             list == toConfig(ts)
             start == [threads |-> <<>>, miners |-> ms]
             upTo(k) == [i \in 1..k |-> Saved(ts[i])]
             after(k) == [threads |-> upTo(k), miners |-> ms]
  <1>1. n \in Nat /\ DOMAIN ts = 1..n /\ \A i \in 1..n : ts[i] \in BoundThreads
    BY LenProperties, ElementOfSeq
  <1>2. list = [i \in 1..n |-> ThreadObject(ts[i])]
    BY <1>1 DEF toConfig
  <1> HIDE DEF n, list
  <1>3. list \in Seq(Objects) /\ Len(list) = n /\ \A i \in 1..n : list[i] = ThreadObject(ts[i])
    <2>1. \A i \in 1..n : ThreadObject(ts[i]) \in Objects
      BY <1>1, SavedIs
    <2> QED BY <1>1, <1>2, <2>1
  <1>4. start \in Lists
    BY DEF Lists
  <1>5. PICK F : /\ F[0] = start /\ \A k \in 0..n : F[k] \in Lists
                 /\ \A k \in 1..n : F[k] = parseThread(F[k - 1], list[k])
                 /\ F[n] = parseThreads(start, list)
    BY <1>3, <1>4, ParsedThreadsFold
  <1> DEFINE W == {k \in 0..n : F[k] = after(k)}
  <1>6. 0 \in W
    <2>1. upTo(0) = <<>>
      OBVIOUS
    <2> HIDE DEF upTo
    <2> QED BY <1>1, <1>5, <2>1
  <1>7. ASSUME NEW k \in 1..n, k - 1 \in W PROVE k \in W
    <2> DEFINE t == Saved(ts[k])
    <2>1. F[k] = parseThread(after(k - 1), ThreadObject(ts[k])) /\ after(k - 1) \in Lists /\ k \in 0..n /\ k - 1 \in 0..n
      <3>1. k \in 0..n /\ k - 1 \in 0..n
        BY <1>1
      <3>2. F[k - 1] = after(k - 1)
        BY <1>7
      <3> HIDE DEF after, W
      <3>3. F[k - 1] \in Lists /\ F[k] = parseThread(F[k - 1], list[k]) /\ list[k] = ThreadObject(ts[k])
        BY <1>3, <1>5, <3>1
      <3> QED BY <3>1, <3>2, <3>3
    <2>2. CudaThread(ThreadObject(ts[k])) = t /\ t \in Settled
      BY <1>1, SavedIs
    <2>3. t.blocks >= -1 /\ t.threads >= -1 /\ t.bsleep >= 0
      BY <2>2 DEF Settled, BoundThreads
    <2> HIDE DEF t, upTo
    <2>4. F[k] = Launched(after(k - 1), t, FALSE)
      BY <2>1, <2>2, <2>3 DEF parseThread
    <2>5. F[k] = [threads |-> Append(upTo(k - 1), t), miners |-> ms]
      BY <2>1, <2>2, <2>4, TakenAsIs
    <2>6. Append(upTo(k - 1), t) = upTo(k)
      <3>1. upTo(k - 1) = [i \in 1..(k - 1) |-> Saved(ts[i])] /\ k \in Nat \ {0}
        BY <1>1 DEF upTo
      <3>2. Len(upTo(k - 1)) = k - 1
        BY <3>1
      <3>3. Append(upTo(k - 1), t) = [i \in 1..k |-> IF i = k THEN t ELSE upTo(k - 1)[i]]
        BY <3>1, <3>2
      <3> QED BY <3>1, <3>3 DEF upTo, t
    <2> QED BY <2>1, <2>5, <2>6
  <1>8. \A k \in 0..n : k \in W
    <2> HIDE DEF W
    <2> QED BY <1>1, <1>6, <1>7, UpTo
  <1>9. F[n] = after(n)
    BY <1>1, <1>8
  <1> QED BY <1>3, <1>5, <1>9 DEF LoadedThreads, list, n

-----------------------------------------------------------------------------
(* Finalize binds settled threads, and loses no more than memory.            *)
LEMMA FinalizesTo ==
    ASSUME OnRig, NEW c \in Clis, NEW s \in Lists
    PROVE  /\ \E ts \in Seq(Settled) : Finalized(c, s).threads = bind(ts)
           /\ OnlyLost(s.miners, Finalized(c, s).miners)
           /\ s.threads # <<>> => /\ Finalized(c, s).threads = bind(s.threads)
                                  /\ Finalized(c, s).miners = s.miners
           /\ Automatic(c, s) =>
                LET auto == autoConf(c, s)
                    ts == [i \in DOMAIN auto.threads |-> limit(auto.threads[i], c)]
                IN  ts \in Seq(Settled) /\ Finalized(c, s).threads = bind(ts)
  <1> DEFINE auto == autoConf(c, s)
             lim == [i \in DOMAIN auto.threads |-> limit(auto.threads[i], c)]
             made == setup(c, s)
             F == Finalized(c, s)
  <1>1. /\ auto.threads \in Seq(Settled) /\ auto.miners \in Seq(MinerSet) /\ OnlyLost(s.miners, auto.miners)
        /\ made.threads \in Seq(Settled) /\ OnlyLost(s.miners, made.miners)
        /\ DOMAIN auto = {"threads", "miners"} /\ DOMAIN made = {"threads", "miners"}
    BY SetsUp DEF Lists
  <1>2. s.threads \in Seq(Settled) /\ s.miners \in Seq(MinerSet) /\ DOMAIN s = {"threads", "miners"}
    BY DEF Lists
  <1>3. lim \in Seq(Settled)
    <2>1. DOMAIN auto.threads = 1..Len(auto.threads) /\ Len(auto.threads) \in Nat
          /\ \A i \in 1..Len(auto.threads) : auto.threads[i] \in Settled
      BY <1>1, LenProperties, ElementOfSeq
    <2>2. \A i \in 1..Len(auto.threads) : limit(auto.threads[i], c) \in Settled
      BY <2>1, LimitKeeps
    <2> HIDE DEF auto
    <2> QED BY <2>1, <2>2
  <1>4. ASSUME Automatic(c, s)
        PROVE  F.threads = bind(lim) /\ F.miners = auto.miners /\ s.threads = <<>>
    <2>1. F = [[auto EXCEPT !.threads = lim] EXCEPT !.threads = bind(lim)]
      <3>1. F = [[auto EXCEPT !.threads = lim] EXCEPT !.threads = bind([auto EXCEPT !.threads = lim].threads)]
        BY <1>4 DEF Finalized
      <3>2. [auto EXCEPT !.threads = lim].threads = lim
        BY <1>1
      <3> HIDE DEF auto, lim, F
      <3> QED BY <3>1, <3>2
    <2>2. s.threads = <<>>
      BY <1>4 DEF Automatic
    <2> HIDE DEF auto, lim, F
    <2> QED BY <1>1, <2>1, <2>2
  <1>5. ASSUME s.threads = <<>>, ~Automatic(c, s)
        PROVE  F.threads = bind(made.threads) /\ F.miners = made.miners
    <2>1. F = [made EXCEPT !.threads = bind(made.threads)]
      BY <1>5 DEF Finalized
    <2> HIDE DEF made, F
    <2> QED BY <1>1, <2>1
  <1>6. ASSUME s.threads # <<>> PROVE F.threads = bind(s.threads) /\ F.miners = s.miners /\ ~Automatic(c, s)
    <2>1. ~Automatic(c, s)
      BY <1>6 DEF Automatic
    <2>2. F = [s EXCEPT !.threads = bind(s.threads)]
      BY <1>6, <2>1 DEF Finalized
    <2> HIDE DEF F
    <2> QED BY <1>2, <2>1, <2>2
  <1> HIDE DEF lim, made, F, auto
  <1>7. /\ \E ts \in Seq(Settled) : F.threads = bind(ts)
        /\ OnlyLost(s.miners, F.miners)
        /\ s.threads # <<>> => F.threads = bind(s.threads) /\ F.miners = s.miners
        /\ Automatic(c, s) => lim \in Seq(Settled) /\ F.threads = bind(lim)
    <2>1. CASE s.threads # <<>>
      BY <1>2, <1>6, <2>1, LostNothing
    <2>2. CASE s.threads = <<>> /\ ~Automatic(c, s)
      BY <1>1, <1>5, <2>2
    <2>3. CASE s.threads = <<>> /\ Automatic(c, s)
      BY <1>1, <1>3, <1>4, <2>3
    <2> QED BY <2>1, <2>2, <2>3
  <1> QED BY <1>7 DEF lim, F, auto

(* The memory of a card is enough for two hashes of each block that is begun. *)
BlocksOf(card) == card.mpcount * (IF card.major < 3 THEN 2 ELSE 3)

LargestThread == 526422

LEMMA Products ==
    ASSUME NEW a \in Nat, NEW b \in Nat, NEW c \in Nat, NEW d \in Nat, a <= c, b <= d
    PROVE  a * b \in Nat /\ c * d \in Nat /\ a * b <= c * d
  <1>1. a * b \in Nat /\ c * d \in Nat /\ c * b \in Nat
    OBVIOUS
  <1>2. a * b <= c * b
    BY SMTT(30)
  <1>3. c * b <= c * d
    BY SMTT(30)
  <1> QED BY <1>1, <1>2, <1>3

LEMMA QuotientAtLeast ==
    ASSUME NEW a \in Nat, NEW b \in Nat \ {0}, NEW q \in Nat, q * b <= a
    PROVE  a \div b >= q
  BY SMTT(30)

LEMMA EnoughForTwo ==
    ASSUME NEW algo \in Algo, NEW card \in Card, Roomy(algo, card),
           card.mpcount <= IF card.major < 6 THEN 24 ELSE 512
    PROVE  2 * BlocksOf(card) * perThread(algo) <= limitedMemory(card, card.free)
  <1> DEFINE per == perThread(algo)
             need == 2 * BlocksOf(card) * per
             m == card.mpcount
  <1>1. /\ m \in Nat \ {0} /\ card.major \in Nat /\ card.major \notin {0, 1} /\ card.free \in Nat
        /\ m <= (IF card.major < 6 THEN 24 ELSE 512)
    BY DEF Card
  <1>2. per \in Nat /\ per <= LargestThread
    <2>1. per = HashMemory(algo) + IF algo = "HEAVY" THEN 2134 ELSE 2109
      BY HashTakes
    <2>2. HashMemory(algo) \in Nat /\ HashMemory(algo) <= LargestHash
      BY HashTakes
    <2> HIDE DEF per
    <2> QED BY SMT, <2>1, <2>2 DEF LargestHash, LargestThread
  <1>3. need <= 2 * per * m * 3 /\ need \in Nat
    <2> HIDE DEF per, m
    <2>1. BlocksOf(card) = m * 2 \/ BlocksOf(card) = m * 3
      BY DEF BlocksOf, m
    <2>2. m * per \in Nat
      BY <1>1, <1>2
    <2>3. 2 * (m * 2) * per = 4 * (m * per) /\ 2 * (m * 3) * per = 6 * (m * per) /\ 2 * per * m * 3 = 6 * (m * per)
      BY <1>1, <1>2
    <2> QED BY <2>1, <2>2, <2>3
  <1>4. Reserved \in Nat /\ maxMemUsage(card) \in Nat
    BY <1>1, LimitedNumber
  <1>5. need <= card.free - Reserved /\ card.free >= Reserved
    <2>1. card.free >= Reserved + 2 * per * m * 3
      BY DEF Roomy
    <2> DEFINE r == Reserved
    <2> HIDE DEF r, need, per
    <2>2. card.free >= r + 2 * per * m * 3 /\ r \in Nat
      BY <1>4, <2>1 DEF r
    <2> QED BY <1>1, <1>2, <1>3, <2>2 DEF r
  <1>6. need <= maxMemUsage(card)
    <2>1. GiB = 134217728 /\ TiB = 2147483647
      BY SMT DEF GiB, TiB, Words8, MiB
    <2>2. ASSUME NEW most \in Nat, m <= most PROVE need <= 6 * (most * LargestThread)
      <3> HIDE DEF per, m, need
      <3>1. LargestThread \in Nat
        BY SMT DEF LargestThread
      <3>2. m * per <= most * LargestThread /\ m * per \in Nat /\ most * LargestThread \in Nat
        BY <1>1, <1>2, <2>2, <3>1, Products
      <3>3. 2 * per * m * 3 = 6 * (m * per)
        BY <1>1, <1>2
      <3> QED BY <1>3, <3>2, <3>3
    <2>3. /\ 6 * (14 * LargestThread) <= 2 * GiB /\ 6 * (20 * LargestThread) <= 4 * GiB
          /\ 6 * (24 * LargestThread) <= 2 * GiB /\ 6 * (24 * LargestThread) <= GiB
          /\ 6 * (512 * LargestThread) <= TiB
      BY SMT, <2>1 DEF LargestThread
    <2> HIDE DEF need
    <2>4. CASE card.major = 6 /\ card.mpcount < 15
      <3>1. need <= 6 * (14 * LargestThread)
        BY <1>1, <2>2, <2>4
      <3>2. maxMemUsage(card) = 2 * GiB
        BY <2>4 DEF maxMemUsage
      <3> QED BY SMT, <1>3, <2>1, <2>3, <3>1, <3>2 DEF LargestThread
    <2>5. CASE card.major = 6 /\ card.mpcount \in 15..20
      <3>1. need <= 6 * (20 * LargestThread)
        BY <1>1, <2>2, <2>5
      <3>2. maxMemUsage(card) = 4 * GiB
        BY <2>5 DEF maxMemUsage
      <3> QED BY SMT, <1>3, <2>1, <2>3, <3>1, <3>2 DEF LargestThread
    <2>6. CASE card.major \in 3..5
      <3>1. need <= 6 * (24 * LargestThread)
        BY <1>1, <2>2, <2>6
      <3>2. maxMemUsage(card) = 2 * GiB
        BY <2>6 DEF maxMemUsage
      <3> QED BY SMT, <1>3, <2>1, <2>3, <3>1, <3>2 DEF LargestThread
    <2>7. CASE card.major = 2
      <3>1. need <= 6 * (24 * LargestThread)
        BY <1>1, <2>2, <2>7
      <3>2. maxMemUsage(card) = GiB
        BY <2>7 DEF maxMemUsage
      <3> QED BY SMT, <1>3, <2>1, <2>3, <3>1, <3>2 DEF LargestThread
    <2>8. CASE /\ ~(card.major = 6 /\ card.mpcount < 15) /\ ~(card.major = 6 /\ card.mpcount \in 15..20)
               /\ card.major \notin 3..5 /\ card.major # 2
      <3>1. need <= 6 * (512 * LargestThread)
        BY <1>1, <2>2, <2>8
      <3>2. maxMemUsage(card) = TiB
        BY <2>8 DEF maxMemUsage
      <3> QED BY SMT, <1>3, <2>1, <2>3, <3>1, <3>2 DEF LargestThread
    <2> QED BY <2>4, <2>5, <2>6, <2>7, <2>8
  <1>7. limitedMemory(card, card.free) = maxMemUsage(card) \/ limitedMemory(card, card.free) = card.free - Reserved
    BY DEF limitedMemory
  <1> QED BY <1>5, <1>6, <1>7

(* What is chosen for a card on which nothing is held.                       *)
ChosenFor(card) == AutoLaunch(card, BlocksOf(card), card.free, isCNv2)
Chosen(t) ==
    /\ t.blocks = ChosenFor(CardAt(t.index)).blocks
    /\ t.threads = ChosenFor(CardAt(t.index)).threads

(* A number of threads fits a card, also with the buffers that the choice does
   not count, and so does any that is not larger. *)
Fits(card, blocks, count) ==
    /\ count \in Nat /\ count >= 2 /\ blocks \in Nat \ {0}
    /\ card.major < 3 => count <= 64
    /\ blocks * count * (HashMemory(launchKind.algo) + IF launchKind.algo = "HEAVY" THEN 110 ELSE 91) <= card.free

LEMMA ChosenFits ==
    ASSUME OnRig, NEW card \in Card, Roomy(launchKind.algo, card),
           card.mpcount <= IF card.major < 6 THEN 24 ELSE 512
    PROVE  Fits(card, ChosenFor(card).blocks, ChosenFor(card).threads)
  <1> DEFINE limited == limitedMemory(card, card.free)
             per == perThread(launchKind.algo)
             blocks == BlocksOf(card)
             most == (limited \div per) \div blocks
             even == 2 * (most \div 2)
             more == IF launchKind.algo = "HEAVY" THEN 110 ELSE 91
             hash == HashMemory(launchKind.algo)
             m == card.mpcount
  <1>1. /\ m \in Nat \ {0} /\ card.major \in Nat /\ card.major \notin {0, 1} /\ card.free \in Nat
        /\ blocks \in Nat \ {0}
    BY DEF Card, BlocksOf
  <1>2. launchKind.algo \in Algo
    BY DEF OnRig
  <1>3. /\ hash \in Nat \ {0} /\ per \in Nat \ {0} /\ hash + more <= per /\ more \in {91, 110}
    BY <1>2, HashTakes
  <1>4. limited \in Nat /\ Reserved \in Nat /\ limited <= card.free - Reserved
    <2>1. limited \in Nat /\ Reserved \in Nat /\ maxMemUsage(card) \in Nat
      BY <1>1, LimitedNumber
    <2>2. card.free >= Reserved + 2 * per * m * 3
      BY DEF Roomy
    <2>3. 2 * per * m * 3 \in Nat
      BY <1>1, <1>3
    <2>4. limited = IF card.free < Reserved \/ maxMemUsage(card) < card.free - Reserved
                    THEN maxMemUsage(card) ELSE card.free - Reserved
      BY DEF limitedMemory
    <2> DEFINE r == Reserved
               max == maxMemUsage(card)
               need == 2 * per * m * 3
    <2> HIDE DEF limited, r, max, need
    <2>5. limited \in Nat /\ r \in Nat /\ max \in Nat /\ need \in Nat /\ card.free >= r + need
          /\ limited = IF card.free < r \/ max < card.free - r THEN max ELSE card.free - r
      BY <2>1, <2>2, <2>3, <2>4 DEF r, max, need
    <2>6. limited <= card.free - r
      BY <1>1, <2>5
    <2> QED BY <2>1, <2>6 DEF r
  <1>5. 2 * blocks * per <= limited
    BY <1>2, EnoughForTwo
  <1> HIDE DEF limited, per, blocks, more, hash
  <1>6. /\ even \in Nat /\ even >= 2 /\ blocks * even * per <= limited
    <2> DEFINE a == limited \div per
    <2>1. a \in Nat /\ per * a <= limited
      BY <1>3, <1>4, Quotient
    <2>2. a >= 2 * blocks
      <3>1. 2 * blocks \in Nat /\ per \in Nat \ {0} /\ limited \in Nat /\ (2 * blocks) * per <= limited
        BY <1>1, <1>3, <1>4, <1>5
      <3> QED BY <3>1, QuotientAtLeast
    <2> HIDE DEF a
    <2> DEFINE b == a \div blocks
    <2>3. b \in Nat /\ blocks * b <= a
      BY <1>1, <2>1, Quotient
    <2>4. b >= 2
      BY <1>1, <2>1, <2>2, QuotientAtLeast
    <2> HIDE DEF b
    <2> DEFINE e == 2 * (b \div 2)
    <2>5. e \in Nat /\ e >= 2 /\ e <= b
      BY <2>3, <2>4
    <2> HIDE DEF e
    <2>6. blocks * e <= blocks * b /\ blocks * e \in Nat
      BY <1>1, <2>3, <2>5, Products
    <2>7. (blocks * e) * per <= a * per
      <3>1. blocks * e <= a
        BY <1>1, <2>1, <2>3, <2>6
      <3> QED BY <1>3, <2>1, <2>6, <3>1, Products
    <2> QED BY <1>1, <1>3, <1>4, <2>1, <2>5, <2>7 DEF e, b, a
  <1> HIDE DEF even
  <1>7. CASE isCNv2 /\ card.major < 6 /\ OldCardFits(card, limited)
    <2>1. ChosenFor(card) = [blocks |-> 8 * m, threads |-> 4]
      BY <1>7 DEF ChosenFor, AutoLaunch, limited
    <2>2. 8 * m * 4 * hash < limited
      BY <1>7 DEF OldCardFits, hash
    <2>3. m <= 24
      BY <1>7
    <2>4. Reserved >= 24 * 32 * 110
      BY SMT DEF Reserved, Words8, MiB
    <2> DEFINE r == Reserved
               x == m * hash
    <2>5. x \in Nat /\ 32 * x < limited /\ r >= 84480 /\ limited <= card.free - r /\ r \in Nat
      BY <1>1, <1>3, <1>4, <2>2, <2>4
    <2>6. m * more <= 24 * 110 /\ m * more \in Nat
      BY <1>1, <1>3, <2>3
    <2>7. 8 * m * 4 * (hash + more) = 32 * x + 32 * (m * more)
      BY <1>1, <1>3
    <2> HIDE DEF x, r
    <2>8. 8 * m * 4 * (hash + more) <= card.free
      BY <1>1, <1>4, <2>5, <2>6, <2>7
    <2> QED BY <1>1, <2>1, <2>8 DEF Fits, hash, more
  <1>8. CASE ~(isCNv2 /\ card.major < 6 /\ OldCardFits(card, limited))
    <2> DEFINE count == IF card.major = 2 /\ even > 64 THEN 64 ELSE even
    <2>1. ChosenFor(card) = [blocks |-> blocks, threads |-> count]
      BY <1>8 DEF ChosenFor, AutoLaunch, limited, blocks, even, per
    <2>2. count \in Nat /\ count >= 2 /\ count <= even /\ (card.major < 3 => count <= 64)
      BY <1>1, <1>6
    <2> HIDE DEF count
    <2>3. blocks * count <= blocks * even /\ blocks * count \in Nat /\ blocks * even \in Nat
      BY <1>1, <1>6, <2>2, Products
    <2>4. (blocks * count) * (hash + more) <= (blocks * even) * per
      BY <1>3, <2>3, Products
    <2>5. limited <= card.free
      <3> DEFINE r == Reserved
      <3>1. r \in Nat /\ limited <= card.free - r
        BY <1>4
      <3> HIDE DEF r
      <3> QED BY <1>1, <1>4, <3>1
    <2>6. blocks * count * (hash + more) <= card.free
      <3>1. (blocks * count) * (hash + more) \in Int /\ (blocks * even) * per \in Int
        BY <1>3, <2>3
      <3> QED BY <1>1, <1>4, <1>6, <2>4, <2>5, <3>1
    <2> QED BY <1>1, <2>1, <2>2, <2>6 DEF Fits, hash, more
  <1> QED BY <1>7, <1>8

(* A thread that can be launched, and has its memory on the card.            *)
CanRun(t) == Launchable(t) /\ Allocated(launchKind.algo, t) <= CardAt(t.index).free

LEMMA LimitedRuns ==
    ASSUME OnRig, NEW c \in Clis, c.maxThreads \in 1..128, c.maxThreads # 1,
           NEW t \in Settled, Chosen(t), Roomy(launchKind.algo, CardAt(t.index))
    PROVE  CanRun(limit(t, c))
  <1> DEFINE card == CardAt(t.index)
             rest == HashMemory(launchKind.algo) + IF launchKind.algo = "HEAVY" THEN 110 ELSE 91
             lower == limit(t, c)
  <1>1. t \in BoundThreads /\ t.index \in CardNumbers /\ t.blocks \in Nat /\ t.threads \in Nat
    BY DEF Settled, BoundThreads
  <1>2. card \in Card /\ card.mpcount <= IF card.major < 6 THEN 24 ELSE 512
    BY <1>1, CardFacts
  <1>3. card.major \in Nat /\ card.free \in Nat
    BY <1>2 DEF Card
  <1>4. Fits(card, t.blocks, t.threads)
    BY <1>2, ChosenFits DEF Chosen
  <1>5. launchKind.algo \in Algo /\ rest \in Nat
    <2>1. launchKind.algo \in Algo
      BY DEF OnRig
    <2> QED BY <2>1, HashTakes
  <1>6. Allocated(launchKind.algo, lower) = lower.blocks * lower.threads * rest
    BY <1>5, HashTakes
  <1>7. /\ lower.index = t.index /\ lower.blocks = t.blocks
        /\ lower.threads = IF t.threads > c.maxThreads THEN c.maxThreads ELSE t.threads
    <2>1. c.maxThreads > 0 /\ ~(c.maxThreads <= 0)
      OBVIOUS
    <2>2. CASE t.threads > c.maxThreads
      <3>1. lower = [t EXCEPT !.threads = c.maxThreads]
        BY <2>1, <2>2 DEF limit
      <3> QED BY <1>1, <2>2, <3>1 DEF BoundThreads
    <2>3. CASE ~(t.threads > c.maxThreads)
      <3>1. lower = t
        BY <2>1, <2>3 DEF limit
      <3> HIDE DEF lower
      <3> QED BY <2>3, <3>1
    <2> QED BY <2>2, <2>3
  <1> HIDE DEF lower, rest
  <1>8. /\ t.threads >= 2 /\ t.blocks \in Nat \ {0} /\ (card.major < 3 => t.threads <= 64)
        /\ t.blocks * t.threads * rest <= card.free
    BY <1>4 DEF Fits, rest
  <1>9. lower.threads \in Nat /\ lower.threads >= 2 /\ lower.threads <= t.threads /\ lower.threads <= 128
    BY <1>1, <1>7, <1>8
  <1>10. Allocated(launchKind.algo, lower) <= card.free
    <2>1. t.blocks * lower.threads <= t.blocks * t.threads /\ t.blocks * lower.threads \in Nat
          /\ t.blocks * t.threads \in Nat
      BY <1>1, <1>9, Products
    <2>2. (t.blocks * lower.threads) * rest <= (t.blocks * t.threads) * rest
          /\ (t.blocks * lower.threads) * rest \in Nat /\ (t.blocks * t.threads) * rest \in Nat
      BY <1>5, <2>1, Products
    <2> QED BY <1>3, <1>6, <1>7, <1>8, <2>2
  <1>11. Launchable(lower)
    <2>1. 8 * lower.threads >= 1 /\ 8 * lower.threads <= 1024 /\ (card.major < 3 => 8 * lower.threads <= 512)
      <3>1. card.major < 3 => lower.threads <= 64
        BY <1>1, <1>8, <1>9
      <3> DEFINE n == lower.threads
      <3>2. n \in Nat /\ n >= 2 /\ n <= 128 /\ (card.major < 3 => n <= 64)
        BY <1>9, <3>1
      <3> HIDE DEF n, card
      <3>3. 8 * n >= 1 /\ 8 * n <= 1024 /\ (card.major < 3 => 8 * n <= 512)
        BY <1>3, <3>2
      <3> QED BY <3>3 DEF n
    <2>2. lower.blocks > 0
      BY <1>7, <1>8
    <2>3. 8 * lower.threads \in Int
      BY <1>9
    <2> QED BY <1>7, <2>1, <2>2, <2>3 DEF Launchable
  <1> QED BY <1>7, <1>10, <1>11 DEF CanRun, lower

-----------------------------------------------------------------------------
(* The automatic choice takes the cards in their order, each once.           *)
Rising(ts, top) ==
    \A i \in 1..Len(ts) :
        /\ Chosen(ts[i]) /\ ts[i].index < top
        /\ \A j \in 1..Len(ts) : i < j => ts[i].index < ts[j].index

LEMMA NothingLost ==
    ASSUME NEW ms, OnlyLost(<<>>, ms)
    PROVE  ms = <<>>
  <1>1. ms \in Seq(MinerSet) /\ Len(ms) = 0
    BY DEF OnlyLost
  <1> QED BY <1>1, EmptySeq

LEMMA ChoosesOne ==
    ASSUME OnRig, NEW c \in Clis, NEW k \in 1..CardCount,
           NEW s \in Lists, s.miners = <<>>, Rising(s.threads, k - 1)
    PROVE  LET after == Launched(s, Automatically(c, k), isCNv2)
           IN  after.miners = <<>> /\ Rising(after.threads, k)
  <1> DEFINE t == Automatically(c, k)
             info == DeviceInfo(s.miners, t, isCNv2)
             after == Launched(s, t, isCNv2)
             card == CardAt(k - 1)
  <1>1. CardCount \in Nat /\ k \in Nat \ {0} /\ k - 1 \in CardNumbers
    BY CardFacts DEF CardNumbers
  <1>2. t \in Requests
    <2>1. [i \in 1..CardCount |-> Automatically(c, i)] \in Seq(Requests)
      BY AutomaticallyIs
    <2> DEFINE list == [i \in 1..CardCount |-> Automatically(c, i)]
    <2>2. Len(list) = CardCount /\ list[k] = t
      BY <1>1
    <2> HIDE DEF list, t
    <2> QED BY <2>1, <2>2, ElementOfSeq DEF list
  <1>3. t.index = k - 1 /\ t.threads = -1 /\ t.blocks = -1
    BY AllCardsIs DEF Automatically, Thread
  <1>4. after.miners = <<>>
    <2>1. OnlyLost(<<>>, after.miners)
      BY <1>2, LaunchedIn
    <2> QED BY <2>1, NothingLost
  <1>5. after.threads = IF info.ok THEN Append(s.threads, info.thread) ELSE s.threads
    BY <1>2, LaunchedIn
  <1>6. s.threads \in Seq(Settled) /\ Len(s.threads) \in Nat /\ \A i \in 1..Len(s.threads) : s.threads[i] \in Settled
    BY LenProperties, ElementOfSeq DEF Lists
  <1>7. \A u \in Settled : u.index \in Nat
    BY DEF Settled, BoundThreads, CardNumbers
  <1>8. \A i \in 1..Len(s.threads) : s.threads[i].index < k
    BY <1>1, <1>6, <1>7 DEF Rising
  <1>9. CASE ~info.ok
    <2> HIDE DEF info, after, t
    <2> QED BY <1>4, <1>5, <1>8, <1>9 DEF Rising, after, t
  <1>10. CASE info.ok
    <2>1. t.index \in 0..(CardCount - 1) /\ card.usable
      <3>1. t.index \in 0..(CardCount - 1)
        BY <1>10 DEF DeviceInfo
      <3>2. CASE ~card.usable
        <4>1. info = [ok |-> FALSE, thread |-> t, miners |-> s.miners]
          BY <1>3, <3>1, <3>2 DEF DeviceInfo
        <4> QED BY <1>10, <4>1
      <3> QED BY <3>1, <3>2
    <2> DEFINE auto == AutoLaunch(card, BlocksOf(card), FreeOn(s.miners, k - 1), isCNv2)
    <2>2. info.thread = [t EXCEPT !.blocks = auto.blocks, !.threads = auto.threads]
      <3>1. info = [ok |-> TRUE, miners |-> Reset(s.miners, k - 1),
                    thread |-> [t EXCEPT !.blocks = auto.blocks, !.threads = auto.threads]]
        BY <1>3, <2>1 DEF DeviceInfo, BlocksOf
      <3> QED BY <3>1
    <2>3. FreeOn(s.miners, k - 1) = card.free
      <3>1. <<>> \in Seq(MinerSet) /\ Holding(<<>>, k - 1) = {}
        BY DEF Holding
      <3> QED BY <1>1, <3>1, FreeNumber
    <2>4. info.thread \in Settled /\ info.thread.index = k - 1
      <3>1. s.miners \in Seq(MinerSet)
        BY DEF Lists
      <3> QED BY <1>2, <1>3, <1>10, <3>1, DeviceSettles
    <2>5. Chosen(info.thread)
      <3>1. info.thread.blocks = auto.blocks /\ info.thread.threads = auto.threads
        <4>1. t.index \in Int /\ DOMAIN t = {"index", "threads", "blocks", "bfactor", "bsleep", "syncMode", "affinity", "nvmlId"}
          BY <1>2 DEF Requests
        <4> HIDE DEF auto, t, info
        <4> QED BY <2>2, <4>1
      <3> HIDE DEF info
      <3> QED BY <2>3, <2>4, <3>1 DEF Chosen, ChosenFor
    <2> HIDE DEF info, after, t, auto
    <2>6. after.threads = Append(s.threads, info.thread)
      BY <1>5, <1>10
    <2> DEFINE n == Len(s.threads)
               u == info.thread
               ts == after.threads
    <2>7. Len(ts) = n + 1 /\ ts[n + 1] = u /\ (\A i \in 1..n : ts[i] = s.threads[i]) /\ n \in Nat
      BY <1>6, <2>4, <2>6
    <2> HIDE DEF ts, u, n
    <2>8. \A i \in 1..n : /\ Chosen(ts[i]) /\ ts[i].index < k - 1 /\ ts[i].index \in Nat
                          /\ \A j \in 1..n : i < j => ts[i].index < ts[j].index
      BY <1>6, <1>7, <2>7 DEF Rising, n
    <2>9. Chosen(ts[n + 1]) /\ ts[n + 1].index = k - 1
      BY <2>4, <2>5, <2>7 DEF u
    <2>10. Rising(ts, k)
      <3> SUFFICES ASSUME NEW i \in 1..(n + 1)
                   PROVE  /\ Chosen(ts[i]) /\ ts[i].index < k
                          /\ \A j \in 1..(n + 1) : i < j => ts[i].index < ts[j].index
        BY <2>7 DEF Rising
      <3>1. i \in 1..n \/ i = n + 1
        BY <2>7
      <3>2. CASE i = n + 1
        BY <1>1, <2>7, <2>9, <3>2
      <3>3. CASE i \in 1..n
        <4>1. ASSUME NEW j \in 1..(n + 1), i < j PROVE ts[i].index < ts[j].index
          <5>1. j \in 1..n \/ j = n + 1
            BY <2>7
          <5> QED BY <2>8, <2>9, <3>3, <4>1, <5>1
        <4> QED BY <1>1, <2>8, <3>3, <4>1
      <3> QED BY <3>1, <3>2, <3>3
    <2> QED BY <1>4, <2>10 DEF ts, after, t
  <1> QED BY <1>9, <1>10

(* No launch yet, and no GPU thread.                                         *)
Empty == [threads |-> <<>>, miners |-> <<>>]

LEMMA ChoosesAll ==
    ASSUME OnRig, NEW c \in Clis
    PROVE  autoConf(c, Empty) \in Lists /\ Rising(autoConf(c, Empty).threads, CardCount)
  <1> DEFINE n == CardCount
             list == [i \in 1..n |-> Automatically(c, i)]
  <1>1. n \in Nat
    BY CardFacts
  <1>2. list \in Seq(Requests) /\ Len(list) = n /\ \A i \in 1..n : list[i] = Automatically(c, i)
    BY <1>1, AutomaticallyIs
  <1>3. Empty \in Lists
    BY DEF Empty, Lists
  <1>4. autoConf(c, Empty) = Configured(Empty, list, isCNv2)
    BY DEF autoConf, Automatically
  <1> HIDE DEF list, n
  <1>5. PICK F : /\ F[0] = Empty /\ \A k \in 0..n : F[k] \in Lists
                 /\ \A k \in 1..n : F[k] = Launched(F[k - 1], list[k], isCNv2)
                 /\ F[n] = Configured(Empty, list, isCNv2)
    BY <1>2, <1>3, ConfiguredFolds
  <1> DEFINE W == {k \in 0..n : F[k].miners = <<>> /\ Rising(F[k].threads, k)}
  <1>6. 0 \in W
    <2>1. F[0].miners = <<>> /\ F[0].threads = <<>>
      BY <1>5 DEF Empty
    <2>2. Rising(<<>>, 0)
      BY DEF Rising
    <2> QED BY <1>1, <2>1, <2>2
  <1>7. ASSUME NEW k \in 1..n, k - 1 \in W PROVE k \in W
    <2>1. F[k] = Launched(F[k - 1], Automatically(c, k), isCNv2) /\ F[k - 1] \in Lists
          /\ F[k - 1].miners = <<>> /\ Rising(F[k - 1].threads, k - 1)
      BY <1>2, <1>5, <1>7
    <2>2. k \in 1..CardCount
      BY DEF n
    <2>3. F[k].miners = <<>> /\ Rising(F[k].threads, k)
      BY <2>1, <2>2, ChoosesOne
    <2> QED BY <1>1, <2>3
  <1>8. \A k \in 0..n : k \in W
    <2> HIDE DEF W
    <2> QED BY <1>1, <1>6, <1>7, UpTo
  <1>9. n \in 0..n
    BY <1>1
  <1> QED BY <1>4, <1>5, <1>8, <1>9 DEF n

(* What each card needs for an automatic choice that runs, with the limit that
   the command line puts on it. *)
Gentle(c) ==
    c.maxThreads \in 1..128 /\ c.maxThreads # 1 /\ \A i \in 1..CardCount : Roomy(launchKind.algo, rig.cards[i])

LEMMA UnboundRuns ==
    ASSUME NEW t \in BoundThreads, CanRun(Unbound(t))
    PROVE  CanRun(t)
  <1> DEFINE u == Unbound(t)
  <1>1. u.index = t.index /\ u.blocks = t.blocks /\ u.threads = t.threads
    BY Numbered DEF Unbound
  <1> HIDE DEF u
  <1>2. CanRun(u)
    BY DEF u
  <1>3. Launchable(t)
    BY <1>1, <1>2 DEF CanRun, Launchable
  <1>4. Allocated(launchKind.algo, t) = Allocated(launchKind.algo, u)
    BY <1>1 DEF Allocated
  <1> QED BY <1>1, <1>2, <1>3, <1>4 DEF CanRun

LEMMA ChosenRun ==
    ASSUME OnRig, NEW c \in Clis, Automatic(c, Empty)
    PROVE  LET bs == Finalized(c, Empty).threads
           IN  /\ \A i, j \in 1..Len(bs) : bs[i].index = bs[j].index => i = j
               /\ Gentle(c) => \A i \in 1..Len(bs) : CanRun(bs[i])
  <1> DEFINE auto == autoConf(c, Empty).threads
             ts == [i \in DOMAIN auto |-> limit(auto[i], c)]
             bs == Finalized(c, Empty).threads
             n == Len(auto)
  <1>1. Empty \in Lists
    BY DEF Empty, Lists
  <1>2. ts \in Seq(Settled) /\ bs = bind(ts)
    BY <1>1, FinalizesTo
  <1>3. auto \in Seq(Settled) /\ Rising(auto, CardCount)
    BY ChoosesAll DEF Lists
  <1> HIDE DEF bs, auto
  <1>4. n \in Nat /\ DOMAIN auto = 1..n /\ \A i \in 1..n : auto[i] \in Settled
    BY <1>3, LenProperties, ElementOfSeq
  <1>5. Len(ts) = n /\ \A i \in 1..n : ts[i] = limit(auto[i], c)
    BY <1>4
  <1> HIDE DEF ts, n
  <1>6. /\ bs \in Seq(BoundThreads) /\ Len(bs) = n
        /\ \A i \in 1..n : Unbound(bs[i]) = limit(auto[i], c) /\ bs[i].index = limit(auto[i], c).index
    BY <1>2, <1>5, BindsOwn
  <1>7. \A i \in 1..n : bs[i].index = auto[i].index
    BY <1>4, <1>6, LimitKeeps
  <1>8. \A i \in 1..n : auto[i].index \in CardNumbers
    BY <1>4 DEF Settled, BoundThreads
  <1>9. ASSUME NEW i \in 1..n, NEW j \in 1..n, bs[i].index = bs[j].index PROVE i = j
    <2>1. auto[i].index = auto[j].index /\ auto[i].index \in Int /\ auto[j].index \in Int
      BY <1>7, <1>8, <1>9 DEF CardNumbers
    <2>2. ~(i < j) /\ ~(j < i)
      BY <1>3, <2>1 DEF Rising, n
    <2> QED BY <1>4, <2>2
  <1>10. ASSUME Gentle(c), NEW i \in 1..n PROVE CanRun(bs[i])
    <2> DEFINE t == auto[i]
    <2>1. t \in Settled /\ t.index \in CardNumbers /\ Chosen(t)
      BY <1>3, <1>4, <1>8 DEF Rising, n
    <2>2. Roomy(launchKind.algo, CardAt(t.index))
      <3>1. t.index + 1 \in 1..CardCount
        BY <2>1, CardFacts DEF CardNumbers
      <3> QED BY <1>10, <3>1 DEF Gentle, CardAt
    <2>3. c.maxThreads \in 1..128 /\ c.maxThreads # 1
      BY <1>10 DEF Gentle
    <2>4. CanRun(limit(t, c))
      BY <2>1, <2>2, <2>3, LimitedRuns
    <2>5. bs[i] \in BoundThreads /\ Unbound(bs[i]) = limit(t, c)
      BY <1>6, ElementOfSeq
    <2> HIDE DEF t
    <2> QED BY <2>4, <2>5, UnboundRuns
  <1> QED BY <1>6, <1>9, <1>10 DEF bs

(* A file may cost GPU threads their memory, and changes nothing else of them. *)
LEMMA LoadedIn ==
    ASSUME OnRig, NEW file \in Seq(Objects), NEW ms \in Seq(MinerSet)
    PROVE  LoadedThreads(file, ms) \in Lists /\ OnlyLost(ms, LoadedThreads(file, ms).miners)
  <1> DEFINE start == [threads |-> <<>>, miners |-> ms]
  <1>1. start \in Lists /\ start.miners = ms
    BY DEF Lists
  <1>2. LoadedThreads(file, ms) = parseThreads(start, file)
    BY DEF LoadedThreads
  <1> HIDE DEF start
  <1> QED BY <1>1, <1>2, ParsedThreadsIn

(* The files there are, that of the program itself among them.               *)
LEMMA FilesIn ==
    ASSUME OnRig, NEW file \in ThreadFiles \cup {<<>>}
    PROVE  file \in Seq(Objects)
  <1>1. CASE file = <<>>
    BY <1>1
  <1>2. CASE file \in ThreadFiles
    <2>1. file \in Seq(ThreadObjects) /\ \A i \in DOMAIN file : file[i].threads = -1 => file[i].blocks # 0
      BY <1>2, ThreadsAssumption
    <2>2. DOMAIN file = 1..Len(file) /\ Len(file) \in Nat /\ \A i \in 1..Len(file) : file[i] \in ThreadObjects
      BY <2>1, LenProperties, ElementOfSeq
    <2>3. \A i \in 1..Len(file) : file[i] \in Objects
      BY <2>1, <2>2 DEF Objects
    <2>4. file = [i \in 1..Len(file) |-> file[i]]
      BY <2>1, <2>2
    <2> QED BY <2>2, <2>3, <2>4
  <1> QED BY <1>1, <1>2

LEMMA EmptyLoads ==
    ASSUME OnRig
    PROVE  LoadedThreads(<<>>, <<>>) = Empty
  <1>1. <<>> \in Seq(BoundThreads) /\ <<>> \in Seq(MinerSet) /\ Len(<<>>) = 0
    OBVIOUS
  <1>2. toConfig(<<>>) = <<>>
    BY DEF toConfig
  <1>3. LoadedThreads(toConfig(<<>>), <<>>) = [threads |-> [i \in 1..Len(<<>>) |-> Saved(<<>>[i])], miners |-> <<>>]
    BY <1>1, ReadsSaved
  <1>4. [i \in 1..0 |-> Saved(<<>>[i])] = <<>>
    OBVIOUS
  <1> QED BY <1>1, <1>2, <1>3, <1>4 DEF Empty

(* What the program has saved is loaded as it was.                           *)
LEMMA SavedStay ==
    ASSUME OnRig, NEW ts \in Seq(Settled), NEW ms \in Seq(MinerSet), bind(ts) # <<>>
    PROVE  LET read == LoadedThreads(toConfig(bind(ts)), ms)
               made == Finalized(NewCli, read)
           IN  /\ ~Automatic(NewCli, read) /\ made.miners = ms
               /\ Len(made.threads) = Len(bind(ts))
               /\ \E us \in Seq(Settled) : made.threads = bind(us)
               /\ (\A i \in 1..Len(ts) : bind(ts)[i].bfactor <= 12) => made.threads = bind(ts)
  <1> DEFINE bs == bind(ts)
             n == Len(ts)
             us == [i \in 1..n |-> Saved(bs[i])]
             read == LoadedThreads(toConfig(bs), ms)
             made == Finalized(NewCli, read)
  <1>1. bs \in Seq(BoundThreads) /\ Len(bs) = n /\ bs # <<>> /\ \A i \in 1..n : Unbound(bs[i]) = ts[i]
    BY BindsOwn
  <1>2. n \in Nat /\ n > 0 /\ \A i \in 1..n : bs[i] \in BoundThreads
    BY <1>1, EmptySeq, LenProperties, ElementOfSeq
  <1> HIDE DEF bs, n
  <1>3. us \in Seq(Settled) /\ Len(us) = n /\ \A i \in 1..n : us[i] = Saved(bs[i])
    <2>1. \A i \in 1..n : Saved(bs[i]) \in Settled
      BY <1>2, SavedIs
    <2> QED BY <1>2, <2>1
  <1>4. read = [threads |-> us, miners |-> ms]
    BY <1>1, ReadsSaved
  <1> HIDE DEF us, read
  <1>5. read \in Lists /\ read.threads # <<>> /\ read.threads = us /\ read.miners = ms
    BY <1>2, <1>3, <1>4 DEF Lists
  <1>6. made.threads = bind(us) /\ made.miners = ms
    BY <1>5, NewCliIn, FinalizesTo
  <1>7. ~Automatic(NewCli, read)
    BY <1>5 DEF Automatic
  <1>8. Len(bind(us)) = n
    BY <1>3, BindsOwn
  <1>9. ASSUME \A i \in 1..n : bs[i].bfactor <= 12 PROVE us = ts
    <2>1. \A i \in 1..n : us[i] = ts[i]
      BY <1>1, <1>2, <1>3, <1>9, SavedIs
    <2>2. Len(ts) = n /\ ts \in Seq(Settled)
      BY DEF n
    <2> QED BY <1>3, <2>1, <2>2
  <1> HIDE DEF made
  <1>10. (\A i \in 1..n : bs[i].bfactor <= 12) => made.threads = bs
    BY <1>6, <1>9 DEF bs
  <1> QED BY <1>1, <1>3, <1>6, <1>7, <1>8, <1>10 DEF made, read, bs, n

-----------------------------------------------------------------------------
(* The invariant.  A configuration is bound threads, and until a file that   *)
(* others wrote is loaded there are as many of them as GPU threads, which    *)
(* then do not lose memory and, where the program chose them, can run.       *)
LostNone == \A i \in 1..Len(miners) : miners[i].memory # "lost"
AllRun == \A i \in 1..Len(miners) : CanRun(miners[i].thread)
NamedApart == \A i, j \in 1..Len(miners) : miners[i].thread.index = miners[j].thread.index => i = j

KeepsTold ==
    /\ OnRig /\ cli \in Clis /\ stage \in {"options", "ready", "mining", "dead"}
    /\ miners \in Seq(MinerSet)
    /\ \E ts \in Seq(Settled) : threads = bind(ts)
    /\ stage = "options" => miners = <<>> /\ ~foreign /\ ~automatic
    /\ stage = "mining" => miners # <<>>
    /\ ~foreign /\ stage # "options" => Len(threads) = Len(miners)
    /\ ~foreign /\ NamedApart => LostNone
    /\ automatic /\ ~foreign =>
        /\ NamedApart
        /\ Gentle(cli) => stage # "dead" /\ AllRun

(* Each step keeps it.                                                       *)
LEMMA KeepsFirst == ThreadsInit => KeepsTold
  <1> SUFFICES ASSUME ThreadsInit PROVE KeepsTold
    OBVIOUS
  <1>1. rig \in Rigs /\ launchKind \in LaunchKinds /\ cli = NewCli /\ stage = "options"
        /\ threads = <<>> /\ miners = <<>> /\ foreign = FALSE /\ automatic = FALSE
    BY DEF ThreadsInit
  <1>2. OnRig
    BY <1>1, ThreadsAssumption DEF OnRig
  <1>3. <<>> \in Seq(Settled) /\ <<>> = bind(<<>>) /\ <<>> \in Seq(MinerSet)
    BY DEF bind
  <1>4. LostNone
    BY <1>1 DEF LostNone
  <1> QED BY <1>1, <1>2, <1>3, <1>4, NewCliIn DEF KeepsTold

(* What depends on the machine and on what it is told to mine only.          *)
LEMMA RigStays ==
    ASSUME rig' = rig, launchKind' = launchKind
    PROVE  /\ OnRig' <=> OnRig
           /\ Clis' = Clis /\ Settled' = Settled /\ MinerSet' = MinerSet
           /\ \A ts : bind(ts)' = bind(ts)
           /\ \A t : CanRun(t)' <=> CanRun(t)
           /\ \A c : Gentle(c)' <=> Gentle(c)
  <1>1. OnRig' <=> OnRig
    BY DEF OnRig, IsRig
  <1>2. Settled' = Settled /\ MinerSet' = MinerSet /\ Clis' = Clis
    BY DEF Settled, MinerSet, BoundThreads, CardNumbers, CardCount, Clis
  <1>3. ASSUME NEW ts PROVE bind(ts)' = bind(ts)
    BY DEF bind, BoundAt, CardAt, SamePci
  <1>4. ASSUME NEW t PROVE CanRun(t)' <=> CanRun(t)
    <2>1. Launchable(t)' <=> Launchable(t)
      BY DEF Launchable, CardAt
    <2>2. Allocated(launchKind.algo, t)' = Allocated(launchKind.algo, t) /\ CardAt(t.index)' = CardAt(t.index)
      BY DEF CardAt
    <2> QED BY <2>1, <2>2 DEF CanRun
  <1>5. ASSUME NEW c PROVE Gentle(c)' <=> Gentle(c)
    BY DEF Gentle, CardCount
  <1> QED BY <1>1, <1>2, <1>3, <1>4, <1>5

LEMMA KeepsParse ==
    ASSUME KeepsTold, NEW option \in LaunchOptions, ParseCuda(option)
    PROVE  KeepsTold'
  <1>1. /\ stage = "options" /\ cli' = CliParsed(cli, option)
        /\ UNCHANGED <<rig, launchKind, stage, threads, miners, foreign, automatic>>
    BY DEF ParseCuda
  <1>2. cli' \in Clis /\ OnRig
    BY <1>1, CliKeeps, ThreadsAssumption DEF KeepsTold
  <1>3. /\ OnRig' /\ Clis' = Clis /\ Settled' = Settled /\ MinerSet' = MinerSet
        /\ \A ts : bind(ts)' = bind(ts)
    BY <1>1, <1>2, RigStays
  <1>4. LostNone'
    BY <1>1 DEF KeepsTold, LostNone
  <1>5. \E ts \in Seq(Settled) : threads = bind(ts)
    BY DEF KeepsTold
  <1>6. \E ts \in Seq(Settled)' : threads' = bind(ts)'
    BY <1>1, <1>3, <1>5
  <1> QED BY <1>1, <1>2, <1>3, <1>4, <1>6 DEF KeepsTold

LEMMA KeepsFinalize ==
    ASSUME KeepsTold, FinalizeThreads
    PROVE  KeepsTold'
  <1>1. PICK file \in ThreadFiles \cup {<<>>} :
            /\ threads' = Finalized(cli, LoadedThreads(file, <<>>)).threads
            /\ automatic' = Automatic(cli, LoadedThreads(file, <<>>))
            /\ miners' = [i \in DOMAIN Finalized(cli, LoadedThreads(file, <<>>)).threads |->
                            [thread |-> Finalized(cli, LoadedThreads(file, <<>>)).threads[i], memory |-> "none"]]
            /\ foreign' = (file # <<>>)
    BY DEF FinalizeThreads
  <1>2. stage' = "ready" /\ UNCHANGED <<rig, launchKind, cli, given>>
    BY DEF FinalizeThreads
  <1>3. OnRig /\ cli \in Clis
    BY DEF KeepsTold
  <1> DEFINE read == LoadedThreads(file, <<>>)
             bs == Finalized(cli, read).threads
  <1>4. read \in Lists
    <2>1. <<>> \in Seq(MinerSet)
      OBVIOUS
    <2> QED BY <1>3, <2>1, FilesIn, LoadedIn
  <1>5. PICK ts \in Seq(Settled) : bs = bind(ts)
    BY <1>3, <1>4, FinalizesTo
  <1>6. bs \in Seq(BoundThreads)
    BY <1>3, <1>5, BindsOwn
  <1>7. ASSUME file = <<>> PROVE read = Empty
    BY <1>3, <1>7, EmptyLoads
  <1>8. threads' = bs /\ automatic' = Automatic(cli, read)
        /\ miners' = [i \in DOMAIN bs |-> [thread |-> bs[i], memory |-> "none"]]
    BY <1>1
  <1> HIDE DEF read
  <1>9. /\ automatic' /\ ~foreign' => \A i, j \in 1..Len(bs) : bs[i].index = bs[j].index => i = j
        /\ automatic' /\ ~foreign' => (Gentle(cli) => \A i \in 1..Len(bs) : CanRun(bs[i]))
    <2> SUFFICES ASSUME automatic', ~foreign'
                 PROVE  /\ \A i, j \in 1..Len(bs) : bs[i].index = bs[j].index => i = j
                        /\ Gentle(cli) => \A i \in 1..Len(bs) : CanRun(bs[i])
      OBVIOUS
    <2>1. read = Empty /\ Automatic(cli, Empty)
      BY <1>1, <1>7, <1>8
    <2> QED BY <1>3, <2>1, ChosenRun
  <1> HIDE DEF bs
  <1>10. DOMAIN bs = 1..Len(bs) /\ Len(bs) \in Nat /\ \A i \in 1..Len(bs) : bs[i] \in BoundThreads
    BY <1>6, LenProperties, ElementOfSeq
  <1>11. /\ miners' \in Seq(MinerSet) /\ Len(miners') = Len(bs)
         /\ \A i \in 1..Len(bs) : miners'[i].thread = bs[i] /\ miners'[i].memory = "none"
    <2>1. \A i \in 1..Len(bs) : [thread |-> bs[i], memory |-> "none"] \in MinerSet
      BY <1>10 DEF MinerSet
    <2> QED BY <1>8, <1>10, <2>1
  <1>12. /\ OnRig' /\ Clis' = Clis /\ Settled' = Settled /\ MinerSet' = MinerSet
         /\ \A us : bind(us)' = bind(us)
         /\ \A t : CanRun(t)' <=> CanRun(t)
         /\ \A c : Gentle(c)' <=> Gentle(c)
    BY <1>2, <1>3, RigStays
  <1>13. LostNone'
    BY <1>11 DEF LostNone
  <1>14. automatic' /\ ~foreign' => NamedApart' /\ (Gentle(cli)' => AllRun')
    <2>1. Gentle(cli)' <=> Gentle(cli)
      BY <1>2 DEF Gentle, CardCount
    <2>2. ASSUME automatic', ~foreign' PROVE NamedApart'
      BY <1>9, <1>11, <2>2 DEF NamedApart
    <2>3. ASSUME automatic', ~foreign', Gentle(cli)' PROVE AllRun'
      <3>1. \A i \in 1..Len(bs) : CanRun(bs[i])
        BY <1>9, <2>1, <2>3
      <3> QED BY <1>2, <1>11, <3>1, SMTT(30) DEF AllRun, CanRun, Launchable, CardAt
    <2> QED BY <2>2, <2>3
  <1>15. \E us \in Seq(Settled)' : threads' = bind(us)'
    BY <1>5, <1>8, <1>12
  <1> QED BY <1>2, <1>3, <1>8, <1>11, <1>12, <1>13, <1>14, <1>15 DEF KeepsTold

(* Memory is lost or taken, and whose it is does not change.                 *)
LEMMA SameThreads ==
    ASSUME rig' = rig, launchKind' = launchKind, cli' = cli,
           Len(miners') = Len(miners), \A i \in 1..Len(miners) : miners'[i].thread = miners[i].thread
    PROVE  (NamedApart' <=> NamedApart) /\ (AllRun' <=> AllRun) /\ (Gentle(cli)' <=> Gentle(cli))
  <1>1. NamedApart' <=> NamedApart
    BY DEF NamedApart
  <1>2. AllRun' <=> AllRun
    <2>1. AllRun' <=> \A i \in 1..Len(miners) : CanRun(miners[i].thread)'
      BY DEF AllRun
    <2>2. ASSUME NEW i \in 1..Len(miners) PROVE CanRun(miners[i].thread)' <=> CanRun(miners[i].thread)
      <3> DEFINE t == miners[i].thread
      <3>1. t' = t
        OBVIOUS
      <3> HIDE DEF t
      <3>2. Launchable(t)' <=> Launchable(t)
        BY <3>1 DEF Launchable, CardAt
      <3>3. Allocated(launchKind.algo, t)' = Allocated(launchKind.algo, t) /\ CardAt(t.index)' = CardAt(t.index)
        BY <3>1 DEF CardAt, Allocated
      <3>4. CanRun(t)' <=> CanRun(t)
        BY <3>2, <3>3 DEF CanRun
      <3> QED BY <3>4 DEF t
    <2> QED BY <2>1, <2>2 DEF AllRun
  <1>3. Gentle(cli)' <=> Gentle(cli)
    BY DEF Gentle, CardCount
  <1> QED BY <1>1, <1>2, <1>3

LEMMA KeepsStart ==
    ASSUME KeepsTold, NEW i \in DOMAIN miners, StartMiner(i)
    PROVE  KeepsTold'
  <1> DEFINE t == miners[i].thread
             info == DeviceInfo(miners, t, FALSE)
             empty == Reset(info.miners, t.index)
  <1>1. /\ stage \in {"ready", "mining"} /\ miners[i].memory = "none"
        /\ IF Allocated(launchKind.algo, t) > FreeOn(empty, t.index)
           THEN stage' = "dead" /\ miners' = miners
           ELSE stage' = "mining" /\ miners' = [empty EXCEPT ![i].memory = "held"]
        /\ UNCHANGED <<rig, launchKind, cli, given, threads, foreign, automatic>>
    BY DEF StartMiner
  <1>2. OnRig /\ miners \in Seq(MinerSet)
    BY DEF KeepsTold
  <1>3. DOMAIN miners = 1..Len(miners) /\ Len(miners) \in Nat /\ i \in 1..Len(miners)
        /\ \A k \in 1..Len(miners) : miners[k] \in MinerSet
    BY <1>2, LenProperties, ElementOfSeq
  <1>4. t \in BoundThreads /\ t.index \in CardNumbers /\ t.threads # -1
    BY <1>3 DEF MinerSet, BoundThreads
  <1>5. info.miners = miners
    <2>1. t.index \in 0..(CardCount - 1)
      BY <1>4 DEF CardNumbers
    <2> QED BY <1>4, <2>1 DEF DeviceInfo
  <1>6. /\ OnlyLost(miners, empty) /\ Holding(empty, t.index) = {}
        /\ \A k \in 1..Len(miners) : miners[k].thread.index # t.index => empty[k] = miners[k]
    <2>1. empty = Reset(miners, t.index)
      BY <1>5
    <2> HIDE DEF empty, t
    <2> QED BY <1>2, <2>1, ResetLoses
  <1>7. /\ empty \in Seq(MinerSet) /\ Len(empty) = Len(miners) /\ DOMAIN empty = 1..Len(miners)
        /\ \A k \in 1..Len(miners) : /\ empty[k].thread = miners[k].thread /\ empty[k] \in MinerSet
                                     /\ empty[k].memory # miners[k].memory =>
                                            miners[k].memory = "held" /\ empty[k].memory = "lost"
    <2> HIDE DEF empty
    <2>1. empty \in Seq(MinerSet) /\ Len(empty) = Len(miners)
      BY <1>6 DEF OnlyLost
    <2>2. DOMAIN empty = 1..Len(miners) /\ \A k \in 1..Len(miners) : empty[k] \in MinerSet
      BY <2>1, LenProperties, ElementOfSeq
    <2> QED BY <1>6, <2>1, <2>2 DEF OnlyLost
  <1>8. FreeOn(empty, t.index) = CardAt(t.index).free
    BY <1>2, <1>4, <1>6, <1>7, FreeNumber
  <1>9. CardAt(t.index).free \in Nat
    BY <1>2, <1>4, CardFacts DEF Card
  <1> HIDE DEF t, info, empty
  <1>10. /\ miners' \in Seq(MinerSet) /\ Len(miners') = Len(miners)
         /\ \A k \in 1..Len(miners) : miners'[k].thread = miners[k].thread
         /\ NamedApart /\ LostNone => LostNone'
    <2>1. CASE stage' = "dead" /\ miners' = miners
      BY <1>2, <2>1 DEF LostNone
    <2>2. CASE stage' = "mining" /\ miners' = [empty EXCEPT ![i].memory = "held"]
      <3> DEFINE own == [thread |-> t, memory |-> "held"]
      <3>1. empty[i] \in [thread : BoundThreads, memory : {"none", "held", "lost"}] /\ empty[i].thread = t
        BY <1>3, <1>7 DEF MinerSet, t
      <3>2. [empty[i] EXCEPT !.memory = "held"] = own
        BY <3>1
      <3>3. miners' = [k \in 1..Len(miners) |-> IF k = i THEN own ELSE empty[k]]
        BY <1>3, <1>7, <2>2, <3>2, Zenon
      <3>4. own \in MinerSet
        BY <1>4 DEF MinerSet
      <3> HIDE DEF own
      <3>5. \A k \in 1..Len(miners) : miners'[k] \in MinerSet /\ miners'[k] = IF k = i THEN own ELSE empty[k]
        BY <1>7, <3>3, <3>4
      <3>6. miners' \in Seq(MinerSet) /\ Len(miners') = Len(miners)
        BY <1>3, <3>3, <3>5
      <3>7. own.thread = miners[i].thread /\ own.memory = "held"
        BY DEF own, t
      <3>8. \A k \in 1..Len(miners) : miners'[k].thread = miners[k].thread
        BY <1>7, <3>5, <3>7
      <3>9. ASSUME NamedApart, LostNone PROVE LostNone'
        <4>1. ASSUME NEW k \in 1..Len(miners), k # i PROVE empty[k] = miners[k]
          <5>1. miners[k].thread.index # miners[i].thread.index
            BY <1>3, <3>9, <4>1 DEF NamedApart
          <5> QED BY <1>6, <5>1 DEF t
        <4>2. ASSUME NEW k \in 1..Len(miners) PROVE miners'[k].memory # "lost"
          BY <3>5, <3>7, <3>9, <4>1 DEF LostNone
        <4> QED BY <3>6, <4>2 DEF LostNone
      <3> QED BY <3>6, <3>8, <3>9
    <2> QED BY <1>1, <2>1, <2>2
  <1>11. (NamedApart' <=> NamedApart) /\ (AllRun' <=> AllRun) /\ (Gentle(cli)' <=> Gentle(cli))
    BY <1>1, <1>10, SameThreads
  <1>12. AllRun => stage' = "mining"
    <2> SUFFICES ASSUME AllRun PROVE stage' = "mining"
      OBVIOUS
    <2>1. Allocated(launchKind.algo, t) <= CardAt(t.index).free
      BY <1>3 DEF AllRun, CanRun, t
    <2>2. Allocated(launchKind.algo, t) \in Nat
      <3> DEFINE rest == HashMemory(launchKind.algo) + IF launchKind.algo = "HEAVY" THEN 110 ELSE 91
      <3>1. Allocated(launchKind.algo, t) = t.blocks * t.threads * rest /\ rest \in Nat
        BY <1>2, HashTakes DEF OnRig
      <3> HIDE DEF rest
      <3>2. t.blocks \in Nat /\ t.threads \in Nat
        BY <1>4 DEF BoundThreads
      <3> QED BY <3>1, <3>2
    <2>3. ~(Allocated(launchKind.algo, t) > FreeOn(empty, t.index))
      BY <1>8, <1>9, <2>1, <2>2
    <2> QED BY <1>1, <2>3
  <1>13. /\ OnRig' /\ Clis' = Clis /\ Settled' = Settled /\ MinerSet' = MinerSet
         /\ \A us : bind(us)' = bind(us)
    BY <1>1, <1>2, RigStays
  <1>14. \E us \in Seq(Settled)' : threads' = bind(us)'
    <2>1. \E us \in Seq(Settled) : threads = bind(us)
      BY DEF KeepsTold
    <2> QED BY <1>1, <1>13, <2>1
  <1>15. miners' # <<>>
    BY <1>3, <1>10
  <1>16. stage' \in {"mining", "dead"} /\ stage # "options" /\ cli' \in Clis
    BY <1>1 DEF KeepsTold
  <1> HIDE DEF t
  <1>17. automatic' /\ ~foreign' => NamedApart' /\ (Gentle(cli)' => stage' # "dead" /\ AllRun')
    BY <1>1, <1>11, <1>12 DEF KeepsTold
  <1>18. ~foreign' /\ NamedApart' => LostNone'
    BY <1>1, <1>10, <1>11 DEF KeepsTold
  <1>19. ~foreign' => Len(threads') = Len(miners')
    BY <1>1, <1>10, <1>16 DEF KeepsTold
  <1> QED BY <1>10, <1>13, <1>14, <1>15, <1>16, <1>17, <1>18, <1>19 DEF KeepsTold

LEMMA KeepsBatch ==
    ASSUME KeepsTold, NEW i \in DOMAIN miners, Batch(i)
    PROVE  KeepsTold'
  <1>1. /\ stage = "mining" /\ miners[i].memory # "none" /\ stage' = "dead"
        /\ ~(miners[i].memory = "held" /\ Launchable(miners[i].thread))
        /\ UNCHANGED <<rig, launchKind, cli, given, threads, miners, foreign, automatic>>
    BY DEF Batch
  <1>2. OnRig /\ miners \in Seq(MinerSet)
    BY DEF KeepsTold
  <1>3. i \in 1..Len(miners) /\ miners[i].memory \in {"none", "held", "lost"}
    <2>1. i \in 1..Len(miners) /\ miners[i] \in MinerSet
      BY <1>2, LenProperties, ElementOfSeq
    <2> QED BY <2>1 DEF MinerSet
  <1>4. (NamedApart' <=> NamedApart) /\ (AllRun' <=> AllRun) /\ (Gentle(cli)' <=> Gentle(cli)) /\ (LostNone' <=> LostNone)
    <2>1. LostNone' <=> LostNone
      BY <1>1 DEF LostNone
    <2> QED BY <1>1, <2>1, SameThreads
  <1>5. ASSUME automatic, ~foreign, Gentle(cli) PROVE FALSE
    <2>1. AllRun /\ LostNone
      BY <1>5 DEF KeepsTold
    <2>2. Launchable(miners[i].thread) /\ miners[i].memory # "lost"
      BY <1>3, <2>1 DEF AllRun, CanRun, LostNone
    <2> QED BY <1>1, <1>3, <2>2
  <1>6. /\ OnRig' /\ Clis' = Clis /\ Settled' = Settled /\ MinerSet' = MinerSet
        /\ \A us : bind(us)' = bind(us)
    BY <1>1, <1>2, RigStays
  <1>7. \E us \in Seq(Settled)' : threads' = bind(us)'
    <2>1. \E us \in Seq(Settled) : threads = bind(us)
      BY DEF KeepsTold
    <2> QED BY <1>1, <1>6, <2>1
  <1> QED BY <1>1, <1>4, <1>5, <1>6, <1>7 DEF KeepsTold

LEMMA KeepsReload ==
    ASSUME KeepsTold, ReloadThreads
    PROVE  KeepsTold'
  <1>1. PICK file \in ThreadFiles \cup {<<>>, toConfig(threads)} :
            LET read == LoadedThreads(file, miners)
                made == Finalized(NewCli, read)
            IN  /\ threads' = made.threads /\ miners' = made.miners
                /\ automatic' = (Automatic(NewCli, read) \/ (automatic /\ file = toConfig(threads)))
                /\ foreign' = (foreign \/ file # toConfig(threads))
    BY DEF ReloadThreads
  <1>2. stage = "mining" /\ UNCHANGED <<rig, launchKind, cli, stage, given>>
    BY DEF ReloadThreads
  <1>3. /\ OnRig /\ cli \in Clis /\ miners \in Seq(MinerSet) /\ miners # <<>>
        /\ ~foreign => Len(threads) = Len(miners)
        /\ ~foreign /\ NamedApart => LostNone
        /\ automatic /\ ~foreign => NamedApart /\ (Gentle(cli) => AllRun)
    BY <1>2 DEF KeepsTold
  <1>4. PICK ts \in Seq(Settled) : threads = bind(ts)
    BY DEF KeepsTold
  <1> DEFINE read == LoadedThreads(file, miners)
             made == Finalized(NewCli, read)
  <1>5. /\ threads' = made.threads /\ miners' = made.miners
        /\ automatic' = (Automatic(NewCli, read) \/ (automatic /\ file = toConfig(threads)))
        /\ foreign' = (foreign \/ file # toConfig(threads))
    BY <1>1
  <1>6. threads \in Seq(BoundThreads)
    BY <1>3, <1>4, BindsOwn
  <1>7. read \in Lists /\ OnlyLost(miners, read.miners)
    <2>1. file \in Seq(Objects)
      <3>1. CASE file \in ThreadFiles \cup {<<>>}
        BY <1>3, <3>1, FilesIn
      <3>2. CASE file = toConfig(threads)
        BY <1>3, <1>6, <3>2, ReadsSaved
      <3> QED BY <3>1, <3>2
    <2> QED BY <1>3, <2>1, LoadedIn
  <1> HIDE DEF read
  <1>8. \E us \in Seq(Settled) : made.threads = bind(us)
    BY <1>3, <1>7, NewCliIn, FinalizesTo
  <1>9. OnlyLost(miners, made.miners)
    <2>1. OnlyLost(read.miners, made.miners)
      BY <1>3, <1>7, NewCliIn, FinalizesTo
    <2> HIDE DEF made
    <2> QED BY <1>3, <1>7, <2>1, LostMore
  <1>10. ASSUME ~foreign, file = toConfig(threads)
         PROVE  made.miners = miners /\ Len(made.threads) = Len(threads) /\ ~Automatic(NewCli, read)
    <2>1. Len(threads) = Len(miners) /\ Len(miners) > 0
      BY <1>3, <1>10, EmptySeq, LenProperties
    <2>2. bind(ts) # <<>>
      BY <1>4, <2>1
    <2>3. read = LoadedThreads(toConfig(bind(ts)), miners)
      BY <1>4, <1>10 DEF read
    <2> QED BY <1>3, <1>4, <2>2, <2>3, SavedStay
  <1> HIDE DEF made
  <1>11. /\ miners' \in Seq(MinerSet) /\ Len(miners') = Len(miners)
         /\ \A i \in 1..Len(miners) : miners'[i].thread = miners[i].thread
    BY <1>5, <1>9 DEF OnlyLost
  <1>12. (NamedApart' <=> NamedApart) /\ (AllRun' <=> AllRun) /\ (Gentle(cli)' <=> Gentle(cli))
    BY <1>2, <1>11, SameThreads
  <1>13. ~foreign' => ~foreign /\ miners' = miners /\ Len(threads') = Len(miners') /\ (automatic' <=> automatic)
    BY <1>3, <1>5, <1>10
  <1>14. ~foreign' => (LostNone' <=> LostNone)
    BY <1>13 DEF LostNone
  <1>15. miners' # <<>>
    BY <1>3, <1>11, EmptySeq, LenProperties
  <1>16. /\ OnRig' /\ Clis' = Clis /\ Settled' = Settled /\ MinerSet' = MinerSet
         /\ \A us : bind(us)' = bind(us)
    BY <1>2, <1>3, RigStays
  <1>17. \E us \in Seq(Settled)' : threads' = bind(us)'
    BY <1>5, <1>8, <1>16
  <1> QED BY <1>2, <1>3, <1>11, <1>12, <1>13, <1>14, <1>15, <1>16, <1>17 DEF KeepsTold

LEMMA KeepsStill ==
    ASSUME KeepsTold, UNCHANGED threadsVars
    PROVE  KeepsTold'
  <1>1. UNCHANGED <<rig, launchKind, cli, stage, given, threads, miners, foreign, automatic>>
    BY DEF threadsVars
  <1>2. OnRig
    BY DEF KeepsTold
  <1>3. (NamedApart' <=> NamedApart) /\ (AllRun' <=> AllRun) /\ (Gentle(cli)' <=> Gentle(cli)) /\ (LostNone' <=> LostNone)
    <2>1. LostNone' <=> LostNone
      BY <1>1 DEF LostNone
    <2> QED BY <1>1, <2>1, SameThreads
  <1>4. /\ OnRig' /\ Clis' = Clis /\ Settled' = Settled /\ MinerSet' = MinerSet
        /\ \A us : bind(us)' = bind(us)
    BY <1>1, <1>2, RigStays
  <1>5. \E us \in Seq(Settled)' : threads' = bind(us)'
    <2>1. \E us \in Seq(Settled) : threads = bind(us)
      BY DEF KeepsTold
    <2> QED BY <1>1, <1>4, <2>1
  <1> QED BY <1>1, <1>3, <1>4, <1>5 DEF KeepsTold

-----------------------------------------------------------------------------
(* What the invariant is for.                                                *)
LEMMA ToldRuns ==
    ASSUME KeepsTold
    PROVE  CardsRun
  <1>1. OnRig /\ miners \in Seq(MinerSet)
    BY DEF KeepsTold
  <1>2. DOMAIN miners = 1..Len(miners)
    BY <1>1, LenProperties
  <1>3. PICK ts \in Seq(Settled) : threads = bind(ts)
    BY DEF KeepsTold
  <1>4. /\ threads \in Seq(BoundThreads) /\ Len(threads) = Len(ts)
        /\ \A i \in 1..Len(ts) : threads[i].index = ts[i].index
        /\ \A i \in 1..Len(ts) : threads[i].nvmlId # -1 =>
                rig.nvml[threads[i].nvmlId] = CardAt(ts[i].index).pci
        /\ \A i \in 1..Len(ts), n \in DOMAIN rig.nvml :
                rig.nvml[n] = CardAt(ts[i].index).pci => \E j \in 1..Len(ts) : threads[j].nvmlId = n
    BY <1>1, <1>3, BindsOwn
  <1>5. DOMAIN threads = 1..Len(ts)
    BY <1>4, LenProperties
  <1>6. AutomaticRuns
    <2> SUFFICES ASSUME automatic, ~foreign, Gentle(cli)
                 PROVE  stage # "dead" /\ \A i \in DOMAIN miners : CanRun(miners[i].thread)
      BY DEF AutomaticRuns, Gentle, CanRun
    <2> QED BY <1>2 DEF KeepsTold, AllRun
  <1>7. MemoryIsKept
    BY <1>2 DEF MemoryIsKept, NamedOnce, KeepsTold, NamedApart, LostNone
  <1>8. SavedThreadsStay
    <2> SUFFICES ASSUME threads # <<>>, \A i \in DOMAIN threads : threads[i].bfactor <= 12
                 PROVE  Finalized(NewCli, LoadedThreads(toConfig(threads), miners)).threads = threads
      BY DEF SavedThreadsStay
    <2>1. bind(ts) # <<>> /\ \A i \in 1..Len(ts) : bind(ts)[i].bfactor <= 12
      BY <1>3, <1>5
    <2>2. Finalized(NewCli, LoadedThreads(toConfig(bind(ts)), miners)).threads = bind(ts)
      BY <1>1, <2>1, SavedStay
    <2> QED BY <1>3, <2>2
  <1>9. BoundToOwnCard
    BY <1>4, <1>5 DEF BoundToOwnCard
  <1> QED BY <1>6, <1>7, <1>8, <1>9 DEF CardsRun

(* What the cards are told to run, they run: a choice of the program can be  *)
(* launched and has its memory, no GPU thread loses its own to a reload, the *)
(* threads that Config::getJSON saves are loaded as they were, and           *)
(* NvmlApi::bind gives each the number of its own card.                      *)
THEOREM RunsAsTold == ThreadsSpec => []CardsRun
  <1>1. ThreadsInit => KeepsTold
    BY KeepsFirst
  <1>2. KeepsTold /\ [ThreadsNext]_threadsVars => KeepsTold'
    <2> SUFFICES ASSUME KeepsTold, [ThreadsNext]_threadsVars PROVE KeepsTold'
      OBVIOUS
    <2>1. CASE UNCHANGED threadsVars
      BY <2>1, KeepsStill
    <2>2. ASSUME NEW option \in LaunchOptions, ParseCuda(option) PROVE KeepsTold'
      BY <2>2, KeepsParse
    <2>3. CASE FinalizeThreads
      BY <2>3, KeepsFinalize
    <2>4. CASE ReloadThreads
      BY <2>4, KeepsReload
    <2>5. ASSUME NEW i \in DOMAIN miners, StartMiner(i) \/ Batch(i) PROVE KeepsTold'
      BY <2>5, KeepsStart, KeepsBatch
    <2> QED BY <2>1, <2>2, <2>3, <2>4, <2>5 DEF ThreadsNext
  <1>3. KeepsTold => CardsRun
    BY ToldRuns
  <1> QED BY <1>1, <1>2, <1>3, PTL DEF ThreadsSpec

=============================================================================
