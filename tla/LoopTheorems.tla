---------------------------- MODULE LoopTheorems ----------------------------
(***************************************************************************)
(* Induction over the natural numbers and loops as recursive functions, in *)
(* a form the provers can use: about sets and functions, not operators.    *)
(*                                                                         *)
(* A loop over the states in M ends in the states of D, with the result    *)
(* R[m], and otherwise goes on from F[m].  A sum is the function whose     *)
(* value at n is that at n - 1 and the n-th summand.                       *)
(***************************************************************************)
EXTENDS Integers, TLAPS, WellFoundedInduction

(* A non-empty set of natural numbers has a least element.                 *)
LEMMA LeastNumber ==
  ASSUME NEW T, T \subseteq Nat, T # {}
  PROVE  \E x \in T : \A y \in T : x <= y
<1> DEFINE Less == OpToRel(<, Nat)
<1>1. IsWellFoundedOn(Less, Nat)
  BY NatLessThanWellFounded
<1>2. \A x, y \in Nat : y < x => <<y, x>> \in Less
  BY DEF OpToRel
<1> HIDE DEF Less
<1>3. PICK x \in T : \A y \in T : <<y, x>> \notin Less
  BY <1>1, WFMin
<1>4. ASSUME NEW y \in T PROVE x <= y
  <2>1. x \in Nat /\ y \in Nat
    OBVIOUS
  <2>2. ~(y < x)
    BY <1>2, <1>3, <2>1
  <2> QED BY <2>1, <2>2
<1> QED BY <1>4

(* Induction: a set with 0 and every successor has all numbers.            *)
LEMMA AllNumbers ==
  ASSUME NEW S, 0 \in S, \A n \in Nat : n \in S => n + 1 \in S
  PROVE  \A n \in Nat : n \in S
<1> SUFFICES ASSUME Nat \ S # {} PROVE FALSE
  OBVIOUS
<1>1. PICK x \in Nat \ S : \A y \in Nat \ S : x <= y
  BY LeastNumber
<1>2. x - 1 \in Nat
  BY <1>1
<1> QED BY <1>1, <1>2

-----------------------------------------------------------------------------
(* The results of the runs of a loop from m: at most one.                  *)
Outcomes(M, D, F, R, m) ==
  {r \in M : \E n \in Nat : \E s \in [0 .. n -> M] :
     /\ s[0] = m
     /\ \A i \in 0 .. n - 1 : s[i] \notin D /\ s[i + 1] = F[s[i]]
     /\ s[n] \in D /\ r = R[s[n]]}

(* A state that ends the loop has one run, of length 0.                    *)
LEMMA OutcomeOfEnd ==
  ASSUME NEW M, NEW D \in SUBSET M, NEW F, NEW R \in [D -> M], NEW m \in D
  PROVE  Outcomes(M, D, F, R, m) = {R[m]}
<1>1. R[m] \in Outcomes(M, D, F, R, m)
  <2> DEFINE s == [i \in 0 .. 0 |-> m]
  <2>1. s \in [0 .. 0 -> M] /\ s[0] = m /\ s[0] \in D /\ \A i \in 0 .. 0 - 1 : FALSE
    OBVIOUS
  <2> HIDE DEF s
  <2> QED BY <2>1 DEF Outcomes
<1>2. ASSUME NEW r \in Outcomes(M, D, F, R, m) PROVE r = R[m]
  <2>0. PICK n \in Nat : \E s \in [0 .. n -> M] :
          /\ s[0] = m
          /\ \A i \in 0 .. n - 1 : s[i] \notin D /\ s[i + 1] = F[s[i]]
          /\ s[n] \in D /\ r = R[s[n]]
    BY DEF Outcomes
  <2>1. PICK s \in [0 .. n -> M] :
          /\ s[0] = m
          /\ \A i \in 0 .. n - 1 : s[i] \notin D /\ s[i + 1] = F[s[i]]
          /\ s[n] \in D /\ r = R[s[n]]
    BY <2>0
  <2>2. n = 0
    BY <2>1
  <2> QED BY <2>1, <2>2
<1> QED BY <1>1, <1>2

(* Any other state has the runs of the next one, with itself in front.     *)
LEMMA OutcomeOfStep ==
  ASSUME NEW M, NEW D \in SUBSET M, NEW F, NEW R, NEW m \in M \ D, F[m] \in M
  PROVE  Outcomes(M, D, F, R, m) = Outcomes(M, D, F, R, F[m])
<1>1. ASSUME NEW r \in Outcomes(M, D, F, R, m) PROVE r \in Outcomes(M, D, F, R, F[m])
  <2>0. PICK n \in Nat : \E s \in [0 .. n -> M] :
          /\ s[0] = m
          /\ \A i \in 0 .. n - 1 : s[i] \notin D /\ s[i + 1] = F[s[i]]
          /\ s[n] \in D /\ r = R[s[n]] /\ r \in M
    BY <1>1 DEF Outcomes
  <2>1. PICK s \in [0 .. n -> M] :
          /\ s[0] = m
          /\ \A i \in 0 .. n - 1 : s[i] \notin D /\ s[i + 1] = F[s[i]]
          /\ s[n] \in D /\ r = R[s[n]] /\ r \in M
    BY <2>0
  <2>2. n # 0 /\ n - 1 \in Nat
    BY <2>1
  <2> DEFINE t == [i \in 0 .. n - 1 |-> s[i + 1]]
  <2>3. t \in [0 .. n - 1 -> M]
    BY <2>1
  <2>4. t[0] = F[m]
    BY <2>1, <2>2
  <2>5. \A i \in 0 .. (n - 1) - 1 : t[i] \notin D /\ t[i + 1] = F[t[i]]
    BY <2>1, <2>2
  <2>6. t[n - 1] = s[n]
    BY <2>2
  <2> HIDE DEF t
  <2> QED BY <2>1, <2>2, <2>3, <2>4, <2>5, <2>6, ZenonT(60) DEF Outcomes
<1>2. ASSUME NEW r \in Outcomes(M, D, F, R, F[m]) PROVE r \in Outcomes(M, D, F, R, m)
  <2>0. PICK n \in Nat : \E s \in [0 .. n -> M] :
          /\ s[0] = F[m]
          /\ \A i \in 0 .. n - 1 : s[i] \notin D /\ s[i + 1] = F[s[i]]
          /\ s[n] \in D /\ r = R[s[n]] /\ r \in M
    BY <1>2 DEF Outcomes
  <2>1. PICK s \in [0 .. n -> M] :
          /\ s[0] = F[m]
          /\ \A i \in 0 .. n - 1 : s[i] \notin D /\ s[i + 1] = F[s[i]]
          /\ s[n] \in D /\ r = R[s[n]] /\ r \in M
    BY <2>0
  <2> DEFINE t == [i \in 0 .. n + 1 |-> IF i = 0 THEN m ELSE s[i - 1]]
  <2>2. t \in [0 .. n + 1 -> M]
    BY <2>1
  <2>3. t[0] = m
    BY <2>1
  <2>4. ASSUME NEW i \in 0 .. (n + 1) - 1 PROVE t[i] \notin D /\ t[i + 1] = F[t[i]]
    <3>1. CASE i = 0
      BY <2>1, <3>1
    <3>2. CASE i # 0
      <4>1. i - 1 \in 0 .. n - 1 /\ (i - 1) + 1 = i /\ (i + 1) - 1 = i
        BY <3>2
      <4>2. t[i] = s[i - 1] /\ t[i + 1] = s[i]
        BY <3>2, <4>1
      <4> QED BY <2>1, <4>1, <4>2
    <3> QED BY <3>1, <3>2
  <2>5. t[n + 1] = s[n]
    BY <2>1
  <2>6. n + 1 \in Nat
    OBVIOUS
  <2> HIDE DEF t
  <2> QED BY <2>1, <2>2, <2>3, <2>4, <2>5, <2>6, ZenonT(60) DEF Outcomes
<1> QED BY <1>1, <1>2

(* The loop leads from states to states.                                   *)
Closed(M, D, F, R) ==
  /\ D \in SUBSET M /\ R \in [D -> M]
  /\ \A m \in M \ D : F[m] \in M

(* The function the loop computes.                                         *)
Computes(g, M, D, F, R) ==
  g = [m \in M |-> IF m \in D THEN R[m] ELSE g[F[m]]]

(* The number v[m] decreases in every round.                               *)
Decreases(M, D, F, v) ==
  /\ v \in [M -> Nat]
  /\ \A m \in M \ D : F[m] \in M /\ v[F[m]] < v[m]

(* What P says holds at the end, and before a round if it does after it.   *)
HoldsBackwards(M, D, F, P) ==
  /\ \A m \in M \cap D : m \in P
  /\ \A m \in M \ D : F[m] \in P => m \in P

(* A loop defines a function, whether or not it ends.                      *)
LEMMA LoopDefined ==
  ASSUME NEW M, NEW D, NEW F, NEW R, Closed(M, D, F, R)
  PROVE  \E g : Computes(g, M, D, F, R)
<1>0. D \in SUBSET M /\ R \in [D -> M] /\ \A m \in M \ D : F[m] \in M
  BY DEF Closed
<1> DEFINE O(m) == Outcomes(M, D, F, R, m)
           g    == [m \in M |-> CHOOSE r : r \in O(m)]
<1>1. ASSUME NEW m \in M PROVE g[m] = IF m \in D THEN R[m] ELSE g[F[m]]
  <2>1. CASE m \in D
    <3>1. O(m) = {R[m]}
      BY <1>0, <2>1, OutcomeOfEnd
    <3> HIDE DEF O
    <3> QED BY <2>1, <3>1
  <2>2. CASE m \notin D
    <3>1. O(m) = O(F[m]) /\ F[m] \in M
      BY <1>0, <2>2, OutcomeOfStep
    <3> HIDE DEF O
    <3> QED BY <2>2, <3>1
  <2> QED BY <2>1, <2>2
<1>2. g = [m \in M |-> g[m]]
  OBVIOUS
<1> HIDE DEF g
<1>3. g = [m \in M |-> IF m \in D THEN R[m] ELSE g[F[m]]]
  BY <1>1, <1>2
<1> QED BY <1>3 DEF Computes

(* Induction over the runs of a loop that ends because a number decreases. *)
LEMMA LoopInduction ==
  ASSUME NEW M, NEW D, NEW F, NEW v, NEW P,
         Decreases(M, D, F, v), HoldsBackwards(M, D, F, P)
  PROVE  \A m \in M : m \in P
<1>0. /\ v \in [M -> Nat]
      /\ \A m \in M \ D : F[m] \in M /\ v[F[m]] < v[m]
      /\ \A m \in M \cap D : m \in P
      /\ \A m \in M \ D : F[m] \in P => m \in P
  BY DEF Decreases, HoldsBackwards
<1> SUFFICES ASSUME NEW b \in M \ P PROVE FALSE
  OBVIOUS
<1> DEFINE T == {v[m] : m \in M \ P}
<1>1. T \subseteq Nat /\ T # {}
  BY <1>0
<1>2. PICK x \in T : \A y \in T : x <= y
  BY <1>1, LeastNumber
<1>3. PICK m \in M \ P : x = v[m]
  BY <1>2
<1>4. F[m] \in M \ P /\ v[F[m]] < v[m]
  BY <1>0, <1>3
<1>5. v[F[m]] \in T /\ v[F[m]] \in Nat /\ v[m] \in Nat
  BY <1>0, <1>3, <1>4
<1> HIDE DEF T
<1> QED BY <1>2, <1>3, <1>4, <1>5

-----------------------------------------------------------------------------
(* The partial sums of a[1], a[2], ... up to n.                            *)
PartialSums(g, a, n) ==
  /\ g \in [0 .. n -> Nat]
  /\ g[0] = 0
  /\ \A i \in 1 .. n : g[i] = g[i - 1] + a[i]

(* They exist, up to any n.                                                *)
LEMMA SumsExist ==
  ASSUME NEW a \in [Nat -> Nat]
  PROVE  \A n \in Nat : \E g : PartialSums(g, a, n)
<1> DEFINE S == {n \in Nat : \E g : PartialSums(g, a, n)}
<1>1. 0 \in S
  <2> DEFINE g == [i \in 0 .. 0 |-> 0]
  <2>1. g \in [0 .. 0 -> Nat] /\ g[0] = 0 /\ \A i \in 1 .. 0 : FALSE
    OBVIOUS
  <2> HIDE DEF g
  <2>2. PartialSums(g, a, 0)
    BY <2>1 DEF PartialSums
  <2> QED BY <2>2
<1>2. ASSUME NEW n \in Nat, n \in S PROVE n + 1 \in S
  <2>1. PICK g : PartialSums(g, a, n)
    BY <1>2
  <2> DEFINE h == [i \in 0 .. n + 1 |-> IF i <= n THEN g[i] ELSE g[n] + a[n + 1]]
  <2>2. g[n] \in Nat /\ a[n + 1] \in Nat
    BY <2>1 DEF PartialSums
  <2>3. h \in [0 .. n + 1 -> Nat]
    <3> SUFFICES ASSUME NEW i \in 0 .. n + 1
                 PROVE  (IF i <= n THEN g[i] ELSE g[n] + a[n + 1]) \in Nat
      OBVIOUS
    <3>1. i <= n => i \in 0 .. n
      OBVIOUS
    <3>2. g \in [0 .. n -> Nat]
      BY <2>1 DEF PartialSums
    <3>3. i <= n => g[i] \in Nat
      BY <3>1, <3>2
    <3>4. g[n] + a[n + 1] \in Nat
      BY <2>2
    <3> QED BY <3>3, <3>4
  <2>4. h[0] = 0
    BY <2>1 DEF PartialSums
  <2>5. ASSUME NEW i \in 1 .. n + 1 PROVE h[i] = h[i - 1] + a[i]
    <3>1. CASE i <= n
      <4>1. i \in 1 .. n /\ i \in 0 .. n + 1 /\ i - 1 \in 0 .. n + 1 /\ i - 1 <= n
        BY <3>1
      <4>2. h[i] = g[i] /\ h[i - 1] = g[i - 1]
        BY <3>1, <4>1
      <4> HIDE DEF h
      <4> QED BY <2>1, <4>1, <4>2 DEF PartialSums
    <3>2. CASE i = n + 1
      <4>1. i \in 0 .. n + 1 /\ i - 1 \in 0 .. n + 1 /\ i - 1 = n /\ ~(i <= n)
        BY <3>2
      <4>2. h[i] = g[n] + a[n + 1] /\ h[i - 1] = g[n]
        BY <4>1
      <4> QED BY <3>2, <4>2
    <3> QED BY <3>1, <3>2
  <2> HIDE DEF h
  <2>6. PartialSums(h, a, n + 1)
    BY <2>3, <2>4, <2>5 DEF PartialSums
  <2> QED BY <2>6
<1> HIDE DEF S
<1>3. \A n \in Nat : n \in S
  BY <1>1, <1>2, AllNumbers
<1> QED BY <1>3 DEF S

(* And they agree, as far as they go.                                      *)
LEMMA SumsAgree ==
  ASSUME NEW a \in [Nat -> Nat], NEW m \in Nat, NEW n \in Nat, m <= n, NEW g, NEW h,
         PartialSums(g, a, m), PartialSums(h, a, n)
  PROVE  g[m] = h[m]
<1> DEFINE S == {i \in Nat : i <= m => g[i] = h[i]}
<1>1. 0 \in S
  BY DEF PartialSums
<1>2. ASSUME NEW i \in Nat, i \in S PROVE i + 1 \in S
  <2>1. CASE i + 1 <= m
    <3>1. i + 1 \in 1 .. m /\ i + 1 \in 1 .. n /\ (i + 1) - 1 = i /\ i <= m
      BY <2>1
    <3>2. g[i + 1] = g[i] + a[i + 1] /\ h[i + 1] = h[i] + a[i + 1]
      BY <3>1 DEF PartialSums
    <3> QED BY <1>2, <3>1, <3>2
  <2>2. CASE ~(i + 1 <= m)
    BY <2>2
  <2> QED BY <2>1, <2>2
<1> HIDE DEF S
<1>3. \A i \in Nat : i \in S
  BY <1>1, <1>2, AllNumbers
<1> QED BY <1>3 DEF S

(* So they define a function of all numbers.                               *)
LEMMA SumDefined ==
  ASSUME NEW a \in [Nat -> Nat]
  PROVE  \E f \in [Nat -> Nat] : f = [n \in Nat |-> IF n = 0 THEN 0 ELSE f[n - 1] + a[n]]
<1> DEFINE G(n) == CHOOSE g : PartialSums(g, a, n)
           f    == [n \in Nat |-> G(n)[n]]
<1>1. \A n \in Nat : PartialSums(G(n), a, n)
  BY SumsExist
<1> HIDE DEF G
<1>2. f \in [Nat -> Nat]
  BY <1>1 DEF PartialSums
<1>3. ASSUME NEW n \in Nat PROVE f[n] = IF n = 0 THEN 0 ELSE f[n - 1] + a[n]
  <2>1. CASE n = 0
    BY <1>1, <2>1 DEF PartialSums
  <2>2. CASE n # 0
    <3>1. n - 1 \in Nat /\ n - 1 <= n /\ n \in 1 .. n
      BY <2>2
    <3>2. G(n)[n] = G(n)[n - 1] + a[n]
      BY <1>1, <3>1 DEF PartialSums
    <3>3. G(n - 1)[n - 1] = G(n)[n - 1]
      BY <1>1, <3>1, SumsAgree
    <3> QED BY <2>2, <3>1, <3>2, <3>3
  <2> QED BY <2>1, <2>2
<1>4. f = [n \in Nat |-> f[n]]
  OBVIOUS
<1> HIDE DEF f
<1>5. f = [n \in Nat |-> IF n = 0 THEN 0 ELSE f[n - 1] + a[n]]
  BY <1>3, <1>4
<1> QED BY <1>2, <1>5

(* Such sums do not decrease.                                              *)
LEMMA SumsGrow ==
  ASSUME NEW a \in [Nat -> Nat], NEW f \in [Nat -> Nat],
         \A n \in Nat \ {0} : f[n] = f[n - 1] + a[n]
  PROVE  \A m, n \in Nat : m <= n => f[m] <= f[n]
<1> SUFFICES ASSUME NEW m \in Nat PROVE \A n \in Nat : m <= n => f[m] <= f[n]
  OBVIOUS
<1> DEFINE S == {n \in Nat : m <= n => f[m] <= f[n]}
<1>1. 0 \in S
  <2>1. m <= 0 => m = 0
    OBVIOUS
  <2> QED BY <2>1
<1>2. ASSUME NEW n \in Nat, n \in S PROVE n + 1 \in S
  <2>1. f[n + 1] = f[n] + a[n + 1] /\ f[n] \in Nat /\ a[n + 1] \in Nat /\ f[m] \in Nat
    <3>1. n + 1 \in Nat \ {0} /\ (n + 1) - 1 = n
      OBVIOUS
    <3> QED BY <3>1
  <2>2. CASE m <= n
    BY <1>2, <2>1, <2>2
  <2>3. CASE m = n + 1
    BY <2>1, <2>3
  <2>4. CASE m > n + 1
    BY <2>4
  <2> QED BY <2>2, <2>3, <2>4
<1> HIDE DEF S
<1>3. \A n \in Nat : n \in S
  BY <1>1, <1>2, AllNumbers
<1> QED BY <1>3 DEF S

(* They are 0 as long as the terms are.                                    *)
LEMMA SumsZero ==
  ASSUME NEW a \in [Nat -> Nat], NEW f \in [Nat -> Nat], f[0] = 0,
         \A n \in Nat \ {0} : f[n] = f[n - 1] + a[n],
         NEW k \in Nat, \A i \in 1 .. k : a[i] = 0
  PROVE  f[k] = 0
<1> DEFINE S == {n \in Nat : n <= k => f[n] = 0}
<1>1. 0 \in S
  OBVIOUS
<1>2. ASSUME NEW n \in Nat, n \in S PROVE n + 1 \in S
  <2>1. CASE n + 1 <= k
    <3>1. n + 1 \in Nat \ {0} /\ (n + 1) - 1 = n /\ n + 1 \in 1 .. k /\ n <= k
      BY <2>1
    <3>2. f[n + 1] = f[n] + a[n + 1] /\ a[n + 1] = 0 /\ f[n] = 0
      BY <1>2, <3>1
    <3> QED BY <3>2
  <2>2. CASE ~(n + 1 <= k)
    BY <2>2
  <2> QED BY <2>1, <2>2
<1> HIDE DEF S
<1>3. \A n \in Nat : n \in S
  BY <1>1, <1>2, AllNumbers
<1> QED BY <1>3 DEF S
=============================================================================
