----------------------------- MODULE Arithmetic -----------------------------
(***************************************************************************)
(* Facts about the natural numbers that the proofs of several components   *)
(* rest on.                                                                *)
(*                                                                         *)
(* The remainder by a symbolic modulus: the message identifiers of         *)
(* proto_coap.c and the buffer pointers of hw_w5500.c are 16-bit counters  *)
(* that wrap around.                                                       *)
(*                                                                         *)
(* Induction and recursion, stated with sets and functions: the walks and  *)
(* sums that the models describe by recursive functions f[k] == ... are    *)
(* proved about by showing that a function with that equation exists.      *)
(***************************************************************************)
EXTENDS Integers, FiniteSetTheorems, TLAPS

(* Quotient and remainder recompose a number.                              *)
LEMMA DivMod ==
  ASSUME NEW a \in Nat, NEW m \in Nat \ {0}
  PROVE  /\ a % m \in 0 .. m - 1
         /\ a \div m \in Nat
         /\ a = m * (a \div m) + (a % m)
  BY SMT

(* There is one way only to write a number as quotient and remainder.      *)
LEMMA ModUnique ==
  ASSUME NEW m \in Nat \ {0}, NEW q \in Nat, NEW s \in Nat,
         NEW r \in 0 .. m - 1, NEW t \in 0 .. m - 1,
         m * q + r = m * s + t
  PROVE  q = s /\ r = t
  BY SMT

(* The remainder of a number written as quotient and remainder.            *)
LEMMA ModByQuotient ==
  ASSUME NEW m \in Nat \ {0}, NEW q \in Nat, NEW r \in 0 .. m - 1
  PROVE  (m * q + r) % m = r
<1> DEFINE a == m * q + r
           s == a \div m
           t == a % m
<1>1. a \in Nat
  BY SMT
<1>2. t \in 0 .. m - 1 /\ s \in Nat /\ a = m * s + t
  <2> HIDE DEF a
  <2> QED BY <1>1, DivMod
<1>3. m * q + r = m * s + t
  BY <1>2
<1>4. r = t
  <2> HIDE DEF s, t
  <2> QED BY <1>2, <1>3, ModUnique
<1> QED BY <1>4

(* Wrapping a term before an addition does not change the wrapped sum.     *)
LEMMA ModOfSum ==
  ASSUME NEW a \in Nat, NEW b \in Nat, NEW m \in Nat \ {0}
  PROVE  ((a % m) + b) % m = (a + b) % m
<1> DEFINE r == a % m
           q == a \div m
           c == r + b
           s == c \div m
           t == c % m
<1>1. r \in 0 .. m - 1 /\ q \in Nat /\ a = m * q + r
  BY DivMod
<1>2. c \in Nat
  BY <1>1
<1>3. t \in 0 .. m - 1 /\ s \in Nat /\ c = m * s + t
  <2> HIDE DEF c
  <2> QED BY <1>2, DivMod
<1>4. a + b = m * (q + s) + t
  <2> HIDE DEF q, s, t, r
  <2>1. a + b = m * q + c
    BY <1>1
  <2>2. a + b = m * q + (m * s + t)
    BY <2>1, <1>3
  <2> QED BY <2>2, <1>1, <1>3, SMT
<1>5. q + s \in Nat
  BY <1>1, <1>3
<1>6. (m * (q + s) + t) % m = t
  <2> HIDE DEF q, s, t
  <2> QED BY <1>3, <1>5, ModByQuotient
<1> QED BY <1>4, <1>6

(* A whole turn more does not change it either.                            *)
LEMMA ModOfWhole ==
  ASSUME NEW a \in Nat, NEW m \in Nat \ {0}
  PROVE  (a + m) % m = a % m
<1>1. a % m \in 0 .. m - 1
  BY DivMod
<1>2. ((a % m) + m) % m = (a + m) % m
  BY ModOfSum
<1> DEFINE r == a % m
<1> HIDE DEF r
<1>3. r + m = m * 1 + r
  BY <1>1 DEF r
<1>4. (m * 1 + r) % m = r
  BY <1>1, ModByQuotient DEF r
<1> QED BY <1>2, <1>3, <1>4 DEF r

(* Two counters less than one turn apart are equal when they look equal.   *)
LEMMA ModEq ==
  ASSUME NEW a \in Nat, NEW b \in Nat, NEW m \in Nat \ {0},
         a % m = b % m, b <= a, a - b < m
  PROVE  a = b
<1> DEFINE r == a % m
           q == a \div m
           s == b \div m
<1>1. r \in 0 .. m - 1 /\ q \in Nat /\ a = m * q + r
  BY DivMod
<1>2. r = b % m /\ s \in Nat /\ b = m * s + r
  BY DivMod
<1> HIDE DEF q, s, r
<1>3. q = s
  <2>1. CASE q < s
    <3>1. m * s = m * q + m * (s - q)
      BY <1>1, <1>2, <2>1, SMT
    <3>2. m * (s - q) >= m
      BY <1>1, <1>2, <2>1, SMT
    <3> QED BY <3>1, <3>2, <1>1, <1>2, <2>1, SMT
  <2>2. CASE q > s
    <3>1. m * q = m * s + m * (q - s)
      BY <1>1, <1>2, <2>2, SMT
    <3>2. m * (q - s) >= m
      BY <1>1, <1>2, <2>2, SMT
    <3> QED BY <3>1, <3>2, <1>1, <1>2, <2>2, SMT
  <2> QED BY <1>1, <1>2, <2>1, <2>2
<1> QED BY <1>1, <1>2, <1>3

-----------------------------------------------------------------------------
(* A set of numbers that holds zero and the successor of each of its       *)
(* elements holds them all: else the smallest intervals 1 .. n, n missing, *)
(* would leave a smaller one missing.                                      *)
THEOREM Induction ==
  ASSUME NEW P \in SUBSET Nat, 0 \in P, \A n \in P : n + 1 \in P
  PROVE  P = Nat
<1> DEFINE Missing == Nat \ P
           Smaller == StrictSubsetOrdering(Nat)
           Intervals == {1 .. n : n \in Missing}
<1>1. SUFFICES ASSUME Missing # {} PROVE FALSE
  OBVIOUS
<1>2. Intervals \subseteq FiniteSubsetsOf(Nat) /\ Intervals # {}
  <2>1. \A n \in Nat : 1 .. n \subseteq Nat /\ IsFiniteSet(1 .. n)
    BY FS_Interval
  <2> QED BY <1>1, <2>1 DEF FiniteSubsetsOf
<1>3. \E x \in Intervals : \A y \in Intervals : ~ (<<y, x>> \in Smaller)
  <2>1. IsWellFoundedOn(Smaller, FiniteSubsetsOf(Nat))
    BY FS_StrictSubsetOrderingWellFounded
  <2> HIDE DEF Intervals, Smaller
  <2> QED BY <1>2, <2>1, WFMin
<1>4. PICK n \in Missing : \A k \in Missing : ~ (<<1 .. k, 1 .. n>> \in Smaller)
  BY <1>3
<1>5. n \in Nat /\ n # 0 /\ n - 1 \in Nat
  OBVIOUS
<1>6. n - 1 \in Missing
  <2>1. n - 1 \in P => (n - 1) + 1 \in P
    OBVIOUS
  <2> QED BY <1>5, <2>1
<1>7. <<1 .. (n - 1), 1 .. n>> \in Smaller
  <2>1. 1 .. (n - 1) \subseteq 1 .. n /\ n \in 1 .. n /\ n \notin 1 .. (n - 1)
    BY <1>5
  <2> QED BY <2>1 DEF StrictSubsetOrdering
<1> QED BY <1>4, <1>6, <1>7

(* The same up to a bound.                                                 *)
THEOREM BoundedInduction ==
  ASSUME NEW n \in Nat, NEW P \in SUBSET (0 .. n), 0 \in P,
         \A k \in P : k < n => k + 1 \in P
  PROVE  P = 0 .. n
<1> DEFINE Q == P \union {k \in Nat : k > n}
<1>0. \A k \in P : k \in Nat /\ k <= n
  <2>1. P \subseteq 0 .. n
    OBVIOUS
  <2> QED BY <2>1
<1>1. Q \in SUBSET Nat /\ 0 \in Q
  BY <1>0
<1>2. \A k \in Q : k + 1 \in Q
  <2> TAKE k \in Q
  <2>1. CASE k \in P /\ k < n
    BY <2>1
  <2>2. CASE k >= n
    BY <2>2
  <2> QED BY <2>1, <2>2
<1>3. Q = Nat
  <2> HIDE DEF Q
  <2> QED BY <1>1, <1>2, Induction
<1>4. \A k \in 0 .. n : k \in P
  <2> TAKE k \in 0 .. n
  <2>1. k \in Q /\ ~ (k > n)
    BY <1>3
  <2> QED BY <2>1
<1> QED BY <1>4

-----------------------------------------------------------------------------
(* A function can be given by its first value and by how each value        *)
(* follows from the one before.                                            *)
Upward(n, X, base, step) ==
  {f \in [0 .. n -> X] : f[0] = base /\ \A k \in 1 .. n : f[k] = step[<<k, f[k - 1]>>]}

THEOREM RecursionUp ==
  ASSUME NEW n \in Nat, NEW X, NEW base \in X, NEW step \in [(1 .. n) \X X -> X]
  PROVE  Upward(n, X, base, step) # {}
<1> DEFINE Good(f, m) ==
             f[0] = base /\ \A k \in 1 .. m : f[k] = step[<<k, f[k - 1]>>]
           P == {m \in 0 .. n : \E f \in [0 .. m -> X] : Good(f, m)}
<1>1. P \in SUBSET (0 .. n)
  OBVIOUS
<1>2. 0 \in P
  <2> DEFINE f == [k \in 0 .. 0 |-> base]
  <2>1. f \in [0 .. 0 -> X] /\ Good(f, 0)
    OBVIOUS
  <2>2. 0 \in 0 .. n
    OBVIOUS
  <2> HIDE DEF f
  <2> QED BY <2>1, <2>2
<1>3. \A m \in P : m < n => m + 1 \in P
  <2> SUFFICES ASSUME NEW m \in P, m < n PROVE m + 1 \in P
    OBVIOUS
  <2>1. m \in Nat /\ m + 1 \in 1 .. n
    OBVIOUS
  <2>2. PICK f \in [0 .. m -> X] : Good(f, m)
    OBVIOUS
  <2> DEFINE g == [k \in 0 .. m + 1 |->
                     IF k = m + 1 THEN step[<<m + 1, f[m]>>] ELSE f[k]]
  <2>3. f[m] \in X /\ step[<<m + 1, f[m]>>] \in X
    BY <2>1
  <2>4. g \in [0 .. m + 1 -> X]
    <3>1. \A k \in 0 .. m + 1 : k = m + 1 \/ k \in 0 .. m
      BY <2>1
    <3> QED BY <2>3, <3>1
  <2>5. g[0] = base
    BY <2>1, <2>2
  <2>6. \A k \in 1 .. m + 1 : g[k] = step[<<k, g[k - 1]>>]
    <3> TAKE k \in 1 .. m + 1
    <3>1. k \in 0 .. m + 1 /\ k - 1 \in 0 .. m /\ k - 1 \in 0 .. m + 1 /\ k - 1 # m + 1
      BY <2>1
    <3>2. g[k - 1] = f[k - 1]
      BY <3>1
    <3>3. CASE k = m + 1
      BY <2>1, <3>1, <3>2, <3>3
    <3>4. CASE k # m + 1
      <4>1. k \in 1 .. m
        BY <2>1, <3>4
      <4>2. g[k] = f[k]
        BY <3>1, <3>4
      <4> QED BY <2>2, <3>2, <4>1, <4>2
    <3> QED BY <3>3, <3>4
  <2>7. Good(g, m + 1)
    BY <2>5, <2>6
  <2> HIDE DEF g
  <2> QED BY <2>1, <2>4, <2>7
<1>4. P = 0 .. n
  <2> HIDE DEF P
  <2> QED BY <1>1, <1>2, <1>3, BoundedInduction
<1> QED BY <1>4 DEF Upward

(* So can a function whose values follow from those further up, as the     *)
(* places of a walk that only goes forward: it ends where it stops.        *)
Downward(n, X, stops, value, next) ==
  {f \in [0 .. n -> X] :
     \A k \in 0 .. n : f[k] = IF k \in stops THEN value[k] ELSE f[next[k]]}

THEOREM RecursionDown ==
  ASSUME NEW n \in Nat, NEW X, NEW stops \in SUBSET (0 .. n), n \in stops,
         NEW value \in [stops -> X], NEW next \in [(0 .. n) \ stops -> 0 .. n],
         \A k \in (0 .. n) \ stops : next[k] > k
  PROVE  Downward(n, X, stops, value, next) # {}
<1> DEFINE Good(f, m) ==
             \A k \in n - m .. n : f[k] = IF k \in stops THEN value[k] ELSE f[next[k]]
           P == {m \in 0 .. n : \E f \in [n - m .. n -> X] : Good(f, m)}
<1>1. P \in SUBSET (0 .. n)
  OBVIOUS
<1>2. 0 \in P
  <2> DEFINE f == [k \in n - 0 .. n |-> value[n]]
  <2>1. \A k \in n - 0 .. n : k = n
    OBVIOUS
  <2>2. f \in [n - 0 .. n -> X] /\ Good(f, 0)
    BY <2>1
  <2> QED BY <2>2
<1>3. \A m \in P : m < n => m + 1 \in P
  <2> SUFFICES ASSUME NEW m \in P, m < n PROVE m + 1 \in P
    OBVIOUS
  <2>1. m \in Nat /\ m + 1 \in 0 .. n
    OBVIOUS
  <2>2. PICK f \in [n - m .. n -> X] : Good(f, m)
    OBVIOUS
  <2> DEFINE low == n - (m + 1)
             first == IF low \in stops THEN value[low] ELSE f[next[low]]
             g == [k \in low .. n |-> IF k = low THEN first ELSE f[k]]
  <2>3. low \in 0 .. n /\ low = n - m - 1
    BY <2>1
  <2>4. \A k \in low .. n : k = low \/ k \in n - m .. n
    BY <2>1
  <2>5. \A k \in n - m .. n : k \in low .. n /\ k # low /\ k \in 0 .. n
    BY <2>1
  <2>6. \A k \in (low .. n) \ stops : next[k] \in n - m .. n
    <3> TAKE k \in (low .. n) \ stops
    <3>1. k \in (0 .. n) \ stops
      BY <2>3
    <3>2. next[k] \in 0 .. n /\ next[k] > k
      BY <3>1
    <3> QED BY <2>1, <2>3, <3>2
  <2>7. first \in X
    <3>1. CASE low \in stops
      BY <3>1
    <3>2. CASE low \notin stops
      <4>1. next[low] \in n - m .. n
        BY <2>1, <2>3, <2>6, <3>2
      <4> QED BY <3>2, <4>1
    <3> QED BY <3>1, <3>2
  <2>8. g \in [low .. n -> X]
    <3> HIDE DEF first, low
    <3> QED BY <2>4, <2>7
  <2>9. \A k \in n - m .. n : g[k] = f[k]
    <3> HIDE DEF first, low
    <3> QED BY <2>5
  <2>10. Good(g, m + 1)
    <3> SUFFICES ASSUME NEW k \in low .. n
                 PROVE g[k] = IF k \in stops THEN value[k] ELSE g[next[k]]
      OBVIOUS
    <3>1. k \notin stops => g[next[k]] = f[next[k]]
      <4> HIDE DEF low, g
      <4> QED BY <2>6, <2>9
    <3>2. CASE k = low
      <4>1. g[k] = first
        <5> HIDE DEF first, low
        <5> QED BY <3>2
      <4> HIDE DEF low, g
      <4> QED BY <3>1, <3>2, <4>1
    <3>3. CASE k # low
      <4>1. k \in n - m .. n
        BY <2>4, <3>3
      <4>2. f[k] = IF k \in stops THEN value[k] ELSE f[next[k]]
        BY <2>2, <4>1
      <4> HIDE DEF low, g
      <4> QED BY <2>9, <3>1, <4>1, <4>2
    <3> QED BY <3>2, <3>3
  <2> HIDE DEF g
  <2> QED BY <2>1, <2>8, <2>10
<1>4. P = 0 .. n
  <2> HIDE DEF P
  <2> QED BY <1>1, <1>2, <1>3, BoundedInduction
<1>5. PICK f \in [n - n .. n -> X] : Good(f, n)
  BY <1>4
<1>6. n - n = 0
  OBVIOUS
<1> QED BY <1>5, <1>6 DEF Downward
=============================================================================
