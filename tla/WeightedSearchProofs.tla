-------------------------- MODULE WeightedSearchProofs --------------------------
(***************************************************************************)
(* For every grid, limits and readings of randomSearchNRWeighted: the       *)
(* running means divide by none that is zero, the best is one evaluation of *)
(* this search, and rescaling it to new means loses nothing.  The fractions *)
(* need what Euclid's algorithm computes, and the limit of iterations what  *)
(* the product of the ranges is: both are shown by induction, which is      *)
(* WFMin for the order of the natural numbers.                              *)
(***************************************************************************)
EXTENDS WeightedSearch, WellFoundedInduction, TLAPS

------------------------------------------------------------------------------
(* Induction, and the greatest common divisor.                              *)

\* A set that has 0, and with a number the next one, has every number.
LEMMA Induction ==
    ASSUME NEW S, 0 \in S, \A n \in Nat : n \in S => n + 1 \in S
    PROVE  Nat \subseteq S
<1>. DEFINE Below == {p \in Nat \X Nat : p[1] < p[2]}
<1>1. Below = OpToRel(<, Nat)
  BY DEF OpToRel
<1>2. IsWellFoundedOn(Below, Nat)
  BY <1>1, NatLessThanWellFounded
<1>3. ASSUME Nat \ S # {} PROVE FALSE
  <2>1. PICK n \in Nat \ S : \A m \in Nat \ S : <<m, n>> \notin Below
    BY <1>2, <1>3, WFMin
  <2>. QED
    BY <2>1, <<n - 1, n>> \in Nat \X Nat
<1>. QED
  BY <1>3

\* g computes the divisor by Euclid's algorithm for second arguments up to n.
Euclid(g, n) ==
    \A a \in Nat, b \in 0..n : g[<<a, b>>] = IF b = 0 THEN a ELSE g[<<b, a % b>>]

\* There is such a function for every n: the next one looks into the last.
LEMMA EuclidExists == \A n \in Nat : \E g : Euclid(g, n)
<1>. DEFINE S == {n \in Nat : \E g : Euclid(g, n)}
<1>1. 0 \in S
  <2>1. Euclid([p \in Nat \X Nat |-> p[1]], 0)
    BY DEF Euclid
  <2>. QED
    BY <2>1
<1>2. ASSUME NEW n \in Nat, n \in S PROVE n + 1 \in S
  <2>1. PICK g : Euclid(g, n)
    BY <1>2
  <2>. DEFINE h == [p \in Nat \X Nat |->
                      IF p[2] <= n THEN g[p] ELSE g[<<p[2], p[1] % p[2]>>]]
  <2>2. ASSUME NEW a \in Nat, NEW b \in 0..(n + 1)
        PROVE  h[<<a, b>>] = IF b = 0 THEN a ELSE h[<<b, a % b>>]
    <3>1. b # 0 => a % b \in 0..(b - 1)
      OBVIOUS
    <3>2. \A c \in Nat, d \in 0..n : h[<<c, d>>] = g[<<c, d>>]
      OBVIOUS
    <3>3. CASE b <= n
      BY <2>1, <3>1, <3>2, <3>3 DEF Euclid
    <3>4. CASE b = n + 1
      BY <3>1, <3>2, <3>4
    <3>. QED
      BY <3>3, <3>4
  <2>. HIDE DEF h
  <2>3. Euclid(h, n + 1)
    BY <2>2 DEF Euclid
  <2>. QED
    BY <2>3
<1>. HIDE DEF S
<1>3. Nat \subseteq S
  BY <1>1, <1>2, Induction
<1>. QED
  BY <1>3 DEF S

\* Two of them agree where both are defined.
LEMMA EuclidUnique ==
    ASSUME NEW n \in Nat, NEW m \in Nat, NEW g, NEW h, Euclid(g, n), Euclid(h, m)
    PROVE  \A b \in 0..n : b <= m => \A a \in Nat : g[<<a, b>>] = h[<<a, b>>]
<1>. DEFINE S == {k \in Nat : \A b \in 0..k :
                    b <= n /\ b <= m => \A a \in Nat : g[<<a, b>>] = h[<<a, b>>]}
<1>1. 0 \in S
  <2>1. \A a \in Nat : g[<<a, 0>>] = a /\ h[<<a, 0>>] = a
    BY 0 \in 0..n, 0 \in 0..m DEF Euclid
  <2>. QED
    BY <2>1
<1>2. ASSUME NEW k \in Nat, k \in S PROVE k + 1 \in S
  <2>1. ASSUME k + 1 <= n, k + 1 <= m, NEW a \in Nat
        PROVE g[<<a, k + 1>>] = h[<<a, k + 1>>]
    <3>1. a % (k + 1) \in 0..k
      OBVIOUS
    <3>2. g[<<k + 1, a % (k + 1)>>] = h[<<k + 1, a % (k + 1)>>]
      BY <1>2, <2>1, <3>1
    <3>. QED
      BY <2>1, <3>2 DEF Euclid
  <2>. QED
    BY <1>2, <2>1
<1>. HIDE DEF S
<1>3. Nat \subseteq S
  BY <1>1, <1>2, Induction
<1>. QED
  BY <1>3 DEF S

\* So the recursive function Gcd of the model is what its definition says.
LEMMA GcdDef ==
    \A a, b \in Nat : Gcd[<<a, b>>] = IF b = 0 THEN a ELSE Gcd[<<b, a % b>>]
<1>. DEFINE Of(n) == CHOOSE g : Euclid(g, n)
            G == [p \in Nat \X Nat |-> Of(p[2])[p]]
<1>1. \A n \in Nat : Euclid(Of(n), n)
  BY EuclidExists
<1>2. ASSUME NEW a \in Nat, NEW b \in Nat
      PROVE  G[<<a, b>>] = IF b = 0 THEN a ELSE G[<<b, a % b>>]
  <2>. HIDE DEF Of
  <2>1. b # 0 => a % b \in Nat /\ a % b <= b
    OBVIOUS
  <2>2. b # 0 => Of(b)[<<b, a % b>>] = Of(a % b)[<<b, a % b>>]
    BY <1>1, <2>1, EuclidUnique
  <2>3. /\ G[<<a, b>>] = Of(b)[<<a, b>>]
        /\ b # 0 => G[<<b, a % b>>] = Of(a % b)[<<b, a % b>>]
    BY <2>1
  <2>4. Of(b)[<<a, b>>] = IF b = 0 THEN a ELSE Of(b)[<<b, a % b>>]
    BY <1>1 DEF Euclid
  <2>. QED
    BY <2>2, <2>3, <2>4
<1>3. G = [p \in Nat \X Nat |-> IF p[2] = 0 THEN p[1] ELSE G[<<p[2], p[1] % p[2]>>]]
  <2>. HIDE DEF Of
  <2>1. \A p \in Nat \X Nat : G[p] = IF p[2] = 0 THEN p[1] ELSE G[<<p[2], p[1] % p[2]>>]
    <3>. HIDE DEF G
    <3>. QED
      BY <1>2
  <2>2. G = [p \in Nat \X Nat |-> G[p]]
    OBVIOUS
  <2>. HIDE DEF G
  <2>. QED
    BY <2>1, <2>2
<1>. HIDE DEF G
<1>4. Gcd = [p \in Nat \X Nat |-> IF p[2] = 0 THEN p[1] ELSE Gcd[<<p[2], p[1] % p[2]>>]]
  BY <1>3 DEF Gcd
<1>. HIDE DEF Gcd
<1>. QED
  BY <1>4

Divides(g, a) == \E k \in Nat : a = g * k

\* Gcd divides both its arguments.
LEMMA GcdDivides ==
    ASSUME NEW a \in Nat, NEW b \in Nat \ {0}
    PROVE  /\ Gcd[<<a, b>>] \in Nat \ {0}
           /\ Divides(Gcd[<<a, b>>], a) /\ Divides(Gcd[<<a, b>>], b)
<1>. DEFINE Good(c, d) == /\ Gcd[<<c, d>>] \in Nat \ {0}
                          /\ Divides(Gcd[<<c, d>>], c) /\ Divides(Gcd[<<c, d>>], d)
            S == {n \in Nat : \A c \in Nat, d \in 0..n : c + d > 0 => Good(c, d)}
<1>1. 0 \in S
  <2>1. ASSUME NEW c \in Nat, c > 0 PROVE Good(c, 0)
    <3>1. Gcd[<<c, 0>>] = c
      BY GcdDef
    <3>2. c = c * 1 /\ 0 = c * 0
      OBVIOUS
    <3>. QED
      BY <2>1, <3>1, <3>2 DEF Divides
  <2>. HIDE DEF Good
  <2>. QED
    BY <2>1
<1>2. ASSUME NEW n \in Nat, n \in S PROVE n + 1 \in S
  <2>1. ASSUME NEW c \in Nat PROVE Good(c, n + 1)
    <3>. DEFINE d == n + 1
                g == Gcd[<<d, c % d>>]
    <3>1. d \in Nat /\ d > 0 /\ c % d \in 0..n
      OBVIOUS
    <3>2. Gcd[<<c, d>>] = g
      BY <3>1, GcdDef
    <3>3. Good(d, c % d)
      <4>. HIDE DEF d, Good
      <4>. QED
        BY <1>2, <3>1
    <3>. HIDE DEF d, g
    <3>4. g \in Nat \ {0} /\ Divides(g, d) /\ Divides(g, c % d)
      BY <3>3 DEF g
    <3>5. PICK k \in Nat, l \in Nat : d = g * k /\ c % d = g * l
      BY <3>4 DEF Divides
    <3>6. c \div d \in Nat /\ c = d * (c \div d) + (c % d)
      <4>. \A e \in Nat \ {0} : c \div e \in Nat /\ c = e * (c \div e) + (c % e)
        OBVIOUS
      <4>. QED
        BY <3>1
    <3>7. c = g * (k * (c \div d) + l) /\ k * (c \div d) + l \in Nat
      <4>1. \A q \in Nat : /\ (g * k) * q + g * l = g * (k * q + l)
                          /\ k * q + l \in Nat
        BY <3>4
      <4>. QED
        BY <3>5, <3>6, <4>1
    <3>8. Divides(g, c)
      BY <3>7 DEF Divides
    <3>. QED
      BY <3>2, <3>4, <3>8 DEF d
  <2>. HIDE DEF Good
  <2>2. \A c \in Nat, d \in 0..(n + 1) : d \in 0..n \/ d = n + 1
    OBVIOUS
  <2>. QED
    BY <1>2, <2>1, <2>2
<1>. HIDE DEF S
<1>3. Nat \subseteq S
  BY <1>1, <1>2, Induction
<1>4. b \in S /\ b \in 0..b /\ a + b > 0
  BY <1>3
<1>. QED
  BY <1>4 DEF S

\* A fraction is the quotient it stands for.
LEMMA FractionIsQuotient ==
    ASSUME NEW n \in Nat, NEW d \in Nat \ {0}
    PROVE  /\ Fraction(n, d) \in Ratio
           /\ Fraction(n, d)[1] * d = Fraction(n, d)[2] * n
           /\ n > 0 => Fraction(n, d)[1] > 0
<1>. DEFINE g == Gcd[<<n, d>>]
<1>1. PICK p \in Nat, q \in Nat : n = g * p /\ d = g * q
  BY GcdDivides DEF Divides
<1>2. g \in Nat \ {0}
  BY GcdDivides
<1>. HIDE DEF g
<1>3. \A k \in Nat, l \in Nat \ {0} : (l * k) \div l = k
  OBVIOUS
<1>4. n \div g = p /\ d \div g = q
  BY <1>1, <1>2, <1>3
<1>5. q # 0 /\ (n > 0 => p > 0)
  BY <1>1, <1>2
<1>6. p * d = q * n
  BY <1>1, <1>2
<1>7. Fraction(n, d) = <<p, q>>
  BY <1>4 DEF Fraction, g
<1>. QED
  BY <1>5, <1>6, <1>7 DEF Ratio

\* A multiple of the denominator is reduced to a whole number.
LEMMA FractionOfMultiple ==
    ASSUME NEW x \in Nat, NEW c \in Nat \ {0}
    PROVE  Fraction(x * c, c) = <<x, 1>>
<1>1. x * c \in Nat /\ (x * c) % c = 0
  OBVIOUS
<1>2. Gcd[<<x * c, c>>] = c
  <2>. DEFINE y == x * c
  <2>1. y \in Nat /\ y % c = 0
    BY <1>1
  <2>. HIDE DEF y
  <2>2. Gcd[<<y, c>>] = Gcd[<<c, y % c>>]
    BY <2>1, GcdDef
  <2>3. Gcd[<<c, 0>>] = c
    BY GcdDef
  <2>. QED
    BY <2>1, <2>2, <2>3 DEF y
<1>3. (x * c) \div c = x /\ c \div c = 1
  OBVIOUS
<1>. QED
  BY <1>2, <1>3 DEF Fraction

------------------------------------------------------------------------------
(* num_max_states.                                                          *)

\* f is the fold of num_max_states over the sets of the first n proprieties.
Product(f, n) ==
    \A s \in SUBSET (1..n) :
        f[s] = IF s = {} THEN 1 ELSE f[s \ {Max(s)}] * (MaxOf[Max(s)] + 1)

\* There is such a function for every n.
LEMMA ProductExists == \A n \in Nat : \E f : Product(f, n)
<1>. DEFINE S == {n \in Nat : \E f : Product(f, n)}
<1>1. 0 \in S
  <2>1. Product([s \in {{}} |-> 1], 0)
    BY 1..0 = {} DEF Product
  <2>. QED
    BY <2>1
<1>2. ASSUME NEW n \in Nat, n \in S PROVE n + 1 \in S
  <2>1. PICK f : Product(f, n)
    BY <1>2
  <2>. DEFINE h == [s \in SUBSET (1..(n + 1)) |->
                      IF n + 1 \in s THEN f[s \ {n + 1}] * (MaxOf[n + 1] + 1) ELSE f[s]]
  <2>2. ASSUME NEW s \in SUBSET (1..(n + 1))
        PROVE  h[s] = IF s = {} THEN 1 ELSE h[s \ {Max(s)}] * (MaxOf[Max(s)] + 1)
    <3>1. \A t \in SUBSET (1..n) : t \in SUBSET (1..(n + 1)) /\ h[t] = f[t]
      OBVIOUS
    <3>2. CASE n + 1 \in s
      <4>1. Max(s) = n + 1
        <5>1. \A x \in s : n + 1 >= x
          OBVIOUS
        <5>2. \A x \in s : (\A y \in s : x >= y) => x = n + 1
          BY <3>2, <5>1
        <5>. QED
          BY <3>2, <5>1, <5>2 DEF Max
      <4>2. s \ {n + 1} \in SUBSET (1..n)
        OBVIOUS
      <4>3. h[s \ {n + 1}] = f[s \ {n + 1}]
        BY <3>1, <4>2
      <4>4. h[s] = f[s \ {n + 1}] * (MaxOf[n + 1] + 1) /\ s # {}
        BY <3>2
      <4>. HIDE DEF h
      <4>. QED
        BY <4>1, <4>3, <4>4
    <3>3. CASE n + 1 \notin s
      <4>1. s \in SUBSET (1..n)
        <5>1. \A x \in s : x \in 1..n
          BY <3>3
        <5>. QED
          BY <5>1
      <4>2. h[s] = f[s] /\ h[s \ {Max(s)}] = f[s \ {Max(s)}]
        BY <3>1, <4>1, s \ {Max(s)} \in SUBSET (1..n)
      <4>. QED
        BY <2>1, <4>1, <4>2 DEF Product
    <3>. QED
      BY <3>2, <3>3
  <2>. HIDE DEF h
  <2>3. Product(h, n + 1)
    BY <2>2 DEF Product
  <2>. QED
    BY <2>3
<1>. HIDE DEF S
<1>3. Nat \subseteq S
  BY <1>1, <1>2, Induction
<1>. QED
  BY <1>3 DEF S

\* There is at least one configuration: num_max_states is never 0, so a search
\* has room for its first iteration.
LEMMA NumMaxStatesPositive == GridAssumption => NumMaxStates \in Nat \ {0}
<1>. SUFFICES ASSUME GridAssumption PROVE NumMaxStates \in Nat \ {0}
  OBVIOUS
<1>. DEFINE F == CHOOSE f : f = [s \in SUBSET (DOMAIN MaxOf) |->
                    IF s = {} THEN 1 ELSE f[s \ {Max(s)}] * (MaxOf[Max(s)] + 1)]
<1>1. DOMAIN MaxOf = 1..Params /\ Params \in Nat
  BY DEF GridAssumption
<1>2. NumMaxStates = F[1..Params]
  BY <1>1 DEF NumMaxStates, FoldLeft, MapThenFoldSet
<1>3. \E f : f = [s \in SUBSET (DOMAIN MaxOf) |->
                    IF s = {} THEN 1 ELSE f[s \ {Max(s)}] * (MaxOf[Max(s)] + 1)]
  <2>1. PICK f : Product(f, Params)
    BY <1>1, ProductExists
  <2>. DEFINE h == [s \in SUBSET (1..Params) |-> f[s]]
  <2>2. \A s \in SUBSET (1..Params) :
          h[s] = IF s = {} THEN 1 ELSE h[s \ {Max(s)}] * (MaxOf[Max(s)] + 1)
    BY <2>1 DEF Product
  <2>3. h = [s \in SUBSET (1..Params) |-> h[s]]
    OBVIOUS
  <2>. HIDE DEF h
  <2>. QED
    BY <1>1, <2>2, <2>3
<1>4. Product(F, Params)
  <2>1. F = [s \in SUBSET (DOMAIN MaxOf) |->
                    IF s = {} THEN 1 ELSE F[s \ {Max(s)}] * (MaxOf[Max(s)] + 1)]
    BY <1>3
  <2>. HIDE DEF F
  <2>. QED
    BY <1>1, <2>1 DEF Product
<1>. HIDE DEF F
<1>. DEFINE S == {n \in Nat : n <= Params => F[1..n] \in Nat \ {0}}
<1>5. 0 \in S
  <2>1. 1..0 = {} /\ {} \in SUBSET (1..Params)
    OBVIOUS
  <2>2. F[{}] = 1
    BY <1>4, <2>1 DEF Product
  <2>. QED
    BY <2>1, <2>2
<1>6. ASSUME NEW n \in Nat, n \in S PROVE n + 1 \in S
  <2>. SUFFICES ASSUME n + 1 <= Params PROVE F[1..(n + 1)] \in Nat \ {0}
    OBVIOUS
  <2>1. Max(1..(n + 1)) = n + 1
    <3>1. \A x \in 1..(n + 1) : (\A y \in 1..(n + 1) : x >= y) <=> x = n + 1
      OBVIOUS
    <3>. QED
      BY <3>1, n + 1 \in 1..(n + 1) DEF Max
  <2>2. (1..(n + 1)) \ {n + 1} = 1..n /\ n + 1 \in 1..(n + 1)
    OBVIOUS
  <2>3. F[1..(n + 1)] = F[1..n] * (MaxOf[n + 1] + 1)
    <3>. DEFINE t == 1..(n + 1)
    <3>1. t \in SUBSET (1..Params) /\ t # {} /\ t \ {Max(t)} = 1..n
      <4>1. t \in SUBSET (1..Params)
        BY <1>1
      <4>. HIDE DEF t
      <4>2. Max(t) = n + 1 /\ t \ {n + 1} = 1..n /\ n + 1 \in t
        BY <2>1, <2>2 DEF t
      <4>. QED
        BY <4>1, <4>2
    <3>2. F[t] = F[t \ {Max(t)}] * (MaxOf[Max(t)] + 1)
      <4>. HIDE DEF t
      <4>. QED
        BY <1>4, <3>1 DEF Product
    <3>. QED
      BY <2>1, <3>1, <3>2
  <2>4. F[1..n] \in Nat \ {0} /\ MaxOf[n + 1] \in Nat
    BY <1>1, <1>6 DEF GridAssumption
  <2>5. \A a \in Nat \ {0}, b \in Nat : a * (b + 1) \in Nat \ {0}
    OBVIOUS
  <2>. QED
    BY <2>3, <2>4, <2>5
<1>. HIDE DEF S
<1>7. Params \in S
  BY <1>1, <1>5, <1>6, Induction
<1>. QED
  BY <1>1, <1>2, <1>7 DEF S

------------------------------------------------------------------------------
(* Fractions.                                                               *)

\* The operations on fractions give fractions, if nothing is divided by 0.
LEMMA RatioOperations ==
    ASSUME NEW p \in Ratio, NEW q \in Ratio
    PROVE  /\ Times(p, q) \in Ratio /\ Plus(p, q) \in Ratio
           /\ q[1] > 0 => Over(p, q) \in Ratio
<1>1. p[1] \in Nat /\ p[2] \in Nat \ {0} /\ q[1] \in Nat /\ q[2] \in Nat \ {0}
  BY DEF Ratio
<1>2. \A a, b \in Nat : a * b \in Nat /\ a + b \in Nat
  OBVIOUS
<1>3. \A a, b \in Nat \ {0} : a * b \in Nat \ {0}
  OBVIOUS
<1>4. Times(p, q) \in Ratio
  BY <1>1, <1>2, <1>3, FractionIsQuotient DEF Times
<1>5. Plus(p, q) \in Ratio
  <2>1. p[1] * q[2] + q[1] * p[2] \in Nat /\ p[2] * q[2] \in Nat \ {0}
    BY <1>1, <1>2, <1>3
  <2>. QED
    BY <2>1, FractionIsQuotient DEF Plus
<1>6. ASSUME q[1] > 0 PROVE Over(p, q) \in Ratio
  <2>1. p[1] * q[2] \in Nat /\ p[2] * q[1] \in Nat \ {0}
    BY <1>1, <1>2, <1>3, <1>6
  <2>. QED
    BY <2>1, FractionIsQuotient DEF Over
<1>. QED
  BY <1>4, <1>5, <1>6

\* The weighted sum of two fractions is one.
LEMMA WeightedRatio ==
    ASSUME WeightedAssumption, NEW d \in [Metrics -> Ratio]
    PROVE  Weighted(d) \in Ratio
<1>1. 1 \in Metrics /\ 2 \in Metrics
  BY DEF Metrics
<1>2. <<Weight[1], 1>> \in Ratio /\ <<Weight[2], 1>> \in Ratio
  BY <1>1 DEF WeightedAssumption, Ratio
<1>3. d[1] \in Ratio /\ d[2] \in Ratio
  BY <1>1
<1>. QED
  BY <1>2, <1>3, RatioOperations DEF Weighted

\* A reading over its mean, times the mean, is the reading.
LEMMA ReadingOverMean ==
    ASSUME NEW x \in Nat, NEW m \in Ratio, m[1] > 0
    PROVE  LET d == Over(<<x, 1>>, m)
           IN  d \in Ratio /\ d[1] * m[1] = x * (d[2] * m[2])
<1>1. m[1] \in Nat \ {0} /\ m[2] \in Nat \ {0}
  BY DEF Ratio
<1>2. <<x, 1>> \in Ratio
  BY DEF Ratio
<1>. DEFINE d == Fraction(x * m[2], 1 * m[1])
<1>3. Over(<<x, 1>>, m) = d
  BY DEF Over
<1>4. x * m[2] \in Nat /\ 1 * m[1] = m[1]
  BY <1>1
<1>5. d \in Ratio /\ d[1] * m[1] = d[2] * (x * m[2])
  BY <1>1, <1>4, FractionIsQuotient
<1>. HIDE DEF d
<1>6. d[2] \in Nat
  BY <1>5 DEF Ratio
<1>7. \A a, b, c \in Nat : a * (b * c) = b * (a * c)
  OBVIOUS
<1>. QED
  BY <1>1, <1>3, <1>5, <1>6, <1>7

\* Carried over from one average to another, a best that is exact stays exact.
LEMMA RescaledIsExact ==
    ASSUME NEW d \in Ratio, NEW a \in Ratio, NEW m \in Ratio, NEW v \in Nat,
           a[1] > 0, m[1] > 0, d[1] * a[1] = v * (d[2] * a[2])
    PROVE  LET e == Times(d, Over(a, m))
           IN  e \in Ratio /\ e[1] * m[1] = v * (e[2] * m[2])
<1>1. /\ d[1] \in Nat /\ d[2] \in Nat \ {0} /\ a[1] \in Nat \ {0}
      /\ a[2] \in Nat \ {0} /\ m[1] \in Nat \ {0} /\ m[2] \in Nat \ {0}
  BY DEF Ratio
<1>. DEFINE o == Over(a, m)
            e == Times(d, o)
<1>2. o \in Ratio
  BY RatioOperations
<1>3. o[1] * (a[2] * m[1]) = o[2] * (a[1] * m[2])
  <2>1. a[1] * m[2] \in Nat /\ a[2] * m[1] \in Nat \ {0}
    BY <1>1
  <2>. QED
    BY <2>1, FractionIsQuotient DEF Over
<1>. HIDE DEF o
<1>4. o[1] \in Nat /\ o[2] \in Nat \ {0}
  BY <1>2 DEF Ratio
<1>5. e \in Ratio /\ e[1] * (d[2] * o[2]) = e[2] * (d[1] * o[1])
  <2>1. d[1] * o[1] \in Nat /\ d[2] * o[2] \in Nat \ {0}
    BY <1>1, <1>4
  <2>. QED
    BY <1>2, <2>1, FractionIsQuotient, RatioOperations DEF Times
<1>. HIDE DEF e
<1>6. e[1] \in Nat /\ e[2] \in Nat
  BY <1>5 DEF Ratio
<1>7. e[1] * m[1] = v * (e[2] * m[2])
  <2>. DEFINE c == d[2] * o[2] * a[2]
  <2>1. c \in Nat \ {0}
    BY <1>1, <1>4
  <2>2. c * (e[1] * m[1]) = (e[1] * (d[2] * o[2])) * (a[2] * m[1])
    BY <1>1, <1>4, <1>6
  <2>3. @ = (e[2] * d[1]) * (o[1] * (a[2] * m[1]))
    BY <1>1, <1>4, <1>5, <1>6
  <2>4. @ = (d[1] * a[1]) * (e[2] * o[2] * m[2])
    BY <1>1, <1>3, <1>4, <1>6
  <2>5. @ = c * (v * (e[2] * m[2]))
    BY <1>1, <1>4, <1>6
  <2>6. e[1] * m[1] \in Nat /\ v * (e[2] * m[2]) \in Nat
    BY <1>1, <1>6
  <2>7. \A k \in Nat \ {0}, y, z \in Nat : k * y = k * z => y = z
    OBVIOUS
  <2>. HIDE DEF c
  <2>. QED
    BY <2>1, <2>2, <2>3, <2>4, <2>5, <2>6, <2>7
<1>. QED
  BY <1>5, <1>7 DEF e, o

------------------------------------------------------------------------------
(* The inductive invariant.                                                 *)

\* A session begins with no evaluation, and with no search.
LEMMA InitInv ==
    ASSUME GridAssumption, WeightedAssumption, Init
    PROVE  WeightedInv
<1>1. TypeOK
  BY DEF Init, TypeOK, NoMetrics, Metrics, Ratio
<1>2. AveragesBounded
  <2>1. \A k \in Metrics : num[k] = 0 /\ sum[k] = 0 /\ Low[k] \in Nat /\ High[k] \in Nat
    BY DEF Init, NoMetrics, WeightedAssumption
  <2>2. Len(accepted) = 0
    BY DEF Init
  <2>. QED
    BY <2>1, <2>2 DEF AveragesBounded
<1>3. BestWasMeasured /\ IsolatedOfSearch /\ OneHashEach /\ BestOverAverages
  BY DEF Init, BestWasMeasured, IsolatedOfSearch, OneHashEach, BestOverAverages
<1>. QED
  BY <1>1, <1>2, <1>3 DEF WeightedInv

\* A search begins with room for one iteration at least, and with no best.
LEMMA BeginInv ==
    ASSUME GridAssumption, WeightedAssumption, WeightedInv,
           NEW g \in Grids, NEW n \in 1..MaxEvaluations, Begin(g, n)
    PROVE  WeightedInv'
<1>. USE DEF WeightedInv
<1>1. limit' \in Nat \ {0}
  BY NumMaxStatesPositive DEF Begin, WeightedAssumption
<1>2. keys' = <<>> /\ result' = <<>> /\ Len(<<>>) = 0
  BY DEF Begin
<1>3. TypeOK'
  <2>1. pc' = "mutate" /\ cur' = g /\ best' = g /\ iso' = iso /\ first' = TRUE
    BY DEF Begin
  <2>2. searches' \in Nat /\ accepted' = accepted /\ num' = num /\ sum' = sum
    BY DEF Begin, TypeOK, statics
  <2>3. abs' \in [Metrics -> Nat] /\ deg' \in [Metrics -> Ratio] /\ avg' \in [Metrics -> Ratio]
    BY DEF Begin, NoMetrics, Ratio
  <2>. QED
    BY <1>1, <1>2, <2>1, <2>2, <2>3 DEF TypeOK
<1>4. AveragesBounded'
  BY DEF Begin, AveragesBounded, statics
<1>5. BestWasMeasured' /\ BestOverAverages'
  BY DEF Begin, BestWasMeasured, BestOverAverages
<1>6. IsolatedOfSearch'
  BY DEF Begin, IsolatedOfSearch
<1>7. OneHashEach'
  BY <1>1, <1>2 DEF Begin, OneHashEach
<1>. QED
  BY <1>3, <1>4, <1>5, <1>6, <1>7

\* A configuration that is refused changes nothing else; a new one leaves its hash.
LEMMA MutateInv ==
    ASSUME WeightedInv, NEW g \in Grids, Mutate(g)
    PROVE  WeightedInv'
<1>. USE DEF WeightedInv
<1>1. /\ UNCHANGED <<limit, num, sum, iso, first, deg, avg, abs, best>>
      /\ UNCHANGED <<result, accepted, searches>>
      /\ cur' = g
  BY DEF Mutate, statics, reference, session
<1>2. AveragesBounded' /\ BestWasMeasured' /\ BestOverAverages'
  BY <1>1 DEF AveragesBounded, BestWasMeasured, BestOverAverages, Here
<1>3. CASE Repeats(g)
  <2>1. UNCHANGED <<pc, keys>> /\ pc = "mutate"
    BY <1>3 DEF Mutate
  <2>. QED
    BY <1>1, <1>2, <2>1 DEF TypeOK, IsolatedOfSearch, OneHashEach
<1>4. CASE ~Repeats(g)
  <2>1. pc = "mutate" /\ pc' = "evaluate" /\ keys' = Append(keys, Key(g))
    BY <1>4 DEF Mutate
  <2>2. Key(g) \in {Key(h) : h \in Grids}
    OBVIOUS
  <2>3. /\ keys' \in Seq({Key(h) : h \in Grids})
        /\ Len(keys') = Len(keys) + 1 /\ Len(keys) \in Nat
        /\ keys'[Len(keys')] = Key(g)
        /\ \A i \in DOMAIN keys : i \in DOMAIN keys' /\ keys'[i] = keys[i]
    BY <2>1, <2>2 DEF TypeOK
  <2>4. Len(keys) = Len(result) /\ Len(result) < limit
    BY <2>1 DEF OneHashEach
  <2>5. TypeOK'
    BY <1>1, <2>1, <2>3, <2>4 DEF TypeOK
  <2>6. IsolatedOfSearch'
    BY <1>1, <2>1, <2>3 DEF IsolatedOfSearch
  <2>7. OneHashEach'
    BY <1>1, <2>1, <2>3, <2>4 DEF OneHashEach
  <2>. QED
    BY <1>2, <2>5, <2>6, <2>7
<1>. QED
  BY <1>3, <1>4

\* Every evaluation records the best there is and uses up the last hash.
LEMMA RecordInv ==
    ASSUME WeightedAssumption, WeightedInv, pc = "evaluate", Record,
           best' \in Grids, abs' \in [Metrics -> Nat], deg' \in [Metrics -> Ratio]
    PROVE  /\ result' \in Seq([value : Ratio, abs : [Metrics -> Nat], grid : Grids])
           /\ Len(result') <= limit' /\ Len(keys') <= limit'
           /\ pc' \in {"mutate", "end"} /\ OneHashEach'
<1>. USE DEF WeightedInv
<1>1. UNCHANGED <<limit, cur, keys>> /\ result' = Append(result, Entry)
      /\ pc' = IF Len(result') < limit THEN "mutate" ELSE "end"
  BY DEF Record, Continues
<1>2. Entry \in [value : Ratio, abs : [Metrics -> Nat], grid : Grids]
  BY WeightedRatio DEF Entry
<1>3. /\ result' \in Seq([value : Ratio, abs : [Metrics -> Nat], grid : Grids])
      /\ Len(result') = Len(result) + 1 /\ Len(result) \in Nat
  BY <1>1, <1>2 DEF TypeOK
<1>4. Len(keys) = Len(result) + 1 /\ Len(keys) <= limit /\ limit \in Nat
  BY DEF OneHashEach, TypeOK
<1>5. OneHashEach'
  BY <1>1, <1>3, <1>4 DEF OneHashEach
<1>. QED
  BY <1>1, <1>3, <1>4, <1>5

\* The isolated victim is one whose hash the search has.
LEMMA IsolatedInv ==
    ASSUME WeightedInv, pc = "evaluate", pc' # "idle", UNCHANGED keys,
           iso' \in {iso, Isolated}
    PROVE  IsolatedOfSearch' /\ iso' \in Grids \cup {NoGrid}
<1>. USE DEF WeightedInv
<1>1. Len(keys) \in DOMAIN keys /\ keys[Len(keys)] = Key(cur)
  BY DEF OneHashEach, TypeOK
<1>. QED
  BY <1>1 DEF IsolatedOfSearch, Isolated, TypeOK

\* A rejected reading leaves no trace in the means or the best.
LEMMA RejectInv ==
    ASSUME WeightedAssumption, WeightedInv, NEW x \in Readings, NEW spread \in BOOLEAN,
           RejectFirst(x, spread) \/ RejectSecond(x, spread)
    PROVE  WeightedInv'
<1>. USE DEF WeightedInv
<1>1. /\ pc = "evaluate" /\ Record /\ iso' \in {iso, Isolated}
      /\ UNCHANGED <<num, sum, first, deg, avg, abs, best, accepted>>
      /\ UNCHANGED <<limit, cur, keys, searches>>
  BY DEF RejectFirst, RejectSecond, statics, reference, Record, session
<1>2. AveragesBounded' /\ BestWasMeasured' /\ BestOverAverages'
  BY <1>1 DEF AveragesBounded, BestWasMeasured, BestOverAverages, Here
<1>3. best' \in Grids /\ abs' \in [Metrics -> Nat] /\ deg' \in [Metrics -> Ratio]
  BY <1>1 DEF TypeOK
<1>4. /\ result' \in Seq([value : Ratio, abs : [Metrics -> Nat], grid : Grids])
      /\ Len(result') <= limit' /\ Len(keys') <= limit'
      /\ pc' \in {"mutate", "end"} /\ OneHashEach'
  BY <1>1, <1>3, RecordInv
<1>5. IsolatedOfSearch' /\ iso' \in Grids \cup {NoGrid}
  BY <1>1, <1>4, IsolatedInv
<1>6. TypeOK'
  BY <1>1, <1>4, <1>5 DEF TypeOK
<1>. QED
  BY <1>2, <1>4, <1>5, <1>6

\* An accepted one is counted in both means, and the best is either it or the old
\* best carried over to the new means.
LEMMA AcceptInv ==
    ASSUME WeightedAssumption, WeightedInv, NEW x \in Readings, Accept(x)
    PROVE  WeightedInv'
<1>. USE DEF WeightedInv
<1>. DEFINE mean == [k \in Metrics |-> Fraction(sum'[k], num'[k])]
            new  == [k \in Metrics |-> Over(<<x[k], 1>>, mean[k])]
            old  == [k \in Metrics |-> Rescaled(k, mean)]
            better == ~first /\ Less(Weighted(new), Weighted(old))
            e == [search |-> searches, grid |-> cur, abs |-> x]
<1>1. /\ pc = "evaluate" /\ Record /\ iso' = Isolated /\ first' = FALSE
      /\ num' = [k \in Metrics |-> num[k] + 1]
      /\ sum' = [k \in Metrics |-> sum[k] + x[k]]
      /\ accepted' = Append(accepted, e) /\ avg' = mean
      /\ UNCHANGED <<limit, cur, keys, searches>>
  BY DEF Accept, Record, session
<1>2. /\ best' = Chosen(better)
      /\ deg' = IF first \/ better THEN new ELSE old
      /\ abs' = IF first \/ better THEN x ELSE abs
  BY DEF Accept
<1>3. /\ x \in [Metrics -> Nat]
      /\ \A k \in Metrics : /\ x[k] \in Low[k]..High[k] /\ x[k] \in Nat
                            /\ Low[k] \in Nat \ {0} /\ High[k] \in Nat
  BY DEF Accept, Accepts, WeightedAssumption
<1>4. /\ accepted' \in Seq([search : Nat, grid : Grids, abs : [Metrics -> Nat]])
      /\ Len(accepted') = Len(accepted) + 1 /\ Len(accepted) \in Nat
      /\ accepted'[Len(accepted) + 1] = e
      /\ \A i \in DOMAIN accepted : i \in DOMAIN accepted' /\ accepted'[i] = accepted[i]
      /\ Len(accepted) + 1 \in DOMAIN accepted'
  <2>1. e \in [search : Nat, grid : Grids, abs : [Metrics -> Nat]]
    BY <1>3 DEF TypeOK
  <2>. HIDE DEF e
  <2>. QED
    BY <1>1, <2>1 DEF TypeOK
<1>5. ASSUME NEW k \in Metrics
      PROVE  /\ num[k] \in Nat /\ sum[k] \in Nat
             /\ num'[k] = Len(accepted') /\ num'[k] \in Nat \ {0} /\ sum'[k] \in Nat \ {0}
             /\ Low[k] * num'[k] <= sum'[k] /\ sum'[k] <= High[k] * num'[k]
  <2>1. /\ num[k] = Len(accepted) /\ num[k] \in Nat /\ sum[k] \in Nat
        /\ Low[k] * num[k] <= sum[k] /\ sum[k] <= High[k] * num[k]
    BY DEF AveragesBounded, TypeOK
  <2>2. num'[k] = num[k] + 1 /\ sum'[k] = sum[k] + x[k]
    BY <1>1
  <2>3. \A a, n, s, r \in Nat :
          /\ a * n <= s /\ a <= r => a * (n + 1) <= s + r
          /\ s <= a * n /\ r <= a => s + r <= a * (n + 1)
    OBVIOUS
  <2>4. /\ Low[k] * (num[k] + 1) <= sum[k] + x[k]
        /\ sum[k] + x[k] <= High[k] * (num[k] + 1)
    <3>1. /\ Low[k] \in Nat /\ High[k] \in Nat /\ x[k] \in Nat
          /\ Low[k] <= x[k] /\ x[k] <= High[k]
      BY <1>3
    <3>. QED
      BY <2>1, <2>3, <3>1
  <2>5. num'[k] = Len(accepted') /\ num'[k] \in Nat \ {0} /\ sum'[k] \in Nat \ {0}
    <3>1. num'[k] = Len(accepted') /\ num'[k] \in Nat \ {0}
      BY <1>4, <2>1, <2>2
    <3>2. x[k] \in Nat \ {0}
      <4>1. Low[k] \in Nat \ {0} /\ x[k] \in Nat /\ Low[k] <= x[k]
        BY <1>3
      <4>. QED
        BY <4>1
    <3>. QED
      BY <2>1, <2>2, <3>1, <3>2
  <2>. QED
    BY <2>1, <2>2, <2>4, <2>5
<1>. HIDE DEF e
<1>6. AveragesBounded'
  BY <1>5 DEF AveragesBounded
<1>7. ASSUME NEW k \in Metrics
      PROVE  mean[k] = Fraction(sum'[k], num'[k]) /\ mean[k] \in Ratio /\ mean[k][1] > 0
  BY <1>5, FractionIsQuotient
<1>. HIDE DEF mean
<1>8. ASSUME NEW k \in Metrics
      PROVE  /\ new[k] \in Ratio
             /\ new[k][1] * mean[k][1] = x[k] * (new[k][2] * mean[k][2])
  BY <1>3, <1>7, ReadingOverMean
<1>9. ASSUME ~first, NEW k \in Metrics
      PROVE  /\ old[k] \in Ratio
             /\ old[k][1] * mean[k][1] = abs[k] * (old[k][2] * mean[k][2])
  <2>1. /\ deg[k] \in Ratio /\ avg[k] \in Ratio /\ avg[k][1] > 0 /\ abs[k] \in Nat
        /\ deg[k][1] * avg[k][1] = abs[k] * (deg[k][2] * avg[k][2])
    BY <1>9 DEF TypeOK, BestOverAverages
  <2>. QED
    BY <1>7, <2>1, RescaledIsExact DEF Rescaled
<1>. HIDE DEF new, old, better
<1>10. ASSUME NEW k \in Metrics
       PROVE  deg'[k] \in Ratio /\ deg'[k][1] * avg'[k][1] = abs'[k] * (deg'[k][2] * avg'[k][2])
  BY <1>1, <1>2, <1>8, <1>9
<1>11. deg' \in [Metrics -> Ratio] /\ abs' \in [Metrics -> Nat] /\ best' \in Grids
  <2>1. deg' = [k \in Metrics |-> deg'[k]]
    BY <1>2 DEF new, old
  <2>. QED
    BY <1>2, <1>3, <1>10, <2>1 DEF TypeOK, Chosen
<1>12. BestOverAverages'
  BY <1>1, <1>5, <1>7, <1>10 DEF BestOverAverages
<1>13. BestWasMeasured'
  <2>1. CASE first \/ better
    <3>1. best' = cur /\ abs' = x
      BY <1>2, <2>1 DEF Chosen
    <3>2. e.search = searches /\ e.grid = cur /\ e.abs = x
      BY DEF e
    <3>3. Len(accepted) + 1 \in Here'
      BY <1>1, <1>4, <3>2 DEF Here
    <3>. QED
      BY <1>4, <3>1, <3>2, <3>3 DEF BestWasMeasured
  <2>2. CASE ~first /\ ~better
    BY <1>1, <1>2, <1>4, <2>2 DEF BestWasMeasured, Here, Chosen
  <2>. QED
    BY <2>1, <2>2
<1>14. /\ result' \in Seq([value : Ratio, abs : [Metrics -> Nat], grid : Grids])
       /\ Len(result') <= limit' /\ Len(keys') <= limit'
       /\ pc' \in {"mutate", "end"} /\ OneHashEach'
  BY <1>1, <1>11, RecordInv
<1>15. IsolatedOfSearch' /\ iso' \in Grids \cup {NoGrid}
  BY <1>1, <1>14, IsolatedInv
<1>16. TypeOK'
  <2>1. num' \in [Metrics -> Nat] /\ sum' \in [Metrics -> Nat] /\ avg' \in [Metrics -> Ratio]
    BY <1>1, <1>5, <1>7 DEF mean
  <2>. QED
    BY <1>1, <1>4, <1>11, <1>14, <1>15, <2>1 DEF TypeOK
<1>. QED
  BY <1>6, <1>12, <1>13, <1>14, <1>15, <1>16

\* The end of a search frees the isolated data.
LEMMA EndInv ==
    ASSUME WeightedInv, End
    PROVE  WeightedInv'
<1>. USE DEF WeightedInv
<1>1. /\ pc = "end" /\ pc' = "idle" /\ iso' = NoGrid
      /\ UNCHANGED <<limit, cur, keys, num, sum, first, deg, avg, abs, best>>
      /\ UNCHANGED <<result, accepted, searches>>
  BY DEF End, statics, reference, session
<1>2. TypeOK'
  BY <1>1 DEF TypeOK
<1>3. AveragesBounded' /\ BestWasMeasured' /\ BestOverAverages'
  BY <1>1 DEF AveragesBounded, BestWasMeasured, BestOverAverages, Here
<1>4. IsolatedOfSearch' /\ OneHashEach'
  BY <1>1 DEF IsolatedOfSearch, OneHashEach
<1>. QED
  BY <1>2, <1>3, <1>4

\* Every step keeps the invariant: whatever is measured, rejected or accepted, the
\* statics, the best and the hashes of a search fit together.
THEOREM WeightedInvariant == Spec => []WeightedInv
<1>. USE GridAssumption, WeightedAssumption
<1>1. Init => WeightedInv
  BY InitInv
<1>2. WeightedInv /\ [Next]_vars => WeightedInv'
  <2>. SUFFICES ASSUME WeightedInv, [Next]_vars
                PROVE  WeightedInv'
    OBVIOUS
  <2>1. CASE \E g \in Grids, n \in 1..MaxEvaluations : Begin(g, n)
    BY <2>1, BeginInv
  <2>2. CASE \E g \in Grids : Mutate(g)
    BY <2>2, MutateInv
  <2>3. CASE Evaluate
    BY <2>3, RejectInv, AcceptInv DEF Evaluate
  <2>4. CASE End
    BY <2>4, EndInv
  <2>5. CASE UNCHANGED vars
    <3>1. UNCHANGED <<pc, limit, cur, keys, num, sum, iso, first, deg, avg, abs, best,
                      result, accepted, searches>>
      BY <2>5 DEF vars, statics, reference, session
    <3>2. TypeOK' /\ AveragesBounded' /\ BestWasMeasured'
      BY <3>1 DEF WeightedInv, TypeOK, AveragesBounded, BestWasMeasured, Here
    <3>3. IsolatedOfSearch' /\ OneHashEach' /\ BestOverAverages'
      BY <3>1 DEF WeightedInv, IsolatedOfSearch, OneHashEach, BestOverAverages
    <3>. QED
      BY <3>2, <3>3 DEF WeightedInv
  <2>. QED
    BY <2>1, <2>2, <2>3, <2>4, <2>5 DEF Next
<1>. QED
  BY <1>1, <1>2, PTL DEF Spec

\* No rejected evaluation leaves a trace in the means that outlive a search, and
\* none of them is zero when calculateDegradationNormalized divides by it.
THEOREM MeansAreOfAccepted == Spec => []AveragesBounded
<1>1. WeightedInv => AveragesBounded
  BY DEF WeightedInv
<1>. QED
  BY <1>1, WeightedInvariant, PTL

\* A search that had a valid result returns a configuration of this search, with
\* both metrics of one evaluation of it.
THEOREM BestIsMeasured == Spec => []BestWasMeasured
<1>1. WeightedInv => BestWasMeasured
  BY DEF WeightedInv
<1>. QED
  BY <1>1, WeightedInvariant, PTL

\* The overhead is measured against a victim of this search.
THEOREM IsolatedIsOfSearch == Spec => []IsolatedOfSearch
<1>1. WeightedInv => IsolatedOfSearch
  BY DEF WeightedInv
<1>. QED
  BY <1>1, WeightedInvariant, PTL

\* However often objectiveMinimizeMemMonitoring carries the best over to new
\* averages, multiplied by them it is what was measured, without any loss.
THEOREM RescalingIsExact == Spec => []RescaledExactly
<1>1. WeightedInv => RescaledExactly
  <2>. SUFFICES ASSUME WeightedInv, ~first, NEW k \in Metrics
                PROVE  /\ avg[k] = Fraction(sum[k], num[k])
                       /\ Times(deg[k], avg[k]) = <<abs[k], 1>>
    BY DEF RescaledExactly
  <2>1. /\ avg[k] = Fraction(sum[k], num[k])
        /\ deg[k][1] * avg[k][1] = abs[k] * (deg[k][2] * avg[k][2])
    BY DEF WeightedInv, BestOverAverages
  <2>2. abs[k] \in Nat /\ deg[k][2] \in Nat \ {0} /\ avg[k][2] \in Nat \ {0}
    BY DEF WeightedInv, TypeOK, Ratio
  <2>3. deg[k][2] * avg[k][2] \in Nat \ {0}
    BY <2>2
  <2>. QED
    BY <2>1, <2>2, <2>3, FractionOfMultiple DEF Times
<1>. QED
  BY <1>1, WeightedInvariant, PTL
================================================================================
