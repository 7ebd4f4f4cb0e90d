---------------------------- MODULE MoneyProofs -----------------------------
(***************************************************************************)
(* What TLAPS proves of money.ts, for any currencies, rates, amounts and   *)
(* precision: what 40 digits of Decimal are enough for.                    *)
(***************************************************************************)
EXTENDS Money, TLAPS, WellFoundedInduction

----------------------------------------------------------------------------
(* Powers of ten. *)

\* A nonempty set of naturals has a least element.
LEMMA LeastNatural ==
  ASSUME NEW S \in SUBSET Nat, S # {}
  PROVE  Least(S) \in S /\ \A m \in S : Least(S) <= m
<1>1. PICK n \in S : \A m \in S : <<m, n>> \notin OpToRel(<, Nat)
  BY NatLessThanWellFounded, WFMin DEF OpToRel
<1>2. \A m \in S : ~(m < n)
  BY <1>1 DEF OpToRel
<1>3. \A m \in S : n <= m
  BY <1>2
<1> QED BY <1>3 DEF Least

\* Induction on the naturals, for a set of them.
LEMMA NaturalsBySuccessor ==
  ASSUME NEW G, 0 \in G, \A n \in Nat : n \in G => n + 1 \in G
  PROVE  \A n \in Nat : n \in G
<1> DEFINE Bad == {n \in Nat : n \notin G}
           n == Least(Bad)
<1> SUFFICES ASSUME Bad # {}
             PROVE  FALSE
  OBVIOUS
<1>1. n \in Bad /\ \A m \in Bad : n <= m
  <2>1. Bad \in SUBSET Nat
    OBVIOUS
  <2> HIDE DEF Bad
  <2> QED BY <2>1, LeastNatural
<1> HIDE DEF n
<1>2. n - 1 \in Bad
  BY <1>1
<1> QED BY <1>1, <1>2

\* h is what Pow10 should be up to n.
Powers(h, n) == h \in [0..n -> Nat] /\ h[0] = 1 /\ \A i \in 0..n : i # 0 => h[i] = 10 * h[i - 1]

\* There are such tables of any length.
LEMMA PowersExist == \A n \in Nat : \E h : Powers(h, n)
<1> DEFINE G == {n \in Nat : \E h : Powers(h, n)}
<1>1. 0 \in G
  <2>1. Powers([i \in 0..0 |-> 1], 0)
    BY DEF Powers
  <2> QED BY <2>1
<1>2. ASSUME NEW n \in Nat, n \in G
      PROVE  n + 1 \in G
  <2>1. PICK h : Powers(h, n)
    BY <1>2
  <2> DEFINE g == [i \in 0..(n + 1) |-> IF i = n + 1 THEN 10 * h[n] ELSE h[i]]
  <2>2. Powers(g, n + 1)
    BY <2>1 DEF Powers
  <2> QED BY <2>2
<1>3. \A n \in Nat : n \in G
  <2> HIDE DEF G
  <2> QED BY <1>1, <1>2, NaturalsBySuccessor
<1> QED BY <1>3

\* And they agree.
LEMMA PowersAgree ==
  ASSUME NEW m \in Nat, NEW n \in Nat, NEW g, NEW h, Powers(g, m), Powers(h, n)
  PROVE  \A i \in 0..m : i <= n => g[i] = h[i]
<1> DEFINE G == {i \in Nat : i <= m /\ i <= n => g[i] = h[i]}
<1>1. 0 \in G
  BY DEF Powers
<1>2. ASSUME NEW i \in Nat, i \in G
      PROVE  i + 1 \in G
  BY <1>2 DEF Powers
<1>3. \A i \in Nat : i \in G
  <2> HIDE DEF G
  <2> QED BY <1>1, <1>2, NaturalsBySuccessor
<1> QED BY <1>3

\* The recursive definition of Pow10 defines it.
LEMMA Pow10Def ==
  /\ Pow10 \in [Nat -> Nat] /\ Pow10[0] = 1
  /\ \A n \in Nat : Pow10[n + 1] = 10 * Pow10[n]
<1> DEFINE table(n) == CHOOSE h : Powers(h, n)
           f == [n \in Nat |-> table(n)[n]]
<1>1. \A n \in Nat : Powers(table(n), n)
  BY PowersExist
<1>2. f \in [Nat -> Nat]
  <2> HIDE DEF table
  <2> QED BY <1>1 DEF Powers
<1>3. f = [n \in Nat |-> IF n = 0 THEN 1 ELSE 10 * f[n - 1]]
  <2> HIDE DEF table
  <2> SUFFICES ASSUME NEW n \in Nat
               PROVE  f[n] = IF n = 0 THEN 1 ELSE 10 * f[n - 1]
    BY Zenon
  <2>1. CASE n = 0
    BY <1>1, <2>1 DEF Powers
  <2>2. CASE n # 0
    <3>1. n - 1 \in Nat /\ Powers(table(n), n) /\ Powers(table(n - 1), n - 1)
      BY <1>1, <2>2
    <3>2. table(n)[n - 1] = table(n - 1)[n - 1]
      BY <3>1, PowersAgree
    <3> QED BY <2>2, <3>1, <3>2 DEF Powers
  <2> QED BY <2>1, <2>2
<1>4. Pow10 = [n \in Nat |-> IF n = 0 THEN 1 ELSE 10 * Pow10[n - 1]]
  <2> HIDE DEF f
  <2> QED BY <1>3 DEF Pow10
<1>5. \A n \in Nat : Pow10[n] \in Nat
  <2> DEFINE G == {n \in Nat : Pow10[n] \in Nat}
  <2>1. 0 \in G
    BY <1>4
  <2>2. \A n \in Nat : n \in G => n + 1 \in G
    BY <1>4
  <2> HIDE DEF G
  <2>3. \A n \in Nat : n \in G
    BY <2>1, <2>2, NaturalsBySuccessor
  <2> QED BY <2>3 DEF G
<1> QED BY <1>4, <1>5

\* Products of naturals keep order, and a positive factor of both sides may be dropped.
LEMMA Scaling ==
  ASSUME NEW a \in Int, NEW b \in Int, NEW c \in Nat
  PROVE  /\ a <= b => a * c <= b * c
         /\ a * c <= b * c /\ c # 0 => a <= b
         /\ a < b /\ c # 0 => a * c < b * c
<1>1. (b - a) * c = b * c - a * c
  OBVIOUS
<1>2. a <= b => (b - a) * c >= 0
  OBVIOUS
<1>3. a < b /\ c # 0 => (b - a) * c > 0
  OBVIOUS
<1>4. a > b /\ c # 0 => (a - b) * c > 0
  OBVIOUS
<1>5. (a - b) * c = a * c - b * c
  OBVIOUS
<1> QED BY <1>1, <1>2, <1>3, <1>4, <1>5

\* A power of ten is a positive number.
LEMMA Pow10Type == ASSUME NEW n \in Nat PROVE Pow10[n] \in Nat \ {0}
<1> DEFINE G == {m \in Nat : Pow10[m] # 0}
<1>1. 0 \in G /\ \A m \in Nat : m \in G => m + 1 \in G
  BY Pow10Def
<1>2. \A m \in Nat : m \in G
  <2> HIDE DEF G
  <2> QED BY <1>1, NaturalsBySuccessor
<1> QED BY <1>2, Pow10Def

\* 10^(m + n) = 10^m * 10^n.
LEMMA Pow10Sum ==
  ASSUME NEW m \in Nat, NEW n \in Nat
  PROVE  Pow10[m + n] = Pow10[m] * Pow10[n]
<1> DEFINE G == {i \in Nat : Pow10[m + i] = Pow10[m] * Pow10[i]}
<1>1. 0 \in G
  BY Pow10Def
<1>2. ASSUME NEW i \in Nat, i \in G
      PROVE  i + 1 \in G
  <2>1. Pow10[m + (i + 1)] = 10 * Pow10[m + i]
    <3>1. m + (i + 1) = (m + i) + 1 /\ m + i \in Nat
      OBVIOUS
    <3> QED BY <3>1, Pow10Def
  <2>2. Pow10[i + 1] = 10 * Pow10[i] /\ Pow10[m + i] = Pow10[m] * Pow10[i]
    BY <1>2, Pow10Def
  <2>3. Pow10[m] \in Nat /\ Pow10[i] \in Nat
    BY Pow10Type
  <2>4. 10 * (Pow10[m] * Pow10[i]) = Pow10[m] * (10 * Pow10[i])
    BY <2>3
  <2> QED BY <2>1, <2>2, <2>4
<1>3. \A i \in Nat : i \in G
  <2> HIDE DEF G
  <2> QED BY <1>1, <1>2, NaturalsBySuccessor
<1> QED BY <1>3

\* Powers of ten grow.
LEMMA Pow10Mono ==
  ASSUME NEW m \in Nat, NEW n \in Nat, m <= n
  PROVE  Pow10[m] <= Pow10[n]
<1>1. Pow10[n] = Pow10[m] * Pow10[n - m]
  <2>1. n - m \in Nat /\ m + (n - m) = n
    OBVIOUS
  <2> QED BY <2>1, Pow10Sum
<1>2. Pow10[m] \in Nat /\ Pow10[n - m] \in Nat \ {0}
  BY Pow10Type
<1>3. 1 * Pow10[m] <= Pow10[n - m] * Pow10[m]
  BY <1>2, Scaling
<1>4. Pow10[n - m] * Pow10[m] = Pow10[m] * Pow10[n - m] /\ 1 * Pow10[m] = Pow10[m]
  BY <1>2
<1> QED BY <1>1, <1>3, <1>4

----------------------------------------------------------------------------
(* Division and rounding. *)

\* Quotient and remainder.
LEMMA Quotient ==
  ASSUME NEW n \in Nat, NEW d \in Nat \ {0}
  PROVE  /\ n \div d \in Nat /\ n % d \in 0..(d - 1)
         /\ n = d * (n \div d) + (n % d)
OBVIOUS

\* n \div d is the whole part of n / d.
LEMMA WholeBounds ==
  ASSUME NEW n \in Nat, NEW d \in Nat \ {0}
  PROVE  n \div d \in Nat /\ (n \div d) * d <= n /\ n < (n \div d + 1) * d
BY Quotient

\* n \div d is the largest m with m * d <= n.
LEMMA WholePart ==
  ASSUME NEW n \in Nat, NEW d \in Nat \ {0}, NEW m \in Nat
  PROVE  m <= n \div d <=> m * d <= n
<1> DEFINE q == n \div d
<1>1. q \in Nat /\ q * d <= n /\ n < (q + 1) * d
  BY Quotient
<1> HIDE DEF q
<1>2. ASSUME m <= q
      PROVE  m * d <= n
  <2>1. m * d <= q * d
    BY <1>1, <1>2, Scaling
  <2> QED BY <1>1, <2>1
<1>3. ASSUME m * d <= n, q + 1 <= m
      PROVE  FALSE
  <2>1. (q + 1) * d <= m * d
    BY <1>1, <1>3, Scaling
  <2> QED BY <1>1, <1>3, <2>1
<1> QED BY <1>1, <1>2, <1>3 DEF q

\* HalfEven is a nearest integer: it misses n / d by at most a half.
LEMMA HalfEvenNearest ==
  ASSUME NEW n \in Nat, NEW d \in Nat \ {0}
  PROVE  /\ HalfEven(n, d) \in Nat
         /\ 2 * (HalfEven(n, d) * d) <= 2 * n + d
         /\ 2 * n <= 2 * (HalfEven(n, d) * d) + d
<1> DEFINE q == n \div d
           r == n % d
<1>1. q \in Nat /\ r \in 0..(d - 1) /\ n = d * q + r
  BY Quotient
<1>2. HalfEven(n, d) = IF 2 * r > d \/ (2 * r = d /\ q % 2 = 1) THEN q + 1 ELSE q
  BY DEF HalfEven
<1> HIDE DEF q, r
<1>3. (q + 1) * d = d * q + d /\ q * d = d * q /\ d * q \in Nat
  BY <1>1
<1>4. CASE 2 * r > d \/ (2 * r = d /\ q % 2 = 1)
  BY <1>1, <1>2, <1>3, <1>4
<1>5. CASE ~(2 * r > d \/ (2 * r = d /\ q % 2 = 1))
  BY <1>1, <1>2, <1>3, <1>5
<1> QED BY <1>4, <1>5

\* An integer is its own rounding.
LEMMA HalfEvenWhole ==
  ASSUME NEW n \in Nat
  PROVE  HalfEven(n, 1) = n
<1>1. n \div 1 = n /\ n % 1 = 0
  OBVIOUS
<1> QED BY <1>1 DEF HalfEven

\* An exact half goes to the even neighbour.
LEMMA HalfEvenTie ==
  ASSUME NEW n \in Nat, NEW d \in Nat \ {0}, NEW k \in Nat, 2 * n = 2 * (k * d) + d
  PROVE  HalfEven(n, d) = IF k % 2 = 1 THEN k + 1 ELSE k
<1> DEFINE q == n \div d
           r == n % d
<1>1. q \in Nat /\ r \in 0..(d - 1) /\ n = d * q + r
  BY Quotient
<1>2. HalfEven(n, d) = IF 2 * r > d \/ (2 * r = d /\ q % 2 = 1) THEN q + 1 ELSE q
  BY DEF HalfEven
<1> HIDE DEF q, r
<1>3. q <= k
  <2> SUFFICES ASSUME k + 1 <= q
               PROVE  FALSE
    BY <1>1
  <2>1. (k + 1) * d <= q * d /\ (k + 1) * d = k * d + d /\ q * d = d * q
    BY <1>1, Scaling
  <2>2. k * d \in Int /\ d * q \in Int
    BY <1>1
  <2> QED BY <1>1, <2>1, <2>2
<1>4. k <= q
  <2> SUFFICES ASSUME q + 1 <= k
               PROVE  FALSE
    BY <1>1
  <2>1. (q + 1) * d <= k * d /\ (q + 1) * d = d * q + d
    BY <1>1, Scaling
  <2>2. k * d \in Int /\ d * q \in Int
    BY <1>1
  <2> QED BY <1>1, <2>1, <2>2
<1>5. q = k /\ 2 * r = d
  <2>1. q = k /\ k * d = d * q /\ d * q \in Int
    BY <1>1, <1>3, <1>4
  <2> QED BY <1>1, <2>1
<1> QED BY <1>1, <1>2, <1>5

\* Rounding keeps order, whatever the two denominators.
LEMMA HalfEvenMono ==
  ASSUME NEW n \in Nat, NEW d \in Nat \ {0}, NEW m \in Nat, NEW e \in Nat \ {0},
         n * e <= m * d
  PROVE  HalfEven(n, d) <= HalfEven(m, e)
<1> DEFINE h == HalfEven(n, d)
           k == HalfEven(m, e)
<1>1. h \in Nat /\ k \in Nat /\ 2 * (h * d) <= 2 * n + d /\ 2 * m <= 2 * (k * e) + e
  BY HalfEvenNearest
<1> SUFFICES ASSUME h >= k + 1
             PROVE  FALSE
  BY <1>1
<1> HIDE DEF h, k
<1>2. 2 * (h * (d * e)) <= 2 * (n * e) + d * e
  <2>1. (2 * (h * d)) * e <= (2 * n + d) * e
    BY <1>1, Scaling
  <2>2. (2 * (h * d)) * e = 2 * (h * (d * e)) /\ (2 * n + d) * e = 2 * (n * e) + d * e
    BY <1>1
  <2> QED BY <2>1, <2>2
<1>3. 2 * (m * d) <= 2 * (k * (d * e)) + d * e
  <2>1. (2 * m) * d <= (2 * (k * e) + e) * d
    BY <1>1, Scaling
  <2>2. (2 * m) * d = 2 * (m * d) /\ (2 * (k * e) + e) * d = 2 * (k * (d * e)) + d * e
    BY <1>1
  <2> QED BY <2>1, <2>2
<1>4. (k + 1) * (d * e) <= h * (d * e) /\ (k + 1) * (d * e) = k * (d * e) + d * e
  <2>1. d * e \in Nat
    OBVIOUS
  <2> QED BY <1>1, <2>1, Scaling
<1>5. h = k + 1 /\ 2 * (h * (d * e)) = 2 * (n * e) + d * e
      /\ 2 * (m * d) = 2 * (k * (d * e)) + d * e
  <2>1. /\ h * (d * e) \in Int /\ k * (d * e) \in Int /\ d * e \in Nat \ {0}
        /\ n * e \in Int /\ m * d \in Int
    BY <1>1
  <2>2. h * (d * e) <= (k + 1) * (d * e)
    BY <1>2, <1>3, <1>4, <2>1
  <2>3. h <= k + 1
    BY <1>1, <2>1, <2>2, Scaling
  <2> QED BY <1>1, <1>2, <1>3, <1>4, <2>1, <2>2, <2>3
\* n / d and m / e are the half between k and k + 1.
<1>6. 2 * n = 2 * (k * d) + d
  <2>1. (2 * n) * e = (2 * (k * d) + d) * e
    <3>1. (2 * n) * e = 2 * (n * e) /\ n * e \in Int
      OBVIOUS
    <3>2. (2 * (k * d) + d) * e = 2 * (k * (d * e)) + d * e
      BY <1>1
    <3>3. 2 * ((k + 1) * (d * e)) = 2 * (k * (d * e)) + 2 * (d * e)
      BY <1>1
    <3>4. k * (d * e) \in Int /\ d * e \in Int
      BY <1>1
    <3> QED BY <1>5, <3>1, <3>2, <3>3, <3>4
  <2>2. 2 * n \in Int /\ 2 * (k * d) + d \in Int
    BY <1>1
  <2> QED BY <2>1, <2>2, Scaling
<1>7. 2 * m = 2 * (k * e) + e
  <2>1. (2 * m) * d = (2 * (k * e) + e) * d
    <3>1. (2 * m) * d = 2 * (m * d)
      OBVIOUS
    <3>2. (2 * (k * e) + e) * d = 2 * (k * (d * e)) + d * e
      BY <1>1
    <3> QED BY <1>5, <3>1, <3>2
  <2>2. 2 * m \in Int /\ 2 * (k * e) + e \in Int
    BY <1>1
  <2> QED BY <2>1, <2>2, Scaling
<1>8. h = (IF k % 2 = 1 THEN k + 1 ELSE k) /\ k = (IF k % 2 = 1 THEN k + 1 ELSE k)
  BY <1>1, <1>6, <1>7, HalfEvenTie DEF h, k
<1> QED BY <1>1, <1>5, <1>8

----------------------------------------------------------------------------
(* Results kept to Precision digits. *)

P == Precision

\* The factor 10^k takes a number down to P digits, and no smaller one does.
IsCut(n, k) ==
  /\ k \in Nat /\ n < Pow10[P] * Pow10[k]
  /\ k # 0 => Pow10[P] * Pow10[k - 1] <= n

\* What Rounded can round, as Times and Div hand it over.
Roundable(n) == n \in Nat /\ n < Pow10[2 * P + 1]

\* Rounded finds the factor it cuts by.
LEMMA RoundedCut ==
  ASSUME NEW n, Roundable(n), NEW s \in Int
  PROVE  \E k \in Nat : /\ IsCut(n, k)
                        /\ Rounded(Dec(n, s)) = Dec(HalfEven(n, Pow10[k]), s - k)
<1> DEFINE S == {i \in 0..(Precision + 1) : n \div Pow10[i] < Pow10[Precision]}
           k == Least(S)
<1>0. P \in Nat /\ n \in Nat /\ Pow10[P] \in Nat
  BY MoneyAssumption, Pow10Type DEF P, Roundable
<1>1. \A i \in Nat : n \div Pow10[i] < Pow10[P] <=> n < Pow10[P] * Pow10[i]
  <2> SUFFICES ASSUME NEW i \in Nat
               PROVE  n \div Pow10[i] < Pow10[P] <=> n < Pow10[P] * Pow10[i]
    OBVIOUS
  <2>1. Pow10[i] \in Nat \ {0}
    BY Pow10Type
  <2>2. Pow10[P] * Pow10[i] \in Nat
    BY <1>0, <2>1
  <2>4. n \div Pow10[i] \in Nat
    BY <1>0, <2>1, Quotient
  <2>3. Pow10[P] <= n \div Pow10[i] <=> Pow10[P] * Pow10[i] <= n
    BY <1>0, <2>1, WholePart
  <2> QED BY <1>0, <2>2, <2>3, <2>4
<1>2. P + 1 \in S
  <2>1. Pow10[2 * P + 1] = Pow10[P] * Pow10[P + 1]
    <3>1. 2 * P + 1 = P + (P + 1)
      BY <1>0
    <3> QED BY <1>0, <3>1, Pow10Sum
  <2> QED BY <1>0, <1>1, <2>1 DEF P, Roundable
<1>3. k \in S /\ \A m \in S : k <= m
  <2>1. S \in SUBSET Nat
    OBVIOUS
  <2> HIDE DEF S
  <2> QED BY <1>2, <2>1, LeastNatural
<1>4. Rounded(Dec(n, s)) = Dec(HalfEven(n, Pow10[k]), s - k)
  BY DEF Rounded, Dec
<1> HIDE DEF k
<1>5. k \in Nat /\ n < Pow10[P] * Pow10[k]
  BY <1>1, <1>3 DEF P
<1>6. ASSUME k # 0
      PROVE  Pow10[P] * Pow10[k - 1] <= n
  <2>0. k - 1 \notin S
    <3>1. k \in Nat
      BY <1>3
    <3> HIDE DEF S
    <3> QED BY <1>3, <1>6, <3>1
  <2>1. k - 1 \in 0..(P + 1)
    <3>1. k \in 0..(Precision + 1) /\ Precision \in Nat
      BY <1>0, <1>3 DEF P
    <3> QED BY <1>6, <3>1 DEF P
  <2>2. ~(n < Pow10[P] * Pow10[k - 1])
    <3>1. ~(n \div Pow10[k - 1] < Pow10[P])
      BY <2>0, <2>1 DEF P
    <3> QED BY <1>1, <2>1, <3>1
  <2>3. Pow10[P] * Pow10[k - 1] \in Nat
    BY <1>0, <2>1, Pow10Type
  <2> QED BY <1>0, <2>2, <2>3
<1> QED BY <1>4, <1>5, <1>6 DEF IsCut

\* A number cut down has at most P digits, or is 10^P, and not fewer than P.
LEMMA CutDigits ==
  ASSUME NEW n \in Nat, NEW k, IsCut(n, k)
  PROVE  /\ HalfEven(n, Pow10[k]) <= Pow10[P]
         /\ k # 0 => /\ Pow10[P - 1] * Pow10[k] <= n
                     /\ Pow10[P - 1] <= HalfEven(n, Pow10[k])
<1>0. /\ k \in Nat /\ P \in Nat /\ P - 1 \in Nat /\ Pow10[k] \in Nat \ {0}
      /\ Pow10[P] \in Nat \ {0} /\ Pow10[P - 1] \in Nat \ {0}
  BY MoneyAssumption, Pow10Type DEF P, IsCut
<1>1. HalfEven(n, Pow10[k]) <= Pow10[P]
  <2>1. n * 1 <= Pow10[P] * Pow10[k]
    BY <1>0 DEF IsCut
  <2> QED BY <1>0, <2>1, HalfEvenMono, HalfEvenWhole
<1>2. ASSUME k # 0
      PROVE  Pow10[P - 1] * Pow10[k] <= n
  <2>1. Pow10[P] = 10 * Pow10[P - 1]
    <3>1. P = (P - 1) + 1
      BY <1>0
    <3> QED BY <1>0, <3>1, Pow10Def
  <2>2. k - 1 \in Nat /\ Pow10[k] = 10 * Pow10[k - 1] /\ Pow10[k - 1] \in Nat
    <3>1. k = (k - 1) + 1 /\ k - 1 \in Nat
      BY <1>0, <1>2
    <3> QED BY <3>1, Pow10Def, Pow10Type
  <2>3. (10 * Pow10[P - 1]) * Pow10[k - 1] = Pow10[P - 1] * (10 * Pow10[k - 1])
    BY <1>0, <2>2
  <2> QED BY <1>2, <2>1, <2>2, <2>3 DEF IsCut
<1>3. ASSUME k # 0
      PROVE  Pow10[P - 1] <= HalfEven(n, Pow10[k])
  <2>1. Pow10[P - 1] * Pow10[k] <= n * 1
    BY <1>2, <1>3
  <2> QED BY <1>0, <2>1, HalfEvenMono, HalfEvenWhole
<1> QED BY <1>1, <1>2, <1>3

\* Cutting two numbers down keeps their order, though each loses its own digits.
\* The numbers are n * 10^a and m * 10^b.
LEMMA CutMono ==
  ASSUME NEW n \in Nat, NEW m \in Nat, NEW i, NEW j, IsCut(n, i), IsCut(m, j),
         NEW a \in Nat, NEW b \in Nat, n * Pow10[a] <= m * Pow10[b]
  PROVE  HalfEven(n, Pow10[i]) * Pow10[a + i] <= HalfEven(m, Pow10[j]) * Pow10[b + j]
<1> DEFINE h == HalfEven(n, Pow10[i])
           l == HalfEven(m, Pow10[j])
           A == Pow10[a]
           B == Pow10[b]
           I == Pow10[i]
           J == Pow10[j]
<1>0. i \in Nat /\ j \in Nat /\ P \in Nat /\ P - 1 \in Nat
  BY MoneyAssumption DEF P, IsCut
<1>1. /\ A \in Nat \ {0} /\ B \in Nat \ {0} /\ I \in Nat \ {0} /\ J \in Nat \ {0}
      /\ Pow10[P] \in Nat \ {0} /\ Pow10[P - 1] \in Nat \ {0}
  BY <1>0, Pow10Type
<1>2. Pow10[a + i] = A * I /\ Pow10[b + j] = B * J
  BY <1>0, Pow10Sum
<1>3. h \in Nat /\ l \in Nat
  BY <1>1, HalfEvenNearest
<1> HIDE DEF h, l, A, B, I, J
<1>4. CASE a + i = b + j
  <2>1. A * I = B * J
    BY <1>2, <1>4
  <2>2. n * J <= m * I
    <3>1. (n * A) * (I * J) <= (m * B) * (I * J)
      BY <1>1, Scaling DEF A, B
    <3>2. (n * A) * (I * J) = (n * J) * (A * I) /\ (m * B) * (I * J) = (m * I) * (B * J)
      BY <1>1
    <3>3. A * I \in Nat \ {0} /\ n * J \in Int /\ m * I \in Int
      BY <1>1
    <3> QED BY <2>1, <3>1, <3>2, <3>3, Scaling
  <2>3. h <= l
    BY <1>1, <2>2, HalfEvenMono DEF h, l, I, J
  <2>4. h * (A * I) <= l * (A * I)
    BY <1>1, <1>3, <2>3, Scaling
  <2> QED BY <1>2, <2>1, <2>4 DEF h, l
<1>5. CASE a + i < b + j
  <2>1. CASE j # 0
    <3>1. h <= Pow10[P] /\ Pow10[P - 1] <= l
      BY <2>1, CutDigits DEF h, l
    <3>2. Pow10[P] * Pow10[a + i] <= Pow10[P - 1] * Pow10[b + j]
      <4>1. Pow10[P + (a + i)] <= Pow10[(P - 1) + (b + j)]
        BY <1>0, <1>5, Pow10Mono
      <4>2. a + i \in Nat /\ b + j \in Nat
        BY <1>0
      <4>3. Pow10[P + (a + i)] = Pow10[P] * Pow10[a + i]
        BY <1>0, <4>2, Pow10Sum
      <4>4. Pow10[(P - 1) + (b + j)] = Pow10[P - 1] * Pow10[b + j]
        BY <1>0, <4>2, Pow10Sum
      <4> QED BY <4>1, <4>3, <4>4
    <3>3. h * Pow10[a + i] <= Pow10[P] * Pow10[a + i]
      BY <1>0, <1>1, <1>3, <3>1, Scaling, Pow10Type
    <3>4. Pow10[P - 1] * Pow10[b + j] <= l * Pow10[b + j]
      BY <1>0, <1>1, <1>3, <3>1, Scaling, Pow10Type
    <3>5. Pow10[a + i] \in Nat /\ Pow10[b + j] \in Nat
      BY <1>0, Pow10Type
    <3> QED BY <1>1, <1>3, <3>2, <3>3, <3>4, <3>5 DEF h, l
  <2>2. CASE j = 0
    <3> DEFINE D == Pow10[b - (a + i)]
    <3>1. l = m /\ J = 1
      BY <2>2, HalfEvenWhole, Pow10Def DEF l, J
    <3>2. B = D * (A * I) /\ D \in Nat
      <4>1. b = (b - (a + i)) + (a + i) /\ b - (a + i) \in Nat /\ a + i \in Nat
        BY <1>0, <1>5, <2>2
      <4>2. B = D * Pow10[a + i]
        <5>1. Pow10[(b - (a + i)) + (a + i)] = D * Pow10[a + i]
          BY <4>1, Pow10Sum
        <5> QED BY <4>1, <5>1 DEF B
      <4> QED BY <1>2, <4>1, <4>2, Pow10Type
    <3> HIDE DEF D
    <3>3. n * 1 <= (m * D) * I
      <4>1. n * A <= ((m * D) * I) * A
        <5>1. m * (D * (A * I)) = ((m * D) * I) * A
          BY <1>1, <3>2
        <5> QED BY <3>2, <5>1 DEF A, B
      <4> QED BY <1>1, <3>2, <4>1, Scaling
    <3>4. h <= m * D
      BY <1>1, <3>2, <3>3, HalfEvenMono, HalfEvenWhole DEF h, I
    <3>5. h * (A * I) <= (m * D) * (A * I)
      BY <1>1, <1>3, <3>2, <3>4, Scaling
    <3>6. (m * D) * (A * I) = l * (B * J)
      BY <1>1, <3>1, <3>2
    <3> QED BY <1>2, <3>5, <3>6 DEF h, l
  <2> QED BY <1>0, <2>1, <2>2
<1>6. CASE a + i > b + j
  <2>1. CASE i # 0
    <3>1. m < Pow10[P] * J /\ Pow10[P - 1] * I <= n
      BY <2>1, CutDigits DEF IsCut, I, J
    <3>2. Pow10[P] * (B * J) <= Pow10[P - 1] * (A * I)
      <4>1. Pow10[P + (b + j)] <= Pow10[(P - 1) + (a + i)]
        BY <1>0, <1>6, Pow10Mono
      <4>2. a + i \in Nat /\ b + j \in Nat
        BY <1>0
      <4>3. Pow10[P + (b + j)] = Pow10[P] * Pow10[b + j]
        BY <1>0, <4>2, Pow10Sum
      <4>4. Pow10[(P - 1) + (a + i)] = Pow10[P - 1] * Pow10[a + i]
        BY <1>0, <4>2, Pow10Sum
      <4> QED BY <1>2, <4>1, <4>3, <4>4
    <3>3. m * B < (Pow10[P] * J) * B
      BY <1>1, <3>1, Scaling
    <3>4. (Pow10[P - 1] * I) * A <= n * A
      BY <1>1, <3>1, Scaling
    <3>5. (Pow10[P] * J) * B = Pow10[P] * (B * J)
          /\ (Pow10[P - 1] * I) * A = Pow10[P - 1] * (A * I)
      BY <1>1
    <3>6. /\ m * B \in Int /\ n * A \in Int
          /\ Pow10[P] * (B * J) \in Int /\ Pow10[P - 1] * (A * I) \in Int
      BY <1>1
    <3>7. n * A <= m * B
      BY DEF A, B
    <3> QED BY <3>2, <3>3, <3>4, <3>5, <3>6, <3>7
  <2>2. CASE i = 0
    <3> DEFINE D == Pow10[a - (b + j)]
    <3>1. h = n /\ I = 1
      BY <2>2, HalfEvenWhole, Pow10Def DEF h, I
    <3>2. A = D * (B * J) /\ D \in Nat
      <4>1. a = (a - (b + j)) + (b + j) /\ a - (b + j) \in Nat /\ b + j \in Nat
        BY <1>0, <1>6, <2>2
      <4>2. A = D * Pow10[b + j]
        <5>1. Pow10[(a - (b + j)) + (b + j)] = D * Pow10[b + j]
          BY <4>1, Pow10Sum
        <5> QED BY <4>1, <5>1 DEF A
      <4> QED BY <1>2, <4>1, <4>2, Pow10Type
    <3> HIDE DEF D
    <3>3. (n * D) * J <= m * 1
      <4>1. ((n * D) * J) * B <= m * B
        <5>1. n * (D * (B * J)) = ((n * D) * J) * B
          BY <1>1, <3>2
        <5> QED BY <3>2, <5>1 DEF A, B
      <4> QED BY <1>1, <3>2, <4>1, Scaling
    <3>4. n * D <= l
      BY <1>1, <3>2, <3>3, HalfEvenMono, HalfEvenWhole DEF l, J
    <3>5. (n * D) * (B * J) <= l * (B * J)
      BY <1>1, <1>3, <3>2, <3>4, Scaling
    <3>6. (n * D) * (B * J) = h * (A * I)
      BY <1>1, <3>1, <3>2
    <3> QED BY <1>2, <3>5, <3>6 DEF h, l
  <2> QED BY <1>0, <2>1, <2>2
<1> QED BY <1>0, <1>4, <1>5, <1>6

----------------------------------------------------------------------------
(* Decimals in order of value. *)

Decimal == [num : Nat, scale : Int]

\* 10^M times the value of x, whole where M is large enough.
Scaled(x, M) == x.num * Pow10[M - x.scale]

\* x is worth no more than y.
AtMost(x, y) ==
  \E M \in Int : x.scale <= M /\ y.scale <= M /\ Scaled(x, M) <= Scaled(y, M)

\* The fields of a Decimal.
LEMMA DecType ==
  ASSUME NEW n \in Nat, NEW s \in Int
  PROVE  Dec(n, s) \in Decimal /\ Dec(n, s).num = n /\ Dec(n, s).scale = s
BY DEF Dec, Decimal

\* A value at a scale, and at a finer one.
LEMMA ScaledGrows ==
  ASSUME NEW x \in Decimal, NEW M \in Int, x.scale <= M, NEW d \in Nat
  PROVE  Scaled(x, M) \in Nat /\ Scaled(x, M + d) = Scaled(x, M) * Pow10[d]
<1>1. x.num \in Nat /\ x.scale \in Int /\ M - x.scale \in Nat
  BY DEF Decimal
<1>2. Pow10[M - x.scale] \in Nat /\ Pow10[d] \in Nat
  BY <1>1, Pow10Type
<1>3. Pow10[(M - x.scale) + d] = Pow10[M - x.scale] * Pow10[d]
  BY <1>1, Pow10Sum
<1>4. (M - x.scale) + d = (M + d) - x.scale
  BY <1>1
<1>5. x.num * (Pow10[M - x.scale] * Pow10[d]) = (x.num * Pow10[M - x.scale]) * Pow10[d]
  BY <1>1, <1>2
<1>6. x.num * Pow10[M - x.scale] \in Nat
  BY <1>1, <1>2
<1> QED BY <1>3, <1>4, <1>5, <1>6 DEF Scaled

\* The order does not depend on the scale it is read at.
LEMMA AtMostAtAny ==
  ASSUME NEW x \in Decimal, NEW y \in Decimal, AtMost(x, y),
         NEW M \in Int, x.scale <= M, y.scale <= M
  PROVE  Scaled(x, M) <= Scaled(y, M)
<1>1. PICK N \in Int : x.scale <= N /\ y.scale <= N /\ Scaled(x, N) <= Scaled(y, N)
  BY DEF AtMost
<1>2. Scaled(x, N) \in Nat /\ Scaled(y, N) \in Nat /\ Scaled(x, M) \in Nat /\ Scaled(y, M) \in Nat
  <2>1. 0 \in Nat
    OBVIOUS
  <2> QED BY <1>1, <2>1, ScaledGrows
<1>3. CASE N <= M
  <2>1. M - N \in Nat /\ N + (M - N) = M /\ Pow10[M - N] \in Nat
    BY <1>3, Pow10Type
  <2>2. Scaled(x, N + (M - N)) = Scaled(x, N) * Pow10[M - N]
    BY <1>1, <2>1, ScaledGrows
  <2>3. Scaled(y, N + (M - N)) = Scaled(y, N) * Pow10[M - N]
    BY <1>1, <2>1, ScaledGrows
  <2> QED BY <1>1, <1>2, <2>1, <2>2, <2>3, Scaling
<1>4. CASE M <= N
  <2>1. N - M \in Nat /\ M + (N - M) = N /\ Pow10[N - M] \in Nat \ {0}
    BY <1>4, Pow10Type
  <2>2. Scaled(x, M + (N - M)) = Scaled(x, M) * Pow10[N - M]
    BY <2>1, ScaledGrows
  <2>3. Scaled(y, M + (N - M)) = Scaled(y, M) * Pow10[N - M]
    BY <2>1, ScaledGrows
  <2>4. Scaled(x, M) * Pow10[N - M] <= Scaled(y, M) * Pow10[N - M]
    BY <1>1, <2>1, <2>2, <2>3
  <2> QED BY <1>2, <2>1, <2>4, Scaling
<1> QED BY <1>3, <1>4

\* What Rounded returns: a Decimal of at most P digits on a coarser grid.
LEMMA RoundedType ==
  ASSUME NEW x \in Decimal, Roundable(x.num)
  PROVE  /\ Rounded(x) \in Decimal /\ Rounded(x).scale <= x.scale
         /\ Rounded(x).num <= Pow10[P]
<1>1. x = Dec(x.num, x.scale) /\ x.num \in Nat /\ x.scale \in Int
  BY DEF Decimal, Dec
<1>2. PICK k \in Nat : /\ IsCut(x.num, k)
                       /\ Rounded(x) = Dec(HalfEven(x.num, Pow10[k]), x.scale - k)
  BY <1>1, RoundedCut
<1>3. HalfEven(x.num, Pow10[k]) \in Nat /\ HalfEven(x.num, Pow10[k]) <= Pow10[P]
  BY <1>1, <1>2, CutDigits, HalfEvenNearest, Pow10Type
<1>4. x.scale - k \in Int /\ x.scale - k <= x.scale
  BY <1>1
<1> QED BY <1>2, <1>3, <1>4, DecType

\* Rounding to P digits keeps the order of values.
LEMMA RoundedMono ==
  ASSUME NEW x \in Decimal, NEW y \in Decimal, Roundable(x.num), Roundable(y.num),
         AtMost(x, y)
  PROVE  AtMost(Rounded(x), Rounded(y))
<1>1. /\ x = Dec(x.num, x.scale) /\ x.num \in Nat /\ x.scale \in Int
      /\ y = Dec(y.num, y.scale) /\ y.num \in Nat /\ y.scale \in Int
  BY DEF Decimal, Dec
<1>2. PICK i \in Nat : /\ IsCut(x.num, i)
                       /\ Rounded(x) = Dec(HalfEven(x.num, Pow10[i]), x.scale - i)
  BY <1>1, RoundedCut
<1>3. PICK j \in Nat : /\ IsCut(y.num, j)
                       /\ Rounded(y) = Dec(HalfEven(y.num, Pow10[j]), y.scale - j)
  BY <1>1, RoundedCut
<1>4. PICK M \in Int : x.scale <= M /\ y.scale <= M /\ Scaled(x, M) <= Scaled(y, M)
  BY DEF AtMost
<1> DEFINE a == M - x.scale
           b == M - y.scale
<1>5. a \in Nat /\ b \in Nat
  BY <1>1, <1>4
<1>6. x.num * Pow10[a] <= y.num * Pow10[b]
  BY <1>4 DEF Scaled
<1>7. M - (x.scale - i) = a + i /\ M - (y.scale - j) = b + j
  BY <1>1
<1> HIDE DEF a, b
<1>8. HalfEven(x.num, Pow10[i]) * Pow10[a + i] <= HalfEven(y.num, Pow10[j]) * Pow10[b + j]
  BY <1>1, <1>2, <1>3, <1>5, <1>6, CutMono
<1>9. Scaled(Rounded(x), M) <= Scaled(Rounded(y), M)
  BY <1>2, <1>3, <1>7, <1>8 DEF Scaled, Dec
<1>10. Rounded(x).scale <= M /\ Rounded(y).scale <= M
  BY <1>1, <1>2, <1>3, <1>4 DEF Dec
<1> QED BY <1>9, <1>10 DEF AtMost

\* A number of at most P digits, or 10^P, keeps its value.
LEMMA RoundedExact ==
  ASSUME NEW x \in Decimal, x.num <= Pow10[P], NEW M \in Int, x.scale <= M
  PROVE  Roundable(x.num) /\ Scaled(Rounded(x), M) = Scaled(x, M)
<1> DEFINE n == x.num
<1>0. /\ x = Dec(n, x.scale) /\ n \in Nat /\ x.scale \in Int
      /\ P \in Nat /\ P - 1 \in Nat /\ Pow10[P] \in Nat \ {0} /\ Pow10[P - 1] \in Nat \ {0}
  <2>1. P \in Nat /\ P - 1 \in Nat
    BY MoneyAssumption DEF P
  <2> QED BY <2>1, Pow10Type DEF Decimal, Dec
<1>1. Roundable(n)
  <2>1. Pow10[P] < Pow10[2 * P + 1]
    <3>1. 2 * P + 1 = (2 * P) + 1 /\ 2 * P \in Nat /\ P <= 2 * P
      BY <1>0
    <3>2. Pow10[2 * P + 1] = 10 * Pow10[2 * P] /\ Pow10[P] <= Pow10[2 * P]
      BY <1>0, <3>1, Pow10Def, Pow10Mono
    <3>3. Pow10[2 * P] \in Nat
      BY <3>1, Pow10Type
    <3> QED BY <1>0, <3>2, <3>3
  <2> QED BY <1>0, <2>1, Pow10Type DEF Roundable
<1>2. PICK k \in Nat : /\ IsCut(n, k)
                       /\ Rounded(x) = Dec(HalfEven(n, Pow10[k]), x.scale - k)
  BY <1>0, <1>1, RoundedCut
<1>3. CASE k = 0
  <2>1. HalfEven(n, Pow10[k]) = n /\ x.scale - k = x.scale
    BY <1>0, <1>3, HalfEvenWhole, Pow10Def
  <2> QED BY <1>0, <1>1, <1>2, <2>1
<1>4. CASE k # 0
  <2>1. k - 1 \in Nat /\ Pow10[k - 1] \in Nat \ {0} /\ Pow10[P] * Pow10[k - 1] <= n
    BY <1>2, <1>4, Pow10Type DEF IsCut
  <2>2. Pow10[k - 1] <= 1
    <3>1. Pow10[k - 1] * Pow10[P] <= 1 * Pow10[P]
      BY <1>0, <2>1
    <3> QED BY <1>0, <2>1, <3>1, Scaling
  <2>3. k = 1
    <3> SUFFICES ASSUME k - 1 # 0
                 PROVE  FALSE
      BY <2>1
    <3>1. 1 <= k - 1 /\ Pow10[1] = 10
      <4>1. Pow10[0 + 1] = 10 * Pow10[0]
        BY Pow10Def
      <4> QED BY <2>1, <4>1, Pow10Def
    <3>2. Pow10[1] <= Pow10[k - 1]
      BY <2>1, <3>1, Pow10Mono
    <3> QED BY <2>1, <2>2, <3>1, <3>2
  <2>4. n = Pow10[P] /\ Pow10[P] = Pow10[P - 1] * 10 /\ Pow10[1] = 10
    <3>1. Pow10[(P - 1) + 1] = 10 * Pow10[P - 1] /\ Pow10[0 + 1] = 10 * Pow10[0]
      BY <1>0, Pow10Def
    <3>2. (P - 1) + 1 = P /\ 1 - 1 = 0 /\ 0 + 1 = 1 /\ Pow10[0] = 1
      BY <1>0, Pow10Def
    <3>3. Pow10[k - 1] = 1
      BY <2>3, <3>2
    <3>4. Pow10[P] * 1 <= n
      BY <2>1, <3>3
    <3>5. n = Pow10[P]
      BY <1>0, <3>4
    <3> QED BY <1>0, <3>1, <3>2, <3>5
  <2>5. HalfEven(n, 10) = Pow10[P - 1]
    <3>1. n * 1 <= Pow10[P - 1] * 10 /\ Pow10[P - 1] * 10 <= n * 1
      BY <1>0, <2>4
    <3>2. HalfEven(n, 10) <= Pow10[P - 1] /\ Pow10[P - 1] <= HalfEven(n, 10)
      BY <1>0, <3>1, HalfEvenMono, HalfEvenWhole
    <3>3. HalfEven(n, 10) \in Nat
      BY <1>0, HalfEvenNearest
    <3> QED BY <1>0, <3>2, <3>3
  <2>6. Rounded(x) = Dec(Pow10[P - 1], x.scale - 1)
    BY <1>2, <2>3, <2>4, <2>5
  <2>7. M - (x.scale - 1) = (M - x.scale) + 1 /\ M - x.scale \in Nat
    BY <1>0
  <2>8. Pow10[(M - x.scale) + 1] = 10 * Pow10[M - x.scale] /\ Pow10[M - x.scale] \in Nat
    BY <2>7, Pow10Def, Pow10Type
  <2>9. Pow10[P - 1] * (10 * Pow10[M - x.scale]) = (Pow10[P - 1] * 10) * Pow10[M - x.scale]
    BY <1>0, <2>8
  <2>10. Scaled(Rounded(x), M) = Pow10[P - 1] * Pow10[M - (x.scale - 1)]
    BY <2>6 DEF Scaled, Dec
  <2> QED BY <1>1, <2>4, <2>7, <2>8, <2>9, <2>10 DEF Scaled
<1> QED BY <1>3, <1>4

\* Floor is the whole part of a value.
LEMMA FloorWhole ==
  ASSUME NEW x \in Decimal, NEW M \in Nat, x.scale <= M
  PROVE  /\ Floor(x) \in Nat
         /\ Floor(x) * Pow10[M] <= Scaled(x, M)
         /\ Scaled(x, M) < (Floor(x) + 1) * Pow10[M]
<1> DEFINE n == x.num
           s == x.scale
<1>0. n \in Nat /\ s \in Int /\ M - s \in Nat /\ Pow10[M - s] \in Nat \ {0}
  BY Pow10Type DEF Decimal
<1>1. Scaled(x, M) = n * Pow10[M - s]
  BY DEF Scaled
<1>2. CASE s > 0
  <2> DEFINE q == n \div Pow10[s]
  <2>1. s \in Nat /\ Pow10[s] \in Nat \ {0} /\ Floor(x) = q
    BY <1>0, <1>2, Pow10Type DEF Floor
  <2>2. q \in Nat /\ q * Pow10[s] <= n /\ n < (q + 1) * Pow10[s]
    BY <1>0, <2>1, WholeBounds
  <2>3. Pow10[M] = Pow10[s] * Pow10[M - s]
    <3>1. s + (M - s) = M
      BY <1>0
    <3>2. Pow10[s + (M - s)] = Pow10[s] * Pow10[M - s]
      BY <1>0, <2>1, Pow10Sum
    <3> QED BY <3>1, <3>2
  <2> HIDE DEF q
  <2>4. (q * Pow10[s]) * Pow10[M - s] <= n * Pow10[M - s]
    BY <1>0, <2>1, <2>2, Scaling
  <2>5. n * Pow10[M - s] < ((q + 1) * Pow10[s]) * Pow10[M - s]
    BY <1>0, <2>1, <2>2, Scaling
  <2>6. (q * Pow10[s]) * Pow10[M - s] = q * (Pow10[s] * Pow10[M - s])
        /\ ((q + 1) * Pow10[s]) * Pow10[M - s] = (q + 1) * (Pow10[s] * Pow10[M - s])
    BY <1>0, <2>1, <2>2
  <2> QED BY <1>1, <2>1, <2>2, <2>3, <2>4, <2>5, <2>6
<1>3. CASE ~(s > 0)
  <2>1. -s \in Nat /\ Pow10[-s] \in Nat \ {0} /\ Floor(x) = n * Pow10[-s]
    BY <1>0, <1>3, Pow10Type DEF Floor
  <2>2. Pow10[M - s] = Pow10[-s] * Pow10[M]
    <3>1. (-s) + M = M - s
      BY <1>0
    <3> QED BY <2>1, <3>1, Pow10Sum
  <2>3. Pow10[M] \in Nat \ {0} /\ n * Pow10[-s] \in Nat
    BY <1>0, <2>1, Pow10Type
  <2>4. n * (Pow10[-s] * Pow10[M]) = (n * Pow10[-s]) * Pow10[M]
        /\ (n * Pow10[-s] + 1) * Pow10[M] = (n * Pow10[-s]) * Pow10[M] + Pow10[M]
        /\ (n * Pow10[-s]) * Pow10[M] \in Nat
    BY <1>0, <2>1, <2>3
  <2> QED BY <1>1, <2>1, <2>2, <2>3, <2>4
<1> QED BY <1>2, <1>3

\* Floor keeps the order of values.
LEMMA FloorMono ==
  ASSUME NEW x \in Decimal, NEW y \in Decimal, AtMost(x, y)
  PROVE  Floor(x) <= Floor(y)
<1>1. PICK M \in Nat : x.scale <= M /\ y.scale <= M
  <2> DEFINE top == IF x.scale <= y.scale THEN y.scale ELSE x.scale
             M == IF top <= 0 THEN 0 ELSE top
  <2>1. M \in Nat /\ x.scale <= M /\ y.scale <= M
    BY DEF Decimal
  <2> QED BY <2>1
<1>2. Scaled(x, M) <= Scaled(y, M)
  BY <1>1, AtMostAtAny
<1>3. /\ Floor(x) \in Nat /\ Floor(y) \in Nat
      /\ Floor(x) * Pow10[M] <= Scaled(x, M) /\ Scaled(y, M) < (Floor(y) + 1) * Pow10[M]
  BY <1>1, FloorWhole
<1>4. Scaled(x, M) \in Nat /\ Scaled(y, M) \in Nat /\ Pow10[M] \in Nat \ {0}
  <2>1. 0 \in Nat
    OBVIOUS
  <2> QED BY <1>1, <2>1, ScaledGrows, Pow10Type
<1> SUFFICES ASSUME Floor(y) + 1 <= Floor(x)
             PROVE  FALSE
  BY <1>3
<1>5. (Floor(y) + 1) * Pow10[M] <= Floor(x) * Pow10[M]
  BY <1>3, <1>4, Scaling
<1>6. (Floor(y) + 1) * Pow10[M] \in Int /\ Floor(x) * Pow10[M] \in Int
  BY <1>3, <1>4
<1> QED BY <1>2, <1>3, <1>4, <1>5, <1>6

\* The order of values is transitive.
LEMMA AtMostTransitive ==
  ASSUME NEW x \in Decimal, NEW y \in Decimal, NEW z \in Decimal, AtMost(x, y), AtMost(y, z)
  PROVE  AtMost(x, z)
<1>1. PICK M \in Int : x.scale <= M /\ y.scale <= M /\ z.scale <= M
  <2> DEFINE top == IF x.scale <= y.scale THEN y.scale ELSE x.scale
             M == IF top <= z.scale THEN z.scale ELSE top
  <2>1. M \in Int /\ x.scale <= M /\ y.scale <= M /\ z.scale <= M
    BY DEF Decimal
  <2> QED BY <2>1
<1>2. Scaled(x, M) <= Scaled(y, M) /\ Scaled(y, M) <= Scaled(z, M)
  BY <1>1, AtMostAtAny
<1>3. Scaled(x, M) \in Nat /\ Scaled(y, M) \in Nat /\ Scaled(z, M) \in Nat
  <2>1. 0 \in Nat
    OBVIOUS
  <2> QED BY <1>1, <2>1, ScaledGrows
<1>4. Scaled(x, M) <= Scaled(z, M)
  BY <1>2, <1>3
<1> QED BY <1>1, <1>4 DEF AtMost

\* The product of two Decimals before it is rounded.
Product(x, y) == Dec(x.num * y.num, x.scale + y.scale)

\* A product is whole where its factors are, and is the product there.
LEMMA ProductScaled ==
  ASSUME NEW x \in Decimal, NEW y \in Decimal,
         NEW M \in Int, NEW N \in Int, x.scale <= M, y.scale <= N
  PROVE  /\ Product(x, y) \in Decimal /\ Product(x, y).scale <= M + N
         /\ Scaled(Product(x, y), M + N) = Scaled(x, M) * Scaled(y, N)
<1>1. /\ x.num \in Nat /\ x.scale \in Int /\ y.num \in Nat /\ y.scale \in Int
      /\ M - x.scale \in Nat /\ N - y.scale \in Nat
  BY DEF Decimal
<1>2. x.num * y.num \in Nat /\ x.scale + y.scale \in Int
  BY <1>1
<1>3. Product(x, y) \in Decimal /\ Product(x, y).num = x.num * y.num
      /\ Product(x, y).scale = x.scale + y.scale
  BY <1>2, DecType DEF Product
<1>4. (M + N) - (x.scale + y.scale) = (M - x.scale) + (N - y.scale)
  BY <1>1
<1>5. Pow10[(M - x.scale) + (N - y.scale)] = Pow10[M - x.scale] * Pow10[N - y.scale]
  BY <1>1, Pow10Sum
<1>6. Pow10[M - x.scale] \in Nat /\ Pow10[N - y.scale] \in Nat
  BY <1>1, Pow10Type
<1>7. (x.num * y.num) * (Pow10[M - x.scale] * Pow10[N - y.scale])
        = (x.num * Pow10[M - x.scale]) * (y.num * Pow10[N - y.scale])
  BY <1>1, <1>6
<1> QED BY <1>1, <1>3, <1>4, <1>5, <1>7 DEF Scaled

----------------------------------------------------------------------------
(* The functions of money.ts. *)

\* A Decimal as the code's arithmetic leaves it.
Kept(x) == x \in Decimal /\ x.num <= Pow10[P]

\* The weights of the first digit of a Decimal and of the one before.
LEMMA Digitwise ==
  /\ P \in Nat /\ P - 1 \in Nat /\ Pow10[P] \in Nat \ {0} /\ Pow10[P - 1] \in Nat \ {0}
  /\ Pow10[P] = 10 * Pow10[P - 1]
<1>1. P \in Nat /\ P - 1 \in Nat /\ P = (P - 1) + 1
  BY MoneyAssumption DEF P
<1>2. Pow10[(P - 1) + 1] = 10 * Pow10[P - 1]
  BY <1>1, Pow10Def
<1> QED BY <1>1, <1>2, Pow10Type

\* A product of kept Decimals can be rounded.
LEMMA ProductRoundable ==
  ASSUME NEW x, NEW y, Kept(x), Kept(y)
  PROVE  Roundable(x.num * y.num)
<1>1. x.num \in Nat /\ y.num \in Nat /\ x.num <= Pow10[P] /\ y.num <= Pow10[P]
  BY DEF Kept, Decimal
<1>2. x.num * y.num <= Pow10[P] * Pow10[P]
  <2>1. x.num * y.num <= Pow10[P] * y.num
    BY <1>1, Digitwise, Scaling
  <2>2. y.num * Pow10[P] <= Pow10[P] * Pow10[P]
    BY <1>1, Digitwise, Scaling
  <2>3. y.num * Pow10[P] = Pow10[P] * y.num /\ x.num * y.num \in Int
        /\ Pow10[P] * y.num \in Int /\ Pow10[P] * Pow10[P] \in Int
    BY <1>1, Digitwise
  <2> QED BY <2>1, <2>2, <2>3
<1>3. Pow10[2 * P + 1] = 10 * (Pow10[P] * Pow10[P])
  <2>1. 2 * P + 1 = (P + P) + 1 /\ P + P \in Nat
    BY Digitwise
  <2>2. Pow10[(P + P) + 1] = 10 * Pow10[P + P]
    BY <2>1, Pow10Def
  <2>3. Pow10[P + P] = Pow10[P] * Pow10[P]
    BY Digitwise, Pow10Sum
  <2> QED BY <2>1, <2>2, <2>3
<1>4. Pow10[P] * Pow10[P] \in Nat \ {0} /\ x.num * y.num \in Nat
  BY <1>1, Digitwise
<1> QED BY <1>2, <1>3, <1>4 DEF Roundable

\* A product of the code is the exact one, rounded, and kept.
LEMMA TimesKept ==
  ASSUME NEW x, NEW y, Kept(x), Kept(y)
  PROVE  /\ Kept(Times(x, y)) /\ Times(x, y) = Rounded(Product(x, y))
         /\ Product(x, y) \in Decimal /\ Roundable(Product(x, y).num)
         /\ Times(x, y).scale <= x.scale + y.scale
<1>1. x.num * y.num \in Nat /\ x.scale + y.scale \in Int
  BY DEF Kept, Decimal
<1>2. /\ Product(x, y) \in Decimal /\ Product(x, y).num = x.num * y.num
      /\ Product(x, y).scale = x.scale + y.scale
  BY <1>1, DecType DEF Product
<1>3. Roundable(Product(x, y).num)
  BY <1>2, ProductRoundable
<1>4. Times(x, y) = Rounded(Product(x, y))
  BY DEF Times, Product
<1> QED BY <1>2, <1>3, <1>4, RoundedType DEF Kept

\* A product grows with a factor.
LEMMA TimesMono ==
  ASSUME NEW z, NEW x, NEW y, Kept(z), Kept(x), Kept(y), AtMost(x, y)
  PROVE  AtMost(Times(z, x), Times(z, y))
<1>1. x \in Decimal /\ y \in Decimal /\ z \in Decimal /\ z.scale \in Int
  BY DEF Kept, Decimal
<1>2. PICK M \in Int : x.scale <= M /\ y.scale <= M /\ Scaled(x, M) <= Scaled(y, M)
  BY DEF AtMost
<1>3. /\ Product(z, x).scale <= z.scale + M
      /\ Scaled(Product(z, x), z.scale + M) = Scaled(z, z.scale) * Scaled(x, M)
  BY <1>1, <1>2, ProductScaled
<1>4. /\ Product(z, y).scale <= z.scale + M
      /\ Scaled(Product(z, y), z.scale + M) = Scaled(z, z.scale) * Scaled(y, M)
  BY <1>1, <1>2, ProductScaled
<1>5. Scaled(z, z.scale) \in Nat /\ Scaled(x, M) \in Nat /\ Scaled(y, M) \in Nat
  <2>1. 0 \in Nat /\ z.scale <= z.scale
    BY <1>1
  <2> QED BY <1>1, <1>2, <2>1, ScaledGrows
<1>6. Scaled(z, z.scale) * Scaled(x, M) <= Scaled(z, z.scale) * Scaled(y, M)
  <2>1. Scaled(x, M) * Scaled(z, z.scale) <= Scaled(y, M) * Scaled(z, z.scale)
    BY <1>2, <1>5, Scaling
  <2> QED BY <1>5, <2>1
<1>7. AtMost(Product(z, x), Product(z, y))
  BY <1>1, <1>3, <1>4, <1>6 DEF AtMost
<1> QED BY <1>7, TimesKept, RoundedMono

\* A quotient to P digits, before Rounded: k zeros are given to the dividend.
LEMMA DivCut ==
  ASSUME NEW x \in Decimal, NEW y \in Decimal,
         x.num \in 1..(Pow10[P] - 1), y.num \in 1..(Pow10[P] - 1)
  PROVE  \E k \in Nat :
           LET q == HalfEven(x.num * Pow10[k], y.num) IN
           /\ Pow10[P - 1] * y.num <= x.num * Pow10[k]
           /\ q \in Nat /\ q <= Pow10[P]
           /\ Div(x, y) = Rounded(Dec(q, k + x.scale - y.scale))
<1> DEFINE n == x.num
           d == y.num
           S == {i \in 0..(2 * Precision) : (n * Pow10[i]) \div d >= Pow10[Precision - 1]}
           k == Least(S)
           q == HalfEven(n * Pow10[k], d)
<1>0. n \in Nat \ {0} /\ d \in Nat \ {0} /\ n < Pow10[P] /\ d < Pow10[P]
  BY Digitwise
<1>1. ASSUME NEW i \in Nat
      PROVE  (n * Pow10[i]) \div d >= Pow10[P - 1] <=> Pow10[P - 1] * d <= n * Pow10[i]
  <2>1. n * Pow10[i] \in Nat
    BY <1>0, Pow10Type
  <2>2. Pow10[P - 1] <= (n * Pow10[i]) \div d <=> Pow10[P - 1] * d <= n * Pow10[i]
    BY <1>0, <2>1, Digitwise, WholePart
  <2>3. (n * Pow10[i]) \div d \in Nat
    BY <1>0, <2>1, WholeBounds
  <2> QED BY <2>2, <2>3, Digitwise
<1>2. 2 * P \in S
  <2>1. Pow10[P - 1] * d <= n * Pow10[2 * P]
    <3>1. Pow10[2 * P] = Pow10[P] * Pow10[P]
      <4>1. 2 * P = P + P
        BY Digitwise
      <4>2. Pow10[P + P] = Pow10[P] * Pow10[P]
        BY Digitwise, Pow10Sum
      <4> QED BY <4>1, <4>2
    <3>2. Pow10[P - 1] * d <= Pow10[P] * d /\ d * Pow10[P] <= Pow10[P] * Pow10[P]
      BY <1>0, Digitwise, Scaling
    <3>3. 1 * (Pow10[P] * Pow10[P]) <= n * (Pow10[P] * Pow10[P])
      <4>1. Pow10[P] * Pow10[P] \in Nat
        BY Digitwise
      <4> QED BY <1>0, <4>1, Scaling
    <3>4. /\ Pow10[P - 1] * d \in Int /\ Pow10[P] * d = d * Pow10[P] /\ d * Pow10[P] \in Int
          /\ Pow10[P] * Pow10[P] \in Int /\ n * (Pow10[P] * Pow10[P]) \in Int
      BY <1>0, Digitwise
    <3> QED BY <3>1, <3>2, <3>3, <3>4
  <2>2. 2 * P \in 0..(2 * Precision) /\ 2 * P \in Nat
    BY Digitwise DEF P
  <2> QED BY <1>1, <2>1, <2>2 DEF P
<1>3. k \in S /\ \A m \in S : k <= m
  <2>1. S \in SUBSET Nat
    OBVIOUS
  <2> HIDE DEF S
  <2> QED BY <1>2, <2>1, LeastNatural
<1>4. Div(x, y) = Rounded(Dec(q, k + x.scale - y.scale))
  BY DEF Div
<1> HIDE DEF k
<1>5. k \in 0..(2 * Precision) /\ k \in Nat /\ Pow10[k] \in Nat \ {0}
  BY <1>3, Pow10Type
<1>6. Pow10[P - 1] * d <= n * Pow10[k]
  BY <1>1, <1>3, <1>5 DEF P
<1>7. n * Pow10[k] \in Nat /\ q \in Nat
  <2>1. n * Pow10[k] \in Nat
    BY <1>0, <1>5
  <2> QED BY <1>0, <2>1, HalfEvenNearest
<1>8. CASE k = 0
  <2>1. n * Pow10[k] = n
    BY <1>0, <1>8, Pow10Def
  <2>2. n * 1 <= n * d
    <3>1. 1 * n <= d * n
      BY <1>0, Scaling
    <3> QED BY <1>0, <3>1
  <2>3. HalfEven(n, d) <= n
    BY <1>0, <2>2, HalfEvenMono, HalfEvenWhole
  <2>4. q <= Pow10[P]
    BY <1>0, <1>7, <2>1, <2>3, Digitwise
  <2> QED BY <1>4, <1>5, <1>6, <1>7, <2>4
<1>9. CASE k # 0
  <2>1. k - 1 \in Nat /\ k - 1 \in 0..(2 * Precision)
    BY <1>5, <1>9, Digitwise DEF P
  <2>2. k - 1 \notin S
    <3> HIDE DEF S
    <3> QED BY <1>3, <1>5
  <2>3. ~(Pow10[P - 1] * d <= n * Pow10[k - 1])
    BY <1>1, <2>1, <2>2 DEF P
  <2>4. Pow10[k] = 10 * Pow10[k - 1] /\ Pow10[k - 1] \in Nat
    <3>1. Pow10[(k - 1) + 1] = 10 * Pow10[k - 1] /\ (k - 1) + 1 = k
      BY <1>5, <2>1, Pow10Def
    <3> QED BY <2>1, <3>1, Pow10Type
  <2>5. (n * Pow10[k]) * 1 <= Pow10[P] * d
    <3>1. n * Pow10[k - 1] \in Nat /\ Pow10[P - 1] * d \in Nat
      BY <1>0, <2>4, Digitwise
    <3>2. n * (10 * Pow10[k - 1]) = 10 * (n * Pow10[k - 1])
          /\ (10 * Pow10[P - 1]) * d = 10 * (Pow10[P - 1] * d)
      BY <1>0, <2>4, Digitwise
    <3> QED BY <2>3, <2>4, <3>1, <3>2, Digitwise
  <2>6. q <= Pow10[P]
    BY <1>0, <1>7, <2>5, HalfEvenMono, HalfEvenWhole, Digitwise
  <2> QED BY <1>4, <1>5, <1>6, <1>7, <2>6
<1> QED BY <1>5, <1>8, <1>9

\* Multiplying by a power of ten only moves the point.
LEMMA ShiftScaled ==
  ASSUME NEW x \in Decimal, NEW d \in Nat
  PROVE  /\ Shift(x, d) \in Decimal /\ Shift(x, d).scale = x.scale - d
         /\ \A M \in Int : x.scale <= M => Scaled(Shift(x, d), M) = Scaled(x, M + d)
<1>1. /\ Shift(x, d) \in Decimal /\ Shift(x, d).scale = x.scale - d
      /\ Shift(x, d).num = x.num /\ x.scale \in Int
  BY DEF Shift, Decimal
<1>2. \A M \in Int : M - (x.scale - d) = (M + d) - x.scale
  BY <1>1
<1> QED BY <1>1, <1>2 DEF Scaled

\* An amount of a request is kept exactly.
LEMMA AmountKept ==
  ASSUME NEW n \in Nat, n <= MaxAmount, NEW c \in Currencies
  PROVE  /\ Kept(FromSubunits(n, c)) /\ FromSubunits(n, c).scale <= Digits[c]
         /\ Scaled(FromSubunits(n, c), Digits[c]) = n
<1>1. n <= Pow10[P] /\ Digits[c] \in Nat
  BY MoneyAssumption, Digitwise DEF P
<1>2. Dec(n, Digits[c]) \in Decimal /\ Dec(n, Digits[c]).num = n
      /\ Dec(n, Digits[c]).scale = Digits[c]
  BY <1>1, DecType
<1>3. /\ Roundable(Dec(n, Digits[c]).num)
      /\ Scaled(Rounded(Dec(n, Digits[c])), Digits[c]) = Scaled(Dec(n, Digits[c]), Digits[c])
  BY <1>1, <1>2, RoundedExact
<1>4. Scaled(Dec(n, Digits[c]), Digits[c]) = n
  <2>1. Digits[c] - Digits[c] = 0 /\ n * 1 = n
    BY <1>1
  <2> QED BY <1>2, <2>1, Pow10Def DEF Scaled
<1> QED BY <1>2, <1>3, <1>4, RoundedType DEF Kept, FromSubunits

\* What an amount converts to is a natural, and grows with the rate.
LEMMA ConvertType ==
  ASSUME NEW n \in Nat, n <= MaxAmount, NEW f \in Currencies, NEW t \in Currencies,
         NEW r, Kept(r)
  PROVE  ConvertSubunits(n, f, t, r) \in Nat
<1>1. Times(FromSubunits(n, f), r) \in Decimal /\ Digits[t] \in Nat
  <2>1. Kept(Times(FromSubunits(n, f), r))
    BY AmountKept, TimesKept
  <2>2. Digits[t] \in Nat
    BY MoneyAssumption
  <2> QED BY <2>1, <2>2 DEF Kept
<1> DEFINE x == Shift(Times(FromSubunits(n, f), r), Digits[t])
<1>2. x \in Decimal
  BY <1>1, ShiftScaled
<1> HIDE DEF x
<1>3. PICK M \in Nat : x.scale <= M
  <2> DEFINE N == IF x.scale <= 0 THEN 0 ELSE x.scale
  <2>1. N \in Nat /\ x.scale <= N
    BY <1>2 DEF Decimal
  <2> QED BY <2>1
<1>4. Floor(x) \in Nat
  BY <1>2, <1>3, FloorWhole
<1> QED BY <1>4 DEF ConvertSubunits, ToSubunits, x

\* A better rate never pays less.
LEMMA ConvertMono ==
  ASSUME NEW n \in Nat, n <= MaxAmount, NEW f \in Currencies, NEW t \in Currencies,
         NEW r, NEW q, Kept(r), Kept(q), AtMost(r, q)
  PROVE  ConvertSubunits(n, f, t, r) <= ConvertSubunits(n, f, t, q)
<1> DEFINE x == Times(FromSubunits(n, f), r)
           y == Times(FromSubunits(n, f), q)
           d == Digits[t]
<1>1. x \in Decimal /\ y \in Decimal /\ AtMost(x, y) /\ d \in Nat
  <2>1. Kept(x) /\ Kept(y) /\ AtMost(x, y)
    BY AmountKept, TimesKept, TimesMono
  <2>2. d \in Nat
    BY MoneyAssumption
  <2> QED BY <2>1, <2>2 DEF Kept
<1> HIDE DEF x, y, d
<1>2. AtMost(Shift(x, d), Shift(y, d))
  <2>1. PICK M \in Int : x.scale <= M /\ y.scale <= M /\ Scaled(x, M) <= Scaled(y, M)
    BY <1>1 DEF AtMost
  <2>2. Scaled(x, M + d) <= Scaled(y, M + d) /\ x.scale - d <= M /\ y.scale - d <= M
    <3>1. x.scale \in Int /\ y.scale \in Int /\ M + d \in Int
      BY <1>1 DEF Decimal
    <3>2. x.scale <= M + d /\ y.scale <= M + d
      BY <1>1, <2>1, <3>1
    <3>3. Scaled(x, M + d) <= Scaled(y, M + d)
      BY <1>1, <3>1, <3>2, AtMostAtAny
    <3> QED BY <1>1, <2>1, <3>1, <3>3
  <2>3. /\ Scaled(Shift(x, d), M) = Scaled(x, M + d) /\ Shift(x, d).scale = x.scale - d
        /\ Scaled(Shift(y, d), M) = Scaled(y, M + d) /\ Shift(y, d).scale = y.scale - d
    BY <1>1, <2>1, ShiftScaled
  <2> QED BY <2>2, <2>3 DEF AtMost
<1>3. Floor(Shift(x, d)) <= Floor(Shift(y, d))
  BY <1>1, <1>2, ShiftScaled, FloorMono
<1> QED BY <1>3 DEF ConvertSubunits, ToSubunits, x, y, d

\* The factor 1 - half of a spread is kept, and is at most 1.
LEMMA SpreadKept ==
  LET s == Rounded(Dec((20000 - SpreadBps) * 5, 5)) IN Kept(s) /\ AtMost(s, Dec(1, 0))
<1> DEFINE n == (20000 - SpreadBps) * 5
           s == Rounded(Dec(n, 5))
<1>1. n \in Nat /\ n <= 100000
  <2>1. SpreadBps \in 0..19999
    BY MoneyAssumption
  <2> QED BY <2>1
<1>2. Pow10[5] = 100000
  <2>1. /\ Pow10[0 + 1] = 10 * Pow10[0] /\ Pow10[1 + 1] = 10 * Pow10[1]
        /\ Pow10[2 + 1] = 10 * Pow10[2] /\ Pow10[3 + 1] = 10 * Pow10[3]
        /\ Pow10[4 + 1] = 10 * Pow10[4] /\ Pow10[0] = 1
    BY Pow10Def
  <2> QED BY <2>1
<1> HIDE DEF n
<1>3. Dec(n, 5) \in Decimal /\ Dec(n, 5).num = n /\ Dec(n, 5).scale = 5
  BY <1>1, DecType
<1>4. Roundable(Dec(n, 5).num)
  <2>1. Pow10[6] = 10 * Pow10[5] /\ Pow10[6] <= Pow10[2 * P + 1]
    <3>1. 6 <= 2 * P + 1 /\ 2 * P + 1 \in Nat
      BY MoneyAssumption DEF P
    <3>2. Pow10[5 + 1] = 10 * Pow10[5]
      BY Pow10Def
    <3> QED BY <3>1, <3>2, Pow10Mono
  <2>2. Pow10[2 * P + 1] \in Nat
    <3>1. 2 * P + 1 \in Nat
      BY Digitwise
    <3> QED BY <3>1, Pow10Type
  <2> QED BY <1>1, <1>2, <1>3, <2>1, <2>2 DEF Roundable
<1>5. Kept(s)
  BY <1>3, <1>4, RoundedType DEF Kept
<1>6. Dec(1, 0) \in Decimal /\ Dec(1, 0).num = 1 /\ Dec(1, 0).scale = 0
  BY DecType
<1>7. AtMost(Dec(n, 5), Dec(1, 0))
  <2>1. Scaled(Dec(n, 5), 5) = n /\ Scaled(Dec(1, 0), 5) = 100000
    <3>1. 5 - 5 = 0 /\ 5 - 0 = 5
      OBVIOUS
    <3> QED BY <1>1, <1>2, <1>3, <1>6, <3>1, Pow10Def DEF Scaled
  <2>2. 5 \in Int /\ 5 <= 5 /\ 0 <= 5
    OBVIOUS
  <2> QED BY <1>1, <1>3, <1>6, <2>1, <2>2 DEF AtMost
<1>8. 1 <= Pow10[P] /\ 0 \in Int /\ 0 <= 0
  BY Digitwise
<1>9. Roundable(Dec(1, 0).num) /\ Scaled(Rounded(Dec(1, 0)), 0) = Scaled(Dec(1, 0), 0)
  BY <1>6, <1>8, RoundedExact
<1>10. Rounded(Dec(1, 0)) \in Decimal /\ Rounded(Dec(1, 0)).scale <= 0
  BY <1>6, <1>9, RoundedType
<1>11. Scaled(Dec(1, 0), 0) \in Nat
  <2>1. 0 \in Nat
    OBVIOUS
  <2> QED BY <1>6, <1>8, <2>1, ScaledGrows
<1>12. AtMost(Rounded(Dec(1, 0)), Dec(1, 0))
  BY <1>6, <1>8, <1>9, <1>10, <1>11 DEF AtMost
<1>13. AtMost(s, Rounded(Dec(1, 0)))
  BY <1>3, <1>4, <1>6, <1>7, <1>9, RoundedMono
<1> HIDE DEF s
<1>14. AtMost(s, Dec(1, 0))
  BY <1>5, <1>6, <1>10, <1>12, <1>13, AtMostTransitive DEF Kept
<1> QED BY <1>5, <1>14 DEF s, n

\* The house's bid is never above the mid rate.
LEMMA BidBelowMid ==
  ASSUME NEW mid, Kept(mid)
  PROVE  Kept(ApplySpread(mid).bid) /\ AtMost(ApplySpread(mid).bid, mid)
<1> DEFINE s == Rounded(Dec((20000 - SpreadBps) * 5, 5))
           one == Dec(1, 0)
           m == Rounded(mid)
<1>1. Kept(s) /\ AtMost(s, one)
  BY SpreadKept
<1>2. ApplySpread(mid).bid = Times(mid, s)
  BY DEF ApplySpread
<1>3. mid \in Decimal /\ mid.scale \in Int /\ mid.num \in Nat /\ mid = Dec(mid.num, mid.scale)
  BY DEF Kept, Decimal, Dec
<1>4. Kept(one) /\ one.num = 1 /\ one.scale = 0
  BY DecType, Digitwise DEF Kept
<1>5. Times(mid, one) = m
  <2>1. mid.num * one.num = mid.num /\ mid.scale + one.scale = mid.scale
    BY <1>3, <1>4
  <2> QED BY <1>3, <2>1 DEF Times
<1>6. Roundable(mid.num) /\ Scaled(m, mid.scale) = Scaled(mid, mid.scale)
  BY <1>3, RoundedExact DEF Kept
<1>7. m \in Decimal /\ m.scale <= mid.scale
  BY <1>3, <1>6, RoundedType
<1> HIDE DEF s, one, m
<1>8. AtMost(Times(mid, s), m)
  BY <1>1, <1>4, <1>5, TimesMono
<1>9. AtMost(m, mid)
  <2>1. Scaled(mid, mid.scale) \in Nat
    <3>1. 0 \in Nat /\ mid.scale <= mid.scale
      BY <1>3
    <3> QED BY <1>3, <3>1, ScaledGrows
  <2> QED BY <1>3, <1>6, <1>7, <2>1 DEF AtMost
<1>10. Kept(Times(mid, s))
  BY <1>1, TimesKept
<1> QED BY <1>2, <1>3, <1>7, <1>8, <1>9, <1>10, AtMostTransitive DEF Kept

\* What the provider may send for a currency that can be quoted.
LEMMA RateFacts ==
  ASSUME rates \in RateTables, NEW c \in Currencies, ParseRate(rates[c])
  PROVE  /\ rates[c] \in Decimal /\ rates[c].num \in 1..(Pow10[P] - 1)
         /\ rates[c].scale \in Nat
<1>1. /\ rates[c] = Dec(rates[c].num, rates[c].scale) /\ rates[c].num \in Nat
      /\ rates[c].scale \in Nat /\ rates[c].num < Pow10[P] /\ rates[c].num > 0
  BY MoneyAssumption DEF P, ParseRate
<1>2. rates[c] \in Decimal
  BY <1>1, DecType
<1> QED BY <1>1, <1>2, Digitwise

\* The mid rate of two such currencies.
LEMMA MidKept ==
  ASSUME rates \in RateTables, NEW f \in Currencies, NEW t \in Currencies, Quotable(f, t)
  PROVE  Kept(Mid(f, t))
<1> DEFINE x == rates[t]
           y == rates[f]
<1>1. /\ x \in Decimal /\ y \in Decimal /\ x.scale \in Int /\ y.scale \in Int
      /\ x.num \in 1..(Pow10[P] - 1) /\ y.num \in 1..(Pow10[P] - 1)
  BY RateFacts DEF Quotable
<1> HIDE DEF x, y
<1>2. PICK k \in Nat :
        LET q == HalfEven(x.num * Pow10[k], y.num) IN
        /\ q \in Nat /\ q <= Pow10[P]
        /\ Div(x, y) = Rounded(Dec(q, k + x.scale - y.scale))
  BY <1>1, DivCut
<1> DEFINE q == HalfEven(x.num * Pow10[k], y.num)
           s == k + x.scale - y.scale
<1>3. q \in Nat /\ q <= Pow10[P] /\ Div(x, y) = Rounded(Dec(q, s)) /\ s \in Int
  BY <1>1, <1>2
<1> HIDE DEF q, s
<1>4. Dec(q, s) \in Decimal /\ Dec(q, s).num = q /\ Dec(q, s).scale = s
  BY <1>3, DecType
<1>5. Roundable(Dec(q, s).num)
  BY <1>3, <1>4, RoundedExact
<1> QED BY <1>3, <1>4, <1>5, RoundedType DEF Kept, Mid, CrossRate, x, y

----------------------------------------------------------------------------
(* The user's balances and payments. *)

\* What one operation of the user does.
Operates(by, f, t, n) ==
  /\ f \in Currencies /\ t \in Currencies /\ n \in Nat /\ n <= held[f] /\ n <= MaxAmount
  /\ n # 0 /\ Quotable(f, t)
  /\ \/ by = "convert" /\ Book("convert", f, t, n, ConvertSubunits(n, f, t, Mid(f, t)))
     \/ by = "quote"
          /\ Book("quote", f, t, n, ConvertSubunits(n, f, t, ApplySpread(Mid(f, t)).bid))

\* Every step of Money is an operation of the user.
LEMMA StepOperates ==
  ASSUME TypeOK, Next
  PROVE  \E by, f, t, n : Operates(by, f, t, n)
<1>1. PICK f \in Currencies, t \in Currencies : \E n \in 1..held[f] :
        n <= MaxAmount /\ (ConvertFunds(f, t, n) \/ CreateQuote(f, t, n))
  BY DEF Next
<1>2. PICK n \in 1..held[f] :
        n <= MaxAmount /\ (ConvertFunds(f, t, n) \/ CreateQuote(f, t, n))
  BY <1>1
<1>3. held[f] \in Nat
  BY DEF TypeOK
<1>4. n \in Nat /\ n # 0 /\ n <= held[f]
  BY <1>2, <1>3
<1>5. CASE ConvertFunds(f, t, n)
  <2>1. Operates("convert", f, t, n)
    BY <1>2, <1>4, <1>5 DEF Operates, ConvertFunds
  <2> QED BY <2>1
<1>6. CASE CreateQuote(f, t, n)
  <2>1. Operates("quote", f, t, n)
    BY <1>2, <1>4, <1>6 DEF Operates, CreateQuote
  <2> QED BY <2>1
<1> QED BY <1>2, <1>5, <1>6

\* The rate an operation is booked at.
RateOf(by, f, t) == IF by = "convert" THEN Mid(f, t) ELSE ApplySpread(Mid(f, t)).bid

\* What a booking leaves behind.
LEMMA Booked ==
  ASSUME TypeOK, NEW by, NEW f, NEW t, NEW n, Operates(by, f, t, n)
  PROVE  LET m == ConvertSubunits(n, f, t, RateOf(by, f, t)) IN
         /\ m \in Nat /\ m # 0 /\ m <= ConvertSubunits(n, f, t, Mid(f, t))
         /\ held' = [held EXCEPT ![f] = @ - n, ![t] = @ + m]
         /\ last' = [by |-> by, from |-> f, to |-> t, in |-> n, out |-> m]
         /\ rates' = rates
<1> DEFINE r == RateOf(by, f, t)
           m == ConvertSubunits(n, f, t, r)
           w == ConvertSubunits(n, f, t, Mid(f, t))
<1>1. /\ f \in Currencies /\ t \in Currencies /\ n \in Nat /\ n <= MaxAmount
      /\ Quotable(f, t) /\ Book(by, f, t, n, m)
  BY DEF Operates, RateOf
<1>2. Kept(Mid(f, t))
  BY <1>1, MidKept DEF TypeOK
<1>3. Kept(r) /\ (r = Mid(f, t) \/ AtMost(r, Mid(f, t)))
  BY <1>2, BidBelowMid DEF RateOf
<1> HIDE DEF r
<1>4. m \in Nat /\ w \in Nat
  BY <1>1, <1>2, <1>3, ConvertType
<1>5. m <= w
  BY <1>1, <1>2, <1>3, <1>4, ConvertMono
<1> QED BY <1>1, <1>4, <1>5 DEF Book, r

\* Every operation keeps the types, and pays out something.
LEMMA TypeStep ==
  ASSUME TypeOK, [Next]_vars
  PROVE  TypeOK'
<1>1. CASE UNCHANGED vars
  BY <1>1 DEF TypeOK, vars
<1>2. CASE Next
  <2>1. PICK by, f, t, n : Operates(by, f, t, n)
    BY <1>2, StepOperates
  <2> DEFINE m == ConvertSubunits(n, f, t, RateOf(by, f, t))
  <2>2. /\ m \in Nat /\ m # 0
        /\ held' = [held EXCEPT ![f] = @ - n, ![t] = @ + m]
        /\ last' = [by |-> by, from |-> f, to |-> t, in |-> n, out |-> m]
        /\ rates' = rates
    BY <2>1, Booked
  <2> HIDE DEF m
  <2>3. /\ f \in Currencies /\ t \in Currencies /\ f # t
        /\ n \in Nat \ {0} /\ n <= held[f]
    BY <2>1 DEF Operates, Quotable
  <2>4. held' \in [Currencies -> Nat]
    BY <2>2, <2>3 DEF TypeOK
  <2>5. last'.in = n /\ last'.out = m
    BY <2>2
  <2> QED BY <2>2, <2>3, <2>4, <2>5 DEF TypeOK
<1> QED BY <1>1, <1>2

\* Every operation keeps a quote below a conversion.
LEMMA QuoteStep ==
  ASSUME TypeOK, QuotePaysNoMore, [Next]_vars
  PROVE  QuotePaysNoMore'
<1>1. CASE UNCHANGED vars
  <2>1. rates' = rates /\ last' = last
    BY <1>1 DEF vars
  <2> QED BY <2>1 DEF QuotePaysNoMore, Mid
<1>2. CASE Next
  <2>1. PICK by, f, t, n : Operates(by, f, t, n)
    BY <1>2, StepOperates
  <2> DEFINE m == ConvertSubunits(n, f, t, RateOf(by, f, t))
  <2>2. /\ m <= ConvertSubunits(n, f, t, Mid(f, t))
        /\ last' = [by |-> by, from |-> f, to |-> t, in |-> n, out |-> m]
        /\ rates' = rates
    BY <2>1, Booked
  <2> HIDE DEF m
  <2>3. last'.in = n /\ last'.out = m /\ last'.from = f /\ last'.to = t
    BY <2>2
  <2> QED BY <2>2, <2>3 DEF QuotePaysNoMore, Mid
<1> QED BY <1>1, <1>2

\* The user starts with balances, and with nothing booked.
LEMMA InitFacts == Init => TypeOK /\ QuotePaysNoMore
BY MoneyAssumption DEF Init, TypeOK, QuotePaysNoMore, Nothing

\* Balances stay natural numbers and neither leg of an operation is ever zero, for any
\* rates of fewer digits than a Decimal keeps.
THEOREM TypeCorrect == Spec => []TypeOK
<1>1. TypeOK /\ [Next]_vars => TypeOK'
  BY TypeStep
<1> QED BY <1>1, InitFacts, PTL DEF Spec

\* A quote never pays more than a conversion at the same rates would, for any spread,
\* amounts and rates: every rounding on the way keeps the order of its inputs.
THEOREM QuotesPayNoMore == Spec => []QuotePaysNoMore
<1>1. TypeOK /\ QuotePaysNoMore /\ [Next]_vars => QuotePaysNoMore'
  BY QuoteStep
<1> QED BY <1>1, InitFacts, TypeCorrect, PTL DEF Spec

----------------------------------------------------------------------------
(* How far the roundings may miss. *)

\* u misses w by at most c parts in W; a single rounding misses by one part.
W == 2 * Pow10[P - 1]
Near(u, w, c) == W * u <= (W + c) * w /\ (W - c) * w <= W * u

\* With three digits or more W is at least 200.
LEMMA WFacts == W \in Nat /\ W >= 200
<1>1. Pow10[2] = 100 /\ Pow10[2] <= Pow10[P - 1]
  <2>1. Pow10[0 + 1] = 10 * Pow10[0] /\ Pow10[1 + 1] = 10 * Pow10[1] /\ Pow10[0] = 1
    BY Pow10Def
  <2>2. 2 <= P - 1 /\ P - 1 \in Nat
    BY MoneyAssumption DEF P
  <2> QED BY <2>1, <2>2, Pow10Mono
<1> QED BY <1>1, Digitwise DEF W

\* A common factor changes nothing.
LEMMA NearScales ==
  ASSUME NEW u \in Nat, NEW w \in Nat, NEW c \in 1..100, NEW z \in Nat
  PROVE  /\ Near(u, w, c) => Near(u * z, w * z, c)
         /\ Near(u * z, w * z, c) /\ z # 0 => Near(u, w, c)
<1>1. /\ W * (u * z) = (W * u) * z /\ (W + c) * (w * z) = ((W + c) * w) * z
      /\ (W - c) * (w * z) = ((W - c) * w) * z
  BY WFacts
<1>2. W * u \in Int /\ (W + c) * w \in Int /\ (W - c) * w \in Int
  BY WFacts
<1> QED BY <1>1, <1>2, Scaling DEF Near

\* One more rounding adds its part, and one for the product of the misses.
LEMMA NearChains ==
  ASSUME NEW u \in Nat, NEW v \in Nat, NEW w \in Nat, NEW c \in 1..100,
         Near(u, v, 1), Near(v, w, c)
  PROVE  Near(u, w, c + 2)
<1> HIDE DEF W
<1> USE WFacts
<1>1. W * u \in Int /\ W * v \in Int /\ W * w \in Nat /\ c * w \in Nat /\ v \in Int
  OBVIOUS
<1>2. W * u <= W * v + v /\ W * v - v <= W * u
  <2>1. (W + 1) * v = W * v + v /\ (W - 1) * v = W * v - v
    OBVIOUS
  <2> QED BY <2>1 DEF Near
<1>3. W * v <= W * w + c * w /\ W * w - c * w <= W * v
  <2>1. (W + c) * w = W * w + c * w /\ (W - c) * w = W * w - c * w
    OBVIOUS
  <2> QED BY <2>1 DEF Near
\* v itself is at most w and a bit: v <= 2 * w.
<1>4. v <= 2 * w
  <2>1. c * w <= W * w
    BY Scaling
  <2>2. v * W <= (2 * w) * W
    <3>1. (2 * w) * W = 2 * (W * w) /\ v * W = W * v
      OBVIOUS
    <3> QED BY <1>1, <1>3, <2>1, <3>1
  <2> QED BY <2>2, Scaling
<1>5. (c + 2) * w = c * w + 2 * w
  OBVIOUS
<1>6. (W + (c + 2)) * w = W * w + (c + 2) * w /\ (W - (c + 2)) * w = W * w - (c + 2) * w
  OBVIOUS
<1> QED BY <1>1, <1>2, <1>3, <1>4, <1>5, <1>6 DEF Near

\* A nearest integer h to n / d misses by one part when d is at most a W-th of 2 * n.
LEMMA NearestIsNear ==
  ASSUME NEW n \in Nat, NEW d \in Nat \ {0}, Pow10[P - 1] * d <= n
  PROVE  Near(HalfEven(n, d) * d, n, 1)
<1> DEFINE q == HalfEven(n, d)
           h == q * d
           A == Pow10[P - 1]
<1>1. q \in Nat /\ 2 * h <= 2 * n + d /\ 2 * n <= 2 * h + d
  BY HalfEvenNearest
<1>2. A \in Nat /\ W = 2 * A /\ A * d <= n
  BY Digitwise DEF W
<1> HIDE DEF q, A
<1>3. h \in Nat
  BY <1>1
<1> HIDE DEF h
<1>4. A * (2 * h) <= A * (2 * n + d) /\ A * (2 * n) <= A * (2 * h + d)
  <2>1. (2 * h) * A <= (2 * n + d) * A /\ (2 * n) * A <= (2 * h + d) * A
    BY <1>1, <1>2, <1>3, Scaling
  <2> QED BY <1>2, <1>3, <2>1
<1>5. /\ A * (2 * h) = W * h /\ A * (2 * n) = W * n
      /\ A * (2 * n + d) = W * n + A * d /\ A * (2 * h + d) = W * h + A * d
  BY <1>2, <1>3
<1>6. (W + 1) * n = W * n + n /\ (W - 1) * n = W * n - n
      /\ W * n \in Int /\ W * h \in Int /\ A * d \in Int
  BY <1>2, <1>3
<1>7. W * h <= W * n + n /\ W * n - n <= W * h
  <2>1. W * h <= W * n + A * d /\ W * n <= W * h + A * d
    BY <1>4, <1>5
  <2> HIDE DEF W
  <2> QED BY ONLY <1>2, <1>6, <2>1, n \in Nat
<1> QED BY <1>6, <1>7 DEF Near, h, q

\* Rounded misses by one part.
LEMMA RoundedNear ==
  ASSUME NEW x \in Decimal, Roundable(x.num), NEW M \in Int, x.scale <= M
  PROVE  Near(Scaled(Rounded(x), M), Scaled(x, M), 1)
<1> DEFINE n == x.num
<1>0. x = Dec(n, x.scale) /\ n \in Nat /\ x.scale \in Int /\ M - x.scale \in Nat
  BY DEF Decimal, Dec
<1>1. PICK k \in Nat : /\ IsCut(n, k)
                       /\ Rounded(x) = Dec(HalfEven(n, Pow10[k]), x.scale - k)
  BY <1>0, RoundedCut
<1> DEFINE h == HalfEven(n, Pow10[k])
           z == Pow10[M - x.scale]
<1>2. Pow10[k] \in Nat \ {0} /\ z \in Nat \ {0} /\ h \in Nat
  BY <1>0, <1>1, Pow10Type, HalfEvenNearest
<1>3. Scaled(x, M) = n * z
  BY DEF Scaled
<1>4. Scaled(Rounded(x), M) = (h * Pow10[k]) * z
  <2>1. M - (x.scale - k) = k + (M - x.scale)
    BY <1>0
  <2>2. Pow10[k + (M - x.scale)] = Pow10[k] * z
    BY <1>0, Pow10Sum
  <2>3. h * (Pow10[k] * z) = (h * Pow10[k]) * z
    BY <1>2
  <2>4. Rounded(x).num = h /\ Rounded(x).scale = x.scale - k
    BY <1>1 DEF Dec
  <2> HIDE DEF h, z
  <2> QED BY <2>1, <2>2, <2>3, <2>4 DEF Scaled
<1>5. Near(h * Pow10[k], n, 1)
  <2>1. CASE k = 0
    <3>1. h = n /\ Pow10[k] = 1 /\ h * Pow10[k] = n
      BY <1>0, <2>1, HalfEvenWhole, Pow10Def
    <3>2. W * n <= (W + 1) * n /\ (W - 1) * n <= W * n
      BY <1>0, WFacts
    <3> QED BY <3>1, <3>2 DEF Near
  <2>2. CASE k # 0
    <3>1. Pow10[P - 1] * Pow10[k] <= n
      BY <1>0, <1>1, <2>2, CutDigits
    <3> QED BY <1>0, <1>2, <3>1, NearestIsNear
  <2> QED BY <2>1, <2>2
<1> HIDE DEF h, z
<1>6. h * Pow10[k] \in Nat
  BY <1>2
<1>7. Near((h * Pow10[k]) * z, n * z, 1)
  <2> DEFINE v == h * Pow10[k]
  <2>1. v \in Nat /\ n \in Nat /\ z \in Nat /\ 1 \in 1..100 /\ Near(v, n, 1)
    BY <1>0, <1>2, <1>5, <1>6
  <2> HIDE DEF v, n
  <2>2. Near(v * z, n * z, 1)
    BY <2>1, NearScales
  <2> QED BY <2>2 DEF v
<1> QED BY <1>3, <1>4, <1>7

\* The mid rate misses the quotient of the two rates by three parts.
LEMMA MidNear ==
  ASSUME rates \in RateTables, NEW f \in Currencies, NEW t \in Currencies, Quotable(f, t)
  PROVE  \E k \in Nat :
           LET M == k + rates[t].scale IN
           /\ Mid(f, t).scale <= M
           /\ Near(Scaled(Mid(f, t), M) * rates[f].num,
                   rates[t].num * (Pow10[k] * Pow10[rates[f].scale]), 3)
<1> DEFINE x == rates[t]
           y == rates[f]
<1>1. /\ x \in Decimal /\ y \in Decimal /\ x.scale \in Nat /\ y.scale \in Nat
      /\ x.num \in 1..(Pow10[P] - 1) /\ y.num \in 1..(Pow10[P] - 1)
  BY RateFacts DEF Quotable
<1>2. Mid(f, t) = Div(x, y)
  BY DEF Mid, CrossRate
<1> HIDE DEF x, y
<1>3. PICK k \in Nat :
        LET q == HalfEven(x.num * Pow10[k], y.num) IN
        /\ Pow10[P - 1] * y.num <= x.num * Pow10[k]
        /\ q \in Nat /\ q <= Pow10[P]
        /\ Div(x, y) = Rounded(Dec(q, k + x.scale - y.scale))
  BY <1>1, DivCut
<1> DEFINE q == HalfEven(x.num * Pow10[k], y.num)
           s == k + x.scale - y.scale
           M == k + x.scale
           z == Pow10[y.scale]
           K == Pow10[k]
<1>4. /\ q \in Nat /\ q <= Pow10[P] /\ Div(x, y) = Rounded(Dec(q, s)) /\ s \in Int
      /\ Pow10[P - 1] * y.num <= x.num * K
  BY <1>1, <1>3
<1>5. M \in Int /\ s <= M /\ M - s = y.scale
  BY <1>1
<1>6. x.num \in Nat \ {0} /\ y.num \in Nat \ {0} /\ z \in Nat /\ K \in Nat
  BY <1>1, Digitwise, Pow10Type
<1>7. Near(q * y.num, x.num * K, 1)
  <2>1. x.num * K \in Nat
    BY <1>6
  <2> HIDE DEF K
  <2> QED BY <1>4, <1>6, <2>1, NearestIsNear DEF K
<1> HIDE DEF q, s, M, z, K
<1>8. Dec(q, s) \in Decimal /\ Dec(q, s).num = q /\ Dec(q, s).scale = s
  BY <1>4, DecType
<1>9. Roundable(Dec(q, s).num)
  BY <1>4, <1>5, <1>8, RoundedExact
<1>10. Near(Scaled(Div(x, y), M), q * z, 1)
  <2>1. Scaled(Dec(q, s), M) = q * z
    BY <1>5, <1>8 DEF Scaled, z
  <2>2. Near(Scaled(Rounded(Dec(q, s)), M), Scaled(Dec(q, s), M), 1)
    BY <1>5, <1>8, <1>9, RoundedNear
  <2> QED BY <1>4, <2>1, <2>2
<1>11. Div(x, y) \in Decimal /\ Div(x, y).scale <= M
  <2>1. Rounded(Dec(q, s)) \in Decimal /\ Rounded(Dec(q, s)).scale <= s
    BY <1>8, <1>9, RoundedType
  <2> QED BY <1>4, <1>5, <2>1 DEF Decimal
<1> DEFINE u == Scaled(Div(x, y), M)
<1>12. u \in Nat
  <2>1. 0 \in Nat
    OBVIOUS
  <2> QED BY <1>5, <1>11, <2>1, ScaledGrows
<1> HIDE DEF u
<1>13. Near(u * y.num, (q * z) * y.num, 1)
  <2> DEFINE v == q * z
  <2>1. v \in Nat /\ y.num \in Nat /\ 1 \in 1..100 /\ Near(u, v, 1)
    BY <1>4, <1>6, <1>10 DEF u
  <2> HIDE DEF v
  <2>2. Near(u * y.num, v * y.num, 1)
    BY <1>12, <2>1, NearScales
  <2> QED BY <2>2 DEF v
<1>14. Near((q * z) * y.num, (x.num * K) * z, 1)
  <2>1. Near((q * y.num) * z, (x.num * K) * z, 1)
    <3>1. q * y.num \in Nat /\ x.num * K \in Nat
      BY <1>4, <1>6
    <3> QED BY <1>6, <1>7, <3>1, NearScales
  <2>2. (q * y.num) * z = (q * z) * y.num
    BY <1>4, <1>6
  <2> QED BY <2>1, <2>2
<1>15. Near(u * y.num, (x.num * K) * z, 3)
  <2>1. u * y.num \in Nat /\ (q * z) * y.num \in Nat /\ (x.num * K) * z \in Nat
    BY <1>4, <1>6, <1>12
  <2>2. Near(u * y.num, (x.num * K) * z, 1 + 2)
    BY <1>13, <1>14, <2>1, NearChains
  <2> QED BY <2>2
<1>16. (x.num * K) * z = x.num * (K * z)
  BY <1>6
<1> QED BY <1>2, <1>11, <1>15, <1>16 DEF u, M, K, z, x, y

\* The amount at the mid rate, before it is floored, misses its worth by five parts.
LEMMA WorthNear ==
  ASSUME rates \in RateTables, NEW f \in Currencies, NEW t \in Currencies, Quotable(f, t),
         NEW n \in Nat, n <= MaxAmount
  PROVE  \E k \in Nat :
           LET M == Digits[f] + (k + rates[t].scale)
               y == Times(FromSubunits(n, f), Mid(f, t))
           IN
           /\ y \in Decimal /\ y.scale <= M
           /\ Near(Scaled(y, M) * rates[f].num,
                   (n * rates[t].num) * (Pow10[k] * Pow10[rates[f].scale]), 5)
<1> DEFINE a == FromSubunits(n, f)
           mid == Mid(f, t)
           F == rates[f].num
           T == rates[t].num
           S == Pow10[rates[f].scale]
<1>1. F \in Nat /\ T \in Nat /\ S \in Nat /\ rates[t].scale \in Nat /\ Digits[f] \in Nat
  <2>1. /\ F \in 1..(Pow10[P] - 1) /\ rates[f].scale \in Nat
        /\ T \in 1..(Pow10[P] - 1) /\ rates[t].scale \in Nat
    BY RateFacts DEF Quotable
  <2> HIDE DEF F, T
  <2>2. F \in Nat /\ T \in Nat
    BY <2>1
  <2>3. S \in Nat
    BY <2>1, Pow10Type
  <2> QED BY <2>1, <2>2, <2>3, MoneyAssumption
<1>2. PICK k \in Nat : LET M == k + rates[t].scale IN
                       mid.scale <= M /\ Near(Scaled(mid, M) * F, T * (Pow10[k] * S), 3)
  BY MidNear
<1> DEFINE N == k + rates[t].scale
           L == Digits[f]
           y == Times(a, mid)
           r == Scaled(mid, N)
           u == Scaled(y, L + N)
           v == T * (Pow10[k] * S)
<1>3. N \in Int /\ L \in Int /\ mid.scale <= N /\ Near(r * F, v, 3)
  BY <1>1, <1>2
<1>4. Kept(a) /\ a.scale <= L /\ Scaled(a, L) = n
  BY AmountKept
<1>5. Kept(mid)
  BY MidKept
<1>6. v \in Nat
  BY <1>1, Pow10Type
<1> HIDE DEF a, mid, y, N, L, v
<1>7. /\ y \in Decimal /\ y = Rounded(Product(a, mid))
      /\ Roundable(Product(a, mid).num) /\ y.scale <= a.scale + mid.scale
  BY <1>4, <1>5, TimesKept DEF Kept, y
<1>8. a \in Decimal /\ mid \in Decimal
  BY <1>4, <1>5 DEF Kept
<1>9. /\ Product(a, mid) \in Decimal /\ Product(a, mid).scale <= L + N
      /\ Scaled(Product(a, mid), L + N) = n * r
  BY <1>3, <1>4, <1>8, ProductScaled
<1>10. r \in Nat
  <2>1. 0 \in Nat
    OBVIOUS
  <2> QED BY <1>3, <1>8, <2>1, ScaledGrows
<1>11. y.scale <= L + N /\ L + N \in Int
  <2>1. y.scale \in Int /\ a.scale \in Int /\ mid.scale \in Int
    BY <1>7, <1>8 DEF Decimal
  <2> QED BY <1>3, <1>4, <1>7, <2>1
<1>12. u \in Nat
  <2>1. 0 \in Nat
    OBVIOUS
  <2> QED BY <1>7, <1>11, <2>1, ScaledGrows
<1> HIDE DEF r, F
<1>13. Near(u, n * r, 1)
  BY <1>7, <1>9, <1>11, RoundedNear
<1> HIDE DEF u
<1>14. n * r \in Nat /\ r * F \in Nat /\ u * F \in Nat /\ (n * r) * F \in Nat /\ v * n \in Nat
       /\ 1 \in 1..100 /\ 3 \in 1..100 /\ F \in Nat
  BY <1>1, <1>6, <1>10, <1>12 DEF F
<1>15. Near(u * F, (n * r) * F, 1)
  <2> DEFINE w == n * r
  <2>1. w \in Nat /\ Near(u, w, 1)
    BY <1>13, <1>14
  <2> HIDE DEF w
  <2>2. Near(u * F, w * F, 1)
    BY <1>12, <1>14, <2>1, NearScales
  <2> QED BY <2>2 DEF w
<1>16. Near((n * r) * F, v * n, 3)
  <2> DEFINE w == r * F
  <2>1. w \in Nat /\ Near(w, v, 3)
    BY <1>3, <1>14
  <2>2. (n * r) * F = w * n
    BY <1>10, <1>14
  <2> HIDE DEF w
  <2>3. Near(w * n, v * n, 3)
    BY <1>6, <1>14, <2>1, NearScales
  <2> QED BY <2>2, <2>3
<1>17. Near(u * F, v * n, 5)
  <2>1. Near(u * F, v * n, 3 + 2)
    BY <1>14, <1>15, <1>16, NearChains
  <2> QED BY <2>1
<1>18. v * n = (n * T) * (Pow10[k] * S)
  <2>1. Pow10[k] \in Nat
    BY Pow10Type
  <2> HIDE DEF T, S
  <2> QED BY <1>1, <2>1 DEF v, T, S
<1> QED BY <1>7, <1>11, <1>17, <1>18 DEF F, T, S, u, N, L, a, mid, y

\* From that worth, at one scale, to what is booked, at another: D, G, K and S are powers
\* of ten, F the rate divided by, N / F what the amount is worth.
LEMMA FloorNear ==
  ASSUME NEW m \in Nat, NEW z \in Nat, NEW D \in Nat \ {0}, NEW K \in Nat \ {0},
         NEW G \in Nat, NEW F \in Nat \ {0}, NEW S \in Nat, NEW N \in Nat,
         m * (G * K) <= z * D, z * D < (m + 1) * (G * K),
         Near(z * F, N * (K * S), 5)
  PROVE  /\ W * (m * (F * G)) <= (W + 5) * (N * (S * D))
         /\ (W - 5) * (N * (S * D)) < W * ((m + 1) * (F * G))
<1> USE WFacts
<1> HIDE DEF W
<1>1. /\ W * (z * F) <= (W + 5) * (N * (K * S))
      /\ (W - 5) * (N * (K * S)) <= W * (z * F)
  BY DEF Near
<1> DEFINE lo == W * (m * (F * G))
           hi == W * ((m + 1) * (F * G))
           up == (W + 5) * (N * (S * D))
           dn == (W - 5) * (N * (S * D))
           at == W * (z * F)
<1>2. lo \in Int /\ hi \in Int /\ up \in Int /\ dn \in Int /\ at \in Int /\ W * F \in Nat \ {0}
  BY WFacts
<1>3. lo * K <= at * D /\ at * D < hi * K
  <2>1. m * (G * K) \in Int /\ z * D \in Int /\ (m + 1) * (G * K) \in Int
    OBVIOUS
  <2> DEFINE i == m * (G * K)
             j == z * D
             l == (m + 1) * (G * K)
             c == W * F
  <2>2. i \in Int /\ j \in Int /\ l \in Int /\ c \in Nat /\ c # 0 /\ i <= j /\ j < l
    BY <1>2, <2>1
  <2>3. lo * K = i * c /\ at * D = j * c /\ hi * K = l * c
    BY WFacts
  <2> HIDE DEF i, j, l, c, lo, at, hi
  <2>4. i * c <= j * c /\ j * c < l * c
    BY <2>2, Scaling
  <2> QED BY <2>3, <2>4
<1>4. at * D <= up * K /\ dn * K <= at * D
  <2> DEFINE i == (W + 5) * (N * (K * S))
             j == (W - 5) * (N * (K * S))
  <2>1. i \in Int /\ j \in Int /\ at \in Int /\ at <= i /\ j <= at
    BY <1>1, WFacts
  <2>2. i * D = up * K /\ j * D = dn * K
    BY WFacts
  <2> HIDE DEF i, j, at, up, dn
  <2>3. at * D <= i * D /\ j * D <= at * D
    BY <2>1, Scaling
  <2> QED BY <2>2, <2>3
<1> HIDE DEF lo, hi, up, dn, at
<1>5. lo * K \in Int /\ hi * K \in Int /\ up * K \in Int /\ dn * K \in Int /\ at * D \in Int
  BY <1>2
<1>6. lo * K <= up * K /\ dn * K < hi * K
  BY <1>3, <1>4, <1>5
<1>7. lo <= up
  BY <1>2, <1>6, Scaling
<1>8. dn < hi
  <2>1. ~ (hi <= dn)
    <3>1. hi <= dn => hi * K <= dn * K
      BY <1>2, Scaling
    <3> QED BY <1>5, <1>6, <3>1
  <2> QED BY <1>2, <2>1
<1> QED BY <1>7, <1>8 DEF lo, hi, up, dn

\* What a conversion pays, against the exact worth of the amount: all its roundings
\* together miss by five parts and, by the floor, less than one subunit.
LEMMA ConvertNear ==
  ASSUME rates \in RateTables, NEW f \in Currencies, NEW t \in Currencies, Quotable(f, t),
         NEW n \in Nat, n <= MaxAmount
  PROVE  LET m == ConvertSubunits(n, f, t, Mid(f, t))
             x == Exact(n, f, t)
         IN /\ m \in Nat /\ x[1] \in Nat /\ x[2] \in Nat \ {0}
            /\ W * (m * x[2]) <= (W + 5) * x[1]
            /\ (W - 5) * x[1] < W * ((m + 1) * x[2])
<1> DEFINE F == rates[f].num
           T == rates[t].num
           sf == rates[f].scale
           st == rates[t].scale
           Df == Digits[f]
           Dt == Digits[t]
           y == Times(FromSubunits(n, f), Mid(f, t))
           m == Floor(Shift(y, Dt))
<1>1. /\ F \in Nat \ {0} /\ T \in Nat /\ sf \in Nat /\ st \in Nat /\ Df \in Nat /\ Dt \in Nat
  <2>1. /\ F \in 1..(Pow10[P] - 1) /\ sf \in Nat /\ T \in 1..(Pow10[P] - 1) /\ st \in Nat
    BY RateFacts DEF Quotable
  <2> HIDE DEF F, T, sf, st
  <2>2. F \in Nat \ {0} /\ T \in Nat
    BY <2>1
  <2> QED BY <2>1, <2>2, MoneyAssumption
<1>2. PICK k \in Nat : LET M == Df + (k + st) IN
        /\ y \in Decimal /\ y.scale <= M
        /\ Near(Scaled(y, M) * F, (n * T) * (Pow10[k] * Pow10[sf]), 5)
  BY WorthNear
<1> DEFINE M == Df + (k + st)
           z == Scaled(y, M)
           D == Pow10[Dt]
           K == Pow10[k]
           G == Pow10[st + Df]
           S == Pow10[sf]
<1>3. M \in Nat /\ y \in Decimal /\ y.scale <= M /\ Near(z * F, (n * T) * (K * S), 5)
  BY <1>1, <1>2
<1>4. ConvertSubunits(n, f, t, Mid(f, t)) = m
  BY DEF ConvertSubunits, ToSubunits
<1>5. D \in Nat \ {0} /\ K \in Nat \ {0} /\ G \in Nat \ {0} /\ S \in Nat \ {0}
  BY <1>1, Pow10Type
<1>6. Pow10[M] = G * K
  <2>1. M = (st + Df) + k /\ st + Df \in Nat
    BY <1>1
  <2> HIDE DEF M
  <2> QED BY <2>1, Pow10Sum
<1>7. Exact(n, f, t) = << (n * T) * (S * D), F * G >>
  <2>1. Pow10[sf + Dt] = S * D
    BY <1>1, Pow10Sum
  <2>2. n * T * Pow10[sf + Dt] = (n * T) * (S * D)
    BY <2>1
  <2> QED BY <2>2 DEF Exact
<1> HIDE DEF F, T, sf, st, Df, Dt, y, M, K, G, S
<1>8. Shift(y, Dt) \in Decimal /\ Shift(y, Dt).scale = y.scale - Dt
      /\ Scaled(Shift(y, Dt), M) = Scaled(y, M + Dt)
  <2>1. M \in Int
    BY <1>3
  <2> QED BY <1>1, <1>3, <2>1, ShiftScaled
<1>9. z \in Nat /\ Scaled(y, M + Dt) = z * D
  <2>1. M \in Int
    BY <1>3
  <2> QED BY <1>1, <1>3, <2>1, ScaledGrows
<1> HIDE DEF z, D
<1>10. m \in Nat /\ m * (G * K) <= z * D /\ z * D < (m + 1) * (G * K)
  <2>1. Shift(y, Dt).scale <= M
    <3>1. y.scale \in Int
      BY <1>3 DEF Decimal
    <3> QED BY <1>1, <1>3, <1>8, <3>1
  <2>2. /\ m \in Nat /\ m * Pow10[M] <= Scaled(Shift(y, Dt), M)
        /\ Scaled(Shift(y, Dt), M) < (m + 1) * Pow10[M]
    BY <1>3, <1>8, <2>1, FloorWhole
  <2> QED BY <1>6, <1>8, <1>9, <2>2
<1> HIDE DEF m
<1>11. n * T \in Nat
  BY <1>1
<1>12. /\ W * (m * (F * G)) <= (W + 5) * ((n * T) * (S * D))
       /\ (W - 5) * ((n * T) * (S * D)) < W * ((m + 1) * (F * G))
  <2> DEFINE N == n * T
  <2>1. N \in Nat /\ Near(z * F, N * (K * S), 5)
    BY <1>3, <1>11
  <2>2. G \in Nat /\ S \in Nat
    BY <1>5
  <2> HIDE DEF N
  <2>3. /\ W * (m * (F * G)) <= (W + 5) * (N * (S * D))
        /\ (W - 5) * (N * (S * D)) < W * ((m + 1) * (F * G))
    BY <1>1, <1>5, <1>9, <1>10, <2>1, <2>2, FloorNear
  <2> QED BY <2>3 DEF N
<1>13. (n * T) * (S * D) \in Nat /\ F * G \in Nat \ {0}
  BY <1>1, <1>5, <1>11
<1> QED BY <1>4, <1>7, <1>10, <1>12, <1>13

----------------------------------------------------------------------------
(* What the digits are enough for. *)

\* An amount is worth no more than the largest one.
LEMMA ExactBounded ==
  ASSUME rates \in RateTables, NEW f \in Currencies, NEW t \in Currencies, Quotable(f, t),
         NEW n \in Nat, n <= MaxAmount
  PROVE  /\ Exact(n, f, t)[1] <= Exact(MaxAmount, f, t)[1]
         /\ Exact(n, f, t)[1] \in Nat /\ Exact(MaxAmount, f, t)[1] \in Nat
         /\ Exact(n, f, t)[2] = Exact(MaxAmount, f, t)[2]
<1>1. /\ Exact(n, f, t)[1] \in Nat
      /\ Exact(MaxAmount, f, t)[1] \in Nat
  <2>1. MaxAmount \in Nat /\ MaxAmount <= MaxAmount
    BY MoneyAssumption
  <2> QED BY <2>1, ConvertNear
<1>2. Exact(n, f, t)[1] <= Exact(MaxAmount, f, t)[1]
  <2> DEFINE T == rates[t].num
             z == Pow10[rates[f].scale + Digits[t]]
  <2>1. T \in Nat /\ z \in Nat
    <3>1. T \in 1..(Pow10[P] - 1) /\ rates[f].scale \in Nat
      BY RateFacts DEF Quotable
    <3>2. T \in Nat
      <4> HIDE DEF T
      <4> QED BY <3>1
    <3>3. rates[f].scale + Digits[t] \in Nat
      BY <3>1, MoneyAssumption
    <3> QED BY <3>2, <3>3, Pow10Type
  <2> HIDE DEF T, z
  <2>2. MaxAmount \in Nat
    BY MoneyAssumption
  <2>3. n * (T * z) <= MaxAmount * (T * z)
    <3>1. T * z \in Nat
      BY <2>1
    <3> QED BY <2>2, <3>1, Scaling
  <2>4. n * T * z = n * (T * z) /\ MaxAmount * T * z = MaxAmount * (T * z)
    BY <2>1, <2>2
  <2> QED BY <2>3, <2>4 DEF Exact, T, z
<1> QED BY <1>1, <1>2 DEF Exact

\* With room for the digits the roundings together never reach the next subunit: what a
\* conversion pays is at most what the amount is worth.
LEMMA ConvertPaysNoMore ==
  ASSUME RoomForDigits,
         rates \in RateTables, NEW f \in Currencies, NEW t \in Currencies, Quotable(f, t),
         NEW n \in Nat, n <= MaxAmount
  PROVE  ConvertSubunits(n, f, t, Mid(f, t)) * Exact(n, f, t)[2] <= Exact(n, f, t)[1]
<1> DEFINE m == ConvertSubunits(n, f, t, Mid(f, t))
           u == Exact(n, f, t)[1]
           v == Exact(n, f, t)[2]
           b == Exact(MaxAmount, f, t)[1]
<1>1. m \in Nat /\ u \in Nat /\ v \in Nat /\ W * (m * v) <= (W + 5) * u
  BY ConvertNear
<1>2. u <= b /\ b \in Nat
  BY ExactBounded
<1>3. 5 * b < W
  BY DEF RoomForDigits, Exact, Quotable, W, P
<1> HIDE DEF m, u, v, b, W
<1> USE WFacts
<1>4. m * v \in Nat
  BY <1>1
<1> DEFINE a == m * v
<1>5. a \in Nat /\ W * a <= (W + 5) * u
  BY <1>1, <1>4
<1> HIDE DEF a
<1>6. (W + 5) * u = W * u + 5 * u /\ W * u \in Int /\ W * a \in Int
  BY <1>1, <1>5
<1>7. W * a < W * u + W
  BY <1>1, <1>2, <1>3, <1>5, <1>6
<1>8. ~ (u + 1 <= a)
  <2>1. u + 1 <= a => (u + 1) * W <= a * W
    BY <1>1, <1>5, Scaling
  <2>2. (u + 1) * W = W * u + W /\ a * W = W * a
    BY <1>1, <1>5
  <2> QED BY <1>6, <1>7, <2>1, <2>2
<1> QED BY <1>1, <1>5, <1>8 DEF a, m, u, v

\* And at most two subunits less, as long as amounts fit.
LEMMA ConvertCosts ==
  ASSUME AmountsFit,
         rates \in RateTables, NEW f \in Currencies, NEW t \in Currencies, Quotable(f, t),
         NEW n \in Nat, n <= MaxAmount
  PROVE  (ConvertSubunits(n, f, t, Mid(f, t)) + 2) * Exact(n, f, t)[2] > Exact(n, f, t)[1]
<1> DEFINE m == ConvertSubunits(n, f, t, Mid(f, t))
           u == Exact(n, f, t)[1]
           v == Exact(n, f, t)[2]
           b == Exact(MaxAmount, f, t)[1]
<1>1. m \in Nat /\ u \in Nat /\ v \in Nat \ {0} /\ (W - 5) * u < W * ((m + 1) * v)
  BY ConvertNear
<1>2. u <= b /\ b \in Nat /\ v = Exact(MaxAmount, f, t)[2]
  BY ExactBounded
<1>3. 5 * b <= W * v
  <2>1. rates[f].num > 0 /\ f # t
    BY DEF Quotable, ParseRate
  <2> QED BY <2>1 DEF AmountsFit, Exact, W, P
<1> HIDE DEF m, u, v, b, W
<1> USE WFacts
<1>4. (m + 1) * v \in Nat /\ (m + 2) * v = (m + 1) * v + v
  BY <1>1
<1> DEFINE a == (m + 1) * v
<1>5. a \in Nat /\ (W - 5) * u < W * a
  BY <1>1, <1>4
<1> HIDE DEF a
<1>6. /\ (W - 5) * u = W * u - 5 * u /\ W * u \in Int /\ W * a \in Int /\ W * v \in Int
      /\ W * (a + v) = W * a + W * v
  BY <1>1, <1>5
<1>7. W * u < W * (a + v)
  BY <1>1, <1>2, <1>3, <1>5, <1>6
<1>8. ~ (a + v <= u)
  <2>1. a + v <= u => (a + v) * W <= u * W
    BY <1>1, <1>5, Scaling
  <2>2. (a + v) * W = W * (a + v) /\ u * W = W * u /\ W * (a + v) \in Int
    BY <1>1, <1>5
  <2> QED BY <1>6, <1>7, <2>1, <2>2
<1> QED BY <1>1, <1>4, <1>5, <1>8 DEF a, m, u, v

\* With room for the digits, no operation pays out more than it takes in is worth, whatever
\* the amounts and the spread, so no chain of conversions and trades makes money.
THEOREM NoMoneyIsMade ==
  ASSUME RoomForDigits
  PROVE  Spec => NoMoneyMade
<1>1. TypeOK /\ [Next]_vars => [PaysAtMostItsWorth]_vars
  <2> SUFFICES ASSUME TypeOK, Next PROVE PaysAtMostItsWorth
    OBVIOUS
  <2>1. PICK by, f, t, n : Operates(by, f, t, n)
    BY StepOperates
  <2> DEFINE m == ConvertSubunits(n, f, t, RateOf(by, f, t))
             w == ConvertSubunits(n, f, t, Mid(f, t))
             u == Exact(n, f, t)[1]
             v == Exact(n, f, t)[2]
  <2>2. /\ m \in Nat /\ m <= w
        /\ last' = [by |-> by, from |-> f, to |-> t, in |-> n, out |-> m]
    BY <2>1, Booked
  <2>3. /\ f \in Currencies /\ t \in Currencies /\ n \in Nat /\ n <= MaxAmount
        /\ Quotable(f, t) /\ rates \in RateTables
    BY <2>1 DEF Operates, TypeOK
  <2>4. w * v <= u
    BY <2>3, ConvertPaysNoMore
  <2>5. w \in Nat /\ u \in Nat /\ v \in Nat
    BY <2>3, ConvertNear
  <2> HIDE DEF m, w, u, v
  <2>6. m * v <= u
    <3>1. m * v <= w * v
      BY <2>2, <2>5, Scaling
    <3>2. m * v \in Int /\ w * v \in Int
      BY <2>2, <2>5
    <3> QED BY <2>4, <2>5, <3>1, <3>2
  <2>7. last'.in = n /\ last'.out = m /\ last'.from = f /\ last'.to = t
    BY <2>2
  <2> QED BY <2>6, <2>7 DEF u, v, PaysAtMostItsWorth
<1> QED BY <1>1, TypeCorrect, PTL DEF Spec, NoMoneyMade

\* As long as amounts fit, the roundings of a conversion cost the user less than two
\* subunits, and a quote pays no more than a conversion.
THEOREM PaymentsBounded ==
  ASSUME AmountsFit
  PROVE  Spec => []PaymentsAreBounded
<1>1. CostsAtMostTwoSubunits /\ TypeOK /\ [Next]_vars => CostsAtMostTwoSubunits'
  <2> SUFFICES ASSUME CostsAtMostTwoSubunits, TypeOK, [Next]_vars
               PROVE  CostsAtMostTwoSubunits'
    OBVIOUS
  <2>1. CASE UNCHANGED vars
    <3>1. rates' = rates /\ last' = last
      BY <2>1 DEF vars
    <3> QED BY <3>1 DEF CostsAtMostTwoSubunits, Exact
  <2>2. CASE Next
    <3>1. PICK by, f, t, n : Operates(by, f, t, n)
      BY <2>2, StepOperates
    <3> DEFINE m == ConvertSubunits(n, f, t, RateOf(by, f, t))
    <3>2. last' = [by |-> by, from |-> f, to |-> t, in |-> n, out |-> m] /\ rates' = rates
      BY <3>1, Booked
    <3>3. /\ f \in Currencies /\ t \in Currencies /\ n \in Nat /\ n <= MaxAmount
          /\ Quotable(f, t) /\ rates \in RateTables
      BY <3>1 DEF Operates, TypeOK
    <3>4. by = "convert" => (m + 2) * Exact(n, f, t)[2] > Exact(n, f, t)[1]
      BY <3>3, ConvertCosts DEF RateOf
    <3> HIDE DEF m
    <3>5. last'.by = by /\ last'.in = n /\ last'.out = m /\ last'.from = f /\ last'.to = t
      BY <3>2
    <3> QED BY <3>2, <3>4, <3>5 DEF CostsAtMostTwoSubunits, Exact
  <2> QED BY <2>1, <2>2
<1>2. Init => CostsAtMostTwoSubunits
  BY DEF Init, Nothing, CostsAtMostTwoSubunits
<1>3. CostsAtMostTwoSubunits /\ QuotePaysNoMore => PaymentsAreBounded
  BY DEF PaymentsAreBounded
<1> QED BY <1>1, <1>2, <1>3, TypeCorrect, QuotesPayNoMore, PTL DEF Spec

\* How many digits are room enough: two more than those of the largest amount, of a rate
\* and of the two scales together. money.ts keeps 40; 11 digits of the largest amount and
\* 2 decimals of a currency leave 25 for a rate, 15 of them significant with the 10
\* decimals of its comment.
THEOREM DigitsNeeded ==
  ASSUME NEW a \in Nat, NEW b \in Nat, NEW c \in Nat, NEW d \in Nat,
         a + b + c + d + 2 <= Precision,
         MaxAmount <= Pow10[a],
         \A r \in RateTables : \A x \in Currencies : r[x].num <= Pow10[b] /\ r[x].scale <= c,
         \A x \in Currencies : Digits[x] <= d
  PROVE  RoomForDigits /\ AmountsFit
<1>1. ASSUME NEW r \in RateTables, NEW f \in Currencies, NEW t \in Currencies
      PROVE  /\ 5 * (MaxAmount * r[t].num * Pow10[r[f].scale + Digits[t]]) < 2 * Pow10[P - 1]
             /\ r[f].num > 0 =>
                  5 * (MaxAmount * r[t].num * Pow10[r[f].scale + Digits[t]])
                    <= 2 * Pow10[P - 1] * (r[f].num * Pow10[r[t].scale + Digits[f]])
  <2> DEFINE n == r[t].num
             z == Pow10[r[f].scale + Digits[t]]
             g == r[f].num
             h == Pow10[r[t].scale + Digits[f]]
             q == MaxAmount * n * z
             A == Pow10[P - 1]
  <2>1. /\ MaxAmount \in Nat /\ n \in Nat /\ g \in Nat
        /\ r[f].scale + Digits[t] \in Nat /\ r[t].scale + Digits[f] \in Nat
        /\ r[f].scale + Digits[t] <= c + d
    BY MoneyAssumption
  <2>2. z \in Nat /\ h \in Nat \ {0} /\ z <= Pow10[c + d]
    BY <2>1, Pow10Type, Pow10Mono
  <2>3. /\ Pow10[a] \in Nat /\ Pow10[b] \in Nat /\ Pow10[c + d] \in Nat
        /\ MaxAmount <= Pow10[a] /\ n <= Pow10[b]
    BY Pow10Type
  <2> HIDE DEF n, z, g, h
  <2>4. q \in Nat /\ q <= Pow10[a + b + (c + d)]
    <3>1. MaxAmount * n <= Pow10[a] * Pow10[b]
      <4>1. MaxAmount * n <= Pow10[a] * n
        BY <2>1, <2>3, Scaling
      <4>2. n * Pow10[a] <= Pow10[b] * Pow10[a]
        BY <2>1, <2>3, Scaling
      <4> QED BY <2>1, <2>3, <4>1, <4>2
    <3>2. Pow10[a] * Pow10[b] = Pow10[a + b]
      BY Pow10Sum
    <3>3. a + b \in Nat /\ c + d \in Nat /\ Pow10[a + b] \in Nat /\ MaxAmount * n \in Nat
      BY <2>1, Pow10Type
    <3>4. (MaxAmount * n) * z <= Pow10[a + b] * Pow10[c + d]
      <4> DEFINE i == MaxAmount * n
                 j == Pow10[a + b]
                 k == Pow10[c + d]
      <4>1. i \in Nat /\ j \in Nat /\ k \in Nat /\ i <= j /\ z <= k
        BY <2>2, <2>3, <3>1, <3>2, <3>3
      <4> HIDE DEF i, j, k
      <4>2. i * z <= j * z /\ z * j <= k * j
        BY <2>2, <4>1, Scaling
      <4>3. i * z <= j * k
        BY <2>2, <4>1, <4>2
      <4> QED BY <4>3 DEF i, j, k
    <3>5. Pow10[a + b] * Pow10[c + d] = Pow10[a + b + (c + d)]
      BY <3>3, Pow10Sum
    <3>6. q \in Nat
      BY <2>2, <3>3
    <3> QED BY <3>4, <3>5, <3>6
  <2>5. 10 * Pow10[a + b + (c + d)] <= A
    <3>1. a + b + (c + d) \in Nat /\ a + b + (c + d) + 1 \in Nat /\ P - 1 \in Nat
          /\ a + b + (c + d) + 1 <= P - 1
      <4>1. P \in Nat /\ a + b + c + d + 2 <= P
        BY Digitwise DEF P
      <4> HIDE DEF P
      <4> QED BY <4>1
    <3>2. Pow10[a + b + (c + d) + 1] = 10 * Pow10[a + b + (c + d)]
      BY <3>1, Pow10Def
    <3> QED BY <3>1, <3>2, Pow10Mono
  <2>6. A \in Nat \ {0} /\ Pow10[a + b + (c + d)] \in Nat
    BY Digitwise, Pow10Type
  <2> HIDE DEF q, A
  <2>7. 5 * q < 2 * A
    BY <2>4, <2>5, <2>6
  <2>8. g > 0 => 5 * q <= 2 * A * (g * h)
    <3> SUFFICES ASSUME g > 0 PROVE 5 * q <= 2 * A * (g * h)
      OBVIOUS
    <3>1. g * h \in Nat /\ 1 <= g * h
      <4>1. 1 * h <= g * h
        BY <2>1, <2>2, Scaling
      <4> QED BY <2>1, <2>2, <4>1
    <3> DEFINE v == g * h
    <3>2. v \in Nat /\ 1 <= v
      BY <3>1
    <3> HIDE DEF v
    <3>3. 1 * (2 * A) <= v * (2 * A)
      BY <2>6, <3>2, Scaling
    <3>4. v * (2 * A) = 2 * A * v /\ 2 * A * v \in Int
      BY <2>6, <3>2
    <3> QED BY <2>4, <2>6, <2>7, <3>3, <3>4 DEF v
  <2> QED BY <2>7, <2>8 DEF q, A, n, z, g, h
<1> QED BY <1>1 DEF RoomForDigits, AmountsFit, P
=============================================================================
