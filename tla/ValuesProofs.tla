----------------------------- MODULE ValuesProofs -----------------------------
(***************************************************************************)
(* Theorems about amounts and the calendar, for any width of the word, any *)
(* amounts, days and months.                                               *)
(***************************************************************************)
EXTENDS MCValues, RequestsProofs

-----------------------------------------------------------------------------
(* Amounts.                                                                 *)

\* Quotients and remainders, by any divisor.
LEMMA Quotient == ASSUME NEW x \in Int, NEW w \in Nat \ {0}
                  PROVE  /\ x \div w \in Int /\ x % w \in 0..(w - 1)
                         /\ x = w * (x \div w) + (x % w)
  OBVIOUS
LEMMA Remainder ==
    ASSUME NEW x \in Int, NEW w \in Nat \ {0}, NEW q \in Int, NEW r \in 0..(w - 1), x = w * q + r
    PROVE  x % w = r /\ x \div w = q
<1>1. PICK d \in Int : d = x \div w
  BY Quotient
<1>2. PICK e \in 0..(w - 1) : e = x % w
  BY Quotient
<1>3. x = w * d + e
  BY <1>1, <1>2, Quotient
<1>4. PICK k \in Int : k = q - d
  OBVIOUS
<1>5. w * k = e - r
  BY <1>3, <1>4
<1>6. ~(k >= 1)
  <2> SUFFICES ASSUME k >= 1 PROVE FALSE
    OBVIOUS
  <2>1. w * k >= w
    OBVIOUS
  <2> QED
    BY <1>5, <2>1
<1>7. ~(k <= -1)
  <2> SUFFICES ASSUME k <= -1 PROVE FALSE
    OBVIOUS
  <2>1. w * k <= -w
    OBVIOUS
  <2> QED
    BY <1>5, <2>1
<1>8. k = 0
  BY <1>6, <1>7
<1> QED
  BY <1>1, <1>2, <1>4, <1>5, <1>8


\* What the word keeps of a sum is the sum of what it keeps of the terms.
LEMMA WrappedAdds == ASSUME NEW a \in Int, NEW b \in Int
                     PROVE  Wrapped(a) \in Int /\ Add(Wrapped(a), b) = Wrapped(a + b)
<1>1. PICK w \in Nat \ {0} : w = 2^WordBits
  BY HalvesAssumption
<1>2. PICK lo \in Int : lo = MinMilliunits
  BY HalvesAssumption DEF MinMilliunits
<1>3. PICK x \in Int : x = a - lo
  OBVIOUS
<1>4. PICK q \in Int, r \in 0..(w - 1) : q = x \div w /\ r = x % w /\ x = w * q + r
  BY Quotient
<1>5. PICK y \in Int : y = r + b
  OBVIOUS
<1>6. PICK p \in Int, t \in 0..(w - 1) : t = y % w /\ y = w * p + t
  BY Quotient
<1>7. PICK z \in Int : z = a + b - lo
  OBVIOUS
<1>8. z = w * (q + p) + t
  <2>1. z = w * q + w * p + t
    <3>1. PICK wq \in Int, wp \in Int : wq = w * q /\ wp = w * p
      OBVIOUS
    <3>2. x = wq + r /\ y = wp + t
      BY <1>4, <1>6, <3>1
    <3> QED
      BY <1>3, <1>5, <1>7, <3>1, <3>2
  <2>2. w * (q + p) = w * q + w * p
    OBVIOUS
  <2> QED
    BY <2>1, <2>2
<1>9. z % w = t
  BY <1>8, Remainder
<1>10. Wrapped(a) = r + lo /\ Wrapped(a + b) = t + lo
  BY <1>1, <1>2, <1>3, <1>4, <1>7, <1>9 DEF Wrapped
<1>11. (Wrapped(a) + b) - lo = y
  BY <1>5, <1>10
<1>12. Add(Wrapped(a), b) = t + lo
  BY <1>1, <1>2, <1>6, <1>11 DEF Add, Wrapped
<1> QED
  BY <1>10, <1>12

\* An amount is what the word keeps of it.
LEMMA WrappedFits == ASSUME NEW a \in Milliunits PROVE a \in Int /\ Wrapped(a) = a
<1>1. PICK h \in Nat \ {0} : h = 2^(WordBits - 1)
  BY HalvesAssumption
<1>2. 2^WordBits = 2 * h /\ MinMilliunits = -h /\ a \in (-h)..(h - 1)
  BY <1>1, HalvesAssumption DEF Milliunits, MinMilliunits
<1>3. (a + h) % (2 * h) = a + h
  BY <1>1, <1>2
<1> QED
  BY <1>1, <1>2, <1>3 DEF Wrapped

LEMMA ZeroIsAmount == 0 \in Milliunits
  BY HalvesAssumption DEF Milliunits, MinMilliunits

\* The sums of some numbers so far, exact and as the word has them.
Exactly(s, n, g) == g = [k \in 0..n |-> IF k = 0 THEN 0 ELSE g[k - 1] + s[k]]
Wrapping(s, n, h) == h = [k \in 0..n |-> IF k = 0 THEN 0 ELSE Add(h[k - 1], s[k])]

LEMMA SumsExist == ASSUME NEW s, NEW n \in Nat
                   PROVE  \E g, h : Exactly(s, n, g) /\ Wrapping(s, n, h)
<1>1. PICK T : T = {k \in Nat : \E g, h : Exactly(s, k, g) /\ Wrapping(s, k, h)}
  OBVIOUS
<1>2. 0 \in T
  <2>1. PICK g : g = [k \in 0..0 |-> 0]
    OBVIOUS
  <2>2. Exactly(s, 0, g) /\ Wrapping(s, 0, g)
    BY <2>1 DEF Exactly, Wrapping
  <2> QED
    BY <1>1, <2>2
<1>3. ASSUME NEW k \in Nat, k \in T PROVE k + 1 \in T
  <2>1. PICK g, h : Exactly(s, k, g) /\ Wrapping(s, k, h)
    BY <1>1, <1>3
  <2>2. PICK g1 : g1 = [i \in 0..(k + 1) |-> IF i = k + 1 THEN g[k] + s[k + 1] ELSE g[i]]
    OBVIOUS
  <2>3. PICK h1 : h1 = [i \in 0..(k + 1) |-> IF i = k + 1 THEN Add(h[k], s[k + 1]) ELSE h[i]]
    OBVIOUS
  <2>4. \A i \in 0..(k + 1) : /\ i = k + 1 \/ i \in 0..k
                              /\ i # 0 => i - 1 \in 0..k
                              /\ i # 0 /\ i # k + 1 => i - 1 # k + 1
    OBVIOUS
  <2>5. \A i \in 0..k : g1[i] = g[i] /\ h1[i] = h[i]
    BY <2>2, <2>3
  <2>6. g1[k + 1] = g[k] + s[k + 1] /\ h1[k + 1] = Add(h[k], s[k + 1])
    BY <2>2, <2>3
  <2>7. ASSUME NEW i \in 0..(k + 1)
        PROVE  /\ g1[i] = IF i = 0 THEN 0 ELSE g1[i - 1] + s[i]
               /\ h1[i] = IF i = 0 THEN 0 ELSE Add(h1[i - 1], s[i])
    <3>1. CASE i = k + 1
      <4>1. i # 0 /\ i - 1 = k /\ k \in 0..k
        BY <3>1
      <4> QED
        BY <2>5, <2>6, <3>1, <4>1
    <3>2. CASE i \in 0..k /\ i = 0
      BY <2>1, <2>5, <3>2 DEF Exactly, Wrapping
    <3>3. CASE i \in 0..k /\ i # 0
      <4>1. g[i] = g[i - 1] + s[i] /\ h[i] = Add(h[i - 1], s[i])
        BY <2>1, <3>3 DEF Exactly, Wrapping
      <4>2. i - 1 \in 0..k
        BY <2>4, <3>3
      <4> QED
        BY <2>5, <3>3, <4>1, <4>2
    <3> QED
      BY <2>4, <3>1, <3>2, <3>3
  <2>8. Exactly(s, k + 1, g1) /\ Wrapping(s, k + 1, h1)
    BY <2>2, <2>3, <2>7 DEF Exactly, Wrapping
  <2> QED
    BY <1>1, <2>8
<1> QED
  BY <1>1, <1>2, <1>3, Induction

\* The code's sum of some amounts is what the word keeps of the exact one.
LEMMA Summed ==
    ASSUME NEW s, NEW n \in Nat, s \in [1..n -> Int]
    PROVE  \E g : /\ Exactly(s, n, g) /\ g \in [0..n -> Int]
                  /\ Total(s) = g[n] /\ SplitSum(s) = Wrapped(g[n])
<1>1. Len(s) = n
  OBVIOUS
<1>2. PICK g : g = CHOOSE f : f = [k \in 0..n |-> IF k = 0 THEN 0 ELSE f[k - 1] + s[k]]
  OBVIOUS
<1>3. PICK h : h = CHOOSE f : f = [k \in 0..n |-> IF k = 0 THEN 0 ELSE Add(f[k - 1], s[k])]
  OBVIOUS
<1>4. Exactly(s, n, g) /\ Wrapping(s, n, h)
  <2>1. PICK g1, h1 : Exactly(s, n, g1) /\ Wrapping(s, n, h1)
    BY SumsExist
  <2>2. g1 = [k \in 0..n |-> IF k = 0 THEN 0 ELSE g1[k - 1] + s[k]]
    BY <2>1 DEF Exactly
  <2>3. h1 = [k \in 0..n |-> IF k = 0 THEN 0 ELSE Add(h1[k - 1], s[k])]
    BY <2>1 DEF Wrapping
  <2> QED
    BY <1>2, <1>3, <2>2, <2>3 DEF Exactly, Wrapping
<1>5. Total(s) = g[n]
  BY <1>1, <1>2 DEF Total
<1>6. SplitSum(s) = h[n]
  BY <1>1, <1>3 DEF SplitSum
<1>7. PICK T : T = {k \in Nat : k <= n => g[k] \in Int /\ h[k] = Wrapped(g[k])}
  OBVIOUS
<1>8. 0 \in T
  <2>1. g[0] = 0 /\ h[0] = 0
    BY <1>4 DEF Exactly, Wrapping
  <2> QED
    BY <1>7, <2>1, ZeroIsAmount, WrappedFits
<1>9. ASSUME NEW k \in Nat, k \in T PROVE k + 1 \in T
  <2> SUFFICES ASSUME k + 1 <= n PROVE g[k + 1] \in Int /\ h[k + 1] = Wrapped(g[k + 1])
    BY <1>7
  <2>1. PICK a \in Int, b \in Int : a = g[k] /\ b = s[k + 1] /\ h[k] = Wrapped(a)
    BY <1>7, <1>9
  <2>2. k + 1 \in 0..n /\ k + 1 # 0 /\ (k + 1) - 1 = k
    OBVIOUS
  <2>3. g[k + 1] = a + b /\ h[k + 1] = Add(h[k], b)
    BY <1>4, <2>1, <2>2 DEF Exactly, Wrapping
  <2>4. a + b \in Int /\ Add(Wrapped(a), b) = Wrapped(a + b)
    BY WrappedAdds
  <2> QED
    BY <2>1, <2>3, <2>4
<1>10. \A k \in 0..n : k \in T
  <2>1. Nat \subseteq T
    BY <1>8, <1>9, Induction
  <2> QED
    BY <2>1
<1>11. \A k \in 0..n : g[k] \in Int /\ h[k] = Wrapped(g[k])
  BY <1>7, <1>10
<1>12. g \in [0..n -> Int]
  BY <1>4, <1>11 DEF Exactly
<1> QED
  BY <1>4, <1>5, <1>6, <1>11, <1>12

\* An amount divided: the quotient is rounded toward zero, and the remainder,
\* of the amount's sign, is handed out a milliunit at a time.
LEMMA Divided ==
    ASSUME NEW a \in Milliunits, NEW n \in 1..(2^(WordBits - 1) - 1)
    PROVE  /\ Quo(a, n) \in Int /\ Rem(a, n) \in Int /\ n \in Nat
           /\ Abs(Rem(a, n)) \in 0..(n - 1)
           /\ Rem(a, n) = IF Rem(a, n) < 0 THEN -Abs(Rem(a, n)) ELSE Abs(Rem(a, n))
           /\ a = n * Quo(a, n) + Rem(a, n)
<1>1. PICK h \in Nat \ {0} : h = 2^(WordBits - 1)
  BY HalvesAssumption
<1>2. /\ a \in Int /\ n \in Nat \ {0} /\ n < h
      /\ Milliunits = (-h)..(h - 1)
  BY <1>1 DEF Milliunits, MinMilliunits
<1>3. PICK q \in Int : q = Quo(a, n)
  <2>1. a \div n \in Int /\ -a \in Int /\ (-a) \div n \in Int
    BY <1>2, Quotient
  <2> QED
    BY <2>1 DEF Quo
<1>4. PICK nq \in Int : nq = n * q
  BY <1>2
<1>5. PICK r \in Int : r = Rem(a, n)
  BY <1>2, <1>3 DEF Rem
<1>6. r = a - nq
  BY <1>3, <1>4, <1>5 DEF Rem
<1>7. CASE a >= 0
  <2>1. q = a \div n
    BY <1>3, <1>7 DEF Quo
  <2>2. a % n \in 0..(n - 1) /\ a = n * (a \div n) + (a % n)
    BY <1>2, Quotient
  <2>3. r \in 0..(n - 1)
    BY <1>2, <1>4, <1>6, <2>1, <2>2
  <2>4. Abs(r) = r
    BY <2>3 DEF Abs
  <2> QED
    BY <1>2, <1>3, <1>4, <1>5, <1>6, <2>3, <2>4
<1>8. CASE a < 0
  <2>1. PICK b \in Int : b = -a
    BY <1>2
  <2>2. q = -(b \div n)
    BY <1>2, <1>3, <1>8, <2>1 DEF Quo
  <2>3. b % n \in 0..(n - 1) /\ b = n * (b \div n) + (b % n) /\ b \div n \in Int
    BY <1>2, Quotient
  <2>4. nq = -(n * (b \div n))
    BY <1>2, <1>4, <2>2, <2>3
  <2>5. -r = b % n /\ -r \in 0..(n - 1)
    BY <1>2, <1>6, <2>1, <2>3, <2>4
  <2>6. -r \in Milliunits
    BY <1>1, <1>2, <2>5
  <2>7. Abs(r) = -r
    <3>1. CASE r < 0
      BY <2>6, <3>1, WrappedFits DEF Abs
    <3>2. CASE ~(r < 0)
      <4>1. -r = r
        BY <1>2, <2>5, <3>2
      <4> QED
        BY <3>2, <4>1 DEF Abs
    <3> QED
      BY <3>1, <3>2
  <2>8. r <= 0 /\ Abs(r) \in 0..(n - 1) /\ r = IF r < 0 THEN -Abs(r) ELSE Abs(r)
    BY <1>2, <2>5, <2>7
  <2> QED
    BY <1>2, <1>3, <1>4, <1>5, <1>6, <2>8
<1> QED
  BY <1>2, <1>7, <1>8

LEMMA SplitSumsUp ==
    ASSUME NEW a \in Milliunits, NEW n \in 1..(2^(WordBits - 1) - 1)
    PROVE  /\ SplitEven(a, n) \in [1..n -> Int]
           /\ Total(SplitEven(a, n)) = a /\ SplitSum(SplitEven(a, n)) = a
           /\ \A i, j \in 1..n : SplitEven(a, n)[i] - SplitEven(a, n)[j] \in -1..1
<1>1. PICK q \in Int, r \in Int, e \in 0..(n - 1) :
          q = Quo(a, n) /\ r = Rem(a, n) /\ e = Abs(Rem(a, n))
  BY Divided
<1>2. n \in Nat /\ a \in Int /\ a = n * q + r /\ r = IF r < 0 THEN -e ELSE e
  BY <1>1, Divided, WrappedFits
<1>3. PICK step \in {-1, 1} : step = IF r < 0 THEN -1 ELSE 1
  OBVIOUS
<1>4. PICK p : p = SplitEven(a, n)
  OBVIOUS
<1>5. p = [i \in 1..n |-> q + (IF i <= e THEN step ELSE 0)]
  BY <1>1, <1>3, <1>4 DEF SplitEven
<1>6. p \in [1..n -> Int]
  BY <1>3, <1>5
<1>7. \A i, j \in 1..n : p[i] - p[j] \in -1..1
  BY <1>3, <1>5
<1>8. PICK g : /\ Exactly(p, n, g) /\ g \in [0..n -> Int]
               /\ Total(p) = g[n] /\ SplitSum(p) = Wrapped(g[n])
  BY <1>2, <1>6, Summed
<1>9. PICK T : T = {k \in Nat : k <= n => g[k] = k * q + (IF k <= e THEN IF r < 0 THEN -k ELSE k
                                                          ELSE r)}
  OBVIOUS
<1>10. 0 \in T
  BY <1>2, <1>8, <1>9 DEF Exactly
<1>11. ASSUME NEW k \in Nat, k \in T PROVE k + 1 \in T
  <2> SUFFICES ASSUME k + 1 <= n
               PROVE  g[k + 1] = (k + 1) * q + (IF k + 1 <= e THEN IF r < 0 THEN -(k + 1) ELSE k + 1
                                                ELSE r)
    BY <1>9
  <2>1. PICK kq \in Int : kq = k * q
    OBVIOUS
  <2>2. (k + 1) * q = kq + q
    BY <2>1
  <2>3. k + 1 \in 0..n /\ k + 1 \in 1..n /\ k + 1 # 0 /\ (k + 1) - 1 = k
    OBVIOUS
  <2>4. g[k + 1] = g[k] + p[k + 1]
    BY <1>8, <2>3 DEF Exactly
  <2>5. p[k + 1] = q + (IF k + 1 <= e THEN step ELSE 0)
    BY <1>5, <2>3
  <2>6. g[k] = kq + (IF k <= e THEN IF r < 0 THEN -k ELSE k ELSE r)
    BY <1>2, <1>9, <1>11, <2>1
  <2> QED
    BY <1>2, <1>3, <2>2, <2>4, <2>5, <2>6
<1>12. n \in T
  BY <1>2, <1>10, <1>11, Induction
<1>13. g[n] = a
  <2>1. n <= n /\ ~(n <= e)
    BY <1>2
  <2>2. g[n] = n * q + r
    BY <1>9, <1>12, <2>1
  <2> QED
    BY <1>2, <2>2
<1> QED
  BY <1>4, <1>6, <1>7, <1>8, <1>13, WrappedFits

-----------------------------------------------------------------------------
(* Texts of amounts.                                                        *)

\* The powers of ten a number of the word is divided by.
LEMMA Tens ==
    \E w \in 1..WordBits :
        /\ w \in Nat /\ 2^WordBits <= 10^w
        /\ 10^0 = 1 /\ 10^1 = 10 /\ 10^2 = 100 /\ 10^3 = 1000
        /\ \A k \in 0..(w + 4) : 10^k \in Nat \ {0}
        /\ \A k \in 0..(w + 3) : 10^(k + 1) = 10 * 10^k
<1>1. PICK w \in 1..WordBits : /\ 2^WordBits <= 10^w
                               /\ 10^0 = 1
                               /\ \A k \in 0..(w + 3) : 10^(k + 1) = 10 * 10^k
  BY TensAssumption
<1>2. w \in Nat \ {0}
  BY MoneyAssumption
<1>3. PICK ten : ten = [k \in 0..(w + 4) |-> 10^k]
  OBVIOUS
<1>4. ten[0] = 1 /\ \A k \in 0..(w + 3) : ten[k + 1] = 10 * ten[k]
  <2>1. ten[0] = 1
    BY <1>1, <1>2, <1>3
  <2>2. ASSUME NEW k \in 0..(w + 3) PROVE ten[k + 1] = 10 * ten[k]
    <3>1. k \in 0..(w + 4) /\ k + 1 \in 0..(w + 4)
      BY <1>2
    <3>2. ten[k] = 10^k /\ ten[k + 1] = 10^(k + 1)
      BY <1>3, <3>1
    <3> QED
      BY <1>1, <3>2
  <2> QED
    BY <2>1, <2>2
<1>5. PICK T : T = {k \in Nat : k <= w + 4 => ten[k] \in Nat \ {0}}
  OBVIOUS
<1>6. 0 \in T
  BY <1>4, <1>5
<1>7. \A k \in Nat : k \in T => k + 1 \in T
  BY <1>2, <1>4, <1>5
<1>8. \A k \in 0..(w + 4) : ten[k] \in Nat \ {0}
  <2>1. Nat \subseteq T
    BY <1>6, <1>7, Induction
  <2> QED
    BY <1>5, <2>1
<1>9. ten[1] = 10 /\ ten[2] = 100 /\ ten[3] = 1000
  <2>1. 0 \in 0..(w + 3) /\ 1 \in 0..(w + 3) /\ 2 \in 0..(w + 3) /\ 0 + 1 = 1 /\ 1 + 1 = 2 /\ 2 + 1 = 3
    BY <1>2
  <2>2. ten[0 + 1] = 10 * ten[0] /\ ten[1 + 1] = 10 * ten[1] /\ ten[2 + 1] = 10 * ten[2]
    BY <1>4, <2>1
  <2> QED
    BY <1>4, <2>1, <2>2
<1>10. 10^1 = 10 /\ 10^2 = 100 /\ 10^3 = 1000
  BY <1>2, <1>3, <1>9
<1>11. \A k \in 0..(w + 4) : 10^k \in Nat \ {0}
  BY <1>3, <1>8
<1> QED
  BY <1>1, <1>2, <1>10, <1>11

\* What is read of the first k digits.
Reading(s, n, v) == v[0] = 0 /\ \A k \in 1..n : v[k] = 10 * v[k - 1] + s[k]

\* Whatever reads the digits one after the other reads their value.
LEMMA ReadAs ==
    ASSUME NEW s, NEW n \in Nat, Len(s) = n, NEW v, Reading(s, n, v)
    PROVE  ValueOf(s) = v[n]
<1>1. PICK f : f = CHOOSE g : g = [k \in 0..n |-> IF k = 0 THEN 0 ELSE 10 * g[k - 1] + s[k]]
  OBVIOUS
<1>2. ValueOf(s) = f[n]
  BY <1>1 DEF ValueOf
<1>3. f = [k \in 0..n |-> IF k = 0 THEN 0 ELSE 10 * f[k - 1] + s[k]]
  <2>1. PICK g : g = [k \in 0..n |-> v[k]]
    OBVIOUS
  <2>2. ASSUME NEW k \in 0..n
        PROVE  g[k] = IF k = 0 THEN 0 ELSE 10 * g[k - 1] + s[k]
    <3>1. CASE k = 0
      BY <2>1, <3>1 DEF Reading
    <3>2. CASE k # 0
      <4>1. k \in 1..n /\ k - 1 \in 0..n
        BY <3>2
      <4> QED
        BY <2>1, <3>2, <4>1 DEF Reading
    <3> QED
      BY <3>1, <3>2
  <2>3. g = [k \in 0..n |-> IF k = 0 THEN 0 ELSE 10 * g[k - 1] + s[k]]
    BY <2>1, <2>2
  <2> QED
    BY <1>1, <2>3
<1>4. PICK T : T = {k \in Nat : k <= n => f[k] = v[k]}
  OBVIOUS
<1>5. 0 \in T
  BY <1>3, <1>4 DEF Reading
<1>6. ASSUME NEW k \in Nat, k \in T PROVE k + 1 \in T
  <2> SUFFICES ASSUME k + 1 <= n PROVE f[k + 1] = v[k + 1]
    BY <1>4
  <2>1. k + 1 \in 1..n /\ k + 1 \in 0..n /\ k + 1 # 0 /\ (k + 1) - 1 = k
    OBVIOUS
  <2>2. f[k + 1] = 10 * f[k] + s[k + 1]
    BY <1>3, <2>1
  <2>3. v[k + 1] = 10 * v[k] + s[k + 1]
    BY <2>1 DEF Reading
  <2>4. f[k] = v[k]
    BY <1>4, <1>6
  <2> QED
    BY <2>2, <2>3, <2>4
<1> QED
  BY <1>2, <1>4, <1>5, <1>6, Induction

\* Digits can be read.
LEMMA ReadingExists ==
    ASSUME NEW n \in Nat, NEW s \in [1..n -> Int]
    PROVE  \E v \in [0..n -> Int] : Reading(s, n, v)
<1>1. PICK T : T = {k \in Nat : k <= n => \E v \in [0..k -> Int] : Reading(s, k, v)}
  OBVIOUS
<1>2. 0 \in T
  <2>1. PICK v : v = [k \in 0..0 |-> 0]
    OBVIOUS
  <2>2. v \in [0..0 -> Int] /\ Reading(s, 0, v)
    BY <2>1 DEF Reading
  <2> QED
    BY <1>1, <2>2
<1>3. ASSUME NEW k \in Nat, k \in T PROVE k + 1 \in T
  <2> SUFFICES ASSUME k + 1 <= n PROVE \E v \in [0..(k + 1) -> Int] : Reading(s, k + 1, v)
    BY <1>1
  <2>1. PICK v \in [0..k -> Int] : Reading(s, k, v)
    BY <1>1, <1>3
  <2>2. PICK x \in Int : x = 10 * v[k] + s[k + 1]
    OBVIOUS
  <2>3. PICK u : u = [i \in 0..(k + 1) |-> IF i = k + 1 THEN x ELSE v[i]]
    OBVIOUS
  <2>4. u \in [0..(k + 1) -> Int]
    BY <2>3
  <2>5. u[0] = 0
    BY <2>1, <2>3 DEF Reading
  <2>6. ASSUME NEW i \in 1..(k + 1) PROVE u[i] = 10 * u[i - 1] + s[i]
    <3>1. CASE i = k + 1
      BY <2>2, <2>3, <3>1
    <3>2. CASE i # k + 1
      <4>1. i \in 1..k /\ i - 1 \in 0..k /\ i - 1 # k + 1
        BY <3>2
      <4>2. v[i] = 10 * v[i - 1] + s[i]
        BY <2>1, <4>1 DEF Reading
      <4> QED
        BY <2>3, <3>2, <4>1, <4>2
    <3> QED
      BY <3>1, <3>2
  <2> QED
    BY <2>4, <2>5, <2>6 DEF Reading
<1>4. n \in T
  BY <1>2, <1>3, Induction
<1> QED
  BY <1>1, <1>4

\* The digits of a number that has no more are read as the number.
LEMMA DigitsValue ==
    ASSUME NEW w \in Nat, NEW x \in Nat, x < 10^w, 10^0 = 1,
           \A k \in 0..w : 10^k \in Nat \ {0},
           \A k \in 0..(w - 1) : 10^(k + 1) = 10 * 10^k
    PROVE  /\ Padded(x, w) \in [1..w -> Nat] /\ Len(Padded(x, w)) = w
           /\ ValueOf(Padded(x, w)) = x
<1>1. PICK ten : ten = [k \in 0..w |-> 10^k]
  OBVIOUS
<1>2. /\ ten \in [0..w -> Nat \ {0}] /\ ten[0] = 1 /\ x < ten[w]
      /\ \A k \in 0..(w - 1) : ten[k + 1] = 10 * ten[k]
  <2>1. ten \in [0..w -> Nat \ {0}] /\ ten[0] = 1 /\ x < ten[w]
    BY <1>1
  <2>2. ASSUME NEW k \in 0..(w - 1) PROVE ten[k + 1] = 10 * ten[k]
    <3>1. k \in 0..w /\ k + 1 \in 0..w
      OBVIOUS
    <3>2. ten[k] = 10^k /\ ten[k + 1] = 10^(k + 1)
      BY <1>1, <3>1
    <3> QED
      BY <3>2
  <2> QED
    BY <2>1, <2>2
<1>3. PICK s : s = Padded(x, w)
  OBVIOUS
<1>4. s = [i \in 1..w |-> (x \div ten[w - i]) % 10]
  BY <1>1, <1>3 DEF Padded
<1>5. \A k \in 0..w : x \div ten[k] \in Nat
  <2> SUFFICES ASSUME NEW k \in 0..w PROVE x \div ten[k] \in Nat
    OBVIOUS
  <2>1. PICK p \in Nat \ {0} : p = ten[k]
    BY <1>2
  <2>2. x \div p \in Int /\ x % p \in 0..(p - 1) /\ x = p * (x \div p) + (x % p)
    BY Quotient
  <2>3. ~(x \div p <= -1)
    <3> SUFFICES ASSUME x \div p <= -1 PROVE FALSE
      OBVIOUS
    <3>1. p * (x \div p) <= -p
      BY <2>2
    <3> QED
      BY <2>2, <3>1
  <2> QED
    BY <2>1, <2>2, <2>3
<1>6. s \in [1..w -> Nat] /\ Len(s) = w
  <2>1. \A i \in 1..w : w - i \in 0..w
    OBVIOUS
  <2>2. \A i \in 1..w : (x \div ten[w - i]) % 10 \in Nat
    BY <1>5, <2>1
  <2> QED
    BY <1>4, <2>2
<1>7. PICK v : v = [k \in 0..w |-> x \div ten[w - k]]
  OBVIOUS
<1>8. v[0] = 0
  <2>1. x = ten[w] * 0 + x /\ x \in 0..(ten[w] - 1) /\ ten[w] \in Nat \ {0}
    BY <1>2
  <2>2. x \div ten[w] = 0
    BY <2>1, Remainder
  <2> QED
    BY <1>7, <2>2
<1>9. ASSUME NEW k \in 1..w PROVE v[k] = 10 * v[k - 1] + s[k]
  <2>1. PICK j \in 0..(w - 1) : j = w - k
    OBVIOUS
  <2>2. PICK p \in Nat \ {0} : p = ten[j] /\ ten[j + 1] = 10 * p
    BY <1>2, <2>1
  <2>3. PICK q \in Int, r \in 0..(10 * p - 1) : q = x \div (10 * p) /\ x = (10 * p) * q + r
    <3>1. PICK m \in Nat \ {0} : m = 10 * p
      OBVIOUS
    <3>2. x \div m \in Int /\ x % m \in 0..(m - 1) /\ x = m * (x \div m) + (x % m)
      BY Quotient
    <3> QED
      BY <3>1, <3>2
  <2>4. PICK d \in Int, e \in 0..(p - 1) : d = r \div p /\ r = p * d + e
    BY Quotient
  <2>5. d \in 0..9
    <3>1. ~(d >= 10)
      <4> SUFFICES ASSUME d >= 10 PROVE FALSE
        OBVIOUS
      <4>1. p * d >= p * 10
        OBVIOUS
      <4> QED
        BY <2>4, <4>1
    <3>2. ~(d <= -1)
      <4> SUFFICES ASSUME d <= -1 PROVE FALSE
        OBVIOUS
      <4>1. p * d <= -p
        OBVIOUS
      <4> QED
        BY <2>4, <4>1
    <3> QED
      BY <3>1, <3>2
  <2>6. PICK b \in Int : b = 10 * q + d
    OBVIOUS
  <2>7. x = p * b + e
    <3>1. p * b = (10 * p) * q + p * d
      BY <2>6
    <3> QED
      BY <2>3, <2>4, <3>1
  <2>8. x \div p = b
    BY <2>7, Remainder
  <2>9. b % 10 = d
    BY <2>5, <2>6, Remainder
  <2>10. v[k] = b /\ s[k] = d
    <3>1. k \in 0..w /\ w - k = j
      BY <2>1
    <3>2. v[k] = x \div ten[j] /\ s[k] = (x \div ten[j]) % 10
      BY <1>4, <1>7, <3>1
    <3> QED
      BY <2>2, <2>8, <2>9, <3>2
  <2>11. v[k - 1] = q
    <3>1. k - 1 \in 0..w /\ w - (k - 1) = j + 1
      BY <2>1
    <3> QED
      BY <1>7, <2>2, <2>3, <3>1
  <2> QED
    BY <2>6, <2>10, <2>11
<1>10. v[w] = x
  <2>1. w - w = 0 /\ x \div 1 = x
    OBVIOUS
  <2> QED
    BY <1>2, <1>7, <2>1
<1>11. Reading(s, w, v)
  BY <1>8, <1>9 DEF Reading
<1>12. ValueOf(s) = v[w]
  BY <1>6, <1>11, ReadAs
<1> QED
  BY <1>3, <1>6, <1>10, <1>12

\* Powers of ten, as far as w.
Powers(w) == /\ 10^0 = 1
             /\ \A k \in 0..w : 10^k \in Nat \ {0}
             /\ \A k \in 0..(w - 1) : 10^(k + 1) = 10 * 10^k

\* Printed are as many digits as the number has.
LEMMA Printed ==
    ASSUME NEW w \in 1..WordBits, w \in Nat, Powers(w), NEW x \in Nat, x < 10^w
    PROVE  \E k \in 1..w : Digits(x) = Padded(x, k) /\ x < 10^k
<1>1. WordBits \in Nat
  BY MoneyAssumption
<1>2. PICK ten : ten = [k \in 0..w |-> 10^k]
  OBVIOUS
<1>3. ten \in [0..w -> Nat] /\ x < ten[w] /\ w \in 1..w
  BY <1>2 DEF Powers
<1>4. PICK T : T = {k \in Nat : k \in 1..w /\ x < ten[k]}
  OBVIOUS
<1>5. w \in T
  BY <1>3, <1>4
<1>6. PICK least \in T : \A k \in T : least <= k
  BY <1>4, <1>5, Least
<1>7. \A j \in 1..(least - 1) : x >= ten[j]
  <2> SUFFICES ASSUME NEW j \in 1..(least - 1), ~(x >= ten[j]) PROVE FALSE
    OBVIOUS
  <2>1. j \in 1..w /\ j \in Nat
    BY <1>4
  <2>2. x < ten[j]
    BY <1>3, <2>1
  <2>3. least <= j
    BY <1>4, <1>6, <2>1, <2>2
  <2> QED
    BY <1>4, <2>1, <2>3
<1> DEFINE Fits(k) == x < 10^k /\ \A j \in 1..(k - 1) : x >= 10^j
<1>8. least \in 1..WordBits /\ Fits(least)
  <2>1. least \in 1..w /\ least \in 0..w /\ least \in Nat
    BY <1>4
  <2>2. ten[least] = 10^least /\ x < ten[least]
    BY <1>2, <1>4, <2>1
  <2>3. ASSUME NEW j \in 1..(least - 1) PROVE x >= 10^j
    <3>1. j \in 0..w
      BY <2>1
    <3> QED
      BY <1>2, <1>7, <3>1
  <2> QED
    BY <1>1, <2>1, <2>2, <2>3
<1>9. PICK width : width = Width(x)
  OBVIOUS
<1>10. width \in 1..WordBits /\ Fits(width)
  <2>1. width = CHOOSE k \in 1..WordBits : Fits(k)
    BY <1>9 DEF Width
  <2> HIDE DEF Fits
  <2> QED
    BY <1>8, <2>1
<1>11. width \in 1..w
  <2> SUFFICES ASSUME ~(width <= w) PROVE FALSE
    BY <1>1, <1>10
  <2>1. w \in 1..(width - 1)
    BY <1>1, <1>10
  <2>2. x >= 10^w
    BY <1>10, <2>1
  <2>3. 10^w \in Nat
    BY <1>2, <1>3
  <2> QED
    BY <2>2, <2>3
<1> QED
  BY <1>3, <1>9, <1>10, <1>11 DEF Digits

JoinedDigits(s, t, m) == ValueOf(s \o t) = ValueOf(s) * 10^m + ValueOf(t)

\* Digits after others are worth what they say, and make those worth more.
LEMMA Concatenated ==
    ASSUME NEW n \in Nat, NEW s \in [1..n -> Int], NEW m \in Nat, NEW t \in [1..m -> Int],
           Powers(m)
    PROVE  /\ ValueOf(s) \in Int /\ ValueOf(t) \in Int
           /\ s \o t \in [1..(n + m) -> Int]
           /\ JoinedDigits(s, t, m)
<1>1. PICK v \in [0..n -> Int] : Reading(s, n, v)
  BY ReadingExists
<1>2. PICK u \in [0..m -> Int] : Reading(t, m, u)
  BY ReadingExists
<1>3. Len(s) = n /\ Len(t) = m
  OBVIOUS
<1>4. ValueOf(s) = v[n] /\ ValueOf(t) = u[m] /\ v[n] \in Int /\ u[m] \in Int
  <2>1. ValueOf(s) = v[n]
    BY <1>1, <1>3, ReadAs
  <2>2. ValueOf(t) = u[m]
    BY <1>2, <1>3, ReadAs
  <2> QED
    BY <2>1, <2>2
<1>5. PICK ten : ten = [k \in 0..m |-> 10^k]
  OBVIOUS
<1>6. ten \in [0..m -> Nat] /\ ten[0] = 1 /\ \A k \in 0..(m - 1) : ten[k + 1] = 10 * ten[k]
  <2>1. ten \in [0..m -> Nat] /\ ten[0] = 1
    BY <1>5 DEF Powers
  <2>2. ASSUME NEW k \in 0..(m - 1) PROVE ten[k + 1] = 10 * ten[k]
    <3>1. k \in 0..m /\ k + 1 \in 0..m
      OBVIOUS
    <3>2. ten[k] = 10^k /\ ten[k + 1] = 10^(k + 1)
      BY <1>5, <3>1
    <3> QED
      BY <3>2 DEF Powers
  <2> QED
    BY <2>1, <2>2
<1>7. PICK c : c = s \o t
  OBVIOUS
<1>8. /\ c \in [1..(n + m) -> Int] /\ Len(c) = n + m
      /\ \A k \in 1..n : c[k] = s[k]
      /\ \A k \in 1..m : c[n + k] = t[k]
  <2>1. s \in Seq(Int) /\ t \in Seq(Int)
    OBVIOUS
  <2>2. /\ c \in Seq(Int) /\ Len(c) = n + m
        /\ \A i \in 1..(n + m) : c[i] = IF i <= n THEN s[i] ELSE t[i - n]
    BY <1>3, <1>7, <2>1, ConcatProperties
  <2>3. c \in [1..(n + m) -> Int]
    BY <2>2
  <2>4. \A k \in 1..n : c[k] = s[k]
    BY <2>2
  <2>5. ASSUME NEW k \in 1..m PROVE c[n + k] = t[k]
    <3>1. n + k \in 1..(n + m) /\ ~(n + k <= n) /\ (n + k) - n = k
      OBVIOUS
    <3> QED
      BY <2>2, <3>1
  <2> QED
    BY <2>2, <2>3, <2>4, <2>5
<1>9. PICK a \in Int : a = v[n]
  BY <1>4
<1>10. PICK z : z = [k \in 0..(n + m) |-> IF k <= n THEN v[k] ELSE a * ten[k - n] + u[k - n]]
  OBVIOUS
<1>11. \A k \in 0..m : z[n + k] = a * ten[k] + u[k]
  <2> SUFFICES ASSUME NEW k \in 0..m PROVE z[n + k] = a * ten[k] + u[k]
    OBVIOUS
  <2>1. n + k \in 0..(n + m) /\ (n + k) - n = k
    OBVIOUS
  <2>2. CASE k = 0
    <3>1. z[n] = a
      BY <1>9, <1>10, <2>1, <2>2
    <3>2. a * ten[0] + u[0] = a
      BY <1>2, <1>6 DEF Reading
    <3> QED
      BY <2>2, <3>1, <3>2
  <2>3. CASE k # 0
    BY <1>10, <2>1, <2>3
  <2> QED
    BY <2>2, <2>3
<1>12. z[0] = 0
  BY <1>1, <1>10 DEF Reading
<1>13. ASSUME NEW k \in 1..(n + m) PROVE z[k] = 10 * z[k - 1] + c[k]
  <2>1. CASE k <= n
    <3>1. k \in 1..n /\ k - 1 \in 0..(n + m) /\ k - 1 <= n /\ k \in 0..(n + m)
      BY <2>1
    <3> QED
      BY <1>1, <1>8, <1>10, <3>1 DEF Reading
  <2>2. CASE ~(k <= n)
    <3>1. PICK j \in 1..m : k = n + j
      <4>1. k - n \in 1..m /\ k = n + (k - n)
        BY <2>2
      <4> QED
        BY <4>1
    <3>2. j - 1 \in 0..(m - 1) /\ j - 1 \in 0..m /\ j \in 0..m /\ (j - 1) + 1 = j
          /\ k - 1 = n + (j - 1)
      BY <3>1
    <3>3. PICK p \in Nat : p = ten[j - 1]
      BY <1>6, <3>2
    <3>4. ten[j] = 10 * p
      BY <1>6, <3>2, <3>3
    <3>5. PICK b \in Int, d \in Int : b = u[j - 1] /\ d = t[j]
      BY <3>2
    <3>6. u[j] = 10 * b + d
      BY <1>2, <3>5 DEF Reading
    <3>7. z[k] = a * (10 * p) + (10 * b + d)
      BY <1>11, <3>1, <3>2, <3>4, <3>6
    <3>8. z[k - 1] = a * p + b
      BY <1>11, <3>2, <3>3, <3>5
    <3>9. c[k] = d
      BY <1>8, <3>1, <3>5
    <3>10. a * (10 * p) + (10 * b + d) = 10 * (a * p + b) + d
      OBVIOUS
    <3> QED
      BY <3>7, <3>8, <3>9, <3>10
  <2> QED
    BY <2>1, <2>2
<1>14. Reading(c, n + m, z)
  BY <1>12, <1>13 DEF Reading
<1>15. ValueOf(c) = z[n + m]
  <2>1. PICK l \in Nat : l = n + m
    OBVIOUS
  <2> QED
    BY <1>8, <1>14, <2>1, ReadAs
<1>16. z[n + m] = a * 10^m + u[m]
  <2>1. m \in 0..m
    OBVIOUS
  <2> QED
    BY <1>5, <1>11, <2>1
<1> QED
  BY <1>4, <1>7, <1>8, <1>9, <1>15, <1>16 DEF JoinedDigits

\* Noughts are worth nothing.
LEMMA Noughts ==
    ASSUME NEW m \in Nat
    PROVE  [i \in 1..m |-> 0] \in [1..m -> Int] /\ ValueOf([i \in 1..m |-> 0]) = 0
<1>1. PICK s : s = [i \in 1..m |-> 0]
  OBVIOUS
<1>2. PICK v : v = [k \in 0..m |-> 0]
  OBVIOUS
<1>3. Len(s) = m
  BY <1>1
<1>4. Reading(s, m, v)
  BY <1>1, <1>2 DEF Reading
<1>5. ValueOf(s) = v[m]
  BY <1>3, <1>4, ReadAs
<1> QED
  BY <1>1, <1>2, <1>5

LEMMA Magnitude ==
    ASSUME NEW m \in Milliunits
    PROVE  /\ m \in Int /\ magnitude(m) \in Nat /\ magnitude(m) <= 2^(WordBits - 1)
           /\ m = IF m < 0 THEN -magnitude(m) ELSE magnitude(m)
<1>1. PICK h \in Nat \ {0} : h = 2^(WordBits - 1)
  BY HalvesAssumption
<1>2. MinMilliunits = -h /\ m \in (-h)..(h - 1)
  BY <1>1 DEF Milliunits, MinMilliunits
<1> QED
  BY <1>1, <1>2 DEF magnitude

\* A word has room for its numbers, in w digits.
Wide(w) == /\ w \in 1..WordBits /\ w \in Nat
           /\ 2^WordBits <= 10^w
           /\ 10^0 = 1 /\ 10^1 = 10 /\ 10^2 = 100 /\ 10^3 = 1000
           /\ Powers(w) /\ \A k \in 0..3 : Powers(k)

LEMMA WideExists == \E w : Wide(w)
<1>1. PICK w \in 1..WordBits :
        /\ w \in Nat /\ 2^WordBits <= 10^w
        /\ 10^0 = 1 /\ 10^1 = 10 /\ 10^2 = 100 /\ 10^3 = 1000
        /\ \A k \in 0..(w + 4) : 10^k \in Nat \ {0}
        /\ \A k \in 0..(w + 3) : 10^(k + 1) = 10 * 10^k
  BY Tens
<1>2. ASSUME NEW n \in Nat, n <= w + 4 PROVE Powers(n)
  <2>1. \A k \in 0..n : k \in 0..(w + 4)
    BY <1>1, <1>2
  <2>2. \A k \in 0..(n - 1) : k \in 0..(w + 3)
    BY <1>1, <1>2
  <2> QED
    BY <1>1, <2>1, <2>2 DEF Powers
<1>3. Powers(w)
  BY <1>1, <1>2
<1>4. \A k \in 0..3 : Powers(k)
  BY <1>1, <1>2
<1> QED
  BY <1>1, <1>3, <1>4 DEF Wide

\* A number printed in two pieces, the second of d digits, is read back.
LEMMA PrintedApart ==
    ASSUME NEW w, Wide(w), NEW x \in Nat, x < 10^w, NEW d \in 0..3
    PROVE  \E n \in Nat \ {0} :
               /\ Digits(x \div 10^d) \in [1..n -> Int]
               /\ Padded(x % 10^d, d) \in [1..d -> Int] /\ Len(Padded(x % 10^d, d)) = d
               /\ ValueOf(Digits(x \div 10^d) \o Padded(x % 10^d, d)) = x
<1>1. w \in 1..WordBits /\ w \in Nat /\ Powers(w) /\ Powers(d) /\ 10^w \in Nat
  <2>1. w \in 1..WordBits /\ w \in Nat /\ Powers(w) /\ Powers(d) /\ w \in 0..w
    BY DEF Wide
  <2>2. 10^w \in Nat
    BY <2>1 DEF Powers
  <2> QED
    BY <2>1, <2>2
<1>2. PICK p \in Nat \ {0} : p = 10^d
  <2>1. d \in 0..d
    OBVIOUS
  <2> QED
    BY <1>1, <2>1 DEF Powers
<1>3. PICK q \in Int, r \in 0..(p - 1) : q = x \div p /\ r = x % p /\ x = p * q + r
  <2>0. x \in Int
    OBVIOUS
  <2>1. x \div p \in Int /\ x % p \in 0..(p - 1) /\ x = p * (x \div p) + (x % p)
    BY <2>0, Quotient
  <2> QED
    BY <2>1
<1>4. q \in Nat /\ q <= x
  <2>1. ~(q <= -1)
    <3> SUFFICES ASSUME q <= -1 PROVE FALSE
      OBVIOUS
    <3>1. p * q <= -p
      OBVIOUS
    <3> QED
      BY <1>3, <3>1
  <2>2. q \in Nat
    BY <2>1
  <2>3. p * q >= q
    BY <2>2
  <2> QED
    BY <1>3, <2>2, <2>3
<1>5. q < 10^w /\ r < 10^d /\ r \in Nat
  BY <1>1, <1>2, <1>3, <1>4
<1>6. PICK n \in 1..w : Digits(q) = Padded(q, n) /\ q < 10^n
  BY <1>1, <1>4, <1>5, Printed
<1>7. /\ Padded(q, n) \in [1..n -> Nat] /\ ValueOf(Padded(q, n)) = q
  <2>1. /\ n \in Nat /\ 10^0 = 1
        /\ \A k \in 0..n : 10^k \in Nat \ {0}
        /\ \A k \in 0..(n - 1) : 10^(k + 1) = 10 * 10^k
    <3>1. (\A k \in 0..n : k \in 0..w) /\ (\A k \in 0..(n - 1) : k \in 0..(w - 1)) /\ n \in Nat
      BY <1>1
    <3> QED
      BY <1>1, <3>1 DEF Powers
  <2> QED
    BY <1>4, <1>6, <2>1, DigitsValue
<1>8. /\ Padded(r, d) \in [1..d -> Nat] /\ Len(Padded(r, d)) = d /\ ValueOf(Padded(r, d)) = r
  <2>1. /\ d \in Nat /\ 10^0 = 1
        /\ \A k \in 0..d : 10^k \in Nat \ {0}
        /\ \A k \in 0..(d - 1) : 10^(k + 1) = 10 * 10^k
    BY <1>1 DEF Powers
  <2> QED
    BY <1>5, <2>1, DigitsValue
<1>9. n \in Nat \ {0} /\ d \in Nat /\ Padded(q, n) \in [1..n -> Int] /\ Padded(r, d) \in [1..d -> Int]
  BY <1>1, <1>7, <1>8
<1>10. ValueOf(Padded(q, n) \o Padded(r, d)) = q * 10^d + r
  <2>1. PICK s \in [1..n -> Int], t \in [1..d -> Int] : s = Padded(q, n) /\ t = Padded(r, d)
    BY <1>9
  <2>2. JoinedDigits(s, t, d)
    BY <1>1, <1>9, <2>1, Concatenated
  <2> QED
    BY <1>7, <1>8, <2>1, <2>2 DEF JoinedDigits
<1>11. q * 10^d + r = x
  BY <1>2, <1>3
<1> QED
  BY <1>2, <1>3, <1>6, <1>8, <1>9, <1>10, <1>11

\* A text with f decimals is worth the digits it has, times what those it
\* leaves out are worth.
Worth(t, f) ==
    /\ ValueOf(t.int \o t.frac) \in Int
    /\ 10^f \in Nat /\ 10^(3 - f) \in Nat /\ 10^f * 10^(3 - f) = 1000
    /\ Milli(t) = (IF t.sign = "-" THEN -1 ELSE 1) * (ValueOf(t.int \o t.frac) * 10^(3 - f))

LEMMA ReadText ==
    ASSUME NEW w, Wide(w), NEW t, NEW n \in Nat, NEW f \in 0..3,
           t.int \in [1..n -> Int], t.frac \in [1..f -> Int]
    PROVE  Worth(t, f)
<1>1. Len(t.frac) = f
  OBVIOUS
<1>2. PICK z : z = [i \in 1..(3 - f) |-> 0]
  OBVIOUS
<1>3. PICK k \in 0..3 : k = 3 - f
  OBVIOUS
<1>4. z \in [1..k -> Int] /\ ValueOf(z) = 0
  BY <1>2, <1>3, Noughts
<1>5. f \in Nat /\ k \in Nat /\ Powers(f) /\ Powers(k)
  BY DEF Wide
<1>6. PICK whole \in [1..n -> Int], part \in [1..f -> Int] : whole = t.int /\ part = t.frac
  OBVIOUS
<1>7. PICK s : s = whole \o part
  OBVIOUS
<1>8. PICK l \in Nat : l = n + f /\ s \in [1..l -> Int]
  <2>1. whole \o part \in [1..(n + f) -> Int]
    BY <1>5, Concatenated
  <2> QED
    BY <1>5, <1>7, <2>1
<1>9. ValueOf(s) \in Int /\ ValueOf(s \o z) = ValueOf(s) * 10^k + 0
  <2>1. PICK y \in [1..k -> Int], x \in [1..l -> Int] : y = z /\ x = s
    BY <1>4, <1>8
  <2>2. s \in [1..l -> Int] /\ k \in Nat /\ Powers(k)
    BY <1>5, <1>8
  <2>3. ValueOf(x) \in Int
    BY <2>2, Concatenated
  <2>4. JoinedDigits(x, y, k)
    BY <2>2, Concatenated
  <2> QED
    BY <1>4, <2>1, <2>3, <2>4 DEF JoinedDigits
<1>10. PICK p \in Nat, a \in Nat : p = 10^f /\ a = 10^k /\ p * a = 1000
  <2>1. 10^0 = 1 /\ 10^1 = 10 /\ 10^2 = 100 /\ 10^3 = 1000
    BY DEF Wide
  <2>2. CASE f = 0 /\ k = 3
    BY <2>1, <2>2
  <2>3. CASE f = 1 /\ k = 2
    BY <2>1, <2>3
  <2>4. CASE f = 2 /\ k = 1
    BY <2>1, <2>4
  <2>5. CASE f = 3 /\ k = 0
    BY <2>1, <2>5
  <2> QED
    BY <1>3, <2>2, <2>3, <2>4, <2>5
<1>11. Milli(t) = (IF t.sign = "-" THEN -1 ELSE 1) * ValueOf(s \o z)
  BY <1>1, <1>2, <1>6, <1>7 DEF Milli
<1>12. PICK v \in Int : v = ValueOf(s)
  BY <1>9
<1>13. ValueOf(s \o z) = v * a
  <2>1. v * a \in Int
    OBVIOUS
  <2> QED
    BY <1>9, <1>10, <1>12, <2>1
<1>14. v = ValueOf(t.int \o t.frac)
  BY <1>6, <1>7, <1>12
<1>15. Milli(t) = (IF t.sign = "-" THEN -1 ELSE 1) * (v * a)
  BY <1>11, <1>13
<1> QED
  BY <1>3, <1>10, <1>14, <1>15 DEF Worth

\* What String prints parses, to the amount.
LEMMA PrintedIsRead ==
    ASSUME NEW m \in Milliunits
    PROVE  /\ Parses(String(m)) /\ Milli(String(m)) = m
           /\ \E n \in Nat : String(m).int \in [1..n -> Int]
           /\ String(m).frac \in [1..3 -> Int]
<1>1. PICK w : Wide(w)
  BY WideExists
<1>2. PICK x \in Nat : x = magnitude(m)
  BY Magnitude
<1>3. x < 10^w /\ 10^3 = 1000
  <2>1. PICK h \in Nat \ {0} : h = 2^(WordBits - 1)
    BY HalvesAssumption
  <2>2. 2^WordBits = 2 * h /\ x <= h
    BY <1>2, <2>1, HalvesAssumption, Magnitude
  <2>3. w \in 0..w /\ 10^w \in Nat
    BY <1>1 DEF Wide, Powers
  <2> QED
    BY <1>1, <2>1, <2>2, <2>3 DEF Wide
<1>4. PICK n \in Nat \ {0} :
        /\ Digits(x \div 1000) \in [1..n -> Int]
        /\ Padded(x % 1000, 3) \in [1..3 -> Int] /\ Len(Padded(x % 1000, 3)) = 3
        /\ ValueOf(Digits(x \div 1000) \o Padded(x % 1000, 3)) = x
  <2>1. 3 \in 0..3
    OBVIOUS
  <2>2. \E n \in Nat \ {0} :
               /\ Digits(x \div 10^3) \in [1..n -> Int]
               /\ Padded(x % 10^3, 3) \in [1..3 -> Int] /\ Len(Padded(x % 10^3, 3)) = 3
               /\ ValueOf(Digits(x \div 10^3) \o Padded(x % 10^3, 3)) = x
    BY <1>1, <1>3, <2>1, PrintedApart
  <2> QED
    BY <1>3, <2>2
<1>5. PICK t : t = String(m)
  OBVIOUS
<1>6. /\ t.sign = IF m < 0 THEN "-" ELSE ""
      /\ t.int = Digits(x \div 1000) /\ t.dot = TRUE /\ t.frac = Padded(x % 1000, 3)
  BY <1>2, <1>5 DEF String
<1>7. PICK whole \in [1..n -> Int], part \in [1..3 -> Int] :
        whole = Digits(x \div 1000) /\ part = Padded(x % 1000, 3)
  BY <1>4
<1>8. /\ t.int = whole /\ t.frac = part
      /\ Len(whole) = n /\ Len(part) = 3 /\ whole # <<>>
  <2>1. Len(whole) = n /\ Len(part) = 3
    OBVIOUS
  <2>2. whole # <<>>
    BY <2>1
  <2> QED
    BY <1>6, <1>7, <2>1, <2>2
<1>9. PICK v \in Int : /\ v = ValueOf(t.int \o t.frac)
                       /\ Milli(t) = (IF t.sign = "-" THEN -1 ELSE 1) * (v * 1)
  <2>1. PICK f \in 0..3 : f = 3
    OBVIOUS
  <2>2. n \in Nat /\ t.int \in [1..n -> Int] /\ t.frac \in [1..f -> Int]
    BY <1>8, <2>1
  <2>3. Worth(t, f)
    BY <1>1, <2>2, ReadText
  <2>4. 10^0 = 1
    BY <1>1 DEF Wide
  <2>5. 10^(3 - f) = 1
    BY <2>1, <2>4
  <2>6. PICK v \in Int : v = ValueOf(t.int \o t.frac)
    BY <2>3 DEF Worth
  <2>7. Milli(t) = (IF t.sign = "-" THEN -1 ELSE 1) * (v * 10^(3 - f))
    BY <2>3, <2>6 DEF Worth
  <2> QED
    BY <2>5, <2>6, <2>7
<1>10. v = x
  <2>1. ValueOf(whole \o part) = x
    BY <1>4, <1>7
  <2> QED
    BY <1>8, <1>9, <2>1
<1>11. m = IF m < 0 THEN -x ELSE x
  BY <1>2, Magnitude
<1>12. Milli(t) = m
  <2>1. CASE m < 0
    BY <1>6, <1>9, <1>10, <1>11, <2>1
  <2>2. CASE ~(m < 0)
    <3>1. t.sign # "-"
      BY <1>6, <2>2
    <3> QED
      BY <1>9, <1>10, <1>11, <2>2, <3>1
  <2> QED
    BY <2>1, <2>2
<1>13. Parses(t)
  <2>1. t.int # <<>> /\ Len(t.frac) \in 1..3
    BY <1>8
  <2> QED
    BY <1>12, <2>1 DEF Parses
<1>14. t.int \in [1..n -> Int] /\ t.frac \in [1..3 -> Int]
  BY <1>8
<1> QED
  BY <1>5, <1>12, <1>13, <1>14

Exact(t) == Milli(t) * 10^Len(t.frac) =
                1000 * ValueOf(t.int \o t.frac) * (IF t.sign = "-" THEN -1 ELSE 1)

\* What a text is worth, whatever it leaves out.
LEMMA WorthExactly ==
    ASSUME NEW t, NEW f \in 0..3, Worth(t, f), Len(t.frac) = f
    PROVE  Exact(t)
<1>1. PICK v \in Int : v = ValueOf(t.int \o t.frac)
  BY DEF Worth
<1>2. PICK p \in Nat, a \in Nat : p = 10^f /\ a = 10^(3 - f) /\ p * a = 1000
  BY DEF Worth
<1>3. PICK s \in {-1, 1} : s = IF t.sign = "-" THEN -1 ELSE 1
  OBVIOUS
<1>4. Milli(t) = s * (v * a)
  BY <1>1, <1>2, <1>3 DEF Worth
<1>5. PICK x \in Int : x = v * a
  OBVIOUS
<1>6. x * p = 1000 * v
  <2>1. x * p = v * (p * a)
    BY <1>5
  <2> QED
    BY <1>2, <2>1
<1>7. (s * x) * p = 1000 * v * s
  <2>1. CASE s = 1
    BY <1>6, <2>1
  <2>2. CASE s = -1
    <3>1. (-x) * p = -(x * p)
      OBVIOUS
    <3> QED
      BY <1>6, <2>2, <3>1
  <2> QED
    BY <2>1, <2>2
<1>8. Milli(t) = s * x /\ s * x \in Int
  BY <1>4, <1>5
<1> QED
  BY <1>1, <1>2, <1>3, <1>7, <1>8 DEF Exact

-----------------------------------------------------------------------------
(* Amounts rendered.                                                        *)

\* Digits grouped by threes from the right are still those digits.
LEMMA Groups ==
    ASSUME NEW n \in Nat \ {0}, NEW S, NEW s \in [1..n -> S]
    PROVE  /\ FlattenSeq(groupDigits(s)) = s
           /\ \A g \in DOMAIN groupDigits(s) :
                  Len(groupDigits(s)[g]) \in IF g = 1 THEN 1..3 ELSE {3}
<1>1. Len(s) = n /\ s \in Seq(S)
  OBVIOUS
<1>2. PICK lead \in 1..3 : lead = IF n % 3 = 0 THEN 3 ELSE n % 3
  OBVIOUS
<1>3. PICK count \in Nat \ {0} : count = (n + 2) \div 3
  OBVIOUS
<1>4. lead + 3 * (count - 1) = n
  BY <1>2, <1>3
<1>5. PICK end : end = [g \in 0..count |-> IF g = 0 THEN 0 ELSE lead + 3 * (g - 1)]
  OBVIOUS
<1>6. /\ end \in [0..count -> Nat] /\ end[0] = 0 /\ end[count] = n
      /\ \A g \in 1..count : /\ end[g] <= n
                             /\ end[g] - end[g - 1] \in IF g = 1 THEN 1..3 ELSE {3}
  BY <1>2, <1>4, <1>5
<1>7. PICK groups : groups = groupDigits(s)
  OBVIOUS
<1>8. groups = [g \in 1..count |-> SubSeq(s, end[g - 1] + 1, end[g])]
  <2>1. groups = [g \in 1..count |-> SubSeq(s, IF g = 1 THEN 1 ELSE lead + 3 * (g - 2) + 1,
                                            lead + 3 * (g - 1))]
    BY <1>1, <1>2, <1>3, <1>7 DEF groupDigits
  <2>2. ASSUME NEW g \in 1..count
        PROVE  /\ end[g - 1] + 1 = IF g = 1 THEN 1 ELSE lead + 3 * (g - 2) + 1
               /\ end[g] = lead + 3 * (g - 1)
    <3>1. g \in 0..count /\ g - 1 \in 0..count /\ g # 0 /\ (g - 1) - 1 = g - 2
      OBVIOUS
    <3>2. end[g] = lead + 3 * (g - 1)
      BY <1>5, <3>1
    <3>3. CASE g = 1
      BY <1>6, <3>2, <3>3
    <3>4. CASE g # 1
      <4>1. g - 1 # 0
        BY <3>4
      <4>2. end[g - 1] = lead + 3 * (g - 2)
        BY <1>5, <3>1, <4>1
      <4> QED
        BY <3>2, <3>4, <4>2
    <3> QED
      BY <3>3, <3>4
  <2> QED
    BY <2>1, <2>2
<1>9. Len(groups) = count /\ DOMAIN groups = 1..count
  BY <1>8
<1>10. \A g \in 1..count : Len(groups[g]) \in IF g = 1 THEN 1..3 ELSE {3}
  <2> SUFFICES ASSUME NEW g \in 1..count
               PROVE  Len(groups[g]) \in IF g = 1 THEN 1..3 ELSE {3}
    OBVIOUS
  <2>1. PICK a \in Int, b \in Int : a = end[g - 1] + 1 /\ b = end[g]
    <3>1. g - 1 \in 0..count /\ g \in 0..count
      OBVIOUS
    <3>2. end \in [0..count -> Nat]
      BY <1>6
    <3>3. end[g - 1] + 1 \in Int /\ end[g] \in Int
      BY <3>1, <3>2
    <3> QED
      BY <3>3
  <2>2. a >= 1 /\ b <= n /\ b - a + 1 \in (IF g = 1 THEN 1..3 ELSE {3})
    <3>1. g - 1 \in 0..count
      OBVIOUS
    <3>2. end[g - 1] \in Nat
      <4>1. end \in [0..count -> Nat]
        BY <1>6
      <4> QED
        BY <3>1, <4>1
    <3>3. end[g] <= n /\ end[g] - end[g - 1] \in IF g = 1 THEN 1..3 ELSE {3}
      BY <1>6
    <3>4. b - a + 1 = end[g] - end[g - 1]
      BY <2>1, <3>2
    <3> QED
      BY <2>1, <3>2, <3>3, <3>4
  <2>3. \A i \in a..b : s[i] \in S
    BY <2>2
  <2>4. Len(SubSeq(s, a, b)) = IF a <= b THEN b - a + 1 ELSE 0
    BY <2>3, SubSeqProperties
  <2>5. groups[g] = SubSeq(s, a, b)
    BY <1>8, <2>1
  <2> QED
    BY <2>2, <2>4, <2>5
<1>11. PICK h : h = [g \in 1..count |-> SubSeq(s, 1, end[g])]
  OBVIOUS
<1>12. ASSUME NEW g \in 1..count
       PROVE  h[g] = IF g = 1 THEN groups[g] ELSE h[g - 1] \o groups[g]
  <2>1. CASE g = 1
    <3>1. end[g - 1] + 1 = 1
      BY <1>6, <2>1
    <3> QED
      BY <1>8, <1>11, <2>1, <3>1
  <2>2. CASE g # 1
    <3>1. g - 1 \in 1..count /\ g - 1 \in 0..count /\ g \in 0..count
      BY <2>2
    <3>2. PICK k \in 0..n : \E l \in k..n : k = end[g - 1] /\ l = end[g]
      <4>1. end[g - 1] \in Nat /\ end[g] \in Nat /\ end[g] <= n /\ end[g] - end[g - 1] = 3
        BY <1>6, <2>2, <3>1
      <4> QED
        BY <4>1
    <3>3. PICK l \in k..n : k = end[g - 1] /\ l = end[g]
      BY <3>2
    <3>4. SubSeq(s, 1, k) \o SubSeq(s, k + 1, l) = SubSeq(s, 1, l)
      <4>1. PICK m \in 1..(Len(s) + 1) : m = 1
        BY <1>1
      <4>2. k \in (m - 1)..Len(s) /\ l \in k..Len(s)
        BY <1>1, <4>1
      <4>3. SubSeq(s, m, k) \o SubSeq(s, k + 1, l) = SubSeq(s, m, l)
        BY <1>1, <4>2, ConcatAdjacentSubSeq
      <4> QED
        BY <4>1, <4>3
    <3> QED
      BY <1>8, <1>11, <2>2, <3>1, <3>3, <3>4
  <2> QED
    BY <2>1, <2>2
<1>13. PICK f : f = CHOOSE x : x = [i \in 1..count |-> IF i = 1 THEN groups[i] ELSE x[i - 1] \o groups[i]]
  OBVIOUS
<1>14. f = [i \in 1..count |-> IF i = 1 THEN groups[i] ELSE f[i - 1] \o groups[i]]
  <2>1. h = [i \in 1..count |-> IF i = 1 THEN groups[i] ELSE h[i - 1] \o groups[i]]
    BY <1>11, <1>12
  <2> QED
    BY <1>13, <2>1
<1>15. PICK T : T = {k \in Nat : k + 1 <= count => f[k + 1] = h[k + 1]}
  OBVIOUS
<1>16. 0 \in T
  <2>1. 1 \in 1..count /\ 0 + 1 = 1
    OBVIOUS
  <2>2. f[1] = groups[1] /\ h[1] = groups[1]
    BY <1>12, <1>14, <2>1
  <2> QED
    BY <1>15, <2>1, <2>2
<1>17. ASSUME NEW k \in Nat, k \in T PROVE k + 1 \in T
  <2> SUFFICES ASSUME (k + 1) + 1 <= count PROVE f[(k + 1) + 1] = h[(k + 1) + 1]
    BY <1>15
  <2>1. f[k + 1] = h[k + 1]
    BY <1>15, <1>17
  <2>2. PICK i \in 1..count : i = (k + 1) + 1 /\ i # 1 /\ i - 1 = k + 1
    OBVIOUS
  <2>3. f[i] = f[i - 1] \o groups[i]
    BY <1>14, <2>2
  <2>4. h[i] = h[i - 1] \o groups[i]
    BY <1>12, <2>2
  <2> QED
    BY <2>1, <2>2, <2>3, <2>4
<1>18. f[count] = h[count]
  <2>1. Nat \subseteq T
    BY <1>16, <1>17, Induction
  <2>2. count - 1 \in T /\ (count - 1) + 1 = count
    BY <2>1
  <2> QED
    BY <1>15, <2>2
<1>19. h[count] = s
  <2>1. h[count] = SubSeq(s, 1, n)
    BY <1>6, <1>11
  <2> QED
    BY <1>1, <2>1, SubSeqFull
<1>20. FlattenSeq(groups) = f[count]
  BY <1>9, <1>13 DEF FlattenSeq
<1> QED
  BY <1>7, <1>9, <1>10, <1>18, <1>19, <1>20

\* The magnitude rescaled is the nearest number of that unit, upward from half.
LEMMA Scaled ==
    ASSUME NEW w, Wide(w), NEW m \in Milliunits, NEW d \in 0..3
    PROVE  \E u \in Nat, p \in Nat \ {0} :
               /\ u = Rescaled(magnitude(m), d) /\ u < 10^w
               /\ p = 10^(3 - d)
               /\ 2 * (u * p - magnitude(m)) \in (1 - p)..p
<1>1. PICK h \in Nat \ {0} : h = 2^(WordBits - 1)
  BY HalvesAssumption
<1>2. PICK x \in Nat : x = magnitude(m) /\ x <= h
  BY <1>1, Magnitude
<1>3. PICK p \in Nat \ {0} : p = 10^(3 - d) /\ p <= 1000
  <2>1. 10^0 = 1 /\ 10^1 = 10 /\ 10^2 = 100 /\ 10^3 = 1000
    BY DEF Wide
  <2>2. CASE d = 0
    BY <2>1, <2>2
  <2>3. CASE d = 1
    BY <2>1, <2>3
  <2>4. CASE d = 2
    BY <2>1, <2>4
  <2>5. CASE d = 3
    BY <2>1, <2>5
  <2> QED
    BY <2>2, <2>3, <2>4, <2>5
<1>4. PICK half \in Nat : half = p \div 2 /\ 2 * half <= p /\ 2 * half >= p - 1 /\ half <= 500
  BY <1>3
<1>5. PICK y \in Nat : y = x + half /\ y < 2 * h
  BY <1>1, <1>2, <1>4, ShownAssumption
<1>6. Unsigned(y) = y
  <2>1. y % (2 * h) = y
    BY <1>5
  <2> QED
    BY <1>1, <2>1, HalvesAssumption DEF Unsigned
<1>7. PICK u \in Int, r \in 0..(p - 1) : u = y \div p /\ y = p * u + r
  <2>1. y \in Int
    OBVIOUS
  <2>2. y \div p \in Int /\ y % p \in 0..(p - 1) /\ y = p * (y \div p) + (y % p)
    BY <2>1, Quotient
  <2> QED
    BY <2>2
<1>8. u = Rescaled(x, d)
  BY <1>3, <1>4, <1>5, <1>6, <1>7 DEF Rescaled
<1>9. u \in Nat /\ u <= y
  <2>1. ~(u <= -1)
    <3> SUFFICES ASSUME u <= -1 PROVE FALSE
      OBVIOUS
    <3>1. p * u <= -p
      OBVIOUS
    <3> QED
      BY <1>7, <3>1
  <2>2. u \in Nat
    BY <2>1
  <2>3. p * u >= u
    BY <2>2
  <2> QED
    BY <1>7, <2>2, <2>3
<1>10. u < 10^w
  <2>1. 2 * h <= 10^w
    BY <1>1, HalvesAssumption DEF Wide
  <2>2. w \in 0..w /\ Powers(w)
    BY DEF Wide
  <2>3. 10^w \in Nat
    BY <2>2 DEF Powers
  <2> QED
    BY <1>5, <1>9, <2>1, <2>3
<1>11. 2 * (u * p - x) \in (1 - p)..p
  <2>1. PICK v \in Int : v = p * u
    OBVIOUS
  <2>2. u * p = v
    BY <2>1
  <2> QED
    BY <1>4, <1>5, <1>7, <2>1, <2>2
<1> QED
  BY <1>2, <1>3, <1>8, <1>9, <1>10, <1>11

-----------------------------------------------------------------------------
(* Years and months have the lengths that IsLeap and MonthDays say.          *)

LEMMA YearsOfWire == WireYears \subseteq Int
<1>1. LastYear \in Int
  BY DEF LastYear
<1> QED
  BY <1>1 DEF WireYears

LEMMA YearLength ==
    ASSUME NEW y \in Int
    PROVE  /\ YearStart(y) \in Int
           /\ YearStart(y + 1) = YearStart(y) + IF IsLeap(y) THEN 366 ELSE 365
  BY SMTT(60) DEF YearStart, IsLeap

LEMMA YearsGrow ==
    ASSUME NEW a \in Int, NEW b \in Int, a <= b
    PROVE  YearStart(a) <= YearStart(b)
  BY SMTT(60) DEF YearStart

LEMMA MonthTypes ==
    ASSUME NEW y \in Int, NEW m \in 1..12
    PROVE  MonthStart(y, m) \in Int /\ MonthDays(y, m) \in Int /\ MonthDays(y, m) \in 28..31
<1>1. YearStart(y) \in Int
  BY YearLength
<1> QED
  BY <1>1 DEF MonthStart, MonthDays

LEMMA MonthLength ==
    ASSUME NEW y \in Int, NEW m \in 1..12
    PROVE  /\ MonthStart(y, 1) = YearStart(y)
           /\ m < 12 => MonthStart(y, m + 1) = MonthStart(y, m) + MonthDays(y, m)
           /\ m = 12 => YearStart(y + 1) = MonthStart(y, m) + MonthDays(y, m)
<1>1. m = 1 \/ m = 2 \/ m = 3 \/ m = 4 \/ m = 5 \/ m = 6 \/ m = 7 \/ m = 8 \/ m = 9
        \/ m = 10 \/ m = 11 \/ m = 12
  OBVIOUS
<1>2. YearStart(y) \in Int
  BY YearLength
<1> QED
  BY <1>1, <1>2, YearLength, SMTT(60) DEF MonthStart, MonthDays

\* 400 years are 146097 days, and no year begins far from its share of them.
LEMMA YearNear ==
    ASSUME NEW y \in Int
    PROVE  /\ 400 * YearStart(y) >= 146097 * y - 400
           /\ 400 * YearStart(y) <= 146097 * y + 700
  BY SMTT(60) DEF YearStart

LEMMA YearExists ==
    ASSUME NEW n \in Int, NEW a \in Int, a = (400 * n) \div 146097
    PROVE  \E k \in (a - 1)..(a + 1) : YearStart(k) <= n /\ n < YearStart(k + 1)
<1>1. 146097 * a <= 400 * n /\ 400 * n < 146097 * a + 146097
  OBVIOUS
<1>2. /\ YearStart(a - 1) \in Int /\ YearStart(a) \in Int
      /\ YearStart(a + 1) \in Int /\ YearStart(a + 2) \in Int
  BY YearLength
<1>3. YearStart(a - 1) <= n
  <2>1. 400 * YearStart(a - 1) <= 146097 * (a - 1) + 700
    BY YearNear
  <2> QED
    BY <1>1, <1>2, <2>1
<1>4. n < YearStart(a + 2)
  <2>1. 400 * YearStart(a + 2) >= 146097 * (a + 2) - 400
    BY YearNear
  <2> QED
    BY <1>1, <1>2, <2>1
<1>5. CASE n < YearStart(a)
  <2>1. a - 1 \in (a - 1)..(a + 1) /\ (a - 1) + 1 = a
    OBVIOUS
  <2> QED
    BY <1>3, <1>5, <2>1
<1>6. CASE YearStart(a) <= n /\ n < YearStart(a + 1)
  BY <1>6
<1>7. CASE YearStart(a + 1) <= n
  <2>1. a + 1 \in (a - 1)..(a + 1) /\ (a + 1) + 1 = a + 2
    OBVIOUS
  <2> QED
    BY <1>4, <1>7, <2>1
<1> QED
  BY <1>2, <1>5, <1>6, <1>7

-----------------------------------------------------------------------------
(* Days and their numbers.                                                  *)

\* Every day of a year is in one of its months.
LEMMA MonthExists ==
    ASSUME NEW y \in Int, NEW n \in Int, YearStart(y) <= n, n < YearStart(y + 1)
    PROVE  \E k \in 1..12 : MonthStart(y, k) <= n /\ n < MonthStart(y, k) + MonthDays(y, k)
<1>1. PICK first : first = [k \in 1..12 |-> MonthStart(y, k)]
  OBVIOUS
<1>2. PICK days : days = [k \in 1..12 |-> MonthDays(y, k)]
  OBVIOUS
<1>3. first \in [1..12 -> Int] /\ days \in [1..12 -> Int]
  <2>1. \A k \in 1..12 : MonthStart(y, k) \in Int /\ MonthDays(y, k) \in Int
    BY MonthTypes
  <2> QED
    BY <1>1, <1>2, <2>1
<1>4. first[1] <= n /\ n < first[12] + days[12]
  <2>1. MonthStart(y, 1) = YearStart(y) /\ YearStart(y + 1) = MonthStart(y, 12) + MonthDays(y, 12)
    BY MonthLength
  <2> QED
    BY <1>1, <1>2, <2>1
<1>5. \A k \in 1..11 : first[k + 1] = first[k] + days[k]
  <2> SUFFICES ASSUME NEW k \in 1..11
               PROVE  first[k + 1] = first[k] + days[k]
    OBVIOUS
  <2>1. k \in 1..12 /\ k < 12 /\ k + 1 \in 1..12
    OBVIOUS
  <2>2. MonthStart(y, k + 1) = MonthStart(y, k) + MonthDays(y, k)
    BY <2>1, MonthLength
  <2> QED
    BY <1>1, <1>2, <2>1, <2>2
<1>6. \E k \in 1..12 : first[k] <= n /\ n < first[k] + days[k]
  <2> SUFFICES ASSUME \A k \in 1..12 : first[k] <= n => n >= first[k] + days[k]
               PROVE  FALSE
    BY <1>3
  <2>1. \A k \in 1..11 : first[k] <= n => first[k + 1] <= n
    BY <1>3, <1>5
  <2>2. first[2] <= n /\ first[3] <= n /\ first[4] <= n /\ first[5] <= n
    BY <1>4, <2>1
  <2>3. first[6] <= n /\ first[7] <= n /\ first[8] <= n /\ first[9] <= n
    BY <2>2, <2>1
  <2>4. first[10] <= n /\ first[11] <= n /\ first[12] <= n
    BY <2>3, <2>1
  <2> QED
    BY <1>3, <1>4, <2>4
<1> QED
  BY <1>1, <1>2, <1>6

\* DateOf finds the day that has the number.
LEMMA DayOfNumber ==
    ASSUME NEW n \in Int
    PROVE  RealDay(DateOf(n)) /\ DayNumber(DateOf(n)) = n
<1>0. PICK about : about = (400 * n) \div 146097
  OBVIOUS
<1> DEFINE InYear(k) == YearStart(k) <= n /\ n < YearStart(k + 1)
           y == CHOOSE k \in (about - 1)..(about + 1) : InYear(k)
           InMonth(k) == MonthStart(y, k) <= n /\ n < MonthStart(y, k) + MonthDays(y, k)
           m == CHOOSE k \in 1..12 : InMonth(k)
<1>1. about \in Int
  BY <1>0
<1>2. y \in (about - 1)..(about + 1) /\ InYear(y)
  <2>1. \E k \in (about - 1)..(about + 1) : InYear(k)
    BY <1>0, <1>1, YearExists
  <2> HIDE DEF InYear
  <2> QED
    BY <2>1
<1>3. y \in Int
  BY <1>1, <1>2
<1>4. m \in 1..12 /\ InMonth(m)
  <2>1. \E k \in 1..12 : InMonth(k)
    BY <1>2, <1>3, MonthExists
  <2> HIDE DEF InMonth
  <2> QED
    BY <2>1
<1>5. DateOf(n) = [year |-> y, month |-> m, day |-> n - MonthStart(y, m) + 1]
  BY <1>0 DEF DateOf
<1> HIDE DEF y, m
<1>6. MonthStart(y, m) \in Int /\ MonthDays(y, m) \in Int
  BY <1>3, <1>4, MonthTypes
<1>7. PICK d : d = DateOf(n)
  OBVIOUS
<1>8. d.year = y /\ d.month = m /\ d.day = n - MonthStart(y, m) + 1
  BY <1>5, <1>7
<1>9. d.day \in 1..MonthDays(y, m)
  BY <1>4, <1>6, <1>8
<1> QED
  BY <1>3, <1>4, <1>5, <1>6, <1>7, <1>8, <1>9 DEF RealDay, DayNumber

\* The months of a year follow each other.
LEMMA MonthsGrow ==
    ASSUME NEW y \in Int, NEW a \in 1..12, NEW b \in 1..12, a < b
    PROVE  MonthStart(y, a) + MonthDays(y, a) <= MonthStart(y, b)
<1>1. PICK first : first = [k \in 1..12 |-> MonthStart(y, k)]
  OBVIOUS
<1>2. \A k \in 1..12 : first[k] \in Int /\ MonthDays(y, k) \in Nat
  <2>1. \A k \in 1..12 : MonthStart(y, k) \in Int /\ MonthDays(y, k) \in 28..31
    BY MonthTypes
  <2> QED
    BY <1>1, <2>1
<1>3. \A k \in 1..11 : first[k + 1] = first[k] + MonthDays(y, k)
  <2> SUFFICES ASSUME NEW k \in 1..11
               PROVE  first[k + 1] = first[k] + MonthDays(y, k)
    OBVIOUS
  <2>1. k \in 1..12 /\ k < 12 /\ k + 1 \in 1..12
    OBVIOUS
  <2> QED
    BY <1>1, <2>1, MonthLength
<1>4. PICK end : end = first[a] + MonthDays(y, a)
  OBVIOUS
<1>5. end \in Int
  BY <1>2, <1>4
<1> DEFINE Later(k) == k > a => end <= first[k]
<1>6. Later(1)
  OBVIOUS
<1>7. \A k \in 1..11 : Later(k) => Later(k + 1)
  BY <1>2, <1>3, <1>4, <1>5
<1> HIDE DEF Later
<1>8. Later(2) /\ Later(3) /\ Later(4) /\ Later(5)
  BY <1>6, <1>7
<1>9. Later(6) /\ Later(7) /\ Later(8) /\ Later(9)
  BY <1>8, <1>7
<1>10. Later(10) /\ Later(11) /\ Later(12)
  BY <1>9, <1>7
<1>11. Later(b)
  BY <1>6, <1>8, <1>9, <1>10
<1> QED
  BY <1>1, <1>4, <1>11 DEF Later

\* A day lies in its month, and the month in its year.
LEMMA DayWithin ==
    ASSUME NEW d, RealDay(d)
    PROVE  /\ DayNumber(d) \in Int
           /\ YearStart(d.year) <= DayNumber(d) /\ DayNumber(d) < YearStart(d.year + 1)
           /\ MonthStart(d.year, d.month) <= DayNumber(d)
           /\ DayNumber(d) < MonthStart(d.year, d.month) + MonthDays(d.year, d.month)
<1>1. PICK y \in Int, m \in 1..12 : y = d.year /\ m = d.month
  BY DEF RealDay
<1>2. d.day \in 1..MonthDays(y, m)
  BY <1>1 DEF RealDay
<1>3. MonthStart(y, m) \in Int /\ MonthDays(y, m) \in Int
  BY MonthTypes
<1>4. /\ DayNumber(d) \in Int /\ MonthStart(y, m) <= DayNumber(d)
      /\ DayNumber(d) < MonthStart(y, m) + MonthDays(y, m)
  BY <1>1, <1>2, <1>3 DEF DayNumber
<1>5. YearStart(y) <= MonthStart(y, m)
  <2>1. CASE m = 1
    <3>1. MonthStart(y, 1) = YearStart(y) /\ YearStart(y) \in Int
      BY MonthLength, YearLength
    <3> QED
      BY <2>1, <3>1
  <2>2. CASE m # 1
    <3>1. MonthStart(y, 1) + MonthDays(y, 1) <= MonthStart(y, m)
      BY <2>2, MonthsGrow
    <3>2. MonthStart(y, 1) = YearStart(y) /\ MonthDays(y, 1) \in 28..31 /\ MonthStart(y, 1) \in Int
      BY MonthLength, MonthTypes
    <3> QED
      BY <1>3, <3>1, <3>2
  <2> QED
    BY <2>1, <2>2
<1>6. MonthStart(y, m) + MonthDays(y, m) <= YearStart(y + 1)
  <2>1. CASE m = 12
    BY <1>3, <2>1, MonthLength
  <2>2. CASE m # 12
    <3>1. MonthStart(y, m) + MonthDays(y, m) <= MonthStart(y, 12)
      BY <2>2, MonthsGrow
    <3>2. /\ YearStart(y + 1) = MonthStart(y, 12) + MonthDays(y, 12)
          /\ MonthDays(y, 12) \in 28..31 /\ MonthStart(y, 12) \in Int
      BY MonthLength, MonthTypes
    <3> QED
      BY <1>3, <3>1, <3>2
  <2> QED
    BY <2>1, <2>2
<1>7. YearStart(y) \in Int /\ YearStart(y + 1) \in Int
  BY YearLength
<1> QED
  BY <1>1, <1>3, <1>4, <1>5, <1>6, <1>7

\* Earlier in the calendar is a smaller number.
LEMMA Chronological ==
    ASSUME NEW d, RealDay(d), NEW e, RealDay(e)
    PROVE  /\ Compare(d, e) = Sign(DayNumber(d), DayNumber(e))
           /\ DayNumber(d) = DayNumber(e) => d = e
<1>1. /\ d.year \in Int /\ d.month \in 1..12 /\ d.day \in Int
      /\ e.year \in Int /\ e.month \in 1..12 /\ e.day \in Int
  <2>1. MonthDays(d.year, d.month) \in Int /\ MonthDays(e.year, e.month) \in Int
    BY MonthTypes DEF RealDay
  <2> QED
    BY <2>1 DEF RealDay
<1>2. DayNumber(d) \in Int /\ DayNumber(e) \in Int
  BY DayWithin
<1>3. ASSUME NEW x, RealDay(x), NEW z, RealDay(z), x.year < z.year
      PROVE  DayNumber(x) < DayNumber(z)
  <2>1. x.year \in Int /\ z.year \in Int /\ x.year + 1 <= z.year
    BY <1>3 DEF RealDay
  <2>2. YearStart(x.year + 1) <= YearStart(z.year) /\ YearStart(x.year + 1) \in Int
        /\ YearStart(z.year) \in Int
    BY <2>1, YearsGrow, YearLength
  <2> QED
    BY <1>3, <2>2, DayWithin
<1>4. ASSUME NEW x, RealDay(x), NEW z, RealDay(z), x.year = z.year, x.month < z.month
      PROVE  DayNumber(x) < DayNumber(z)
  <2>1. /\ MonthStart(x.year, x.month) + MonthDays(x.year, x.month) <= MonthStart(z.year, z.month)
        /\ MonthStart(x.year, x.month) \in Int /\ MonthStart(z.year, z.month) \in Int
        /\ MonthDays(x.year, x.month) \in Int
    BY <1>4, MonthsGrow, MonthTypes DEF RealDay
  <2> QED
    BY <1>4, <2>1, DayWithin
<1>5. CASE d.year # e.year
  BY <1>1, <1>2, <1>3, <1>5 DEF Compare, Sign
<1>6. CASE d.year = e.year /\ d.month # e.month
  BY <1>1, <1>2, <1>4, <1>6 DEF Compare, Sign
<1>7. CASE d.year = e.year /\ d.month = e.month
  <2>1. MonthStart(d.year, d.month) \in Int
    BY <1>1, MonthTypes
  <2>2. DayNumber(d) - DayNumber(e) = d.day - e.day
    BY <1>1, <1>7, <2>1 DEF DayNumber
  <2> QED
    BY <1>1, <1>2, <1>7, <2>2 DEF Compare, Sign, RealDay
<1> QED
  BY <1>5, <1>6, <1>7

\* A day has the number of no other.
LEMMA NumberOfDay ==
    ASSUME NEW d, RealDay(d)
    PROVE  DateOf(DayNumber(d)) = d
<1>1. DayNumber(d) \in Int
  BY DayWithin
<1>2. RealDay(DateOf(DayNumber(d))) /\ DayNumber(DateOf(DayNumber(d))) = DayNumber(d)
  BY <1>1, DayOfNumber
<1> QED
  BY <1>2, Chronological

-----------------------------------------------------------------------------
(* The window of scheduled dates.                                           *)

\* Sixty months on is the same day and month, five years later, and that is
\* 1825 days and up to two leap days away.
LEMMA FiveYearsOn ==
    ASSUME NEW y \in Int, NEW m \in 1..12
    PROVE  LET span == MonthStart(y + 5, m) - MonthStart(y, m)
           IN  /\ span \in 1825..1827
               /\ (\A k \in y..(y + 5) : k % 4 = 0 => IsLeap(k)) => span >= 1826
<1> DEFINE L(k) == IF IsLeap(k) THEN 1 ELSE 0
<1>1. ASSUME NEW k \in Int
      PROVE  YearStart(k + 1) = YearStart(k) + 365 + L(k) /\ YearStart(k) \in Int
  BY <1>1, YearLength
<1>2. YearStart(y + 5) = YearStart(y) + 1825 + L(y) + L(y + 1) + L(y + 2) + L(y + 3) + L(y + 4)
  <2>1. /\ YearStart(y + 1) = YearStart(y) + 365 + L(y)
        /\ YearStart((y + 1) + 1) = YearStart(y + 1) + 365 + L(y + 1)
        /\ YearStart((y + 2) + 1) = YearStart(y + 2) + 365 + L(y + 2)
        /\ YearStart((y + 3) + 1) = YearStart(y + 3) + 365 + L(y + 3)
        /\ YearStart((y + 4) + 1) = YearStart(y + 4) + 365 + L(y + 4)
    BY <1>1
  <2>2. (y + 1) + 1 = y + 2 /\ (y + 2) + 1 = y + 3 /\ (y + 3) + 1 = y + 4 /\ (y + 4) + 1 = y + 5
    OBVIOUS
  <2>3. YearStart(y) \in Int
    BY <1>1
  <2> QED
    BY <2>1, <2>2, <2>3
<1>3. MonthStart(y + 5, m) - MonthStart(y, m) =
          YearStart(y + 5) - YearStart(y) + (IF m > 2 THEN L(y + 5) - L(y) ELSE 0)
  <2>1. YearStart(y) \in Int /\ YearStart(y + 5) \in Int
    BY <1>1
  <2>2. <<0, 31, 59, 90, 120, 151, 181, 212, 243, 273, 304, 334>>[m] \in Int
    OBVIOUS
  <2> QED
    BY <2>1, <2>2 DEF MonthStart
<1>4. \A k \in Int : L(k) \in {0, 1} /\ (L(k) = 1 => k % 4 = 0)
  BY DEF IsLeap
<1>5. ASSUME NEW k \in Int
      PROVE  /\ L(k) + L(k + 1) + L(k + 2) + L(k + 3) <= 1
             /\ (\A i \in k..(k + 3) : i % 4 = 0 => IsLeap(i)) =>
                    L(k) + L(k + 1) + L(k + 2) + L(k + 3) >= 1
  <2>1. /\ L(k) \in {0, 1} /\ L(k + 1) \in {0, 1} /\ L(k + 2) \in {0, 1} /\ L(k + 3) \in {0, 1}
        /\ L(k) = 1 => k % 4 = 0
        /\ L(k + 1) = 1 => (k + 1) % 4 = 0
        /\ L(k + 2) = 1 => (k + 2) % 4 = 0
        /\ L(k + 3) = 1 => (k + 3) % 4 = 0
    BY <1>4
  <2>2. ASSUME \A i \in k..(k + 3) : i % 4 = 0 => IsLeap(i)
        PROVE  /\ k % 4 = 0 => L(k) = 1
               /\ (k + 1) % 4 = 0 => L(k + 1) = 1
               /\ (k + 2) % 4 = 0 => L(k + 2) = 1
               /\ (k + 3) % 4 = 0 => L(k + 3) = 1
    BY <2>2
  <2> HIDE DEF L
  <2> QED
    BY <2>1, <2>2
<1>6. /\ L(y) + L(y + 1) + L(y + 2) + L(y + 3) <= 1
      /\ L(y + 1) + L(y + 2) + L(y + 3) + L(y + 4) <= 1
      /\ L(y + 2) + L(y + 3) + L(y + 4) + L(y + 5) <= 1
      /\ (\A k \in y..(y + 5) : k % 4 = 0 => IsLeap(k)) =>
            /\ L(y) + L(y + 1) + L(y + 2) + L(y + 3) >= 1
            /\ L(y + 1) + L(y + 2) + L(y + 3) + L(y + 4) >= 1
  <2>1. /\ y + 1 \in Int /\ (y + 1) + 1 = y + 2 /\ (y + 1) + 2 = y + 3 /\ (y + 1) + 3 = y + 4
        /\ y + 2 \in Int /\ (y + 2) + 1 = y + 3 /\ (y + 2) + 2 = y + 4 /\ (y + 2) + 3 = y + 5
    OBVIOUS
  <2>2. ASSUME \A k \in y..(y + 5) : k % 4 = 0 => IsLeap(k)
        PROVE  /\ \A k \in y..(y + 3) : k % 4 = 0 => IsLeap(k)
               /\ \A k \in (y + 1)..(y + 4) : k % 4 = 0 => IsLeap(k)
    BY <2>2
  <2>3. /\ L(y) + L(y + 1) + L(y + 2) + L(y + 3) <= 1
        /\ (\A i \in y..(y + 3) : i % 4 = 0 => IsLeap(i)) =>
               L(y) + L(y + 1) + L(y + 2) + L(y + 3) >= 1
    BY <1>5
  <2>4. /\ L(y + 1) + L((y + 1) + 1) + L((y + 1) + 2) + L((y + 1) + 3) <= 1
        /\ (\A i \in (y + 1)..((y + 1) + 3) : i % 4 = 0 => IsLeap(i)) =>
               L(y + 1) + L((y + 1) + 1) + L((y + 1) + 2) + L((y + 1) + 3) >= 1
    BY <1>5, <2>1
  <2>5. L(y + 2) + L((y + 2) + 1) + L((y + 2) + 2) + L((y + 2) + 3) <= 1
    BY <1>5, <2>1
  <2> HIDE DEF L
  <2> QED
    BY <2>1, <2>2, <2>3, <2>4, <2>5
<1>7. L(y) \in {0, 1} /\ L(y + 1) \in {0, 1} /\ L(y + 2) \in {0, 1} /\ L(y + 3) \in {0, 1}
      /\ L(y + 4) \in {0, 1} /\ L(y + 5) \in {0, 1}
  BY <1>4
<1>8. YearStart(y) \in Int
  BY <1>1
<1> HIDE DEF L
<1> QED
  BY <1>2, <1>3, <1>6, <1>7, <1>8

\* Whatever the components, the date made of them is a day.
LEMMA NewDay ==
    ASSUME NEW y \in Int, NEW m \in Int, NEW d \in Int
    PROVE  /\ NormalYear(y, m) \in Int /\ NormalMonth(m) \in 1..12
           /\ RealDay(NewDate(y, m, d))
           /\ DayNumber(NewDate(y, m, d)) =
                  MonthStart(NormalYear(y, m), NormalMonth(m)) + d - 1
<1>1. NormalYear(y, m) \in Int /\ NormalMonth(m) \in 1..12
  BY DEF NormalYear, NormalMonth
<1>2. PICK a \in Int, b \in 1..12 : a = NormalYear(y, m) /\ b = NormalMonth(m)
  BY <1>1
<1>3. MonthStart(a, b) \in Int
  BY MonthTypes
<1>4. PICK n \in Int : n = MonthStart(a, b) + d - 1
  BY <1>3
<1>5. NewDate(y, m, d) = DateOf(n)
  BY <1>2, <1>4 DEF NewDate
<1>6. RealDay(DateOf(n)) /\ DayNumber(DateOf(n)) = n
  BY DayOfNumber
<1> QED
  BY <1>1, <1>2, <1>4, <1>5, <1>6

\* The last day of the window of t.
LastDay(t) == DayNumber(t) + (MonthStart(t.year + 5, t.month) - MonthStart(t.year, t.month))

LEMMA WindowEnds ==
    ASSUME NEW t, RealDay(t)
    PROVE  /\ RealDay(AddMonths(t, WindowMonths))
           /\ DayNumber(AddMonths(t, WindowMonths)) = LastDay(t)
           /\ LastDay(t) - DayNumber(t) \in FiveYears(t)..1827 /\ LastDay(t) \in Int
<1>1. PICK y \in Int, m \in 1..12, d \in Int : y = t.year /\ m = t.month /\ d = t.day
  <2>1. MonthDays(t.year, t.month) \in Int
    BY MonthTypes DEF RealDay
  <2> QED
    BY <2>1 DEF RealDay
<1>2. t # NoDate
  BY <1>1 DEF NoDate
<1>3. NormalYear(y, m + 60) = y + 5 /\ NormalMonth(m + 60) = m
  BY DEF NormalYear, NormalMonth
<1>4. AddMonths(t, WindowMonths) = NewDate(y, m + 60, d)
  BY <1>1, <1>2 DEF AddMonths, WindowMonths
<1>5. /\ RealDay(AddMonths(t, WindowMonths))
      /\ DayNumber(AddMonths(t, WindowMonths)) = MonthStart(y + 5, m) + d - 1
  BY <1>3, <1>4, NewDay
<1>6. MonthStart(y + 5, m) \in Int /\ MonthStart(y, m) \in Int
  <2>1. y + 5 \in Int
    OBVIOUS
  <2> QED
    BY <2>1, MonthTypes
<1>7. DayNumber(t) = MonthStart(y, m) + d - 1
  BY <1>1 DEF DayNumber
<1>8. MonthStart(y + 5, m) - MonthStart(y, m) \in FiveYears(t)..1827
  <2>1. MonthStart(y + 5, m) - MonthStart(y, m) \in 1825..1827
    BY FiveYearsOn
  <2>2. CASE \E k \in y..(y + 5) : k % 4 = 0 /\ ~IsLeap(k)
    BY <1>1, <2>1, <2>2 DEF FiveYears
  <2>3. CASE \A k \in y..(y + 5) : k % 4 = 0 => IsLeap(k)
    <3>1. MonthStart(y + 5, m) - MonthStart(y, m) >= 1826
      BY <2>3, FiveYearsOn
    <3>2. FiveYears(t) = 1826
      BY <1>1, <2>3 DEF FiveYears
    <3> QED
      BY <2>1, <3>1, <3>2
  <2> QED
    BY <2>2, <2>3
<1> QED
  BY <1>1, <1>5, <1>6, <1>7, <1>8 DEF LastDay

\* What checkScheduledDate says of a day, in numbers of days.
LEMMA WindowChecked ==
    ASSUME NEW t, RealDay(t), NEW d, RealDay(d)
    PROVE  checkScheduledDate(d, t) = IF DayNumber(d) < DayNumber(t) THEN InThePast
                                      ELSE IF DayNumber(d) > LastDay(t) THEN TooFarOut
                                      ELSE "ok"
<1>1. PICK e : e = AddMonths(t, WindowMonths)
  OBVIOUS
<1>2. RealDay(e) /\ DayNumber(e) = LastDay(t)
  BY <1>1, WindowEnds
<1>3. DayNumber(d) \in Int /\ DayNumber(t) \in Int /\ DayNumber(e) \in Int
  BY <1>2, DayWithin
<1>4. Compare(d, t) = Sign(DayNumber(d), DayNumber(t)) /\ Compare(d, e) = Sign(DayNumber(d), DayNumber(e))
  BY <1>2, Chronological
<1>5. d # NoDate
  BY DEF RealDay, NoDate
<1>6. Before(d, t) <=> DayNumber(d) < DayNumber(t)
  BY <1>3, <1>4 DEF Before, Sign
<1>7. After(d, e) <=> DayNumber(d) > DayNumber(e)
  BY <1>3, <1>4 DEF After, Sign
<1> QED
  BY <1>1, <1>2, <1>5, <1>6, <1>7 DEF checkScheduledDate

\* A day makes the window of the next one end no earlier.
LEMMA WindowMovesOn ==
    ASSUME NEW t, RealDay(t), NEW u, RealDay(u), DayNumber(u) = DayNumber(t) + 1
    PROVE  LastDay(t) <= LastDay(u)
<1>1. PICK y \in Int, m \in 1..12, d \in Int :
          /\ y = t.year /\ m = t.month /\ d = t.day /\ d \in 1..MonthDays(y, m)
          /\ MonthDays(y, m) \in Int
  <2>1. MonthDays(t.year, t.month) \in Int
    BY MonthTypes DEF RealDay
  <2> QED
    BY <2>1 DEF RealDay
<1>2. y + 5 \in Int /\ (y + 5) + 1 = (y + 1) + 5 /\ y + 1 \in Int
  OBVIOUS
<1>3. MonthStart(y, m) \in Int /\ MonthStart(y + 5, m) \in Int /\ MonthDays(y + 5, m) \in Int
  BY <1>2, MonthTypes
<1>4. DayNumber(t) = MonthStart(y, m) + d - 1 /\ LastDay(t) = MonthStart(y + 5, m) + d - 1
  BY <1>1, <1>3 DEF DayNumber, LastDay
\* A month may be a day shorter five years later, if it is February.
<1>5. MonthDays(y, m) <= MonthDays(y + 5, m) + 1
  BY DEF MonthDays
<1>6. ASSUME NEW v, RealDay(v), DayNumber(v) = DayNumber(u)
      PROVE  LastDay(u) = LastDay(v)
  BY <1>6, Chronological
<1>7. CASE d < MonthDays(y, m)
  <2>1. PICK v : v = [year |-> y, month |-> m, day |-> d + 1]
    OBVIOUS
  <2>2. RealDay(v) /\ DayNumber(v) = DayNumber(t) + 1 /\ LastDay(v) = LastDay(t) + 1
    BY <1>1, <1>3, <1>4, <1>7, <2>1 DEF RealDay, DayNumber, LastDay
  <2> QED
    BY <1>3, <1>4, <1>6, <2>2
<1>8. CASE d = MonthDays(y, m) /\ m < 12
  <2>1. m + 1 \in 1..12
    BY <1>8
  <2>2. /\ MonthStart(y, m + 1) = MonthStart(y, m) + MonthDays(y, m)
        /\ MonthStart(y + 5, m + 1) = MonthStart(y + 5, m) + MonthDays(y + 5, m)
    BY <1>2, <1>8, MonthLength
  <2>3. MonthDays(y, m + 1) \in 28..31
    BY <2>1, MonthTypes
  <2>4. PICK v : v = [year |-> y, month |-> m + 1, day |-> 1]
    OBVIOUS
  <2>5. RealDay(v)
    BY <2>1, <2>3, <2>4 DEF RealDay
  <2>6. DayNumber(v) = DayNumber(t) + 1 /\ LastDay(v) = MonthStart(y + 5, m + 1)
    BY <1>1, <1>3, <1>4, <1>8, <2>2, <2>4 DEF DayNumber, LastDay
  <2>7. LastDay(t) <= LastDay(v)
    BY <1>1, <1>3, <1>4, <1>5, <1>8, <2>2, <2>6
  <2> QED
    BY <1>6, <2>5, <2>6, <2>7
<1>9. CASE d = MonthDays(y, m) /\ m = 12
  <2>1. /\ MonthStart(y + 1, 1) = MonthStart(y, 12) + MonthDays(y, 12)
        /\ MonthStart((y + 1) + 5, 1) = MonthStart(y + 5, 12) + MonthDays(y + 5, 12)
    <3>1. /\ YearStart(y + 1) = MonthStart(y, 12) + MonthDays(y, 12)
          /\ YearStart((y + 5) + 1) = MonthStart(y + 5, 12) + MonthDays(y + 5, 12)
      BY <1>2, MonthLength
    <3>2. MonthStart(y + 1, 1) = YearStart(y + 1)
      BY <1>2, MonthLength
    <3>3. (y + 1) + 5 \in Int /\ MonthStart((y + 1) + 5, 1) = YearStart((y + 1) + 5)
      BY <1>2, MonthLength
    <3> QED
      BY <1>2, <3>1, <3>2, <3>3
  <2>2. PICK v : v = [year |-> y + 1, month |-> 1, day |-> 1]
    OBVIOUS
  <2>3. RealDay(v)
    <3>1. MonthDays(y + 1, 1) \in 28..31
      BY <1>2, MonthTypes
    <3> QED
      BY <1>2, <2>2, <3>1 DEF RealDay
  <2>4. DayNumber(v) = DayNumber(t) + 1 /\ LastDay(v) = MonthStart((y + 1) + 5, 1)
    <3>1. MonthStart(y + 1, 1) \in Int /\ MonthStart((y + 1) + 5, 1) \in Int
      BY <1>3, <1>1, <1>9, <2>1
    <3> QED
      BY <1>1, <1>3, <1>4, <1>9, <2>1, <2>2, <3>1 DEF DayNumber, LastDay
  <2>5. LastDay(t) <= LastDay(v)
    BY <1>1, <1>3, <1>4, <1>5, <1>9, <2>1, <2>4
  <2> QED
    BY <1>6, <2>3, <2>4, <2>5
<1> QED
  BY <1>1, <1>7, <1>8, <1>9

-----------------------------------------------------------------------------
(* The application of MCCalendar.                                           *)

Day(t) == [year |-> t.year, month |-> t.month, day |-> t.day]

RealMonth(p) == /\ p = [year |-> p.year, month |-> p.month, current |-> FALSE]
                /\ p.year \in WireYears /\ p.month \in 1..12

\* What it works with are days and months of the calendar, and a date is the
\* one its text said.
CalendarInvariant ==
    /\ RealDay(today)
    /\ date = NoDate \/ RealDay(date)
    /\ month \in {NoMonth, CurrentMonth} \/ RealMonth(month)
    /\ dateText # NoText => RealDay(date) /\ DateText(date) = dateText

\* The day of a text that is accepted is the one it names.
LEMMA ParsedDay ==
    ASSUME NEW t \in [form : {"date"}, year : Int, month : Int, day : Int], DateParses(t)
    PROVE  RealDay(ParseDate(t)) /\ DateText(ParseDate(t)) = t /\ ParseDate(t) = Day(t)
<1>1. PICK y \in Int, m \in 1..12, d \in Int :
          t = [form |-> "date", year |-> y, month |-> m, day |-> d] /\ d \in 1..MonthDays(y, m)
  BY DEF DateParses
<1>2. NormalYear(y, m) = y /\ NormalMonth(m) = m
  BY DEF NormalYear, NormalMonth
<1>3. PICK e : e = [year |-> y, month |-> m, day |-> d]
  OBVIOUS
<1>4. RealDay(e) /\ DayNumber(e) = MonthStart(y, m) + d - 1 /\ e = Day(t)
  BY <1>1, <1>3 DEF RealDay, DayNumber, Day
<1>5. ParseDate(t) = DateOf(DayNumber(e))
  BY <1>1, <1>2, <1>4 DEF ParseDate, NewDate
<1>6. ParseDate(t) = e
  BY <1>4, <1>5, NumberOfDay
<1>7. DateText(e) = t
  BY <1>1, <1>3 DEF DateText, NoDate
<1> QED
  BY <1>4, <1>6, <1>7

\* A date computed from a date is one.
LEMMA Computed ==
    ASSUME NEW d, d = NoDate \/ RealDay(d), NEW n \in Int
    PROVE  /\ AddDays(d, n) = NoDate \/ RealDay(AddDays(d, n))
           /\ AddMonths(d, n) = NoDate \/ RealDay(AddMonths(d, n))
<1>1. CASE d = NoDate
  BY <1>1 DEF AddDays, AddMonths
<1>2. CASE d # NoDate
  <2>1. PICK y \in Int, m \in Int, k \in Int : y = d.year /\ m = d.month /\ k = d.day
    <3>1. MonthDays(d.year, d.month) \in Int
      BY <1>2, MonthTypes DEF RealDay
    <3> QED
      BY <1>2, <3>1 DEF RealDay
  <2>2. m + n \in Int
    OBVIOUS
  <2>3. RealDay(NewDate(y, m + n, k))
    BY <2>2, NewDay
  <2>4. DayNumber(d) + n \in Int
    BY <1>2, DayWithin
  <2>5. RealDay(DateOf(DayNumber(d) + n))
    BY <2>4, DayOfNumber
  <2> QED
    BY <1>2, <2>1, <2>3, <2>5 DEF AddDays, AddMonths
<1> QED
  BY <1>1, <1>2

\* Months walked are months.
LEMMA Walked ==
    ASSUME NEW p, RealMonth(p), NEW n \in Int
    PROVE  /\ MonthPlus(p, n) = [year |-> NormalYear(p.year, p.month + n),
                                 month |-> NormalMonth(p.month + n), current |-> FALSE]
           /\ NormalYear(p.year, p.month + n) \in Int /\ NormalMonth(p.month + n) \in 1..12
<1>1. PICK y \in Int, m \in Int : y = p.year /\ m = p.month /\ m + n \in Int /\ m \in 1..12
  BY YearsOfWire DEF RealMonth
<1>2. IsConcrete(p)
  BY <1>1 DEF RealMonth, IsConcrete, NoMonth
<1>3. NormalYear(y, m + n) \in Int /\ NormalMonth(m + n) \in 1..12
  BY <1>1, NewDay
<1> QED
  BY <1>1, <1>2, <1>3 DEF MonthPlus, NewMonth

LEMMA CalendarStarts == CalendarInit => CalendarInvariant
<1> SUFFICES ASSUME CalendarInit PROVE CalendarInvariant
  OBVIOUS
<1>1. PICK n \in Clock : today = DateOf(n)
  BY DEF CalendarInit
<1>2. RealDay(today) /\ today.year \in WireYears
  BY <1>1, DayOfNumber, CalendarAssumption
<1>3. RealMonth(MonthOf(today))
  BY <1>2 DEF RealMonth, MonthOf, RealDay
<1> QED
  BY <1>2, <1>3 DEF CalendarInit, CalendarInvariant

LEMMA CalendarSteps ==
    CalendarInvariant /\ [CalendarNext]_calendarVars => CalendarInvariant'
<1> SUFFICES ASSUME CalendarInvariant, [CalendarNext]_calendarVars
             PROVE  CalendarInvariant'
  OBVIOUS
<1>1. CASE UNCHANGED calendarVars
  BY <1>1 DEF calendarVars, CalendarInvariant
<1>2. CASE Midnight
  <2>1. RealDay(AddDays(today, 1))
    <3>1. DayNumber(today) + 1 \in Int /\ today # NoDate
      BY DayWithin DEF CalendarInvariant, RealDay, NoDate
    <3> QED
      BY <3>1, DayOfNumber DEF AddDays
  <2> QED
    BY <1>2, <2>1 DEF Midnight, CalendarInvariant
<1>3. ASSUME NEW d \in Bases PROVE d = NoDate \/ RealDay(d)
  BY <1>3 DEF Bases, CalendarInvariant
<1>4. ASSUME NEW d \in Bases, NEW n \in DayShifts, ComputeDays(d, n)
      PROVE  CalendarInvariant'
  <2>1. AddDays(d, n) = NoDate \/ RealDay(AddDays(d, n))
    BY <1>3, Computed, CalendarAssumption
  <2> QED
    BY <1>4, <2>1 DEF ComputeDays, CalendarInvariant
<1>5. ASSUME NEW d \in Bases, NEW n \in MonthShifts, ComputeMonths(d, n)
      PROVE  CalendarInvariant'
  <2>1. AddMonths(d, n) = NoDate \/ RealDay(AddMonths(d, n))
    BY <1>3, Computed, CalendarAssumption
  <2> QED
    BY <1>5, <2>1 DEF ComputeMonths, CalendarInvariant
<1>6. ASSUME NEW n \in MonthShifts, WalkMonths(n)
      PROVE  CalendarInvariant'
  <2>1. month' = MonthPlus(month, n) /\ MonthPlus(month, n).year \in WireYears
        /\ UNCHANGED <<today, date, dateText>>
    BY <1>6, CalendarAssumption DEF WalkMonths
  <2>2. CASE month \in {NoMonth, CurrentMonth}
    BY <2>1, <2>2 DEF MonthPlus, IsConcrete, CurrentMonth, NoMonth, CalendarInvariant
  <2>3. CASE RealMonth(month)
    <3>1. n \in Int
      BY CalendarAssumption
    <3>2. RealMonth(MonthPlus(month, n))
      BY <2>1, <2>3, <3>1, Walked DEF RealMonth
    <3> QED
      BY <2>1, <3>2 DEF CalendarInvariant
  <2> QED
    BY <2>2, <2>3 DEF CalendarInvariant
<1>7. \A t \in Texts : t \in [form : {"date"}, year : Int, month : Int, day : Int]
  <2>1. Years \subseteq Int /\ {1, 2, 12} \subseteq Int /\ TextDays \subseteq Int
    BY CalendarAssumption, YearsOfWire
  <2> SUFFICES ASSUME NEW t \in Texts
               PROVE  t \in [form : {"date"}, year : Int, month : Int, day : Int]
    OBVIOUS
  <2>2. PICK y \in Years, m \in {1, 2, 12}, d \in TextDays :
            t = [form |-> "date", year |-> y, month |-> m, day |-> d]
    BY DEF Texts
  <2>3. y \in Int /\ m \in Int /\ d \in Int
    BY <2>1
  <2> QED
    BY <2>2, <2>3
<1>8. CASE ReadDate
  <2>1. PICK t \in Texts : DateParses(t) /\ dateText' = t /\ date' = ParseDate(t)
    BY <1>8 DEF ReadDate
  <2>2. RealDay(date') /\ DateText(date') = dateText'
    BY <1>7, <2>1, ParsedDay
  <2> QED
    BY <1>8, <2>2 DEF ReadDate, CalendarInvariant, DateText
<1>9. CASE ReadMonth
  <2>1. PICK t \in Texts \cup {[form |-> "current"]} : MonthParses(t) /\ month' = ParseMonth(t)
    BY <1>9 DEF ReadMonth
  <2>2. month' = CurrentMonth \/ RealMonth(month')
    <3>1. CASE t = [form |-> "current"]
      BY <2>1, <3>1 DEF ParseMonth
    <3>2. CASE t \in Texts
      <4>1. t.form = "date"
        BY <3>2 DEF Texts
      <4>2. DateParses(t) /\ month' = MonthOf(ParseDate(t))
        BY <2>1, <4>1 DEF MonthParses, ParseMonth
      <4>3. ParseDate(t) = Day(t)
        BY <1>7, <3>2, <4>2, ParsedDay
      <4> QED
        BY <4>2, <4>3 DEF Day, MonthOf, RealMonth, DateParses
    <3> QED
      BY <2>1, <3>1, <3>2
  <2> QED
    BY <1>9, <2>2 DEF ReadMonth, CalendarInvariant
<1> QED
  BY <1>1, <1>2, <1>4, <1>5, <1>6, <1>8, <1>9 DEF CalendarNext

\* Month arithmetic is that of the first days, in the same direction, and goes
\* back to where it came from.
LEMMA MonthMoved ==
    ASSUME NEW p, RealMonth(p), NEW n \in Int
    PROVE  LET moved == MonthPlus(p, n)
           IN  /\ FirstDay(moved) = AddMonths(FirstDay(p), n)
               /\ MonthPlus(moved, -n) = p
               /\ MonthCompare(moved, p) = Sign(n, 0)
<1>1. PICK y \in Int, m \in 1..12 : p = [year |-> y, month |-> m, current |-> FALSE]
  BY YearsOfWire DEF RealMonth
<1>0. PICK i \in Int : i = m + n
  OBVIOUS
<1>2. PICK z \in Int, k \in 1..12 : z = NormalYear(y, i) /\ k = NormalMonth(i)
  BY NewDay
<1>3. /\ NormalYear(z, k - n) = y /\ NormalMonth(k - n) = m
      /\ n = 0 => z = y /\ k = m
      /\ n > 0 => z > y \/ (z = y /\ k > m)
      /\ n < 0 => z < y \/ (z = y /\ k < m)
  <2>1. PICK q \in Int, r \in 0..11 : q = (i - 1) \div 12 /\ r = (i - 1) % 12
    OBVIOUS
  <2>2. m + n - 1 = 12 * q + r
    BY <1>0, <2>1
  <2>3. z = y + q /\ k = r + 1
    BY <1>2, <2>1 DEF NormalYear, NormalMonth
  <2>4. k - n - 1 = 12 * (-q) + (m - 1) /\ m - 1 \in 0..11
    BY <2>2, <2>3
  <2>5. (k - n - 1) \div 12 = -q /\ (k - n - 1) % 12 = m - 1
    BY <2>4
  <2>6. NormalYear(z, k - n) = y /\ NormalMonth(k - n) = m
    BY <2>3, <2>5 DEF NormalYear, NormalMonth
  <2> QED
    BY <2>2, <2>3, <2>6
<1>4. PICK moved : moved = [year |-> z, month |-> k, current |-> FALSE]
  OBVIOUS
<1>5. IsConcrete(p) /\ IsConcrete(moved)
  BY <1>1, <1>3, <1>4 DEF IsConcrete, NoMonth
<1>6. MonthPlus(p, n) = moved
  BY <1>0, <1>1, <1>2, <1>4, <1>5 DEF MonthPlus, NewMonth
<1>7. MonthPlus(moved, -n) = p
  <2>1. k + (-n) = k - n
    BY <1>3
  <2> QED
    BY <1>1, <1>3, <1>4, <1>5, <2>1 DEF MonthPlus, NewMonth
<1>8. MonthCompare(moved, p) = Sign(n, 0)
  BY <1>1, <1>3, <1>4 DEF MonthCompare, Sign
<1>9. FirstDay(moved) = AddMonths(FirstDay(p), n)
  <2>1. PICK d : d = [year |-> z, month |-> k, day |-> 1]
    OBVIOUS
  <2>2. RealDay(d) /\ DayNumber(d) = MonthStart(z, k) + 1 - 1
    <3>1. MonthDays(z, k) \in 28..31
      BY <1>3, MonthTypes
    <3> QED
      BY <1>3, <2>1, <3>1 DEF RealDay, DayNumber
  <2>3. FirstDay(p) = [year |-> y, month |-> m, day |-> 1] /\ FirstDay(p) # NoDate
    BY <1>1, <1>5 DEF FirstDay, NoDate
  <2>4. AddMonths(FirstDay(p), n) = DateOf(DayNumber(d))
    BY <1>0, <1>2, <2>2, <2>3 DEF AddMonths, NewDate
  <2>5. FirstDay(moved) = d
    BY <1>4, <1>5, <2>1 DEF FirstDay
  <2> QED
    BY <2>2, <2>4, <2>5, NumberOfDay
<1> QED
  BY <1>6, <1>7, <1>8, <1>9

LEMMA MonthsAgree == CalendarInvariant => MonthsAgreeWithDates
<1> SUFFICES ASSUME CalendarInvariant, NEW n \in MonthShifts
             PROVE  LET moved == MonthPlus(month, n)
                    IN  /\ FirstDay(moved) = AddMonths(FirstDay(month), n)
                        /\ MonthPlus(moved, -n) = month
                        /\ IsConcrete(month) => MonthCompare(moved, month) = Sign(n, 0)
  BY DEF MonthsAgreeWithDates
<1>1. n \in Int /\ -n \in Int
  BY CalendarAssumption
<1>2. CASE month \in {NoMonth, CurrentMonth}
  <2>1. ~IsConcrete(month)
    BY <1>2 DEF IsConcrete, CurrentMonth, NoMonth
  <2> QED
    BY <2>1 DEF MonthPlus, FirstDay, AddMonths
<1>3. CASE RealMonth(month)
  BY <1>1, <1>3, MonthMoved
<1> QED
  BY <1>2, <1>3 DEF CalendarInvariant

LEMMA Order == CalendarInvariant => OrderIsChronological
<1> SUFFICES ASSUME CalendarInvariant, date # NoDate
             PROVE  /\ Compare(date, today) = Sign(DayNumber(date), DayNumber(today))
                    /\ date.year >= 0 => Compare(NoDate, date) = -1
  BY DEF OrderIsChronological
<1>1. RealDay(date) /\ RealDay(today)
  BY DEF CalendarInvariant
<1>2. date.year >= 0 => Compare(NoDate, date) = -1
  BY <1>1 DEF Compare, Sign, NoDate, RealDay
<1> QED
  BY <1>1, <1>2, Chronological

LEMMA Strict == CalendarInvariant => WireIsStrict
<1> SUFFICES ASSUME CalendarInvariant PROVE WireIsStrict
  OBVIOUS
<1>1. ASSUME date # NoDate, date.year \in WireYears
      PROVE  DateParses(DateText(date)) /\ ParseDate(DateText(date)) = date
  <2>1. RealDay(date)
    BY <1>1 DEF CalendarInvariant
  <2>2. PICK t : t = [form |-> "date", year |-> date.year, month |-> date.month, day |-> date.day]
    OBVIOUS
  <2>3. DateText(date) = t
    BY <1>1, <2>2 DEF DateText
  <2>4. DateParses(t)
    BY <1>1, <2>1, <2>2 DEF RealDay, DateParses
  <2>5. t \in [form : {"date"}, year : Int, month : Int, day : Int]
    <3>1. MonthDays(date.year, date.month) \in Int
      BY <2>1, MonthTypes DEF RealDay
    <3> QED
      BY <2>1, <2>2, <3>1 DEF RealDay
  <2>6. ParseDate(t) = Day(t)
    BY <2>4, <2>5, ParsedDay
  <2>7. Day(t) = date
    BY <2>1, <2>2 DEF Day, RealDay
  <2> QED
    BY <2>3, <2>4, <2>6, <2>7
<1>2. ASSUME month # NoMonth
      PROVE  MonthParses(MonthText(month)) /\ ParseMonth(MonthText(month)) = month
  <2>1. CASE month = CurrentMonth
    BY <2>1 DEF CurrentMonth, NoMonth, MonthText, MonthParses, ParseMonth
  <2>2. CASE RealMonth(month)
    <3>1. PICK t : t = [form |-> "date", year |-> month.year, month |-> month.month, day |-> 1]
      OBVIOUS
    <3>2. MonthText(month) = t /\ t.form # "current"
      BY <1>2, <2>2, <3>1 DEF MonthText, RealMonth
    <3>3. month.year \in Int /\ month.month \in 1..12
      BY <2>2, YearsOfWire DEF RealMonth
    <3>4. MonthDays(month.year, month.month) \in 28..31
      BY <3>3, MonthTypes
    <3>5. DateParses(t) /\ t \in [form : {"date"}, year : Int, month : Int, day : Int] /\ t.day = 1
      BY <2>2, <3>1, <3>3, <3>4 DEF DateParses, RealMonth
    <3>6. ParseDate(t) = Day(t)
      BY <3>5, ParsedDay
    <3>7. ParseMonth(t) = month
      BY <2>2, <3>1, <3>2, <3>6 DEF ParseMonth, MonthOf, Day, RealMonth
    <3> QED
      BY <3>2, <3>5, <3>7 DEF MonthParses
  <2> QED
    BY <1>2, <2>1, <2>2 DEF CalendarInvariant
<1>3. dateText # NoText => DateText(date) = dateText
  BY DEF CalendarInvariant
<1> QED
  BY <1>1, <1>2, <1>3 DEF WireIsStrict

-----------------------------------------------------------------------------
(* The values an application holds.                                         *)

\* It splits what it has into numbers of parts it may.
AmountSound ==
    /\ amount \in Milliunits
    /\ parts = <<>> \/ \E n \in SplitParts : parts = SplitEven(amount, n)

LEMMA SplitSteps == AmountSound /\ [MoneyNext]_moneyVars => AmountSound'
<1> SUFFICES ASSUME AmountSound, [MoneyNext]_moneyVars PROVE AmountSound'
  OBVIOUS
<1>1. CASE UNCHANGED moneyVars
  BY <1>1 DEF moneyVars, AmountSound
<1>2. CASE Show
  BY <1>2 DEF Show, AmountSound
<1>3. ASSUME NEW n \in SplitParts, Split(n) PROVE AmountSound'
  BY <1>3 DEF Split, AmountSound
<1>4. ASSUME NEW d \in DecimalDigits, Render(d) PROVE AmountSound'
  BY <1>4 DEF Render, AmountSound
<1>5. ASSUME NEW n \in Numbers, Group(n) PROVE AmountSound'
  BY <1>5 DEF Group, AmountSound
<1>6. CASE Read
  <2>1. PICK t \in AmountTexts : Parses(t) /\ amount' = ParseMilliunits(t)
    BY <1>6 DEF Read
  <2>2. amount' \in Milliunits
    BY <2>1, WrappedFits DEF Parses, ParseMilliunits
  <2>3. parts' = <<>>
    BY <1>6 DEF Read, Fresh
  <2> QED
    BY <2>2, <2>3 DEF AmountSound
<1> QED
  BY <1>1, <1>2, <1>3, <1>4, <1>5, <1>6 DEF MoneyNext

\* A text is what String printed, or one that was read.
TextSound == \/ text = NoAmount
             \/ text = String(amount)
             \/ /\ text \in AmountTexts /\ (~text.dot => text.frac = <<>>)
                /\ Parses(text) /\ amount = ParseMilliunits(text)

\* What is shown is an amount rendered or a number grouped.
ShownSound == \/ shown = NotShown
              \/ \E d \in DecimalDigits : shown = [digits |-> d, number |-> 0, as |-> Format(amount, d)]
              \/ \E n \in Numbers : shown = [digits |-> Grouped, number |-> n,
                                             as |-> groupDigits(Digits(n))]

LEMMA TextSteps == TextSound /\ ShownSound /\ [MoneyNext]_moneyVars => TextSound' /\ ShownSound'
<1> SUFFICES ASSUME TextSound, ShownSound, [MoneyNext]_moneyVars PROVE TextSound' /\ ShownSound'
  OBVIOUS
<1>1. CASE UNCHANGED moneyVars
  BY <1>1 DEF moneyVars, TextSound, ShownSound
<1>2. CASE Show
  BY <1>2 DEF Show, TextSound, ShownSound
<1>3. ASSUME NEW n \in SplitParts, Split(n) PROVE TextSound' /\ ShownSound'
  BY <1>3 DEF Split, TextSound, ShownSound
<1>4. ASSUME NEW d \in DecimalDigits, Render(d) PROVE TextSound' /\ ShownSound'
  BY <1>4 DEF Render, TextSound, ShownSound
<1>5. ASSUME NEW n \in Numbers, Group(n) PROVE TextSound' /\ ShownSound'
  BY <1>5 DEF Group, TextSound, ShownSound
<1>6. CASE Read
  <2>1. TextSound'
    BY <1>6 DEF Read, TextSound
  <2>2. ShownSound'
    BY <1>6 DEF Read, Fresh, ShownSound
  <2> QED
    BY <2>1, <2>2
<1> QED
  BY <1>1, <1>2, <1>3, <1>4, <1>5, <1>6 DEF MoneyNext

LEMMA Reads == amount \in Milliunits /\ TextSound => ReadsWhatIsWritten
<1> SUFFICES ASSUME amount \in Milliunits, TextSound, text # NoAmount
             PROVE  /\ Parses(text)
                    /\ ParseMilliunits(text) = amount
                    /\ amount * 10^Len(text.frac) =
                           1000 * ValueOf(text.int \o text.frac) * (IF text.sign = "-" THEN -1 ELSE 1)
  BY DEF ReadsWhatIsWritten
<1>1. PICK w : Wide(w)
  BY WideExists
<1>2. PICK t : t = text
  OBVIOUS
<1>3. CASE text = String(amount)
  <2>1. Parses(t) /\ Milli(t) = amount
    BY <1>2, <1>3, PrintedIsRead
  <2>2. ParseMilliunits(t) = amount
    BY <2>1, WrappedFits DEF ParseMilliunits
  <2>3. PICK n \in Nat : t.int \in [1..n -> Int]
    BY <1>2, <1>3, PrintedIsRead
  <2>4. PICK f \in 0..3 : f = 3
    OBVIOUS
  <2>5. t.frac \in [1..f -> Int]
    BY <1>2, <1>3, <2>4, PrintedIsRead
  <2>6. Worth(t, f) /\ Len(t.frac) = f
    <3>1. Worth(t, f)
      BY <1>1, <2>3, <2>5, ReadText
    <3> QED
      BY <2>5, <3>1
  <2>7. Exact(t)
    BY <2>6, WorthExactly
  <2> QED
    BY <1>2, <2>1, <2>2, <2>7 DEF Exact
<1>4. CASE /\ text \in AmountTexts /\ (~text.dot => text.frac = <<>>)
           /\ Parses(text) /\ amount = ParseMilliunits(text)
  <2>1. Parses(t) /\ ParseMilliunits(t) = amount /\ (t.dot \/ t.frac = <<>>) /\ t \in AmountTexts
    BY <1>2, <1>4
  <2>2. Milli(t) \in Milliunits
    BY <2>1 DEF Parses
  <2>3. Milli(t) = amount
    BY <2>1, <2>2, WrappedFits DEF ParseMilliunits
  <2>4. t.int \in BoundedSeq(TextDigits, MaxText - 1) /\ t.frac \in BoundedSeq(TextDigits, MaxText)
        /\ t.dot \in BOOLEAN
    BY <2>1 DEF AmountTexts
  <2>5. PICK n \in 0..(MaxText - 1) : t.int \in [1..n -> TextDigits]
    BY <2>4 DEF BoundedSeq, SeqOf
  <2>6. PICK f \in 0..MaxText : t.frac \in [1..f -> TextDigits]
    BY <2>4 DEF BoundedSeq, SeqOf
  <2>7. TextDigits \subseteq Int /\ MaxText \in Nat
    BY TextAssumption
  <2>8. n \in Nat /\ t.int \in [1..n -> Int]
    <3>1. n \in Nat
      BY <2>7
    <3>2. t.int \in [1..n -> Int]
      BY <2>5, <2>7
    <3> QED
      BY <3>1, <3>2
  <2>9. f \in Nat /\ t.frac \in [1..f -> Int] /\ Len(t.frac) = f
    <3>1. f \in Nat
      BY <2>7
    <3>2. t.frac \in [1..f -> Int]
      BY <2>6, <2>7
    <3> QED
      BY <3>1, <3>2
  <2>10. f \in 0..3
    <3>1. CASE t.dot
      BY <2>1, <2>9, <3>1 DEF Parses
    <3>2. CASE t.frac = <<>>
      BY <2>9, <3>2
    <3> QED
      BY <2>1, <3>1, <3>2
  <2>11. Worth(t, f)
    BY <1>1, <2>8, <2>9, <2>10, ReadText
  <2>12. Exact(t)
    BY <2>9, <2>10, <2>11, WorthExactly
  <2> QED
    BY <1>2, <2>1, <2>3, <2>12 DEF Exact
<1> QED
  BY <1>3, <1>4 DEF TextSound

LEMMA Rendered == amount \in Milliunits /\ ShownSound => FormatRounds
<1> SUFFICES ASSUME amount \in Milliunits, ShownSound PROVE FormatRounds
  OBVIOUS
<1>1. PICK w : Wide(w)
  BY WideExists
<1>2. ASSUME NEW k \in DecimalDigits, shown = [digits |-> k, number |-> 0, as |-> Format(amount, k)]
      PROVE  FormatRounds
  <2>1. PICK d \in 0..3 : d = Clamped(k)
    BY MoneyAssumption, ShownAssumption DEF Clamped
  <2>2. PICK u \in Nat, p \in Nat \ {0} :
            /\ u = Rescaled(magnitude(amount), d) /\ u < 10^w
            /\ p = 10^(3 - d)
            /\ 2 * (u * p - magnitude(amount)) \in (1 - p)..p
    BY <1>1, Scaled
  <2>3. PICK n \in Nat \ {0} :
               /\ Digits(u \div 10^d) \in [1..n -> Int]
               /\ Padded(u % 10^d, d) \in [1..d -> Int] /\ Len(Padded(u % 10^d, d)) = d
               /\ ValueOf(Digits(u \div 10^d) \o Padded(u % 10^d, d)) = u
    BY <1>1, <2>2, PrintedApart
  <2>4. PICK f : f = Format(amount, k)
    OBVIOUS
  <2>5. /\ f.sign = IF amount < 0 THEN "-" ELSE ""
        /\ f.int = groupDigits(Digits(u \div 10^d))
        /\ f.frac = Padded(u % 10^d, d)
    BY <2>1, <2>2, <2>4 DEF Format
  <2>6. PICK s \in [1..n -> Int] : s = Digits(u \div 10^d)
    BY <2>3
  <2>7. FlattenSeq(f.int) = s
    <3>1. FlattenSeq(groupDigits(s)) = s
      BY Groups
    <3> QED
      BY <2>5, <2>6, <3>1
  <2>8. ValueOf(FlattenSeq(f.int) \o f.frac) = u
    BY <2>3, <2>5, <2>6, <2>7
  <2>9. f.sign = "-" <=> amount < 0
    BY <2>5
  <2>10. Len(f.frac) = d
    BY <2>3, <2>5
  <2>11. shown.digits = k /\ shown.as = f
    BY <1>2, <2>4
  <2> QED
    BY <2>1, <2>2, <2>8, <2>9, <2>10, <2>11 DEF FormatRounds
<1>3. ASSUME NEW x \in Numbers,
             shown = [digits |-> Grouped, number |-> x, as |-> groupDigits(Digits(x))]
      PROVE  FormatRounds
  <2>1. Grouped \notin DecimalDigits
    BY ShownAssumption
  <2>2. Width(x) \in 1..WordBits
    <3> DEFINE Fits(k) == x < 10^k /\ \A j \in 1..(k - 1) : x >= 10^j
    <3>1. \E k \in 1..WordBits : Fits(k)
      BY ShownAssumption
    <3>2. Width(x) = CHOOSE k \in 1..WordBits : Fits(k)
      BY DEF Width
    <3> HIDE DEF Fits
    <3> QED
      BY <3>1, <3>2
  <2>3. PICK n \in Nat \ {0} : n = Width(x)
    BY <2>2, MoneyAssumption
  <2>4. PICK S : S = {Digits(x)[i] : i \in 1..n}
    OBVIOUS
  <2>5. Digits(x) \in [1..n -> S]
    BY <2>3, <2>4 DEF Digits, Padded
  <2>6. PICK s \in [1..n -> S] : s = Digits(x)
    BY <2>5
  <2>7. /\ FlattenSeq(groupDigits(s)) = s
        /\ \A g \in DOMAIN groupDigits(s) : Len(groupDigits(s)[g]) \in IF g = 1 THEN 1..3 ELSE {3}
    BY Groups
  <2>8. shown.digits = Grouped /\ shown.number = x /\ shown.as = groupDigits(s)
    BY <1>3, <2>6
  <2> QED
    BY <2>1, <2>6, <2>7, <2>8 DEF FormatRounds
<1>4. CASE shown = NotShown
  <2>1. Grouped \notin DecimalDigits
    BY ShownAssumption
  <2>2. shown.digits = Grouped
    BY <1>4 DEF NotShown
  <2> QED
    BY <1>4, <2>1, <2>2 DEF FormatRounds
<1> QED
  BY <1>2, <1>3, <1>4 DEF ShownSound

AmountInvariant == AmountSound /\ TextSound /\ ShownSound

LEMMA AmountSteps == AmountInvariant /\ [MoneyNext]_moneyVars => AmountInvariant'
  BY SplitSteps, TextSteps DEF AmountInvariant

\* The two halves of the application do not touch each other.
LEMMA HalvesStep == [ValuesNext]_valuesVars => [MoneyNext]_moneyVars /\ [CalendarNext]_calendarVars
  BY DEF ValuesNext, valuesVars

LEMMA HalvesStart == ValuesInit => AmountInvariant /\ CalendarInvariant
<1> SUFFICES ASSUME ValuesInit PROVE AmountInvariant /\ CalendarInvariant
  OBVIOUS
<1>1. AmountInvariant
  BY ZeroIsAmount
     DEF ValuesInit, MoneyInit, MoneyRests, Fresh, AmountInvariant, AmountSound, TextSound, ShownSound
<1>2. ASSUME CalendarRests PROVE CalendarInit
  <2>1. FirstDayOf(Clock) = DateOf(CHOOSE n \in Clock : \A k \in Clock : n <= k)
    BY DEF FirstDayOf
  <2>2. \E n \in Clock : FirstDayOf(Clock) = DateOf(n)
    BY <2>1, CalendarAssumption
  <2> QED
    BY <1>2, <2>2 DEF CalendarRests, CalendarInit
<1> QED
  BY <1>1, <1>2, CalendarStarts DEF ValuesInit

\* Every amount is one of the word and every split a split of it; every date
\* and month is one of the calendar.
THEOREM ValuesCorrect == ValuesSpec => [](AmountInvariant /\ CalendarInvariant)
<1>1. AmountInvariant /\ CalendarInvariant /\ [ValuesNext]_valuesVars
          => (AmountInvariant /\ CalendarInvariant)'
  BY AmountSteps, CalendarSteps, HalvesStep
<1> QED
  BY <1>1, HalvesStart, PTL DEF ValuesSpec

\* A split of any amount into any number of parts is valid: SplitAlwaysValid in
\* every behaviour, on a word of any width.
THEOREM SplitCorrect == ValuesSpec => []SplitAlwaysValid
<1>1. AmountInvariant => SplitAlwaysValid
  <2> SUFFICES ASSUME AmountInvariant, parts # <<>> PROVE SplitAlwaysValid
    BY DEF SplitAlwaysValid
  <2>1. PICK n \in SplitParts : parts = SplitEven(amount, n)
    BY DEF AmountInvariant, AmountSound
  <2>2. n \in 1..(2^(WordBits - 1) - 1) /\ amount \in Milliunits
    BY PartsAssumption DEF AmountInvariant, AmountSound
  <2>3. /\ parts \in [1..n -> Int] /\ Total(parts) = amount /\ SplitSum(parts) = amount
        /\ \A i, j \in 1..n : parts[i] - parts[j] \in -1..1
    BY <2>1, <2>2, SplitSumsUp
  <2>4. DOMAIN parts = 1..n
    BY <2>3
  <2> QED
    BY <2>3, <2>4 DEF SplitAlwaysValid
<1> QED
  BY <1>1, ValuesCorrect, PTL

\* What String prints is read back as the amount, and a text is worth exactly
\* the amount ParseMilliunits gives: ReadsWhatIsWritten in every behaviour.
THEOREM ReadsCorrect == ValuesSpec => []ReadsWhatIsWritten
<1>1. AmountInvariant => ReadsWhatIsWritten
  BY Reads DEF AmountInvariant, AmountSound
<1> QED
  BY <1>1, ValuesCorrect, PTL

\* Format rounds to the nearest, half away from zero, and groupDigits loses no
\* digit: FormatRounds in every behaviour.
THEOREM RendersCorrect == ValuesSpec => []FormatRounds
<1>1. AmountInvariant => FormatRounds
  BY Rendered DEF AmountInvariant, AmountSound
<1> QED
  BY <1>1, ValuesCorrect, PTL

\* The window of scheduled dates is five years, on whatever day and for
\* whatever date: WindowIsFiveYears in every behaviour.
THEOREM WindowCorrect == ValuesSpec => []WindowIsFiveYears
<1>1. CalendarInvariant => WindowIsFiveYears
  <2> SUFFICES ASSUME CalendarInvariant PROVE WindowIsFiveYears
    OBVIOUS
  <2>1. CASE date = NoDate
    BY <2>1 DEF WindowIsFiveYears, checkScheduledDate
  <2>2. CASE date # NoDate
    <3>1. RealDay(date) /\ RealDay(today)
      BY <2>2 DEF CalendarInvariant
    <3>2. DayNumber(date) \in Int /\ DayNumber(today) \in Int /\ LastDay(today) \in Int
          /\ LastDay(today) - DayNumber(today) \in FiveYears(today)..1827
          /\ FiveYears(today) \in Nat
      BY <3>1, DayWithin, WindowEnds DEF FiveYears
    <3>3. InThePast # "ok" /\ TooFarOut # "ok" /\ InThePast # TooFarOut
      BY DEF InThePast, TooFarOut
    <3> QED
      BY <2>2, <3>1, <3>2, <3>3, WindowChecked DEF WindowIsFiveYears
  <2> QED
    BY <2>1, <2>2
<1> QED
  BY <1>1, ValuesCorrect, PTL

\* A date that passed the check is never refused later for being too far out:
\* WindowOnlyLosesThePast, because the window never ends earlier than it did.
THEOREM LosesCorrect == ValuesSpec => WindowOnlyLosesThePast
<1> DEFINE Keeps == date' = date /\ checkScheduledDate(date, today) = "ok"
                        => checkScheduledDate(date, today') \in {"ok", InThePast}
<1>1. CalendarInvariant /\ [CalendarNext]_calendarVars => [Keeps]_calendarVars
  <2> SUFFICES ASSUME CalendarInvariant, CalendarNext,
                      checkScheduledDate(date, today) = "ok"
               PROVE  checkScheduledDate(date, today') \in {"ok", InThePast}
    OBVIOUS
  <2>1. CASE today' = today
    BY <2>1
  <2>2. CASE Midnight
    <3>1. RealDay(date) /\ RealDay(today) /\ today # NoDate
      BY DEF CalendarInvariant, checkScheduledDate, DateRequired, RealDay, NoDate
    <3>2. PICK u : u = today'
      OBVIOUS
    <3>3. RealDay(u) /\ DayNumber(u) = DayNumber(today) + 1
      <4>1. u = DateOf(DayNumber(today) + 1)
        BY <2>2, <3>1, <3>2 DEF Midnight, AddDays
      <4>2. DayNumber(today) + 1 \in Int
        BY <3>1, DayWithin
      <4> QED
        BY <4>1, <4>2, DayOfNumber
    <3>4. LastDay(today) <= LastDay(u)
      BY <3>1, <3>3, WindowMovesOn
    <3>5. DayNumber(date) <= LastDay(today)
      <4>1. TooFarOut # "ok" /\ InThePast # "ok"
        BY DEF TooFarOut, InThePast
      <4>2. DayNumber(date) \in Int /\ LastDay(today) \in Int
        BY <3>1, DayWithin, WindowEnds
      <4> QED
        BY <3>1, <4>1, <4>2, WindowChecked
    <3>6. DayNumber(date) <= LastDay(u)
      <4>1. DayNumber(date) \in Int /\ LastDay(today) \in Int /\ LastDay(u) \in Int
        BY <3>1, <3>3, DayWithin, WindowEnds
      <4> QED
        BY <3>4, <3>5, <4>1
    <3>7. DayNumber(date) \in Int /\ LastDay(u) \in Int
      BY <3>1, <3>3, DayWithin, WindowEnds
    <3> QED
      BY <3>1, <3>2, <3>3, <3>6, <3>7, WindowChecked
  <2>3. Midnight \/ today' = today
    BY DEF CalendarNext, ComputeDays, ComputeMonths, WalkMonths, ReadDate, ReadMonth
  <2> QED
    BY <2>1, <2>2, <2>3
<1>2. AmountInvariant /\ CalendarInvariant /\ [ValuesNext]_valuesVars
      => [Keeps]_calendarVars
  BY <1>1, HalvesStep
<1> QED
  BY <1>2, ValuesCorrect, PTL DEF ValuesSpec, WindowOnlyLosesThePast

\* Dates, months and their texts are one calendar: OneCalendar in every
\* behaviour.
THEOREM CalendarCorrect == ValuesSpec => []OneCalendar
<1>1. CalendarInvariant => OneCalendar
  BY MonthsAgree, Order, Strict DEF OneCalendar
<1> QED
  BY <1>1, ValuesCorrect, PTL
=============================================================================
