--------------------------- MODULE PredictProofs ---------------------------
(***************************************************************************)
(* The safety properties of Predict hold for every set of keys, amounts    *)
(* and goroutines, and for floats of every precision.                      *)
(***************************************************************************)
EXTENDS Predict, WellFoundedInduction, TLAPS

-----------------------------------------------------------------------------
(* Powers of two.                                                          *)

Exponents == 0..(Precision + MaxExp + 1)

(* A set of naturals has a least element: the principle of induction, for
   sets. *)
LEMMA LeastElement ==
    ASSUME NEW T \in SUBSET Nat, T # {}
    PROVE  \E x \in T : \A y \in T : x <= y
<1>1. PICK x \in T : \A y \in T : ~(<<y, x>> \in OpToRel(<, Nat))
  BY NatLessThanWellFounded, WFMin
<1>2. \A y \in T : ~(y < x)
  BY <1>1 DEF OpToRel
<1> QED BY <1>2

(* Powers of two are positive. *)
LEMMA PowerType == \A n \in Exponents : 2^n \in Nat \ {0}
<1> DEFINE T == {n \in Exponents : 2^n \notin Nat \ {0}}
<1> SUFFICES ASSUME T # {} PROVE FALSE
  OBVIOUS
<1>1. T \in SUBSET Nat
  BY ConstantsAssumption DEF Exponents
<1>2. PICK n \in T : \A m \in T : n <= m
  BY <1>1, LeastElement
<1>3. n # 0
  <2>1. 2^0 \in Nat \ {0}
    BY PowersOfTwo
  <2>2. 2^n \notin Nat \ {0}
    OBVIOUS
  <2> QED BY <2>1, <2>2
<1>4. n - 1 \in 0..(Precision + MaxExp) /\ n - 1 \notin T
  BY <1>1, <1>2, <1>3, ConstantsAssumption DEF Exponents
<1>5. 2^(n - 1) \in Nat \ {0}
  BY <1>4, ConstantsAssumption DEF Exponents
<1>6. 2^((n - 1) + 1) = 2 * 2^(n - 1)
  BY <1>4, PowersOfTwo
<1>7. (n - 1) + 1 = n
  BY <1>1
<1>8. 2^n \in Nat \ {0}
  BY <1>5, <1>6, <1>7
<1> QED BY <1>8

(* They grow with the exponent. *)
LEMMA PowerMonotone ==
    ASSUME NEW m \in Exponents, NEW n \in Exponents, m <= n
    PROVE  2^m <= 2^n
<1> DEFINE T == {k \in Exponents : m <= k /\ ~(2^m <= 2^k)}
<1> SUFFICES ASSUME T # {} PROVE FALSE
  OBVIOUS
<1>1. T \in SUBSET Nat /\ m \in Nat
  BY ConstantsAssumption DEF Exponents
<1>2. PICK k \in T : \A l \in T : k <= l
  BY <1>1, LeastElement
<1>3. 2^m \in Nat
  BY PowerType
<1>4. k # m /\ k > m /\ k \in Nat
  BY <1>1, <1>3
<1>5. k - 1 \in 0..(Precision + MaxExp) /\ m <= k - 1 /\ k - 1 \notin T
  BY <1>1, <1>2, <1>4, ConstantsAssumption DEF Exponents
<1>6. 2^m <= 2^(k - 1) /\ 2^(k - 1) \in Nat
  BY <1>5, PowerType, ConstantsAssumption DEF Exponents
<1>7. 2^((k - 1) + 1) = 2 * 2^(k - 1)
  BY <1>5, PowersOfTwo
<1>8. (k - 1) + 1 = k
  BY <1>4
<1>9. 2^m <= 2^k
  BY <1>3, <1>6, <1>7, <1>8
<1> QED BY <1>9

-----------------------------------------------------------------------------
(* Floats.                                                                 *)

(* Rounding to a multiple of u moves a number by at most half of u, and ends
   at the multiple that lies less than that away. *)
LEMMA RoundToMultiple ==
    ASSUME NEW x \in Nat, NEW u \in Nat \ {0}
    PROVE  LET h == u \div 2
               y == ((x + h) \div u) * u
           IN  /\ y \in Nat /\ x - h <= y /\ y <= x + h
               /\ \A v \in Nat : (v % u = 0 /\ x - h < v /\ v < x + h) => y = v
<1> DEFINE h == u \div 2
           q == (x + h) \div u
<1>1. h \in Nat /\ 2 * h <= u /\ u <= 2 * h + 1
  OBVIOUS
<1>2. q \in Nat /\ q * u <= x + h /\ x + h < q * u + u
  BY <1>1
<1>3. q * u \in Nat /\ x - h <= q * u
  BY <1>1, <1>2
<1>4. ASSUME NEW v \in Nat, v % u = 0, x - h < v, v < x + h
      PROVE  q * u = v
  <2>1. v = u * (v \div u) /\ v \div u \in Nat
    BY <1>4
  <2> DEFINE k == v \div u
  <2>2. k * u <= x + h /\ x + h < k * u + u
    BY <1>1, <1>4, <2>1
  <2>3. q * u < k * u + u /\ k * u < q * u + u
    BY <1>2, <1>3, <2>1, <2>2
  <2>4. q = k
    <3> HIDE DEF q, k, h
    <3>1. k \in Nat
      BY <2>1 DEF k
    <3>2. CASE q >= k + 1
      <4>1. q * u >= (k + 1) * u
        BY <1>2, <3>1, <3>2
      <4> QED BY <1>2, <2>3, <3>1, <4>1
    <3>3. CASE k >= q + 1
      <4>1. k * u >= (q + 1) * u
        BY <1>2, <3>1, <3>3
      <4> QED BY <1>2, <2>3, <3>1, <4>1
    <3> QED BY <1>2, <3>1, <3>2, <3>3
  <2> QED BY <2>1, <2>4
<1> QED BY <1>2, <1>3, <1>4

(* A cent is a hundredth of the unit. *)
LEMMA UnitFacts ==
    /\ Half \in Nat \ {0} /\ Unit \in Nat \ {0} /\ Cent \in Nat \ {0}
    /\ Unit = 2 * Half /\ Unit = 100 * Cent /\ Cent = 2^(Precision - 2)
<1> DEFINE c == 2^(Precision - 2)
<1>1. Precision - 2 \in 0..(Precision + MaxExp)
  BY ConstantsAssumption
<1>2. c \in Nat \ {0}
  BY <1>1, PowerType, ConstantsAssumption DEF Exponents
<1>3. 2^((Precision - 2) + 1) = 2 * c
  BY <1>1, PowersOfTwo
<1>4. (Precision - 2) + 1 = Precision - 1
  BY ConstantsAssumption
<1>5. 2^(Precision - 1) = 2 * c
  BY <1>2, <1>3, <1>4
<1> HIDE DEF c
<1>6. Half = 50 * c /\ Unit = 100 * c
  BY <1>2, <1>5 DEF Half, Unit
<1> QED BY <1>2, <1>6 DEF Cent, c

(* x lies between two neighbouring powers of two. *)
Binade(x, e) == Half * 2^e <= x /\ x < Half * 2^(e + 1)

InRange(x) == x \in Nat /\ Half <= x /\ x < Half * 2^(MaxExp + 1)

(* Every number that is not too large has such a place. *)
LEMMA BinadeExists ==
    ASSUME NEW x, InRange(x)
    PROVE  \E e \in 0..MaxExp : Binade(x, e)
<1> DEFINE T == {e \in 0..MaxExp : x < Half * 2^(e + 1)}
<1>1. T \in SUBSET Nat /\ MaxExp \in T
  BY ConstantsAssumption DEF InRange
<1>2. PICK e \in T : \A f \in T : e <= f
  BY <1>1, LeastElement
<1>3. CASE e = 0
  <2>1. Half * 2^e <= x
    BY <1>3, PowersOfTwo, UnitFacts DEF InRange
  <2> QED BY <2>1 DEF Binade
<1>4. CASE e # 0
  <2>1. e - 1 \in 0..MaxExp /\ e - 1 \notin T /\ (e - 1) + 1 = e
    BY <1>1, <1>2, <1>4, ConstantsAssumption
  <2>2. e \in Exponents
    BY ConstantsAssumption DEF Exponents
  <2>3. 2^e \in Nat
    BY <2>2, PowerType
  <2>4. ~(x < Half * 2^e)
    BY <2>1
  <2>5. Half * 2^e <= x
    BY <2>3, <2>4, UnitFacts DEF InRange
  <2> QED BY <2>5 DEF Binade
<1> QED BY <1>3, <1>4

(* It has only one. *)
LEMMA BinadeUnique ==
    ASSUME NEW x \in Nat, NEW e \in 0..MaxExp, NEW f \in 0..MaxExp,
           Binade(x, e), Binade(x, f)
    PROVE  e = f
<1>1. ASSUME NEW a \in 0..MaxExp, NEW b \in 0..MaxExp, Binade(x, a), Binade(x, b),
             a < b
      PROVE  FALSE
  <2>1. a + 1 \in Exponents /\ b \in Exponents /\ a + 1 <= b
    BY <1>1, ConstantsAssumption DEF Exponents
  <2>2. 2^(a + 1) <= 2^b /\ 2^(a + 1) \in Nat /\ 2^b \in Nat
    BY <2>1, PowerMonotone, PowerType
  <2>3. Half * 2^(a + 1) <= Half * 2^b
    BY <2>2, UnitFacts
  <2> QED BY <1>1, <2>2, <2>3, UnitFacts DEF Binade
<1>2. e \in Nat /\ f \in Nat
  BY ConstantsAssumption
<1>3. ~(e < f) /\ ~(f < e)
  BY <1>1
<1> QED BY <1>2, <1>3

(* The distance of neighbouring floats is that of the binade. *)
LEMMA UlpFacts ==
    ASSUME NEW v, InRange(Magnitude(v))
    PROVE  \E e \in 0..MaxExp : /\ Binade(Magnitude(v), e) /\ Ulp(v) = 25 * 2^e
                                /\ 2^e \in Nat \ {0}
<1> DEFINE e == CHOOSE e \in 0..MaxExp :
                  Half * 2^e <= Magnitude(v) /\ Magnitude(v) < Half * 2^(e + 1)
<1>1. e \in 0..MaxExp /\ Binade(Magnitude(v), e)
  BY BinadeExists DEF Binade
<1>2. Ulp(v) = 25 * 2^e
  BY DEF Ulp
<1> HIDE DEF e
<1>3. 2^e \in Nat \ {0}
  BY <1>1, PowerType, ConstantsAssumption DEF Exponents
<1> QED BY <1>1, <1>2, <1>3

(* A number strictly between two neighbouring multiples is none itself. *)
LEMMA BetweenMultiples ==
    ASSUME NEW u \in Nat \ {0}, NEW v \in Nat, NEW w \in Nat, v % u = 0,
           w # v, v < w + u, w < v + u
    PROVE  w % u # 0
<1> SUFFICES ASSUME w % u = 0 PROVE FALSE
  OBVIOUS
<1> DEFINE k == v \div u
           m == w \div u
<1>1. k \in Nat /\ m \in Nat /\ v = u * k /\ w = u * m
  OBVIOUS
<1> HIDE DEF k, m
<1>2. CASE m + 1 <= k
  <2>1. u * (m + 1) <= u * k
    BY <1>1, <1>2
  <2> QED BY <1>1, <2>1
<1>3. CASE m >= k + 1
  <2>1. u * m >= u * (k + 1)
    BY <1>1, <1>3
  <2> QED BY <1>1, <2>1
<1> QED BY <1>1, <1>2, <1>3

(* What an amount is, by its sign. *)
LEMMA AmountFacts ==
    ASSUME NEW v \in Amounts
    PROVE  /\ v \in Int /\ Magnitude(v) \in Nat \ {0} /\ Float(v)
           /\ Magnitude(v) + Half <= Half * 2^(MaxExp + 1)
           /\ IsWhole(v) => Magnitude(v) >= Unit
<1>1. /\ v \in Int /\ Magnitude(v) \in Nat \ {0} /\ Float(v)
      /\ Magnitude(v) <= Half * 2^MaxExp
  BY ConstantsAssumption DEF Magnitude
<1>2. 2^MaxExp \in Nat \ {0} /\ 2^(MaxExp + 1) = 2 * 2^MaxExp
  BY PowerType, PowersOfTwo, ConstantsAssumption DEF Exponents
<1>3. /\ Half <= Half * 2^MaxExp /\ Half * 2^MaxExp \in Nat
      /\ Half * 2^(MaxExp + 1) = Half * 2^MaxExp + Half * 2^MaxExp
  BY <1>2, UnitFacts
<1>4. ASSUME IsWhole(v) PROVE Magnitude(v) >= Unit
  <2>1. \A a \in Nat \ {0}, b \in Nat \ {0} : a % b = 0 => a >= b
    OBVIOUS
  <2> QED BY <1>1, <1>4, <2>1, UnitFacts DEF IsWhole
<1> QED BY <1>1, <1>3, <1>4, UnitFacts

(* A cent takes a whole amount to where floats are as dense as at the amount,
   or - if it is minus a power of two - denser: the amount is among them. *)
LEMMA CentStays ==
    ASSUME NEW v \in Amounts, IsWhole(v)
    PROVE  \E e \in 0..MaxExp :
             /\ 2^e \in Nat \ {0} /\ Ulp(v + Cent) = 25 * 2^e
             /\ Magnitude(v) % (25 * 2^e) = 0 /\ Half * 2^e <= Magnitude(v)
<1> DEFINE m == Magnitude(v)
           x == Magnitude(v + Cent)
<1>1. /\ v \in Int /\ m \in Nat /\ m >= Unit /\ Float(v)
      /\ m + Half <= Half * 2^(MaxExp + 1)
  BY AmountFacts
<1>2. /\ x \in Nat
      /\ (v > 0 /\ x = m + Cent) \/ (v < 0 /\ x = m - Cent)
  BY <1>1, UnitFacts DEF Magnitude
<1>3. 2^(MaxExp + 1) \in Nat /\ Half * 2^(MaxExp + 1) \in Nat
  BY PowerType, UnitFacts, ConstantsAssumption DEF Exponents
<1>4. InRange(m) /\ InRange(x)
  <2> HIDE DEF m, x
  <2> QED BY <1>1, <1>2, <1>3, UnitFacts DEF InRange
<1>5. PICK f \in 0..MaxExp : /\ Binade(m, f) /\ Ulp(v) = 25 * 2^f
                             /\ 2^f \in Nat \ {0}
  BY <1>4, UlpFacts
<1>6. PICK e \in 0..MaxExp : /\ Binade(x, e) /\ Ulp(v + Cent) = 25 * 2^e
                             /\ 2^e \in Nat \ {0}
  BY <1>4, UlpFacts
<1>7. m % (25 * 2^f) = 0
  BY <1>1, <1>5, UnitFacts DEF Float
<1> HIDE DEF m, x
<1>8. /\ 2^(f + 1) = 2 * 2^f /\ Half * 2^f \in Nat /\ Half * 2^(f + 1) \in Nat
      /\ Half * 2^(f + 1) = Unit * 2^f
  <2>1. 2^(f + 1) = 2 * 2^f
    BY PowersOfTwo, ConstantsAssumption
  <2> QED BY <1>5, <2>1, UnitFacts
<1>9. CASE Binade(x, f)
  <2>1. e = f
    BY <1>2, <1>6, <1>9, BinadeUnique
  <2> QED BY <1>5, <1>6, <1>7, <2>1 DEF Binade, m
<1>10. CASE v > 0
  <2> DEFINE k == m \div Unit
             n == 2^f
  <2>1. k \in Nat /\ m = Unit * k
    <3>1. \A a \in Nat, b \in Nat \ {0} :
            a % b = 0 => a \div b \in Nat /\ a = b * (a \div b)
      OBVIOUS
    <3> QED BY <1>1, <3>1, UnitFacts DEF IsWhole, m
  <2>2. n \in Nat /\ m < Unit * n
    BY <1>5, <1>8 DEF Binade
  <2> HIDE DEF k, n
  <2>3. k < n
    <3> SUFFICES ASSUME n <= k PROVE FALSE
      BY <2>1, <2>2
    <3>1. Unit * n <= Unit * k
      BY <2>1, <2>2, UnitFacts
    <3> QED BY <2>1, <2>2, <3>1, UnitFacts
  <2>4. Unit * (k + 1) <= Unit * n
    BY <2>1, <2>2, <2>3, UnitFacts
  <2>5. m + Unit <= Half * 2^(f + 1)
    <3>1. Unit * (k + 1) = m + Unit
      BY <2>1, UnitFacts
    <3> QED BY <1>8, <2>4, <3>1 DEF n
  <2>6. Binade(x, f)
    <3>1. x = m + Cent
      BY <1>1, <1>2, <1>10
    <3> QED BY <1>1, <1>5, <1>8, <2>5, <3>1, UnitFacts DEF Binade
  <2> QED BY <1>9, <2>6
<1>11. CASE v < 0 /\ ~Binade(x, f)
  <2>1. x = m - Cent /\ x < Half * 2^f
    <3>1. x = m - Cent
      BY <1>1, <1>2, <1>11
    <3> QED BY <1>1, <1>5, <1>8, <1>11, <3>1, UnitFacts DEF Binade
  <2>2. f # 0
    <3> SUFFICES ASSUME f = 0 PROVE FALSE
      OBVIOUS
    <3>1. Half * 2^f = Half
      BY PowersOfTwo, UnitFacts
    <3> QED BY <1>1, <2>1, <3>1, UnitFacts
  <2> DEFINE g == f - 1
  <2>3. g \in 0..MaxExp /\ g + 1 = f /\ g \in Exponents
    BY <2>2, ConstantsAssumption DEF Exponents
  <2> HIDE DEF g
  <2>4. 2^g \in Nat \ {0} /\ 2^f = 2 * 2^g
    <3>1. 2^(g + 1) = 2 * 2^g
      BY <2>3, PowersOfTwo, ConstantsAssumption
    <3> QED BY <2>3, <3>1, PowerType
  <2>5. Half * 2^g \in Nat /\ Half * 2^f = Half * 2^g + Half * 2^g /\ Half <= Half * 2^g
    BY <2>4, UnitFacts
  <2>6. Binade(x, g)
    <3>1. Half * 2^f <= m
      BY <1>5 DEF Binade
    <3>2. Half * 2^g <= x
      BY <1>1, <2>1, <2>5, <3>1, UnitFacts
    <3> QED BY <2>1, <2>3, <3>2 DEF Binade
  <2>7. e = g
    BY <1>2, <1>6, <2>3, <2>6, BinadeUnique
  <2>8. m % (25 * 2^g) = 0
    <3>1. \A a \in Nat, b \in Nat \ {0} : a % (2 * b) = 0 => a % b = 0
      <4> SUFFICES ASSUME NEW a \in Nat, NEW b \in Nat \ {0}, a % (2 * b) = 0
                   PROVE  a % b = 0
        OBVIOUS
      <4> DEFINE k == a \div (2 * b)
      <4>1. k \in Nat /\ a = (2 * b) * k
        OBVIOUS
      <4> HIDE DEF k
      <4>2. a = b * (2 * k) /\ 2 * k \in Nat
        BY <4>1
      <4>3. \A c \in Nat : (b * c) % b = 0
        OBVIOUS
      <4> QED BY <4>2, <4>3
    <3>2. 25 * 2^f = 2 * (25 * 2^g) /\ 25 * 2^g \in Nat \ {0}
      BY <2>4
    <3> QED BY <1>1, <1>7, <3>1, <3>2
  <2>9. Half * 2^g <= m
    BY <1>1, <1>5, <1>8, <2>5 DEF Binade
  <2> QED BY <1>6, <2>7, <2>8, <2>9 DEF m
<1> QED BY <1>1, <1>2, <1>9, <1>10, <1>11

(* ensureDecimal adds at most two cents, and below its limit what it adds
   survives the rounding. *)
LEMMA EnsureDecimalFacts ==
    ASSUME NEW v \in Amounts
    PROVE  /\ v \in Int /\ ensureDecimal(v) \in Int
           /\ ensureDecimal(v) >= v /\ ensureDecimal(v) - v <= 2 * Cent
           /\ Magnitude(v) < Unit * 2^(Precision - 6) => ~IsWhole(ensureDecimal(v))
<1>1. v \in Int /\ Magnitude(v) \in Nat
  BY AmountFacts
<1>2. CASE ~IsWhole(v)
  <2>1. ensureDecimal(v) = v
    BY <1>2 DEF ensureDecimal
  <2> QED BY <1>1, <1>2, <2>1, UnitFacts
<1>3. CASE IsWhole(v)
  <2> DEFINE m == Magnitude(v)
  <2>1. PICK e \in 0..MaxExp :
          /\ 2^e \in Nat \ {0} /\ Ulp(v + Cent) = 25 * 2^e
          /\ m % (25 * 2^e) = 0 /\ Half * 2^e <= m
    BY <1>3, CentStays
  <2> DEFINE u == 25 * 2^e
             h == u \div 2
             x == Magnitude(v + Cent)
             y == ((x + h) \div u) * u
             w == IF v + Cent < 0 THEN -y ELSE y
  <2>2. u \in Nat \ {0} /\ h \in Nat /\ 2 * h <= u /\ m \in Nat /\ m >= Unit
    BY <1>1, <1>3, <2>1, AmountFacts
  <2>3. ensureDecimal(v) = w
    BY <1>3, <2>1 DEF ensureDecimal, Round
  <2>4. /\ x \in Nat
        /\ \/ v > 0 /\ v = m /\ x = m + Cent /\ ~(v + Cent < 0)
           \/ v < 0 /\ v = -m /\ x = m - Cent /\ v + Cent < 0
    BY <1>1, <2>2, UnitFacts DEF Magnitude
  <2> HIDE DEF m, x
  <2>5. /\ y \in Nat /\ x - h <= y /\ y <= x + h
        /\ Cent < h => y = m
    <3> HIDE DEF u
    <3>1. /\ y \in Nat /\ x - h <= y /\ y <= x + h
          /\ \A a \in Nat : (a % u = 0 /\ x - h < a /\ a < x + h) => y = a
      BY <2>2, <2>4, RoundToMultiple
    <3>2. m % u = 0
      BY <2>1 DEF u
    <3> HIDE DEF h, y
    <3>3. Cent < h => x - h < m /\ m < x + h
      BY <2>2, <2>4, UnitFacts
    <3> QED BY <2>2, <3>1, <3>2, <3>3
  <2> HIDE DEF y, h, u
  <2>6. w \in Int /\ w >= v /\ w - v <= 2 * Cent
    <3>1. CASE v > 0
      BY <1>1, <2>2, <2>4, <2>5, <3>1, UnitFacts
    <3>2. CASE v < 0
      BY <1>1, <2>2, <2>4, <2>5, <3>2, UnitFacts
    <3> QED BY <2>4, <3>1, <3>2
  <2>7. ASSUME m < Unit * 2^(Precision - 6) PROVE ~IsWhole(w)
    <3>1. h < Cent
      <4> DEFINE n == 2^(Precision - 6)
      <4>1. /\ Precision - 6 \in Exponents /\ Precision - 5 \in Exponents
            /\ e \in Exponents /\ e + 1 \in Exponents
        BY ConstantsAssumption DEF Exponents
      <4>2. n \in Nat \ {0}
        BY <4>1, PowerType
      <4>3. Cent = 16 * n /\ 2^(Precision - 5) = 2 * n
        <5>1. /\ Precision - 6 \in 0..(Precision + MaxExp)
              /\ Precision - 5 \in 0..(Precision + MaxExp)
              /\ Precision - 4 \in 0..(Precision + MaxExp)
              /\ Precision - 3 \in 0..(Precision + MaxExp)
          BY ConstantsAssumption
        <5>2. /\ 2^((Precision - 6) + 1) = 2 * n
              /\ 2^((Precision - 5) + 1) = 2 * 2^(Precision - 5)
              /\ 2^((Precision - 4) + 1) = 2 * 2^(Precision - 4)
              /\ 2^((Precision - 3) + 1) = 2 * 2^(Precision - 3)
          BY <5>1, PowersOfTwo
        <5>3. /\ (Precision - 6) + 1 = Precision - 5
              /\ (Precision - 5) + 1 = Precision - 4
              /\ (Precision - 4) + 1 = Precision - 3
              /\ (Precision - 3) + 1 = Precision - 2
          BY ConstantsAssumption
        <5> QED BY <4>2, <5>2, <5>3, UnitFacts
      <4>4. e < Precision - 5
        <5> SUFFICES ASSUME Precision - 5 <= e PROVE FALSE
          BY ConstantsAssumption
        <5>1. 2 * n <= 2^e
          BY <4>1, <4>3, PowerMonotone
        <5> HIDE DEF n
        <5>2. Half * (2 * n) <= Half * 2^e /\ Half * (2 * n) = Unit * n
          BY <2>1, <4>2, <5>1, UnitFacts
        <5>3. Half * 2^e <= m /\ m < Unit * n
          BY <2>1, <2>7 DEF n
        <5>4. Unit * n \in Nat /\ Half * 2^e \in Nat
          BY <2>1, <4>2, UnitFacts
        <5> QED BY <2>2, <5>2, <5>3, <5>4
      <4>5. 2^(e + 1) <= 2 * n
        BY <4>1, <4>3, <4>4, PowerMonotone, ConstantsAssumption
      <4>6. 2^(e + 1) = 2 * 2^e
        BY PowersOfTwo, ConstantsAssumption
      <4> HIDE DEF n
      <4>7. 2 * h <= 25 * 2^e
        BY <2>2 DEF u
      <4> QED BY <2>1, <2>2, <4>2, <4>3, <4>5, <4>6, <4>7
    <3>2. y # m /\ m < y + Unit /\ y < m + Unit
      BY <2>2, <2>4, <2>5, <3>1, UnitFacts
    <3>3. m % Unit = 0
      BY <1>3 DEF IsWhole, m
    <3>4. y % Unit # 0
      BY <2>2, <2>5, <3>2, <3>3, UnitFacts, BetweenMultiples
    <3>5. Magnitude(w) = y
      BY <2>4, <2>5 DEF Magnitude
    <3> QED BY <3>4, <3>5 DEF IsWhole
  <2> QED BY <1>1, <2>3, <2>6, <2>7 DEF m
<1> QED BY <1>2, <1>3

-----------------------------------------------------------------------------
(* The invariant.                                                          *)

(* What a goroutine holds: a body that a client can send and, once there is
   a prediction to log, the features of that body. *)
RequestInv ==
    \A p \in Procs :
        /\ req[p].no <= sent
        /\ pc[p] # "idle" => req[p].body \in Bodies
        /\ pc[p] = "predict" => req[p].body.kind \in ValidKinds
        /\ (pc[p] = "log" /\ req[p].status = "200") =>
              /\ req[p].response /\ req[p].payload # None
              /\ req[p].body.kind \in ValidKinds
              /\ req[p].payload.kind = req[p].body.kind

(* A running request has a number of its own and no row yet. *)
NumbersInv ==
    /\ \A p, q \in Procs :
         (p # q /\ pc[p] # "idle" /\ pc[q] # "idle") => req[p].no # req[q].no
    /\ \A l \in logs : l.no <= sent
    /\ \A l \in logs, p \in Procs : pc[p] # "idle" => l.no # req[p].no

(* What the vendor got for a running request is what will be logged; other
   requests of that number are over. *)
VendorInv ==
    \A v \in vendor :
        /\ v.no <= sent
        /\ v.asked \in Amounts /\ v.amount = ensureDecimal(v.asked)
        /\ \A p \in Procs :
             (pc[p] # "idle" /\ v.no = req[p].no) =>
                 /\ pc[p] = "log" /\ req[p].payload # None
                 /\ req[p].payload.amount = v.amount

IInv ==
    /\ TypeOK /\ RequestInv /\ NumbersInv /\ VendorInv
    /\ LogNamesItsKey /\ LoggedAsScored /\ ServedIsLogged

Steps == {"idle", "body", "predict", "log"}

Others(p) == \A q \in Procs \ {p} : pc'[q] = pc[q] /\ req'[q] = req[q]

(* Handing over to saveInferenceLog sets what is logged and the answer. *)
LEMMA ToLogFacts ==
    ASSUME TypeOK, NEW p \in Procs, NEW payload \in Body \cup {None},
           NEW response \in BOOLEAN, NEW status \in Statuses,
           ToLog(p, payload, response, status)
    PROVE  /\ pc' \in [Procs -> Steps] /\ req' \in [Procs -> Request]
           /\ Others(p) /\ pc'[p] = "log"
           /\ req'[p].payload = payload /\ req'[p].response = response
           /\ req'[p].status = status
           /\ req'[p].no = req[p].no /\ req'[p].body = req[p].body
<1>1. req[p] \in Request
  BY DEF TypeOK
<1>2. req' = [req EXCEPT ![p] = [req[p] EXCEPT !.payload = payload,
                                     !.response = response, !.status = status]]
  BY <1>1 DEF ToLog, TypeOK, Request
<1>3. [req[p] EXCEPT !.payload = payload, !.response = response,
                     !.status = status] \in Request
  BY <1>1 DEF Request
<1>4. pc' = [pc EXCEPT ![p] = "log"]
  BY DEF ToLog
<1> QED BY <1>1, <1>2, <1>3, <1>4 DEF TypeOK, Others, Steps, Request

(* The features of a valid body, with the amount that was sent. *)
LEMMA LoggedFeaturesFacts ==
    ASSUME NEW b \in Bodies, b.kind \in ValidKinds
    PROVE  /\ b.amount \in Amounts
           /\ LoggedFeatures(b) \in Body /\ LoggedFeatures(b) # None
           /\ LoggedFeatures(b).kind = b.kind
           /\ LoggedFeatures(b).amount = ensureDecimal(b.amount)
<1>1. b \in [kind : ValidKinds, amount : Amounts]
  BY DEF Bodies, BadKinds, ValidKinds
<1>2. ensureDecimal(b.amount) \in Int
  BY <1>1, EnsureDecimalFacts
<1>3. LoggedFeatures(b) = [kind |-> b.kind, amount |-> ensureDecimal(b.amount)]
  BY <1>1 DEF LoggedFeatures
<1>4. LoggedFeatures(b) \in [kind : ValidKinds, amount : Int]
  BY <1>1, <1>2, <1>3
<1> QED BY <1>1, <1>3, <1>4, ConstantsAssumption DEF Body

(* A body that clients can send is a body. *)
LEMMA BodiesAreBodies == Bodies \subseteq Body /\ None \notin Bodies
<1>1. Amounts \subseteq Int
  BY ConstantsAssumption
<1>2. Bodies \subseteq Body
  BY <1>1 DEF Bodies, Body
<1> QED BY <1>2, ConstantsAssumption

-----------------------------------------------------------------------------
(* One lemma per action.                                                   *)

(* Before the first request there is nothing to log, and the invariant holds. *)
LEMMA InitInv == Init => IInv
<1> SUFFICES ASSUME Init PROVE IInv
  OBVIOUS
<1>1. NoRequest \in Request
  BY DEF NoRequest, Request, Statuses
<1>2. TypeOK
  BY <1>1 DEF Init, TypeOK
<1>3. \A p \in Procs : pc[p] = "idle" /\ req[p].no = 0 /\ req[p].status = "none"
  BY DEF Init, NoRequest
<1> QED BY <1>2, <1>3 DEF Init, IInv, RequestInv, NumbersInv, VendorInv,
                          LogNamesItsKey, LoggedAsScored, ServedIsLogged

(* A request that starts gets the next number. *)
LEMMA StartInv ==
    ASSUME IInv, NEW p \in Procs, NEW k \in KeyIds \cup {None}, NEW b \in Bodies,
           Start(p, k, b)
    PROVE  IInv'
<1> DEFINE r == [NoRequest EXCEPT !.no = sent + 1, !.key = k, !.body = b,
                                  !.ctx = TRUE, !.status = "pending"]
<1>1. TypeOK /\ sent \in Nat /\ sent' = sent + 1
  BY DEF IInv, TypeOK, Start
<1>2. r \in Request /\ r.no = sent + 1 /\ r.body = b /\ r.status = "pending"
  <2>1. sent + 1 \in Nat /\ b \in Body
    BY <1>1, BodiesAreBodies
  <2> QED BY <2>1 DEF NoRequest, Request, Statuses
<1>3. req' = [req EXCEPT ![p] = r] /\ pc' = [pc EXCEPT ![p] = "body"] /\ pc[p] = "idle"
  BY DEF Start
<1> HIDE DEF r
<1>4. UNCHANGED <<apiKeys, logs, vendor>>
  BY DEF Start
<1>5. /\ pc' \in [Procs -> Steps] /\ req' \in [Procs -> Request]
      /\ Others(p) /\ pc'[p] = "body" /\ req'[p] = r
  BY <1>1, <1>2, <1>3 DEF TypeOK, Others, Steps
<1>6. TypeOK'
  BY <1>1, <1>4, <1>5 DEF TypeOK, Steps
<1>7. \A q \in Procs : req[q].no \in Nat
  BY <1>1 DEF TypeOK, Request
<1>8. RequestInv'
  BY <1>1, <1>2, <1>5, <1>7 DEF IInv, RequestInv, Others
<1>9. NumbersInv'
  <2>1. \A l \in logs : l.no \in Nat
    BY <1>1 DEF TypeOK, Log
  <2> QED BY <1>1, <1>2, <1>4, <1>5, <1>7, <2>1 DEF IInv, NumbersInv, RequestInv, Others
<1>10. VendorInv'
  <2>1. \A v \in vendor : v.no \in Nat
    BY <1>1 DEF TypeOK, Receipt
  <2> QED BY <1>1, <1>2, <1>4, <1>5, <2>1 DEF IInv, VendorInv, Others
<1>11. LogNamesItsKey' /\ LoggedAsScored'
  BY <1>4 DEF IInv, LogNamesItsKey, LoggedAsScored
<1>12. ServedIsLogged'
  BY <1>4, <1>5 DEF IInv, ServedIsLogged, Others
<1> QED BY <1>6, <1>8, <1>9, <1>10, <1>11, <1>12 DEF IInv

(* A step of p between two of its calls, in which it keeps its number and body
   and nothing else changes. *)
LEMMA LocalInv ==
    ASSUME IInv, NEW p \in Procs, UNCHANGED <<apiKeys, logs, sent, vendor>>,
           pc' \in [Procs -> Steps], req' \in [Procs -> Request], Others(p),
           pc[p] # "idle", pc'[p] # "idle",
           req'[p].no = req[p].no, req'[p].body = req[p].body,
           pc'[p] = "predict" => req[p].body.kind \in ValidKinds,
           (pc'[p] = "log" /\ req'[p].status = "200") =>
               /\ req'[p].response /\ req'[p].payload # None
               /\ req'[p].body.kind \in ValidKinds
               /\ req'[p].payload.kind = req'[p].body.kind,
           pc[p] = "log" => pc'[p] = "log" /\ req'[p].payload = req[p].payload
    PROVE  IInv'
<1>1. TypeOK'
  BY DEF IInv, TypeOK, Steps
<1>2. RequestInv'
  BY DEF IInv, RequestInv, Others
<1>3. NumbersInv'
  BY DEF IInv, NumbersInv, Others
<1>4. VendorInv'
  BY DEF IInv, VendorInv, Others
<1>5. LogNamesItsKey' /\ LoggedAsScored'
  BY DEF IInv, LogNamesItsKey, LoggedAsScored
<1>6. ServedIsLogged'
  BY DEF IInv, ServedIsLogged, Others
<1> QED BY <1>1, <1>2, <1>3, <1>4, <1>5, <1>6 DEF IInv

(* Reading the body, or failing to, preserves the invariant: the amount kept is the
   one the decoder made. *)
LEMMA ReadBodyInv ==
    ASSUME IInv, NEW p \in Procs, ReadBody(p)
    PROVE  IInv'
<1> DEFINE b == req[p].body
<1>1. /\ TypeOK /\ pc[p] = "body" /\ UNCHANGED <<apiKeys, logs, sent, vendor>>
      /\ b \in Bodies /\ b \in Body
  BY BodiesAreBodies DEF IInv, RequestInv, ReadBody
<1>2. CASE b.kind = "too large" /\ ToLog(p, None, FALSE, "413")
  <2>1. /\ pc' \in [Procs -> Steps] /\ req' \in [Procs -> Request]
        /\ Others(p) /\ pc'[p] = "log" /\ req'[p].status = "413"
        /\ req'[p].no = req[p].no /\ req'[p].body = req[p].body
    BY <1>1, <1>2, ToLogFacts DEF Statuses
  <2> QED BY <1>1, <2>1, LocalInv
<1>3. CASE ToLog(p, b, FALSE, "400")
  <2>1. /\ pc' \in [Procs -> Steps] /\ req' \in [Procs -> Request]
        /\ Others(p) /\ pc'[p] = "log" /\ req'[p].status = "400"
        /\ req'[p].no = req[p].no /\ req'[p].body = req[p].body
    BY <1>1, <1>3, ToLogFacts DEF Statuses
  <2> QED BY <1>1, <2>1, LocalInv
<1>4. CASE /\ b.kind \in ValidKinds /\ pc' = [pc EXCEPT ![p] = "predict"]
           /\ UNCHANGED req
  <2>1. /\ pc' \in [Procs -> Steps] /\ req' \in [Procs -> Request]
        /\ Others(p) /\ pc'[p] = "predict" /\ req'[p] = req[p]
    BY <1>1, <1>4 DEF TypeOK, Steps, Others
  <2> QED BY <1>1, <1>4, <2>1, LocalInv
<1> QED BY <1>2, <1>3, <1>4 DEF ReadBody

(* A context that ends, at its deadline or with its client, changes no log. *)
LEMMA ContextEndsInv ==
    ASSUME IInv, NEW p \in Procs, ContextEnds(p)
    PROVE  IInv'
<1>1. /\ TypeOK /\ pc[p] # "idle" /\ UNCHANGED <<apiKeys, logs, pc, sent, vendor>>
      /\ req[p] \in Request
  BY DEF IInv, TypeOK, ContextEnds
<1>2. req' = [req EXCEPT ![p] = [req[p] EXCEPT !.ctx = FALSE]]
  BY <1>1 DEF ContextEnds, TypeOK, Request
<1>3. [req[p] EXCEPT !.ctx = FALSE] \in Request
  BY <1>1 DEF Request
<1>4. /\ pc' \in [Procs -> Steps] /\ req' \in [Procs -> Request] /\ Others(p)
      /\ req'[p].no = req[p].no /\ req'[p].body = req[p].body
      /\ req'[p].status = req[p].status /\ req'[p].payload = req[p].payload
      /\ req'[p].response = req[p].response
  BY <1>1, <1>2, <1>3 DEF TypeOK, Steps, Others, Request
<1>5. /\ pc[p] = "predict" => req[p].body.kind \in ValidKinds
      /\ (pc[p] = "log" /\ req[p].status = "200") =>
              /\ req[p].response /\ req[p].payload # None
              /\ req[p].body.kind \in ValidKinds
              /\ req[p].payload.kind = req[p].body.kind
  BY DEF IInv, RequestInv
<1> QED BY <1>1, <1>4, <1>5, LocalInv

(* The vendor call preserves the invariant, whether it scores, fails or its answer
   is lost. *)
LEMMA CallVendorInv ==
    ASSUME IInv, NEW p \in Procs, CallVendor(p)
    PROVE  IInv'
<1> DEFINE b == req[p].body
           v == [no |-> req[p].no, asked |-> b.amount, amount |-> ensureDecimal(b.amount)]
<1>1. /\ TypeOK /\ pc[p] = "predict" /\ UNCHANGED <<apiKeys, logs, sent>>
      /\ b \in Bodies /\ b.kind \in ValidKinds /\ req[p] \in Request
  BY DEF IInv, RequestInv, CallVendor, TypeOK
<1>2. /\ b.amount \in Amounts /\ LoggedFeatures(b) \in Body
      /\ LoggedFeatures(b) # None /\ LoggedFeatures(b).kind = b.kind
      /\ LoggedFeatures(b).amount = ensureDecimal(b.amount)
  BY <1>1, LoggedFeaturesFacts
<1>3. PICK ok \in BOOLEAN :
        ToLog(p, LoggedFeatures(b), ok, IF ok THEN "200" ELSE "502")
  BY DEF CallVendor
<1>4. vendor' = vendor \/ vendor' = vendor \cup {v}
  BY DEF CallVendor
<1>5. /\ pc' \in [Procs -> Steps] /\ req' \in [Procs -> Request]
      /\ Others(p) /\ pc'[p] = "log"
      /\ req'[p].payload = LoggedFeatures(b) /\ req'[p].response = ok
      /\ req'[p].status = IF ok THEN "200" ELSE "502"
      /\ req'[p].no = req[p].no /\ req'[p].body = b
  BY <1>1, <1>2, <1>3, ToLogFacts DEF Statuses
<1> HIDE DEF b, v
<1>6. /\ v.no = req[p].no /\ v.asked = b.amount
      /\ v.amount = ensureDecimal(b.amount) /\ v \in Receipt
  <2>1. b.amount \in Int /\ ensureDecimal(b.amount) \in Int /\ req[p].no \in Nat
    BY <1>1, <1>2, EnsureDecimalFacts DEF Request
  <2> QED BY <2>1 DEF Receipt, v
<1>7. TypeOK'
  BY <1>1, <1>4, <1>5, <1>6 DEF TypeOK, Steps
<1>8. RequestInv'
  BY <1>1, <1>2, <1>5 DEF IInv, RequestInv, Others
<1>9. NumbersInv'
  BY <1>1, <1>5 DEF IInv, NumbersInv, Others
<1>10. VendorInv'
  <2> SUFFICES ASSUME NEW w \in vendor'
               PROVE  /\ w.no <= sent
                      /\ w.asked \in Amounts /\ w.amount = ensureDecimal(w.asked)
                      /\ \A q \in Procs :
                           (pc'[q] # "idle" /\ w.no = req'[q].no) =>
                               /\ pc'[q] = "log" /\ req'[q].payload # None
                               /\ req'[q].payload.amount = w.amount
    BY <1>1 DEF VendorInv
  <2>1. CASE w \in vendor
    BY <1>1, <1>5, <2>1 DEF IInv, VendorInv, Others
  <2>2. CASE w = v
    <3>1. w.no <= sent
      BY <1>6, <2>2 DEF IInv, RequestInv
    <3>2. \A q \in Procs \ {p} : pc[q] # "idle" => req[q].no # w.no
      BY <1>1, <1>6, <2>2 DEF IInv, NumbersInv
    <3> QED BY <1>2, <1>5, <1>6, <2>2, <3>1, <3>2 DEF Others
  <2> QED BY <1>4, <2>1, <2>2
<1>11. LogNamesItsKey'
  BY <1>1 DEF IInv, LogNamesItsKey
<1>12. LoggedAsScored'
  BY <1>1, <1>4, <1>6 DEF IInv, LoggedAsScored, NumbersInv
<1>13. ServedIsLogged'
  BY <1>1, <1>5 DEF IInv, ServedIsLogged, Others
<1> QED BY <1>7, <1>8, <1>9, <1>10, <1>11, <1>12, <1>13 DEF IInv

(* saveInferenceLog: with a row, or without one for a reason. *)
LEMMA SaveLogInv ==
    ASSUME IInv, NEW p \in Procs, SaveLog(p)
    PROVE  IInv'
<1> DEFINE l == [no |-> req[p].no, by |-> req[p].key, key |-> req[p].key,
                 payload |-> req[p].payload, response |-> req[p].response,
                 error |-> req[p].status # "200"]
           Row == /\ req[p].ctx /\ Storable(req[p].payload) /\ KeyExists(req[p].key)
                  /\ logs' = logs \cup {l} /\ UNCHANGED req
           NoRow == logs' = logs
           Reason == \/ req'[p].dbFailed \/ ~req'[p].ctx
                     \/ req'[p].key \in KeyIds \ apiKeys
                     \/ ~Storable(req'[p].payload)
<1>1. /\ TypeOK /\ pc[p] = "log" /\ pc' = [pc EXCEPT ![p] = "idle"]
      /\ UNCHANGED <<apiKeys, sent, vendor>> /\ req[p] \in Request
  BY DEF IInv, SaveLog, TypeOK
<1>2. \/ UNCHANGED req
      \/ req' = [req EXCEPT ![p].dbFailed = TRUE] /\ NoRow
  BY DEF SaveLog, InsertLog
<1>3. /\ req' \in [Procs -> Request] /\ pc' \in [Procs -> Steps] /\ Others(p)
      /\ pc'[p] = "idle" /\ req'[p].no = req[p].no /\ req'[p].body = req[p].body
      /\ req'[p].status = req[p].status /\ req'[p].payload = req[p].payload
      /\ req'[p].key = req[p].key
  <2>1. /\ pc' \in [Procs -> Steps] /\ pc'[p] = "idle"
        /\ \A q \in Procs \ {p} : pc'[q] = pc[q]
    BY <1>1 DEF TypeOK, Steps
  <2>2. CASE UNCHANGED req
    BY <1>1, <2>1, <2>2 DEF TypeOK, Others
  <2>3. CASE req' = [req EXCEPT ![p].dbFailed = TRUE]
    <3>1. req' = [req EXCEPT ![p] = [req[p] EXCEPT !.dbFailed = TRUE]]
      BY <1>1, <2>3 DEF TypeOK, Request
    <3>2. [req[p] EXCEPT !.dbFailed = TRUE] \in Request
      BY <1>1 DEF Request
    <3> QED BY <1>1, <2>1, <3>1, <3>2 DEF TypeOK, Others, Request
  <2> QED BY <1>2, <2>2, <2>3
<1>4. Row \/ (NoRow /\ Reason)
  <2>1. CASE InsertLog(p) /\ UNCHANGED req
    BY <2>1 DEF InsertLog
  <2>2. CASE /\ ~req[p].ctx \/ ~Storable(req[p].payload) \/ ~KeyExists(req[p].key)
             /\ UNCHANGED <<logs, req>>
    BY <1>1, <2>2 DEF KeyExists, Request
  <2>3. CASE req' = [req EXCEPT ![p].dbFailed = TRUE] /\ UNCHANGED logs
    <3>1. req'[p].dbFailed
      BY <1>1, <2>3 DEF TypeOK, Request
    <3> QED BY <2>3, <3>1
  <2> QED BY <2>1, <2>2, <2>3 DEF SaveLog
<1>5. ASSUME Row
      PROVE  /\ l \in Log /\ l.no = req[p].no /\ l.payload = req[p].payload
             /\ l.key = req[p].key /\ l.by = req[p].key
             /\ l.response = req[p].response /\ l.error = (req[p].status # "200")
  <2>1. req[p].payload \in Body
    BY <1>1, <1>5 DEF Storable, Request
  <2>2. (req[p].status # "200") \in BOOLEAN
    OBVIOUS
  <2> QED BY <1>1, <2>1, <2>2 DEF Log, Request
<1> HIDE DEF l
<1>6. TypeOK'
  BY <1>1, <1>3, <1>4, <1>5 DEF TypeOK, Steps
<1>7. RequestInv'
  BY <1>1, <1>3 DEF IInv, RequestInv, Others
<1>8. NumbersInv'
  <2>1. \A q \in Procs \ {p} : pc[q] # "idle" => req[q].no # req[p].no
    BY <1>1 DEF IInv, NumbersInv
  <2>2. req[p].no <= sent
    BY DEF IInv, RequestInv
  <2> QED BY <1>1, <1>3, <1>4, <1>5, <2>1, <2>2 DEF IInv, NumbersInv, Others
<1>9. VendorInv'
  BY <1>1, <1>3 DEF IInv, VendorInv, Others
<1>10. LogNamesItsKey'
  <2>1. apiKeys \subseteq KeyIds /\ None \notin apiKeys
    BY <1>1, ConstantsAssumption DEF TypeOK
  <2> QED BY <1>1, <1>4, <1>5, <2>1 DEF IInv, LogNamesItsKey, KeyExists
<1>11. LoggedAsScored'
  <2>1. \A v \in vendor : v.no = req[p].no => req[p].payload.amount = v.amount
    BY <1>1 DEF IInv, VendorInv
  <2> QED BY <1>1, <1>4, <1>5, <2>1 DEF IInv, LoggedAsScored
<1>12. ServedIsLogged'
  <2>1. ASSUME req[p].status = "200"
        PROVE  \/ \E m \in logs' : m.no = req'[p].no /\ m.response /\ ~m.error
               \/ req'[p].dbFailed \/ ~req'[p].ctx
               \/ req'[p].key \in KeyIds \ apiKeys \/ req'[p].body.kind = "nul"
    <3>1. /\ req[p].response /\ req[p].payload # None
          /\ req[p].body.kind \in ValidKinds
          /\ req[p].payload.kind = req[p].body.kind
      BY <1>1, <2>1 DEF IInv, RequestInv
    <3>2. CASE Row
      BY <1>3, <1>5, <2>1, <3>1, <3>2
    <3>3. CASE Reason
      BY <1>3, <3>1, <3>3 DEF Storable, ValidKinds
    <3> QED BY <1>4, <3>2, <3>3
  <2>2. logs \subseteq logs'
    BY <1>4
  <2> QED BY <1>1, <1>3, <2>1, <2>2 DEF IInv, ServedIsLogged, Others
<1> QED BY <1>6, <1>7, <1>8, <1>9, <1>10, <1>11, <1>12 DEF IInv

(* The rows of a deleted key lose their reference and nothing else. *)
LEMMA DeleteKeyInv ==
    ASSUME IInv, NEW k \in KeyIds, DeleteKey(k)
    PROVE  IInv'
<1> DEFINE Cleared(l) == IF l.key = k THEN [l EXCEPT !.key = None] ELSE l
<1>1. /\ TypeOK /\ k \in apiKeys /\ apiKeys' = apiKeys \ {k}
      /\ logs' = {Cleared(l) : l \in logs} /\ UNCHANGED <<pc, req, sent, vendor>>
  BY DEF IInv, DeleteKey
<1>2. ASSUME NEW l \in logs
      PROVE  /\ Cleared(l) \in Log /\ Cleared(l).no = l.no /\ Cleared(l).by = l.by
             /\ Cleared(l).payload = l.payload /\ Cleared(l).response = l.response
             /\ Cleared(l).error = l.error
             /\ Cleared(l).key = IF l.key = k THEN None ELSE l.key
  <2>1. l \in Log
    BY <1>1 DEF TypeOK
  <2> QED BY <2>1 DEF Log
<1> HIDE DEF Cleared
<1>3. TypeOK'
  BY <1>1, <1>2 DEF TypeOK
<1>4. RequestInv' /\ VendorInv'
  BY <1>1 DEF IInv, RequestInv, VendorInv
<1>5. NumbersInv'
  BY <1>1, <1>2 DEF IInv, NumbersInv
<1>6. LogNamesItsKey'
  BY <1>1, <1>2, ConstantsAssumption DEF IInv, LogNamesItsKey, TypeOK
<1>7. LoggedAsScored'
  BY <1>1, <1>2 DEF IInv, LoggedAsScored
<1>8. ServedIsLogged'
  BY <1>1, <1>2 DEF IInv, ServedIsLogged
<1> QED BY <1>3, <1>4, <1>5, <1>6, <1>7, <1>8 DEF IInv

(* A process that dies loses a request and no row. *)
LEMMA CrashInv ==
    ASSUME IInv, NEW p \in Procs, Crash(p)
    PROVE  IInv'
<1>1. /\ TypeOK /\ UNCHANGED <<apiKeys, logs, sent, vendor>>
      /\ pc' = [pc EXCEPT ![p] = "idle"] /\ req' = [req EXCEPT ![p] = NoRequest]
  BY DEF IInv, Crash
<1>2. NoRequest \in Request /\ NoRequest.no = 0 /\ NoRequest.status = "none"
  BY DEF NoRequest, Request, Statuses
<1>3. /\ pc' \in [Procs -> Steps] /\ req' \in [Procs -> Request] /\ Others(p)
      /\ pc'[p] = "idle" /\ req'[p].no = 0 /\ req'[p].status = "none"
  BY <1>1, <1>2 DEF TypeOK, Others, Steps
<1>4. TypeOK' /\ 0 <= sent
  BY <1>1, <1>3 DEF TypeOK, Steps
<1>5. RequestInv'
  BY <1>1, <1>3, <1>4 DEF IInv, RequestInv, Others
<1>6. NumbersInv' /\ VendorInv'
  BY <1>1, <1>3 DEF IInv, NumbersInv, VendorInv, Others
<1>7. LogNamesItsKey' /\ LoggedAsScored'
  BY <1>1 DEF IInv, LogNamesItsKey, LoggedAsScored
<1>8. ServedIsLogged'
  BY <1>1, <1>3 DEF IInv, ServedIsLogged, Others
<1> QED BY <1>4, <1>5, <1>6, <1>7, <1>8 DEF IInv

(* Every action preserves the invariant. *)
LEMMA NextInv == IInv /\ [Next]_vars => IInv'
<1> SUFFICES ASSUME IInv, [Next]_vars PROVE IInv'
  OBVIOUS
<1>1. ASSUME NEW p \in Procs, NEW k \in KeyIds \cup {None}, NEW b \in Bodies,
             Start(p, k, b)
      PROVE  IInv'
  BY <1>1, StartInv
<1>2. ASSUME NEW p \in Procs,
             ReadBody(p) \/ CallVendor(p) \/ SaveLog(p) \/ ContextEnds(p) \/ Crash(p)
      PROVE  IInv'
  BY <1>2, ReadBodyInv, CallVendorInv, SaveLogInv, ContextEndsInv, CrashInv
<1>3. ASSUME NEW k \in KeyIds, DeleteKey(k) PROVE IInv'
  BY <1>3, DeleteKeyInv
<1>4. CASE UNCHANGED vars
  BY <1>4 DEF vars, IInv, TypeOK, RequestInv, NumbersInv, VendorInv,
              LogNamesItsKey, LoggedAsScored, ServedIsLogged
<1> QED BY <1>1, <1>2, <1>3, <1>4 DEF Next

-----------------------------------------------------------------------------
(* The theorems.                                                           *)

(* The invariant of handler, table and vendor holds throughout. *)
THEOREM PredictInductive == Spec => []IInv
BY InitInv, NextInv, PTL DEF Spec

(* Rows, requests and what the vendor gets are well-formed; a row always has a
   payload. *)
THEOREM PredictTypeCorrect == Spec => []TypeOK
<1>1. IInv => TypeOK
  BY DEF IInv
<1> QED BY <1>1, PredictInductive, PTL

(* A row names the key of its request for as long as that key exists, however
   its deletion and the insert interleave. *)
THEOREM RowsNameTheirKey == Spec => []LogNamesItsKey
<1>1. IInv => LogNamesItsKey
  BY DEF IInv
<1> QED BY <1>1, PredictInductive, PTL

(* A row holds the amount that the vendor scored for its request. *)
THEOREM RowsAsScored == Spec => []LoggedAsScored
<1>1. IInv => LoggedAsScored
  BY DEF IInv
<1> QED BY <1>1, PredictInductive, PTL

(* A 200 has its row, but for the four reasons that are named. *)
THEOREM AnswersAreLogged == Spec => []ServedIsLogged
<1>1. IInv => ServedIsLogged
  BY DEF IInv
<1> QED BY <1>1, PredictInductive, PTL

(* ensureDecimal adds nothing or up to two cents, in every precision. *)
THEOREM AmountsWithinTwoCents == Spec => []AmountWithinTwoCents
<1>1. IInv => AmountWithinTwoCents
  BY EnsureDecimalFacts DEF IInv, VendorInv, AmountWithinTwoCents
<1> QED BY <1>1, PredictInductive, PTL

(* Below Unit * 2^(Precision - 6), which is 2^47 for float64, the vendor gets
   no whole amount. *)
THEOREM AmountsHaveDecimals == Spec => []AmountHasDecimals
<1>1. IInv => AmountHasDecimals
  BY EnsureDecimalFacts DEF IInv, VendorInv, AmountHasDecimals
<1> QED BY <1>1, PredictInductive, PTL
=============================================================================
