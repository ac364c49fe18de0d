--------------------------- MODULE BoxBound_proofs ---------------------------
(***************************************************************************)
(* The distance pipes prune exactly, for every width of the exponent and   *)
(* of the fraction.  The units cut off, and a number cut off is still      *)
(* monotone in what it was: Rounded says how the result of an adder lies   *)
(* between its neighbours, SumMono and DifferenceMono that aligning the    *)
(* smaller operand keeps the order, SquareMono that multiplying does.      *)
(***************************************************************************)
EXTENDS BoxBound, WellFoundedInduction, TLAPS

-----------------------------------------------------------------------------
(* Powers of two.                                                          *)

(* A nonempty set of naturals has a least member.                          *)
LEMMA NatMin ==
  ASSUME NEW T, T \subseteq Nat, T # {}
  PROVE  \E x \in T : \A y \in T : ~(y < x)
<1>1. \A x, y \in Nat : <<x, y>> \in OpToRel(<, Nat) <=> x < y
  BY Zenon DEF OpToRel
<1>2. \E x \in T : \A y \in T : ~(<<y, x>> \in OpToRel(<, Nat))
  BY NatLessThanWellFounded, WFMin, Zenon
<1> QED BY <1>1, <1>2, Zenon

(* The first n powers of two. *)
Powers(g, n) ==
  g \in [0..n -> Nat] /\ g[0] = 1 /\ \A i \in 1..n : g[i] = 2 * g[i - 1]

(* There is a sequence of powers of any length: a least length without one *)
(* cannot be.                                                              *)
LEMMA PowersExist == \A n \in Nat : \E g : Powers(g, n)
<1> DEFINE T == {n \in Nat : ~\E g : Powers(g, n)}
<1>1. SUFFICES ASSUME T # {} PROVE FALSE
  OBVIOUS
<1>2. PICK n \in T : \A m \in T : ~(m < n)
  BY <1>1, NatMin
<1>3. n # 0
  <2>1. Powers([i \in 0..0 |-> 1], 0)
    BY DEF Powers
  <2> QED BY <2>1
<1>4. n - 1 \in Nat /\ n \in Nat
  BY <1>3
<1>5. PICK g : Powers(g, n - 1)
  BY <1>2, <1>4
<1> DEFINE h == [i \in 0..n |-> IF i = n THEN 2 * g[n - 1] ELSE g[i]]
<1>6. Powers(h, n)
  <2>1. \A i \in 0..n - 1 : h[i] = g[i] /\ g[i] \in Nat
    <3>1. \A i \in 0..n - 1 : g[i] \in Nat
      BY <1>4, <1>5, Zenon DEF Powers
    <3> QED BY <1>4, <3>1
  <2>5. h[n] = 2 * g[n - 1] /\ g[n - 1] \in Nat
    <3>1. n - 1 \in 0..n - 1 /\ n \in 0..n
      BY <1>4
    <3> QED BY <2>1, <3>1
  <2>2. h \in [0..n -> Nat]
    <3>1. ASSUME NEW i \in 0..n PROVE (IF i = n THEN 2 * g[n - 1] ELSE g[i]) \in Nat
      <4>1. i # n => i \in 0..n - 1
        BY <1>4
      <4>2. i # n => g[i] \in Nat
        BY <4>1, <2>1
      <4>3. 2 * g[n - 1] \in Nat
        BY <2>5
      <4> QED BY <4>2, <4>3
    <3> QED BY <3>1
  <2>3. h[0] = 1
    BY <1>4, <1>5, <2>1 DEF Powers
  <2>4. ASSUME NEW i \in 1..n PROVE h[i] = 2 * h[i - 1]
    <3>1. CASE i = n
      BY <1>4, <2>1, <2>5, <3>1
    <3>2. CASE i # n
      BY <1>4, <1>5, <2>1, <3>2 DEF Powers
    <3> QED BY <3>1, <3>2
  <2> HIDE DEF h
  <2> QED BY <2>2, <2>3, <2>4 DEF Powers
<1> QED BY <1>2, <1>6

(* And only one: two of them agree as far as the shorter goes.             *)
LEMMA PowersAgree ==
  ASSUME NEW n \in Nat, NEW m \in Nat, n <= m, NEW g, NEW h, Powers(g, n), Powers(h, m)
  PROVE  \A i \in 0..n : g[i] = h[i]
<1> DEFINE T == {i \in 0..n : g[i] # h[i]}
<1>1. SUFFICES ASSUME T # {} PROVE FALSE
  OBVIOUS
<1>2. PICK i \in T : \A j \in T : ~(j < i)
  <2>1. T \subseteq Nat
    OBVIOUS
  <2> HIDE DEF T
  <2> QED BY <1>1, <2>1, NatMin
<1>3. i # 0
  BY <1>2 DEF Powers
<1>4. i - 1 \in 0..n /\ i - 1 < i /\ i \in 1..n /\ i \in 1..m
  BY <1>3
<1>5. g[i - 1] = h[i - 1]
  BY <1>2, <1>4
<1> QED BY <1>2, <1>4, <1>5 DEF Powers

(* So the recursion of Pow2 defines it. *)
LEMMA Pow2Defined ==
  /\ Pow2 = [n \in Nat |-> IF n = 0 THEN 1 ELSE 2 * Pow2[n - 1]]
  /\ Pow2 \in [Nat -> Nat]
<1> DEFINE G(n) == CHOOSE g : Powers(g, n)
           f    == [n \in Nat |-> G(n)[n]]
<1>1. \A n \in Nat : Powers(G(n), n)
  BY PowersExist
<1> HIDE DEF G
<1>2. \A n \in Nat : f[n] \in Nat
  BY <1>1 DEF Powers
<1>3. f[0] = 1
  BY <1>1 DEF Powers
<1>4. ASSUME NEW n \in Nat, n # 0 PROVE f[n] = 2 * f[n - 1]
  <2>1. n - 1 \in Nat /\ n - 1 <= n /\ n - 1 \in 0..n - 1 /\ n \in 1..n
    BY <1>4
  <2>2. Powers(G(n), n) /\ Powers(G(n - 1), n - 1)
    BY <1>1, <2>1
  <2>3. G(n - 1)[n - 1] = G(n)[n - 1]
    BY <2>1, <2>2, PowersAgree
  <2>4. G(n)[n] = 2 * G(n)[n - 1]
    BY <2>1, <2>2 DEF Powers
  <2> QED BY <2>1, <2>3, <2>4
<1>5. f = [n \in Nat |-> IF n = 0 THEN 1 ELSE 2 * f[n - 1]]
  <2> HIDE DEF f
  <2> DEFINE r == [n \in Nat |-> IF n = 0 THEN 1 ELSE 2 * f[n - 1]]
  <2>1. \A n \in Nat : f[n] = r[n]
    BY <1>3, <1>4
  <2>2. f = [n \in Nat |-> f[n]] /\ r = [n \in Nat |-> r[n]]
    BY DEF f
  <2> QED BY <2>1, <2>2, Zenon
<1>6. Pow2 = [n \in Nat |-> IF n = 0 THEN 1 ELSE 2 * Pow2[n - 1]]
  <2> HIDE DEF f
  <2> QED BY <1>5, Zenon DEF Pow2
<1>7. \A n \in Nat : Pow2[n] = f[n]
  <2> DEFINE T == {n \in Nat : Pow2[n] # f[n]}
  <2> HIDE DEF f
  <2>1. SUFFICES ASSUME T # {} PROVE FALSE
    OBVIOUS
  <2>2. PICK n \in T : \A m \in T : ~(m < n)
    BY <2>1, NatMin
  <2>3. CASE n = 0
    BY <1>3, <1>6, <2>2, <2>3
  <2>4. CASE n # 0
    <3>1. n - 1 \in Nat /\ n - 1 < n
      BY <2>4
    <3>2. Pow2[n - 1] = f[n - 1]
      BY <2>2, <3>1
    <3> QED BY <1>4, <1>6, <2>2, <2>4, <3>2
  <2> QED BY <2>3, <2>4
<1> QED
  <2> HIDE DEF f
  <2>1. DOMAIN Pow2 = Nat
    BY <1>6
  <2>2. \A n \in Nat : Pow2[n] \in Nat
    BY <1>2, <1>7
  <2>3. Pow2 = [n \in Nat |-> Pow2[n]]
    BY <1>6
  <2> QED BY <1>6, <2>2, <2>3

(* The equations of Pow2.                                                  *)
LEMMA PowStep ==
  /\ Pow2[0] = 1
  /\ \A n \in Nat : Pow2[n] \in Nat /\ Pow2[n + 1] = 2 * Pow2[n]
<1>1. Pow2[0] = 1
  BY Pow2Defined
<1>2. ASSUME NEW n \in Nat PROVE Pow2[n] \in Nat /\ Pow2[n + 1] = 2 * Pow2[n]
  <2>1. n + 1 \in Nat /\ n + 1 # 0 /\ (n + 1) - 1 = n
    OBVIOUS
  <2> QED BY <2>1, Pow2Defined
<1> QED BY <1>1, <1>2

-----------------------------------------------------------------------------
(* Arithmetic. *)

(* Induction for a set of naturals.                                        *)
LEMMA NatInduct ==
  ASSUME NEW S, 0 \in S, \A n \in Nat : n \in S => n + 1 \in S
  PROVE  \A n \in Nat : n \in S
<1> DEFINE T == {n \in Nat : n \notin S}
<1>1. SUFFICES ASSUME T # {} PROVE FALSE
  OBVIOUS
<1>2. PICK n \in T : \A m \in T : ~(m < n)
  BY <1>1, NatMin
<1>3. n # 0
  BY <1>2
<1>4. n - 1 \in Nat /\ n - 1 < n /\ (n - 1) + 1 = n
  BY <1>2, <1>3
<1> QED BY <1>2, <1>4

(* Arithmetic the provers need to be told.                                 *)
LEMMA TimesMono ==
  ASSUME NEW a \in Nat, NEW b \in Nat, NEW c \in Nat
  PROVE  /\ a <= b => a * c <= b * c /\ c * a <= c * b
         /\ a < b /\ c > 0 => a * c < b * c /\ c * a < c * b
         /\ a * c \in Nat /\ a * c = c * a
OBVIOUS

LEMMA DivMod ==
  ASSUME NEW a \in Nat, NEW d \in Nat, d >= 1
  PROVE  /\ a \div d \in Nat /\ a % d \in Nat /\ a % d < d
         /\ a = d * (a \div d) + (a % d)
OBVIOUS

LEMMA DivUnique ==
  ASSUME NEW k \in Nat, NEW d \in Nat, NEW r \in Nat, r < d
  PROVE  (d * k + r) \div d = k /\ (d * k + r) % d = r
<1>1. PICK a \in Nat : a = d * k + r
  OBVIOUS
<1>2. PICK q \in Nat, s \in Nat : q = a \div d /\ s = a % d /\ a = d * q + s /\ s < d
  BY DivMod
<1>3. ~(q < k)
  <2>1. SUFFICES ASSUME q < k PROVE FALSE
    OBVIOUS
  <2>2. d * (q + 1) <= d * k /\ d * (q + 1) = d * q + d
    BY <2>1
  <2> QED BY <1>1, <1>2, <2>2
<1>4. ~(k < q)
  <2>1. SUFFICES ASSUME k < q PROVE FALSE
    OBVIOUS
  <2>2. d * (k + 1) <= d * q /\ d * (k + 1) = d * k + d
    BY <2>1
  <2> QED BY <1>1, <1>2, <2>2
<1>5. q = k
  BY <1>3, <1>4
<1> QED BY <1>1, <1>2, <1>5

(* Powers of two are positive, ...                                         *)
LEMMA PowPositive == \A n \in Nat : Pow2[n] \in Nat /\ Pow2[n] > 0
<1> DEFINE S == {n \in Nat : Pow2[n] > 0}
<1>1. 0 \in S
  BY PowStep
<1>2. \A n \in Nat : n \in S => n + 1 \in S
  BY PowStep
<1>3. \A n \in Nat : n \in S
  <2> HIDE DEF S
  <2> QED BY <1>1, <1>2, NatInduct
<1> QED BY <1>3, PowStep

(* ... turn sums into products, ...                                        *)
LEMMA PowSum == \A m, n \in Nat : Pow2[m + n] = Pow2[m] * Pow2[n]
<1> SUFFICES ASSUME NEW m \in Nat PROVE \A n \in Nat : Pow2[m + n] = Pow2[m] * Pow2[n]
  OBVIOUS
<1> DEFINE S == {n \in Nat : Pow2[m + n] = Pow2[m] * Pow2[n]}
<1>1. 0 \in S
  BY PowStep
<1>2. ASSUME NEW n \in Nat, n \in S PROVE n + 1 \in S
  <2>1. /\ Pow2[m + n] = Pow2[m] * Pow2[n]
        /\ Pow2[n + 1] = 2 * Pow2[n]
        /\ Pow2[(m + n) + 1] = 2 * Pow2[m + n]
        /\ (m + n) + 1 = m + (n + 1)
    BY <1>2, PowStep
  <2>2. Pow2[m] \in Nat /\ Pow2[n] \in Nat
    BY PowStep
  <2>3. Pow2[m] * (2 * Pow2[n]) = 2 * (Pow2[m] * Pow2[n])
    BY <2>2
  <2> QED BY <2>1, <2>3
<1>3. \A n \in Nat : n \in S
  <2> HIDE DEF S
  <2> QED BY <1>1, <1>2, NatInduct
<1> QED BY <1>3

(* ... and keep the order.                                                 *)
LEMMA PowMono ==
  ASSUME NEW m \in Nat, NEW n \in Nat
  PROVE  /\ m <= n => Pow2[m] <= Pow2[n] /\ Pow2[n] = Pow2[n - m] * Pow2[m]
         /\ m < n => 2 * Pow2[m] <= Pow2[n]
<1>1. ASSUME NEW k \in Nat, NEW l \in Nat, k <= l
      PROVE  Pow2[k] <= Pow2[l] /\ Pow2[l] = Pow2[l - k] * Pow2[k]
  <2>1. l - k \in Nat /\ (l - k) + k = l
    BY <1>1
  <2>2. Pow2[l] = Pow2[l - k] * Pow2[k]
    BY <2>1, PowSum
  <2>3. Pow2[l - k] \in Nat /\ Pow2[l - k] >= 1 /\ Pow2[k] \in Nat
    BY <2>1, PowPositive
  <2>4. 1 * Pow2[k] <= Pow2[l - k] * Pow2[k]
    BY <2>3, TimesMono
  <2> QED BY <2>2, <2>3, <2>4
<1>2. ASSUME m < n PROVE 2 * Pow2[m] <= Pow2[n]
  <2>1. m + 1 \in Nat /\ m + 1 <= n
    BY <1>2
  <2> QED BY <2>1, <1>1, PowStep
<1> QED BY <1>1, <1>2

-----------------------------------------------------------------------------
(* Cutting off the bits below an exponent. *)

Cut(e, v) == (v \div Pow2[e]) * Pow2[e]

(* Cutting off takes less than a place away, and leaves the greatest       *)
(* multiple.                                                               *)
LEMMA CutBounds ==
  ASSUME NEW e \in Nat, NEW v \in Nat
  PROVE  /\ Cut(e, v) \in Nat /\ Cut(e, v) <= v /\ v < Cut(e, v) + Pow2[e]
         /\ v \div Pow2[e] \in Nat
         /\ \A j \in Nat : j * Pow2[e] <= v => j * Pow2[e] <= Cut(e, v)
<1>1. PICK p \in Nat : p = Pow2[e] /\ p >= 1
  BY PowPositive
<1>2. PICK d \in Nat, r \in Nat : d = v \div p /\ r < p /\ v = p * d + r
  <2>1. /\ v \div p \in Nat /\ v % p \in Nat /\ v % p < p
        /\ v = p * (v \div p) + (v % p)
    BY <1>1, DivMod
  <2> QED BY <2>1, Zenon
<1>3. Cut(e, v) = d * p
  BY <1>1, <1>2 DEF Cut
<1>4. d * p = p * d /\ d * p \in Nat
  BY <1>1, <1>2
<1>5. ASSUME NEW j \in Nat, j * p <= v PROVE j * p <= d * p
  <2>1. ~(d + 1 <= j)
    <3>1. SUFFICES ASSUME d + 1 <= j PROVE FALSE
      OBVIOUS
    <3>2. (d + 1) * p <= j * p
      BY <1>1, <1>2, <3>1, TimesMono
    <3>3. (d + 1) * p = d * p + p /\ j * p \in Nat
      BY <1>1, <1>2
    <3> QED BY <1>1, <1>2, <1>4, <1>5, <3>2, <3>3
  <2> QED BY <1>1, <1>2, <2>1, TimesMono
<1>6. Cut(e, v) \in Nat /\ Cut(e, v) <= v /\ v < Cut(e, v) + p
  BY <1>1, <1>2, <1>3, <1>4
<1> QED BY <1>1, <1>2, <1>3, <1>5, <1>6

(* Cutting off keeps the order.                                            *)
LEMMA CutMono ==
  ASSUME NEW e \in Nat, NEW v \in Nat, NEW w \in Nat, v <= w
  PROVE  Cut(e, v) <= Cut(e, w)
<1>1. v \div Pow2[e] \in Nat /\ Cut(e, v) <= v /\ Cut(e, v) \in Nat
  BY CutBounds
<1>2. (v \div Pow2[e]) * Pow2[e] <= w
  BY <1>1 DEF Cut
<1>3. (v \div Pow2[e]) * Pow2[e] <= Cut(e, w)
  BY <1>1, <1>2, CutBounds
<1> QED BY <1>3 DEF Cut

(* At a larger exponent more is cut off, but less than its place. *)
LEMMA CutCoarser ==
  ASSUME NEW e \in Nat, NEW f \in Nat, e <= f, NEW v \in Nat
  PROVE  Cut(f, v) <= Cut(e, v) /\ Cut(e, v) + Pow2[e] <= Cut(f, v) + Pow2[f]
<1> DEFINE p == Pow2[e]
           r == Pow2[f - e]
           a == v \div Pow2[e]
           b == v \div Pow2[f]
<1>1. /\ p \in Nat /\ p > 0 /\ r \in Nat /\ r > 0 /\ Pow2[f] = r * p
      /\ a \in Nat /\ b \in Nat
      /\ Cut(e, v) = a * p /\ Cut(f, v) = b * (r * p)
      /\ Cut(e, v) <= v /\ Cut(f, v) <= v /\ v < Cut(f, v) + r * p
  <2>1. f - e \in Nat
    OBVIOUS
  <2> QED BY <2>1, PowPositive, PowMono, CutBounds DEF Cut
<1>2. \A j \in Nat : j * p <= v => j * p <= Cut(e, v)
  BY CutBounds DEF p
<1> HIDE DEF p, r, a, b
<1>3. b * (r * p) = (b * r) * p /\ b * r \in Nat
  BY <1>1
<1>4. Cut(f, v) <= Cut(e, v)
  BY <1>1, <1>2, <1>3
<1>5. b * (r * p) + r * p = (b * r + r) * p /\ b * r + r \in Nat
  BY <1>1
<1>6. a * p < (b * r + r) * p
  BY <1>1, <1>5
<1>7. a + 1 <= b * r + r
  <2>1. SUFFICES ASSUME b * r + r <= a PROVE FALSE
    BY <1>1, <1>5
  <2> QED BY <1>1, <1>5, <1>6, <2>1, TimesMono
<1>8. (a + 1) * p <= (b * r + r) * p
  BY <1>1, <1>5, <1>7, TimesMono
<1>9. (a + 1) * p = a * p + p
  BY <1>1
<1> QED BY <1>1, <1>4, <1>5, <1>8, <1>9 DEF p

-----------------------------------------------------------------------------
(* Magnitudes and what they stand for. *)

Mags == 0..Infinity

(* In units of the last place of a subnormal number. *)
Value(m) == LET x == Number(FALSE, m) IN Mantissa(x) * Pow2[Exp(x)]

(* The constants of the units, for any positive widths.                    *)
LEMMA Widths ==
  /\ HIDDEN \in Nat /\ HIDDEN >= 2
  /\ EXP_MAX \in Nat /\ EXP_MAX >= 1
  /\ Pow2[EXP_BITS] = EXP_MAX + 1
  /\ Pow2[FRAC_BITS] = HIDDEN
  /\ Pow2[FRAC_BITS + 1] = 2 * HIDDEN
  /\ Pow2[FRAC_BITS + 3] = 8 * HIDDEN
  /\ Infinity \in Nat /\ Infinity = EXP_MAX * HIDDEN /\ Infinity = HIDDEN * EXP_MAX
  /\ Infinity >= HIDDEN
  /\ BIAS \in Nat
<1>1. /\ EXP_BITS \in Nat /\ FRAC_BITS \in Nat
      /\ 1 <= EXP_BITS /\ 1 <= FRAC_BITS /\ EXP_BITS - 1 \in Nat
  BY WidthsAssumption
<1>2. Pow2[0 + 1] = 2 /\ 0 + 1 = 1
  BY PowStep
<1>3. /\ HIDDEN \in Nat /\ HIDDEN >= 2 /\ Pow2[FRAC_BITS] = HIDDEN
      /\ EXP_MAX \in Nat /\ EXP_MAX >= 1 /\ Pow2[EXP_BITS] = EXP_MAX + 1
      /\ BIAS \in Nat
  <2>1. Pow2[1] <= Pow2[FRAC_BITS] /\ Pow2[1] <= Pow2[EXP_BITS]
    BY <1>1, PowMono
  <2>2. /\ Pow2[FRAC_BITS] \in Nat /\ Pow2[EXP_BITS] \in Nat
        /\ Pow2[EXP_BITS - 1] \in Nat /\ Pow2[EXP_BITS - 1] > 0
    BY <1>1, PowPositive
  <2> QED BY <1>2, <2>1, <2>2 DEF HIDDEN, EXP_MAX, BIAS
<1>4. /\ Pow2[FRAC_BITS + 1] = 2 * HIDDEN
      /\ Pow2[(FRAC_BITS + 1) + 1] = 4 * HIDDEN
      /\ Pow2[((FRAC_BITS + 1) + 1) + 1] = 8 * HIDDEN
      /\ ((FRAC_BITS + 1) + 1) + 1 = FRAC_BITS + 3
  BY <1>1, <1>3, PowStep
<1>5. /\ Infinity = EXP_MAX * HIDDEN /\ EXP_MAX * HIDDEN = HIDDEN * EXP_MAX
      /\ EXP_MAX * HIDDEN \in Nat /\ 1 * HIDDEN <= EXP_MAX * HIDDEN
  BY <1>3, TimesMono DEF Infinity
<1> QED BY <1>3, <1>4, <1>5

(* The fields of a number ... *)
LEMMA Fields ==
  ASSUME NEW x, x.mag \in Mags
  PROVE  /\ Exp(x) \in 0..EXP_MAX /\ Frac(x) \in 0..HIDDEN - 1
         /\ x.mag = HIDDEN * Exp(x) + Frac(x)
         /\ Mantissa(x) = IF Exp(x) = 0 THEN Frac(x) ELSE HIDDEN + Frac(x)
         /\ Mantissa(x) \in Nat /\ Mantissa(x) < 2 * HIDDEN
         /\ Exp(x) >= 1 <=> x.mag >= HIDDEN
         /\ x.mag < Infinity => Exp(x) < EXP_MAX
         /\ Value(x.mag) = Mantissa(x) * Pow2[Exp(x)]
         /\ Value(x.mag) \in Nat
<1>1. PICK h \in Nat : h = HIDDEN /\ h >= 2
  BY Widths
<1>2. PICK m \in Nat : m = x.mag /\ m <= h * EXP_MAX
  BY <1>1, Widths DEF Mags
<1>3. PICK e \in Nat, f \in Nat : e = Exp(x) /\ f = Frac(x) /\ f < h /\ m = h * e + f
  <2>1. /\ m \div h \in Nat /\ m % h \in Nat /\ m % h < h
        /\ m = h * (m \div h) + (m % h)
    BY <1>1, DivMod
  <2>2. Exp(x) = m \div h /\ Frac(x) = m % h
    BY <1>1, <1>2 DEF Exp, Frac
  <2> QED BY <2>1, <2>2, Zenon
<1>4. /\ e <= EXP_MAX
      /\ m < h * EXP_MAX => e < EXP_MAX
  <2>1. EXP_MAX \in Nat
    BY Widths
  <2>2. EXP_MAX < e => h * (EXP_MAX + 1) <= h * e /\ h * (EXP_MAX + 1) = h * EXP_MAX + h
    BY <1>1, <2>1
  <2>3. e <= EXP_MAX
    BY <1>1, <1>2, <1>3, <2>1, <2>2
  <2>4. EXP_MAX <= e => h * EXP_MAX <= h * e
    BY <1>1, <2>1
  <2> QED BY <1>1, <1>2, <1>3, <2>1, <2>3, <2>4
<1>5. e >= 1 <=> m >= h
  <2>1. e >= 1 => h * 1 <= h * e
    BY <1>1
  <2>2. e = 0 => h * e = 0
    BY <1>1
  <2> QED BY <1>1, <1>3, <2>1, <2>2
<1>6. /\ Mantissa(x) = IF e = 0 THEN f ELSE h + f
      /\ Mantissa(x) \in Nat /\ Mantissa(x) < 2 * h
  BY <1>1, <1>3 DEF Mantissa
<1>7. Value(m) = Mantissa(x) * Pow2[e]
  BY <1>2, <1>3 DEF Value, Mantissa, Exp, Frac, Number
<1>8. Value(m) \in Nat
  BY <1>6, <1>7, PowPositive
<1> QED BY <1>1, <1>2, <1>3, <1>4, <1>5, <1>6, <1>7, <1>8, Widths

(* ... and a number from its fields. *)
LEMMA FromFields ==
  ASSUME NEW e \in Nat, NEW f \in Nat, f < HIDDEN, e < EXP_MAX \/ (e = EXP_MAX /\ f = 0)
  PROVE  /\ e * HIDDEN + f \in Mags
         /\ e < EXP_MAX => e * HIDDEN + f < Infinity
         /\ e >= 1 => e * HIDDEN + f >= HIDDEN
         /\ \A x : x.mag = e * HIDDEN + f =>
              Exp(x) = e /\ Frac(x) = f
              /\ Mantissa(x) = (IF e = 0 THEN f ELSE HIDDEN + f)
         /\ Value(e * HIDDEN + f) = (IF e = 0 THEN f ELSE HIDDEN + f) * Pow2[e]
<1>1. PICK h \in Nat : h = HIDDEN /\ h >= 2
  BY Widths
<1>2. PICK E \in Nat : E = EXP_MAX /\ E >= 1 /\ Infinity = E * h
  BY <1>1, Widths
<1>3. e * h \in Nat /\ e * h = h * e
  BY <1>1
<1>4. e < E => e * h + h <= E * h
  <2>1. e < E => (e + 1) * h <= E * h
    BY <1>1, <1>2
  <2>2. (e + 1) * h = e * h + h
    BY <1>1
  <2> QED BY <2>1, <2>2
<1>5. e * h + f <= E * h /\ (e < E => e * h + f < E * h)
  <2>1. CASE e < E
    BY <1>1, <1>2, <1>3, <1>4, <2>1
  <2>2. CASE e = E /\ f = 0
    BY <1>1, <1>2, <1>3, <2>2
  <2> QED BY <1>1, <1>2, <2>1, <2>2
<1>6. e >= 1 => e * h + f >= h
  <2>1. e >= 1 => 1 * h <= e * h
    BY <1>1
  <2> QED BY <1>1, <1>3, <2>1
<1>7. ASSUME NEW x, x.mag = e * h + f
      PROVE  Exp(x) = e /\ Frac(x) = f /\ Mantissa(x) = (IF e = 0 THEN f ELSE h + f)
  <2>1. (h * e + f) \div h = e /\ (h * e + f) % h = f
    BY <1>1, DivUnique
  <2>2. x.mag = h * e + f
    BY <1>3, <1>7
  <2>3. Exp(x) = e /\ Frac(x) = f
    BY <1>1, <2>1, <2>2 DEF Exp, Frac
  <2> QED BY <1>1, <2>3 DEF Mantissa
<1>8. Value(e * h + f) = (IF e = 0 THEN f ELSE h + f) * Pow2[e]
  <2> DEFINE x == Number(FALSE, e * h + f)
  <2>1. x.mag = e * h + f
    BY DEF Number
  <2> HIDE DEF x
  <2>2. Exp(x) = e /\ Mantissa(x) = (IF e = 0 THEN f ELSE h + f)
    BY <1>7, <2>1
  <2> QED BY <2>2 DEF Value, x
<1> QED BY <1>1, <1>2, <1>3, <1>5, <1>6, <1>7, <1>8 DEF Mags

(* Numbers compare by exponent first and then by fraction.                 *)
LEMMA FieldOrder ==
  ASSUME NEW h \in Nat, NEW e \in Nat, NEW f \in Nat, NEW d \in Nat, NEW g \in Nat,
         f < h, g < h, h * e + f < h * d + g
  PROVE  e < d \/ (e = d /\ f < g)
<1>1. d < e => h * (d + 1) <= h * e /\ h * (d + 1) = h * d + h
  OBVIOUS
<1>2. h * e \in Nat /\ h * d \in Nat
  OBVIOUS
<1>3. ~(d < e)
  BY <1>1, <1>2
<1> QED BY <1>2, <1>3

(* A mantissa at a smaller exponent is less than one at a larger.          *)
LEMMA ScaledLess ==
  ASSUME NEW h \in Nat, NEW a \in Nat, NEW b \in Nat, NEW p \in Nat, NEW q \in Nat,
         a < 2 * h, h <= b, p >= 1, 2 * p <= q
  PROVE  a * p < b * q
<1>1. a * p < (2 * h) * p
  BY TimesMono
<1>2. (2 * h) * p = h * (2 * p) /\ 2 * p \in Nat
  OBVIOUS
<1>3. h * (2 * p) <= h * q
  BY <1>2, TimesMono
<1>4. h * q <= b * q
  BY TimesMono
<1>5. a * p \in Nat /\ b * q \in Nat /\ h * q \in Nat /\ h * (2 * p) \in Nat
  OBVIOUS
<1> QED BY <1>1, <1>2, <1>3, <1>4, <1>5

(* The order of magnitudes is that of the numbers they stand for. *)
LEMMA ValueMono ==
  ASSUME NEW m \in Mags, NEW n \in Mags, m < n
  PROVE  Value(m) < Value(n)
<1> DEFINE x == Number(FALSE, m)
           y == Number(FALSE, n)
           e == Exp(x)
           d == Exp(y)
           a == Mantissa(x)
           b == Mantissa(y)
<1>1. x.mag = m /\ y.mag = n
  BY DEF Number
<1> HIDE DEF x, y
<1>2. /\ e \in 0..EXP_MAX /\ Frac(x) \in 0..HIDDEN - 1 /\ m = HIDDEN * e + Frac(x)
      /\ a = IF e = 0 THEN Frac(x) ELSE HIDDEN + Frac(x)
      /\ a \in Nat /\ a < 2 * HIDDEN /\ Value(m) = a * Pow2[e]
  BY <1>1, Fields
<1>3. /\ d \in 0..EXP_MAX /\ Frac(y) \in 0..HIDDEN - 1 /\ n = HIDDEN * d + Frac(y)
      /\ b = IF d = 0 THEN Frac(y) ELSE HIDDEN + Frac(y)
      /\ b \in Nat /\ Value(n) = b * Pow2[d]
  BY <1>1, Fields
<1> HIDE DEF e, d, a, b
<1>4. HIDDEN \in Nat /\ EXP_MAX \in Nat
  BY Widths
<1>5. e \in Nat /\ d \in Nat /\ Frac(x) \in Nat /\ Frac(y) \in Nat
      /\ Frac(x) < HIDDEN /\ Frac(y) < HIDDEN
  BY <1>2, <1>3, <1>4
<1>6. HIDDEN * e + Frac(x) < HIDDEN * d + Frac(y)
  BY <1>2, <1>3
<1>7. e < d \/ (e = d /\ Frac(x) < Frac(y))
  BY <1>4, <1>5, <1>6, FieldOrder
<1>8. /\ Pow2[e] \in Nat /\ Pow2[e] >= 1 /\ Pow2[d] \in Nat
      /\ e < d => 2 * Pow2[e] <= Pow2[d]
  BY <1>5, PowPositive, PowMono
<1>9. CASE e < d
  <2>1. HIDDEN <= b
    BY <1>3, <1>4, <1>5, <1>9
  <2> QED BY <1>2, <1>3, <1>4, <1>8, <1>9, <2>1, ScaledLess
<1>10. CASE e = d /\ Frac(x) < Frac(y)
  <2>1. a < b
    BY <1>2, <1>3, <1>4, <1>5, <1>10
  <2> QED BY <1>2, <1>3, <1>8, <1>10, <2>1, TimesMono
<1> QED BY <1>7, <1>9, <1>10

(* So magnitudes may be compared in place of values, as the units do.      *)
LEMMA ValueOrder ==
  ASSUME NEW m \in Mags, NEW n \in Mags
  PROVE  m <= n <=> Value(m) <= Value(n)
<1>1. \A k \in Mags : Value(k) \in Nat /\ k \in Nat
  <2> TAKE k \in Mags
  <2>1. Number(FALSE, k).mag = k
    BY DEF Number
  <2>2. Value(Number(FALSE, k).mag) \in Nat
    BY <2>1, Fields, Zenon
  <2>3. k \in Nat
    BY Widths DEF Mags
  <2> QED BY <2>1, <2>2, <2>3, Zenon
<1> QED BY <1>1, ValueMono

-----------------------------------------------------------------------------
(* Normalization. *)

Whole(m) == m = 0 \/ m >= HIDDEN

(* What follows m, among the magnitudes of normal numbers. *)
After(m) == IF m < HIDDEN THEN HIDDEN ELSE m + 1

(* The magnitude m is v cut off, if one forgets of subnormals. *)
Rounded(m, v) ==
  /\ m \in Mags
  /\ m >= HIDDEN => Value(m) <= v
  /\ m < Infinity => v < Value(After(m))

(* Results of rounding keep the order of what is rounded.                  *)
LEMMA RoundedMono ==
  ASSUME NEW m, NEW n, NEW v \in Nat, NEW w \in Nat, v <= w, Rounded(m, v), Rounded(n, w)
  PROVE  m < HIDDEN \/ m <= n
<1> SUFFICES ASSUME m >= HIDDEN, n < m PROVE FALSE
  BY Widths DEF Rounded, Mags
<1>1. m \in Mags /\ n \in Mags /\ m \in Nat /\ n \in Nat /\ Infinity \in Nat /\ HIDDEN \in Nat
      /\ HIDDEN <= Infinity
  BY Widths DEF Rounded, Mags
<1>2. n < Infinity
  BY <1>1 DEF Mags
<1>3. w < Value(After(n)) /\ Value(m) <= v
  BY <1>2 DEF Rounded
<1>4. After(n) <= m /\ After(n) \in Mags
  BY <1>1, <1>2 DEF After, Mags
<1>5. Value(After(n)) <= Value(m)
  BY <1>1, <1>4, ValueOrder
<1>6. Value(m) \in Nat /\ Value(After(n)) \in Nat
  <2>1. \A k \in Mags : Value(k) \in Nat
    <3> TAKE k \in Mags
    <3>1. Number(FALSE, k).mag = k
      BY DEF Number
    <3> QED BY <3>1, Fields, Zenon
  <2> QED BY <1>1, <1>4, <2>1
<1> QED BY <1>3, <1>5, <1>6

(* The least normal number.                                                *)
LEMMA ValueHidden == Value(HIDDEN) = 2 * HIDDEN
<1>1. HIDDEN \in Nat /\ 0 < HIDDEN /\ EXP_MAX \in Nat /\ 1 <= EXP_MAX
  BY Widths
<1>2. 1 < EXP_MAX \/ (1 = EXP_MAX /\ 0 = 0)
  BY <1>1
<1>3. Value(1 * HIDDEN + 0) = (IF 1 = 0 THEN 0 ELSE HIDDEN + 0) * Pow2[1]
  BY <1>1, <1>2, FromFields
<1>4. Pow2[0 + 1] = 2 /\ 0 + 1 = 1
  BY PowStep
<1> QED BY <1>1, <1>3, <1>4

(* A normal number and the next one. *)
LEMMA Neighbours ==
  ASSUME NEW e \in Nat, e >= 1, e < EXP_MAX,
         NEW s \in Nat, HIDDEN <= s, s < 2 * HIDDEN
  PROVE  LET m == e * HIDDEN + (s - HIDDEN)
         IN  /\ m \in Mags /\ m >= HIDDEN /\ m < Infinity
             /\ Value(m) = s * Pow2[e]
             /\ Value(m + 1) = (s + 1) * Pow2[e]
<1> DEFINE m == e * HIDDEN + (s - HIDDEN)
<1>1. HIDDEN \in Nat /\ HIDDEN >= 2 /\ EXP_MAX \in Nat /\ e * HIDDEN \in Nat
  BY Widths
<1>2. /\ s - HIDDEN \in Nat /\ s - HIDDEN < HIDDEN /\ HIDDEN + (s - HIDDEN) = s
      /\ e # 0
  BY <1>1
<1>3. /\ m \in Mags /\ m >= HIDDEN /\ m < Infinity
      /\ Value(m) = (IF e = 0 THEN s - HIDDEN ELSE HIDDEN + (s - HIDDEN)) * Pow2[e]
  BY <1>2, FromFields
<1>4. CASE s + 1 < 2 * HIDDEN
  <2>1. /\ s + 1 - HIDDEN \in Nat /\ s + 1 - HIDDEN < HIDDEN
        /\ HIDDEN + (s + 1 - HIDDEN) = s + 1
        /\ e * HIDDEN + (s + 1 - HIDDEN) = m + 1
    BY <1>1, <1>4
  <2>2. Value(e * HIDDEN + (s + 1 - HIDDEN))
        = (IF e = 0 THEN s + 1 - HIDDEN ELSE HIDDEN + (s + 1 - HIDDEN)) * Pow2[e]
    BY <2>1, FromFields
  <2> HIDE DEF m
  <2>3. Value(m + 1) = (s + 1) * Pow2[e]
    BY <1>2, <2>1, <2>2
  <2> QED BY <1>2, <1>3, <2>3 DEF m
<1>5. CASE s + 1 = 2 * HIDDEN
  <2>1. e + 1 \in Nat /\ 0 < HIDDEN /\ 0 \in Nat
        /\ (e + 1 < EXP_MAX \/ (e + 1 = EXP_MAX /\ 0 = 0))
    BY <1>1
  <2>2. Value((e + 1) * HIDDEN + 0)
        = (IF e + 1 = 0 THEN 0 ELSE HIDDEN + 0) * Pow2[e + 1]
    BY <2>1, FromFields
  <2>3. (e + 1) * HIDDEN + 0 = m + 1
    <3>1. (e + 1) * HIDDEN = e * HIDDEN + HIDDEN
      BY <1>1
    <3> QED BY <1>1, <1>5, <3>1
  <2>4. Pow2[e + 1] = 2 * Pow2[e] /\ Pow2[e] \in Nat
    BY PowStep
  <2>5. HIDDEN * (2 * Pow2[e]) = (2 * HIDDEN) * Pow2[e]
    BY <1>1, <2>4
  <2> HIDE DEF m
  <2>6. Value(m + 1) = HIDDEN * Pow2[e + 1]
    BY <1>1, <2>1, <2>2, <2>3
  <2>7. Value(m + 1) = (s + 1) * Pow2[e]
    BY <1>5, <2>4, <2>5, <2>6
  <2> QED BY <1>2, <1>3, <2>7 DEF m
<1> QED BY <1>1, <1>4, <1>5

(* The leading zeros counted are those that are there.                     *)
LEMMA LeadingOne ==
  ASSUME NEW s \in Nat, s >= 1, s < 2 * HIDDEN
  PROVE  LET z == LeadingZeros(s)
         IN  /\ z \in Nat /\ z <= FRAC_BITS
             /\ Pow2[FRAC_BITS - z] <= s /\ s < Pow2[FRAC_BITS - z + 1]
<1>1. FRAC_BITS \in Nat
  BY WidthsAssumption
<1>2. s % (2 * HIDDEN) = s
  <2>1. PICK d \in Nat : d = 2 * HIDDEN /\ s < d
    BY Widths
  <2>2. (d * 0 + s) % d = s
    BY <2>1, DivUnique
  <2>3. d * 0 + s = s
    BY <2>1
  <2> QED BY <2>1, <2>2, <2>3
<1> DEFINE Fits(z) == s < Pow2[FRAC_BITS - z + 1] /\ (z = FRAC_BITS \/ s >= Pow2[FRAC_BITS - z])
           T == {z \in 0..FRAC_BITS : s >= Pow2[FRAC_BITS - z]}
<1>3. FRAC_BITS \in T
  <2>1. FRAC_BITS - FRAC_BITS = 0
    BY <1>1
  <2> QED BY <1>1, <2>1, PowStep
<1>4. PICK z \in T : \A y \in T : ~(y < z)
  <2>1. T \subseteq Nat
    OBVIOUS
  <2>2. T # {}
    BY <1>3, Zenon
  <2> HIDE DEF T
  <2> QED BY <2>1, <2>2, NatMin
<1>5. Fits(z) /\ z \in 0..FRAC_BITS
  <2>1. CASE z = 0
    <3>1. FRAC_BITS - z + 1 = FRAC_BITS + 1
      BY <1>1, <2>1
    <3>2. s < Pow2[FRAC_BITS - z + 1]
      BY <3>1, Widths
    <3> QED BY <1>4, <3>2
  <2>2. CASE z # 0
    <3>1. z - 1 \in 0..FRAC_BITS /\ z - 1 < z /\ FRAC_BITS - (z - 1) = FRAC_BITS - z + 1
          /\ FRAC_BITS - z + 1 \in Nat
      BY <1>1, <1>4, <2>2
    <3>2. ~(s >= Pow2[FRAC_BITS - (z - 1)])
      BY <1>4, <3>1
    <3>3. Pow2[FRAC_BITS - z + 1] \in Nat
      BY <3>1, PowStep
    <3>4. s < Pow2[FRAC_BITS - z + 1]
      BY <3>1, <3>2, <3>3
    <3> QED BY <1>4, <3>4
  <2> QED BY <2>1, <2>2
<1> DEFINE c == CHOOSE y \in 0..FRAC_BITS : Fits(y)
<1>6. c \in 0..FRAC_BITS /\ Fits(c)
  <2> HIDE DEF Fits
  <2> QED BY <1>5, Zenon
<1>7. LeadingZeros(s) = c
  BY <1>2 DEF LeadingZeros
<1>8. Pow2[FRAC_BITS - c] <= s
  <2> HIDE DEF c
  <2>1. CASE c = FRAC_BITS
    <3>1. FRAC_BITS - c = 0
      BY <1>1, <2>1
    <3> QED BY <3>1, PowStep
  <2>2. CASE c # FRAC_BITS
    BY <1>6, <2>2
  <2> QED BY <2>1, <2>2
<1> HIDE DEF c
<1> QED BY <1>1, <1>6, <1>7, <1>8

(* What normalization does with a sum at an exponent. *)
LEMMA NormalizedRounds ==
  ASSUME NEW neg, NEW e \in Nat, e < EXP_MAX, NEW s \in Nat, s < 4 * HIDDEN
  PROVE  LET r == Normalized(neg, e, s)
         IN  /\ Rounded(r.mag, s * Pow2[e]) /\ Whole(r.mag)
             /\ r.neg = neg \/ r.neg = FALSE
<1> DEFINE r == Normalized(neg, e, s)
<1>1. PICK h \in Nat : h = HIDDEN /\ h >= 2
  BY Widths
<1>2. PICK p \in Nat : p = Pow2[e] /\ p >= 1 /\ Pow2[e + 1] = 2 * p
  BY PowPositive, PowStep
<1>3. /\ EXP_MAX \in Nat /\ EXP_MAX >= 1 /\ Infinity \in Nat /\ Infinity >= h
      /\ Pow2[EXP_BITS] = EXP_MAX + 1
  BY <1>1, Widths
<1>4. 0 \in Mags /\ ~(0 >= h) /\ Value(After(0)) = 2 * h /\ Whole(0)
  BY <1>1, <1>3, ValueHidden DEF Mags, After, Whole
<1>5. CASE s = 0
  <2>1. r = Zero
    BY <1>5 DEF Normalized
  <2>2. r.mag = 0 /\ r.neg = FALSE
    BY <2>1 DEF Zero, Number
  <2>3. s * p = 0
    BY <1>2, <1>5
  <2>4. Rounded(0, 0)
    BY <1>1, <1>4 DEF Rounded
  <2> QED BY <1>2, <1>4, <2>2, <2>3, <2>4
<1>6. CASE s >= 2 * h
  <2>1. PICK k \in Nat, b \in Nat : k = s \div 2 /\ s = 2 * k + b /\ b < 2
    OBVIOUS
  <2>2. h <= k /\ k < 2 * h
    BY <1>1, <1>6, <2>1
  <2>3. (s \div (2 * HIDDEN)) % 2 = 1
    <3>1. PICK d \in Nat, t \in Nat : d = 2 * h /\ s = d * 1 + t /\ t < d
      <4>1. 2 * h \in Nat /\ s - 2 * h \in Nat /\ s = (2 * h) * 1 + (s - 2 * h) /\ s - 2 * h < 2 * h
        BY <1>1, <1>6
      <4> QED BY <4>1, Zenon
    <3>2. (d * 1 + t) \div d = 1
      BY <3>1, DivUnique
    <3>3. s \div (2 * HIDDEN) = 1
      BY <1>1, <3>1, <3>2
    <3> QED BY <3>3
  <2>4. (s \div 2) % HIDDEN = k - h
    <3>1. PICK t \in Nat : t = k - h /\ t < h /\ k = h * 1 + t
      BY <1>1, <2>1, <2>2
    <3>2. (h * 1 + t) % h = t
      BY <1>1, <3>1, DivUnique
    <3>3. k % h = k - h
      BY <3>1, <3>2
    <3> QED BY <1>1, <2>1, <3>3
  <2>5. (e + 1) % Pow2[EXP_BITS] = e + 1
    <3>1. PICK w \in Nat : w = EXP_MAX + 1 /\ w = Pow2[EXP_BITS]
      BY <1>3
    <3>2. PICK t \in Nat : t = e + 1 /\ t < w /\ w * 0 + t = t
      BY <1>3, <3>1
    <3>3. (w * 0 + t) % w = t
      BY <3>1, <3>2, DivUnique
    <3> QED BY <3>1, <3>2, <3>3
  <2>6. r = IF e + 1 = EXP_MAX THEN Number(neg, Infinity)
            ELSE Number(neg, (e + 1) * HIDDEN + (k - h))
    <3>1. s # 0
      BY <1>1, <1>6
    <3> QED BY <2>3, <2>4, <2>5, <3>1 DEF Normalized
  <2>7. s * p = 2 * (k * p) + b * p /\ k * p \in Nat /\ s * p < 2 * (k * p) + 2 * p
        /\ b * p \in Nat
    <3>1. s * p = 2 * (k * p) + b * p
      <4>1. (2 * k + b) * p = 2 * (k * p) + b * p
        OBVIOUS
      <4> QED BY <2>1, <4>1
    <3>2. b * p < 2 * p
      BY <1>2, <2>1, TimesMono
    <3>3. k * p \in Nat /\ b * p \in Nat
      BY <1>2, <2>1
    <3> QED BY <1>2, <3>1, <3>2, <3>3
  <2>8. CASE e + 1 = EXP_MAX
    <3>1. r.mag = Infinity /\ r.neg = neg
      BY <2>6, <2>8 DEF Number
    <3>2. Value(Infinity) = h * (2 * p)
      <4>1. Value(EXP_MAX * HIDDEN + 0)
            = (IF EXP_MAX = 0 THEN 0 ELSE HIDDEN + 0) * Pow2[EXP_MAX]
        BY <1>1, <1>3, FromFields
      <4>2. EXP_MAX * HIDDEN + 0 = Infinity
        BY <1>3, Widths
      <4> QED BY <1>1, <1>2, <1>3, <2>8, <4>1, <4>2
    <3>3. h * (2 * p) <= s * p
      <4>1. h * p <= k * p
        BY <1>1, <1>2, <2>1, <2>2, TimesMono
      <4>2. h * (2 * p) = 2 * (h * p) /\ h * p \in Nat
        BY <1>1, <1>2
      <4> QED BY <2>7, <4>1, <4>2
    <3>4. Infinity \in Mags /\ ~(Infinity < Infinity) /\ Whole(Infinity)
      BY <1>1, <1>3 DEF Mags, Whole
    <3>5. Rounded(Infinity, s * p)
      BY <3>2, <3>3, <3>4 DEF Rounded
    <3> QED BY <1>2, <3>1, <3>4, <3>5
  <2>9. CASE e + 1 # EXP_MAX
    <3> DEFINE m == (e + 1) * HIDDEN + (k - HIDDEN)
    <3>1. r.mag = m /\ r.neg = neg
      BY <1>1, <2>6, <2>9 DEF Number
    <3>2. e + 1 \in Nat /\ e + 1 >= 1 /\ e + 1 < EXP_MAX /\ HIDDEN <= k /\ k < 2 * HIDDEN
      BY <1>1, <1>3, <2>1, <2>2, <2>9
    <3>3. /\ m \in Mags /\ m >= HIDDEN /\ m < Infinity
          /\ Value(m) = k * Pow2[e + 1]
          /\ Value(m + 1) = (k + 1) * Pow2[e + 1]
      BY <2>1, <3>2, Neighbours
    <3> HIDE DEF m
    <3>4. After(m) = m + 1 /\ Whole(m)
      BY <1>1, <1>3, <3>3 DEF After, Mags, Whole
    <3>5. k * (2 * p) = 2 * (k * p) /\ (k + 1) * (2 * p) = 2 * (k * p) + 2 * p
      OBVIOUS
    <3>6. Value(m) <= s * p /\ s * p < Value(m + 1)
      BY <1>2, <2>7, <3>3, <3>5
    <3>7. Rounded(m, s * p)
      BY <3>3, <3>4, <3>6 DEF Rounded
    <3> QED BY <1>2, <3>1, <3>4, <3>7
  <2> QED BY <2>8, <2>9
<1>7. CASE 1 <= s /\ s < 2 * h
  <2>1. PICK z \in Nat : z = LeadingZeros(s) /\ z <= FRAC_BITS
                         /\ Pow2[FRAC_BITS - z] <= s /\ s < Pow2[FRAC_BITS - z + 1]
    BY <1>1, <1>7, LeadingOne
  <2>2. FRAC_BITS \in Nat /\ FRAC_BITS - z \in Nat /\ FRAC_BITS - z + 1 \in Nat
    BY <2>1, WidthsAssumption
  <2>3. (s \div (2 * HIDDEN)) % 2 = 0
    <3>1. PICK d \in Nat : d = 2 * h
      BY <1>1
    <3>2. s < d /\ d * 0 + s = s
      BY <1>7, <3>1
    <3>3. (d * 0 + s) \div d = 0
      BY <3>1, <3>2, DivUnique
    <3>4. s \div (2 * HIDDEN) = 0
      BY <1>1, <3>1, <3>2, <3>3
    <3> QED BY <3>4
  <2>4. r = IF e <= z THEN Zero
            ELSE Number(neg, (e - z) * HIDDEN + ((s * Pow2[z]) % HIDDEN))
    BY <1>7, <2>1, <2>3 DEF Normalized
  <2>5. CASE e <= z
    <3>1. r.mag = 0 /\ r.neg = FALSE
      BY <2>4, <2>5 DEF Zero, Number
    <3>2. s * p < 2 * h
      <4>1. Pow2[FRAC_BITS - z + 1] * Pow2[e] = Pow2[(FRAC_BITS - z + 1) + e]
        BY <2>2, PowSum
      <4>2. (FRAC_BITS - z + 1) + e \in Nat /\ (FRAC_BITS - z + 1) + e <= FRAC_BITS + 1
        BY <2>1, <2>2, <2>5
      <4>3. Pow2[(FRAC_BITS - z + 1) + e] <= Pow2[FRAC_BITS + 1]
        BY <2>2, <4>2, PowMono
      <4>4. PICK q \in Nat : q = Pow2[FRAC_BITS - z + 1]
        BY <2>2, PowStep
      <4>5. s * p < q * p
        BY <1>2, <2>1, <4>4, TimesMono
      <4>6. q * p <= 2 * h /\ q * p \in Nat /\ s * p \in Nat
        <5>1. q * p = Pow2[(FRAC_BITS - z + 1) + e]
          BY <1>2, <4>1, <4>4
        <5>2. Pow2[FRAC_BITS + 1] = 2 * h
          BY <1>1, Widths
        <5> QED BY <1>2, <4>3, <4>4, <5>1, <5>2
      <4> QED BY <1>1, <4>5, <4>6
    <3>3. Rounded(0, s * p)
      BY <1>1, <1>4, <3>2 DEF Rounded
    <3> QED BY <1>2, <1>4, <3>1, <3>3
  <2>6. CASE z < e
    <3>1. PICK q \in Nat : q = Pow2[z] /\ q >= 1
      BY <2>1, PowPositive
    <3>2. PICK k \in Nat : k = s * q
      BY <3>1
    <3>3. h <= k /\ k < 2 * h
      <4>1. PICK a \in Nat : a = Pow2[FRAC_BITS - z]
        BY <2>2, PowStep
      <4>2. Pow2[FRAC_BITS - z + 1] = 2 * a
        BY <2>2, <4>1, PowStep
      <4>3. a * q = h
        <5>1. Pow2[(FRAC_BITS - z) + z] = Pow2[FRAC_BITS - z] * Pow2[z]
          BY <2>1, <2>2, PowSum
        <5>2. (FRAC_BITS - z) + z = FRAC_BITS
          BY <2>1, <2>2
        <5> QED BY <1>1, <3>1, <4>1, <5>1, <5>2, Widths
      <4>4. a * q <= s * q /\ s * q < (2 * a) * q
        BY <2>1, <3>1, <4>1, <4>2, TimesMono
      <4>5. (2 * a) * q = 2 * (a * q)
        BY <3>1, <4>1
      <4> QED BY <3>2, <4>3, <4>4, <4>5
    <3>4. (s * Pow2[z]) % HIDDEN = k - HIDDEN
      <4>1. k - h \in Nat /\ k - h < h /\ k = h * 1 + (k - h)
        BY <1>1, <3>2, <3>3
      <4>2. (h * 1 + (k - h)) % h = k - h
        BY <1>1, <4>1, DivUnique
      <4>3. k % h = k - h
        BY <4>1, <4>2
      <4> QED BY <1>1, <3>1, <3>2, <4>3
    <3> DEFINE m == (e - z) * HIDDEN + (k - HIDDEN)
    <3>5. r.mag = m /\ r.neg = neg
      <4>1. ~(e <= z)
        BY <2>1, <2>6
      <4> QED BY <2>4, <3>4, <4>1 DEF Number
    <3>6. e - z \in Nat /\ e - z >= 1 /\ e - z < EXP_MAX /\ HIDDEN <= k /\ k < 2 * HIDDEN
      BY <1>1, <1>3, <2>1, <2>6, <3>3
    <3>7. /\ m \in Mags /\ m >= HIDDEN /\ m < Infinity
          /\ Value(m) = k * Pow2[e - z]
          /\ Value(m + 1) = (k + 1) * Pow2[e - z]
      BY <3>2, <3>6, Neighbours
    <3> HIDE DEF m
    <3>8. After(m) = m + 1 /\ Whole(m)
      BY <1>1, <1>3, <3>7 DEF After, Mags, Whole
    <3>9. PICK c \in Nat : c = Pow2[e - z] /\ c >= 1
      BY <3>6, PowPositive
    <3>10. p = c * q
      <4>1. (e - z) + z = e
        BY <2>1
      <4>2. Pow2[(e - z) + z] = Pow2[e - z] * Pow2[z]
        BY <2>1, <3>6, PowSum
      <4> QED BY <1>2, <3>1, <3>9, <4>1, <4>2
    <3>11. s * p = k * c
      <4>1. s * (c * q) = (s * q) * c
        BY <3>1, <3>9
      <4> QED BY <3>2, <3>10, <4>1
    <3>12. (k + 1) * c = k * c + c /\ k * c \in Nat
      BY <3>2, <3>9
    <3>13. Value(m) <= s * p /\ s * p < Value(m + 1)
      BY <3>7, <3>9, <3>11, <3>12
    <3>14. Rounded(m, s * p)
      BY <3>7, <3>8, <3>13 DEF Rounded
    <3> QED BY <1>2, <3>5, <3>8, <3>14
  <2>7. e <= z \/ z < e
    BY <2>1
  <2> QED BY <2>5, <2>6, <2>7, Zenon
<1>8. s = 0 \/ s >= 2 * h \/ (1 <= s /\ s < 2 * h)
  BY <1>1
<1> QED BY <1>5, <1>6, <1>7, <1>8, Zenon

-----------------------------------------------------------------------------
(* Addition. *)

(* Values are naturals, and zero is zero.                                  *)
LEMMA ValueNat ==
  /\ \A m \in Mags : Value(m) \in Nat /\ m \in Nat
  /\ Value(0) = 0 /\ 0 \in Mags
<1>1. ASSUME NEW m \in Mags PROVE Value(m) \in Nat /\ m \in Nat
  <2>1. Number(FALSE, m).mag = m
    BY DEF Number
  <2>2. Value(Number(FALSE, m).mag) \in Nat
    BY <2>1, Fields, Zenon
  <2>3. m \in Nat
    BY Widths DEF Mags
  <2> QED BY <2>1, <2>2, <2>3, Zenon
<1>2. HIDDEN \in Nat /\ 0 < HIDDEN /\ EXP_MAX \in Nat /\ 0 < EXP_MAX
  BY Widths
<1>3. Value(0 * HIDDEN + 0) = (IF 0 = 0 THEN 0 ELSE HIDDEN + 0) * Pow2[0]
  BY <1>2, FromFields
<1>4. 0 * HIDDEN + 0 = 0 /\ Pow2[0] = 1
  BY <1>2, PowStep
<1>5. 0 \in Mags
  BY Widths DEF Mags
<1> QED BY <1>1, <1>3, <1>4, <1>5

(* A number is its own rounding, ...                                       *)
LEMMA RoundedSelf ==
  ASSUME NEW m \in Mags
  PROVE  Rounded(m, Value(m))
<1>1. /\ m \in Nat /\ Infinity \in Nat /\ HIDDEN \in Nat /\ HIDDEN <= Infinity
      /\ m <= Infinity /\ Value(m) \in Nat
  BY ValueNat, Widths DEF Mags
<1>2. ASSUME m < Infinity PROVE Value(m) < Value(After(m))
  <2>1. After(m) \in Mags /\ m < After(m)
    BY <1>1, <1>2 DEF After, Mags
  <2> QED BY <2>1, ValueMono
<1> QED BY <1>1, <1>2 DEF Rounded

(* ... and infinity that of all it is too small for.                       *)
LEMMA RoundedInfinite ==
  ASSUME NEW v \in Nat, Value(Infinity) <= v
  PROVE  Rounded(Infinity, v)
<1>1. Infinity \in Mags /\ ~(Infinity < Infinity)
  BY Widths DEF Mags
<1> QED BY <1>1 DEF Rounded

(* The smaller number at the exponent of the larger. *)
LEMMA AlignedIs ==
  ASSUME NEW x, NEW y, x.mag \in Mags, y.mag \in Mags, y.mag <= x.mag
  PROVE  LET shifted == Value(y.mag) \div Pow2[Exp(x)]
         IN  /\ shifted \in Nat /\ shifted <= Mantissa(x)
             /\ AlignedSum(x, y) = (IF x.neg # y.neg THEN Mantissa(x) - shifted
                                    ELSE Mantissa(x) + shifted)
<1>1. PICK h \in Nat : h = HIDDEN /\ h >= 2
  BY Widths
<1>2. PICK e \in Nat, M \in Nat :
        /\ e = Exp(x) /\ M = Mantissa(x) /\ M < 2 * h /\ e <= EXP_MAX
        /\ Value(x.mag) = M * Pow2[e]
  <2>1. /\ Exp(x) \in 0..EXP_MAX /\ Mantissa(x) \in Nat /\ Mantissa(x) < 2 * HIDDEN
        /\ Value(x.mag) = Mantissa(x) * Pow2[Exp(x)] /\ EXP_MAX \in Nat
    BY Fields, Widths
  <2>2. Exp(x) \in Nat /\ Exp(x) <= EXP_MAX /\ Mantissa(x) < 2 * h
    BY <1>1, <2>1
  <2> QED BY <2>1, <2>2, Zenon
<1>3. PICK d \in Nat, N \in Nat :
        /\ d = Exp(y) /\ N = Mantissa(y) /\ N < 2 * h
        /\ Value(y.mag) = N * Pow2[d]
  <2>1. /\ Exp(y) \in 0..EXP_MAX /\ Mantissa(y) \in Nat /\ Mantissa(y) < 2 * HIDDEN
        /\ Value(y.mag) = Mantissa(y) * Pow2[Exp(y)] /\ EXP_MAX \in Nat
    BY Fields, Widths
  <2>2. Exp(y) \in Nat /\ Mantissa(y) < 2 * h
    BY <1>1, <2>1
  <2> QED BY <2>1, <2>2, Zenon
<1>4. d <= e
  <2>1. /\ Frac(x) \in 0..HIDDEN - 1 /\ x.mag = HIDDEN * Exp(x) + Frac(x)
        /\ Frac(y) \in 0..HIDDEN - 1 /\ y.mag = HIDDEN * Exp(y) + Frac(y)
    BY Fields
  <2>2. PICK f \in Nat, g \in Nat :
          f < h /\ g < h /\ x.mag = h * e + f /\ y.mag = h * d + g
    <3>1. Frac(x) \in Nat /\ Frac(y) \in Nat /\ Frac(x) < h /\ Frac(y) < h
      BY <1>1, <2>1
    <3>2. x.mag = h * e + Frac(x) /\ y.mag = h * d + Frac(y)
      BY <1>1, <1>2, <1>3, <2>1
    <3> QED BY <3>1, <3>2, Zenon
  <2>3. ~(e < d)
    <3>1. SUFFICES ASSUME e < d PROVE FALSE
      OBVIOUS
    <3>2. h * (e + 1) <= h * d /\ h * (e + 1) = h * e + h /\ h * e \in Nat /\ h * d \in Nat
      BY <3>1
    <3> QED BY <2>2, <3>2
  <2> QED BY <2>3
<1>5. PICK p \in Nat, q \in Nat : p = Pow2[e] /\ p >= 1 /\ q = Pow2[d] /\ q >= 1
  BY PowPositive
<1>6. PICK k \in Nat : k = Value(y.mag) \div p /\ k * p <= Value(y.mag)
  <2>1. Value(y.mag) \in Nat /\ Value(y.mag) \div Pow2[e] \in Nat
        /\ (Value(y.mag) \div Pow2[e]) * Pow2[e] <= Value(y.mag)
    BY ValueNat, CutBounds DEF Cut
  <2> QED BY <1>5, <2>1
<1>7. k <= M
  <2>1. Value(y.mag) <= Value(x.mag)
    BY ValueOrder
  <2>2. k * p <= M * p
    <3>1. k * p \in Nat /\ M * p \in Nat /\ Value(y.mag) \in Nat
      BY ValueNat
    <3>2. Value(x.mag) = M * p
      BY <1>2, <1>5
    <3> QED BY <1>6, <2>1, <3>1, <3>2
  <2>3. ~(M < k)
    <3>1. SUFFICES ASSUME M < k PROVE FALSE
      OBVIOUS
    <3>2. M * p < k * p
      BY <1>5, <3>1, TimesMono
    <3>3. k * p \in Nat /\ M * p \in Nat
      OBVIOUS
    <3> QED BY <2>2, <3>2, <3>3
  <2> QED BY <2>3
<1> DEFINE diff  == (Exp(x) - Exp(y)) % Pow2[EXP_BITS]
           shift == IF diff > FRAC_BITS + 1 THEN FRAC_BITS + 1 ELSE diff
<1>8. FRAC_BITS \in Nat /\ EXP_MAX \in Nat
  BY WidthsAssumption, Widths
<1>9. PICK j \in Nat : j = e - d
  BY <1>4
<1>10. diff = j
  <2>1. PICK w \in Nat : w = Pow2[EXP_BITS] /\ w = EXP_MAX + 1
    BY <1>8, Widths
  <2>2. j < w /\ w * 0 + j = j
    BY <1>2, <1>4, <1>8, <1>9, <2>1
  <2>3. (w * 0 + j) % w = j
    BY <2>2, DivUnique
  <2> QED BY <1>2, <1>3, <1>9, <2>1, <2>2, <2>3
<1>11. Mantissa(y) \div Pow2[shift] = k
  <2>1. CASE j <= FRAC_BITS + 1
    <3>1. PICK c \in Nat : c = Pow2[j] /\ c >= 1
      BY PowPositive
    <3>2. p = c * q
      <4>1. Pow2[j + d] = Pow2[j] * Pow2[d] /\ j + d = e
        BY <1>4, <1>9, PowSum
      <4> QED BY <1>5, <3>1, <4>1
    <3>3. PICK t \in Nat, r \in Nat : t = N \div c /\ r < c /\ N = c * t + r
      <4>1. /\ N \div c \in Nat /\ N % c \in Nat /\ N % c < c
            /\ N = c * (N \div c) + (N % c)
        BY <3>1, DivMod
      <4> QED BY <4>1, Zenon
    <3>4. PICK rq \in Nat : rq = r * q /\ rq < p
      <4>1. r * q \in Nat /\ r * q < c * q
        BY <1>5, <3>1, <3>3, TimesMono
      <4> QED BY <3>2, <4>1
    <3>5. Value(y.mag) = p * t + rq
      <4>1. (c * t + r) * q = (c * q) * t + r * q
        OBVIOUS
      <4> QED BY <1>3, <1>5, <3>2, <3>3, <3>4, <4>1
    <3>6. (p * t + rq) \div p = t
      BY <3>4, DivUnique
    <3>7. k = t
      BY <1>6, <3>5, <3>6
    <3>8. shift = j
      BY <1>8, <1>10, <2>1
    <3> QED BY <1>3, <3>1, <3>3, <3>7, <3>8
  <2>2. CASE j > FRAC_BITS + 1
    <3>1. shift = FRAC_BITS + 1
      BY <1>10, <2>2
    <3>2. PICK c \in Nat : c = Pow2[FRAC_BITS + 1] /\ c = 2 * h
      BY <1>1, Widths
    <3>3. N \div c = 0
      <4>1. c * 0 + N = N /\ N < c
        BY <1>3, <3>2
      <4>2. (c * 0 + N) \div c = 0
        BY <4>1, DivUnique
      <4> QED BY <4>1, <4>2
    <3>4. N * q < p
      <4>1. c * q = Pow2[(FRAC_BITS + 1) + d]
        <5>1. FRAC_BITS + 1 \in Nat
          BY <1>8
        <5>2. Pow2[(FRAC_BITS + 1) + d] = Pow2[FRAC_BITS + 1] * Pow2[d]
          BY <5>1, PowSum
        <5> QED BY <1>5, <3>2, <5>2
      <4>2. (FRAC_BITS + 1) + d \in Nat /\ (FRAC_BITS + 1) + d <= e
        BY <1>4, <1>8, <1>9, <2>2
      <4>3. Pow2[(FRAC_BITS + 1) + d] <= Pow2[e]
        BY <4>2, PowMono
      <4>4. N * q < c * q
        BY <1>3, <1>5, <3>2, TimesMono
      <4>5. N * q \in Nat /\ c * q \in Nat
        OBVIOUS
      <4> QED BY <1>5, <4>1, <4>3, <4>4, <4>5
    <3>5. k = 0
      <4>1. PICK v \in Nat : v = N * q /\ v = Value(y.mag)
        BY <1>3, <1>5
      <4>2. p * 0 + v = v /\ v < p
        BY <3>4, <4>1
      <4>3. (p * 0 + v) \div p = 0
        BY <4>2, DivUnique
      <4> QED BY <1>6, <4>1, <4>2, <4>3
    <3> QED BY <1>3, <3>1, <3>2, <3>3, <3>5
  <2> QED BY <1>8, <2>1, <2>2
<1>12. AlignedSum(x, y) = (IF x.neg # y.neg THEN M - k ELSE M + k) % Pow2[FRAC_BITS + 3]
  BY <1>2, <1>11 DEF AlignedSum
<1>13. PICK s \in Nat : s = (IF x.neg # y.neg THEN M - k ELSE M + k) /\ s < 8 * h
  BY <1>1, <1>2, <1>7
<1>14. s % Pow2[FRAC_BITS + 3] = s
  <2>1. PICK w \in Nat : w = 8 * h /\ w = Pow2[FRAC_BITS + 3]
    BY <1>1, Widths
  <2>2. s < w /\ w * 0 + s = s
    BY <1>13, <2>1
  <2>3. (w * 0 + s) % w = s
    BY <2>2, DivUnique
  <2> QED BY <2>1, <2>2, <2>3
<1> QED BY <1>2, <1>5, <1>6, <1>7, <1>12, <1>13, <1>14

Exponent(m) == Exp(Number(FALSE, m))

Larger(a, b)  == IF Greater(a, b) THEN a.mag ELSE b.mag
Smaller(a, b) == IF Greater(a, b) THEN b.mag ELSE a.mag

(* What a sum, or a difference, is before it is cut off. *)
SumOf(m, n)        == Value(m) + Cut(Exponent(m), Value(n))
DifferenceOf(m, n) == Value(m) - Cut(Exponent(m), Value(n))

(* The adder puts the larger operand first.                                *)
LEMMA Sorted ==
  ASSUME NEW a, NEW b, a.mag \in Mags, b.mag \in Mags
  PROVE  /\ Larger(a, b) \in Mags /\ Smaller(a, b) \in Mags
         /\ Smaller(a, b) <= Larger(a, b)
         /\ a.mag <= Larger(a, b) /\ b.mag <= Larger(a, b)
         /\ a.mag = 0 => Larger(a, b) = b.mag /\ Smaller(a, b) = 0
         /\ b.mag = 0 => Larger(a, b) = a.mag /\ Smaller(a, b) = 0
<1>1. a.mag \in Nat /\ b.mag \in Nat
  BY ValueNat
<1> QED BY <1>1 DEF Larger, Smaller, Greater

(* Exponents of the numbers.                                               *)
LEMMA ExponentNat == \A m \in Mags : Exponent(m) \in Nat /\ Exponent(m) <= EXP_MAX
                       /\ (m < Infinity => Exponent(m) < EXP_MAX)
<1> TAKE m \in Mags
<1> DEFINE x == Number(FALSE, m)
<1>1. x.mag = m
  BY DEF Number
<1> HIDE DEF x
<1>2. Exp(x) \in 0..EXP_MAX /\ (m < Infinity => Exp(x) < EXP_MAX) /\ EXP_MAX \in Nat
  BY <1>1, Fields, Widths
<1>3. Exponent(m) = Exp(x)
  BY DEF Exponent, x
<1> QED BY <1>2, <1>3

(* The exponent depends on the magnitude only.                             *)
LEMMA Exponents == \A x : x.mag \in Mags => Exponent(x.mag) = Exp(x)
BY DEF Exponent, Exp, Number

(* Aligned sums and differences are naturals, and adding zero changes      *)
(* nothing.                                                                *)
LEMMA SumNat ==
  ASSUME NEW m \in Mags, NEW n \in Mags
  PROVE  /\ SumOf(m, n) \in Nat /\ Value(m) <= SumOf(m, n)
         /\ n <= m => DifferenceOf(m, n) \in Nat
         /\ SumOf(m, 0) = Value(m) /\ DifferenceOf(m, 0) = Value(m)
<1>1. /\ Value(m) \in Nat /\ Value(n) \in Nat /\ Exponent(m) \in Nat
      /\ n <= m => Value(n) <= Value(m)
  BY ValueNat, ValueOrder, ExponentNat
<1>2. Cut(Exponent(m), Value(n)) \in Nat /\ Cut(Exponent(m), Value(n)) <= Value(n)
  BY <1>1, CutBounds
<1>3. Cut(Exponent(m), Value(0)) = 0
  <2>1. Value(0) = 0
    BY ValueNat
  <2>2. Cut(Exponent(m), 0) \in Nat /\ Cut(Exponent(m), 0) <= 0
    BY <1>1, CutBounds
  <2> QED BY <2>1, <2>2
<1> QED BY <1>1, <1>2, <1>3 DEF SumOf, DifferenceOf

(* A larger number has no smaller exponent.                                *)
LEMMA ExponentMono ==
  ASSUME NEW m \in Mags, NEW k \in Mags, m <= k
  PROVE  Exponent(m) <= Exponent(k)
<1> DEFINE x == Number(FALSE, m)
           y == Number(FALSE, k)
<1>1. x.mag = m /\ y.mag = k
  BY DEF Number
<1> HIDE DEF x, y
<1>2. PICK h \in Nat : h = HIDDEN /\ h >= 2
  BY Widths
<1>3. PICK e \in Nat, g \in Nat : e = Exponent(m) /\ g < h /\ m = h * e + g
  <2>1. Exp(x) \in 0..EXP_MAX /\ Frac(x) \in 0..HIDDEN - 1 /\ m = HIDDEN * Exp(x) + Frac(x)
    BY <1>1, Fields
  <2>2. Exp(x) \in Nat /\ Frac(x) \in Nat /\ Frac(x) < h /\ m = h * Exp(x) + Frac(x)
        /\ Exp(x) = Exponent(m)
    <3>1. Exp(x) = Exponent(m)
      BY DEF Exponent, x
    <3> QED BY <1>2, <2>1, <3>1, Widths
  <2> QED BY <2>2, Zenon
<1>4. PICK f \in Nat, i \in Nat : f = Exponent(k) /\ i < h /\ k = h * f + i
  <2>1. Exp(y) \in 0..EXP_MAX /\ Frac(y) \in 0..HIDDEN - 1 /\ k = HIDDEN * Exp(y) + Frac(y)
    BY <1>1, Fields
  <2>2. Exp(y) \in Nat /\ Frac(y) \in Nat /\ Frac(y) < h /\ k = h * Exp(y) + Frac(y)
        /\ Exp(y) = Exponent(k)
    <3>1. Exp(y) = Exponent(k)
      BY DEF Exponent, y
    <3> QED BY <1>2, <2>1, <3>1, Widths
  <2> QED BY <2>2, Zenon
<1>5. ~(f < e)
  <2>1. SUFFICES ASSUME f < e PROVE FALSE
    OBVIOUS
  <2>2. h * (f + 1) <= h * e /\ h * (f + 1) = h * f + h /\ h * e \in Nat /\ h * f \in Nat
    BY <2>1
  <2>3. h * e + g <= h * f + i
    BY <1>3, <1>4
  <2> QED BY <1>3, <1>4, <2>2, <2>3
<1> QED BY <1>3, <1>4, <1>5

(* The aligned sum grows with both operands, though the larger decides     *)
(* what is cut off the smaller.                                            *)
LEMMA SumMono ==
  ASSUME NEW m \in Mags, NEW n \in Mags, NEW k \in Mags, NEW l \in Mags, m <= k, n <= l
  PROVE  SumOf(m, n) <= SumOf(k, l)
<1>1. PICK v \in Nat, w \in Nat : v = Value(n) /\ w = Value(l) /\ v <= w
  BY ValueNat, ValueOrder
<1>2. PICK e \in Nat, f \in Nat : e = Exponent(m) /\ f = Exponent(k)
  BY ExponentNat
<1>3. /\ Cut(e, v) \in Nat /\ Cut(f, v) \in Nat /\ Cut(f, w) \in Nat
      /\ Cut(f, v) <= Cut(f, w)
  BY <1>1, <1>2, CutBounds, CutMono
<1>4. Value(m) \in Nat /\ Value(k) \in Nat /\ Value(m) <= Value(k)
  BY ValueNat, ValueOrder
<1> DEFINE x == Number(FALSE, m)
           y == Number(FALSE, k)
<1>5. x.mag = m /\ y.mag = k
  BY DEF Number
<1> HIDE DEF x, y
<1>6. PICK h \in Nat : h = HIDDEN /\ h >= 2
  BY Widths
<1>7. PICK a \in Nat, g \in Nat :
        a = Mantissa(x) /\ g = Frac(x) /\ g < h /\ a < 2 * h /\ m = h * e + g
        /\ Value(m) = a * Pow2[e]
  <2>1. /\ Mantissa(x) \in Nat /\ Frac(x) \in 0..HIDDEN - 1 /\ Mantissa(x) < 2 * HIDDEN
        /\ m = HIDDEN * Exp(x) + Frac(x) /\ Value(m) = Mantissa(x) * Pow2[Exp(x)]
    BY <1>5, Fields
  <2>2. Exp(x) = e
    BY <1>2 DEF Exponent, x
  <2>3. Frac(x) \in Nat /\ Frac(x) < h
    BY <1>6, <2>1
  <2> QED BY <1>6, <2>1, <2>2, <2>3
<1>8. PICK b \in Nat, i \in Nat :
        b = Mantissa(y) /\ i = Frac(y) /\ i < h /\ (f >= 1 => b >= h) /\ k = h * f + i
        /\ Value(k) = b * Pow2[f]
  <2>1. /\ Mantissa(y) \in Nat /\ Frac(y) \in 0..HIDDEN - 1
        /\ Mantissa(y) = IF Exp(y) = 0 THEN Frac(y) ELSE HIDDEN + Frac(y)
        /\ k = HIDDEN * Exp(y) + Frac(y) /\ Value(k) = Mantissa(y) * Pow2[Exp(y)]
    BY <1>5, Fields
  <2>2. Exp(y) = f
    BY <1>2 DEF Exponent, y
  <2>3. Frac(y) \in Nat /\ Frac(y) < h
    BY <1>6, <2>1
  <2>4. f >= 1 => Mantissa(y) >= h
    BY <1>2, <1>6, <2>1, <2>2, <2>3
  <2> QED BY <1>6, <2>1, <2>2, <2>3, <2>4
<1>9. e <= f
  BY <1>2, ExponentMono
<1>10. CASE e = f
  BY <1>1, <1>2, <1>3, <1>4, <1>10 DEF SumOf
<1>11. CASE e < f
  <2>1. PICK p \in Nat, q \in Nat : p = Pow2[e] /\ q = Pow2[f] /\ p >= 1 /\ 2 * p <= q
    <3>1. /\ Pow2[e] \in Nat /\ Pow2[f] \in Nat /\ Pow2[e] >= 1
          /\ 2 * Pow2[e] <= Pow2[f]
      BY <1>11, PowPositive, PowMono
    <3> QED BY <3>1, Zenon
  <2>2. Cut(e, v) + p <= Cut(f, v) + q
    BY <1>9, <2>1, CutCoarser
  <2>3. Value(m) + q <= Value(k) + p
    <3>1. PICK c \in Nat, t \in Nat : h = c + 1 /\ q = 2 * p + t
      <4>1. h - 1 \in Nat /\ q - 2 * p \in Nat /\ h = (h - 1) + 1 /\ q = 2 * p + (q - 2 * p)
        BY <1>6, <2>1
      <4> QED BY <4>1, Zenon
    <3>2. a <= 2 * c + 1
      BY <1>7, <3>1
    <3>3. a * p <= (2 * c + 1) * p
      BY <3>2, TimesMono
    <3>4. (2 * c + 1) * p = 2 * (c * p) + p /\ c * p \in Nat
      OBVIOUS
    <3>5. h * q <= b * q
      BY <1>8, <1>11, TimesMono
    <3>6. (c + 1) * (2 * p + t) = 2 * (c * p) + c * t + 2 * p + t /\ c * t \in Nat
      OBVIOUS
    <3>7. h * q = 2 * (c * p) + c * t + 2 * p + t
      BY <3>1, <3>6
    <3>8. a * p \in Nat /\ b * q \in Nat /\ h * q \in Nat
      OBVIOUS
    <3>9. Value(m) = a * p /\ Value(k) = b * q
      BY <1>7, <1>8, <2>1
    <3> HIDE <1>7, <1>8
    <3> QED BY <2>1, <3>1, <3>3, <3>4, <3>5, <3>7, <3>8, <3>9
  <2> QED BY <1>1, <1>2, <1>3, <1>4, <2>1, <2>2, <2>3 DEF SumOf
<1> QED BY <1>9, <1>10, <1>11

(* And so does the aligned difference with the larger, and against the     *)
(* smaller.                                                                *)
LEMMA DifferenceMono ==
  ASSUME NEW m \in Mags, NEW n \in Mags, NEW k \in Mags, NEW l \in Mags, m <= k, l <= n
  PROVE  DifferenceOf(m, n) <= DifferenceOf(k, l)
<1>1. PICK v \in Nat, w \in Nat : v = Value(n) /\ w = Value(l) /\ w <= v
  BY ValueNat, ValueOrder
<1>2. PICK e \in Nat, f \in Nat : e = Exponent(m) /\ f = Exponent(k) /\ e <= f
  BY ExponentNat, ExponentMono
<1>3. /\ Cut(e, v) \in Nat /\ Cut(e, w) \in Nat /\ Cut(f, w) \in Nat
      /\ Cut(e, w) <= Cut(e, v) /\ Cut(f, w) <= Cut(e, w)
  BY <1>1, <1>2, CutBounds, CutMono, CutCoarser
<1>4. Value(m) \in Nat /\ Value(k) \in Nat /\ Value(m) <= Value(k)
  BY ValueNat, ValueOrder
<1> QED BY <1>1, <1>2, <1>3, <1>4 DEF DifferenceOf

(* The units round the sum of the aligned numbers, whatever comes first. *)
LEMMA FarFromSpecial ==
  ASSUME NEW x, NEW y, x.mag \in Mags, y.mag \in Mags, y.mag <= x.mag, x.mag < Infinity
  PROVE  LET r == Normalized(x.neg, Exp(x), AlignedSum(x, y))
             v == IF x.neg # y.neg THEN DifferenceOf(x.mag, y.mag) ELSE SumOf(x.mag, y.mag)
         IN  /\ Rounded(r.mag, v) /\ Whole(r.mag)
             /\ r.neg = x.neg \/ r.neg = FALSE
<1>1. PICK h \in Nat : h = HIDDEN
  BY Widths
<1>2. PICK e \in Nat, M \in Nat :
        /\ e = Exp(x) /\ M = Mantissa(x) /\ M < 2 * h /\ e < EXP_MAX
        /\ Value(x.mag) = M * Pow2[e]
  <2>1. /\ Exp(x) \in 0..EXP_MAX /\ Mantissa(x) \in Nat /\ Mantissa(x) < 2 * HIDDEN
        /\ Value(x.mag) = Mantissa(x) * Pow2[Exp(x)] /\ Exp(x) < EXP_MAX
    BY Fields
  <2>2. Exp(x) \in Nat /\ Mantissa(x) < 2 * h
    BY <1>1, <2>1, Widths
  <2> QED BY <2>1, <2>2, Zenon
<1>3. PICK p \in Nat : p = Pow2[e]
  BY PowStep
<1>4. PICK k \in Nat : k = Value(y.mag) \div p /\ k <= M
                       /\ AlignedSum(x, y) = (IF x.neg # y.neg THEN M - k ELSE M + k)
  <2>1. LET shifted == Value(y.mag) \div Pow2[Exp(x)]
        IN  /\ shifted \in Nat /\ shifted <= Mantissa(x)
            /\ AlignedSum(x, y) = (IF x.neg # y.neg THEN Mantissa(x) - shifted
                                   ELSE Mantissa(x) + shifted)
    BY AlignedIs
  <2> QED BY <1>2, <1>3, <2>1
<1>5. Cut(e, Value(y.mag)) = k * p
  BY <1>3, <1>4 DEF Cut
<1>6. Exponent(x.mag) = e
  BY <1>2, Exponents
<1>7. PICK s \in Nat : s = AlignedSum(x, y) /\ s < 4 * h
  BY <1>1, <1>2, <1>4
<1> DEFINE v == IF x.neg # y.neg THEN DifferenceOf(x.mag, y.mag) ELSE SumOf(x.mag, y.mag)
<1>8. s * Pow2[e] = v
  <2>1. CASE x.neg # y.neg
    <3>1. (M - k) * p = M * p - k * p
      OBVIOUS
    <3> QED BY <1>2, <1>3, <1>4, <1>5, <1>6, <1>7, <2>1, <3>1 DEF DifferenceOf
  <2>2. CASE ~(x.neg # y.neg)
    <3>1. (M + k) * p = M * p + k * p
      OBVIOUS
    <3> QED BY <1>2, <1>3, <1>4, <1>5, <1>6, <1>7, <2>2, <3>1 DEF SumOf
  <2> QED BY <2>1, <2>2
<1> HIDE DEF v
<1>9. LET r == Normalized(x.neg, e, s)
      IN  /\ Rounded(r.mag, s * Pow2[e]) /\ Whole(r.mag)
          /\ r.neg = x.neg \/ r.neg = FALSE
  BY <1>1, <1>2, <1>7, NormalizedRounds
<1> QED BY <1>2, <1>7, <1>8, <1>9 DEF v

(* What the adder delivers. *)
LEMMA AddRounds ==
  ASSUME NEW a, NEW b, a.mag \in Mags, b.mag \in Mags,
         a.neg = b.neg \/ (a.mag < Infinity /\ b.mag < Infinity)
  PROVE  LET r == Add(a, b)
             v == IF a.neg # b.neg THEN DifferenceOf(Larger(a, b), Smaller(a, b))
                  ELSE SumOf(Larger(a, b), Smaller(a, b))
         IN  /\ Rounded(r.mag, v) /\ v \in Nat
             /\ r.neg = a.neg \/ r.neg = b.neg \/ r.neg = FALSE
             /\ Whole(a.mag) /\ Whole(b.mag) => Whole(r.mag)
<1> DEFINE r == Add(a, b)
           v == IF a.neg # b.neg THEN DifferenceOf(Larger(a, b), Smaller(a, b))
                ELSE SumOf(Larger(a, b), Smaller(a, b))
<1>1. v \in Nat
  <2>1. Larger(a, b) \in Mags /\ Smaller(a, b) \in Mags /\ Smaller(a, b) <= Larger(a, b)
    BY Sorted
  <2> QED BY <2>1, SumNat
<1>2. CASE IsZero(a) /\ IsZero(b)
  <2>1. r.mag = 0 /\ r.neg = FALSE
    BY <1>2 DEF Add, Zero, Number
  <2>2. v = Value(0)
    BY <1>2, Sorted, SumNat, ValueNat DEF IsZero
  <2>3. Rounded(0, Value(0))
    BY ValueNat, RoundedSelf
  <2> HIDE DEF r, v
  <2>4. Whole(0)
    BY DEF Whole
  <2> QED BY <1>1, <2>1, <2>2, <2>3, <2>4 DEF r, v
<1>3. CASE IsZero(a) /\ ~IsZero(b)
  <2>1. r = b
    BY <1>3 DEF Add
  <2>2. v = Value(b.mag)
    BY <1>3, Sorted, SumNat, ValueNat DEF IsZero
  <2>3. Rounded(b.mag, Value(b.mag))
    BY RoundedSelf
  <2> HIDE DEF r, v
  <2> QED BY <1>1, <2>1, <2>2, <2>3 DEF r, v
<1>4. CASE ~IsZero(a) /\ IsZero(b)
  <2>1. r = a
    BY <1>4 DEF Add
  <2>2. v = Value(a.mag)
    BY <1>4, Sorted, SumNat, ValueNat DEF IsZero
  <2>3. Rounded(a.mag, Value(a.mag))
    BY RoundedSelf
  <2> HIDE DEF r, v
  <2> QED BY <1>1, <2>1, <2>2, <2>3 DEF r, v
<1>5. CASE ~IsZero(a) /\ ~IsZero(b) /\ (IsInf(a) \/ IsInf(b))
  <2>1. r \in {a, b} /\ r.mag = Infinity
    BY <1>5 DEF Add, IsInf
  <2>2. a.neg = b.neg /\ Infinity \in Nat
    BY <1>5, Widths DEF IsInf
  <2>3. Larger(a, b) \in Mags /\ Smaller(a, b) \in Mags /\ Larger(a, b) = Infinity
    <3>1. Larger(a, b) \in Mags /\ Smaller(a, b) \in Mags
          /\ a.mag <= Larger(a, b) /\ b.mag <= Larger(a, b)
      BY Sorted
    <3> QED BY <1>5, <2>2, <3>1 DEF IsInf, Mags
  <2>4. Value(Infinity) <= v
    BY <2>2, <2>3, SumNat
  <2> HIDE DEF r, v
  <2>5. Rounded(Infinity, v)
    BY <1>1, <2>4, RoundedInfinite
  <2>6. Whole(Infinity)
    BY Widths DEF Whole
  <2> QED BY <1>1, <2>1, <2>5, <2>6 DEF r, v
<1>6. CASE ~IsZero(a) /\ ~IsZero(b) /\ ~IsInf(a) /\ ~IsInf(b)
  <2> DEFINE large == IF Greater(a, b) THEN a ELSE b
             small == IF Greater(a, b) THEN b ELSE a
  <2>1. r = Normalized(large.neg, Exp(large), AlignedSum(large, small))
    BY <1>6 DEF Add
  <2>2. /\ large.mag = Larger(a, b) /\ small.mag = Smaller(a, b)
        /\ large.neg # small.neg <=> a.neg # b.neg
        /\ large.neg \in {a.neg, b.neg}
    BY DEF Larger, Smaller
  <2>3. /\ large.mag \in Mags /\ small.mag \in Mags /\ small.mag <= large.mag
        /\ large.mag < Infinity
    <3>1. a.mag < Infinity /\ b.mag < Infinity
      BY <1>6, Widths DEF IsInf, Mags
    <3> QED BY <2>2, <3>1, Sorted
  <2> HIDE DEF large, small, r
  <2>4. LET q == Normalized(large.neg, Exp(large), AlignedSum(large, small))
            u == IF large.neg # small.neg THEN DifferenceOf(large.mag, small.mag)
                 ELSE SumOf(large.mag, small.mag)
        IN  /\ Rounded(q.mag, u) /\ Whole(q.mag)
            /\ q.neg = large.neg \/ q.neg = FALSE
    BY <2>3, FarFromSpecial
  <2>5. v = IF large.neg # small.neg THEN DifferenceOf(large.mag, small.mag)
            ELSE SumOf(large.mag, small.mag)
    BY <2>2
  <2> HIDE DEF v
  <2>6. Rounded(r.mag, v) /\ Whole(r.mag) /\ (r.neg = large.neg \/ r.neg = FALSE)
    BY <2>1, <2>4, <2>5
  <2> QED BY <1>1, <2>2, <2>6 DEF r, v
<1> QED BY <1>2, <1>3, <1>4, <1>5, <1>6

Numbers == [neg : BOOLEAN, mag : Mags]

(* Sums of numbers of one sign keep the order, unless flushed.             *)
LEMMA AddMono ==
  ASSUME NEW a \in Numbers, NEW b \in Numbers, NEW c \in Numbers, NEW d \in Numbers,
         a.neg = b.neg, c.neg = d.neg, a.mag <= c.mag, b.mag <= d.mag
  PROVE  Add(a, b).mag < HIDDEN \/ Add(a, b).mag <= Add(c, d).mag
<1>1. a.mag \in Mags /\ b.mag \in Mags /\ c.mag \in Mags /\ d.mag \in Mags
  BY DEF Numbers
<1>2. /\ a.mag \in Nat /\ b.mag \in Nat /\ c.mag \in Nat /\ d.mag \in Nat
  BY <1>1, ValueNat
<1>3. Larger(a, b) <= Larger(c, d) /\ Smaller(a, b) <= Smaller(c, d)
  BY <1>2 DEF Larger, Smaller, Greater
<1>4. /\ Larger(a, b) \in Mags /\ Smaller(a, b) \in Mags
      /\ Larger(c, d) \in Mags /\ Smaller(c, d) \in Mags
  BY <1>1, Sorted
<1>5. PICK v \in Nat, w \in Nat :
        /\ v = SumOf(Larger(a, b), Smaller(a, b)) /\ w = SumOf(Larger(c, d), Smaller(c, d))
        /\ v <= w
  BY <1>3, <1>4, SumNat, SumMono
<1>6. Rounded(Add(a, b).mag, v) /\ Rounded(Add(c, d).mag, w)
  BY <1>1, <1>5, AddRounds
<1> QED BY <1>5, <1>6, RoundedMono

(* Negation touches the sign only.                                         *)
LEMMA NegatedIs ==
  ASSUME NEW x \in Numbers
  PROVE  /\ Negated(x) \in Numbers /\ Negated(x).mag = x.mag /\ Negated(x).neg = ~x.neg
         /\ x.mag \in Mags /\ x.neg \in BOOLEAN
BY DEF Negated, Numbers

(* The units subtract either way round to the same magnitude. *)
LEMMA SubFlips ==
  ASSUME NEW a \in Numbers, NEW b \in Numbers
  PROVE  Sub(a, b).mag = Sub(b, a).mag
<1> DEFINE c == Negated(a)
           d == Negated(b)
<1>1. /\ c.mag = a.mag /\ d.mag = b.mag /\ c.neg = ~a.neg /\ d.neg = ~b.neg
      /\ a.mag \in Mags /\ b.mag \in Mags /\ a.neg \in BOOLEAN /\ b.neg \in BOOLEAN
  BY NegatedIs
<1>2. a.mag \in Nat /\ b.mag \in Nat
  BY <1>1, ValueNat
<1> HIDE DEF c, d
<1>3. \A e, s : Normalized(a.neg, e, s).mag = Normalized(c.neg, e, s).mag
                /\ Normalized(a.neg, e, s).mag = Normalized(b.neg, e, s).mag
                /\ Normalized(a.neg, e, s).mag = Normalized(d.neg, e, s).mag
  BY DEF Normalized, Zero, Number
<1>4. AlignedSum(a, d) = AlignedSum(c, b)
  BY <1>1 DEF AlignedSum, Exp, Mantissa, Frac
<1>5. AlignedSum(d, a) = AlignedSum(b, c)
  BY <1>1 DEF AlignedSum, Exp, Mantissa, Frac
<1>6. a.mag = b.mag => AlignedSum(a, d) = AlignedSum(b, c)
  BY <1>1 DEF AlignedSum, Exp, Mantissa, Frac
<1>7. Exp(a) = Exp(c) /\ Exp(b) = Exp(d) /\ (a.mag = b.mag => Exp(a) = Exp(b))
  BY <1>1 DEF Exp
<1>8. /\ IsZero(a) <=> IsZero(c)
      /\ IsZero(b) <=> IsZero(d)
      /\ IsInf(a) <=> IsInf(c)
      /\ IsInf(b) <=> IsInf(d)
  BY <1>1 DEF IsZero, IsInf
<1>9. CASE IsZero(a) \/ IsZero(b) \/ IsInf(a) \/ IsInf(b)
  BY <1>1, <1>8, <1>9 DEF Sub, Add, c, d, Zero, Number, IsZero, IsInf
<1>10. CASE ~(IsZero(a) \/ IsZero(b) \/ IsInf(a) \/ IsInf(b))
  <2>1. CASE a.mag > b.mag
    <3>1. Greater(a, d) /\ ~Greater(b, c)
      BY <1>1, <1>2, <2>1 DEF Greater
    <3>2. Add(a, d) = Normalized(a.neg, Exp(a), AlignedSum(a, d))
      BY <1>8, <1>10, <3>1 DEF Add
    <3>3. Add(b, c) = Normalized(c.neg, Exp(c), AlignedSum(c, b))
      BY <1>8, <1>10, <3>1 DEF Add
    <3> QED BY <1>3, <1>4, <1>7, <3>2, <3>3 DEF Sub, c, d
  <2>2. CASE a.mag < b.mag
    <3>1. ~Greater(a, d) /\ Greater(b, c)
      BY <1>1, <1>2, <2>2 DEF Greater
    <3>2. Add(a, d) = Normalized(d.neg, Exp(d), AlignedSum(d, a))
      BY <1>8, <1>10, <3>1 DEF Add
    <3>3. Add(b, c) = Normalized(b.neg, Exp(b), AlignedSum(b, c))
      BY <1>8, <1>10, <3>1 DEF Add
    <3>4. Normalized(d.neg, Exp(b), AlignedSum(b, c)).mag
          = Normalized(b.neg, Exp(b), AlignedSum(b, c)).mag
      BY <1>3, Zenon
    <3> QED BY <1>5, <1>7, <3>2, <3>3, <3>4 DEF Sub, c, d
  <2>3. CASE a.mag = b.mag
    <3>1. Greater(a, d) /\ Greater(b, c)
      BY <1>1, <1>2, <2>3 DEF Greater
    <3>2. Add(a, d) = Normalized(a.neg, Exp(a), AlignedSum(a, d))
      BY <1>8, <1>10, <3>1 DEF Add
    <3>3. Add(b, c) = Normalized(b.neg, Exp(b), AlignedSum(b, c))
      BY <1>8, <1>10, <3>1 DEF Add
    <3>4. Normalized(a.neg, Exp(b), AlignedSum(b, c)).mag
          = Normalized(b.neg, Exp(b), AlignedSum(b, c)).mag
      BY <1>3, Zenon
    <3> QED BY <1>6, <1>7, <2>3, <3>2, <3>3, <3>4 DEF Sub, c, d
  <2> QED BY <1>2, <2>1, <2>2, <2>3
<1> QED BY <1>9, <1>10

-----------------------------------------------------------------------------
(* Squares. *)

(* A product out of range. *)
Clamp(u) == IF u < HIDDEN THEN 0 ELSE IF u >= Infinity THEN Infinity ELSE u

(* The range check of the multiplier is a clamp.                           *)
LEMMA InRangeIs ==
  ASSUME NEW neg, NEW e \in Int, NEW f \in Nat, HIDDEN <= f, f < 2 * HIDDEN
  PROVE  InRange(neg, e, f).mag = Clamp(e * HIDDEN + (f - HIDDEN))
<1>1. PICK h \in Nat : h = HIDDEN /\ h >= 2
  BY Widths
<1>2. PICK x \in Nat : x = EXP_MAX /\ x >= 1 /\ Infinity = x * h
  BY <1>1, Widths
<1>3. f % HIDDEN = f - h
  <2>1. PICK t \in Nat : t = f - h /\ t < h /\ f = h * 1 + t
    BY <1>1
  <2>2. (h * 1 + t) % h = t
    BY <2>1, DivUnique
  <2> QED BY <1>1, <2>1, <2>2
<1>4. InRange(neg, e, f) = IF e <= 0 THEN Number(neg, 0)
                           ELSE IF e >= EXP_MAX THEN Number(neg, Infinity)
                           ELSE Number(neg, e * HIDDEN + (f - HIDDEN))
  BY <1>1, <1>3 DEF InRange
<1>5. e * h \in Int /\ x * h \in Int
  OBVIOUS
<1>6. CASE e <= 0
  <2>1. e * h <= 0
    <3>1. PICK n \in Nat : e = -n
      <4>1. -e \in Nat /\ e = -(-e)
        BY <1>6
      <4> QED BY <4>1
    <3>2. (-n) * h = -(n * h) /\ n * h \in Nat
      OBVIOUS
    <3> QED BY <3>1, <3>2
  <2>2. e * h + (f - h) < h
    BY <1>1, <1>5, <2>1
  <2> QED BY <1>1, <1>4, <1>6, <2>2 DEF Clamp, Number
<1>7. CASE 0 < e /\ e < x
  <2>1. PICK n \in Nat : n = e /\ n >= 1 /\ n + 1 <= x
    BY <1>7
  <2>2. 1 * h <= n * h /\ (n + 1) * h <= x * h
    BY <2>1, TimesMono
  <2>3. (n + 1) * h = n * h + h /\ n * h \in Nat
    OBVIOUS
  <2>4. e * h + (f - h) >= h /\ e * h + (f - h) < x * h
    BY <1>1, <1>5, <2>1, <2>2, <2>3
  <2> QED BY <1>1, <1>2, <1>4, <1>7, <2>4 DEF Clamp, Number
<1>8. CASE x <= e
  <2>1. PICK n \in Nat : n = e
    BY <1>2, <1>8
  <2>2. x * h <= n * h /\ 1 * h <= x * h
    BY <1>2, <1>8, <2>1, TimesMono
  <2>3. e * h + (f - h) >= x * h /\ x * h >= h
    BY <1>1, <1>5, <2>1, <2>2
  <2>4. ~(e <= 0) /\ e >= EXP_MAX
    BY <1>2, <1>8
  <2>5. InRange(neg, e, f) = Number(neg, Infinity)
    BY <1>4, <2>4
  <2>6. Clamp(e * h + (f - h)) = Infinity
    BY <1>1, <1>2, <1>5, <2>3 DEF Clamp
  <2> QED BY <1>1, <2>5, <2>6 DEF Number
<1> QED BY <1>2, <1>6, <1>7, <1>8

(* The fraction and the exponent of the square of a normal number. *)
Carries(x)      == Mantissa(x) * Mantissa(x) >= 2 * HIDDEN * HIDDEN
SquareFrac(x)   == (Mantissa(x) * Mantissa(x)) \div (IF Carries(x) THEN 2 * HIDDEN ELSE HIDDEN)
SquareExp(x)    == Exp(x) + Exp(x) - BIAS + (IF Carries(x) THEN 1 ELSE 0)
SquareUncut(x)  == SquareExp(x) * HIDDEN + (SquareFrac(x) - HIDDEN)

(* A quotient lies where its dividend does. *)
LEMMA QuotientIn ==
  ASSUME NEW a \in Nat, NEW d \in Nat, d >= 1, NEW l \in Nat, NEW u \in Nat,
         l * d <= a, a < u * d
  PROVE  a \div d \in Nat /\ l <= a \div d /\ a \div d < u
<1>1. PICK q \in Nat, r \in Nat : q = a \div d /\ r < d /\ a = d * q + r
  <2>1. /\ a \div d \in Nat /\ a % d \in Nat /\ a % d < d
        /\ a = d * (a \div d) + (a % d)
    BY DivMod
  <2> QED BY <2>1, Zenon
<1>2. ~(q < l)
  <2>1. SUFFICES ASSUME q < l PROVE FALSE
    OBVIOUS
  <2>2. (q + 1) * d <= l * d /\ (q + 1) * d = d * q + d /\ l * d \in Nat /\ d * q \in Nat
    BY <2>1
  <2> QED BY <1>1, <2>2
<1>3. ~(u <= q)
  <2>1. SUFFICES ASSUME u <= q PROVE FALSE
    OBVIOUS
  <2>2. u * d <= q * d /\ q * d = d * q /\ u * d \in Nat /\ d * q \in Nat
    BY <2>1
  <2> QED BY <1>1, <2>2
<1> QED BY <1>1, <1>2, <1>3

(* Division by the same number keeps the order.                            *)
LEMMA QuotientMono ==
  ASSUME NEW a \in Nat, NEW b \in Nat, a <= b, NEW d \in Nat, d >= 1
  PROVE  a \div d <= b \div d
<1>1. PICK q \in Nat, r \in Nat : q = a \div d /\ r < d /\ a = d * q + r
  <2>1. /\ a \div d \in Nat /\ a % d \in Nat /\ a % d < d
        /\ a = d * (a \div d) + (a % d)
    BY DivMod
  <2> QED BY <2>1, Zenon
<1>2. PICK p \in Nat, s \in Nat : p = b \div d /\ s < d /\ b = d * p + s
  <2>1. /\ b \div d \in Nat /\ b % d \in Nat /\ b % d < d
        /\ b = d * (b \div d) + (b % d)
    BY DivMod
  <2> QED BY <2>1, Zenon
<1>3. ~(p < q)
  <2>1. SUFFICES ASSUME p < q PROVE FALSE
    OBVIOUS
  <2>2. (p + 1) * d <= q * d /\ (p + 1) * d = d * p + d /\ q * d = d * q
        /\ d * p \in Nat /\ d * q \in Nat
    BY <2>1
  <2> QED BY <1>1, <1>2, <2>2
<1> QED BY <1>1, <1>2, <1>3

(* The square of a normal number, before its exponent is clamped.          *)
LEMMA NormalSquare ==
  ASSUME NEW x, x.mag \in Mags, HIDDEN <= x.mag, x.mag < Infinity
  PROVE  /\ Square(x).neg = FALSE /\ Square(x).mag = Clamp(SquareUncut(x))
         /\ SquareFrac(x) \in Nat /\ HIDDEN <= SquareFrac(x) /\ SquareFrac(x) < 2 * HIDDEN
<1>1. PICK h \in Nat : h = HIDDEN /\ h >= 2
  BY Widths
<1>2. PICK e \in Nat, M \in Nat :
        e = Exp(x) /\ M = Mantissa(x) /\ h <= M /\ M < 2 * h
  <2>1. /\ Exp(x) \in 0..EXP_MAX /\ Exp(x) >= 1 /\ Frac(x) \in 0..HIDDEN - 1
        /\ Mantissa(x) = IF Exp(x) = 0 THEN Frac(x) ELSE HIDDEN + Frac(x)
        /\ Mantissa(x) \in Nat /\ Mantissa(x) < 2 * HIDDEN
    BY Fields
  <2>2. Exp(x) \in Nat /\ h <= Mantissa(x) /\ Mantissa(x) < 2 * h
    BY <1>1, <2>1, Widths
  <2> QED BY <2>1, <2>2, Zenon
<1>3. PICK p \in Nat : p = M * M /\ h * h <= p /\ p < (2 * h) * (2 * h)
  <2>1. h * h <= M * h /\ M * h <= M * M
    BY <1>2, TimesMono
  <2>2. M * M < (2 * h) * M /\ (2 * h) * M < (2 * h) * (2 * h)
    <3>1. 2 * h \in Nat /\ 2 * h > 0 /\ M > 0
      BY <1>1, <1>2
    <3> QED BY <1>2, <3>1, TimesMono
  <2>3. h * h \in Nat /\ M * h \in Nat /\ M * M \in Nat /\ (2 * h) * M \in Nat
        /\ (2 * h) * (2 * h) \in Nat
    OBVIOUS
  <2> QED BY <2>1, <2>2, <2>3
<1>4. ~IsZero(x) /\ ~IsInf(x)
  BY <1>1, Widths DEF IsZero, IsInf, Mags
<1>5. Carries(x) <=> p >= 2 * h * h
  BY <1>1, <1>2, <1>3 DEF Carries
<1>6. PICK t \in Int : t = e + e - BIAS
  BY Widths
<1>7. Square(x) = IF p >= 2 * h * h THEN InRange(FALSE, t + 1, p \div (2 * h))
                  ELSE InRange(FALSE, t, p \div h)
  <2>1. (x.neg # x.neg) = FALSE
    OBVIOUS
  <2> QED BY <1>1, <1>2, <1>3, <1>4, <1>6, <2>1 DEF Square, Mul
<1>8. SquareFrac(x) \in Nat /\ h <= SquareFrac(x) /\ SquareFrac(x) < 2 * h
  <2>1. CASE p >= 2 * h * h
    <3>1. PICK d \in Nat : d = 2 * h /\ d >= 1
      BY <1>1
    <3>2. h * d <= p /\ p < d * d
      <4>1. h * (2 * h) = 2 * h * h
        OBVIOUS
      <4> QED BY <1>3, <2>1, <3>1, <4>1
    <3>3. p \div d \in Nat /\ h <= p \div d /\ p \div d < d
      BY <3>1, <3>2, QuotientIn
    <3>4. SquareFrac(x) = p \div d
      BY <1>1, <1>2, <1>3, <1>5, <2>1, <3>1 DEF SquareFrac
    <3> QED BY <3>1, <3>3, <3>4
  <2>2. CASE ~(p >= 2 * h * h)
    <3>1. PICK d \in Nat : d = 2 * h
      BY <1>1
    <3>2. p < d * h
      <4>1. (2 * h) * h \in Nat
        OBVIOUS
      <4> QED BY <2>2, <3>1, <4>1
    <3>3. p \div h \in Nat /\ h <= p \div h /\ p \div h < d
      BY <1>1, <1>3, <3>2, QuotientIn
    <3>4. SquareFrac(x) = p \div h
      BY <1>1, <1>2, <1>3, <1>5, <2>2 DEF SquareFrac
    <3> QED BY <3>1, <3>3, <3>4
  <2> QED BY <2>1, <2>2
<1>9. PICK f \in Nat : f = SquareFrac(x) /\ HIDDEN <= f /\ f < 2 * HIDDEN
  BY <1>1, <1>8
<1>10. Square(x) = InRange(FALSE, SquareExp(x), f) /\ SquareExp(x) \in Int
  <2>1. CASE p >= 2 * h * h
    <3>1. SquareExp(x) = t + 1 /\ f = p \div (2 * h)
      BY <1>1, <1>2, <1>3, <1>5, <1>6, <1>9, <2>1, Widths DEF SquareExp, SquareFrac
    <3> QED BY <1>6, <1>7, <2>1, <3>1
  <2>2. CASE ~(p >= 2 * h * h)
    <3>1. SquareExp(x) = t /\ f = p \div h
      BY <1>1, <1>2, <1>3, <1>5, <1>6, <1>9, <2>2, Widths DEF SquareExp, SquareFrac
    <3> QED BY <1>6, <1>7, <2>2, <3>1
  <2> QED BY <2>1, <2>2
<1>11. /\ InRange(FALSE, SquareExp(x), f).neg = FALSE
       /\ InRange(FALSE, SquareExp(x), f).mag = Clamp(SquareExp(x) * HIDDEN + (f - HIDDEN))
  <2>1. PICK u \in Int : u = SquareExp(x)
    BY <1>10
  <2>2. InRange(FALSE, u, f).mag = Clamp(u * HIDDEN + (f - HIDDEN))
    BY <1>9, <2>1, InRangeIs
  <2>3. InRange(FALSE, u, f).neg = FALSE
    BY DEF InRange, Number
  <2> QED BY <2>1, <2>2, <2>3
<1> QED BY <1>1, <1>8, <1>9, <1>10, <1>11 DEF SquareUncut

(* Clamping keeps the order.                                               *)
LEMMA ClampMono ==
  ASSUME NEW u \in Int, NEW w \in Int
  PROVE  /\ Clamp(u) \in Mags /\ Whole(Clamp(u))
         /\ u <= w => Clamp(u) <= Clamp(w)
BY Widths DEF Clamp, Mags, Whole

(* Squares keep the order before they are clamped.                         *)
LEMMA UncutMono ==
  ASSUME NEW x, NEW y, x.mag \in Mags, y.mag \in Mags,
         HIDDEN <= x.mag, x.mag <= y.mag, y.mag < Infinity
  PROVE  /\ SquareUncut(x) \in Int /\ SquareUncut(y) \in Int
         /\ SquareUncut(x) <= SquareUncut(y)
<1>1. PICK h \in Nat : h = HIDDEN /\ h >= 2
  BY Widths
<1>2. x.mag < Infinity /\ HIDDEN <= y.mag
  BY ValueNat, Widths
<1>3. PICK f \in Nat : f = SquareFrac(x) /\ h <= f /\ f < 2 * h
  BY <1>1, <1>2, NormalSquare
<1>4. PICK g \in Nat : g = SquareFrac(y) /\ h <= g /\ g < 2 * h
  BY <1>1, <1>2, NormalSquare
<1>5. PICK e \in Nat, M \in Nat, a \in Nat :
        /\ e = Exp(x) /\ M = Mantissa(x) /\ e >= 1 /\ M = h + a /\ a < h
        /\ x.mag = h * e + a
  <2>1. /\ Exp(x) \in 0..EXP_MAX /\ Exp(x) >= 1 /\ Frac(x) \in 0..HIDDEN - 1
        /\ Mantissa(x) = IF Exp(x) = 0 THEN Frac(x) ELSE HIDDEN + Frac(x)
        /\ Mantissa(x) \in Nat /\ x.mag = HIDDEN * Exp(x) + Frac(x)
    BY Fields
  <2>2. Exp(x) \in Nat /\ Mantissa(x) = h + Frac(x) /\ Frac(x) < h /\ Frac(x) \in Nat
        /\ x.mag = h * Exp(x) + Frac(x)
    BY <1>1, <2>1, Widths
  <2> QED BY <2>1, <2>2, Zenon
<1>6. PICK d \in Nat, N \in Nat, b \in Nat :
        /\ d = Exp(y) /\ N = Mantissa(y) /\ d >= 1 /\ N = h + b /\ b < h
        /\ y.mag = h * d + b
  <2>1. /\ Exp(y) \in 0..EXP_MAX /\ Exp(y) >= 1 /\ Frac(y) \in 0..HIDDEN - 1
        /\ Mantissa(y) = IF Exp(y) = 0 THEN Frac(y) ELSE HIDDEN + Frac(y)
        /\ Mantissa(y) \in Nat /\ y.mag = HIDDEN * Exp(y) + Frac(y)
    BY <1>2, Fields
  <2>2. Exp(y) \in Nat /\ Mantissa(y) = h + Frac(y) /\ Frac(y) < h /\ Frac(y) \in Nat
        /\ y.mag = h * Exp(y) + Frac(y)
    BY <1>1, <2>1, Widths
  <2> QED BY <2>1, <2>2, Zenon
<1>7. e < d \/ (e = d /\ a <= b)
  <2>1. h * e \in Nat /\ h * d \in Nat
    OBVIOUS
  <2>2. d < e => h * (d + 1) <= h * e /\ h * (d + 1) = h * d + h
    OBVIOUS
  <2>3. h * e + a <= h * d + b
    BY <1>5, <1>6
  <2>4. ~(d < e)
    BY <1>5, <1>6, <2>1, <2>2, <2>3
  <2>5. e = d => a <= b
    <3>1. SUFFICES ASSUME e = d PROVE a <= b
      OBVIOUS
    <3>2. h * e = h * d
      BY <3>1
    <3> QED BY <2>1, <2>3, <3>2
  <2> QED BY <2>4, <2>5
<1>8. PICK s \in Int, t \in Int :
        /\ s = SquareExp(x) /\ t = SquareExp(y)
        /\ s = e + e - BIAS + (IF Carries(x) THEN 1 ELSE 0)
        /\ t = d + d - BIAS + (IF Carries(y) THEN 1 ELSE 0)
  <2>1. /\ SquareExp(x) = e + e - BIAS + (IF Carries(x) THEN 1 ELSE 0)
        /\ SquareExp(y) = d + d - BIAS + (IF Carries(y) THEN 1 ELSE 0)
    BY <1>5, <1>6 DEF SquareExp
  <2>2. SquareExp(x) \in Int /\ SquareExp(y) \in Int
    BY <2>1, Widths
  <2> QED BY <2>1, <2>2, Zenon
<1>9. /\ SquareUncut(x) = s * h + (f - h) /\ SquareUncut(y) = t * h + (g - h)
      /\ s * h \in Int /\ t * h \in Int
  BY <1>1, <1>3, <1>4, <1>8 DEF SquareUncut
<1>10. s < t \/ (s = t /\ f <= g)
  <2>1. CASE e < d
    <3>1. e + e + 1 < d + d
      BY <2>1
    <3> QED BY <1>8, <3>1, Widths
  <2>2. CASE e = d /\ a <= b
    <3>1. PICK p \in Nat, q \in Nat : p = M * M /\ q = N * N /\ p <= q
      <4>1. M * M <= N * M /\ N * M <= N * N
        BY <1>5, <1>6, <2>2, TimesMono
      <4>2. M * M \in Nat /\ N * M \in Nat /\ N * N \in Nat
        OBVIOUS
      <4> QED BY <4>1, <4>2
    <3>2. PICK w \in Nat : w = 2 * HIDDEN * HIDDEN
      BY <1>1
    <3>3. (Carries(x) <=> p >= w) /\ (Carries(y) <=> q >= w)
      BY <1>5, <1>6, <3>1, <3>2 DEF Carries
    <3>4. CASE Carries(x) <=> Carries(y)
      <4>1. PICK c \in Nat : c = (IF Carries(x) THEN 2 * HIDDEN ELSE HIDDEN) /\ c >= 1
        BY <1>1
      <4>2. f = p \div c /\ g = q \div c
        BY <1>3, <1>4, <1>5, <1>6, <3>1, <3>4, <4>1 DEF SquareFrac
      <4>3. f <= g
        BY <3>1, <4>1, <4>2, QuotientMono
      <4>4. s = t
        BY <1>8, <2>2, <3>4
      <4> QED BY <4>3, <4>4
    <3>5. CASE ~Carries(x) /\ Carries(y)
      <4>1. s = e + e - BIAS + 0 /\ t = e + e - BIAS + 1
        BY <1>8, <2>2, <3>5
      <4> QED BY <4>1, Widths
    <3> QED BY <3>1, <3>2, <3>3, <3>4, <3>5
  <2> QED BY <1>7, <2>1, <2>2
<1>11. CASE s = t /\ f <= g
  BY <1>1, <1>3, <1>4, <1>9, <1>11
<1>12. CASE s < t
  <2>1. PICK n \in Nat : t = s + 1 + n
    <3>1. t - s - 1 \in Nat /\ t = s + 1 + (t - s - 1)
      BY <1>8, <1>12
    <3> QED BY <3>1, Zenon
  <2>2. (s + 1 + n) * h = s * h + h + n * h /\ n * h \in Nat
    BY <1>8
  <2>3. t * h = s * h + h + n * h
    BY <2>1, <2>2
  <2> QED BY <1>1, <1>3, <1>4, <1>9, <2>2, <2>3
<1> QED BY <1>9, <1>10, <1>11, <1>12

(* Squares keep the order, and lose only what is below the normal numbers. *)
LEMMA SquareMono ==
  ASSUME NEW x \in Numbers, NEW y \in Numbers, x.mag < HIDDEN \/ x.mag <= y.mag
  PROVE  /\ Square(x) \in Numbers /\ Square(x).neg = FALSE /\ Whole(Square(x).mag)
         /\ Square(x).mag <= Square(y).mag
<1>1. /\ HIDDEN \in Nat /\ HIDDEN >= 2 /\ Infinity \in Nat /\ HIDDEN <= Infinity
      /\ BIAS \in Nat
  BY Widths
<1>2. ASSUME NEW z \in Numbers
      PROVE  /\ Square(z) \in Numbers /\ Square(z).neg = FALSE /\ Whole(Square(z).mag)
             /\ z.mag < HIDDEN => Square(z).mag = 0
             /\ z.mag = Infinity => Square(z).mag = Infinity
             /\ Square(z).mag \in Mags
  <2>1. z.mag \in Mags /\ z.mag \in Nat /\ z.mag <= Infinity
    BY ValueNat DEF Numbers, Mags
  <2>2. 0 \in Mags /\ Infinity \in Mags /\ Whole(0) /\ Whole(Infinity)
    BY <1>1 DEF Mags, Whole
  <2>3. (z.neg # z.neg) = FALSE
    OBVIOUS
  <2>4. CASE z.mag = 0
    <3>1. Square(z) = Number(FALSE, 0)
      BY <2>3, <2>4 DEF Square, Mul, IsZero
    <3> QED BY <1>1, <2>2, <2>4, <3>1 DEF Number, Numbers
  <2>5. CASE z.mag # 0 /\ z.mag < HIDDEN
    <3>1. PICK h \in Nat, f \in Nat : h = HIDDEN /\ h >= 2 /\ f = Mantissa(z) /\ f < h
      <4>1. /\ Exp(z) \in 0..EXP_MAX /\ ~(Exp(z) >= 1) /\ Frac(z) \in 0..HIDDEN - 1
            /\ Mantissa(z) = IF Exp(z) = 0 THEN Frac(z) ELSE HIDDEN + Frac(z)
            /\ EXP_MAX \in Nat
        BY <1>1, <2>1, <2>5, Fields, Widths
      <4>2. Mantissa(z) \in Nat /\ Mantissa(z) < HIDDEN
        BY <1>1, <4>1
      <4> QED BY <1>1, <4>2, Zenon
    <3>2. Exp(z) = 0
      <4>1. Exp(z) \in 0..EXP_MAX /\ ~(Exp(z) >= 1) /\ EXP_MAX \in Nat
        BY <1>1, <2>1, <2>5, Fields, Widths
      <4> QED BY <4>1
    <3>3. ~(f * f >= 2 * h * h)
      <4>1. f * f <= f * h /\ f * h <= h * h
        BY <3>1, TimesMono
      <4>2. 2 * h * h = h * h + h * h /\ h * h \in Nat /\ f * f \in Nat /\ f * h \in Nat
        OBVIOUS
      <4>3. 1 * h <= h * h
        BY <3>1, TimesMono
      <4> QED BY <3>1, <4>1, <4>2, <4>3
    <3>4. ~IsZero(z) /\ ~IsInf(z)
      BY <1>1, <2>1, <2>5 DEF IsZero, IsInf
    <3>5. Square(z) = InRange(FALSE, 0 + 0 - BIAS, (f * f) \div h)
      BY <2>3, <3>1, <3>2, <3>3, <3>4 DEF Square, Mul
    <3>6. 0 + 0 - BIAS <= 0
      BY <1>1
    <3>7. Square(z) = Number(FALSE, 0)
      BY <3>5, <3>6 DEF InRange
    <3> QED BY <1>1, <2>2, <2>5, <3>7 DEF Number, Numbers
  <2>6. CASE HIDDEN <= z.mag /\ z.mag < Infinity
    <3>1. /\ Square(z).neg = FALSE /\ Square(z).mag = Clamp(SquareUncut(z))
          /\ SquareUncut(z) \in Int
      <4>1. z.mag <= z.mag
        BY <2>1
      <4>2. SquareUncut(z) \in Int
        BY <2>1, <2>6, <4>1, UncutMono
      <4> QED BY <2>1, <2>6, <4>2, NormalSquare
    <3>2. Square(z).mag \in Mags /\ Whole(Square(z).mag)
      BY <3>1, ClampMono
    <3>3. \E n, m : Square(z) = [neg |-> n, mag |-> m]
      BY DEF Square, Mul, InRange, Number
    <3>4. Square(z) \in Numbers
      BY <3>1, <3>2, <3>3 DEF Numbers
    <3> QED BY <1>1, <2>1, <2>6, <3>1, <3>2, <3>4
  <2>7. CASE z.mag = Infinity
    <3>1. IsInf(z) /\ ~IsZero(z)
      BY <1>1, <2>7 DEF IsInf, IsZero
    <3>2. Square(z) = Number(FALSE, Infinity)
      BY <2>3, <3>1 DEF Square, Mul
    <3> QED BY <1>1, <2>2, <2>7, <3>2 DEF Number, Numbers
  <2>8. z.mag = 0 \/ (z.mag # 0 /\ z.mag < HIDDEN) \/ (HIDDEN <= z.mag /\ z.mag < Infinity)
        \/ z.mag = Infinity
    BY <1>1, <2>1
  <2> QED BY <2>4, <2>5, <2>6, <2>7, <2>8, Zenon
<1>3. /\ x.mag \in Mags /\ y.mag \in Mags /\ x.mag \in Nat /\ y.mag \in Nat
      /\ x.mag <= Infinity /\ y.mag <= Infinity
  BY ValueNat DEF Numbers, Mags
<1>4. Square(x).mag <= Square(y).mag
  <2>1. /\ Square(x).mag \in Nat /\ Square(y).mag \in Nat
        /\ Square(x).mag <= Infinity
    <3>1. Square(x).mag \in Mags /\ Square(y).mag \in Mags
      BY <1>2, Zenon
    <3> QED BY <1>1, <3>1 DEF Mags
  <2>2. CASE x.mag < HIDDEN
    <3>1. Square(x).mag = 0
      BY <1>2, <2>2, Zenon
    <3> QED BY <2>1, <3>1
  <2>3. CASE y.mag = Infinity
    <3>1. Square(y).mag = Infinity
      BY <1>2, <2>3, Zenon
    <3> QED BY <2>1, <3>1
  <2>4. CASE HIDDEN <= x.mag /\ x.mag <= y.mag /\ y.mag < Infinity
    <3>1. /\ SquareUncut(x) \in Int /\ SquareUncut(y) \in Int
          /\ SquareUncut(x) <= SquareUncut(y)
      BY <1>3, <2>4, UncutMono
    <3>2. x.mag < Infinity /\ HIDDEN <= y.mag
      BY <1>1, <1>3, <2>4
    <3>3. /\ Square(x).mag = Clamp(SquareUncut(x))
          /\ Square(y).mag = Clamp(SquareUncut(y))
      BY <1>3, <2>4, <3>2, NormalSquare
    <3> QED BY <3>1, <3>3, ClampMono
  <2> QED BY <1>1, <1>3, <2>2, <2>3, <2>4
<1> QED BY <1>2, <1>4

-----------------------------------------------------------------------------
(* The box and its points. *)

(* Sums are numbers.                                                       *)
LEMMA AddNumbers ==
  ASSUME NEW a \in Numbers, NEW b \in Numbers,
         a.neg = b.neg \/ (a.mag < Infinity /\ b.mag < Infinity)
  PROVE  /\ Add(a, b) \in Numbers
         /\ a.neg = FALSE /\ b.neg = FALSE => Add(a, b).neg = FALSE
         /\ Whole(a.mag) /\ Whole(b.mag) => Whole(Add(a, b).mag)
<1>1. a.mag \in Mags /\ b.mag \in Mags /\ a.neg \in BOOLEAN /\ b.neg \in BOOLEAN
  BY NegatedIs
<1> DEFINE r == Add(a, b)
<1>2. /\ r.mag \in Mags
      /\ r.neg = a.neg \/ r.neg = b.neg \/ r.neg = FALSE
      /\ Whole(a.mag) /\ Whole(b.mag) => Whole(r.mag)
  BY <1>1, AddRounds DEF Rounded
<1>3. \E n, m : r = [neg |-> n, mag |-> m]
  BY DEF Add, Normalized, Number, Zero, Numbers
<1> HIDE DEF r
<1>4. r.neg \in BOOLEAN
  BY <1>1, <1>2
<1>5. r \in Numbers
  BY <1>2, <1>3, <1>4 DEF Numbers
<1>6. a.neg = FALSE /\ b.neg = FALSE => r.neg = FALSE
  BY <1>2
<1> QED BY <1>2, <1>5, <1>6 DEF r

(* What the assumption says of the coordinates.                            *)
LEMMA Inputs ==
  /\ \A c \in Coordinates : c \in Numbers /\ c.neg = FALSE /\ c.mag < Infinity
  /\ \A q \in Queries : q \in Numbers /\ q.mag < Infinity
<1>1. Infinity \in Nat
  BY Widths
<1>2. \A m \in 0..Infinity - 1 : m \in Mags /\ m < Infinity
  BY <1>1 DEF Mags
<1>3. ASSUME NEW c \in Coordinates
      PROVE  c \in Numbers /\ c.neg = FALSE /\ c.mag < Infinity
  <2>1. c \in [neg : {FALSE}, mag : 0..Infinity - 1]
    BY CoordinatesAssumption
  <2>2. c.neg = FALSE /\ c.mag \in 0..Infinity - 1 /\ c = [neg |-> c.neg, mag |-> c.mag]
    BY <2>1
  <2> QED BY <1>2, <2>2 DEF Numbers
<1>4. ASSUME NEW q \in Queries PROVE q \in Numbers /\ q.mag < Infinity
  <2>1. q \in [neg : BOOLEAN, mag : 0..Infinity - 1]
    BY CoordinatesAssumption
  <2>2. q.neg \in BOOLEAN /\ q.mag \in 0..Infinity - 1 /\ q = [neg |-> q.neg, mag |-> q.mag]
    BY <2>1
  <2> QED BY <1>2, <2>2 DEF Numbers
<1> QED BY <1>3, <1>4

(* Differences of finite numbers are numbers.                              *)
LEMMA SubNumbers ==
  ASSUME NEW a \in Numbers, NEW b \in Numbers, a.mag < Infinity, b.mag < Infinity
  PROVE  Sub(a, b) \in Numbers
BY NegatedIs, AddNumbers DEF Sub

(* A difference, rounded. *)
LEMMA SubRounds ==
  ASSUME NEW a \in Numbers, NEW b \in Numbers, a.mag < Infinity, b.mag < Infinity,
         a.neg = b.neg, b.mag <= a.mag
  PROVE  Rounded(Sub(a, b).mag, DifferenceOf(a.mag, b.mag))
<1> DEFINE c == Negated(b)
<1>1. /\ c \in Numbers /\ c.mag = b.mag /\ a.neg # c.neg
      /\ a.mag \in Mags /\ c.mag \in Mags /\ b.mag \in Mags
  BY NegatedIs
<1> HIDE DEF c
<1>2. Larger(a, c) = a.mag /\ Smaller(a, c) = b.mag
  BY <1>1, ValueNat DEF Larger, Smaller, Greater
<1>3. Rounded(Add(a, c).mag, DifferenceOf(a.mag, b.mag))
  BY <1>1, <1>2, AddRounds
<1> QED BY <1>3 DEF Sub, c

(* No point of the box is nearer than the gap, after rounding: the gap is  *)
(* below the normal numbers or not above the difference.                   *)
LEMMA GapBelow ==
  ASSUME NEW q \in Queries, NEW lo \in Coordinates, NEW hi \in Coordinates,
         NEW x \in Coordinates, LessEq(lo, x), LessEq(x, hi)
  PROVE  /\ BoxGap(q, lo, hi) \in Numbers
         /\ BoxGap(q, lo, hi).mag < HIDDEN \/ BoxGap(q, lo, hi).mag <= Sub(x, q).mag
<1>1. /\ q \in Numbers /\ q.mag < Infinity
      /\ lo \in Numbers /\ lo.neg = FALSE /\ lo.mag < Infinity
      /\ hi \in Numbers /\ hi.neg = FALSE /\ hi.mag < Infinity
      /\ x \in Numbers /\ x.neg = FALSE /\ x.mag < Infinity
  BY Inputs
<1>2. /\ q.mag \in Mags /\ lo.mag \in Mags /\ hi.mag \in Mags /\ x.mag \in Mags
      /\ q.mag \in Nat /\ lo.mag \in Nat /\ hi.mag \in Nat /\ x.mag \in Nat
      /\ q.neg \in BOOLEAN /\ lo.mag <= x.mag /\ x.mag <= hi.mag
  BY <1>1, NegatedIs, ValueNat DEF LessEq
<1>3. /\ Sub(lo, q) \in Numbers /\ Sub(q, hi) \in Numbers /\ Sub(x, q) \in Numbers
  BY <1>1, SubNumbers
<1>4. CASE q.neg = TRUE
  <2>1. Below(q, lo)
    BY <1>1, <1>4 DEF Below
  <2>2. BoxGap(q, lo, hi) = Sub(lo, q)
    BY <2>1 DEF BoxGap
  <2>3. Negated(q) \in Numbers /\ Negated(q).neg = FALSE /\ Negated(q).mag = q.mag
    BY <1>1, <1>4, NegatedIs
  <2>4. Sub(lo, q).mag < HIDDEN \/ Sub(lo, q).mag <= Sub(x, q).mag
    <3>1. PICK p \in Numbers : p = Negated(q) /\ p.neg = FALSE /\ p.mag \in Nat
      BY <1>2, <2>3
    <3>2. lo.neg = p.neg /\ x.neg = p.neg
      BY <1>1, <3>1
    <3>3. p.mag <= p.mag
      BY <3>1
    <3>4. Add(lo, p).mag < HIDDEN \/ Add(lo, p).mag <= Add(x, p).mag
      BY <1>1, <1>2, <3>2, <3>3, AddMono
    <3> QED BY <3>1, <3>4 DEF Sub
  <2> QED BY <1>3, <2>2, <2>4
<1>5. CASE q.neg = FALSE /\ q.mag < lo.mag
  <2>1. BoxGap(q, lo, hi) = Sub(lo, q)
    BY <1>1, <1>5 DEF BoxGap, Below
  <2>2. q.mag <= lo.mag /\ q.mag <= x.mag /\ q.neg = lo.neg /\ q.neg = x.neg
    <3>1. q.mag <= lo.mag /\ q.mag <= x.mag
      BY <1>2, <1>5
    <3> QED BY <1>1, <1>5, <3>1
  <2>3. PICK v \in Nat, w \in Nat :
          v = DifferenceOf(lo.mag, q.mag) /\ w = DifferenceOf(x.mag, q.mag) /\ v <= w
    BY <1>2, <2>2, SumNat, DifferenceMono
  <2>4. Rounded(Sub(lo, q).mag, v) /\ Rounded(Sub(x, q).mag, w)
    BY <1>1, <2>2, <2>3, SubRounds
  <2> QED BY <1>3, <2>1, <2>3, <2>4, RoundedMono
<1>6. CASE q.neg = FALSE /\ ~(q.mag < lo.mag) /\ q.mag > hi.mag
  <2>1. BoxGap(q, lo, hi) = Sub(q, hi)
    BY <1>1, <1>6 DEF BoxGap, Below, Above
  <2>2. hi.mag <= q.mag /\ x.mag <= q.mag /\ q.neg = hi.neg /\ q.neg = x.neg
    <3>1. hi.mag <= q.mag /\ x.mag <= q.mag
      BY <1>2, <1>6
    <3> QED BY <1>1, <1>6, <3>1
  <2>3. PICK v \in Nat, w \in Nat :
          v = DifferenceOf(q.mag, hi.mag) /\ w = DifferenceOf(q.mag, x.mag) /\ v <= w
    BY <1>2, <2>2, SumNat, DifferenceMono
  <2>4. Rounded(Sub(q, hi).mag, v) /\ Rounded(Sub(q, x).mag, w)
    BY <1>1, <2>2, <2>3, SubRounds
  <2>5. Sub(q, x).mag = Sub(x, q).mag
    BY <1>1, SubFlips
  <2> QED BY <1>3, <2>1, <2>3, <2>4, <2>5, RoundedMono
<1>7. CASE q.neg = FALSE /\ ~(q.mag < lo.mag) /\ ~(q.mag > hi.mag)
  <2>1. BoxGap(q, lo, hi) = Zero
    BY <1>1, <1>7 DEF BoxGap, Below, Above
  <2>2. Zero \in Numbers /\ Zero.mag < HIDDEN
    BY ValueNat, Widths DEF Zero, Number, Numbers
  <2> QED BY <2>1, <2>2
<1> QED BY <1>2, <1>4, <1>5, <1>6, <1>7

(* What an axis gives: the bound is not above the distance, and the two    *)
(* pipes agree on it.                                                      *)
Plain(x) == x \in Numbers /\ x.neg = FALSE /\ Whole(x.mag)

Bounded(r) ==
  /\ Plain(r.dlb) /\ Plain(r.pe) /\ r.cd = r.pe /\ r.dlb.mag <= r.pe.mag

(* Without a sign the magnitude is all there is.                           *)
LEMMA PlainEqual ==
  ASSUME NEW x, NEW y, Plain(x), Plain(y), x.mag = y.mag
  PROVE  x = y
<1>1. x \in Numbers /\ y \in Numbers /\ x.neg = y.neg
  BY DEF Plain
<1>2. x = [neg |-> x.neg, mag |-> x.mag] /\ y = [neg |-> y.neg, mag |-> y.mag]
  BY <1>1 DEF Numbers
<1> QED BY <1>1, <1>2, Zenon

(* On each axis the box's square is not above the point's, the same in     *)
(* both pipes.                                                             *)
LEMMA AxisBounded == \A r \in AxisResults : Bounded(r)
<1> TAKE r \in AxisResults
<1>1. PICK lo \in Coordinates, hi \in Coordinates, q \in Queries, x \in Coordinates :
        LessEq(lo, x) /\ LessEq(x, hi) /\ r = Axis(q, lo, hi, x)
  BY DEF AxisResults
<1>2. /\ q \in Numbers /\ x \in Numbers /\ q.mag < Infinity /\ x.mag < Infinity
  BY Inputs
<1> DEFINE g == BoxGap(q, lo, hi)
           a == Sub(x, q)
           b == Sub(q, x)
<1>3. /\ g \in Numbers /\ a \in Numbers /\ b \in Numbers /\ b.mag = a.mag
      /\ g.mag < HIDDEN \/ g.mag <= a.mag
  BY <1>1, <1>2, GapBelow, SubNumbers, SubFlips
<1>4. r = [dlb |-> Square(g), cd |-> Square(b), pe |-> Square(a)]
  BY <1>1 DEF Axis
<1> HIDE DEF g, a, b
<1>5. a.mag \in Nat /\ b.mag \in Nat
  BY <1>3, ValueNat, NegatedIs
<1>6. Plain(Square(g)) /\ Plain(Square(a)) /\ Square(g).mag <= Square(a).mag
  <2>1. Plain(Square(g)) /\ Square(g).mag <= Square(a).mag
    BY <1>3, SquareMono DEF Plain
  <2>2. a.mag <= a.mag
    BY <1>5
  <2>3. Plain(Square(a))
    BY <1>3, <2>2, SquareMono DEF Plain
  <2> QED BY <2>1, <2>3
<1>7. Plain(Square(b)) /\ Square(b).mag = Square(a).mag
  <2>1. a.mag <= b.mag /\ b.mag <= a.mag
    BY <1>3, <1>5
  <2>2. /\ Plain(Square(b)) /\ Square(a).mag <= Square(b).mag
        /\ Square(b).mag <= Square(a).mag
    BY <1>3, <2>1, SquareMono DEF Plain
  <2>3. Square(a).mag \in Nat /\ Square(b).mag \in Nat
    BY <1>6, <2>2, ValueNat, NegatedIs DEF Plain
  <2> QED BY <2>2, <2>3
<1>8. Square(b) = Square(a)
  BY <1>6, <1>7, PlainEqual
<1> QED BY <1>4, <1>6, <1>8 DEF Bounded

-----------------------------------------------------------------------------
(* The pipes. *)

(* Whatever the axes were, the bound is not above the distance pe will     *)
(* find, and the distance bucket_cd has found is that one.                 *)
BoundInv == Bounded([dlb |-> dlb, cd |-> cdDist, pe |-> peDist])

(* The invariant, spelled out.                                             *)
LEMMA BoundIs ==
  BoundInv <=> /\ Plain(dlb) /\ Plain(peDist)
               /\ cdDist = peDist /\ dlb.mag <= peDist.mag
BY DEF BoundInv, Bounded

(* It holds before the first axis.                                         *)
LEMMA ZeroPlain == Plain(Zero) /\ Zero.mag <= Zero.mag
<1>1. 0 \in Mags
  BY ValueNat
<1> QED BY <1>1 DEF Plain, Zero, Number, Numbers, Whole

(* Sums of distances are distances, ...                                    *)
LEMMA PlusPlain ==
  ASSUME NEW s, NEW t, Plain(s), Plain(t)
  PROVE  Plain(Plus(s, t))
BY AddNumbers DEF Plus, Plain

(* ... and keep the order: the flushed ones cannot be below a normal       *)
(* number.                                                                 *)
LEMMA PlusMono ==
  ASSUME NEW s, NEW t, NEW u, NEW w, Plain(s), Plain(t), Plain(u), Plain(w),
         s.mag <= u.mag, t.mag <= w.mag
  PROVE  Plus(s, t).mag <= Plus(u, w).mag
<1>1. CASE axes = 0
  BY <1>1 DEF Plus
<1>2. CASE axes # 0
  <2>1. Plus(s, t) = Add(s, t) /\ Plus(u, w) = Add(u, w)
    BY <1>2 DEF Plus
  <2>2. Add(s, t).mag < HIDDEN \/ Add(s, t).mag <= Add(u, w).mag
    BY AddMono DEF Plain
  <2>3. Plain(Add(s, t)) /\ Plain(Add(u, w))
    BY <2>1, PlusPlain
  <2>4. Add(s, t).mag \in Nat /\ Add(u, w).mag \in Nat /\ Whole(Add(s, t).mag)
        /\ HIDDEN \in Nat
    BY <2>3, NegatedIs, ValueNat, Widths DEF Plain
  <2> QED BY <2>1, <2>2, <2>4 DEF Whole
<1> QED BY <1>1, <1>2

(* Every step keeps the invariant.                                         *)
LEMMA BoundNext ==
  ASSUME BoundInv, [Next]_vars
  PROVE  BoundInv'
<1>1. /\ Plain(dlb) /\ Plain(peDist) /\ cdDist = peDist /\ dlb.mag <= peDist.mag
  BY BoundIs
<1>2. CASE NextAxis
  <2>1. PICK r \in AxisResults :
          dlb' = Plus(dlb, r.dlb) /\ cdDist' = Plus(cdDist, r.cd) /\ peDist' = Plus(peDist, r.pe)
    BY <1>2 DEF NextAxis
  <2>2. Plain(r.dlb) /\ Plain(r.pe) /\ r.cd = r.pe /\ r.dlb.mag <= r.pe.mag
    BY AxisBounded DEF Bounded
  <2>3. Plain(Plus(dlb, r.dlb)) /\ Plain(Plus(peDist, r.pe))
    BY <1>1, <2>2, PlusPlain
  <2>4. Plus(dlb, r.dlb).mag <= Plus(peDist, r.pe).mag
    BY <1>1, <2>2, PlusMono
  <2>5. Plain(dlb') /\ Plain(peDist') /\ cdDist' = peDist' /\ dlb'.mag <= peDist'.mag
    BY <1>1, <2>1, <2>2, <2>3, <2>4
  <2> QED BY <2>5 DEF BoundInv, Bounded
<1>3. CASE Decide \/ UNCHANGED vars
  <2>1. dlb' = dlb /\ cdDist' = cdDist /\ peDist' = peDist
    BY <1>3 DEF Decide, vars
  <2> QED BY <2>1 DEF BoundInv
<1> QED BY <1>2, <1>3 DEF Next

(* With it the decision is exact: the distance would be kept.              *)
LEMMA DecideExact ==
  ASSUME BoundInv, Decide
  PROVE  PruningExact'
<1>1. /\ Plain(dlb) /\ Plain(peDist) /\ cdDist = peDist /\ dlb.mag <= peDist.mag
  BY BoundIs
<1>2. PICK isFar \in BOOLEAN, fdist \in Distances, stored \in Distances :
        /\ IF isFar THEN stored = fdist ELSE LessEq(stored, fdist)
        /\ \E d \in IF isFar THEN {cdDist} ELSE {Zero, Number(FALSE, Infinity)} :
             verdict' = <<[action |-> Action(fdist, d), isFar |-> isFar,
                           stored |-> stored, kept |-> Kept(stored)]>>
  BY DEF Decide
<1>3. PICK d : /\ isFar => d = cdDist
               /\ verdict' = <<[action |-> Action(fdist, d), isFar |-> isFar,
                                stored |-> stored, kept |-> Kept(stored)]>>
  BY <1>2
<1>4. /\ fdist.mag \in Nat /\ stored.mag \in Nat /\ dlb.mag \in Nat /\ peDist.mag \in Nat
      /\ stored.mag <= fdist.mag
  <2>1. \A m \in 0..Infinity : Number(FALSE, m).mag \in Nat
    BY Widths DEF Number
  <2>2. fdist.mag \in Nat /\ stored.mag \in Nat
    BY <2>1 DEF Distances
  <2>3. dlb.mag \in Nat /\ peDist.mag \in Nat
    BY <1>1, NegatedIs, ValueNat DEF Plain
  <2> QED BY <1>2, <2>2, <2>3 DEF LessEq
<1>5. Action(fdist, d) = "skip" => Kept(stored) = stored
  BY <1>1, <1>4 DEF Action, Less, Kept
<1>6. isFar /\ Action(fdist, d) = "defer" => Kept(stored) = stored
  BY <1>1, <1>2, <1>3, <1>4 DEF Action, Less, Kept
<1> DEFINE v == [action |-> Action(fdist, d), isFar |-> isFar,
                 stored |-> stored, kept |-> Kept(stored)]
<1>7. v.action = "skip" \/ (v.action = "defer" /\ v.isFar) => v.kept.mag = v.stored.mag
  BY <1>5, <1>6
<1> HIDE DEF v
<1>8. verdict' = <<v>>
  BY <1>3 DEF v
<1> QED BY <1>7, <1>8 DEF PruningExact

(* In every reachable state the bound to the box is not above the distance *)
(* of the point, and bucket_cd and pe have the same distance.              *)
THEOREM BoundKept == Spec => []BoundInv
<1>1. Init => BoundInv
  BY ZeroPlain, BoundIs DEF Init
<1>2. BoundInv /\ [Next]_vars => BoundInv'
  BY BoundNext
<1> QED BY <1>1, <1>2, PTL DEF Spec

(* A decision of bucket_ib not to recompute a bucket is exact: no distance *)
(* of a skipped bucket, and not that of the far point of a bucket whose    *)
(* sample is deferred, would be changed by recomputing it.  For every      *)
(* width of exponent and fraction, and so for the 8 and 23 bits of the RTL *)
(* that no model checker enumerates.                                       *)
THEOREM PruningIsExact == Spec => []PruningExact
<1>1. Init => PruningExact
  BY DEF Init, PruningExact
<1>2. BoundInv /\ PruningExact /\ [Next]_vars => PruningExact'
  <2> SUFFICES ASSUME BoundInv, PruningExact, [Next]_vars PROVE PruningExact'
    OBVIOUS
  <2>1. CASE Decide
    BY <2>1, DecideExact
  <2>2. CASE NextAxis \/ UNCHANGED vars
    BY <2>2 DEF NextAxis, vars, PruningExact
  <2> QED BY <2>1, <2>2 DEF Next
<1> QED BY <1>1, <1>2, BoundKept, PTL DEF Spec
=============================================================================
