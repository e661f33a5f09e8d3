--------------------------- MODULE StockhamProofs ---------------------------
(***************************************************************************)
(* The Stockham kernel and the passes made of it, for every length, every  *)
(* schedule of radices and any number of lines.                            *)
(*                                                                         *)
(* First, what the mappings of StockhamIo promise: a pass reads each place *)
(* once and stores each place once, and the passes of a split transform    *)
(* fit together.  All of it is arithmetic of mixed-radix digits.           *)
(*                                                                         *)
(* Then, what the numbers are: the stages compute the discrete Fourier     *)
(* transform, and so do two and three uploads and a Cooley-Tukey node      *)
(* whose children do, and a transform of prime length that multiplies by   *)
(* the roots directly.  That is the algebra of the unit circle and of      *)
(* finite sums, and one induction over the stages.                         *)
(***************************************************************************)
EXTENDS FftPasses, InductionTheorems, FunctionTheorems, TLAPS

Positive == Nat \ {0}

\* The places of n elements.
Points(n) == 0 .. n - 1

-----------------------------------------------------------------------------
(* Digits.                                                                 *)

LEMMA DivMod ==
    ASSUME NEW n \in Nat, NEW m \in Positive
    PROVE  n \div m \in Nat /\ n % m \in Points(m) /\ n = (n \div m) * m + (n % m)
  BY DEF Positive, Points

LEMMA Times ==
    ASSUME NEW q \in Nat, NEW m \in Nat PROVE q * m \in Nat
  OBVIOUS

LEMMA DigitLess ==
    ASSUME NEW m \in Positive, NEW p \in Nat, NEW q \in Nat, p < q
    PROVE  p * m + m <= q * m
<1>1. (q - p - 1) * m >= 0
  BY DEF Positive, Points
<1>2. (q - p - 1) * m = q * m - p * m - m
  BY DEF Positive, Points
<1> QED
  BY <1>1, <1>2 DEF Positive, Points

\* Digits are unique.
LEMMA Digits ==
    ASSUME NEW m \in Positive, NEW p \in Nat, NEW q \in Nat,
           NEW r \in Points(m), NEW s \in Points(m), p * m + r = q * m + s
    PROVE  p = q /\ r = s
<1>1. p * m \in Nat /\ q * m \in Nat
  BY Times DEF Positive, Points
<1>2. ~(p < q)
  BY <1>1, DigitLess DEF Positive, Points
<1>3. ~(q < p)
  BY <1>1, DigitLess DEF Positive, Points
<1> QED
  BY <1>1, <1>2, <1>3 DEF Positive, Points

\* Division finds the digits.
LEMMA Split ==
    ASSUME NEW m \in Positive, NEW q \in Nat, NEW r \in Points(m)
    PROVE  q * m + r \in Nat /\ (q * m + r) \div m = q /\ (q * m + r) % m = r
<1>1. q * m + r \in Nat
  BY Times DEF Positive, Points
<1> DEFINE n == q * m + r
<1>2. n \div m \in Nat /\ n % m \in Points(m) /\ n = (n \div m) * m + (n % m)
  BY <1>1, DivMod
<1>3. n \div m = q /\ n % m = r
  <2> HIDE DEF n
  <2>1. n = q * m + r
    BY DEF n
  <2> QED
    BY <1>2, <2>1, Digits
<1> QED
  BY <1>1, <1>3


LEMMA JoinBelow ==
    ASSUME NEW m \in Positive, NEW n \in Nat, NEW q \in Points(n), NEW r \in Points(m)
    PROVE  q * m + r \in Points(n * m)
<1>1. q * m + m <= n * m
  BY DigitLess DEF Positive, Points
<1>2. q * m \in Nat /\ n * m \in Nat
  BY Times DEF Positive, Points
<1> QED
  BY <1>1, <1>2 DEF Positive, Points

LEMMA SplitBelow ==
    ASSUME NEW m \in Positive, NEW n \in Nat, NEW e \in Points(n * m)
    PROVE  e \div m \in Points(n) /\ e % m \in Points(m) /\ e = (e \div m) * m + (e % m)
<1>1. n * m \in Nat /\ e \in Nat /\ e < n * m
  BY Times DEF Positive, Points
<1> DEFINE q == e \div m
<1>2. q \in Nat /\ e % m \in Points(m) /\ e = q * m + (e % m)
  BY <1>1, DivMod
<1>3. q < n
  <2> HIDE DEF q
  <2>1. ASSUME n <= q PROVE FALSE
    <3>1. (q - n) * m >= 0
      BY <1>2, <2>1 DEF Positive
    <3>2. (q - n) * m = q * m - n * m
      BY <1>2 DEF Positive
    <3>3. q * m \in Nat
      BY <1>2, Times DEF Positive
    <3> QED
      BY <1>1, <1>2, <3>1, <3>2, <3>3 DEF Points
  <2> QED
    BY <1>2, <2>1
<1> QED
  BY <1>2, <1>3 DEF Points

-----------------------------------------------------------------------------
(* The arrangements that the mappings are made of.                         *)

\* Elements in order.
LEMMA PlainBijection ==
    ASSUME NEW len \in Positive, NEW n \in Nat
    PROVE  [p \in Points(n) \X Points(len) |-> p[1] * len + p[2]]
             \in Bijection(Points(n) \X Points(len), Points(n * len))
<1> DEFINE S == Points(n) \X Points(len)
           f == [p \in S |-> p[1] * len + p[2]]
<1>1. f \in [S -> Points(n * len)]
  BY JoinBelow
<1>2. ASSUME NEW p \in S, NEW q \in S, f[p] = f[q] PROVE p = q
  <2>1. p[1] \in Nat /\ q[1] \in Nat /\ p[2] \in Points(len) /\ q[2] \in Points(len)
    BY DEF Points
  <2>2. p[1] * len + p[2] = q[1] * len + q[2]
    BY <1>2
  <2>3. p[1] = q[1] /\ p[2] = q[2]
    BY <2>1, <2>2, Digits
  <2> QED
    BY <2>3
<1>3. ASSUME NEW e \in Points(n * len) PROVE \E p \in S : f[p] = e
  <2>1. <<e \div len, e % len>> \in S /\ e = (e \div len) * len + (e % len)
    BY SplitBelow
  <2> QED
    BY <2>1
<1> QED
  BY <1>1, <1>2, <1>3, Fun_IsBij

\* Columns of s elements: transform number batch is column batch % s of its line.
LEMMA ColumnBijection ==
    ASSUME NEW len \in Positive, NEW s \in Positive, NEW n \in Nat
    PROVE  [p \in Points(n * s) \X Points(len) |->
               ((p[1] \div s) * len + p[2]) * s + (p[1] % s)]
             \in Bijection(Points(n * s) \X Points(len), Points(n * s * len))
<1> DEFINE S == Points(n * s) \X Points(len)
           f == [p \in S |-> ((p[1] \div s) * len + p[2]) * s + (p[1] % s)]
<1>0. n * len \in Nat /\ n * s * len = (n * len) * s
  BY Times DEF Positive
<1>1. ASSUME NEW p \in S
      PROVE  /\ p[1] \div s \in Points(n) /\ p[1] % s \in Points(s) /\ p[2] \in Points(len)
             /\ p[1] = (p[1] \div s) * s + (p[1] % s)
             /\ (p[1] \div s) * len + p[2] \in Points(n * len)
             /\ f[p] \in Points(n * s * len)
  <2>1. p[1] \in Points(n * s) /\ p[2] \in Points(len)
    OBVIOUS
  <2>2. /\ p[1] \div s \in Points(n) /\ p[1] % s \in Points(s)
        /\ p[1] = (p[1] \div s) * s + (p[1] % s)
    BY <2>1, SplitBelow
  <2>3. (p[1] \div s) * len + p[2] \in Points(n * len)
    BY <2>1, <2>2, JoinBelow
  <2>4. f[p] \in Points((n * len) * s)
    BY <1>0, <2>2, <2>3, JoinBelow
  <2> QED
    BY <1>0, <2>1, <2>2, <2>3, <2>4
<1>2. ASSUME NEW p \in S, NEW q \in S, f[p] = f[q] PROVE p = q
  <2>1. /\ (p[1] \div s) * len + p[2] = (q[1] \div s) * len + q[2]
        /\ p[1] % s = q[1] % s
    BY <1>1, <1>2, Digits DEF Points
  <2>2. p[1] \div s = q[1] \div s /\ p[2] = q[2]
    BY <1>1, <2>1, Digits DEF Points
  <2>3. p[1] = q[1]
    BY <1>1, <2>1, <2>2
  <2> QED
    BY <2>2, <2>3
<1>3. ASSUME NEW e \in Points(n * s * len) PROVE \E p \in S : f[p] = e
  <2> DEFINE r == e \div s
             b == (r \div len) * s + (e % s)
  <2>1. r \in Points(n * len) /\ e % s \in Points(s) /\ e = r * s + (e % s)
    BY <1>0, SplitBelow
  <2>2. r \div len \in Points(n) /\ r % len \in Points(len)
        /\ r = (r \div len) * len + (r % len)
    BY <2>1, SplitBelow
  <2>3. b \in Points(n * s)
    BY <2>1, <2>2, JoinBelow
  <2>4. b \div s = r \div len /\ b % s = e % s
    BY <2>1, <2>2, Split DEF Points
  <2> HIDE DEF r, b
  <2>5. f[<<b, r % len>>] = e
    BY <2>1, <2>2, <2>3, <2>4
  <2> QED
    BY <2>2, <2>3, <2>5
<1> QED
  BY <1>1, <1>2, <1>3, Fun_IsBij

\* The digits of a number below n * a * b, its last two exchanged.
Swap(x, a, b) == (((x \div a) \div b) * a + (x % a)) * b + ((x \div a) % b)

LEMMA SwapDigits ==
    ASSUME NEW a \in Positive, NEW b \in Positive, NEW q \in Nat,
           NEW r \in Points(b), NEW s \in Points(a)
    PROVE  Swap((q * b + r) * a + s, a, b) = (q * a + s) * b + r
<1> DEFINE y == q * b + r
           x == y * a + s
<1>1. y \in Nat /\ y \div b = q /\ y % b = r
  BY Split
<1>2. x \div a = y /\ x % a = s
  <2> HIDE DEF y
  <2> QED
    BY <1>1, Split
<1> HIDE DEF x
<1>3. Swap(x, a, b) = (((x \div a) \div b) * a + (x % a)) * b + ((x \div a) % b)
  BY DEF Swap
<1>4. Swap(x, a, b) = (q * a + s) * b + r
  BY <1>1, <1>2, <1>3
<1> QED
  BY <1>4 DEF x

LEMMA ThreeDigits ==
    ASSUME NEW a \in Positive, NEW b \in Positive, NEW n \in Nat,
           NEW x \in Points(n * (a * b))
    PROVE  \E q \in Points(n), r \in Points(b), s \in Points(a) : x = (q * b + r) * a + s
<1>1. n * b \in Nat /\ n * (a * b) = (n * b) * a
  BY Times DEF Positive
<1> DEFINE y == x \div a
<1>2. y \in Points(n * b) /\ x % a \in Points(a) /\ x = y * a + (x % a)
  BY <1>1, SplitBelow
<1>3. y \div b \in Points(n) /\ y % b \in Points(b) /\ y = (y \div b) * b + (y % b)
  BY <1>2, SplitBelow
<1> HIDE DEF y
<1> QED
  BY <1>2, <1>3

LEMMA SwapBijection ==
    ASSUME NEW a \in Positive, NEW b \in Positive, NEW n \in Nat
    PROVE  [x \in Points(n * (a * b)) |-> Swap(x, a, b)]
             \in Bijection(Points(n * (a * b)), Points(n * (a * b)))
<1> DEFINE S == Points(n * (a * b))
           f == [x \in S |-> Swap(x, a, b)]
<1>1. n * b \in Nat /\ n * a \in Nat /\ n * (a * b) = (n * b) * a
      /\ n * (a * b) = (n * a) * b /\ n * (b * a) = n * (a * b)
  BY Times DEF Positive
<1>2. ASSUME NEW q \in Points(n), NEW r \in Points(b), NEW s \in Points(a)
      PROVE  (q * a + s) * b + r \in S /\ (q * b + r) * a + s \in S
  <2>1. q * a + s \in Points(n * a) /\ q * b + r \in Points(n * b)
    BY JoinBelow
  <2> QED
    BY <1>1, <2>1, JoinBelow
<1>3. ASSUME NEW x \in S
      PROVE  \E q \in Points(n), r \in Points(b), s \in Points(a) :
               x = (q * b + r) * a + s /\ f[x] = (q * a + s) * b + r
  <2>1. PICK q \in Points(n), r \in Points(b), s \in Points(a) : x = (q * b + r) * a + s
    BY ThreeDigits
  <2>2. q \in Nat
    BY DEF Points
  <2>3. Swap((q * b + r) * a + s, a, b) = (q * a + s) * b + r
    BY <2>2, SwapDigits
  <2>4. f[x] = (q * a + s) * b + r
    BY <2>1, <2>3
  <2> QED
    BY <2>1, <2>4
<1>4. f \in [S -> S]
  <2>1. \A x \in S : f[x] \in S
    BY <1>2, <1>3
  <2> QED
    BY <2>1
<1>5. ASSUME NEW x \in S, NEW y \in S, f[x] = f[y] PROVE x = y
  <2> HIDE DEF f, S
  <2>1. PICK q \in Points(n), r \in Points(b), s \in Points(a) :
          x = (q * b + r) * a + s /\ f[x] = (q * a + s) * b + r
    BY <1>3
  <2>2. PICK u \in Points(n), v \in Points(b), w \in Points(a) :
          y = (u * b + v) * a + w /\ f[y] = (u * a + w) * b + v
    BY <1>3
  <2>3. q \in Nat /\ u \in Nat /\ q * a + s \in Nat /\ u * a + w \in Nat
    <3>1. q * a + s \in Points(n * a) /\ u * a + w \in Points(n * a)
      BY JoinBelow
    <3> QED
      BY <3>1 DEF Points
  <2>4. q * a + s = u * a + w /\ r = v
    BY <1>5, <2>1, <2>2, <2>3, Digits
  <2>5. q = u /\ s = w
    BY <2>3, <2>4, Digits
  <2> QED
    BY <2>1, <2>2, <2>4, <2>5
<1>6. ASSUME NEW e \in S PROVE \E x \in S : f[x] = e
  <2>1. PICK q \in Points(n), s \in Points(a), r \in Points(b) : e = (q * a + s) * b + r
    BY <1>1, ThreeDigits
  <2> DEFINE x == (q * b + r) * a + s
  <2>2. x \in S /\ q \in Nat
    BY <1>2 DEF Points
  <2>3. Swap(x, a, b) = e
    BY <2>1, <2>2, SwapDigits
  <2> QED
    BY <2>2, <2>3
<1> QED
  BY <1>4, <1>5, <1>6, Fun_IsBij

\* A bijection of the transforms is one of their elements.
LEMMA OnFirst ==
    ASSUME NEW S, NEW T, NEW f \in Bijection(S, S)
    PROVE  [p \in S \X T |-> <<f[p[1]], p[2]>>] \in Bijection(S \X T, S \X T)
<1> DEFINE g == [p \in S \X T |-> <<f[p[1]], p[2]>>]
<1>1. /\ f \in [S -> S]
      /\ \A x, y \in S : f[x] = f[y] => x = y
      /\ \A e \in S : \E x \in S : f[x] = e
  BY DEF Bijection, Injection, Surjection, IsInjective
<1>2. g \in [S \X T -> S \X T]
  BY <1>1
<1>3. ASSUME NEW p \in S \X T, NEW q \in S \X T, g[p] = g[q] PROVE p = q
  <2>1. f[p[1]] = f[q[1]] /\ p[2] = q[2]
    BY <1>3
  <2> QED
    BY <1>1, <2>1
<1>4. ASSUME NEW e \in S \X T PROVE \E p \in S \X T : g[p] = e
  <2>1. PICK x \in S : f[x] = e[1]
    BY <1>1
  <2>2. <<x, e[2]>> \in S \X T /\ g[<<x, e[2]>>] = e
    BY <2>1
  <2> QED
    BY <2>2
<1> QED
  BY <1>2, <1>3, <1>4, Fun_IsBij

-----------------------------------------------------------------------------
(* The places that a pass reads and the places that it stores.             *)

\* A transform of len points reads and stores through its own mapping, ...
IsUpload(io, len) ==
  \/ io = Contiguous
  \/ \E a, b \in Positive :
       \/ io = FourStepRight(a, b) /\ len = b
       \/ io = FourStepLeft(a, b) /\ len = a
  \/ \E a, b, c \in Positive :
       \/ io = ThreeUpload(0, a, b, c) /\ len = a
       \/ io = ThreeUpload(1, a, b, c) /\ len = b
       \/ io = ThreeUpload(2, a, b, c) /\ len = c
  \/ \E stride \in Positive : io = PreTwiddle(stride, stride * len)

\* ... or is a child of a Cooley-Tukey transform that does.
IsMapping(io, len) ==
  \/ IsUpload(io, len)
  \/ \E a, b \in Positive :
       \/ io = CooleyRight(a, b) /\ len = b
       \/ \E outer : /\ IsUpload(outer, a * b)
                     /\ io = CooleyLeft(a, b, outer)
                     /\ len = a

\* How many transforms share a line.
PerLineOf(io) ==
  CASE io.kind \in {"FourStepRight", "ThreeUpload1", "CooleyRight"} -> io.a
    [] io.kind = "FourStepLeft" -> io.b
    [] io.kind = "ThreeUpload0" -> io.b * io.c
    [] io.kind = "ThreeUpload2" -> io.a * io.b
    [] io.kind = "PreTwiddle" -> io.stride
    [] OTHER -> 1

PerLine(io) ==
  IF io.kind = "CooleyLeft" THEN PerLineOf(io.outer) * io.b ELSE PerLineOf(io)

\* The elements of the transforms of n lines, and where they are.
Elements(io, len, n) == Points(n * PerLine(io)) \X Points(len)
Places(io, len, n)   == Points(n * PerLine(io) * len)

LEMMA StridedColumn ==
    ASSUME NEW len \in Positive, NEW s \in Positive, NEW x \in Nat, NEW i \in Points(len)
    PROVE  Strided(x, i, s, s * len) = ((x \div s) * len + i) * s + (x % s)
<1> DEFINE q == x \div s
           r == x % s
<1>1. q \in Nat /\ r \in Nat
  BY DivMod DEF Points
<1>2. Strided(x, i, s, s * len) = q * (s * len) + r + s * i
  BY DEF Strided
<1> HIDE DEF q, r
<1>3. q * (s * len) + r + s * i = (q * len + i) * s + r
  BY <1>1 DEF Positive, Points
<1> QED
  BY <1>2, <1>3 DEF q, r

\* What the third upload stores, with the digits of its column exchanged.
LEMMA TransposedColumn ==
    ASSUME NEW a \in Positive, NEW b \in Positive, NEW q \in Nat, NEW m \in Points(a * b)
    PROVE  Swap(q * (a * b) + m, a, b) = (q * a + (m % a)) * b + (m \div a)
<1>1. m \div a \in Points(b) /\ m % a \in Points(a) /\ m = (m \div a) * a + (m % a)
  BY SplitBelow DEF Positive
<1> DEFINE r == m \div a
           s == m % a
<1>2. q * (a * b) + m = (q * b + r) * a + s
  <2>1. m = r * a + s /\ r \in Nat /\ s \in Nat
    BY <1>1 DEF Points
  <2> HIDE DEF r, s
  <2> QED
    BY <2>1 DEF Positive
<1> QED
  BY <1>1, <1>2, SwapDigits

\* What the first upload stores, with the digits of its transform exchanged.
LEMMA SwappedColumn ==
    ASSUME NEW a \in Positive, NEW b \in Positive, NEW c \in Positive, NEW n \in Nat,
           NEW x \in Points(n * (b * c)), NEW i \in Points(a)
    PROVE  LET y == Swap(x, b, c) IN
           ((y \div (b * c)) * a + i) * (b * c) + (y % (b * c))
             = ((x \div b) \div c) * (a * b * c) + ((x \div b) % c) + c * (x % b) + c * b * i
<1>1. PICK q \in Points(n), r \in Points(c), s \in Points(b) : x = (q * c + r) * b + s
  BY ThreeDigits
<1>2. q \in Nat /\ r \in Nat /\ s \in Nat /\ i \in Nat /\ b * c \in Positive
  BY Times DEF Points, Positive
<1>3. q * c + r \in Nat /\ (q * c + r) \div c = q /\ (q * c + r) % c = r
  BY <1>2, Split
<1>4. x \div b = q * c + r /\ x % b = s
  BY <1>1, <1>3, Split
<1> DEFINE y == Swap(x, b, c)
<1>5. y = (q * b + s) * c + r
  BY <1>1, <1>2, SwapDigits
<1>6. s * c + r \in Points(b * c)
  BY <1>2, JoinBelow DEF Positive
<1>7. y = q * (b * c) + (s * c + r)
  BY <1>2, <1>5 DEF Positive
<1> HIDE DEF y
<1>8. y \div (b * c) = q /\ y % (b * c) = s * c + r
  BY <1>2, <1>6, <1>7, Split
<1>9. (q * a + i) * (b * c) + (s * c + r) = q * (a * b * c) + r + c * s + c * b * i
  BY <1>2 DEF Positive
<1> QED
  BY <1>3, <1>4, <1>8, <1>9 DEF y

LEMMA PerLineType ==
    ASSUME NEW len \in Positive, NEW io, IsUpload(io, len)
    PROVE  PerLineOf(io) \in Nat
<1>1. CASE io = Contiguous
  BY <1>1 DEF Contiguous, PerLineOf
<1>2. ASSUME NEW a \in Positive, NEW b \in Positive,
             io = FourStepRight(a, b) \/ io = FourStepLeft(a, b)
      PROVE  PerLineOf(io) \in Nat
  BY <1>2 DEF FourStepRight, FourStepLeft, PerLineOf, Positive
<1>3. ASSUME NEW a \in Positive, NEW b \in Positive, NEW c \in Positive, NEW id \in 0 .. 2,
             io = ThreeUpload(id, a, b, c)
      PROVE  PerLineOf(io) \in Nat
  <2>1. PerLineOf(io) \in {a, b * c, a * b}
    BY <1>3 DEF ThreeUpload, PerLineOf
  <2> QED
    BY <2>1, Times DEF Positive
<1>4. ASSUME NEW stride \in Positive, io = PreTwiddle(stride, stride * len)
      PROVE  PerLineOf(io) \in Nat
  BY <1>4 DEF PreTwiddle, PerLineOf, Positive
<1> QED
  BY <1>1, <1>2, <1>3, <1>4 DEF IsUpload

LEMMA UploadStores ==
    ASSUME NEW len \in Positive, NEW io, IsUpload(io, len), NEW n \in Nat
    PROVE  [p \in Points(n * PerLineOf(io)) \X Points(len) |->
               UploadIndex(io, len, p[1], p[2])]
             \in Bijection(Points(n * PerLineOf(io)) \X Points(len),
                           Points(n * PerLineOf(io) * len))
<1> DEFINE S == Points(n * PerLineOf(io)) \X Points(len)
           f == [p \in S |-> UploadIndex(io, len, p[1], p[2])]
           Onto == f \in Bijection(S, Points(n * PerLineOf(io) * len))
<1>1. CASE io = Contiguous
  <2>1. PerLineOf(io) = 1
    BY <1>1 DEF Contiguous, PerLineOf
  <2>2. \A batch, i : UploadIndex(io, len, batch, i) = batch * len + i
    BY <1>1 DEF Contiguous, UploadIndex
  <2>3. n * 1 = n
    OBVIOUS
  <2> QED
    BY <2>1, <2>2, <2>3, PlainBijection
<1>2. ASSUME NEW s \in Positive, PerLineOf(io) = s,
             \A x \in Nat, i \in Points(len) :
               UploadIndex(io, len, x, i) = ((x \div s) * len + i) * s + (x % s)
      PROVE  Onto
  <2>1. \A p \in S : p[1] \in Nat /\ p[2] \in Points(len)
    BY DEF Points
  <2>2. f = [p \in Points(n * s) \X Points(len) |->
               ((p[1] \div s) * len + p[2]) * s + (p[1] % s)]
    BY <1>2, <2>1
  <2> QED
    BY <1>2, <2>2, ColumnBijection
<1>3. ASSUME NEW a \in Positive, NEW b \in Positive, io = FourStepRight(a, b), len = b
      PROVE  Onto
  <2>1. PerLineOf(io) = a /\ \A x, i : UploadIndex(io, len, x, i)
                                = ((x \div a) * len + i) * a + (x % a)
    BY <1>3 DEF FourStepRight, PerLineOf, UploadIndex
  <2> QED
    BY <1>2, <2>1
<1>4. ASSUME NEW a \in Positive, NEW b \in Positive, io = FourStepLeft(a, b), len = a
      PROVE  Onto
  <2>1. PerLineOf(io) = b /\ \A x, i : UploadIndex(io, len, x, i) = Strided(x, i, b, a * b)
    BY <1>4 DEF FourStepLeft, PerLineOf, UploadIndex, Strided
  <2>2. a * b = b * len
    BY <1>4 DEF Positive
  <2>3. \A x \in Nat, i \in Points(len) :
          Strided(x, i, b, b * len) = ((x \div b) * len + i) * b + (x % b)
    BY StridedColumn
  <2> HIDE DEF Onto
  <2> QED
    BY <1>2, <2>1, <2>2, <2>3
<1>5. ASSUME NEW stride \in Positive, io = PreTwiddle(stride, stride * len)
      PROVE  Onto
  <2>1. PerLineOf(io) = stride
        /\ \A x, i : UploadIndex(io, len, x, i) = Strided(x, i, stride, stride * len)
    BY <1>5 DEF PreTwiddle, PerLineOf, UploadIndex
  <2>2. \A x \in Nat, i \in Points(len) :
          Strided(x, i, stride, stride * len) = ((x \div stride) * len + i) * stride + (x % stride)
    BY StridedColumn
  <2> HIDE DEF Onto
  <2> QED
    BY <1>2, <2>1, <2>2
<1>6. ASSUME NEW a \in Positive, NEW b \in Positive, NEW c \in Positive,
             io = ThreeUpload(1, a, b, c), len = b
      PROVE  Onto
  <2>1. PerLineOf(io) = a /\ \A x, i : UploadIndex(io, len, x, i)
                                = ((x \div a) * len + i) * a + (x % a)
    BY <1>6 DEF ThreeUpload, PerLineOf, UploadIndex
  <2> QED
    BY <1>2, <2>1
<1>7. ASSUME NEW a \in Positive, NEW b \in Positive, NEW c \in Positive,
             io = ThreeUpload(0, a, b, c), len = a
      PROVE  Onto
  <2>1. PerLineOf(io) = b * c
        /\ \A x, i : UploadIndex(io, len, x, i)
             = ((x \div b) \div c) * (a * b * c) + ((x \div b) % c) + c * (x % b) + c * b * i
    BY <1>7 DEF ThreeUpload, PerLineOf, UploadIndex
  <2> DEFINE T == Points(n * (b * c))
             D == T \X Points(a)
             g == [x \in T |-> Swap(x, b, c)]
             h == [p \in D |-> <<g[p[1]], p[2]>>]
             k == [p \in D |-> ((p[1] \div (b * c)) * a + p[2]) * (b * c) + (p[1] % (b * c))]
  <2>2. b * c \in Positive /\ S = D
    BY <1>7, <2>1, Times DEF Positive
  <2>3. h \in Bijection(D, D)
    BY SwapBijection, OnFirst
  <2>4. k \in Bijection(D, Points(n * (b * c) * a))
    BY <2>2, ColumnBijection
  <2>5. [p \in D |-> k[h[p]]] \in Bijection(D, Points(n * (b * c) * a))
    <3> HIDE DEF D, h, k
    <3> QED
      BY <2>3, <2>4, Fun_BijTransitive
  <2>6. ASSUME NEW p \in D PROVE k[h[p]] = f[p]
    <3>1. h[p] \in D
      BY <2>3 DEF Bijection, Injection
    <3> DEFINE y == Swap(p[1], b, c)
    <3>2. h[p] = <<y, p[2]>>
      OBVIOUS
    <3>3. k[h[p]] = ((y \div (b * c)) * a + p[2]) * (b * c) + (y % (b * c))
      BY <3>1, <3>2
    <3>4. p[1] \in T /\ p[2] \in Points(a)
      OBVIOUS
    <3>5. k[h[p]] = ((p[1] \div b) \div c) * (a * b * c) + ((p[1] \div b) % c)
                       + c * (p[1] % b) + c * b * p[2]
      BY <3>3, <3>4, SwappedColumn
    <3> QED
      BY <2>1, <2>2, <3>5
  <2>7. f = [p \in D |-> k[h[p]]]
    <3> HIDE DEF h, k
    <3> QED
      BY <2>2, <2>6
  <2> QED
    BY <1>7, <2>1, <2>2, <2>5, <2>7
<1>8. ASSUME NEW a \in Positive, NEW b \in Positive, NEW c \in Positive,
             io = ThreeUpload(2, a, b, c), len = c
      PROVE  Onto
  <2>1. PerLineOf(io) = a * b
        /\ \A x, i : UploadIndex(io, len, x, i)
             = (((x \div (a * b)) * c + i) * a + ((x % (a * b)) % a)) * b
                  + ((x % (a * b)) \div a)
    BY <1>8 DEF ThreeUpload, PerLineOf, UploadIndex
  <2> DEFINE D == Points(n * (a * b)) \X Points(c)
             E == Points(n * (a * b) * c)
             k == [p \in D |-> ((p[1] \div (a * b)) * c + p[2]) * (a * b) + (p[1] % (a * b))]
             g == [x \in E |-> Swap(x, a, b)]
  <2>2. a * b \in Positive /\ S = D
    BY <1>8, <2>1, Times DEF Positive
  <2>3. k \in Bijection(D, E)
    BY <2>2, ColumnBijection
  <2>4. g \in Bijection(E, E)
    <3>1. n * c \in Nat /\ n * (a * b) * c = (n * c) * (a * b)
      BY Times DEF Positive
    <3> QED
      BY <3>1, SwapBijection
  <2>5. [p \in D |-> g[k[p]]] \in Bijection(D, E)
    <3> HIDE DEF D, E, g, k
    <3> QED
      BY <2>3, <2>4, Fun_BijTransitive
  <2>6. ASSUME NEW p \in D PROVE g[k[p]] = f[p]
    <3> DEFINE q == (p[1] \div (a * b)) * c + p[2]
               m == p[1] % (a * b)
    <3>1. p[1] \in Points(n * (a * b)) /\ p[2] \in Points(c)
      OBVIOUS
    <3>2. p[1] \div (a * b) \in Points(n) /\ m \in Points(a * b)
      BY <2>2, <3>1, SplitBelow
    <3>3. q \in Points(n * c)
      BY <3>1, <3>2, JoinBelow
    <3>4. k[p] \in E /\ k[p] = q * (a * b) + m
      BY <2>3 DEF Bijection, Injection
    <3>5. g[k[p]] = Swap(q * (a * b) + m, a, b)
      BY <3>4
    <3>6. q \in Nat
      BY <3>3 DEF Points
    <3>7. g[k[p]] = (q * a + (m % a)) * b + (m \div a)
      BY <3>2, <3>5, <3>6, TransposedColumn
    <3> QED
      BY <2>1, <2>2, <3>7
  <2>7. f = [p \in D |-> g[k[p]]]
    <3> HIDE DEF g, k
    <3> QED
      BY <2>2, <2>6
  <2> QED
    BY <1>8, <2>1, <2>2, <2>5, <2>7
<1> QED
  BY <1>1, <1>3, <1>4, <1>5, <1>6, <1>7, <1>8 DEF IsUpload

\* Transform x of the left child continues transform x \div b of the parent: its
\* element i is element (x % b) + b * i there.
LEMMA ParentElements ==
    ASSUME NEW a \in Positive, NEW b \in Positive, NEW n \in Nat
    PROVE  [p \in Points(n * b) \X Points(a) |-> <<p[1] \div b, (p[1] % b) + b * p[2]>>]
             \in Bijection(Points(n * b) \X Points(a), Points(n) \X Points(a * b))
<1> DEFINE S == Points(n * b) \X Points(a)
           T == Points(n) \X Points(a * b)
           f == [p \in S |-> <<p[1] \div b, (p[1] % b) + b * p[2]>>]
<1>1. ASSUME NEW p \in S
      PROVE  /\ p[1] \div b \in Points(n) /\ p[1] % b \in Points(b) /\ p[2] \in Points(a)
             /\ p[1] = (p[1] \div b) * b + (p[1] % b)
             /\ (p[1] % b) + b * p[2] = p[2] * b + (p[1] % b)
             /\ f[p] \in T
  <2>1. p[1] \in Points(n * b) /\ p[2] \in Points(a) /\ a \in Nat
    BY DEF Positive
  <2>2. /\ p[1] \div b \in Points(n) /\ p[1] % b \in Points(b)
        /\ p[1] = (p[1] \div b) * b + (p[1] % b)
    BY <2>1, SplitBelow
  <2>3. p[2] * b + (p[1] % b) \in Points(a * b)
    BY <2>1, <2>2, JoinBelow
  <2>4. (p[1] % b) + b * p[2] = p[2] * b + (p[1] % b)
    <3>1. p[1] % b \in Nat /\ p[2] \in Nat /\ b \in Nat
      BY <2>1, <2>2 DEF Points, Positive
    <3> DEFINE r == p[1] % b
    <3> HIDE DEF r
    <3>2. r \in Nat => r + b * p[2] = p[2] * b + r
      BY <3>1
    <3> QED
      BY <3>1, <3>2 DEF r
  <2> QED
    BY <2>1, <2>2, <2>3, <2>4
<1>2. ASSUME NEW p \in S, NEW q \in S, f[p] = f[q] PROVE p = q
  <2>1. p[1] \div b = q[1] \div b
        /\ p[2] * b + (p[1] % b) = q[2] * b + (q[1] % b)
    BY <1>1, <1>2
  <2> DEFINE r == p[1] % b
             s == q[1] % b
  <2>2. p[2] \in Nat /\ q[2] \in Nat
    BY DEF Points
  <2>3. r \in Points(b) /\ s \in Points(b) /\ p[2] * b + r = q[2] * b + s
    BY <1>1, <2>1
  <2>4. p[2] = q[2] /\ r = s
    <3> HIDE DEF r, s
    <3> QED
      BY <2>2, <2>3, Digits
  <2>5. p[1] = q[1]
    <3> DEFINE k == p[1] \div b
               l == q[1] \div b
    <3>1. p[1] = k * b + r /\ q[1] = l * b + s
      BY <1>1
    <3>2. k = l
      BY <2>1
    <3> HIDE DEF k, l, r, s
    <3> QED
      BY <2>4, <3>1, <3>2
  <2>6. p = <<p[1], p[2]>> /\ q = <<q[1], q[2]>>
    OBVIOUS
  <2> QED
    BY <2>4, <2>5, <2>6
<1>3. ASSUME NEW e \in T PROVE \E p \in S : f[p] = e
  <2>1. e[1] \in Points(n) /\ e[2] \in Points(a * b) /\ e = <<e[1], e[2]>> /\ a \in Nat
    BY DEF Positive
  <2> DEFINE i == e[2] \div b
             r == e[2] % b
             x == e[1] * b + r
  <2>2. i \in Points(a) /\ r \in Points(b) /\ e[2] = i * b + r
    BY <2>1, SplitBelow
  <2>3. x \in Points(n * b)
    BY <2>1, <2>2, JoinBelow
  <2>4. x \div b = e[1] /\ x % b = r
    <3>1. e[1] \in Nat
      BY <2>1 DEF Points
    <3> HIDE DEF r
    <3> QED
      BY <2>2, <3>1, Split
  <2> HIDE DEF i, r, x
  <2>5. <<x, i>> \in S
    BY <2>2, <2>3
  <2>6. f[<<x, i>>] = <<x \div b, (x % b) + b * i>>
    BY <2>5
  <2>7. (x % b) + b * i = i * b + (x % b)
    BY <1>1, <2>5
  <2> QED
    BY <2>1, <2>2, <2>4, <2>5, <2>6, <2>7
<1>4. f \in [S -> T]
  BY <1>1
<1> QED
  BY <1>2, <1>3, <1>4, Fun_IsBij

\* The transforms of a pass store every place of their lines, and no place twice:
\* whatever the lengths of the children and the number of lines, no workgroup
\* overwrites another's result and no gap is left (StockhamIoMapping::output_index,
\* through a Cooley-Tukey parent too).
THEOREM StoresOnce ==
    ASSUME NEW len \in Positive, NEW io, IsMapping(io, len), NEW n \in Nat
    PROVE  [p \in Elements(io, len, n) |-> output_index(io, len, p[1], p[2])]
             \in Bijection(Elements(io, len, n), Places(io, len, n))
<1> DEFINE S == Elements(io, len, n)
           f == [p \in S |-> output_index(io, len, p[1], p[2])]
           Onto == f \in Bijection(S, Places(io, len, n))
<1>1. CASE IsUpload(io, len)
  <2>1. io.kind # "CooleyLeft"
    BY <1>1 DEF IsUpload, Contiguous, FourStepRight, FourStepLeft, ThreeUpload, PreTwiddle
  <2>2. PerLine(io) = PerLineOf(io)
        /\ \A x, i : output_index(io, len, x, i) = UploadIndex(io, len, x, i)
    BY <2>1 DEF PerLine, output_index
  <2> QED
    BY <1>1, <2>2, UploadStores DEF Elements, Places
<1>2. ASSUME NEW a \in Positive, NEW b \in Positive, io = CooleyRight(a, b), len = b
      PROVE  Onto
  <2>1. PerLine(io) = a /\ \A x, i : output_index(io, len, x, i) = x * len + i
    BY <1>2 DEF CooleyRight, PerLine, PerLineOf, output_index, UploadIndex
  <2>2. n * a \in Nat
    BY Times DEF Positive
  <2> QED
    BY <2>1, <2>2, PlainBijection DEF Elements, Places
<1>3. ASSUME NEW a \in Positive, NEW b \in Positive, NEW outer, IsUpload(outer, a * b),
             io = CooleyLeft(a, b, outer), len = a
      PROVE  Onto
  <2>1. PerLine(io) = PerLineOf(outer) * b
        /\ \A x, i : output_index(io, len, x, i)
             = UploadIndex(outer, a * b, x \div b, (x % b) + b * i)
    BY <1>3 DEF CooleyLeft, PerLine, output_index
  <2>2. PerLineOf(outer) \in Nat /\ a * b \in Positive
    BY <1>3, PerLineType, Times DEF Positive
  <2> DEFINE m == n * PerLineOf(outer)
             T == Points(m) \X Points(a * b)
             g == [p \in Points(m * b) \X Points(a) |->
                     <<p[1] \div b, (p[1] % b) + b * p[2]>>]
             h == [p \in T |-> UploadIndex(outer, a * b, p[1], p[2])]
  <2>3. m \in Nat /\ m * b = n * PerLine(io) /\ m * (a * b) = n * PerLine(io) * len
    <3> DEFINE l == PerLineOf(outer)
    <3>1. l \in Nat /\ PerLine(io) = l * b
      BY <2>1, <2>2
    <3> HIDE DEF l
    <3>2. n * l \in Nat /\ (n * l) * b = n * (l * b) /\ (n * l) * (a * b) = n * (l * b) * a
      BY <3>1, Times DEF Positive
    <3> QED
      BY <1>3, <3>1, <3>2 DEF l
  <2>4. S = Points(m * b) \X Points(a) /\ Places(io, len, n) = Points(m * (a * b))
    BY <1>3, <2>3 DEF Elements, Places
  <2>5. h \in Bijection(T, Points(m * (a * b)))
    BY <1>3, <2>2, UploadStores
  <2>6. g \in Bijection(S, T)
    <3> HIDE DEF m
    <3> QED
      BY <2>3, <2>4, ParentElements
  <2>7. [p \in S |-> h[g[p]]] \in Bijection(S, Points(m * (a * b)))
    <3> HIDE DEF S, T, g, h, m
    <3> QED
      BY <2>5, <2>6, Fun_BijTransitive
  <2>8. ASSUME NEW p \in S PROVE h[g[p]] = f[p]
    <3>1. g[p] \in T
      BY <2>6 DEF Bijection, Injection
    <3>2. g[p] = <<p[1] \div b, (p[1] % b) + b * p[2]>>
      BY <2>4
    <3>3. h[g[p]] = UploadIndex(outer, a * b, p[1] \div b, (p[1] % b) + b * p[2])
      BY <3>1, <3>2
    <3> QED
      BY <2>1, <3>3
  <2>9. f = [p \in S |-> h[g[p]]]
    <3> HIDE DEF g, h, S
    <3> QED
      BY <2>8
  <2> QED
    BY <2>4, <2>7, <2>9
<1> QED
  BY <1>1, <1>2, <1>3 DEF IsMapping

\* The transforms of a pass read every place of their lines, and no place twice: no
\* input element is lost or counted in two transforms (StockhamIoMapping::input_index).
THEOREM ReadsOnce ==
    ASSUME NEW len \in Positive, NEW io, IsMapping(io, len), NEW n \in Nat
    PROVE  [p \in Elements(io, len, n) |-> input_index(io, len, p[1], p[2])]
             \in Bijection(Elements(io, len, n), Places(io, len, n))
<1> DEFINE S == Elements(io, len, n)
           f == [p \in S |-> input_index(io, len, p[1], p[2])]
           Onto == f \in Bijection(S, Places(io, len, n))
<1>1. ASSUME \A x, i : input_index(io, len, x, i) = x * len + i, PerLine(io) \in Nat
      PROVE  Onto
  <2>1. n * PerLine(io) \in Nat
    BY <1>1, Times
  <2> QED
    BY <1>1, <2>1, PlainBijection DEF Elements, Places
<1>2. ASSUME NEW s \in Positive, PerLine(io) = s,
             \A x \in Nat, i \in Points(len) :
               input_index(io, len, x, i) = ((x \div s) * len + i) * s + (x % s)
      PROVE  Onto
  <2>1. \A p \in S : p[1] \in Nat /\ p[2] \in Points(len)
    BY DEF Points, Elements
  <2>2. S = Points(n * s) \X Points(len) /\ Places(io, len, n) = Points(n * s * len)
    BY <1>2 DEF Elements, Places
  <2>3. f = [p \in Points(n * s) \X Points(len) |->
               ((p[1] \div s) * len + p[2]) * s + (p[1] % s)]
    <3> HIDE DEF S
    <3> QED
      BY <1>2, <2>1, <2>2
  <2> QED
    BY <2>2, <2>3, ColumnBijection
<1>3. ASSUME NEW s \in Positive, PerLine(io) = s,
             \A x, i : input_index(io, len, x, i) = Strided(x, i, s, s * len)
      PROVE  Onto
  <2>1. \A x \in Nat, i \in Points(len) :
          Strided(x, i, s, s * len) = ((x \div s) * len + i) * s + (x % s)
    BY StridedColumn
  <2> HIDE DEF Onto
  <2> QED
    BY <1>2, <1>3, <2>1
<1>4. CASE io = Contiguous
  <2>1. PerLine(io) \in Nat /\ \A x, i : input_index(io, len, x, i) = x * len + i
    BY <1>4 DEF Contiguous, PerLine, PerLineOf, input_index, PrimeIndex
  <2> QED
    BY <1>1, <2>1
<1>5. ASSUME NEW a \in Positive, NEW b \in Positive,
             io = FourStepRight(a, b) \/ io = CooleyRight(a, b), len = b
      PROVE  Onto
  <2>1. PerLine(io) = a /\ \A x, i : input_index(io, len, x, i) = Strided(x, i, a, a * len)
    BY <1>5 DEF FourStepRight, CooleyRight, PerLine, PerLineOf, input_index, PrimeIndex
  <2> QED
    BY <1>3, <2>1
<1>6. ASSUME NEW a \in Positive, NEW b \in Positive, io = FourStepLeft(a, b)
      PROVE  Onto
  <2>1. PerLine(io) = b /\ \A x, i : input_index(io, len, x, i) = x * len + i
    BY <1>6 DEF FourStepLeft, PerLine, PerLineOf, input_index, PrimeIndex
  <2> QED
    BY <1>1, <2>1 DEF Positive
<1>7. ASSUME NEW a \in Positive, NEW b \in Positive, NEW c \in Positive, NEW id \in 0 .. 1,
             io = ThreeUpload(id, a, b, c)
      PROVE  Onto
  <2>1. \A x, i : input_index(io, len, x, i) = x * len + i
    BY <1>7 DEF ThreeUpload, input_index, PrimeIndex
  <2>2. PerLine(io) \in {a, b * c}
    BY <1>7 DEF ThreeUpload, PerLine, PerLineOf
  <2>3. PerLine(io) \in Nat
    BY <2>2, Times DEF Positive
  <2> QED
    BY <1>1, <2>1, <2>3
<1>8. ASSUME NEW a \in Positive, NEW b \in Positive, NEW c \in Positive,
             io = ThreeUpload(2, a, b, c), len = c
      PROVE  Onto
  <2>1. PerLine(io) = a * b
        /\ \A x, i : input_index(io, len, x, i) = Strided(x, i, a * b, a * b * len)
    BY <1>8 DEF ThreeUpload, PerLine, PerLineOf, input_index, PrimeIndex
  <2>2. a * b \in Positive
    BY Times DEF Positive
  <2> HIDE DEF Onto
  <2> QED
    BY <1>3, <2>1, <2>2
<1>9. ASSUME NEW stride \in Positive, io = PreTwiddle(stride, stride * len)
      PROVE  Onto
  <2>1. PerLine(io) = stride
        /\ \A x, i : input_index(io, len, x, i) = Strided(x, i, stride, stride * len)
    BY <1>9 DEF PreTwiddle, PerLine, PerLineOf, input_index, PrimeIndex
  <2> QED
    BY <1>3, <2>1
<1>10. ASSUME NEW a \in Positive, NEW b \in Positive, NEW outer, IsUpload(outer, a * b),
              io = CooleyLeft(a, b, outer), len = a
       PROVE  Onto
  <2> DEFINE l == PerLineOf(outer)
             m == n * l
  <2>1. PerLine(io) = l * b
        /\ \A x, i : input_index(io, len, x, i) = ((x \div b) * len + i) * b + (x % b)
    BY <1>10 DEF CooleyLeft, PerLine, input_index
  <2>2. l \in Nat
    BY <1>10, PerLineType, Times DEF Positive
  <2>3. m \in Nat /\ n * PerLine(io) = m * b
    <3> HIDE DEF l
    <3> QED
      BY <2>1, <2>2, Times DEF Positive
  <2>4. S = Points(m * b) \X Points(len) /\ Places(io, len, n) = Points(m * b * len)
    BY <2>3 DEF Elements, Places
  <2>5. f = [p \in Points(m * b) \X Points(len) |->
               ((p[1] \div b) * len + p[2]) * b + (p[1] % b)]
    BY <2>1, <2>4
  <2> HIDE DEF m
  <2> QED
    BY <2>3, <2>4, <2>5, ColumnBijection
<1>11. CASE IsUpload(io, len)
  <2>1. CASE \E a, b \in Positive :
               \/ io = FourStepRight(a, b) /\ len = b
               \/ io = FourStepLeft(a, b) /\ len = a
    <3>1. PICK a \in Positive, b \in Positive :
               \/ io = FourStepRight(a, b) /\ len = b
               \/ io = FourStepLeft(a, b) /\ len = a
      BY <2>1
    <3>2. CASE io = FourStepRight(a, b) /\ len = b
      BY <1>5, <3>2
    <3>3. CASE io = FourStepLeft(a, b)
      BY <1>6, <3>3
    <3> QED
      BY <3>1, <3>2, <3>3
  <2>2. CASE \E a, b, c \in Positive :
               \/ io = ThreeUpload(0, a, b, c) /\ len = a
               \/ io = ThreeUpload(1, a, b, c) /\ len = b
               \/ io = ThreeUpload(2, a, b, c) /\ len = c
    <3>1. PICK a \in Positive, b \in Positive, c \in Positive :
               \/ io = ThreeUpload(0, a, b, c) /\ len = a
               \/ io = ThreeUpload(1, a, b, c) /\ len = b
               \/ io = ThreeUpload(2, a, b, c) /\ len = c
      BY <2>2
    <3>2. CASE io = ThreeUpload(0, a, b, c)
      BY <1>7, <3>2
    <3>3. CASE io = ThreeUpload(1, a, b, c)
      BY <1>7, <3>3
    <3>4. CASE io = ThreeUpload(2, a, b, c) /\ len = c
      BY <1>8, <3>4
    <3> QED
      BY <3>1, <3>2, <3>3, <3>4
  <2>3. CASE \E stride \in Positive : io = PreTwiddle(stride, stride * len)
    BY <1>9, <2>3
  <2> HIDE DEF Onto
  <2> QED
    BY <1>4, <1>11, <2>1, <2>2, <2>3 DEF IsUpload
<1>12. CASE \E a, b \in Positive :
              \/ io = CooleyRight(a, b) /\ len = b
              \/ \E outer : /\ IsUpload(outer, a * b)
                            /\ io = CooleyLeft(a, b, outer)
                            /\ len = a
  <2>1. PICK a \in Positive, b \in Positive :
              \/ io = CooleyRight(a, b) /\ len = b
              \/ \E outer : /\ IsUpload(outer, a * b)
                            /\ io = CooleyLeft(a, b, outer)
                            /\ len = a
    BY <1>12
  <2>2. CASE io = CooleyRight(a, b) /\ len = b
    BY <1>5, <2>2
  <2>3. CASE \E outer : /\ IsUpload(outer, a * b)
                        /\ io = CooleyLeft(a, b, outer)
                        /\ len = a
    BY <1>10, <2>3
  <2> QED
    BY <2>1, <2>2, <2>3
<1> QED
  BY <1>11, <1>12 DEF IsMapping

-----------------------------------------------------------------------------
(* The passes of one transform, put together.                              *)

\* Turns by x / m and y / m of a revolution are the same.
SameTurn(x, y, m) == \E q \in Int : x = y + q * m

\* The two uploads of a transform of a * b points.  With input element n1 + a * n2 and
\* result k2 + b * k1 of a line: transform n1 of the first pass reads the element,
\* result k2 is where transform k2 of the second pass reads its element n1, and that
\* stores its result k1 where a transform of the whole line has it.  The turns of both
\* and the turn between them are the turn of the transform of a * b points.
THEOREM TwoUploads ==
    ASSUME NEW a \in Positive, NEW b \in Positive, NEW line \in Nat,
           NEW n1 \in Points(a), NEW n2 \in Points(b),
           NEW k1 \in Points(a), NEW k2 \in Points(b)
    PROVE  LET right == FourStepRight(a, b)
               left  == FourStepLeft(a, b)
               x == line * a + n1
               y == line * b + k2
           IN  /\ input_index(right, b, x, n2) = line * (a * b) + (n1 + a * n2)
               /\ output_index(right, b, x, k2) = input_index(left, a, y, n1)
               /\ output_index(left, a, y, k1) = line * (a * b) + (k2 + b * k1)
               /\ output_turn(right, x, k2)[2] = a * b
               /\ SameTurn((n1 + a * n2) * (k2 + b * k1),
                           a * (n2 * k2) + output_turn(right, x, k2)[1] + b * (n1 * k1),
                           a * b)
<1> DEFINE right == FourStepRight(a, b)
           left  == FourStepLeft(a, b)
           x == line * a + n1
           y == line * b + k2
<1>1. x \div a = line /\ x % a = n1 /\ y \div b = line /\ y % b = k2
  BY Split
<1>2. n1 \in Nat /\ n2 \in Nat /\ k1 \in Nat /\ k2 \in Nat
  BY DEF Points
<1> HIDE DEF x
<1>3. input_index(right, b, x, n2) = line * (a * b) + n1 + a * n2
  BY <1>1 DEF FourStepRight, input_index, PrimeIndex, Strided
<1>4. output_index(right, b, x, k2) = (line * b + k2) * a + n1
  BY <1>1 DEF FourStepRight, output_index, UploadIndex
<1>5. input_index(left, a, y, n1) = y * a + n1
  BY DEF FourStepLeft, input_index, PrimeIndex
<1> HIDE DEF y
<1>6. output_index(left, a, y, k1) = line * (a * b) + k2 + b * k1
  BY <1>1 DEF FourStepLeft, output_index, UploadIndex
<1>7. output_turn(right, x, k2) = <<n1 * k2, a * b>>
  BY <1>1 DEF FourStepRight, output_turn
<1>8. SameTurn((n1 + a * n2) * (k2 + b * k1), a * (n2 * k2) + n1 * k2 + b * (n1 * k1), a * b)
  <2>1. (n1 + a * n2) * (k2 + b * k1)
          = (a * (n2 * k2) + n1 * k2 + b * (n1 * k1)) + (n2 * k1) * (a * b)
    BY <1>2 DEF Positive
  <2>2. n2 * k1 \in Int
    BY <1>2
  <2> QED
    BY <2>1, <2>2 DEF SameTurn
<1>9. line * (a * b) \in Nat /\ a * n2 \in Nat /\ b * k1 \in Nat
  BY <1>2, Times DEF Positive
<1>10. line * (a * b) + n1 + a * n2 = line * (a * b) + (n1 + a * n2)
       /\ line * (a * b) + k2 + b * k1 = line * (a * b) + (k2 + b * k1)
  BY <1>2, <1>9
<1> QED
  BY <1>3, <1>4, <1>5, <1>6, <1>7, <1>8, <1>10 DEF y, x

\* A Cooley-Tukey node of a * b points: the left child reads what the right child
\* stored, turned as it is read, and hands result k2 + b * k1 of the node to the node's
\* own mapping; the turns are those of a transform of a * b points.
THEOREM CooleyTukey ==
    ASSUME NEW a \in Positive, NEW b \in Positive, NEW outer, NEW parent \in Nat,
           NEW n1 \in Points(a), NEW n2 \in Points(b),
           NEW k1 \in Points(a), NEW k2 \in Points(b)
    PROVE  LET right == CooleyRight(a, b)
               left  == CooleyLeft(a, b, outer)
               x == parent * a + n1
               y == parent * b + k2
           IN  /\ input_index(right, b, x, n2) = parent * (a * b) + (n1 + a * n2)
               /\ output_index(right, b, x, k2) = input_index(left, a, y, n1)
               /\ output_index(left, a, y, k1)
                    = UploadIndex(outer, a * b, parent, k2 + b * k1)
               /\ input_turn(left, y, n1)[2] = a * b
               /\ SameTurn((n1 + a * n2) * (k2 + b * k1),
                           a * (n2 * k2) + input_turn(left, y, n1)[1] + b * (n1 * k1),
                           a * b)
<1> DEFINE right == CooleyRight(a, b)
           left  == CooleyLeft(a, b, outer)
           x == parent * a + n1
           y == parent * b + k2
<1>1. x \div a = parent /\ x % a = n1 /\ y \div b = parent /\ y % b = k2
  BY Split
<1>2. n1 \in Nat /\ n2 \in Nat /\ k1 \in Nat /\ k2 \in Nat
  BY DEF Points
<1> HIDE DEF y
<1>3. output_index(right, b, x, k2) = x * b + k2
  BY DEF CooleyRight, output_index, UploadIndex
<1> HIDE DEF x
<1>4. input_index(right, b, x, n2) = parent * (a * b) + n1 + a * n2
  BY <1>1 DEF CooleyRight, input_index, PrimeIndex, Strided
<1>5. input_index(left, a, y, n1) = (parent * a + n1) * b + k2
  BY <1>1 DEF CooleyLeft, input_index
<1>6. output_index(left, a, y, k1) = UploadIndex(outer, a * b, parent, k2 + b * k1)
  BY <1>1 DEF CooleyLeft, output_index
<1>7. input_turn(left, y, n1) = <<n1 * k2, a * b>>
  BY <1>1 DEF CooleyLeft, input_turn
<1>8. SameTurn((n1 + a * n2) * (k2 + b * k1), a * (n2 * k2) + n1 * k2 + b * (n1 * k1), a * b)
  <2>1. (n1 + a * n2) * (k2 + b * k1)
          = (a * (n2 * k2) + n1 * k2 + b * (n1 * k1)) + (n2 * k1) * (a * b)
    BY <1>2 DEF Positive
  <2>2. n2 * k1 \in Int
    BY <1>2
  <2> QED
    BY <2>1, <2>2 DEF SameTurn
<1>9. parent * (a * b) \in Nat /\ a * n2 \in Nat
  BY <1>2, Times DEF Positive
<1>10. parent * (a * b) + n1 + a * n2 = parent * (a * b) + (n1 + a * n2)
  BY <1>2, <1>9
<1> QED
  BY <1>3, <1>4, <1>5, <1>6, <1>7, <1>8, <1>10 DEF y, x

\* The three uploads of a transform of a * b * c points, with input element
\* n1 + a * n2 + a * b * n3 and result k3 + c * k2 + b * c * k1 of a line: each pass
\* reads what the one before stored, the last stores in natural order, and the turns,
\* those of the two stores included, are the turn of the whole transform.
THEOREM ThreeUploads ==
    ASSUME NEW a \in Positive, NEW b \in Positive, NEW c \in Positive, NEW line \in Nat,
           NEW n1 \in Points(a), NEW n2 \in Points(b), NEW n3 \in Points(c),
           NEW k1 \in Points(a), NEW k2 \in Points(b), NEW k3 \in Points(c)
    PROVE  LET third  == ThreeUpload(2, a, b, c)
               second == ThreeUpload(1, a, b, c)
               first  == ThreeUpload(0, a, b, c)
               x == line * (a * b) + (n1 + a * n2)
               y == (line * c + k3) * a + n1
               z == (line * c + k3) * b + k2
           IN  /\ input_index(third, c, x, n3)
                    = line * (a * b * c) + (n1 + a * n2 + a * b * n3)
               /\ output_index(third, c, x, k3) = input_index(second, b, y, n2)
               /\ output_index(second, b, y, k2) = input_index(first, a, z, n1)
               /\ output_index(first, a, z, k1)
                    = line * (a * b * c) + (k3 + c * k2 + b * c * k1)
               /\ output_turn(third, x, k3)[2] = a * b * c
               /\ output_turn(second, y, k2)[2] = a * b
               /\ SameTurn((n1 + a * n2 + a * b * n3) * (k3 + c * k2 + b * c * k1),
                           a * b * (n3 * k3) + output_turn(third, x, k3)[1]
                             + a * c * (n2 * k2) + c * output_turn(second, y, k2)[1]
                             + b * c * (n1 * k1),
                           a * b * c)
<1> DEFINE third  == ThreeUpload(2, a, b, c)
           second == ThreeUpload(1, a, b, c)
           first  == ThreeUpload(0, a, b, c)
           m == n2 * a + n1
           x == line * (a * b) + (n1 + a * n2)
           r == line * c + k3
           y == r * a + n1
           z == r * b + k2
<1>1. /\ n1 \in Nat /\ n2 \in Nat /\ n3 \in Nat /\ k1 \in Nat /\ k2 \in Nat /\ k3 \in Nat
      /\ a \in Nat /\ b \in Nat /\ c \in Nat
  BY DEF Points, Positive
<1>2. m \in Points(a * b) /\ m % a = n1 /\ m \div a = n2 /\ m = n1 + a * n2
  <2>1. m \in Points(b * a) /\ b * a = a * b
    BY <1>1, JoinBelow
  <2>2. m % a = n1 /\ m \div a = n2
    BY <1>1, Split
  <2> QED
    BY <1>1, <2>1, <2>2
<1>3. r \in Nat /\ r \div c = line /\ r % c = k3
  BY Split
<1>4. x \div (a * b) = line /\ x % (a * b) = m
  <2>1. a * b \in Positive
    BY Times DEF Positive
  <2> HIDE DEF m
  <2>2. x = line * (a * b) + m
    BY <1>2
  <2> QED
    BY <1>2, <2>1, <2>2, Split
<1>5. y \div a = r /\ y % a = n1 /\ z \div b = r /\ z % b = k2
  <2> HIDE DEF r
  <2> QED
    BY <1>3, Split
<1> HIDE DEF m, r, x
<1>6. output_index(third, c, x, k3) = ((line * c + k3) * a + n1) * b + n2
  BY <1>2, <1>4 DEF ThreeUpload, output_index, UploadIndex
<1>7. input_index(third, c, x, n3) = line * (a * b * c) + m + a * b * n3
  BY <1>4 DEF ThreeUpload, input_index, PrimeIndex, Strided
<1>8. output_turn(third, x, k3) = <<m * k3, a * b * c>>
  BY <1>4 DEF ThreeUpload, output_turn
<1>9. input_index(second, b, y, n2) = (r * a + n1) * b + n2
  BY DEF ThreeUpload, input_index, PrimeIndex
<1>10. input_index(first, a, z, n1) = (r * b + k2) * a + n1
  BY DEF ThreeUpload, input_index, PrimeIndex
<1> HIDE DEF y, z
<1>11. output_index(second, b, y, k2) = (r * b + k2) * a + n1
  BY <1>5 DEF ThreeUpload, output_index, UploadIndex
<1>12. output_turn(second, y, k2) = <<n1 * k2, a * b>>
  BY <1>5 DEF ThreeUpload, output_turn
<1>13. output_index(first, a, z, k1) = line * (a * b * c) + k3 + c * k2 + c * b * k1
  BY <1>3, <1>5 DEF ThreeUpload, output_index, UploadIndex
<1>14. SameTurn((m + a * b * n3) * (k3 + c * k2 + b * c * k1),
                a * b * (n3 * k3) + m * k3 + a * c * (n2 * k2) + c * (n1 * k2)
                  + b * c * (n1 * k1),
                a * b * c)
  <2>1. (n1 + a * n2 + a * b * n3) * (k3 + c * k2 + b * c * k1)
          = (a * b * (n3 * k3) + (n1 + a * n2) * k3 + a * c * (n2 * k2) + c * (n1 * k2)
               + b * c * (n1 * k1)) + (n2 * k1 + n3 * k2 + b * (n3 * k1)) * (a * b * c)
    BY <1>1
  <2>2. n2 * k1 + n3 * k2 + b * (n3 * k1) \in Int
    BY <1>1
  <2> QED
    BY <1>2, <2>1, <2>2 DEF SameTurn
<1>15. line * (a * b * c) + m + a * b * n3 = line * (a * b * c) + (m + a * b * n3)
       /\ line * (a * b * c) + k3 + c * k2 + c * b * k1
            = line * (a * b * c) + (k3 + c * k2 + b * c * k1)
  BY <1>1, <1>2
<1>16. y = (line * c + k3) * a + n1 /\ z = (line * c + k3) * b + k2 /\ r = line * c + k3
       /\ x = line * (a * b) + (n1 + a * n2)
  BY DEF y, z, r, x
<1> QED
  BY <1>2, <1>6, <1>7, <1>8, <1>9, <1>10, <1>11, <1>12, <1>13, <1>14, <1>15, <1>16

-----------------------------------------------------------------------------
(* Remainders.                                                             *)

LEMMA IntDivMod ==
    ASSUME NEW n \in Int, NEW m \in Positive
    PROVE  n \div m \in Int /\ n % m \in Points(m) /\ n = (n \div m) * m + (n % m)
  BY DEF Positive, Points

\* The quotient and the remainder are unique.
LEMMA IntDigits ==
    ASSUME NEW m \in Positive, NEW p \in Int, NEW q \in Int,
           NEW r \in Points(m), NEW s \in Points(m), p * m + r = q * m + s
    PROVE  p = q /\ r = s
<1>0. m \in Int /\ m > 0 /\ r \in Int /\ s \in Int /\ 0 <= r /\ r < m /\ 0 <= s /\ s < m
  BY DEF Positive, Points
<1>1. ASSUME NEW x \in Int, NEW y \in Int, x < y PROVE x * m + m <= y * m
  <2>1. (y - x - 1) * m >= 0
    <3> DEFINE d == y - x - 1
    <3>1. d \in Nat
      BY <1>1
    <3> HIDE DEF d
    <3>2. d * m >= 0
      BY <1>0, <3>1
    <3> QED
      BY <3>2 DEF d
  <2>2. (y - x - 1) * m = y * m - x * m - m
    BY <1>0
  <2>3. x * m \in Int /\ y * m \in Int
    BY <1>0
  <2> QED
    BY <1>0, <2>1, <2>2, <2>3
<1>2. p * m \in Int /\ q * m \in Int
  BY <1>0
<1>3. ~(p < q) /\ ~(q < p)
  BY <1>0, <1>1, <1>2
<1> QED
  BY <1>0, <1>2, <1>3

\* What differs by a multiple leaves the same remainder.
LEMMA SameRemainder ==
    ASSUME NEW m \in Positive, NEW a \in Int, NEW b \in Int, NEW t \in Int, a = b + t * m
    PROVE  a % m = b % m
<1>1. /\ a \div m \in Int /\ a % m \in Points(m) /\ a = (a \div m) * m + (a % m)
      /\ b \div m \in Int /\ b % m \in Points(m) /\ b = (b \div m) * m + (b % m)
  BY IntDivMod
<1> DEFINE p == a \div m  q == b \div m  r == a % m  s == b % m
<1>2. p \in Int /\ q \in Int /\ r \in Points(m) /\ s \in Points(m)
      /\ a = p * m + r /\ b = q * m + s
  BY <1>1
<1> HIDE DEF p, q, r, s
<1>3. (q + t) * m = q * m + t * m
  BY <1>2 DEF Positive
<1>4. t * m \in Int /\ q * m \in Int /\ p * m \in Int /\ s \in Int /\ r \in Int
  BY <1>2 DEF Positive, Points
<1>5. p * m + r = (q + t) * m + s
  BY <1>2, <1>3, <1>4
<1>6. r = s
  BY <1>2, <1>5, IntDigits
<1> QED
  BY <1>6 DEF r, s

LEMMA SmallRemainder ==
    ASSUME NEW m \in Positive, NEW r \in Points(m)
    PROVE  r % m = r
<1>1. r \in Int /\ r \div m \in Int /\ r % m \in Points(m) /\ r = (r \div m) * m + (r % m)
  BY IntDivMod DEF Points
<1> DEFINE q == r \div m  s == r % m
<1>2. r \in Int /\ q \in Int /\ s \in Points(m) /\ r = q * m + s
  BY <1>1
<1> HIDE DEF q, s
<1>3. 0 * m + r = q * m + s
  BY <1>2 DEF Positive
<1>4. r = s
  BY <1>2, <1>3, IntDigits
<1> QED
  BY <1>4 DEF s

-----------------------------------------------------------------------------
(* Numbers.                                                                *)

Number == (0 .. Q - 1) \X (0 .. Q - 1)

\* The number that stands for two integers.
Rep(a, b) == <<a % Q, b % Q>>

LEMMA Modulus == Q \in Positive /\ Q \in Nat /\ Q >= 3 /\ Q + 1 \in Positive
  BY CircleAssumption DEF Positive

LEMMA NumberDefined ==
    ASSUME NEW z \in Number PROVE Defined(z)
  BY Modulus DEF Number, Defined, Unwritten

LEMMA RepNumber ==
    ASSUME NEW a \in Int, NEW b \in Int PROVE Rep(a, b) \in Number
  BY Modulus, IntDivMod DEF Rep, Number, Points

LEMMA NumberRep ==
    ASSUME NEW z \in Number
    PROVE  z[1] \in Int /\ z[2] \in Int /\ z = Rep(z[1], z[2])
<1>1. z = <<z[1], z[2]>> /\ z[1] \in Points(Q) /\ z[2] \in Points(Q)
  BY DEF Number, Points
<1>2. z[1] % Q = z[1] /\ z[2] % Q = z[2]
  BY <1>1, Modulus, SmallRemainder
<1> QED
  BY <1>1, <1>2 DEF Rep, Points

LEMMA RepSame ==
    ASSUME NEW a \in Int, NEW b \in Int, NEW c \in Int, NEW d \in Int,
           NEW s \in Int, NEW t \in Int, a = c + s * Q, b = d + t * Q
    PROVE  Rep(a, b) = Rep(c, d)
<1>1. a % Q = c % Q
  BY Modulus, SameRemainder
<1>2. b % Q = d % Q
  BY Modulus, SameRemainder
<1> QED
  BY <1>1, <1>2 DEF Rep

LEMMA Parts ==
    ASSUME NEW a \in Int
    PROVE  a \div Q \in Int /\ a % Q \in Int /\ a = (a \div Q) * Q + (a % Q)
<1>1. a \div Q \in Int /\ a % Q \in Points(Q) /\ a = (a \div Q) * Q + (a % Q)
  BY Modulus, IntDivMod
<1>2. Points(Q) \subseteq Int
  BY DEF Points
<1> QED
  BY <1>1, <1>2

\* Sums and products do not depend on which integers stand for a number.
LEMMA AddRep ==
    ASSUME NEW a \in Int, NEW b \in Int, NEW c \in Int, NEW d \in Int
    PROVE  Add(Rep(a, b), Rep(c, d)) = Rep(a + c, b + d)
<1> DEFINE s1 == a \div Q  r1 == a % Q  s2 == b \div Q  r2 == b % Q
           s3 == c \div Q  r3 == c % Q  s4 == d \div Q  r4 == d % Q
<1>1. /\ s1 \in Int /\ r1 \in Int /\ a = s1 * Q + r1 /\ s2 \in Int /\ r2 \in Int /\ b = s2 * Q + r2
      /\ s3 \in Int /\ r3 \in Int /\ c = s3 * Q + r3 /\ s4 \in Int /\ r4 \in Int /\ d = s4 * Q + r4
  BY Parts
<1>2. Add(Rep(a, b), Rep(c, d)) = Rep(r1 + r3, r2 + r4)
  <2>1. Defined(Rep(a, b)) /\ Defined(Rep(c, d))
    BY RepNumber, NumberDefined
  <2> QED
    BY <2>1 DEF Add, Rep
<1> HIDE DEF s1, r1, s2, r2, s3, r3, s4, r4
<1>3. Q \in Int
  BY Modulus
<1>4. a + c = (r1 + r3) + (s1 + s3) * Q /\ b + d = (r2 + r4) + (s2 + s4) * Q
  BY <1>1, <1>3
<1>5. Rep(a + c, b + d) = Rep(r1 + r3, r2 + r4)
  BY <1>1, <1>4, RepSame
<1> QED
  BY <1>2, <1>5

\* The parts of a sum and of a product.
Plus(a, b) == a + b
MulRe(a, b, c, d) == a * c - b * d
MulIm(a, b, c, d) == a * d + b * c

LEMMA PartsInt ==
    ASSUME NEW a \in Int, NEW b \in Int, NEW c \in Int, NEW d \in Int
    PROVE  Plus(a, b) \in Int /\ MulRe(a, b, c, d) \in Int /\ MulIm(a, b, c, d) \in Int
  BY DEF Plus, MulRe, MulIm

LEMMA AddPlus ==
    ASSUME NEW a \in Int, NEW b \in Int, NEW c \in Int, NEW d \in Int
    PROVE  Add(Rep(a, b), Rep(c, d)) = Rep(Plus(a, c), Plus(b, d))
  BY AddRep DEF Plus

LEMMA MulRep ==
    ASSUME NEW a \in Int, NEW b \in Int, NEW c \in Int, NEW d \in Int
    PROVE  Mul(Rep(a, b), Rep(c, d)) = Rep(MulRe(a, b, c, d), MulIm(a, b, c, d))
<1> DEFINE s1 == a \div Q  r1 == a % Q  s2 == b \div Q  r2 == b % Q
           s3 == c \div Q  r3 == c % Q  s4 == d \div Q  r4 == d % Q
<1>1. /\ s1 \in Int /\ r1 \in Int /\ a = s1 * Q + r1 /\ s2 \in Int /\ r2 \in Int /\ b = s2 * Q + r2
      /\ s3 \in Int /\ r3 \in Int /\ c = s3 * Q + r3 /\ s4 \in Int /\ r4 \in Int /\ d = s4 * Q + r4
  BY Parts
<1>2. Mul(Rep(a, b), Rep(c, d)) = Rep(r1 * r3 - r2 * r4, r1 * r4 + r2 * r3)
  <2>1. Defined(Rep(a, b)) /\ Defined(Rep(c, d))
    BY RepNumber, NumberDefined
  <2> QED
    BY <2>1 DEF Mul, Rep
<1> HIDE DEF s1, r1, s2, r2, s3, r3, s4, r4
<1>3. Q \in Int
  BY Modulus
\* The product of two remainders.
<1>4. ASSUME NEW x \in Int, NEW y \in Int, NEW sx \in Int, NEW rx \in Int, NEW sy \in Int,
             NEW ry \in Int, x = sx * Q + rx, y = sy * Q + ry
      PROVE  \E t \in Int : x * y = rx * ry + t * Q
  <2> DEFINE t == sx * Q * sy + sx * ry + rx * sy
  <2>1. t \in Int
    BY <1>3
  <2>2. (sx * Q + rx) * (sy * Q + ry) = rx * ry + (sx * Q * sy + sx * ry + rx * sy) * Q
    BY <1>3
  <2> QED
    BY <1>4, <2>1, <2>2
<1>5. PICK t1 \in Int : a * c = r1 * r3 + t1 * Q
  BY <1>1, <1>4
<1>6. PICK t2 \in Int : b * d = r2 * r4 + t2 * Q
  BY <1>1, <1>4
<1>7. PICK t3 \in Int : a * d = r1 * r4 + t3 * Q
  BY <1>1, <1>4
<1>8. PICK t4 \in Int : b * c = r2 * r3 + t4 * Q
  BY <1>1, <1>4
<1> DEFINE p1 == r1 * r3  p2 == r2 * r4  p3 == r1 * r4  p4 == r2 * r3
           q1 == t1 * Q  q2 == t2 * Q  q3 == t3 * Q  q4 == t4 * Q
<1>9. /\ p1 \in Int /\ p2 \in Int /\ p3 \in Int /\ p4 \in Int
      /\ q1 \in Int /\ q2 \in Int /\ q3 \in Int /\ q4 \in Int
  BY <1>1, <1>3
<1>10. (t1 - t2) * Q = q1 - q2 /\ (t3 + t4) * Q = q3 + q4
  BY <1>3
<1>11. /\ a * c - b * d = (p1 + q1) - (p2 + q2)
       /\ a * d + b * c = (p3 + q3) + (p4 + q4)
  BY <1>5, <1>6, <1>7, <1>8
<1> DEFINE x == a * c - b * d  y == a * d + b * c
<1>12. x \in Int /\ y \in Int
  BY <1>9, <1>11
<1>13. x = (p1 - p2) + (t1 - t2) * Q /\ y = (p3 + p4) + (t3 + t4) * Q
  <2> HIDE DEF p1, p2, p3, p4, q1, q2, q3, q4
  <2> QED
    BY <1>9, <1>10, <1>11
<1> HIDE DEF x, y
<1>14. Rep(x, y) = Rep(p1 - p2, p3 + p4)
  <2> HIDE DEF p1, p2, p3, p4
  <2>1. p1 - p2 \in Int /\ p3 + p4 \in Int /\ t1 - t2 \in Int /\ t3 + t4 \in Int
    BY <1>9
  <2> QED
    BY <1>12, <1>13, <2>1, RepSame
<1> QED
  BY <1>2, <1>14 DEF x, y, MulRe, MulIm

LEMMA NumberClosed ==
    ASSUME NEW x \in Number, NEW y \in Number
    PROVE  Add(x, y) \in Number /\ Mul(x, y) \in Number
<1>1. PICK a \in Int, b \in Int : x = Rep(a, b)
  BY NumberRep
<1>2. PICK c \in Int, d \in Int : y = Rep(c, d)
  BY NumberRep
<1> DEFINE p == Plus(a, c)  q == Plus(b, d)  r == MulRe(a, b, c, d)  s == MulIm(a, b, c, d)
<1>3. p \in Int /\ q \in Int /\ r \in Int /\ s \in Int
  BY PartsInt
<1>4. Add(x, y) = Rep(p, q) /\ Mul(x, y) = Rep(r, s)
  BY <1>1, <1>2, AddPlus, MulRep
<1> HIDE DEF p, q, r, s
<1> QED
  BY <1>3, <1>4, RepNumber

LEMMA AddCommutes ==
    ASSUME NEW x \in Number, NEW y \in Number
    PROVE  Add(x, y) = Add(y, x)
<1>1. PICK a \in Int, b \in Int : x = Rep(a, b)
  BY NumberRep
<1>2. PICK c \in Int, d \in Int : y = Rep(c, d)
  BY NumberRep
<1>3. Plus(a, c) = Plus(c, a) /\ Plus(b, d) = Plus(d, b)
  BY DEF Plus
<1> QED
  BY <1>1, <1>2, <1>3, AddPlus

LEMMA AddAssociates ==
    ASSUME NEW x \in Number, NEW y \in Number, NEW z \in Number
    PROVE  Add(Add(x, y), z) = Add(x, Add(y, z))
<1>1. PICK a \in Int, b \in Int : x = Rep(a, b)
  BY NumberRep
<1>2. PICK c \in Int, d \in Int : y = Rep(c, d)
  BY NumberRep
<1>3. PICK e \in Int, f \in Int : z = Rep(e, f)
  BY NumberRep
<1>4. Plus(a, c) \in Int /\ Plus(b, d) \in Int /\ Plus(c, e) \in Int /\ Plus(d, f) \in Int
  BY PartsInt
<1>5. Add(Add(x, y), z) = Rep(Plus(Plus(a, c), e), Plus(Plus(b, d), f))
  BY <1>1, <1>2, <1>3, <1>4, AddPlus
<1>6. Add(x, Add(y, z)) = Rep(Plus(a, Plus(c, e)), Plus(b, Plus(d, f)))
  BY <1>1, <1>2, <1>3, <1>4, AddPlus
<1>7. Plus(Plus(a, c), e) = Plus(a, Plus(c, e)) /\ Plus(Plus(b, d), f) = Plus(b, Plus(d, f))
  BY DEF Plus
<1> QED
  BY <1>5, <1>6, <1>7

LEMMA AddFour ==
    ASSUME NEW a \in Number, NEW b \in Number, NEW c \in Number, NEW d \in Number
    PROVE  Add(Add(a, b), Add(c, d)) = Add(Add(a, c), Add(b, d))
<1>1. Add(a, b) \in Number /\ Add(c, d) \in Number /\ Add(b, d) \in Number /\ Add(d, b) \in Number
  BY NumberClosed
<1>2. Add(Add(a, b), Add(c, d)) = Add(a, Add(b, Add(c, d)))
  BY <1>1, AddAssociates
<1>3. Add(b, Add(c, d)) = Add(Add(c, d), b)
  BY <1>1, AddCommutes
<1>4. Add(Add(c, d), b) = Add(c, Add(d, b))
  BY <1>1, AddAssociates
<1>5. Add(d, b) = Add(b, d)
  BY AddCommutes
<1>6. Add(a, Add(c, Add(b, d))) = Add(Add(a, c), Add(b, d))
  BY <1>1, AddAssociates
<1> QED
  BY <1>2, <1>3, <1>4, <1>5, <1>6

LEMMA MulCommutes ==
    ASSUME NEW x \in Number, NEW y \in Number
    PROVE  Mul(x, y) = Mul(y, x)
<1>1. PICK a \in Int, b \in Int : x = Rep(a, b)
  BY NumberRep
<1>2. PICK c \in Int, d \in Int : y = Rep(c, d)
  BY NumberRep
<1>3. MulRe(a, b, c, d) = MulRe(c, d, a, b) /\ MulIm(a, b, c, d) = MulIm(c, d, a, b)
  BY DEF MulRe, MulIm
<1> QED
  BY <1>1, <1>2, <1>3, MulRep

\* The polynomial identities of associativity and distributivity.
LEMMA ProductOfProducts ==
    ASSUME NEW a \in Int, NEW b \in Int, NEW c \in Int, NEW d \in Int, NEW e \in Int, NEW f \in Int
    PROVE  /\ (a * c - b * d) * e - (a * d + b * c) * f = a * (c * e - d * f) - b * (c * f + d * e)
           /\ (a * c - b * d) * f + (a * d + b * c) * e = a * (c * f + d * e) + b * (c * e - d * f)
  OBVIOUS

LEMMA ProductOfSum ==
    ASSUME NEW a \in Int, NEW b \in Int, NEW c \in Int, NEW d \in Int, NEW e \in Int, NEW f \in Int
    PROVE  /\ (a + c) * e - (b + d) * f = (a * e - b * f) + (c * e - d * f)
           /\ (a + c) * f + (b + d) * e = (a * f + b * e) + (c * f + d * e)
  OBVIOUS

LEMMA MulAssociates ==
    ASSUME NEW x \in Number, NEW y \in Number, NEW z \in Number
    PROVE  Mul(Mul(x, y), z) = Mul(x, Mul(y, z))
<1>1. PICK a \in Int, b \in Int : x = Rep(a, b)
  BY NumberRep
<1>2. PICK c \in Int, d \in Int : y = Rep(c, d)
  BY NumberRep
<1>3. PICK e \in Int, f \in Int : z = Rep(e, f)
  BY NumberRep
<1> DEFINE p == MulRe(a, b, c, d)  q == MulIm(a, b, c, d)  r == MulRe(c, d, e, f)  s == MulIm(c, d, e, f)
<1>4. p \in Int /\ q \in Int /\ r \in Int /\ s \in Int
  BY PartsInt
<1>5. Mul(x, y) = Rep(p, q) /\ Mul(y, z) = Rep(r, s)
  BY <1>1, <1>2, <1>3, MulRep
<1>6. MulRe(p, q, e, f) = MulRe(a, b, r, s) /\ MulIm(p, q, e, f) = MulIm(a, b, r, s)
  BY ProductOfProducts DEF MulRe, MulIm
<1> HIDE DEF p, q, r, s
<1>7. Mul(Mul(x, y), z) = Rep(MulRe(p, q, e, f), MulIm(p, q, e, f))
  BY <1>3, <1>4, <1>5, MulRep
<1>8. Mul(x, Mul(y, z)) = Rep(MulRe(a, b, r, s), MulIm(a, b, r, s))
  BY <1>1, <1>4, <1>5, MulRep
<1> QED
  BY <1>6, <1>7, <1>8

LEMMA MulDistributes ==
    ASSUME NEW x \in Number, NEW y \in Number, NEW z \in Number
    PROVE  Mul(Add(x, y), z) = Add(Mul(x, z), Mul(y, z))
<1>1. PICK a \in Int, b \in Int : x = Rep(a, b)
  BY NumberRep
<1>2. PICK c \in Int, d \in Int : y = Rep(c, d)
  BY NumberRep
<1>3. PICK e \in Int, f \in Int : z = Rep(e, f)
  BY NumberRep
<1> DEFINE p == Plus(a, c)  q == Plus(b, d)
           r == MulRe(a, b, e, f)  s == MulIm(a, b, e, f)
           t == MulRe(c, d, e, f)  u == MulIm(c, d, e, f)
<1>4. p \in Int /\ q \in Int /\ r \in Int /\ s \in Int /\ t \in Int /\ u \in Int
  BY PartsInt
<1>5. Add(x, y) = Rep(p, q) /\ Mul(x, z) = Rep(r, s) /\ Mul(y, z) = Rep(t, u)
  BY <1>1, <1>2, <1>3, MulRep, AddPlus
<1>6. MulRe(p, q, e, f) = Plus(r, t) /\ MulIm(p, q, e, f) = Plus(s, u)
  BY ProductOfSum DEF MulRe, MulIm, Plus
<1> HIDE DEF p, q, r, s, t, u
<1>7. Mul(Add(x, y), z) = Rep(MulRe(p, q, e, f), MulIm(p, q, e, f))
  BY <1>3, <1>4, <1>5, MulRep
<1>8. Add(Mul(x, z), Mul(y, z)) = Rep(Plus(r, t), Plus(s, u))
  BY <1>4, <1>5, AddPlus
<1> QED
  BY <1>6, <1>7, <1>8

LEMMA Units == Zero = Rep(0, 0) /\ One = Rep(1, 0) /\ Zero \in Number /\ One \in Number
<1>1. 0 \in Points(Q) /\ 1 \in Points(Q)
  BY Modulus DEF Points
<1>2. 0 % Q = 0 /\ 1 % Q = 1
  BY <1>1, Modulus, SmallRemainder
<1>3. Zero = Rep(0, 0) /\ One = Rep(1, 0)
  BY <1>2 DEF Zero, One, Rep
<1>4. Rep(0, 0) \in Number /\ Rep(1, 0) \in Number
  BY RepNumber
<1> QED
  BY <1>3, <1>4

LEMMA ZeroOne ==
    ASSUME NEW x \in Number
    PROVE  Add(Zero, x) = x /\ Add(x, Zero) = x /\ Mul(One, x) = x /\ Mul(x, One) = x /\ Mul(Zero, x) = Zero
<1>1. PICK a \in Int, b \in Int : x = Rep(a, b)
  BY NumberRep
<1>2. Add(Zero, x) = Rep(Plus(0, a), Plus(0, b))
  BY <1>1, Units, AddPlus
<1>3. Mul(One, x) = Rep(MulRe(1, 0, a, b), MulIm(1, 0, a, b))
  BY <1>1, Units, MulRep
<1>4. Mul(Zero, x) = Rep(MulRe(0, 0, a, b), MulIm(0, 0, a, b))
  BY <1>1, Units, MulRep
<1>5. /\ Plus(0, a) = a /\ Plus(0, b) = b
      /\ MulRe(1, 0, a, b) = a /\ MulIm(1, 0, a, b) = b
      /\ MulRe(0, 0, a, b) = 0 /\ MulIm(0, 0, a, b) = 0
  BY DEF Plus, MulRe, MulIm
<1>6. Add(x, Zero) = Add(Zero, x) /\ Mul(x, One) = Mul(One, x)
  BY Units, AddCommutes, MulCommutes
<1> QED
  BY <1>1, <1>2, <1>3, <1>4, <1>5, <1>6, Units

-----------------------------------------------------------------------------
(* The points of the unit circle.                                          *)

\* h[k] is the k-th power of Root.
IsPower(h, n) ==
  /\ h \in [0 .. n -> Number]
  /\ h[0] = One
  /\ \A k \in 0 .. n - 1 : h[k + 1] = Mul(h[k], Root)

LEMMA RootNumber == Root \in Number
  BY CircleAssumption DEF Number

LEMMA PowersExist ==
    ASSUME NEW n \in Nat
    PROVE  \E h : IsPower(h, n)
<1> DEFINE step == [p \in Nat \X Number |-> Mul(p[2], Root)]
<1>1. step \in [Nat \X Number -> Number]
  <2>1. \A p \in Nat \X Number : p[2] \in Number
    OBVIOUS
  <2> QED
    BY <2>1, RootNumber, NumberClosed
<1>2. \A k \in Nat : \A x \in Number : step[<<k, x>>] = Mul(x, Root)
  OBVIOUS
<1> HIDE DEF step
<1>3. PICK h : Follows(h, Number, One, step, n)
  BY <1>1, Units, RecursionExists
<1>4. h \in [0 .. n -> Number] /\ h[0] = One /\ \A k \in 0 .. n - 1 : h[k + 1] = step[<<k, h[k]>>]
  BY <1>3 DEF Follows
<1>5. \A k \in 0 .. n - 1 : h[k + 1] = Mul(h[k], Root)
  <2> TAKE k \in 0 .. n - 1
  <2>1. h[k] \in Number /\ k \in Nat
    BY <1>4
  <2> QED
    BY <1>2, <1>4, <2>1
<1> QED
  BY <1>4, <1>5 DEF IsPower

LEMMA PowersAdd ==
    ASSUME NEW n \in Nat, NEW h, IsPower(h, n), NEW a \in Nat, NEW b \in Nat, a + b <= n
    PROVE  h[a + b] = Mul(h[a], h[b])
<1>1. h \in [0 .. n -> Number] /\ h[0] = One /\ \A k \in 0 .. n - 1 : h[k + 1] = Mul(h[k], Root)
  BY DEF IsPower
<1> DEFINE S == {k \in Nat : a + k <= n => h[a + k] = Mul(h[a], h[k])}
<1>2. 0 \in S
  <2>1. h[a] \in Number
    BY <1>1
  <2> QED
    BY <1>1, <2>1, ZeroOne
<1>3. ASSUME NEW k \in Nat, k \in S PROVE k + 1 \in S
  <2>1. ASSUME a + (k + 1) <= n PROVE h[a + (k + 1)] = Mul(h[a], h[k + 1])
    <3>1. k \in 0 .. n - 1 /\ a + k \in 0 .. n - 1 /\ (a + k) + 1 = a + (k + 1) /\ a \in 0 .. n
          /\ k \in 0 .. n /\ a + k <= n
      BY <2>1
    <3>2. h[a + k] = Mul(h[a], h[k])
      BY <1>3, <3>1
    <3>3. h[(a + k) + 1] = Mul(h[a + k], Root) /\ h[k + 1] = Mul(h[k], Root)
      BY <1>1, <3>1
    <3>4. h[a] \in Number /\ h[k] \in Number
      BY <1>1, <3>1
    <3>5. Mul(Mul(h[a], h[k]), Root) = Mul(h[a], Mul(h[k], Root))
      BY <3>4, RootNumber, MulAssociates
    <3> QED
      BY <3>1, <3>2, <3>3, <3>5
  <2> QED
    BY <2>1
<1> HIDE DEF S
<1>4. b \in S
  BY <1>2, <1>3, SetInduction
<1> QED
  BY <1>4 DEF S

\* A power is the square of half of it, and Root once more when it is odd.
LEMMA PowersHalve ==
    ASSUME NEW n \in Nat, NEW h, IsPower(h, n), NEW k \in 0 .. n, k # 0
    PROVE  /\ k \div 2 \in 0 .. k - 1
           /\ h[k] = Mul(Mul(h[k \div 2], h[k \div 2]), IF k % 2 = 0 THEN One ELSE Root)
<1>1. h \in [0 .. n -> Number] /\ h[0] = One /\ \A i \in 0 .. n - 1 : h[i + 1] = Mul(h[i], Root)
  BY DEF IsPower
<1> DEFINE q == k \div 2  r == k % 2
<1>2. k \in Nat /\ q \in Nat /\ r \in 0 .. 1 /\ k = 2 * q + r
  OBVIOUS
<1> HIDE DEF q, r
<1>3. q \in 0 .. k - 1 /\ q \in 0 .. n /\ q + q <= n /\ q + q \in 0 .. n
  BY <1>2
<1>4. h[q + q] = Mul(h[q], h[q])
  BY <1>2, <1>3, PowersAdd
<1>5. h[k] = Mul(Mul(h[q], h[q]), IF r = 0 THEN One ELSE Root)
  <2>1. CASE r = 0
    <3>1. k = q + q /\ h[q + q] \in Number
      BY <1>1, <1>2, <1>3, <2>1
    <3> QED
      BY <1>4, <2>1, <3>1, ZeroOne
  <2>2. CASE r = 1
    <3>1. k = (q + q) + 1 /\ q + q \in 0 .. n - 1
      BY <1>2, <2>2
    <3>2. h[(q + q) + 1] = Mul(h[q + q], Root)
      BY <1>1, <3>1
    <3> QED
      BY <1>4, <2>2, <3>1, <3>2
  <2> QED
    BY <1>2, <2>1, <2>2
<1> QED
  BY <1>3, <1>5 DEF q, r

LEMMA CirclePowers == IsPower(Circle, Q)
<1> DEFINE E(f) == f = [k \in 0 .. Q |->
                          IF k = 0 THEN One
                          ELSE LET half == f[k \div 2]
                               IN  Mul(Mul(half, half), IF k % 2 = 0 THEN One ELSE Root)]
           f0 == CHOOSE f : E(f)
<1>0. Q \in Nat
  BY Modulus
<1>1. PICK h : IsPower(h, Q)
  BY <1>0, PowersExist
<1>2. h \in [0 .. Q -> Number] /\ h[0] = One
  BY <1>1 DEF IsPower
<1>3. \A k \in 0 .. Q : k # 0 =>
         /\ k \div 2 \in 0 .. k - 1
         /\ h[k] = Mul(Mul(h[k \div 2], h[k \div 2]), IF k % 2 = 0 THEN One ELSE Root)
  BY <1>0, <1>1, PowersHalve
<1>4. E(h)
  <2>1. \A k \in 0 .. Q : h[k] = IF k = 0 THEN One
                                 ELSE LET half == h[k \div 2]
                                      IN  Mul(Mul(half, half), IF k % 2 = 0 THEN One ELSE Root)
    BY <1>2, <1>3
  <2> QED
    BY <1>2, <2>1
<1>5. E(f0)
  BY <1>4
<1> HIDE DEF f0
<1>6. f0[0] = One /\ \A k \in 0 .. Q : k # 0 =>
         f0[k] = Mul(Mul(f0[k \div 2], f0[k \div 2]), IF k % 2 = 0 THEN One ELSE Root)
  BY <1>0, <1>5
<1> DEFINE S == {k \in Nat : k <= Q => f0[k] = h[k]}
<1>7. ASSUME NEW k \in Nat, 0 .. k - 1 \subseteq S PROVE k \in S
  <2>1. CASE k = 0
    BY <1>2, <1>6, <2>1
  <2>2. CASE k # 0 /\ k <= Q
    <3>1. k \in 0 .. Q
      BY <1>0, <2>2
    <3>2. k \div 2 \in 0 .. k - 1
      BY <1>3, <2>2, <3>1
    <3> DEFINE m == k \div 2
    <3>3. m \in S /\ m <= Q /\ m \in Nat
      BY <1>0, <1>7, <2>2, <3>2
    <3>4. f0[m] = h[m]
      BY <3>3
    <3> QED
      BY <1>3, <1>6, <2>2, <3>1, <3>4
  <2>3. CASE ~(k <= Q)
    BY <2>3
  <2> QED
    BY <2>1, <2>2, <2>3
<1> HIDE DEF S
<1>8. Nat \subseteq S
  BY <1>7, StrongInduction
<1>9. \A k \in 0 .. Q : f0[k] = h[k]
  BY <1>8 DEF S
<1>10. Circle = [k \in 0 .. Q |-> f0[k]]
  BY DEF Circle, f0
<1>11. Circle = h
  BY <1>2, <1>9, <1>10
<1> QED
  BY <1>1, <1>11

\* Numbering the points of the circle by all integers.
Turn(k) == Circle[k % (Q + 1)]

LEMMA CircleOnce ==
    /\ \A k \in 0 .. Q : Circle[k] \in Number
    /\ Circle[0] = One
    /\ \A k \in 0 .. Q - 1 : Circle[k + 1] = Mul(Circle[k], Root)
    /\ Mul(Circle[Q], Root) = One
<1>0. Q \in Nat
  BY Modulus
<1>1. /\ Circle \in [0 .. Q -> Number] /\ Circle[0] = One
      /\ \A k \in 0 .. Q - 1 : Circle[k + 1] = Mul(Circle[k], Root)
  BY CirclePowers DEF IsPower
<1> DEFINE m == (Q + 1) \div 4
<1>2. m \in Nat /\ m >= 1 /\ Q = 4 * m - 1
  BY CircleAssumption
<1>3. Circle[m] = ImaginaryUnit
  BY CircleAssumption
<1> HIDE DEF m
<1>4. ImaginaryUnit = Rep(0, 1)
  <2>1. 0 \in Points(Q) /\ 1 \in Points(Q)
    BY Modulus DEF Points
  <2> QED
    BY <2>1, Modulus, SmallRemainder DEF ImaginaryUnit, Rep
<1>5. Mul(ImaginaryUnit, ImaginaryUnit) = Rep(-1, 0)
  <2>1. MulRe(0, 1, 0, 1) = -1 /\ MulIm(0, 1, 0, 1) = 0
    BY DEF MulRe, MulIm
  <2> QED
    BY <1>4, <2>1, MulRep
<1>6. Mul(Rep(-1, 0), Rep(-1, 0)) = One
  <2>1. MulRe(-1, 0, -1, 0) = 1 /\ MulIm(-1, 0, -1, 0) = 0
    BY DEF MulRe, MulIm
  <2>2. Mul(Rep(-1, 0), Rep(-1, 0)) = Rep(1, 0)
    BY <2>1, MulRep
  <2> QED
    BY <2>2, Units
<1>7. Circle[m + m] = Rep(-1, 0)
  <2>1. m + m <= Q
    BY <1>2
  <2>2. Circle[m + m] = Mul(Circle[m], Circle[m])
    BY <1>0, <1>2, <2>1, CirclePowers, PowersAdd
  <2> QED
    BY <1>3, <1>5, <2>2
\* Q = (m + m) + (m + (m - 1)).
<1> DEFINE c2 == m + m  p == m - 1  c3 == c2 + m
<1>8. c2 \in Nat /\ p \in Nat /\ c3 \in Nat /\ c3 <= Q /\ c3 + p = Q /\ c2 + m = c3 /\ p + 1 = m
      /\ p \in 0 .. Q - 1 /\ p \in 0 .. Q /\ c3 \in 0 .. Q
  BY <1>2
<1>9. Circle[c2] = Rep(-1, 0)
  BY <1>7
<1> HIDE DEF c2, p, c3
<1>10. Circle[c2 + m] = Mul(Rep(-1, 0), ImaginaryUnit)
  <2>1. Circle[c2 + m] = Mul(Circle[c2], Circle[m])
    BY <1>0, <1>2, <1>8, CirclePowers, PowersAdd
  <2> QED
    BY <1>3, <1>9, <2>1
<1>11. Circle[c3 + p] = Mul(Circle[c3], Circle[p])
  <2>1. c3 + p <= Q
    BY <1>0, <1>8
  <2> QED
    BY <1>0, <1>8, <2>1, CirclePowers, PowersAdd
<1>12. Mul(Circle[p], Root) = ImaginaryUnit
  <2>1. Circle[p + 1] = Mul(Circle[p], Root)
    BY <1>1, <1>8
  <2> QED
    BY <1>3, <1>8, <2>1
<1>13. Circle[c3] \in Number /\ Circle[p] \in Number
  BY <1>1, <1>8
<1>14. ImaginaryUnit \in Number /\ Rep(-1, 0) \in Number
  BY <1>4, RepNumber
<1>15. Mul(Mul(Circle[c3], Circle[p]), Root) = Mul(Circle[c3], ImaginaryUnit)
  <2>1. Mul(Mul(Circle[c3], Circle[p]), Root) = Mul(Circle[c3], Mul(Circle[p], Root))
    BY <1>13, RootNumber, MulAssociates
  <2> QED
    BY <1>12, <2>1
<1>16. Mul(Mul(Rep(-1, 0), ImaginaryUnit), ImaginaryUnit) = One
  <2>1. Mul(Mul(Rep(-1, 0), ImaginaryUnit), ImaginaryUnit)
          = Mul(Rep(-1, 0), Mul(ImaginaryUnit, ImaginaryUnit))
    BY <1>14, MulAssociates
  <2> QED
    BY <1>5, <1>6, <2>1
<1>17. Mul(Circle[Q], Root) = One
  BY <1>8, <1>10, <1>11, <1>15, <1>16
<1> QED
  BY <1>1, <1>17

LEMMA TurnNumber ==
    ASSUME NEW k \in Int PROVE Turn(k) \in Number
<1>1. Q \in Nat /\ k % (Q + 1) \in Points(Q + 1)
  BY Modulus, IntDivMod
<1>2. k % (Q + 1) \in 0 .. Q
  BY <1>1 DEF Points
<1> QED
  BY <1>2, CircleOnce DEF Turn

LEMMA TurnNext ==
    ASSUME NEW k \in Int PROVE Turn(k + 1) = Mul(Turn(k), Root)
<1>0. Q \in Nat /\ Q + 1 \in Positive
  BY Modulus
<1> DEFINE r == k % (Q + 1)  q == k \div (Q + 1)
<1>1. q \in Int /\ r \in Points(Q + 1) /\ k = q * (Q + 1) + r
  BY <1>0, IntDivMod
<1> HIDE DEF r, q
<1>2. r \in 0 .. Q /\ r \in Int
  BY <1>0, <1>1 DEF Points
<1>3. CASE r # Q
  <2>1. r + 1 \in Points(Q + 1) /\ r \in 0 .. Q - 1
    BY <1>0, <1>2, <1>3 DEF Points
  <2>2. k + 1 = (r + 1) + q * (Q + 1)
    BY <1>0, <1>1, <1>2
  <2>3. (k + 1) % (Q + 1) = (r + 1) % (Q + 1)
    BY <1>0, <1>1, <1>2, <2>2, SameRemainder
  <2>4. (r + 1) % (Q + 1) = r + 1
    BY <1>0, <2>1, SmallRemainder
  <2>5. Circle[r + 1] = Mul(Circle[r], Root)
    BY <2>1, CircleOnce
  <2> QED
    BY <2>3, <2>4, <2>5 DEF Turn, r
<1>4. CASE r = Q
  <2>1. k + 1 = 0 + (q + 1) * (Q + 1)
    BY <1>0, <1>1, <1>4
  <2>2. (k + 1) % (Q + 1) = 0 % (Q + 1)
    BY <1>0, <1>1, <2>1, SameRemainder
  <2>3. 0 \in Points(Q + 1)
    BY <1>0 DEF Points
  <2>4. 0 % (Q + 1) = 0
    BY <1>0, <2>3, SmallRemainder
  <2>5. Turn(k + 1) = One /\ Turn(k) = Circle[Q]
    BY <1>4, <2>2, <2>4, CircleOnce DEF Turn, r
  <2> QED
    BY <2>5, CircleOnce
<1> QED
  BY <1>3, <1>4

\* Whole revolutions do not count.
LEMMA TurnSame ==
    ASSUME NEW a \in Int, NEW b \in Int, NEW t \in Int, a = b + t * (Q + 1)
    PROVE  Turn(a) = Turn(b)
<1>1. a % (Q + 1) = b % (Q + 1)
  BY Modulus, SameRemainder
<1> QED
  BY <1>1 DEF Turn

LEMMA TurnAdd ==
    ASSUME NEW a \in Int, NEW b \in Int
    PROVE  Turn(a + b) = Mul(Turn(a), Turn(b))
<1>0. Q \in Nat /\ Q + 1 \in Positive
  BY Modulus
<1> DEFINE S == {k \in Nat : Turn(a + k) = Mul(Turn(a), Turn(k))}
<1>1. 0 \in S
  <2>1. 0 \in Points(Q + 1)
    BY <1>0 DEF Points
  <2>2. Turn(0) = One
    BY <1>0, <2>1, SmallRemainder, CircleOnce DEF Turn
  <2>3. a + 0 = a
    OBVIOUS
  <2> QED
    BY <2>2, <2>3, TurnNumber, ZeroOne
<1>2. ASSUME NEW k \in Nat, k \in S PROVE k + 1 \in S
  <2>1. Turn(a + k) = Mul(Turn(a), Turn(k))
    BY <1>2
  <2>2. a + (k + 1) = (a + k) + 1 /\ a + k \in Int /\ k \in Int
    OBVIOUS
  <2>3. Turn((a + k) + 1) = Mul(Turn(a + k), Root) /\ Turn(k + 1) = Mul(Turn(k), Root)
    BY <2>2, TurnNext
  <2>4. Mul(Mul(Turn(a), Turn(k)), Root) = Mul(Turn(a), Mul(Turn(k), Root))
    BY <2>2, TurnNumber, RootNumber, MulAssociates
  <2>5. Turn(a + (k + 1)) = Mul(Turn(a), Turn(k + 1))
    BY <2>1, <2>2, <2>3, <2>4
  <2> QED
    BY <2>5
<1> HIDE DEF S
<1>3. Nat \subseteq S
  BY <1>1, <1>2, SetInduction
<1> DEFINE q == b \div (Q + 1)  r == b % (Q + 1)
<1>4. q \in Int /\ r \in Points(Q + 1) /\ b = q * (Q + 1) + r
  BY <1>0, IntDivMod
<1> HIDE DEF q, r
<1>5. r \in Nat /\ r \in Int
  BY <1>0, <1>4 DEF Points
<1>6. Turn(a + r) = Mul(Turn(a), Turn(r))
  BY <1>3, <1>5 DEF S
<1>7. b = r + q * (Q + 1) /\ a + b = (a + r) + q * (Q + 1) /\ a + r \in Int /\ a + b \in Int
  BY <1>0, <1>4, <1>5
<1>8. Turn(b) = Turn(r)
  BY <1>4, <1>5, <1>7, TurnSame
<1>9. Turn(a + b) = Turn(a + r)
  BY <1>4, <1>7, TurnSame
<1> QED
  BY <1>6, <1>8, <1>9

-----------------------------------------------------------------------------
(* The roots of unity the passes turn by.                                  *)

\* The circle has the turns by 1 / n of a revolution.
Divides(n) == n \in Positive /\ \E e \in Positive : Q + 1 = n * e

\* The turn by k / n of a revolution of a transform.
W(k, n, direction) == exp_i(exponent_sign(direction) * k, n)

LEMMA TurnedW ==
    ASSUME NEW v, NEW k, NEW n, NEW direction
    PROVE  Turned(v, <<k, n>>, direction) = Mul(v, W(k, n, direction))
  BY DEF Turned, W

LEMMA ExpTurn ==
    ASSUME NEW n \in Positive, NEW e \in Positive, Q + 1 = n * e, NEW k \in Int
    PROVE  exp_i(k, n) = Turn(k * e)
<1>0. Q \in Nat /\ Q + 1 \in Positive /\ n \in Int /\ e \in Int /\ n > 0 /\ e > 0
  BY Modulus DEF Positive
<1> DEFINE q == k \div n  r == k % n
<1>1. q \in Int /\ r \in Points(n) /\ k = q * n + r
  BY IntDivMod
<1>2. exp_i(k, n) = Circle[r * ((Q + 1) \div n)]
  BY DEF exp_i
<1> HIDE DEF q, r
<1>3. r \in Int /\ 0 <= r /\ r < n
  BY <1>0, <1>1 DEF Points
<1>4. (Q + 1) \div n = e
  <2> DEFINE d == (Q + 1) \div n  s == (Q + 1) % n
  <2>1. d \in Int /\ s \in Points(n) /\ Q + 1 = d * n + s
    BY <1>0, IntDivMod
  <2> HIDE DEF d, s
  <2>2. 0 \in Points(n) /\ e * n + 0 = d * n + s
    BY <1>0, <2>1 DEF Points
  <2>3. e = d
    BY <1>0, <2>1, <2>2, IntDigits
  <2> QED
    BY <2>3 DEF d
<1>5. r * e \in Points(Q + 1)
  <2>1. r * e >= 0
    BY <1>0, <1>3
  <2>2. r * e <= n * e - 1
    <3> DEFINE d == n - r - 1
    <3>1. d \in Nat /\ r = n - 1 - d
      BY <1>0, <1>3
    <3> HIDE DEF d
    <3>2. d * e >= 0 /\ r * e = n * e - e - d * e /\ d * e \in Int
      BY <1>0, <3>1
    <3>3. n * e \in Int /\ r * e \in Int
      BY <1>0, <1>3
    <3> QED
      BY <1>0, <3>2, <3>3
  <2>3. r * e \in Int /\ n * e \in Int
    BY <1>0, <1>3
  <2> QED
    BY <1>0, <2>1, <2>2, <2>3 DEF Points
<1>6. (r * e) % (Q + 1) = r * e
  BY <1>0, <1>5, SmallRemainder
<1>7. k * e = r * e + q * (Q + 1)
  <2>1. (q * n + r) * e = r * e + q * (n * e)
    BY <1>0, <1>1, <1>3
  <2> QED
    BY <1>1, <2>1
<1>8. k * e \in Int /\ r * e \in Int
  BY <1>0, <1>3
<1>9. Turn(k * e) = Turn(r * e)
  BY <1>1, <1>7, <1>8, TurnSame
<1> QED
  BY <1>2, <1>4, <1>6, <1>9 DEF Turn

LEMMA SignInt ==
    ASSUME NEW direction PROVE exponent_sign(direction) \in Int
  BY DEF exponent_sign

LEMMA WTurn ==
    ASSUME NEW n \in Positive, NEW e \in Positive, Q + 1 = n * e, NEW k \in Int, NEW direction
    PROVE  W(k, n, direction) = Turn((exponent_sign(direction) * k) * e)
<1> DEFINE j == exponent_sign(direction) * k
<1>1. j \in Int
  BY SignInt
<1> HIDE DEF j
<1>2. exp_i(j, n) = Turn(j * e)
  BY <1>1, ExpTurn
<1> QED
  BY <1>2 DEF W, j

LEMMA WNumber ==
    ASSUME NEW n, Divides(n), NEW k \in Int, NEW direction
    PROVE  W(k, n, direction) \in Number
<1>1. PICK e \in Positive : Q + 1 = n * e
  BY DEF Divides
<1> DEFINE j == (exponent_sign(direction) * k) * e
<1>2. j \in Int
  BY SignInt DEF Positive
<1>3. W(k, n, direction) = Turn(j)
  BY <1>1, WTurn DEF Divides
<1> HIDE DEF j
<1> QED
  BY <1>2, <1>3, TurnNumber

\* Turning twice is turning by the sum.
LEMMA WAdd ==
    ASSUME NEW n, Divides(n), NEW a \in Int, NEW b \in Int, NEW direction
    PROVE  Mul(W(a, n, direction), W(b, n, direction)) = W(a + b, n, direction)
<1>1. PICK e \in Positive : Q + 1 = n * e
  BY DEF Divides
<1>2. n \in Positive /\ a + b \in Int
  BY DEF Divides
<1> DEFINE s == exponent_sign(direction)  i == (s * a) * e  j == (s * b) * e
<1>3. W(a, n, direction) = Turn(i) /\ W(b, n, direction) = Turn(j)
  BY <1>1, <1>2, WTurn
<1>4. W(a + b, n, direction) = Turn((s * (a + b)) * e)
  BY <1>1, <1>2, WTurn
<1>5. s \in Int /\ e \in Int
  BY SignInt DEF Positive
<1> HIDE DEF s
<1>6. i \in Int /\ j \in Int /\ (s * (a + b)) * e = i + j
  BY <1>5
<1> HIDE DEF i, j
<1> QED
  BY <1>3, <1>4, <1>6, TurnAdd

LEMMA TurnZero == Turn(0) = One
<1>1. 0 \in Points(Q + 1)
  BY Modulus DEF Points
<1> QED
  BY <1>1, Modulus, SmallRemainder, CircleOnce DEF Turn

\* Turning by whole revolutions is not turning.
LEMMA WWhole ==
    ASSUME NEW n, Divides(n), NEW t \in Int, NEW direction
    PROVE  W(n * t, n, direction) = One
<1>1. PICK e \in Positive : Q + 1 = n * e
  BY DEF Divides
<1>2. n \in Positive /\ n \in Int /\ e \in Int
  BY DEF Divides, Positive
<1> DEFINE s == exponent_sign(direction)  j == n * t
<1>3. s \in Int /\ j \in Int
  BY <1>2, SignInt
<1>4. W(j, n, direction) = Turn((s * j) * e)
  BY <1>1, <1>2, <1>3, WTurn
<1> HIDE DEF s
<1>5. (s * (n * t)) * e = (s * t) * (n * e)
  BY <1>2, <1>3
<1>6. (s * j) * e = 0 + (s * t) * (Q + 1) /\ (s * j) * e \in Int /\ s * t \in Int
  BY <1>1, <1>2, <1>3, <1>5
<1> HIDE DEF j
<1>7. Turn((s * j) * e) = Turn(0)
  <2> DEFINE u == (s * j) * e  v == s * t
  <2>1. u \in Int /\ v \in Int /\ u = 0 + v * (Q + 1)
    BY <1>6
  <2> HIDE DEF u, v
  <2>2. Turn(u) = Turn(0)
    BY <2>1, TurnSame
  <2> QED
    BY <2>2 DEF u
<1> QED
  BY <1>4, <1>7, TurnZero DEF j

LEMMA PositiveTimes ==
    ASSUME NEW a \in Positive, NEW b \in Positive PROVE a * b \in Positive
  BY DEF Positive

LEMMA DividesPart ==
    ASSUME NEW n \in Positive, NEW f \in Positive, Divides(n * f)
    PROVE  Divides(n) /\ Divides(f)
<1>1. PICK e \in Positive : Q + 1 = (n * f) * e
  BY DEF Divides
<1>2. n \in Nat /\ n > 0 /\ f \in Nat /\ f > 0 /\ e \in Nat /\ e > 0
  BY DEF Positive
<1>3. (n * f) * e = n * (f * e) /\ (n * f) * e = f * (n * e)
  BY <1>2
<1>4. f * e \in Positive /\ n * e \in Positive
  BY PositiveTimes
<1> QED
  BY <1>1, <1>3, <1>4 DEF Divides

\* A fraction of a revolution may be reduced.
LEMMA WReduce ==
    ASSUME NEW n \in Positive, NEW f \in Positive, Divides(n * f), NEW k \in Int, NEW direction
    PROVE  W(k * f, n * f, direction) = W(k, n, direction)
<1>1. PICK e \in Positive : Q + 1 = (n * f) * e
  BY DEF Divides
<1>2. n \in Int /\ f \in Int /\ e \in Int /\ n * f \in Positive
  BY DEF Positive, Divides
<1>3. f * e \in Positive
  BY PositiveTimes
<1> DEFINE s == exponent_sign(direction)  j == k * f  g == f * e  m == n * f
<1>4. s \in Int /\ j \in Int /\ g \in Positive /\ m \in Positive
  BY <1>2, <1>3, SignInt
<1>5. Q + 1 = n * g /\ Q + 1 = m * e
  BY <1>1, <1>2
<1> HIDE DEF s
<1>6. (s * j) * e = (s * k) * g
  BY <1>2, <1>4
<1> HIDE DEF j, g, m
<1>7. W(j, m, direction) = Turn((s * j) * e)
  BY <1>4, <1>5, WTurn DEF s
<1>8. W(k, n, direction) = Turn((s * k) * g)
  BY <1>4, <1>5, WTurn DEF s
<1> QED
  BY <1>6, <1>7, <1>8 DEF j, m

-----------------------------------------------------------------------------
(* Sums.                                                                   *)

\* The first n values are numbers.
Numbers(v, n) == \A i \in 0 .. n - 1 : v[i] \in Number

\* t[k] is the sum of the first k values.
IsSum(t, v, n) ==
  /\ t \in [0 .. n -> Number]
  /\ t[0] = Zero
  /\ \A k \in 0 .. n - 1 : t[k + 1] = Add(t[k], v[k])

LEMMA SumExists ==
    ASSUME NEW n \in Nat, NEW v, Numbers(v, n)
    PROVE  \E t : IsSum(t, v, n)
<1> DEFINE step == [p \in Nat \X Number |-> IF p[1] \in 0 .. n - 1 THEN Add(p[2], v[p[1]]) ELSE Zero]
<1>1. step \in [Nat \X Number -> Number]
  <2> SUFFICES ASSUME NEW p \in Nat \X Number
               PROVE  (IF p[1] \in 0 .. n - 1 THEN Add(p[2], v[p[1]]) ELSE Zero) \in Number
    OBVIOUS
  <2>1. p[2] \in Number
    OBVIOUS
  <2>2. CASE p[1] \in 0 .. n - 1
    <3>1. v[p[1]] \in Number
      BY <2>2 DEF Numbers
    <3> QED
      BY <2>1, <2>2, <3>1, NumberClosed
  <2>3. CASE p[1] \notin 0 .. n - 1
    BY <2>3, Units
  <2> QED
    BY <2>2, <2>3
<1>2. ASSUME NEW k \in 0 .. n - 1, NEW x \in Number PROVE step[<<k, x>>] = Add(x, v[k])
  <2>1. <<k, x>> \in Nat \X Number /\ <<k, x>>[1] = k /\ <<k, x>>[2] = x
    OBVIOUS
  <2> QED
    BY <2>1
<1> HIDE DEF step
<1>3. PICK t : Follows(t, Number, Zero, step, n)
  BY <1>1, Units, RecursionExists
<1>4. t \in [0 .. n -> Number] /\ t[0] = Zero /\ \A k \in 0 .. n - 1 : t[k + 1] = step[<<k, t[k]>>]
  BY <1>3 DEF Follows
<1>5. \A k \in 0 .. n - 1 : t[k + 1] = Add(t[k], v[k])
  <2> TAKE k \in 0 .. n - 1
  <2>1. t[k] \in Number
    BY <1>4
  <2> QED
    BY <1>2, <1>4, <2>1
<1> QED
  BY <1>4, <1>5 DEF IsSum

LEMMA SumValue ==
    ASSUME NEW n \in Nat, NEW v, NEW t, IsSum(t, v, n), NEW m \in 0 .. n
    PROVE  Sum(v, m) = t[m]
<1> DEFINE E(f) == f = [k \in 0 .. m |-> IF k = 0 THEN Zero ELSE Add(f[k - 1], v[k - 1])]
           f0 == CHOOSE f : E(f)
           h == [k \in 0 .. m |-> t[k]]
<1>1. t \in [0 .. n -> Number] /\ t[0] = Zero /\ \A k \in 0 .. n - 1 : t[k + 1] = Add(t[k], v[k])
  BY DEF IsSum
<1>2. ASSUME NEW k \in 0 .. m
      PROVE  h[k] = IF k = 0 THEN Zero ELSE Add(h[k - 1], v[k - 1])
  <2>1. CASE k = 0
    BY <1>1, <2>1
  <2>2. CASE k # 0
    <3>1. k - 1 \in 0 .. n - 1 /\ (k - 1) + 1 = k /\ k - 1 \in 0 .. m
      BY <2>2
    <3>2. t[(k - 1) + 1] = Add(t[k - 1], v[k - 1])
      BY <1>1, <3>1
    <3> QED
      BY <2>2, <3>1, <3>2
  <2> QED
    BY <2>1, <2>2
<1>3. E(h)
  BY <1>2
<1> HIDE DEF h
<1>4. E(f0)
  BY <1>3
<1> HIDE DEF f0
<1>5. f0[0] = Zero /\ \A k \in 0 .. m : k # 0 => f0[k] = Add(f0[k - 1], v[k - 1])
  BY <1>4
<1> DEFINE S == {k \in Nat : k <= m => f0[k] = t[k]}
<1>6. 0 \in S
  BY <1>1, <1>5
<1>7. ASSUME NEW k \in Nat, k \in S PROVE k + 1 \in S
  <2>1. ASSUME k + 1 <= m PROVE f0[k + 1] = t[k + 1]
    <3>1. k + 1 \in 0 .. m /\ k + 1 # 0 /\ (k + 1) - 1 = k /\ k \in 0 .. n - 1 /\ k <= m
      BY <2>1
    <3>2. f0[k + 1] = Add(f0[(k + 1) - 1], v[(k + 1) - 1])
      BY <1>5, <3>1
    <3>3. f0[k] = t[k]
      BY <1>7, <3>1
    <3> QED
      BY <1>1, <3>1, <3>2, <3>3
  <2> QED
    BY <2>1
<1> HIDE DEF S
<1>8. m \in S
  BY <1>6, <1>7, SetInduction
<1>9. f0[m] = t[m]
  BY <1>8 DEF S
<1>10. Sum(v, m) = f0[m]
  BY DEF Sum, f0
<1> QED
  BY <1>9, <1>10

\* What the definition says.
LEMMA SumStep ==
    ASSUME NEW n \in Nat, NEW v, Numbers(v, n)
    PROVE  /\ Sum(v, 0) = Zero
           /\ \A k \in 0 .. n : Sum(v, k) \in Number
           /\ \A k \in 0 .. n - 1 : Sum(v, k + 1) = Add(Sum(v, k), v[k])
<1>1. PICK t : IsSum(t, v, n)
  BY SumExists
<1>2. t \in [0 .. n -> Number] /\ t[0] = Zero /\ \A k \in 0 .. n - 1 : t[k + 1] = Add(t[k], v[k])
  BY <1>1 DEF IsSum
<1>3. \A k \in 0 .. n : Sum(v, k) = t[k]
  BY <1>1, SumValue
<1>4. \A k \in 0 .. n - 1 : Sum(v, k + 1) = Add(Sum(v, k), v[k])
  <2> TAKE k \in 0 .. n - 1
  <2>1. k \in 0 .. n /\ k + 1 \in 0 .. n
    OBVIOUS
  <2> QED
    BY <1>2, <1>3, <2>1
<1> QED
  BY <1>2, <1>3, <1>4

LEMMA SumNumber ==
    ASSUME NEW n \in Nat, NEW v, Numbers(v, n)
    PROVE  Sum(v, n) \in Number
  BY SumStep

\* A sum depends on its values only.
LEMMA SumSame ==
    ASSUME NEW n \in Nat, NEW v, NEW w, Numbers(v, n), \A i \in 0 .. n - 1 : v[i] = w[i]
    PROVE  Sum(v, n) = Sum(w, n)
<1>1. Numbers(w, n)
  BY DEF Numbers
<1> DEFINE S == {k \in Nat : Sum(v, k) = Sum(w, k)}
<1>2. 0 \in S
  BY <1>1, SumStep
<1>3. ASSUME NEW k \in 0 .. n - 1, k \in S PROVE k + 1 \in S
  <2>1. Sum(v, k) = Sum(w, k) /\ k + 1 \in Nat
    BY <1>3
  <2>2. Sum(v, k + 1) = Add(Sum(v, k), v[k])
    BY SumStep
  <2>3. Sum(w, k + 1) = Add(Sum(w, k), w[k])
    BY <1>1, SumStep
  <2> QED
    BY <2>1, <2>2, <2>3
<1> HIDE DEF S
<1>4. n \in S
  BY <1>2, <1>3, BoundedInduction
<1> QED
  BY <1>4 DEF S

\* The sum of sums.
LEMMA SumPlus ==
    ASSUME NEW n \in Nat, NEW v, NEW w, Numbers(v, n), Numbers(w, n),
           NEW u, \A i \in 0 .. n - 1 : u[i] = Add(v[i], w[i])
    PROVE  Sum(u, n) = Add(Sum(v, n), Sum(w, n)) /\ Numbers(u, n)
<1>1. Numbers(u, n)
  BY NumberClosed DEF Numbers
<1> DEFINE S == {k \in Nat : Sum(u, k) = Add(Sum(v, k), Sum(w, k))}
<1>2. 0 \in S
  <2>1. Sum(u, 0) = Zero /\ Sum(v, 0) = Zero /\ Sum(w, 0) = Zero
    BY <1>1, SumStep
  <2>2. Add(Zero, Zero) = Zero
    BY Units, ZeroOne
  <2> QED
    BY <2>1, <2>2
<1>3. ASSUME NEW k \in 0 .. n - 1, k \in S PROVE k + 1 \in S
  <2>0. k \in 0 .. n /\ k + 1 \in Nat
    OBVIOUS
  <2>1. Sum(u, k) = Add(Sum(v, k), Sum(w, k))
    BY <1>3
  <2>2. Sum(u, k + 1) = Add(Sum(u, k), u[k]) /\ u[k] = Add(v[k], w[k])
    BY <1>1, SumStep
  <2>3. Sum(v, k + 1) = Add(Sum(v, k), v[k]) /\ Sum(w, k + 1) = Add(Sum(w, k), w[k])
    BY SumStep
  <2> DEFINE a == Sum(v, k)  b == Sum(w, k)  c == v[k]  d == w[k]
  <2>4. a \in Number /\ b \in Number /\ c \in Number /\ d \in Number
    BY <2>0, SumStep DEF Numbers
  <2> HIDE DEF a, b, c, d
  <2>5. Add(Add(a, b), Add(c, d)) = Add(Add(a, c), Add(b, d))
    BY <2>4, AddFour
  <2>6. Sum(u, k + 1) = Add(Sum(v, k + 1), Sum(w, k + 1))
    BY <2>1, <2>2, <2>3, <2>5 DEF a, b, c, d
  <2> QED
    BY <2>0, <2>6
<1> HIDE DEF S
<1>4. n \in S
  BY <1>2, <1>3, BoundedInduction
<1> QED
  BY <1>1, <1>4 DEF S

\* A factor common to all values.
LEMMA SumTimes ==
    ASSUME NEW n \in Nat, NEW v, Numbers(v, n), NEW c \in Number,
           NEW u, \A i \in 0 .. n - 1 : u[i] = Mul(v[i], c)
    PROVE  Sum(u, n) = Mul(Sum(v, n), c) /\ Numbers(u, n)
<1>1. Numbers(u, n)
  BY NumberClosed DEF Numbers
<1> DEFINE S == {k \in Nat : Sum(u, k) = Mul(Sum(v, k), c)}
<1>2. 0 \in S
  <2>1. Sum(u, 0) = Zero /\ Sum(v, 0) = Zero
    BY <1>1, SumStep
  <2>2. Mul(Zero, c) = Zero
    BY ZeroOne
  <2> QED
    BY <2>1, <2>2
<1>3. ASSUME NEW k \in 0 .. n - 1, k \in S PROVE k + 1 \in S
  <2>0. k \in 0 .. n /\ k + 1 \in Nat
    OBVIOUS
  <2>1. Sum(u, k) = Mul(Sum(v, k), c)
    BY <1>3
  <2>2. Sum(u, k + 1) = Add(Sum(u, k), u[k]) /\ u[k] = Mul(v[k], c)
    BY <1>1, SumStep
  <2>3. Sum(v, k + 1) = Add(Sum(v, k), v[k])
    BY SumStep
  <2>4. Sum(v, k) \in Number /\ v[k] \in Number
    BY <2>0, SumStep DEF Numbers
  <2>5. Mul(Add(Sum(v, k), v[k]), c) = Add(Mul(Sum(v, k), c), Mul(v[k], c))
    BY <2>4, MulDistributes
  <2>6. Sum(u, k + 1) = Mul(Sum(v, k + 1), c)
    BY <2>1, <2>2, <2>3, <2>5
  <2> QED
    BY <2>0, <2>6
<1> HIDE DEF S
<1>4. n \in S
  BY <1>2, <1>3, BoundedInduction
<1> QED
  BY <1>1, <1>4 DEF S

\* A sum in two parts.
LaterValues(v, a, b) == [i \in 0 .. b - 1 |-> v[a + i]]

LEMMA SumSplit ==
    ASSUME NEW a \in Nat, NEW b \in Nat, NEW v, Numbers(v, a + b)
    PROVE  /\ Sum(v, a + b) = Add(Sum(v, a), Sum(LaterValues(v, a, b), b))
           /\ Numbers(v, a) /\ Numbers(LaterValues(v, a, b), b)
<1> DEFINE w == LaterValues(v, a, b)
<1>0. a + b \in Nat /\ a \in 0 .. a + b /\ \A i \in 0 .. b - 1 : w[i] = v[a + i]
  BY DEF LaterValues
<1> HIDE DEF w
<1>1. Numbers(w, b) /\ Numbers(v, a)
  <2>1. \A i \in 0 .. b - 1 : a + i \in 0 .. (a + b) - 1
    OBVIOUS
  <2>2. \A i \in 0 .. a - 1 : i \in 0 .. (a + b) - 1
    OBVIOUS
  <2> QED
    BY <1>0, <2>1, <2>2 DEF Numbers
<1> DEFINE S == {k \in Nat : Sum(v, a + k) = Add(Sum(v, a), Sum(w, k))}
<1>2. 0 \in S
  <2>1. Sum(w, 0) = Zero
    BY <1>1, SumStep
  <2>2. Sum(v, a) \in Number
    BY <1>1, SumNumber
  <2>3. a + 0 = a
    OBVIOUS
  <2> QED
    BY <2>1, <2>2, <2>3, ZeroOne
<1>3. ASSUME NEW k \in 0 .. b - 1, k \in S PROVE k + 1 \in S
  <2>0. k \in 0 .. b /\ k + 1 \in Nat /\ a + k \in 0 .. (a + b) - 1 /\ a + (k + 1) = (a + k) + 1
    OBVIOUS
  <2>1. Sum(v, a + k) = Add(Sum(v, a), Sum(w, k))
    BY <1>3
  <2>2. Sum(v, (a + k) + 1) = Add(Sum(v, a + k), v[a + k])
    BY <1>0, <2>0, SumStep
  <2>3. Sum(w, k + 1) = Add(Sum(w, k), w[k]) /\ w[k] = v[a + k]
    BY <1>0, <1>1, SumStep
  <2>4. Sum(v, a) \in Number /\ Sum(w, k) \in Number /\ w[k] \in Number
    <3>1. Sum(v, a) \in Number
      BY <1>0, SumStep
    <3>2. Sum(w, k) \in Number
      BY <1>1, <2>0, SumStep
    <3> QED
      BY <1>1, <3>1, <3>2 DEF Numbers
  <2>5. Add(Add(Sum(v, a), Sum(w, k)), w[k]) = Add(Sum(v, a), Add(Sum(w, k), w[k]))
    BY <2>4, AddAssociates
  <2>6. Sum(v, a + (k + 1)) = Add(Sum(v, a), Sum(w, k + 1))
    BY <2>0, <2>1, <2>2, <2>3, <2>5
  <2> QED
    BY <2>0, <2>6
<1> HIDE DEF S
<1>4. b \in S
  BY <1>2, <1>3, BoundedInduction
<1> QED
  BY <1>1, <1>4 DEF S, w

\* Every r-th value, and the sums of the r sequences of them.
Column(v, r, l, m) == [n \in 0 .. m - 1 |-> v[l + r * n]]
Columns(v, r, m) == [l \in 0 .. r - 1 |-> Sum(Column(v, r, l, m), m)]

LEMMA ColumnBelow ==
    ASSUME NEW r \in Nat, NEW m \in Nat, NEW l \in 0 .. r - 1, NEW n \in 0 .. m - 1
    PROVE  l + r * n \in 0 .. m * r - 1
<1>1. r * n \in Nat
  OBVIOUS
<1>2. (m - n - 1) * r \in Nat
  <2> DEFINE d == m - n - 1
  <2>1. d \in Nat
    OBVIOUS
  <2> HIDE DEF d
  <2>2. d * r \in Nat
    BY <2>1
  <2> QED
    BY <2>2 DEF d
<1>3. (m - n - 1) * r = m * r - r * n - r
  OBVIOUS
<1>4. m * r \in Int
  OBVIOUS
<1> QED
  BY <1>1, <1>2, <1>3, <1>4

LEMMA ColumnNumbers ==
    ASSUME NEW r \in Nat, NEW m \in Nat, NEW v, Numbers(v, m * r), NEW l \in 0 .. r - 1
    PROVE  Numbers(Column(v, r, l, m), m)
<1>1. ASSUME NEW n \in 0 .. m - 1 PROVE Column(v, r, l, m)[n] \in Number
  <2>1. l + r * n \in 0 .. m * r - 1
    BY ColumnBelow
  <2>2. v[l + r * n] \in Number
    BY <2>1 DEF Numbers
  <2> QED
    BY <2>2 DEF Column
<1> QED
  BY <1>1 DEF Numbers

\* A sum of m * r values is the sum of the sums of every r-th of them.
LEMMA Regroup ==
    ASSUME NEW r \in Nat, NEW m \in Nat, NEW v, Numbers(v, m * r)
    PROVE  Sum(v, m * r) = Sum(Columns(v, r, m), r)
<1> DEFINE S == {k \in Nat : Sum(v, k * r) = Sum(Columns(v, r, k), r)}
<1>0. ASSUME NEW k \in 0 .. m PROVE Numbers(v, k * r) /\ k * r \in Nat
  <2>1. (m - k) * r \in Nat /\ k * r \in Nat
    <3> DEFINE d == m - k
    <3>1. d \in Nat /\ k \in Nat
      OBVIOUS
    <3> HIDE DEF d
    <3>2. d * r \in Nat /\ k * r \in Nat
      BY <3>1
    <3> QED
      BY <3>2 DEF d
  <2>2. (m - k) * r = m * r - k * r /\ m * r \in Int
    OBVIOUS
  <2> DEFINE a == k * r  b == m * r
  <2>3. a \in Nat /\ b \in Int /\ a <= b
    BY <2>1, <2>2
  <2> HIDE DEF a, b
  <2>4. \A i \in 0 .. a - 1 : i \in 0 .. b - 1
    BY <2>3
  <2> QED
    BY <2>1, <2>4 DEF Numbers, a, b
<1>1. 0 \in S
  <2>1. \A l \in 0 .. r - 1 : Columns(v, r, 0)[l] = Zero
    <3> TAKE l \in 0 .. r - 1
    <3>1. Numbers(Column(v, r, l, 0), 0)
      BY DEF Numbers
    <3>2. Sum(Column(v, r, l, 0), 0) = Zero
      BY <3>1, SumStep
    <3> QED
      BY <3>2 DEF Columns
  <2>2. Numbers(Columns(v, r, 0), r)
    BY <2>1, Units DEF Numbers
  <2> DEFINE w == Columns(v, r, 0)  T == {k \in Nat : Sum(w, k) = Zero}
  <2>3. 0 \in T
    BY <2>2, SumStep
  <2>4. ASSUME NEW k \in 0 .. r - 1, k \in T PROVE k + 1 \in T
    <3>1. Sum(w, k) = Zero /\ w[k] = Zero /\ k + 1 \in Nat
      BY <2>1, <2>4
    <3>2. Sum(w, k + 1) = Add(Sum(w, k), w[k])
      BY <2>2, SumStep
    <3>3. Add(Zero, Zero) = Zero
      BY Units, ZeroOne
    <3> QED
      BY <3>1, <3>2, <3>3
  <2> HIDE DEF T
  <2>5. r \in T
    BY <2>3, <2>4, BoundedInduction
  <2>6. 0 * r = 0 /\ Sum(v, 0) = Zero
    <3>1. Numbers(v, 0)
      BY DEF Numbers
    <3> QED
      BY <3>1, SumStep
  <2> QED
    BY <2>5, <2>6 DEF T
<1>2. ASSUME NEW k \in 0 .. m - 1, k \in S PROVE k + 1 \in S
  <2>0. k \in 0 .. m /\ k + 1 \in 0 .. m /\ k \in Nat /\ k + 1 \in Nat
    OBVIOUS
  <2>1. Sum(v, k * r) = Sum(Columns(v, r, k), r)
    BY <1>2
  <2> DEFINE a == k * r  w == LaterValues(v, a, r)
  <2>2. (k + 1) * r = a + r /\ a \in Nat
    BY <1>0, <2>0
  <2>3. Numbers(v, a + r) /\ Numbers(v, k * r) /\ Numbers(v, (k + 1) * r)
    BY <1>0, <2>0, <2>2
  <2>4. \A i \in 0 .. r - 1 : w[i] = v[k * r + i]
    BY DEF LaterValues
  <2>5. Sum(v, a + r) = Add(Sum(v, a), Sum(w, r)) /\ Numbers(w, r)
    <3> HIDE DEF a
    <3> QED
      BY <2>2, <2>3, SumSplit
  <2>6. ASSUME NEW l \in 0 .. r - 1
        PROVE  /\ Columns(v, r, k)[l] \in Number
               /\ Columns(v, r, k + 1)[l] = Add(Columns(v, r, k)[l], w[l])
    <3> DEFINE c == Column(v, r, l, k)  d == Column(v, r, l, k + 1)
    <3>1. Numbers(c, k) /\ Numbers(d, k + 1)
      BY <2>0, <2>3, ColumnNumbers
    <3>2. \A n \in 0 .. k - 1 : c[n] = d[n]
      BY <2>0 DEF Column
    <3>3. d[k] = w[l]
      <4>1. d[k] = v[l + r * k]
        BY <2>0 DEF Column
      <4>2. l + r * k = k * r + l
        BY <2>0
      <4> QED
        BY <2>4, <4>1, <4>2
    <3>4. Sum(d, k + 1) = Add(Sum(d, k), d[k])
      <4>1. k \in 0 .. (k + 1) - 1
        BY <2>0
      <4> HIDE DEF d
      <4> QED
        BY <2>0, <3>1, <4>1, SumStep
    <3>5. Sum(c, k) = Sum(d, k) /\ Sum(c, k) \in Number
      <4> HIDE DEF c, d
      <4> QED
        BY <2>0, <3>1, <3>2, SumSame, SumNumber
    <3>6. Columns(v, r, k)[l] = Sum(c, k) /\ Columns(v, r, k + 1)[l] = Sum(d, k + 1)
      BY DEF Columns
    <3> QED
      BY <3>3, <3>4, <3>5, <3>6
  <2> HIDE DEF w, a
  <2>7. Numbers(Columns(v, r, k), r)
    BY <2>6 DEF Numbers
  <2>8. Sum(Columns(v, r, k + 1), r) = Add(Sum(Columns(v, r, k), r), Sum(w, r))
    BY <2>5, <2>6, <2>7, SumPlus
  <2> QED
    BY <2>0, <2>1, <2>2, <2>5, <2>8 DEF a
<1> HIDE DEF S
<1>3. m \in S
  BY <1>1, <1>2, BoundedInduction
<1> QED
  BY <1>3 DEF S

-----------------------------------------------------------------------------
(* One stage.                                                              *)

\* The root of a term of a transform of m * r points, from the roots of the
\* transforms of m and of r points and the twiddle factor between them.
LEMMA RootSplit ==
    ASSUME NEW m \in Positive, NEW r \in Positive, Divides(m * r), NEW direction,
           NEW l \in Int, NEW n \in Int, NEW p \in Int, NEW i \in Int
    PROVE  W((l + r * n) * (p * m + i), m * r, direction)
             = Mul(Mul(W(n * i, m, direction), W(i * l, m * r, direction)), W(p * l, r, direction))
<1>0. m \in Int /\ r \in Int
  BY DEF Positive
<1> DEFINE N == m * r
           a == (n * i) * r  b == i * l  c == (p * l) * m  d == N * (n * p)
<1>1. a \in Int /\ b \in Int /\ c \in Int /\ n * p \in Int /\ n * i \in Int /\ p * l \in Int /\ N \in Int
      /\ d \in Int
  BY <1>0
<1>2. (l + r * n) * (p * m + i) = ((a + b) + c) + d
  BY <1>0
<1>3. W(a, N, direction) = W(n * i, m, direction)
  <2> DEFINE k == n * i
  <2>1. k \in Int
    OBVIOUS
  <2> HIDE DEF k
  <2> QED
    BY <2>1, WReduce DEF k
<1>4. W(c, N, direction) = W(p * l, r, direction)
  <2> DEFINE k == p * l
  <2>1. k \in Int /\ N = r * m /\ Divides(r * m)
    BY <1>0
  <2> HIDE DEF k, N
  <2> QED
    BY <2>1, WReduce DEF k
<1>5. W(d, N, direction) = One
  <2> DEFINE k == n * p
  <2>1. k \in Int
    OBVIOUS
  <2> HIDE DEF k, N
  <2> QED
    BY <2>1, WWhole DEF k, N
<1>6. Divides(N)
  OBVIOUS
<1> HIDE DEF N, a, b, c, d
<1>7. W((a + b) + c, N, direction) = Mul(Mul(W(a, N, direction), W(b, N, direction)), W(c, N, direction))
  <2>1. W(a + b, N, direction) = Mul(W(a, N, direction), W(b, N, direction))
    BY <1>1, <1>6, WAdd
  <2>2. a + b \in Int
    BY <1>1
  <2>3. W((a + b) + c, N, direction) = Mul(W(a + b, N, direction), W(c, N, direction))
    BY <1>1, <1>6, <2>2, WAdd
  <2> QED
    BY <2>1, <2>3
<1>8. W(((a + b) + c) + d, N, direction) = W((a + b) + c, N, direction)
  <2>1. (a + b) + c \in Int
    BY <1>1
  <2>2. W((a + b) + c, N, direction) \in Number
    BY <1>6, <2>1, WNumber
  <2>3. W(((a + b) + c) + d, N, direction) = Mul(W((a + b) + c, N, direction), W(d, N, direction))
    BY <1>1, <1>6, <2>1, WAdd
  <2> QED
    BY <1>5, <2>2, <2>3, ZeroOne
<1> QED
  BY <1>2, <1>3, <1>4, <1>7, <1>8 DEF N, b

\* The terms of element k of the transform of the m elements of x that are d
\* apart, from number b on.
Terms(x, m, d, b, k, direction) ==
  [n \in 0 .. m - 1 |-> Mul(x[b + n * d], W(n * k, m, direction))]

\* y holds the transforms of every d-th element of x, of m points each.
Transforms(y, x, m, d, direction) ==
  \A b \in Points(d) : \A k \in Points(m) : y[b * m + k] = Sum(Terms(x, m, d, b, k, direction), m)

LEMMA TermsNumbers ==
    ASSUME NEW m \in Positive, NEW d \in Positive, Divides(m), NEW x, Numbers(x, m * d),
           NEW b \in Points(d), NEW k \in Int, NEW direction
    PROVE  Numbers(Terms(x, m, d, b, k, direction), m)
<1>1. ASSUME NEW n \in 0 .. m - 1 PROVE Terms(x, m, d, b, k, direction)[n] \in Number
  <2>1. n * d + b \in Points(m * d)
    <3>1. n \in Points(m) /\ m \in Nat
      BY DEF Points, Positive
    <3> QED
      BY <3>1, JoinBelow
  <2>2. b + n * d \in 0 .. m * d - 1
    <3>1. b + n * d = n * d + b
      BY DEF Points, Positive
    <3> QED
      BY <2>1, <3>1 DEF Points
  <2>3. x[b + n * d] \in Number
    BY <2>2 DEF Numbers
  <2>4. n * k \in Int
    BY DEF Positive
  <2>5. W(n * k, m, direction) \in Number
    <3> DEFINE j == n * k
    <3> HIDE DEF j
    <3> QED
      BY <2>4, WNumber DEF j
  <2>6. Mul(x[b + n * d], W(n * k, m, direction)) \in Number
    BY <2>3, <2>5, NumberClosed
  <2> QED
    BY <2>6 DEF Terms
<1> QED
  BY <1>1 DEF Numbers

\* What a stage of radix r makes of element number b * (m * r) + (p * m + i).
LEMMA StageElement ==
    ASSUME NEW m \in Positive, NEW r \in Positive, NEW d \in Positive, NEW y, NEW direction,
           NEW b \in Points(d), NEW p \in Points(r), NEW i \in Points(m)
    PROVE  StockhamStage(y, m * (r * d), m, r, direction)[b * (m * r) + (p * m + i)]
             = Sum([l \in 0 .. r - 1 |->
                      Mul(Mul(y[(b + l * d) * m + i], W(i * l, m * r, direction)),
                          W(p * l, r, direction))], r)
<1>0. /\ m \in Nat /\ r \in Nat /\ d \in Nat /\ b \in Nat /\ p \in Nat /\ i \in Nat
      /\ m * r \in Positive /\ r * d \in Positive /\ m * d \in Nat
  BY PositiveTimes DEF Positive, Points
<1> DEFINE j == b * (m * r) + (p * m + i)  len == m * (r * d)
<1>1. p * m + i \in Points(m * r)
  <2>1. p * m + i \in Points(r * m) /\ r * m = m * r
    BY <1>0, JoinBelow
  <2> QED
    BY <2>1
<1>2. j \in 0 .. len - 1
  <2>1. j \in Points(d * (m * r))
    BY <1>0, <1>1, JoinBelow
  <2>2. d * (m * r) = len
    BY <1>0
  <2> QED
    BY <2>1, <2>2 DEF Points
<1>3. j = (b * r + p) * m + i
  BY <1>0
<1>4. b * r + p \in Nat
  BY <1>0
<1>5. j % m = i /\ j \div m = b * r + p /\ (j \div m) % r = p /\ j \div (m * r) = b
  <2>1. j % m = i /\ j \div m = b * r + p
    <3> DEFINE q == b * r + p
    <3>1. q \in Nat /\ j = q * m + i
      BY <1>3, <1>4
    <3> HIDE DEF q, j
    <3>2. (q * m + i) % m = i /\ (q * m + i) \div m = q
      BY <3>1, Split
    <3> QED
      BY <3>1, <3>2 DEF q
  <2>2. (b * r + p) % r = p
    BY <1>0, Split
  <2>3. j \div (m * r) = b
    BY <1>0, <1>1, Split
  <2> QED
    BY <2>1, <2>2, <2>3
<1>6. len \div r = m * d
  <2>1. len = (m * d) * r + 0 /\ 0 \in Points(r)
    BY <1>0 DEF Points, Positive
  <2>2. ((m * d) * r + 0) \div r = m * d
    BY <1>0, <2>1, Split
  <2> QED
    BY <2>1, <2>2
<1> HIDE DEF j, len
<1>7. ASSUME NEW l \in 0 .. r - 1
      PROVE  i + (j \div (m * r)) * m + l * (len \div r) = (b + l * d) * m + i
  <2>1. i + b * m + l * (m * d) = (b + l * d) * m + i
    BY <1>0
  <2> QED
    BY <1>5, <1>6, <2>1
<1> DEFINE lanes == [l \in 0 .. r - 1 |->
                       Turned(Turned(y[i + (j \div (m * r)) * m + l * (len \div r)],
                                     <<i * l, m * r>>, direction),
                              <<p * l, r>>, direction)]
<1>8. StockhamStage(y, len, m, r, direction)[j] = Sum(lanes, r)
  BY <1>2, <1>5 DEF StockhamStage
<1>9. lanes = [l \in 0 .. r - 1 |-> Mul(Mul(y[(b + l * d) * m + i], W(i * l, m * r, direction)),
                                        W(p * l, r, direction))]
  <2>1. \A l \in 0 .. r - 1 :
          Turned(Turned(y[i + (j \div (m * r)) * m + l * (len \div r)],
                        <<i * l, m * r>>, direction),
                 <<p * l, r>>, direction)
            = Mul(Mul(y[(b + l * d) * m + i], W(i * l, m * r, direction)), W(p * l, r, direction))
    BY <1>7, TurnedW
  <2> QED
    BY <2>1
<1> QED
  BY <1>8, <1>9 DEF j, len

\* A stage of radix r joins r transforms of m points into one of m * r points.
LEMMA StageTransforms ==
    ASSUME NEW m \in Positive, NEW r \in Positive, NEW d \in Positive, Divides(m * r),
           NEW direction, NEW x, Numbers(x, m * (r * d)),
           NEW y, Transforms(y, x, m, r * d, direction)
    PROVE  Transforms(StockhamStage(y, m * (r * d), m, r, direction), x, m * r, d, direction)
<1>0. /\ m \in Nat /\ r \in Nat /\ d \in Nat /\ m * r \in Positive /\ r * d \in Positive
      /\ (m * r) * d = m * (r * d) /\ m \in Int /\ r \in Int /\ d \in Int
  BY PositiveTimes DEF Positive
<1>1. Divides(m) /\ Divides(r)
  BY DividesPart
<1> SUFFICES ASSUME NEW b \in Points(d), NEW k \in Points(m * r)
             PROVE  StockhamStage(y, m * (r * d), m, r, direction)[b * (m * r) + k]
                      = Sum(Terms(x, m * r, d, b, k, direction), m * r)
  BY DEF Transforms
<1> DEFINE p == k \div m  i == k % m
<1>2. p \in Points(r) /\ i \in Points(m) /\ k = p * m + i
  <2>1. k \in Points(r * m)
    BY <1>0
  <2> QED
    BY <1>0, <2>1, SplitBelow
<1> HIDE DEF p, i
<1>3. p \in Int /\ i \in Int /\ b \in Int /\ k \in Int /\ k \in Nat
  BY <1>0, <1>2 DEF Points
<1> DEFINE v == Terms(x, m * r, d, b, k, direction)
           lane == [l \in 0 .. r - 1 |-> Mul(Mul(y[(b + l * d) * m + i], W(i * l, m * r, direction)),
                                             W(p * l, r, direction))]
<1>4. Numbers(v, m * r)
  <2>1. Numbers(x, (m * r) * d)
    BY <1>0
  <2> QED
    BY <1>0, <1>3, <2>1, TermsNumbers
<1>5. ASSUME NEW l \in 0 .. r - 1
      PROVE  lane[l] = Sum(Column(v, r, l, m), m) /\ lane[l] \in Number
  <2> DEFINE c == b + l * d
             u == Terms(x, m, r * d, c, i, direction)
             w1 == W(i * l, m * r, direction)
             w2 == W(p * l, r, direction)
             f == Mul(w1, w2)
  <2>0. l \in Int /\ l \in Nat
    OBVIOUS
  <2>1. c \in Points(r * d)
    <3>1. l \in Points(r)
      BY DEF Points
    <3>2. l * d + b \in Points(r * d)
      BY <1>0, <3>1, JoinBelow
    <3>3. c = l * d + b
      BY <1>0, <1>3, <2>0
    <3> QED
      BY <3>2, <3>3
  <2>2. y[c * m + i] = Sum(u, m)
    BY <1>2, <2>1 DEF Transforms
  <2>3. Numbers(u, m)
    <3> HIDE DEF c
    <3> QED
      BY <1>0, <1>1, <1>3, <2>1, TermsNumbers
  <2>4. w1 \in Number /\ w2 \in Number
    <3> DEFINE a1 == i * l  a2 == p * l
    <3>1. a1 \in Int /\ a2 \in Int
      BY <1>3, <2>0
    <3> HIDE DEF a1, a2
    <3>2. W(a1, m * r, direction) \in Number /\ W(a2, r, direction) \in Number
      BY <1>1, <3>1, WNumber
    <3> QED
      BY <3>2 DEF a1, a2
  <2>5. f \in Number
    BY <2>4, NumberClosed
  <2>6. ASSUME NEW n \in 0 .. m - 1 PROVE Column(v, r, l, m)[n] = Mul(u[n], f)
    <3>1. l + r * n \in 0 .. m * r - 1
      BY <1>0, ColumnBelow
    <3>2. Column(v, r, l, m)[n] = v[l + r * n]
      BY DEF Column
    <3>3. v[l + r * n] = Mul(x[b + (l + r * n) * d], W((l + r * n) * k, m * r, direction))
      BY <3>1 DEF Terms
    <3>4. b + (l + r * n) * d = c + n * (r * d)
      BY <1>0, <1>3, <2>0
    <3>5. W((l + r * n) * k, m * r, direction) = Mul(Mul(W(n * i, m, direction), w1), w2)
      <4>1. n \in Int
        OBVIOUS
      <4>2. W((l + r * n) * (p * m + i), m * r, direction)
              = Mul(Mul(W(n * i, m, direction), W(i * l, m * r, direction)), W(p * l, r, direction))
        BY <1>3, <2>0, <4>1, RootSplit
      <4> QED
        BY <1>2, <4>2
    <3>6. u[n] = Mul(x[c + n * (r * d)], W(n * i, m, direction))
      BY DEF Terms
    <3> DEFINE z == x[c + n * (r * d)]  w0 == W(n * i, m, direction)
    <3>7. z \in Number /\ w0 \in Number
      <4>1. n \in Points(m) /\ c \in Points(r * d)
        BY <2>1 DEF Points
      <4>2. n * (r * d) + c \in Points(m * (r * d))
        BY <1>0, <4>1, JoinBelow
      <4>3. c + n * (r * d) = n * (r * d) + c
        BY <1>0, <1>3, <2>0
      <4>4. z \in Number
        BY <4>2, <4>3 DEF Numbers, Points
      <4> DEFINE a0 == n * i
      <4>5. a0 \in Int
        BY <1>3
      <4> HIDE DEF a0
      <4>6. W(a0, m, direction) \in Number
        BY <1>1, <4>5, WNumber
      <4> QED
        BY <4>4, <4>6 DEF a0
    <3>8. v[l + r * n] = Mul(z, Mul(Mul(w0, w1), w2))
      BY <3>3, <3>4, <3>5
    <3>9. u[n] = Mul(z, w0)
      BY <3>6
    <3> HIDE DEF u, v, w0, w1, w2, z
    <3>10. Mul(z, Mul(Mul(w0, w1), w2)) = Mul(Mul(z, w0), f)
      <4>1. Mul(Mul(w0, w1), w2) = Mul(w0, f)
        BY <2>4, <3>7, MulAssociates
      <4>2. Mul(z, Mul(w0, f)) = Mul(Mul(z, w0), f)
        BY <2>5, <3>7, MulAssociates
      <4> QED
        BY <4>1, <4>2
    <3> QED
      BY <3>2, <3>8, <3>9, <3>10
  <2>7. Sum(Column(v, r, l, m), m) = Mul(Sum(u, m), f)
    <3> HIDE DEF u, v, f
    <3> QED
      BY <1>0, <2>3, <2>5, <2>6, SumTimes
  <2>8. lane[l] = Mul(Mul(y[c * m + i], w1), w2)
    OBVIOUS
  <2> HIDE DEF u, v, w1, w2, lane, c
  <2>9. Sum(u, m) \in Number
    BY <1>0, <2>3, SumNumber
  <2>10. Mul(Mul(Sum(u, m), w1), w2) = Mul(Sum(u, m), f) /\ Mul(Sum(u, m), f) \in Number
    BY <2>4, <2>5, <2>9, MulAssociates, NumberClosed
  <2> QED
    BY <2>2, <2>7, <2>8, <2>10
<1>6. Sum(lane, r) = Sum(Columns(v, r, m), r)
  <2>1. \A l \in 0 .. r - 1 : lane[l] = Columns(v, r, m)[l]
    BY <1>5 DEF Columns
  <2>2. Numbers(lane, r)
    BY <1>5 DEF Numbers
  <2> HIDE DEF lane, v
  <2> QED
    BY <1>0, <2>1, <2>2, SumSame
<1>7. Sum(v, m * r) = Sum(Columns(v, r, m), r)
  <2> HIDE DEF v
  <2> QED
    BY <1>0, <1>4, Regroup
<1>8. StockhamStage(y, m * (r * d), m, r, direction)[b * (m * r) + k] = Sum(lane, r)
  BY <1>2, StageElement
<1> QED
  BY <1>6, <1>7, <1>8

\* A stage keeps the memory full of numbers.
LEMMA StageNumbers ==
    ASSUME NEW m \in Positive, NEW r \in Positive, NEW d \in Positive, Divides(m * r),
           NEW direction, NEW y \in [Points(m * (r * d)) -> Number]
    PROVE  StockhamStage(y, m * (r * d), m, r, direction) \in [Points(m * (r * d)) -> Number]
<1>0. /\ m \in Nat /\ r \in Nat /\ d \in Nat /\ m * r \in Positive /\ r * d \in Positive
      /\ m * (r * d) = d * (m * r) /\ m * r = r * m
  BY PositiveTimes DEF Positive
<1>1. Divides(m) /\ Divides(r)
  BY DividesPart
<1> DEFINE len == m * (r * d)  z == StockhamStage(y, len, m, r, direction)
<1>2. ASSUME NEW j \in Points(len) PROVE z[j] \in Number
  <2>1. PICK b \in Points(d), k \in Points(m * r) : j = b * (m * r) + k
    <3>1. j \in Points(d * (m * r))
      BY <1>0
    <3> QED
      BY <1>0, <3>1, SplitBelow
  <2>2. PICK p \in Points(r), i \in Points(m) : k = p * m + i
    <3>1. k \in Points(r * m)
      BY <1>0
    <3> QED
      BY <1>0, <3>1, SplitBelow
  <2> DEFINE lane == [l \in 0 .. r - 1 |->
                        Mul(Mul(y[(b + l * d) * m + i], W(i * l, m * r, direction)),
                            W(p * l, r, direction))]
  <2>3. z[j] = Sum(lane, r)
    BY <2>1, <2>2, StageElement
  <2>4. ASSUME NEW l \in 0 .. r - 1 PROVE lane[l] \in Number
    <3>1. (b + l * d) * m + i \in Points(len)
      <4>0. l \in Points(r) /\ l \in Nat /\ b \in Nat
        BY DEF Points
      <4>1. l * d + b \in Points(r * d)
        BY <1>0, <4>0, JoinBelow
      <4>2. (l * d + b) * m + i \in Points((r * d) * m)
        BY <1>0, <4>1, JoinBelow DEF Positive
      <4>3. b + l * d = l * d + b
        BY <1>0, <4>0
      <4>4. (r * d) * m = m * (r * d)
        BY <1>0
      <4> QED
        BY <4>2, <4>3, <4>4
    <3>2. y[(b + l * d) * m + i] \in Number
      BY <3>1
    <3> DEFINE a1 == i * l  a2 == p * l
    <3>3. a1 \in Int /\ a2 \in Int
      BY DEF Points
    <3> HIDE DEF a1, a2
    <3>4. W(a1, m * r, direction) \in Number /\ W(a2, r, direction) \in Number
      BY <1>1, <3>3, WNumber
    <3> DEFINE w1 == W(a1, m * r, direction)  w2 == W(a2, r, direction)  w0 == y[(b + l * d) * m + i]
    <3>5. Mul(Mul(w0, w1), w2) \in Number
      <4> HIDE DEF w0, w1, w2
      <4>1. w0 \in Number /\ w1 \in Number /\ w2 \in Number
        BY <3>2, <3>4 DEF w0, w1, w2
      <4> QED
        BY <4>1, NumberClosed
    <3> QED
      BY <3>5 DEF a1, a2
  <2>5. Numbers(lane, r)
    BY <2>4 DEF Numbers
  <2> HIDE DEF lane
  <2> QED
    BY <1>0, <2>3, <2>5, SumNumber
<1>3. z = [j \in Points(len) |-> z[j]]
  BY DEF StockhamStage, Points
<1> HIDE DEF z
<1>4. z \in [Points(len) -> Number]
  BY <1>2, <1>3
<1> QED
  BY <1>4 DEF z

-----------------------------------------------------------------------------
(* All stages.                                                             *)

\* z[s] is the product of the first s radices.
IsSize(z, radices) ==
  /\ z \in [0 .. Len(radices) -> Positive]
  /\ z[0] = 1
  /\ \A s \in 0 .. Len(radices) - 1 : z[s + 1] = z[s] * radices[s + 1]

LEMMA SizesExist ==
    ASSUME NEW radices \in Seq(Positive)
    PROVE  \E z : IsSize(z, radices)
<1> DEFINE n == Len(radices)
           step == [p \in Nat \X Positive |-> IF p[1] \in 0 .. n - 1 THEN p[2] * radices[p[1] + 1] ELSE 1]
<1>0. n \in Nat /\ \A s \in 0 .. n - 1 : radices[s + 1] \in Positive
  OBVIOUS
<1> HIDE DEF n
<1>1. step \in [Nat \X Positive -> Positive]
  <2> SUFFICES ASSUME NEW p \in Nat \X Positive
               PROVE  (IF p[1] \in 0 .. n - 1 THEN p[2] * radices[p[1] + 1] ELSE 1) \in Positive
    OBVIOUS
  <2>1. CASE p[1] \in 0 .. n - 1
    <3>1. radices[p[1] + 1] \in Positive /\ p[2] \in Positive
      BY <1>0, <2>1
    <3> QED
      BY <2>1, <3>1, PositiveTimes
  <2>2. CASE p[1] \notin 0 .. n - 1
    BY <2>2 DEF Positive
  <2> QED
    BY <2>1, <2>2
<1>2. ASSUME NEW s \in 0 .. n - 1, NEW x \in Positive PROVE step[<<s, x>>] = x * radices[s + 1]
  <2>1. <<s, x>> \in Nat \X Positive /\ <<s, x>>[1] = s /\ <<s, x>>[2] = x
    OBVIOUS
  <2> QED
    BY <2>1
<1> HIDE DEF step
<1>3. 1 \in Positive
  BY DEF Positive
<1>4. PICK z : Follows(z, Positive, 1, step, n)
  BY <1>0, <1>1, <1>3, RecursionExists
<1>5. z \in [0 .. n -> Positive] /\ z[0] = 1 /\ \A s \in 0 .. n - 1 : z[s + 1] = step[<<s, z[s]>>]
  BY <1>4 DEF Follows
<1>6. \A s \in 0 .. n - 1 : z[s + 1] = z[s] * radices[s + 1]
  <2> TAKE s \in 0 .. n - 1
  <2>1. z[s] \in Positive
    BY <1>0, <1>5
  <2> QED
    BY <1>2, <1>5, <2>1
<1> QED
  BY <1>5, <1>6 DEF IsSize, n

LEMMA SizeValue ==
    ASSUME NEW radices \in Seq(Positive), NEW z, IsSize(z, radices), NEW m \in 0 .. Len(radices)
    PROVE  stage_size(radices, m) = z[m]
<1> DEFINE n == Len(radices)
           E(f) == f = [k \in 0 .. m |-> IF k = 0 THEN 1 ELSE f[k - 1] * radices[k]]
           f0 == CHOOSE f : E(f)
           h == [k \in 0 .. m |-> z[k]]
<1>0. n \in Nat /\ m \in 0 .. n
  OBVIOUS
<1>1. z[0] = 1 /\ \A k \in 0 .. n - 1 : z[k + 1] = z[k] * radices[k + 1]
  BY DEF IsSize
<1> HIDE DEF n
<1>2. ASSUME NEW k \in 0 .. m
      PROVE  h[k] = IF k = 0 THEN 1 ELSE h[k - 1] * radices[k]
  <2>1. CASE k = 0
    BY <1>1, <2>1
  <2>2. CASE k # 0
    <3>1. k - 1 \in 0 .. n - 1 /\ (k - 1) + 1 = k /\ k - 1 \in 0 .. m
      BY <1>0, <2>2
    <3>2. z[(k - 1) + 1] = z[k - 1] * radices[(k - 1) + 1]
      BY <1>1, <3>1
    <3> QED
      BY <2>2, <3>1, <3>2
  <2> QED
    BY <2>1, <2>2
<1>3. E(h)
  BY <1>2
<1> HIDE DEF h
<1>4. E(f0)
  BY <1>3
<1> HIDE DEF f0
<1>5. f0[0] = 1 /\ \A k \in 0 .. m : k # 0 => f0[k] = f0[k - 1] * radices[k]
  BY <1>4
<1> DEFINE S == {k \in Nat : k <= m => f0[k] = z[k]}
<1>6. 0 \in S
  BY <1>1, <1>5
<1>7. ASSUME NEW k \in Nat, k \in S PROVE k + 1 \in S
  <2>1. ASSUME k + 1 <= m PROVE f0[k + 1] = z[k + 1]
    <3>1. k + 1 \in 0 .. m /\ k + 1 # 0 /\ (k + 1) - 1 = k /\ k \in 0 .. n - 1 /\ k <= m
      BY <1>0, <2>1
    <3>2. f0[k + 1] = f0[(k + 1) - 1] * radices[k + 1]
      BY <1>5, <3>1
    <3>3. f0[k] = z[k]
      BY <1>7, <3>1
    <3> QED
      BY <1>1, <3>1, <3>2, <3>3
  <2> QED
    BY <2>1
<1> HIDE DEF S
<1>8. m \in S
  BY <1>0, <1>6, <1>7, SetInduction
<1>9. f0[m] = z[m]
  BY <1>0, <1>8 DEF S
<1>10. stage_size(radices, m) = f0[m]
  BY DEF stage_size, f0
<1> QED
  BY <1>9, <1>10

\* The product of the first radices divides that of all.
LEMMA SizeDivides ==
    ASSUME NEW radices \in Seq(Positive), NEW z, IsSize(z, radices), NEW m \in 0 .. Len(radices)
    PROVE  \E d \in Positive : z[Len(radices)] = z[m] * d
<1> DEFINE n == Len(radices)
           S == {k \in Nat : k <= n => \E d \in Positive : z[n] = z[n - k] * d}
<1>0. /\ n \in Nat /\ m \in 0 .. n /\ \A s \in 0 .. n - 1 : radices[s + 1] \in Positive
      /\ z \in [0 .. n -> Positive] /\ \A s \in 0 .. n - 1 : z[s + 1] = z[s] * radices[s + 1]
  BY DEF IsSize
<1> HIDE DEF n
<1>1. 0 \in S
  <2>1. z[n] = z[n - 0] * 1 /\ 1 \in Positive
    BY <1>0 DEF Positive
  <2> QED
    BY <2>1
<1>2. ASSUME NEW k \in Nat, k \in S PROVE k + 1 \in S
  <2>1. ASSUME k + 1 <= n PROVE \E d \in Positive : z[n] = z[n - (k + 1)] * d
    <3> DEFINE s == n - (k + 1)
    <3>1. s \in 0 .. n - 1 /\ s + 1 = n - k /\ k <= n /\ s \in 0 .. n
      BY <1>0, <2>1
    <3>2. PICK d \in Positive : z[n] = z[n - k] * d
      BY <1>2, <3>1
    <3> HIDE DEF s
    <3> DEFINE a == z[s]  b == radices[s + 1]
    <3>3. z[s + 1] = a * b /\ a \in Positive /\ b \in Positive
      BY <1>0, <3>1
    <3> HIDE DEF a, b
    <3>4. (a * b) * d = a * (b * d) /\ b * d \in Positive
      BY <3>3, PositiveTimes DEF Positive
    <3>5. z[n] = a * (b * d)
      BY <3>1, <3>2, <3>3, <3>4
    <3> QED
      BY <3>4, <3>5 DEF a, s
  <2> QED
    BY <2>1
<1> HIDE DEF S
<1>3. Nat \subseteq S
  BY <1>1, <1>2, SetInduction
<1>4. n - m \in Nat /\ n - m <= n /\ n - (n - m) = m
  BY <1>0
<1> DEFINE k == n - m
<1>5. k \in S
  BY <1>3, <1>4
<1> HIDE DEF k
<1>6. k <= n => \E d \in Positive : z[n] = z[n - k] * d
  BY <1>5 DEF S
<1>7. k <= n /\ n - k = m
  BY <1>4 DEF k
<1> QED
  BY <1>6, <1>7 DEF n

\* The stages one after another, and what holds of the memory between them.
IsStages(f, source, len, radices, direction) ==
  /\ f \in [0 .. Len(radices) -> [Points(len) -> Number]]
  /\ f[0] = source
  /\ \A s \in 0 .. Len(radices) - 1 :
       f[s + 1] = StockhamStage(f[s], len, stage_size(radices, s), radices[s + 1], direction)

\* What a schedule of radices has to be.
Schedule(radices, len) ==
  /\ radices \in Seq(Positive)
  /\ len \in Positive
  /\ stage_size(radices, Len(radices)) = len

\* Before stage s + 1, the length transformed, the radix and the number of
\* transforms to come make up the length.
LEMMA StageLength ==
    ASSUME NEW radices, NEW len, Schedule(radices, len), Divides(len),
           NEW s \in 0 .. Len(radices) - 1
    PROVE  /\ stage_size(radices, s) \in Positive /\ radices[s + 1] \in Positive
           /\ stage_size(radices, s + 1) = stage_size(radices, s) * radices[s + 1]
           /\ Divides(stage_size(radices, s) * radices[s + 1])
           /\ \E d \in Positive : len = stage_size(radices, s) * (radices[s + 1] * d)
<1> DEFINE n == Len(radices)
<1>0. radices \in Seq(Positive) /\ n \in Nat /\ s \in 0 .. n /\ s + 1 \in 0 .. n /\ n \in 0 .. n
  BY DEF Schedule
<1>1. PICK z : IsSize(z, radices)
  BY <1>0, SizesExist
<1>2. stage_size(radices, s) = z[s] /\ stage_size(radices, s + 1) = z[s + 1] /\ len = z[n]
  <2>1. stage_size(radices, n) = len
    BY DEF Schedule
  <2> QED
    BY <1>0, <1>1, <2>1, SizeValue
<1>3. z[s] \in Positive /\ z[s + 1] = z[s] * radices[s + 1] /\ radices[s + 1] \in Positive
  BY <1>0, <1>1 DEF IsSize
<1>4. PICK d \in Positive : z[n] = z[s + 1] * d
  BY <1>0, <1>1, SizeDivides
<1> DEFINE a == z[s]  b == radices[s + 1]
<1>5. a \in Positive /\ b \in Positive /\ z[s + 1] = a * b /\ len = (a * b) * d
  BY <1>2, <1>3, <1>4
<1> HIDE DEF a, b
<1>6. a * b \in Positive /\ (a * b) * d = a * (b * d)
  BY <1>5, PositiveTimes DEF Positive
<1>7. Divides(a * b)
  <2>1. Divides((a * b) * d)
    BY <1>5
  <2> QED
    BY <1>6, <2>1, DividesPart
<1>8. len = a * (b * d)
  BY <1>5, <1>6
<1> QED
  BY <1>2, <1>3, <1>7, <1>8 DEF a, b

LEMMA StagesExist ==
    ASSUME NEW radices, NEW len, Schedule(radices, len), Divides(len), NEW direction,
           NEW source \in [Points(len) -> Number]
    PROVE  \E f : IsStages(f, source, len, radices, direction)
<1> DEFINE n == Len(radices)
           V == [Points(len) -> Number]
           Next(s, y) == StockhamStage(y, len, stage_size(radices, s), radices[s + 1], direction)
           step == [p \in Nat \X V |-> IF p[1] \in 0 .. n - 1 THEN Next(p[1], p[2]) ELSE source]
<1>0. n \in Nat
  BY DEF Schedule
<1>1. ASSUME NEW s \in 0 .. n - 1, NEW y \in V PROVE Next(s, y) \in V
  <2> DEFINE a == stage_size(radices, s)  b == radices[s + 1]
  <2>1. a \in Positive /\ b \in Positive /\ Divides(a * b) /\ \E d \in Positive : len = a * (b * d)
    BY StageLength
  <2> HIDE DEF a, b
  <2>2. PICK d \in Positive : len = a * (b * d)
    BY <2>1
  <2>3. StockhamStage(y, len, a, b, direction) \in V
    BY <2>1, <2>2, StageNumbers
  <2> QED
    BY <2>3 DEF a, b
<1> HIDE DEF n, V, Next
<1>2. step \in [Nat \X V -> V]
  <2> SUFFICES ASSUME NEW p \in Nat \X V
               PROVE  (IF p[1] \in 0 .. n - 1 THEN Next(p[1], p[2]) ELSE source) \in V
    OBVIOUS
  <2>1. p[2] \in V /\ source \in V
    BY DEF V
  <2> QED
    BY <1>1, <2>1
<1>3. ASSUME NEW s \in 0 .. n - 1, NEW y \in V PROVE step[<<s, y>>] = Next(s, y)
  <2>1. <<s, y>> \in Nat \X V /\ <<s, y>>[1] = s /\ <<s, y>>[2] = y
    OBVIOUS
  <2> QED
    BY <2>1
<1> HIDE DEF step
<1>4. source \in V
  BY DEF V
<1>5. PICK f : Follows(f, V, source, step, n)
  BY <1>0, <1>2, <1>4, RecursionExists
<1>6. f \in [0 .. n -> V] /\ f[0] = source /\ \A s \in 0 .. n - 1 : f[s + 1] = step[<<s, f[s]>>]
  BY <1>5 DEF Follows
<1>7. \A s \in 0 .. n - 1 : f[s + 1] = Next(s, f[s])
  <2> TAKE s \in 0 .. n - 1
  <2>1. f[s] \in V
    BY <1>0, <1>6
  <2> QED
    BY <1>3, <1>6, <2>1
<1> QED
  BY <1>6, <1>7 DEF IsStages, n, V, Next

LEMMA StagesValue ==
    ASSUME NEW radices, NEW len, Schedule(radices, len), NEW direction, NEW source,
           NEW g, IsStages(g, source, len, radices, direction)
    PROVE  StockhamStages(source, len, radices, direction) = g[Len(radices)]
<1> DEFINE n == Len(radices)
           E(f) == f = [s \in 0 .. n |->
                          IF s = 0 THEN source
                          ELSE StockhamStage(f[s - 1], len, stage_size(radices, s - 1),
                                             radices[s], direction)]
           f0 == CHOOSE f : E(f)
<1>0. n \in Nat
  BY DEF Schedule
<1>1. /\ g = [s \in 0 .. n |-> g[s]] /\ g[0] = source
      /\ \A s \in 0 .. n - 1 :
           g[s + 1] = StockhamStage(g[s], len, stage_size(radices, s), radices[s + 1], direction)
  BY DEF IsStages
<1> HIDE DEF n
<1>2. ASSUME NEW s \in 0 .. n
      PROVE  g[s] = IF s = 0 THEN source
                    ELSE StockhamStage(g[s - 1], len, stage_size(radices, s - 1), radices[s], direction)
  <2>1. CASE s = 0
    BY <1>1, <2>1
  <2>2. CASE s # 0
    <3> DEFINE t == s - 1
    <3>1. t \in 0 .. n - 1 /\ t + 1 = s
      BY <1>0, <2>2
    <3> HIDE DEF t
    <3>2. g[t + 1] = StockhamStage(g[t], len, stage_size(radices, t), radices[t + 1], direction)
      BY <1>1, <3>1
    <3> QED
      BY <2>2, <3>1, <3>2 DEF t
  <2> QED
    BY <2>1, <2>2
<1>3. E(g)
  BY <1>1, <1>2
<1>4. E(f0)
  BY <1>3
<1> HIDE DEF f0
<1>5. /\ f0[0] = source
      /\ \A s \in 0 .. n : s # 0 =>
           f0[s] = StockhamStage(f0[s - 1], len, stage_size(radices, s - 1), radices[s], direction)
  BY <1>0, <1>4
<1> DEFINE S == {s \in Nat : s <= n => f0[s] = g[s]}
<1>6. 0 \in S
  BY <1>1, <1>5
<1>7. ASSUME NEW s \in Nat, s \in S PROVE s + 1 \in S
  <2>1. ASSUME s + 1 <= n PROVE f0[s + 1] = g[s + 1]
    <3>1. s + 1 \in 0 .. n /\ s + 1 # 0 /\ (s + 1) - 1 = s /\ s \in 0 .. n - 1 /\ s <= n
      BY <1>0, <2>1
    <3>2. f0[s + 1] = StockhamStage(f0[(s + 1) - 1], len, stage_size(radices, (s + 1) - 1),
                                    radices[s + 1], direction)
      BY <1>5, <3>1
    <3>3. f0[s] = g[s]
      BY <1>7, <3>1
    <3> QED
      BY <1>1, <3>1, <3>2, <3>3
  <2> QED
    BY <2>1
<1> HIDE DEF S
<1>8. n \in S
  BY <1>0, <1>6, <1>7, SetInduction
<1>9. f0[n] = g[n]
  BY <1>0, <1>8 DEF S
<1>10. StockhamStages(source, len, radices, direction) = f0[n]
  BY DEF StockhamStages, f0, n
<1> QED
  BY <1>9, <1>10 DEF n

\* The discrete Fourier transform (forward_dft and inverse_dft of
\* src/src/reference.rs, without the scale).
Fourier(x, len, direction) ==
  [k \in 0 .. len - 1 |-> Sum([n \in 0 .. len - 1 |-> Turned(x[n], <<n * k, len>>, direction)], len)]

\* The Stockham kernel of every length with points on the circle, whatever the
\* schedule of radices with that product, computes the discrete Fourier
\* transform of what it reads (the stages that src/src/kernel_ir.rs emits).
THEOREM StockhamIsFourier ==
    ASSUME NEW radices, NEW len, Schedule(radices, len), Divides(len), NEW direction,
           NEW source \in [0 .. len - 1 -> Number]
    PROVE  StockhamStages(source, len, radices, direction) = Fourier(source, len, direction)
<1> DEFINE n == Len(radices)
           size(s) == stage_size(radices, s)
<1>0. n \in Nat /\ len \in Positive /\ len \in Nat /\ size(n) = len
      /\ source \in [Points(len) -> Number] /\ radices \in Seq(Positive)
  BY DEF Schedule, Positive, Points
<1>1. PICK f : IsStages(f, source, len, radices, direction)
  BY <1>0, StagesExist
<1>2. /\ f \in [0 .. n -> [Points(len) -> Number]] /\ f[0] = source
      /\ \A s \in 0 .. n - 1 : f[s + 1] = StockhamStage(f[s], len, size(s), radices[s + 1], direction)
  BY <1>1 DEF IsStages
<1>3. size(0) = 1
  <2>1. PICK z : IsSize(z, radices)
    BY <1>0, SizesExist
  <2>2. z[0] = 1 /\ 0 \in 0 .. n
    BY <1>0, <2>1 DEF IsSize
  <2> QED
    BY <1>0, <2>1, <2>2, SizeValue
<1>4. Numbers(source, len)
  BY DEF Numbers
<1>5. /\ \A s \in 0 .. n - 1 : size(s) \in Positive /\ radices[s + 1] \in Positive
      /\ \A s \in 0 .. n - 1 : size(s + 1) = size(s) * radices[s + 1]
      /\ \A s \in 0 .. n - 1 : Divides(size(s) * radices[s + 1])
  BY StageLength
<1> HIDE DEF size, n
<1> DEFINE Good(s) == \A d \in Positive : len = size(s) * d => Transforms(f[s], source, size(s), d, direction)
           S == {s \in Nat : s <= n => Good(s)}
\* At first there are transforms of one point.
<1>6. Good(0)
  <2> SUFFICES ASSUME NEW d \in Positive, len = 1 * d
               PROVE  Transforms(source, source, 1, d, direction)
    BY <1>2, <1>3
  <2>1. d = len
    BY <1>0 DEF Positive
  <2>2. Divides(1) /\ 1 \in Positive
    <3>1. Divides(1 * d) /\ 1 \in Positive
      BY DEF Positive
    <3> QED
      BY <3>1, DividesPart
  <2>3. ASSUME NEW b \in Points(d), NEW k \in Points(1)
        PROVE  source[b * 1 + k] = Sum(Terms(source, 1, d, b, k, direction), 1)
    <3>1. k = 0 /\ b * 1 + k = b /\ b \in 0 .. len - 1 /\ source[b] \in Number /\ b \in Int
      BY <2>1 DEF Points
    <3> DEFINE v == Terms(source, 1, d, b, k, direction)
    <3>2. v[0] = Mul(source[b + 0 * d], W(0 * k, 1, direction))
      BY DEF Terms
    <3>3. b + 0 * d = b /\ 0 * k = 1 * 0
      BY <2>1, <3>1, <1>0
    <3>4. W(1 * 0, 1, direction) = One
      BY <2>2, WWhole
    <3>5. v[0] = source[b]
      BY <3>1, <3>2, <3>3, <3>4, ZeroOne
    <3>6. Numbers(v, 1)
      BY <3>1, <3>5 DEF Numbers
    <3>7. Sum(v, 0 + 1) = Add(Sum(v, 0), v[0]) /\ Sum(v, 0) = Zero
      <4>1. 0 \in 0 .. 1 - 1
        OBVIOUS
      <4> HIDE DEF v
      <4> QED
        BY <3>6, <4>1, SumStep
    <3>8. Sum(v, 1) = v[0]
      BY <3>1, <3>5, <3>7, ZeroOne
    <3> QED
      BY <3>1, <3>5, <3>8
  <2> QED
    BY <2>3 DEF Transforms
<1>7. ASSUME NEW s \in Nat, s \in S PROVE s + 1 \in S
  <2>1. ASSUME s + 1 <= n PROVE Good(s + 1)
    <3>0. s \in 0 .. n - 1 /\ s <= n
      BY <1>0, <2>1
    <3> SUFFICES ASSUME NEW d \in Positive, len = size(s + 1) * d
                 PROVE  Transforms(f[s + 1], source, size(s + 1), d, direction)
      OBVIOUS
    <3> DEFINE a == size(s)  b == radices[s + 1]
    <3>1. a \in Positive /\ b \in Positive /\ size(s + 1) = a * b /\ Divides(a * b)
      BY <1>5, <3>0
    <3>2. f[s + 1] = StockhamStage(f[s], len, a, b, direction)
      BY <1>2, <3>0
    <3>3. Good(s)
      BY <1>7, <3>0
    <3>4. \A e \in Positive : len = a * e => Transforms(f[s], source, a, e, direction)
      BY <3>3
    <3> HIDE DEF a, b, Good
    <3>5. len = a * (b * d) /\ b * d \in Positive
      <4>1. (a * b) * d = a * (b * d)
        BY <3>1 DEF Positive
      <4> QED
        BY <3>1, <4>1, PositiveTimes
    <3>6. Transforms(f[s], source, a, b * d, direction)
      BY <3>4, <3>5
    <3>7. Numbers(source, a * (b * d))
      BY <1>4, <3>5
    <3>8. Transforms(StockhamStage(f[s], a * (b * d), a, b, direction), source, a * b, d, direction)
      BY <3>1, <3>6, <3>7, StageTransforms
    <3> QED
      BY <3>1, <3>2, <3>5, <3>8
  <2> QED
    BY <2>1
<1>8. 0 \in S
  BY <1>6
<1> HIDE DEF S
<1>9. n \in S
  BY <1>0, <1>7, <1>8, SetInduction
<1>10. Transforms(f[n], source, len, 1, direction)
  <2>1. Good(n)
    BY <1>0, <1>9 DEF S
  <2>2. 1 \in Positive /\ len = size(n) * 1
    BY <1>0 DEF Positive, size
  <2>3. size(n) = len
    BY <1>0 DEF size
  <2> QED
    BY <2>1, <2>2, <2>3
<1>11. ASSUME NEW k \in 0 .. len - 1
       PROVE  f[n][k] = Sum([i \in 0 .. len - 1 |-> Turned(source[i], <<i * k, len>>, direction)], len)
  <2>1. 0 \in Points(1) /\ k \in Points(len) /\ 0 * len + k = k
    BY <1>0 DEF Points
  <2>2. f[n][0 * len + k] = Sum(Terms(source, len, 1, 0, k, direction), len)
    BY <1>10, <2>1 DEF Transforms
  <2>3. Terms(source, len, 1, 0, k, direction)
          = [i \in 0 .. len - 1 |-> Turned(source[i], <<i * k, len>>, direction)]
    <3>1. \A i \in 0 .. len - 1 : 0 + i * 1 = i
      BY <1>0
    <3> QED
      BY <3>1, TurnedW DEF Terms
  <2> QED
    BY <2>1, <2>2, <2>3
<1>12. f[n] = [k \in 0 .. len - 1 |-> f[n][k]]
  <2>1. f[n] \in [Points(len) -> Number]
    BY <1>0, <1>2
  <2> QED
    BY <2>1 DEF Points
<1>13. StockhamStages(source, len, radices, direction) = f[n]
  BY <1>1, StagesValue DEF n
<1> QED
  BY <1>11, <1>12, <1>13 DEF Fourier

-----------------------------------------------------------------------------
(* Transforms made of smaller ones.                                        *)

LEMMA FourierAt ==
    ASSUME NEW len, Divides(len), NEW direction, NEW x, Numbers(x, len), NEW k \in Points(len)
    PROVE  /\ Fourier(x, len, direction)[k] = Sum(Terms(x, len, 1, 0, k, direction), len)
           /\ Fourier(x, len, direction)[k] \in Number
<1>0. len \in Positive /\ len \in Nat /\ 1 \in Positive /\ 0 \in Points(1) /\ k \in Int /\ len * 1 = len
  BY DEF Divides, Positive, Points
<1>1. Terms(x, len, 1, 0, k, direction)
        = [i \in 0 .. len - 1 |-> Turned(x[i], <<i * k, len>>, direction)]
  <2>1. \A i \in 0 .. len - 1 : 0 + i * 1 = i
    OBVIOUS
  <2> QED
    BY <2>1, TurnedW DEF Terms
<1>2. Fourier(x, len, direction)[k] = Sum(Terms(x, len, 1, 0, k, direction), len)
  BY <1>1 DEF Fourier, Points
<1>3. Numbers(Terms(x, len, 1, 0, k, direction), len)
  <2>1. Numbers(x, len * 1)
    BY <1>0
  <2> QED
    BY <1>0, <2>1, TermsNumbers
<1> QED
  BY <1>0, <1>2, <1>3, SumNumber

LEMMA FourierSame ==
    ASSUME NEW len, NEW direction, NEW x, NEW y, \A i \in Points(len) : x[i] = y[i]
    PROVE  Fourier(x, len, direction) = Fourier(y, len, direction)
<1>1. \A k \in 0 .. len - 1 :
        [i \in 0 .. len - 1 |-> Turned(x[i], <<i * k, len>>, direction)]
          = [i \in 0 .. len - 1 |-> Turned(y[i], <<i * k, len>>, direction)]
  BY DEF Points
<1> QED
  BY <1>1 DEF Fourier

\* A factor common to all elements.
LEMMA FourierTimes ==
    ASSUME NEW len, Divides(len), NEW direction, NEW x, Numbers(x, len), NEW c \in Number,
           NEW y, \A i \in Points(len) : y[i] = Mul(x[i], c), NEW k \in Points(len)
    PROVE  /\ Numbers(y, len)
           /\ Fourier(y, len, direction)[k] = Mul(Fourier(x, len, direction)[k], c)
<1>0. len \in Positive /\ len \in Nat /\ 1 \in Positive /\ 0 \in Points(1) /\ k \in Int /\ len * 1 = len
  BY DEF Divides, Positive, Points
<1>1. Numbers(y, len)
  BY NumberClosed DEF Numbers, Points
<1> DEFINE u == Terms(x, len, 1, 0, k, direction)  v == Terms(y, len, 1, 0, k, direction)
<1>2. Numbers(u, len)
  <2>1. Numbers(x, len * 1)
    BY <1>0
  <2> QED
    BY <1>0, <2>1, TermsNumbers
<1>3. ASSUME NEW i \in 0 .. len - 1 PROVE v[i] = Mul(u[i], c)
  <2> DEFINE a == x[i]  w == W(i * k, len, direction)
  <2>1. 0 + i * 1 = i /\ y[i] = Mul(a, c) /\ a \in Number
    BY DEF Numbers, Points
  <2>2. w \in Number
    <3> DEFINE j == i * k
    <3>1. j \in Int
      BY <1>0
    <3> HIDE DEF j
    <3>2. W(j, len, direction) \in Number
      BY <3>1, WNumber
    <3> QED
      BY <3>2 DEF j
  <2>3. u[i] = Mul(a, w) /\ v[i] = Mul(y[i], w)
    BY <2>1 DEF Terms
  <2> HIDE DEF a, w, u, v
  <2>4. Mul(Mul(a, c), w) = Mul(a, Mul(c, w)) /\ Mul(Mul(a, w), c) = Mul(a, Mul(w, c))
    BY <2>1, <2>2, MulAssociates
  <2>5. Mul(c, w) = Mul(w, c)
    BY <2>2, MulCommutes
  <2> QED
    BY <2>1, <2>3, <2>4, <2>5
<1>4. Sum(v, len) = Mul(Sum(u, len), c)
  <2> HIDE DEF u, v
  <2> QED
    BY <1>0, <1>2, <1>3, SumTimes
<1> QED
  BY <1>1, <1>4, FourierAt

\* A transform of m * r points by r transforms of m points and one of r.
Part(x, m, r, l) == [n \in 0 .. m - 1 |-> x[l + r * n]]

Middle(x, m, r, i, direction) ==
  [l \in 0 .. r - 1 |-> Turned(Fourier(Part(x, m, r, l), m, direction)[i], <<l * i, m * r>>, direction)]

LEMMA PartNumbers ==
    ASSUME NEW m \in Positive, NEW r \in Positive, NEW x, Numbers(x, m * r), NEW l \in Points(r)
    PROVE  Numbers(Part(x, m, r, l), m)
<1>1. m \in Nat /\ r \in Nat /\ l \in 0 .. r - 1
  BY DEF Positive, Points
<1>2. Numbers(Column(x, r, l, m), m)
  BY <1>1, ColumnNumbers
<1> QED
  BY <1>2 DEF Part, Column

LEMMA MiddleNumbers ==
    ASSUME NEW m \in Positive, NEW r \in Positive, Divides(m * r), NEW direction,
           NEW x, Numbers(x, m * r), NEW i \in Points(m)
    PROVE  Numbers(Middle(x, m, r, i, direction), r)
<1>1. Divides(m)
  BY DividesPart
<1>2. ASSUME NEW l \in 0 .. r - 1 PROVE Middle(x, m, r, i, direction)[l] \in Number
  <2> DEFINE j == l * i  z == Fourier(Part(x, m, r, l), m, direction)[i]
  <2>1. j \in Int /\ l \in Points(r)
    BY DEF Points
  <2>2. z \in Number
    BY <1>1, <2>1, PartNumbers, FourierAt
  <2> HIDE DEF j, z
  <2>3. W(j, m * r, direction) \in Number
    BY <2>1, WNumber
  <2>4. Turned(z, <<j, m * r>>, direction) \in Number
    BY <2>2, <2>3, TurnedW, NumberClosed
  <2> QED
    BY <2>4 DEF Middle, j, z
<1> QED
  BY <1>2 DEF Numbers

LEMMA SplitFourier ==
    ASSUME NEW m \in Positive, NEW r \in Positive, Divides(m * r), NEW direction,
           NEW x, Numbers(x, m * r), NEW p \in Points(r), NEW i \in Points(m)
    PROVE  Fourier(x, m * r, direction)[p * m + i]
             = Fourier(Middle(x, m, r, i, direction), r, direction)[p]
<1>0. /\ m \in Nat /\ r \in Nat /\ m * r \in Positive /\ 1 \in Positive /\ 0 \in Points(1)
      /\ r * 1 = r /\ m * (r * 1) = m * r /\ p \in Int /\ i \in Int
  BY PositiveTimes DEF Positive, Points
<1>1. Divides(m) /\ Divides(r)
  BY DividesPart
<1> DEFINE y == [j \in 0 .. m * r - 1 |-> Fourier(Part(x, m, r, j \div m), m, direction)[j % m]]
<1>2. ASSUME NEW b \in Points(r), NEW k \in Points(m)
      PROVE  y[b * m + k] = Fourier(Part(x, m, r, b), m, direction)[k]
  <2>1. b * m + k \in Points(r * m) /\ b \in Nat
    BY <1>0, JoinBelow DEF Points
  <2>2. r * m = m * r
    BY <1>0
  <2>3. (b * m + k) \div m = b /\ (b * m + k) % m = k
    BY <2>1, Split
  <2> QED
    BY <2>1, <2>2, <2>3 DEF Points
<1> HIDE DEF y
<1>3. Transforms(y, x, m, r * 1, direction)
  <2>1. ASSUME NEW b \in Points(r), NEW k \in Points(m)
        PROVE  y[b * m + k] = Sum(Terms(x, m, r, b, k, direction), m)
    <3>1. Numbers(Part(x, m, r, b), m)
      BY PartNumbers
    <3>2. y[b * m + k] = Sum(Terms(Part(x, m, r, b), m, 1, 0, k, direction), m)
      BY <1>1, <1>2, <3>1, FourierAt
    <3>3. Terms(Part(x, m, r, b), m, 1, 0, k, direction) = Terms(x, m, r, b, k, direction)
      <4>1. \A n \in 0 .. m - 1 : Part(x, m, r, b)[0 + n * 1] = x[b + n * r]
        <5> TAKE n \in 0 .. m - 1
        <5>1. 0 + n * 1 = n /\ b + r * n = b + n * r
          BY <1>0 DEF Points
        <5> QED
          BY <5>1 DEF Part
      <4> QED
        BY <4>1 DEF Terms
    <3> QED
      BY <3>2, <3>3
  <2> QED
    BY <1>0, <2>1 DEF Transforms
<1> DEFINE z == StockhamStage(y, m * (r * 1), m, r, direction)  k == p * m + i
<1>4. Transforms(z, x, m * r, 1, direction)
  <2>1. Numbers(x, m * (r * 1))
    BY <1>0
  <2> QED
    BY <1>0, <1>3, <2>1, StageTransforms
<1>5. k \in Points(m * r)
  <2>1. k \in Points(r * m) /\ r * m = m * r
    BY <1>0, JoinBelow
  <2> QED
    BY <2>1
<1>6. z[0 * (m * r) + k] = Fourier(x, m * r, direction)[k]
  <2> HIDE DEF k, z
  <2>1. z[0 * (m * r) + k] = Sum(Terms(x, m * r, 1, 0, k, direction), m * r)
    BY <1>0, <1>4, <1>5 DEF Transforms
  <2> QED
    BY <1>5, <2>1, FourierAt
<1> DEFINE lane == [l \in 0 .. r - 1 |->
                      Mul(Mul(y[(0 + l * 1) * m + i], W(i * l, m * r, direction)),
                          W(p * l, r, direction))]
<1>7. z[0 * (m * r) + k] = Sum(lane, r)
  <2> DEFINE d == 1  b == 0
  <2>1. d \in Positive /\ b \in Points(d)
    BY <1>0
  <2> HIDE DEF d, b
  <2>2. StockhamStage(y, m * (r * d), m, r, direction)[b * (m * r) + (p * m + i)]
          = Sum([l \in 0 .. r - 1 |->
                   Mul(Mul(y[(b + l * d) * m + i], W(i * l, m * r, direction)),
                       W(p * l, r, direction))], r)
    BY <2>1, StageElement
  <2> QED
    BY <2>2 DEF d, b
<1> DEFINE v == Middle(x, m, r, i, direction)
<1>8. lane = Terms(v, r, 1, 0, p, direction)
  <2>1. ASSUME NEW l \in 0 .. r - 1
        PROVE  Mul(Mul(y[(0 + l * 1) * m + i], W(i * l, m * r, direction)), W(p * l, r, direction))
                 = Mul(v[0 + l * 1], W(l * p, r, direction))
    <3>1. 0 + l * 1 = l /\ i * l = l * i /\ p * l = l * p /\ l \in Points(r)
      BY <1>0 DEF Points
    <3>2. y[l * m + i] = Fourier(Part(x, m, r, l), m, direction)[i]
      BY <1>2, <3>1
    <3>3. v[l] = Mul(y[l * m + i], W(l * i, m * r, direction))
      BY <3>2, TurnedW DEF Middle
    <3> QED
      BY <3>1, <3>3
  <2> QED
    BY <2>1 DEF Terms
<1>9. Fourier(v, r, direction)[p] = Sum(Terms(v, r, 1, 0, p, direction), r)
  BY <1>1, MiddleNumbers, FourierAt
<1> QED
  BY <1>6, <1>7, <1>8, <1>9

-----------------------------------------------------------------------------
(* Scales.                                                                 *)

\* What Scaled multiplies by.
Factor(scale, n) == IF scale THEN Shrink(One, n) ELSE One

\* The inverse that Shrink chooses is the only one.
LEMMA ShrinkFactor ==
    ASSUME NEW n \in Positive, NEW e \in Positive, Q + 1 = n * e, NEW z
    PROVE  Shrink(z, n) = Mul(z, Rep(e, 0))
<1>0. Q \in Nat /\ Q >= 3 /\ Q \in Positive /\ n \in Int /\ e \in Int /\ n > 0 /\ e > 0
  BY Modulus DEF Positive
<1> DEFINE r == e % Q  q == e \div Q
<1>1. q \in Int /\ r \in Points(Q) /\ e = q * Q + r
  BY <1>0, IntDivMod
<1> HIDE DEF r, q
<1>2. r \in Int /\ 0 <= r /\ r < Q
  BY <1>0, <1>1 DEF Points
<1>3. r * n \in Int /\ r * n = 1 + (1 - q * n) * Q /\ 1 - q * n \in Int
  <2>1. (q * Q + r) * n = (q * n) * Q + r * n
    BY <1>0, <1>1, <1>2
  <2>2. n * e = (q * Q + r) * n
    BY <1>0, <1>1
  <2>3. (1 - q * n) * Q = Q - (q * n) * Q
    BY <1>0, <1>1
  <2>4. r * n \in Int /\ (q * n) * Q \in Int /\ q * n \in Int
    BY <1>0, <1>1, <1>2
  <2> QED
    BY <1>0, <2>1, <2>2, <2>3, <2>4
<1>4. (r * n) % Q = 1
  <2> DEFINE a == r * n  t == 1 - q * n
  <2>1. a \in Int /\ t \in Int /\ a = 1 + t * Q
    BY <1>3
  <2> HIDE DEF a, t
  <2>2. a % Q = 1 % Q
    <3> DEFINE c == 1
    <3>1. c \in Int /\ a = c + t * Q
      BY <2>1
    <3> HIDE DEF c
    <3>2. a % Q = c % Q
      BY <1>0, <2>1, <3>1, SameRemainder
    <3> QED
      BY <3>2 DEF c
  <2>3. 1 % Q = 1
    <3>1. 1 \in Points(Q)
      BY <1>0 DEF Points
    <3> QED
      BY <1>0, <3>1, SmallRemainder
  <2> QED
    BY <2>2, <2>3 DEF a
<1>5. r \in 1 .. Q - 1
  <2>1. r # 0
    <3>1. 0 \in Points(Q)
      BY <1>0 DEF Points
    <3>2. 0 % Q = 0
      BY <1>0, <3>1, SmallRemainder
    <3>3. 0 * n = 0
      BY <1>0
    <3> QED
      BY <1>4, <3>2, <3>3
  <2> QED
    BY <1>0, <1>2, <2>1
<1>6. ASSUME NEW m \in 1 .. Q - 1, (m * n) % Q = 1 PROVE m = r
  <2> DEFINE t == (m * n) \div Q
  <2>1. m \in Int /\ m * n \in Int
    BY <1>0
  <2>2. t \in Int /\ m * n = t * Q + 1
    <3> DEFINE a == m * n
    <3>1. a \in Int /\ a % Q = 1
      BY <1>6, <2>1
    <3> HIDE DEF a
    <3>2. a \div Q \in Int /\ a = (a \div Q) * Q + (a % Q)
      BY <1>0, <3>1, IntDivMod
    <3> QED
      BY <3>1, <3>2 DEF a
  <2> HIDE DEF t
  <2>3. m * (Q + 1) = (t * Q + 1) * e
    <3>1. m * (n * e) = (m * n) * e
      BY <1>0, <2>1
    <3> QED
      BY <2>2, <3>1
  <2>4. m = r + (q + t * e - m) * Q
    <3>1. m * (Q + 1) = m * Q + m /\ (t * Q + 1) * e = (t * e) * Q + e
      BY <1>0, <2>1, <2>2
    <3>2. (q + t * e - m) * Q = q * Q + (t * e) * Q - m * Q
      BY <1>0, <1>1, <2>1, <2>2
    <3> DEFINE u == q * Q  v == (t * e) * Q  w == m * Q
    <3>3. u \in Int /\ v \in Int /\ w \in Int
      BY <1>0, <1>1, <2>1, <2>2
    <3>4. w + m = v + e /\ e = u + r /\ (q + t * e - m) * Q = u + v - w
      BY <1>1, <2>3, <3>1, <3>2
    <3> HIDE DEF u, v, w
    <3>5. m = r + (u + v - w)
      BY <1>0, <1>2, <2>1, <3>3, <3>4
    <3> QED
      BY <3>4, <3>5
  <2>5. q + t * e - m \in Int
    BY <1>0, <1>1, <2>1, <2>2
  <2>6. m % Q = r % Q
    <3> DEFINE s == q + t * e - m
    <3>1. s \in Int /\ m = r + s * Q
      BY <2>4, <2>5
    <3> HIDE DEF s
    <3> QED
      BY <1>0, <1>2, <2>1, <3>1, SameRemainder
  <2>7. m \in Points(Q)
    BY <1>0 DEF Points
  <2> QED
    BY <1>0, <1>1, <2>6, <2>7, SmallRemainder
<1>7. (CHOOSE m \in 1 .. Q - 1 : (m * n) % Q = 1) = r
  BY <1>4, <1>5, <1>6
<1>8. 0 % Q = 0
  <2>1. 0 \in Points(Q)
    BY <1>0 DEF Points
  <2> QED
    BY <1>0, <2>1, SmallRemainder
<1> QED
  BY <1>7, <1>8 DEF Shrink, Rep, r

LEMMA ScaledFactor ==
    ASSUME NEW n, Divides(n), NEW scale, NEW z \in Number
    PROVE  Factor(scale, n) \in Number /\ Scaled(z, scale, n) = Mul(z, Factor(scale, n))
<1>1. PICK e \in Positive : Q + 1 = n * e
  BY DEF Divides
<1>2. n \in Positive /\ e \in Int /\ 0 \in Int
  BY DEF Divides, Positive
<1>3. Rep(e, 0) \in Number
  BY <1>2, RepNumber
<1>4. Shrink(z, n) = Mul(z, Rep(e, 0)) /\ Shrink(One, n) = Rep(e, 0)
  BY <1>1, <1>2, <1>3, ShrinkFactor, ZeroOne
<1> QED
  BY <1>3, <1>4, Units, ZeroOne DEF Factor, Scaled

\* Scaling by a and by b is scaling by a * b.
LEMMA FactorTimes ==
    ASSUME NEW a \in Positive, NEW b \in Positive, Divides(a * b), NEW scale
    PROVE  Mul(Factor(scale, a), Factor(scale, b)) = Factor(scale, a * b)
<1>1. PICK e \in Positive : Q + 1 = (a * b) * e
  BY DEF Divides
<1>2. a \in Int /\ b \in Int /\ e \in Int /\ 0 \in Int /\ a * b \in Positive /\ Q \in Nat
  BY Modulus DEF Divides, Positive
<1> DEFINE f == b * e  g == a * e
<1>3. f \in Positive /\ g \in Positive /\ f \in Int /\ g \in Int /\ Q + 1 = a * f /\ Q + 1 = b * g
  BY <1>1, <1>2, PositiveTimes
<1>4. f * g = e + e * Q
  <2>1. (b * e) * (a * e) = e * ((a * b) * e)
    BY <1>2
  <2>2. e * (Q + 1) = e + e * Q
    BY <1>2
  <2> QED
    BY <1>1, <2>1, <2>2
<1> HIDE DEF f, g
<1>5. CASE scale
  <2>1. /\ Factor(scale, a) = Rep(f, 0) /\ Factor(scale, b) = Rep(g, 0)
        /\ Factor(scale, a * b) = Rep(e, 0)
    <3>1. Rep(f, 0) \in Number /\ Rep(g, 0) \in Number /\ Rep(e, 0) \in Number
      BY <1>2, <1>3, RepNumber
    <3>2. Shrink(One, a) = Mul(One, Rep(f, 0)) /\ Shrink(One, b) = Mul(One, Rep(g, 0))
      BY <1>3, ShrinkFactor
    <3>3. Shrink(One, a * b) = Mul(One, Rep(e, 0))
      BY <1>1, <1>2, ShrinkFactor
    <3> QED
      BY <1>5, <3>1, <3>2, <3>3, ZeroOne DEF Factor
  <2>2. Mul(Rep(f, 0), Rep(g, 0)) = Rep(MulRe(f, 0, g, 0), MulIm(f, 0, g, 0))
    BY <1>2, <1>3, MulRep
  <2>3. MulRe(f, 0, g, 0) = f * g /\ MulIm(f, 0, g, 0) = 0
    BY <1>3 DEF MulRe, MulIm
  <2>4. Rep(f * g, 0) = Rep(e, 0)
    <3> DEFINE h == f * g
    <3>1. h \in Int /\ h = e + e * Q
      BY <1>3, <1>4
    <3> HIDE DEF h
    <3>2. h % Q = e % Q
      BY <1>2, <3>1, Modulus, SameRemainder
    <3> QED
      BY <3>2 DEF h, Rep
  <2> QED
    BY <2>1, <2>2, <2>3, <2>4
<1>6. CASE ~scale
  BY <1>6, Units, ZeroOne DEF Factor
<1> QED
  BY <1>5, <1>6

-----------------------------------------------------------------------------
(* Passes.                                                                 *)

\* z holds result k2 of the a transforms of b points that the a * b elements x are
\* made of, turned for the transforms of a points that follow.
Interim(z, x, a, b, k2, direction, scale) ==
  \A n1 \in Points(a) :
    z[n1] = Turned(Scaled(Fourier(Part(x, b, a, n1), b, direction)[k2], scale, b),
                   <<n1 * k2, a * b>>, direction)

\* Those make a transform of a * b points.
LEMMA TwoSteps ==
    ASSUME NEW a \in Positive, NEW b \in Positive, Divides(a * b), NEW direction, NEW scale,
           NEW x, Numbers(x, a * b), NEW k1 \in Points(a), NEW k2 \in Points(b),
           NEW z, Interim(z, x, a, b, k2, direction, scale)
    PROVE  /\ Numbers(z, a)
           /\ Scaled(Fourier(z, a, direction)[k1], scale, a)
                = Scaled(Fourier(x, a * b, direction)[k1 * b + k2], scale, a * b)
<1>0. a \in Nat /\ b \in Nat /\ a * b = b * a /\ k1 \in Nat /\ k2 \in Nat
  BY DEF Positive, Points
<1>1. Divides(a) /\ Divides(b)
  BY DividesPart
<1>2. Divides(b * a) /\ Numbers(x, b * a)
  BY <1>0
<1> DEFINE m == Middle(x, b, a, k2, direction)  f == Factor(scale, b)  g == Factor(scale, a)
<1>3. f \in Number /\ g \in Number
  BY <1>1, Units, ScaledFactor
<1>4. Numbers(m, a)
  BY <1>2, MiddleNumbers
<1>5. ASSUME NEW n1 \in Points(a) PROVE z[n1] = Mul(m[n1], f)
  <2> DEFINE v == Fourier(Part(x, b, a, n1), b, direction)[k2]
             w == W(n1 * k2, b * a, direction)
  <2>1. v \in Number
    BY <1>1, <1>2, PartNumbers, FourierAt
  <2>2. w \in Number
    <3> DEFINE j == n1 * k2
    <3>1. j \in Int
      BY <1>0 DEF Points
    <3> HIDE DEF j
    <3>2. W(j, b * a, direction) \in Number
      BY <1>2, <3>1, WNumber
    <3> QED
      BY <3>2 DEF j
  <2>3. z[n1] = Mul(Scaled(v, scale, b), w)
    <3>1. z[n1] = Turned(Scaled(v, scale, b), <<n1 * k2, b * a>>, direction)
      BY <1>0 DEF Interim
    <3> HIDE DEF v
    <3> QED
      BY <3>1, TurnedW
  <2>4. m[n1] = Mul(v, w)
    BY TurnedW DEF Middle, Points
  <2> HIDE DEF v, w, m
  <2>5. Scaled(v, scale, b) = Mul(v, f)
    BY <1>1, <2>1, ScaledFactor
  <2> HIDE DEF f
  <2>6. Mul(Mul(v, f), w) = Mul(v, Mul(f, w)) /\ Mul(Mul(v, w), f) = Mul(v, Mul(w, f))
    BY <1>3, <2>1, <2>2, MulAssociates
  <2>7. Mul(f, w) = Mul(w, f)
    BY <1>3, <2>2, MulCommutes
  <2> QED
    BY <2>3, <2>4, <2>5, <2>6, <2>7
<1> DEFINE y == Fourier(x, b * a, direction)[k1 * b + k2]
<1>6. Fourier(m, a, direction)[k1] = y
  BY <1>2, SplitFourier
<1>7. y \in Number
  <2>1. k1 * b + k2 \in Points(a * b)
    BY <1>0, JoinBelow
  <2> HIDE DEF y
  <2>2. Fourier(x, b * a, direction)[k1 * b + k2] \in Number
    BY <1>0, <1>2, <2>1, FourierAt
  <2> QED
    BY <2>2 DEF y
<1> HIDE DEF m, f, g, y
<1>8. Numbers(z, a) /\ Fourier(z, a, direction)[k1] = Mul(y, f)
  BY <1>1, <1>3, <1>4, <1>5, <1>6, FourierTimes
<1>9. Scaled(Mul(y, f), scale, a) = Mul(Mul(y, f), g)
  <2>1. Mul(y, f) \in Number
    BY <1>3, <1>7, NumberClosed
  <2> QED
    BY <1>1, <2>1, ScaledFactor DEF g
<1>10. Mul(Mul(y, f), g) = Mul(y, Mul(f, g))
  BY <1>3, <1>7, MulAssociates
<1>11. Mul(f, g) = Factor(scale, b * a)
  BY <1>2, FactorTimes DEF f, g
<1>12. Scaled(y, scale, b * a) = Mul(y, Factor(scale, b * a))
  BY <1>2, <1>7, ScaledFactor
<1> QED
  BY <1>0, <1>8, <1>9, <1>10, <1>11, <1>12 DEF y

\* Transform "batch" of a pass reads these numbers.
Source(io, len, direction, batch, memory) ==
  [i \in 0 .. len - 1 |-> Turned(At(memory, input_index(io, len, batch, i)),
                                 input_turn(io, batch, i), direction)]

\* Memory "after" holds the n transforms of len points of memory "before" where the
\* mapping io stores them, turned as it turns them.
Transformed(io, len, direction, scale, n, before, after) ==
  \A batch \in Points(n), i \in Points(len) :
    At(after, output_index(io, len, batch, i))
      = Turned(Scaled(Fourier(Source(io, len, direction, batch, before), len, direction)[i],
                      scale, len),
               output_turn(io, batch, i), direction)

\* Line number "line" of a memory of lines of len elements.
Line(memory, len, line) == [i \in 0 .. len - 1 |-> At(memory, line * len + i)]

\* Memory "after" holds the transform of every line of memory "before".
LinesTransformed(len, direction, scale, lines, before, after) ==
  \A line \in Points(lines), k \in Points(len) :
    At(after, line * len + k)
      = Scaled(Fourier(Line(before, len, line), len, direction)[k], scale, len)

\* Every element of the lines has been written.
Filled(memory, len, lines) == \A line \in Points(lines) : Numbers(Line(memory, len, line), len)

LEMMA Unturned ==
    ASSUME NEW z \in Number, NEW direction
    PROVE  Turned(z, <<0, 1>>, direction) = z
<1>1. Divides(1)
  <2>1. 1 \in Positive /\ Q + 1 \in Positive /\ Q + 1 = 1 * (Q + 1)
    BY Modulus DEF Positive
  <2> QED
    BY <2>1 DEF Divides
<1>2. W(1 * 0, 1, direction) = One
  BY <1>1, WWhole
<1> QED
  BY <1>2, TurnedW, ZeroOne

LEMMA LineAt ==
    ASSUME NEW memory, NEW a \in Positive, NEW b \in Positive, NEW line,
           Numbers(Line(memory, a * b, line), a * b),
           NEW n1 \in Points(a), NEW n2 \in Points(b)
    PROVE  /\ At(memory, line * (a * b) + (n1 + a * n2))
                = Part(Line(memory, a * b, line), b, a, n1)[n2]
           /\ At(memory, line * (a * b) + (n1 + a * n2)) \in Number
<1>1. a \in Nat /\ b \in Nat /\ n1 \in 0 .. a - 1 /\ n2 \in 0 .. b - 1 /\ b * a = a * b
  BY DEF Positive, Points
<1> DEFINE j == n1 + a * n2  len == a * b
<1>2. j \in 0 .. len - 1
  BY <1>1, ColumnBelow
<1>3. Part(Line(memory, a * b, line), b, a, n1)[n2] = Line(memory, len, line)[j]
  BY <1>1 DEF Part
<1> HIDE DEF j, len
<1>4. Line(memory, len, line)[j] = At(memory, line * len + j)
  BY <1>2 DEF Line
<1>5. Line(memory, len, line)[j] \in Number
  BY <1>2 DEF Numbers, len
<1> QED
  BY <1>3, <1>4, <1>5 DEF j, len

\* A turned scaled element of a transform is a number.
LEMMA ResultNumber ==
    ASSUME NEW a \in Positive, NEW b \in Positive, Divides(a * b), NEW direction, NEW scale,
           NEW x, Numbers(x, a * b), NEW n1 \in Points(a), NEW k2 \in Points(b)
    PROVE  Turned(Scaled(Fourier(Part(x, b, a, n1), b, direction)[k2], scale, b),
                  <<n1 * k2, a * b>>, direction) \in Number
<1> DEFINE j == n1 * k2  u == Fourier(Part(x, b, a, n1), b, direction)[k2]
<1>1. Divides(b)
  BY DividesPart
<1>2. j \in Int
  BY DEF Points
<1>3. u \in Number
  <2>1. b * a = a * b
    BY DEF Positive
  <2>2. Numbers(Part(x, b, a, n1), b)
    BY <2>1, PartNumbers
  <2> QED
    BY <1>1, <2>2, FourierAt
<1> HIDE DEF j, u
<1>4. W(j, a * b, direction) \in Number /\ Scaled(u, scale, b) \in Number
  BY <1>1, <1>2, <1>3, WNumber, ScaledFactor, NumberClosed
<1>5. Mul(Scaled(u, scale, b), W(j, a * b, direction)) \in Number
  BY <1>4, NumberClosed
<1> QED
  BY <1>5, TurnedW DEF j, u


\* What transform line * b + k2 of the second upload reads.
LEMMA SecondUploadReads ==
    ASSUME NEW a \in Positive, NEW b \in Positive, Divides(a * b), NEW direction, NEW scale,
           NEW lines \in Nat, NEW before, NEW between, NEW line \in Points(lines),
           Numbers(Line(before, a * b, line), a * b),
           Transformed(FourStepRight(a, b), b, direction, scale, lines * a, before, between),
           NEW k2 \in Points(b)
    PROVE  Interim(Source(FourStepLeft(a, b), a, direction, line * b + k2, between),
                   Line(before, a * b, line), a, b, k2, direction, scale)
<1> DEFINE right == FourStepRight(a, b)  left == FourStepLeft(a, b)  y == line * b + k2
           x == Line(before, a * b, line)  z == Source(left, a, direction, y, between)
<1>0. a \in Nat /\ b \in Nat /\ line \in Nat /\ b \in Int
  BY DEF Positive, Points
<1> SUFFICES ASSUME NEW n1 \in Points(a)
             PROVE  z[n1] = Turned(Scaled(Fourier(Part(x, b, a, n1), b, direction)[k2], scale, b),
                                   <<n1 * k2, a * b>>, direction)
  BY DEF Interim
<1> DEFINE w == line * a + n1
<1>1. w \in Points(lines * a) /\ w \div a = line /\ w % a = n1 /\ w \in Nat
  BY <1>0, JoinBelow, Split
<1>2. n1 \in Int /\ n1 \in Nat /\ n1 \in 0 .. a - 1
  BY DEF Points
<1> HIDE DEF w
<1>3. ASSUME NEW i \in Points(b)
      PROVE  Source(right, b, direction, w, before)[i] = Part(x, b, a, n1)[i]
  <2>1. input_index(right, b, w, i) = line * (a * b) + n1 + a * i
    BY <1>1 DEF FourStepRight, input_index, PrimeIndex, Strided
  <2>2. line * (a * b) + n1 + a * i = line * (a * b) + (n1 + a * i)
    BY <1>0, <1>2 DEF Points
  <2>3. input_turn(right, w, i) = <<0, 1>>
    BY DEF FourStepRight, input_turn
  <2>4. /\ At(before, line * (a * b) + (n1 + a * i)) = Part(x, b, a, n1)[i]
        /\ At(before, line * (a * b) + (n1 + a * i)) \in Number
    BY LineAt
  <2>5. Source(right, b, direction, w, before)[i]
          = Turned(At(before, input_index(right, b, w, i)), input_turn(right, w, i), direction)
    BY DEF Source, Points
  <2> HIDE DEF x, right
  <2> QED
    BY <2>1, <2>2, <2>3, <2>4, <2>5, Unturned
<1> DEFINE v == Scaled(Fourier(Part(x, b, a, n1), b, direction)[k2], scale, b)
<1>4. Fourier(Source(right, b, direction, w, before), b, direction)
        = Fourier(Part(x, b, a, n1), b, direction)
  <2> HIDE DEF x, right
  <2> QED
    BY <1>3, FourierSame
<1>5. At(between, output_index(right, b, w, k2)) = Turned(v, output_turn(right, w, k2), direction)
  BY <1>1, <1>4 DEF Transformed
<1>6. output_turn(right, w, k2) = <<n1 * k2, a * b>>
  BY <1>1 DEF FourStepRight, output_turn
<1>7. output_index(right, b, w, k2) = (line * b + k2) * a + n1
  BY <1>1 DEF FourStepRight, output_index, UploadIndex
<1>8. input_index(left, a, y, n1) = (line * b + k2) * a + n1 /\ input_turn(left, y, n1) = <<0, 1>>
  BY DEF FourStepLeft, input_index, PrimeIndex, input_turn, y
<1>9. z[n1] = Turned(At(between, input_index(left, a, y, n1)), input_turn(left, y, n1), direction)
  BY <1>2 DEF Source
<1>10. Turned(v, <<n1 * k2, a * b>>, direction) \in Number
  BY ResultNumber
<1> HIDE DEF v, z, left, right
<1> QED
  BY <1>5, <1>6, <1>7, <1>8, <1>9, <1>10, Unturned DEF v

\* The two uploads of a transform of a * b points leave the discrete Fourier
\* transform of every line in natural order, scaled once by a * b when each of them
\* scales by its own length (map_four_step_uploads of src/src/fft_ir.rs and the
\* FourStep mappings of src/src/kernel_ir.rs).
THEOREM TwoUploadsAreFourier ==
    ASSUME NEW a \in Positive, NEW b \in Positive, Divides(a * b), NEW direction, NEW scale,
           NEW lines \in Nat, NEW before, NEW between, NEW after, Filled(before, a * b, lines),
           Transformed(FourStepRight(a, b), b, direction, scale, lines * a, before, between),
           Transformed(FourStepLeft(a, b), a, direction, scale, lines * b, between, after)
    PROVE  LinesTransformed(a * b, direction, scale, lines, before, after)
<1> SUFFICES ASSUME NEW line \in Points(lines), NEW k \in Points(a * b)
             PROVE  At(after, line * (a * b) + k)
                      = Scaled(Fourier(Line(before, a * b, line), a * b, direction)[k], scale, a * b)
  BY DEF LinesTransformed
<1> DEFINE left == FourStepLeft(a, b)  k1 == k \div b  k2 == k % b  y == line * b + k2
           x == Line(before, a * b, line)  z == Source(left, a, direction, y, between)
<1>0. a \in Nat /\ b \in Nat /\ line \in Nat /\ b \in Int
  BY DEF Positive, Points
<1>1. k1 \in Points(a) /\ k2 \in Points(b) /\ k = k1 * b + k2
  BY <1>0, SplitBelow
<1> HIDE DEF k1, k2
<1>2. y \in Points(lines * b) /\ y \div b = line /\ y % b = k2
  BY <1>0, <1>1, JoinBelow, Split
<1>3. Numbers(x, a * b)
  BY DEF Filled
<1>4. Divides(a)
  BY DividesPart
<1>5. Interim(z, x, a, b, k2, direction, scale)
  BY <1>1, <1>3, SecondUploadReads
<1> HIDE DEF y, x, z
<1>6. /\ Numbers(z, a)
      /\ Scaled(Fourier(z, a, direction)[k1], scale, a)
           = Scaled(Fourier(x, a * b, direction)[k1 * b + k2], scale, a * b)
  <2>1. /\ a \in Positive /\ b \in Positive /\ Divides(a * b) /\ Numbers(x, a * b)
        /\ k1 \in Points(a) /\ k2 \in Points(b)
    BY <1>1, <1>3
  <2> QED
    BY <1>5, <2>1, TwoSteps
<1>7. output_index(left, a, y, k1) = line * (a * b) + k2 + b * k1 /\ output_turn(left, y, k1) = <<0, 1>>
  BY <1>2 DEF FourStepLeft, output_index, UploadIndex, output_turn
<1>8. line * (a * b) + k2 + b * k1 = line * (a * b) + k
  BY <1>0, <1>1 DEF Points
<1>9. Scaled(Fourier(z, a, direction)[k1], scale, a) \in Number
  <2>1. Fourier(z, a, direction)[k1] \in Number
    BY <1>1, <1>4, <1>6, FourierAt
  <2> QED
    BY <1>4, <2>1, ScaledFactor, NumberClosed
<1>10. At(after, output_index(left, a, y, k1))
         = Turned(Scaled(Fourier(z, a, direction)[k1], scale, a), output_turn(left, y, k1), direction)
  BY <1>1, <1>2 DEF Transformed, z
<1> HIDE DEF left
<1> QED
  BY <1>1, <1>6, <1>7, <1>8, <1>9, <1>10, Unturned DEF x

\* What a memory holds once these pairs are stored to it.
Holds(memory, stores) == \A s \in stores : At(memory, s[1]) = s[2]

\* A Stockham transform with nothing fused into it.
Leaf(ir, io, len, direction, scale) ==
  /\ ir.io = io /\ ir.len = len /\ ir.direction = direction /\ ir.normalize = scale
  /\ ir.multiply = FALSE /\ ir.modifier = NoModifier
  /\ Schedule(ir.radices, len)

\* What workgroup "batch" of a transform through the mapping io has to store as element i.
Result(io, len, direction, scale, batch, memory, i) ==
  Turned(Scaled(Fourier(Source(io, len, direction, batch, memory), len, direction)[i], scale, len),
         output_turn(io, batch, i), direction)

LEMMA MappingKind ==
    ASSUME NEW len, NEW io, IsMapping(io, len)
    PROVE  io.kind \notin {"RealEvenPack", "RealEvenInversePreprocess"}
  BY DEF IsMapping, IsUpload, Contiguous, FourStepRight, FourStepLeft, ThreeUpload, PreTwiddle,
         CooleyRight, CooleyLeft

LEMMA StockhamStores ==
    ASSUME NEW len, Divides(len), NEW io, IsMapping(io, len), NEW direction, NEW scale,
           NEW ir, Leaf(ir, io, len, direction, scale),
           NEW batch, NEW memory, NEW lookup, NEW auxiliary,
           Numbers(Source(io, len, direction, batch, memory), len)
    PROVE  Stockham(ir, batch, memory, lookup, auxiliary)
             = {<<output_index(io, len, batch, i),
                  Result(io, len, direction, scale, batch, memory, i)>> : i \in Points(len)}
<1> DEFINE source == [i \in 0 .. ir.len - 1 |->
                        InputValue(ir, ir.io, ir.multiply, batch, i, memory, lookup)]
           result == StockhamStages(source, ir.len, ir.radices, ir.direction)
           value == [i \in 0 .. ir.len - 1 |-> Scaled(result[i], ir.normalize, ir.len)]
           y == Fourier(Source(io, len, direction, batch, memory), len, direction)
<1>1. io.kind \notin {"RealEvenPack", "RealEvenInversePreprocess"}
  BY MappingKind
<1>2. source = Source(io, len, direction, batch, memory)
  BY <1>1 DEF Leaf, InputValue, Source
<1>3. Source(io, len, direction, batch, memory) \in [0 .. len - 1 -> Number]
  BY DEF Numbers, Source
<1>4. result = y
  <2> HIDE DEF source
  <2>1. Schedule(ir.radices, len)
    BY DEF Leaf
  <2>2. StockhamStages(source, len, ir.radices, direction) = Fourier(source, len, direction)
    BY <1>2, <1>3, <2>1, StockhamIsFourier
  <2> QED
    BY <1>2, <2>2 DEF Leaf
<1>5. value = [i \in 0 .. len - 1 |-> Scaled(y[i], scale, len)]
  <2> HIDE DEF result, y
  <2> QED
    BY <1>4 DEF Leaf
<1>6. Stockham(ir, batch, memory, lookup, auxiliary)
        = Outputs(ir.io, ir.modifier, ir, batch, value, auxiliary)
  BY DEF Stockham
<1> HIDE DEF value, result, source, y
<1>7. Outputs(ir.io, ir.modifier, ir, batch, value, auxiliary)
        = Mapped(io, len, direction, batch, {<<i, value[i]>> : i \in DOMAIN value})
  BY DEF Outputs, Leaf, NoModifier
<1>8. {<<i, value[i]>> : i \in DOMAIN value} = {<<i, Scaled(y[i], scale, len)>> : i \in Points(len)}
  BY <1>5 DEF Points
<1>9. Mapped(io, len, direction, batch, {<<i, Scaled(y[i], scale, len)>> : i \in Points(len)})
        = {<<output_index(io, len, batch, i),
             Turned(Scaled(y[i], scale, len), output_turn(io, batch, i), direction)>>
           : i \in Points(len)}
  <2> DEFINE e(i) == <<i, Scaled(y[i], scale, len)>>
             S == {e(i) : i \in Points(len)}
             f(p) == <<output_index(io, len, batch, p[1]),
                       Turned(p[2], output_turn(io, batch, p[1]), direction)>>
             g(i) == <<output_index(io, len, batch, i),
                       Turned(Scaled(y[i], scale, len), output_turn(io, batch, i), direction)>>
  <2>1. \A i \in Points(len) : f(e(i)) = g(i)
    OBVIOUS
  <2>2. Mapped(io, len, direction, batch, S) = {f(p) : p \in S}
    BY DEF Mapped
  <2> HIDE DEF f, g, e
  <2>3. {f(p) : p \in S} = {g(i) : i \in Points(len)}
    BY <2>1
  <2> QED
    BY <2>2, <2>3 DEF S, e, g
<1> QED
  BY <1>6, <1>7, <1>8, <1>9 DEF Result, y

\* No two of the pairs have the same place.
LEMMA WrittenHolds ==
    ASSUME NEW cells, NEW stores, \A s \in stores : s[1] \in DOMAIN cells,
           \A s, t \in stores : s[1] = t[1] => s = t
    PROVE  Holds(Written(cells, stores), stores)
<1> SUFFICES ASSUME NEW s \in stores PROVE At(Written(cells, stores), s[1]) = s[2]
  BY DEF Holds
<1>1. s[1] \in DOMAIN Written(cells, stores)
  BY DEF Written
<1>2. (CHOOSE t \in stores : t[1] = s[1]) = s
  OBVIOUS
<1> QED
  BY <1>1, <1>2 DEF Written, At

\* A dispatch of a Stockham transform over whole lines leaves the discrete Fourier
\* transform of what each workgroup reads, at the place its mapping stores it,
\* whichever order the workgroups store in (the kernel that src/src/kernel_ir.rs
\* emits, for every mapping of StockhamIoMapping).
THEOREM StockhamPassTransforms ==
    ASSUME NEW len, Divides(len), NEW io, IsMapping(io, len), NEW direction, NEW scale,
           NEW ir, Leaf(ir, io, len, direction, scale), NEW lines \in Nat,
           NEW before, NEW lookup, NEW auxiliary,
           \A batch \in Points(lines * PerLine(io)) :
             Numbers(Source(io, len, direction, batch, before), len),
           NEW cells, Places(io, len, lines) \subseteq DOMAIN cells
    PROVE  Transformed(io, len, direction, scale, lines * PerLine(io), before,
                       Written(cells, UNION {Stockham(ir, batch, before, lookup, auxiliary)
                                             : batch \in Points(lines * PerLine(io))}))
<1> DEFINE n == lines * PerLine(io)
           stores == UNION {Stockham(ir, batch, before, lookup, auxiliary) : batch \in Points(n)}
           place == [p \in Elements(io, len, lines) |-> output_index(io, len, p[1], p[2])]
           value(batch, i) == Result(io, len, direction, scale, batch, before, i)
<1>1. place \in Bijection(Elements(io, len, lines), Places(io, len, lines))
  <2>1. len \in Positive
    BY DEF Divides
  <2> QED
    BY <2>1, StoresOnce
<1>2. ASSUME NEW batch \in Points(n)
      PROVE  Stockham(ir, batch, before, lookup, auxiliary)
               = {<<output_index(io, len, batch, i), value(batch, i)>> : i \in Points(len)}
  BY StockhamStores
<1>3. Elements(io, len, lines) = Points(n) \X Points(len)
  BY DEF Elements
<1> HIDE DEF n, value
<1>4. \A s \in stores : \E batch \in Points(n), i \in Points(len) :
         /\ <<batch, i>> \in Elements(io, len, lines)
         /\ s = <<place[<<batch, i>>], value(batch, i)>>
  BY <1>2, <1>3
<1>5. \A batch \in Points(n), i \in Points(len) :
         /\ <<batch, i>> \in Elements(io, len, lines)
         /\ place[<<batch, i>>] = output_index(io, len, batch, i)
         /\ <<place[<<batch, i>>], value(batch, i)>> \in stores
  BY <1>2, <1>3
<1> HIDE DEF stores, place
<1>6. \A s \in stores : s[1] \in DOMAIN cells
  <2>1. \A p \in Elements(io, len, lines) : place[p] \in Places(io, len, lines)
    <3>1. place \in [Elements(io, len, lines) -> Places(io, len, lines)]
      BY <1>1 DEF Bijection, Injection
    <3> QED
      BY <3>1
  <2> SUFFICES ASSUME NEW s \in stores PROVE s[1] \in Places(io, len, lines)
    OBVIOUS
  <2>2. PICK batch \in Points(n), i \in Points(len) :
           <<batch, i>> \in Elements(io, len, lines) /\ s = <<place[<<batch, i>>], value(batch, i)>>
    BY <1>4
  <2> QED
    BY <2>1, <2>2
<1>7. ASSUME NEW s \in stores, NEW t \in stores, s[1] = t[1] PROVE s = t
  <2>1. PICK b1 \in Points(n), i1 \in Points(len) :
           <<b1, i1>> \in Elements(io, len, lines) /\ s = <<place[<<b1, i1>>], value(b1, i1)>>
    BY <1>4
  <2>2. PICK b2 \in Points(n), i2 \in Points(len) :
           <<b2, i2>> \in Elements(io, len, lines) /\ t = <<place[<<b2, i2>>], value(b2, i2)>>
    BY <1>4
  <2>3. place[<<b1, i1>>] = place[<<b2, i2>>]
    BY <1>7, <2>1, <2>2
  <2>4. <<b1, i1>> = <<b2, i2>>
    BY <1>1, <2>1, <2>2, <2>3 DEF Bijection, Injection, IsInjective
  <2> QED
    BY <2>1, <2>2, <2>4
<1>8. Holds(Written(cells, stores), stores)
  BY <1>6, <1>7, WrittenHolds
<1>9. \A batch \in Points(n), i \in Points(len) :
         At(Written(cells, stores), output_index(io, len, batch, i)) = value(batch, i)
  BY <1>5, <1>8 DEF Holds
<1> QED
  BY <1>9 DEF Transformed, Result, stores, value, n

\* The pack pass of a node with this mapping reads what a transform through io reads.
SameReads(packIo, io, len, n) ==
  \A batch \in Points(n), i \in Points(len) :
    /\ input_index(packIo, len, batch, i) = input_index(io, len, batch, i)
    /\ input_turn(packIo, batch, i) = input_turn(io, batch, i)

\* A Cooley-Tukey node of a * b points between memories, with nothing fused into it.
Branch(ir, io, a, b, direction, n) ==
  /\ ir.leftLen = a /\ ir.rightLen = b /\ ir.len = a * b /\ ir.direction = direction
  /\ ir.packMultiply = FALSE /\ ir.modifier = NoModifier
  /\ ir.packIo.kind \notin {"RealEvenPack", "RealEvenInversePreprocess"}
  /\ ir.scatterIo = io /\ SameReads(ir.packIo, io, a * b, n)

\* The pack pass leaves input element n1 + a * n2 of transform "batch" as element n2 of
\* row batch * a + n1, where the right child transforms it.
LEMMA Packed ==
    ASSUME NEW a \in Positive, NEW b \in Positive, NEW io, NEW direction, NEW n \in Nat,
           NEW ir, Branch(ir, io, a, b, direction, n), NEW before, NEW lookup, NEW packed,
           NEW batch \in Points(n), Holds(packed, PackRightInput(ir, batch, before, lookup)),
           NEW n1 \in Points(a), NEW n2 \in Points(b)
    PROVE  Line(packed, b, batch * a + n1)[n2]
             = Part(Source(io, a * b, direction, batch, before), b, a, n1)[n2]
<1> DEFINE j == n1 + a * n2  len == a * b
<1>0. a \in Nat /\ b \in Nat /\ n1 \in 0 .. a - 1 /\ n2 \in 0 .. b - 1 /\ b * a = a * b
  BY DEF Positive, Points
<1>1. j \in 0 .. len - 1 /\ j \in Points(len)
  <2>1. n1 + a * n2 \in 0 .. b * a - 1
    BY <1>0, ColumnBelow
  <2> QED
    BY <1>0, <2>1 DEF Points
<1>2. <<(batch * a + n1) * b + n2, InputValue(ir, ir.packIo, FALSE, batch, j, before, lookup)>>
        \in PackRightInput(ir, batch, before, lookup)
  <2> DEFINE cell(i1, i2) == <<(batch * ir.leftLen + i1) * ir.rightLen + i2,
                               InputValue(ir, ir.packIo, ir.packMultiply, batch,
                                          i1 + ir.leftLen * i2, before, lookup)>>
             cells == {cell(i1, i2) : i1 \in 0 .. ir.leftLen - 1, i2 \in 0 .. ir.rightLen - 1}
  <2>1. PackRightInput(ir, batch, before, lookup) = cells
    BY DEF PackRightInput
  <2>2. cell(n1, n2)
          = <<(batch * a + n1) * b + n2, InputValue(ir, ir.packIo, FALSE, batch, j, before, lookup)>>
    BY DEF Branch
  <2> HIDE DEF cell
  <2>3. n1 \in 0 .. ir.leftLen - 1 /\ n2 \in 0 .. ir.rightLen - 1
    BY <1>0 DEF Branch
  <2>4. cell(n1, n2) \in cells
    BY <2>3
  <2> HIDE DEF cells, j
  <2> QED
    BY <2>1, <2>2, <2>4
<1> HIDE DEF j, len
<1>3. At(packed, (batch * a + n1) * b + n2) = InputValue(ir, ir.packIo, FALSE, batch, j, before, lookup)
  <2> DEFINE s == <<(batch * a + n1) * b + n2, InputValue(ir, ir.packIo, FALSE, batch, j, before, lookup)>>
  <2>1. At(packed, s[1]) = s[2]
    BY <1>2 DEF Holds
  <2> QED
    BY <2>1
<1>4. InputValue(ir, ir.packIo, FALSE, batch, j, before, lookup)
        = Turned(At(before, input_index(ir.packIo, len, batch, j)), input_turn(ir.packIo, batch, j), direction)
  BY DEF InputValue, Branch, len
<1>5. /\ input_index(ir.packIo, len, batch, j) = input_index(io, len, batch, j)
      /\ input_turn(ir.packIo, batch, j) = input_turn(io, batch, j)
  BY <1>1 DEF Branch, SameReads, len
<1>6. Source(io, len, direction, batch, before)[j]
        = Turned(At(before, input_index(io, len, batch, j)), input_turn(io, batch, j), direction)
  BY <1>1 DEF Source
<1>7. Part(Source(io, len, direction, batch, before), b, a, n1)[n2] = Source(io, len, direction, batch, before)[j]
  BY <1>0 DEF Part, j
<1>8. Line(packed, b, batch * a + n1)[n2] = At(packed, (batch * a + n1) * b + n2)
  BY <1>0 DEF Line
<1> QED
  BY <1>3, <1>4, <1>5, <1>6, <1>7, <1>8 DEF len

\* Row batch * a + n1 of the right child's results is the transform of that part.
LEMMA RightRow ==
    ASSUME NEW a \in Positive, NEW b \in Positive, NEW io, NEW direction, NEW scale, NEW n \in Nat,
           NEW ir, Branch(ir, io, a, b, direction, n), NEW before, NEW lookup, NEW packed, NEW turned,
           NEW batch \in Points(n), Holds(packed, PackRightInput(ir, batch, before, lookup)),
           LinesTransformed(b, direction, scale, n * a, packed, turned),
           NEW n1 \in Points(a), NEW k2 \in Points(b)
    PROVE  At(turned, (batch * a + n1) * b + k2)
             = Scaled(Fourier(Part(Source(io, a * b, direction, batch, before), b, a, n1),
                              b, direction)[k2], scale, b)
<1> DEFINE row == batch * a + n1  x == Source(io, a * b, direction, batch, before)
<1>1. row \in Points(n * a)
  BY JoinBelow
<1>2. \A n2 \in Points(b) : Line(packed, b, row)[n2] = Part(x, b, a, n1)[n2]
  BY Packed
<1> HIDE DEF row, x
<1>3. Fourier(Line(packed, b, row), b, direction) = Fourier(Part(x, b, a, n1), b, direction)
  BY <1>2, FourierSame
<1>4. At(turned, row * b + k2) = Scaled(Fourier(Line(packed, b, row), b, direction)[k2], scale, b)
  BY <1>1 DEF LinesTransformed
<1> QED
  BY <1>3, <1>4 DEF row, x

\* The five steps of a Cooley-Tukey node (flatten_cooley_tukey_boundaries of
\* src/src/program_ir.rs, the passes of src/src/recursive_ir.rs): when its children
\* leave the discrete Fourier transforms of their rows, whatever they are made of, the
\* node leaves the discrete Fourier transforms of a * b points, through its mapping.
THEOREM CooleyTukeyIsFourier ==
    ASSUME NEW a \in Positive, NEW b \in Positive, Divides(a * b), NEW io, NEW direction, NEW scale,
           NEW n \in Nat, NEW ir, Branch(ir, io, a, b, direction, n),
           NEW before, NEW packed, NEW turned, NEW transposed, NEW finished, NEW after,
           NEW lookup, NEW auxiliary,
           \A batch \in Points(n) : Numbers(Source(io, a * b, direction, batch, before), a * b),
           \A batch \in Points(n) : Holds(packed, PackRightInput(ir, batch, before, lookup)),
           LinesTransformed(b, direction, scale, n * a, packed, turned),
           \A batch \in Points(n) : Holds(transposed, TwiddleTranspose(ir, batch, turned)),
           LinesTransformed(a, direction, scale, n * b, transposed, finished),
           \A batch \in Points(n) : Holds(after, ScatterOutput(ir, batch, finished, auxiliary))
    PROVE  Transformed(io, a * b, direction, scale, n, before, after)
<1> SUFFICES ASSUME NEW batch \in Points(n), NEW k \in Points(a * b)
             PROVE  At(after, output_index(io, a * b, batch, k))
                      = Turned(Scaled(Fourier(Source(io, a * b, direction, batch, before),
                                              a * b, direction)[k], scale, a * b),
                               output_turn(io, batch, k), direction)
  BY DEF Transformed
<1> DEFINE k1 == k \div b  k2 == k % b  row == batch * b + k2
           x == Source(io, a * b, direction, batch, before)  z == Line(transposed, a, row)
<1>0. a \in Nat /\ b \in Nat /\ batch \in Nat /\ b \in Int
  BY DEF Positive, Points
<1>1. k1 \in Points(a) /\ k2 \in Points(b) /\ k = k1 * b + k2
  BY <1>0, SplitBelow
<1>2. row \in Points(n * b)
  BY <1>0, <1>1, JoinBelow
<1>3. Numbers(x, a * b)
  OBVIOUS
<1> HIDE DEF row
<1>4. ASSUME NEW n1 \in Points(a)
      PROVE  z[n1] = Turned(Scaled(Fourier(Part(x, b, a, n1), b, direction)[k2], scale, b),
                            <<n1 * k2, a * b>>, direction)
  <2>0. n1 \in 0 .. a - 1 /\ k2 \in 0 .. b - 1
    BY <1>1 DEF Points
  <2> DEFINE u == At(turned, (batch * a + n1) * b + k2)
             s == <<(batch * b + k2) * a + n1, Turned(u, <<n1 * k2, a * b>>, direction)>>
  <2> HIDE DEF k2
  <2>1. s \in TwiddleTranspose(ir, batch, turned)
    <3> DEFINE cell(i1, i2) == <<(batch * ir.rightLen + i2) * ir.leftLen + i1,
                                 Turned(At(turned, (batch * ir.leftLen + i1) * ir.rightLen + i2),
                                        <<i1 * i2, ir.len>>, ir.direction)>>
    <3>1. TwiddleTranspose(ir, batch, turned)
            = {cell(i1, i2) : i1 \in 0 .. ir.leftLen - 1, i2 \in 0 .. ir.rightLen - 1}
      BY DEF TwiddleTranspose
    <3>2. cell(n1, k2) = s
      BY DEF Branch
    <3> HIDE DEF cell, s, u
    <3>3. n1 \in 0 .. ir.leftLen - 1 /\ k2 \in 0 .. ir.rightLen - 1
      BY <2>0 DEF Branch
    <3>4. cell(n1, k2) \in {cell(i1, i2) : i1 \in 0 .. ir.leftLen - 1, i2 \in 0 .. ir.rightLen - 1}
      BY <3>3
    <3> QED
      BY <3>1, <3>2, <3>4
  <2>2. At(transposed, s[1]) = s[2]
    <3> HIDE DEF s
    <3> QED
      BY <2>1 DEF Holds
  <2>3. u = Scaled(Fourier(Part(x, b, a, n1), b, direction)[k2], scale, b)
    <3> HIDE DEF u
    <3>1. At(turned, (batch * a + n1) * b + k2)
            = Scaled(Fourier(Part(x, b, a, n1), b, direction)[k2], scale, b)
      BY <1>1, RightRow
    <3> QED
      BY <3>1 DEF u
  <2>4. z[n1] = At(transposed, row * a + n1)
    BY <2>0 DEF Line
  <2> QED
    BY <2>2, <2>3, <2>4 DEF row
<1> HIDE DEF k1, k2, x, z
<1>5. Scaled(Fourier(z, a, direction)[k1], scale, a)
        = Scaled(Fourier(x, a * b, direction)[k1 * b + k2], scale, a * b)
  <2>1. Interim(z, x, a, b, k2, direction, scale)
    BY <1>4 DEF Interim
  <2>2. /\ a \in Positive /\ b \in Positive /\ Divides(a * b) /\ Numbers(x, a * b)
        /\ k1 \in Points(a) /\ k2 \in Points(b)
    BY <1>1, <1>3
  <2> HIDE <1>4
  <2> QED
    BY <2>1, <2>2, TwoSteps
<1>6. At(finished, row * a + k1) = Scaled(Fourier(z, a, direction)[k1], scale, a)
  BY <1>1, <1>2 DEF LinesTransformed, z
<1> DEFINE value == [i \in 0 .. ir.len - 1 |->
                       At(finished, (batch * ir.rightLen + (i % ir.rightLen)) * ir.leftLen
                                      + (i \div ir.rightLen))]
           s == <<output_index(io, a * b, batch, k), Turned(value[k], output_turn(io, batch, k), direction)>>
<1>7. DOMAIN value = Points(a * b) /\ value[k] = At(finished, row * a + k1)
  BY <1>0 DEF Branch, Points, k1, k2, row
<1>8. s \in ScatterOutput(ir, batch, finished, auxiliary)
  <2>1. ScatterOutput(ir, batch, finished, auxiliary) = Outputs(io, NoModifier, ir, batch, value, auxiliary)
    BY DEF ScatterOutput, Branch
  <2>2. Outputs(io, NoModifier, ir, batch, value, auxiliary)
          = Mapped(io, a * b, direction, batch, {<<i, value[i]>> : i \in Points(a * b)})
    <3> HIDE DEF value
    <3> QED
      BY <1>7 DEF Outputs, NoModifier, Branch
  <2> HIDE DEF value
  <2> DEFINE E == {<<i, value[i]>> : i \in Points(a * b)}
  <2>3. <<k, value[k]>> \in E
    OBVIOUS
  <2> HIDE DEF E
  <2> DEFINE f(e) == <<output_index(io, a * b, batch, e[1]),
                       Turned(e[2], output_turn(io, batch, e[1]), direction)>>
  <2>5. Mapped(io, a * b, direction, batch, E) = {f(e) : e \in E}
    BY DEF Mapped
  <2>6. f(<<k, value[k]>>) = s
    OBVIOUS
  <2> HIDE DEF f, s
  <2>7. f(<<k, value[k]>>) \in {f(e) : e \in E}
    BY <2>3
  <2>4. s \in Mapped(io, a * b, direction, batch, {<<i, value[i]>> : i \in Points(a * b)})
    BY <2>5, <2>6, <2>7 DEF E
  <2> QED
    BY <2>1, <2>2, <2>4
<1>9. At(after, s[1]) = s[2]
  <2> HIDE DEF s
  <2> QED
    BY <1>8 DEF Holds
<1> HIDE DEF value
<1> QED
  BY <1>1, <1>5, <1>6, <1>7, <1>9 DEF x

\* An upload that reads every stride-th element of a line reads written elements.
LEMMA StridedNumbers ==
    ASSUME NEW m \in Positive, NEW len \in Positive, NEW lines \in Nat, NEW direction, NEW io,
           \A batch, i : /\ input_index(io, len, batch, i) = Strided(batch, i, m, m * len)
                         /\ input_turn(io, batch, i) = <<0, 1>>,
           NEW before, Filled(before, m * len, lines), NEW batch \in Points(lines * m)
    PROVE  Numbers(Source(io, len, direction, batch, before), len)
<1> DEFINE line == batch \div m  n1 == batch % m
<1>0. m \in Nat /\ len \in Nat
  BY DEF Positive
<1>1. line \in Points(lines) /\ n1 \in Points(m)
  BY <1>0, SplitBelow
<1>2. \A i : input_index(io, len, batch, i) = line * (m * len) + n1 + m * i
  BY DEF Strided
<1> HIDE DEF line, n1
<1>3. ASSUME NEW i \in 0 .. len - 1 PROVE Source(io, len, direction, batch, before)[i] \in Number
  <2>1. i \in Points(len) /\ line \in Nat /\ n1 \in Nat /\ i \in Nat
    BY <1>1 DEF Points
  <2>2. line * (m * len) + n1 + m * i = line * (m * len) + (n1 + m * i)
    BY <1>0, <2>1
  <2>3. Numbers(Line(before, m * len, line), m * len)
    BY <1>1 DEF Filled
  <2>4. At(before, line * (m * len) + (n1 + m * i)) \in Number
    BY <1>1, <2>1, <2>3, LineAt
  <2>5. Source(io, len, direction, batch, before)[i]
          = Turned(At(before, input_index(io, len, batch, i)), input_turn(io, batch, i), direction)
    BY DEF Source
  <2> QED
    BY <1>2, <2>2, <2>4, <2>5, Unturned
<1> QED
  BY <1>3 DEF Numbers

\* The second upload reads what the first one stored.
LEMMA SecondUploadNumbers ==
    ASSUME NEW a \in Positive, NEW b \in Positive, Divides(a * b), NEW direction, NEW scale,
           NEW lines \in Nat, NEW before, NEW between, Filled(before, a * b, lines),
           Transformed(FourStepRight(a, b), b, direction, scale, lines * a, before, between),
           NEW batch \in Points(lines * b)
    PROVE  Numbers(Source(FourStepLeft(a, b), a, direction, batch, between), a)
<1> DEFINE line == batch \div b  k2 == batch % b  x == Line(before, a * b, line)
           z == Source(FourStepLeft(a, b), a, direction, batch, between)
<1>1. line \in Points(lines) /\ k2 \in Points(b) /\ batch = line * b + k2
  <2>1. b \in Nat /\ b \in Int
    BY DEF Positive
  <2> QED
    BY <2>1, SplitBelow
<1> HIDE DEF line, k2
<1>2. Numbers(x, a * b)
  BY <1>1 DEF Filled
<1>3. Interim(z, x, a, b, k2, direction, scale)
  BY <1>1, <1>2, SecondUploadReads
<1>4. 0 \in Points(a)
  BY DEF Points, Positive
<1> HIDE DEF z, x
<1>5. Numbers(z, a)
  BY <1>1, <1>2, <1>3, <1>4, TwoSteps
<1> QED
  BY <1>5 DEF z

\* The dispatches of the two uploads of Stockham transforms, one after the other, leave
\* the discrete Fourier transforms of the lines, whatever was in the memories they write.
THEOREM TwoStockhamUploads ==
    ASSUME NEW a \in Positive, NEW b \in Positive, Divides(a * b), NEW direction, NEW scale,
           NEW upper, Leaf(upper, FourStepRight(a, b), b, direction, scale),
           NEW lower, Leaf(lower, FourStepLeft(a, b), a, direction, scale),
           NEW lines \in Nat, NEW before, Filled(before, a * b, lines), NEW lookup, NEW auxiliary,
           NEW scratch, Points(lines * (a * b)) \subseteq DOMAIN scratch,
           NEW output, Points(lines * (a * b)) \subseteq DOMAIN output
    PROVE  LET between == Written(scratch, UNION {Stockham(upper, batch, before, lookup, auxiliary)
                                                  : batch \in Points(lines * a)})
               after == Written(output, UNION {Stockham(lower, batch, between, lookup, auxiliary)
                                               : batch \in Points(lines * b)})
           IN  LinesTransformed(a * b, direction, scale, lines, before, after)
<1> DEFINE between == Written(scratch, UNION {Stockham(upper, batch, before, lookup, auxiliary)
                                              : batch \in Points(lines * a)})
           after == Written(output, UNION {Stockham(lower, batch, between, lookup, auxiliary)
                                           : batch \in Points(lines * b)})
           right == FourStepRight(a, b)  left == FourStepLeft(a, b)
<1>0. a \in Nat /\ b \in Nat /\ a \in Int /\ b \in Int
  BY DEF Positive
<1>1. Divides(a) /\ Divides(b)
  BY DividesPart
<1>2. IsMapping(right, b) /\ IsMapping(left, a)
  BY DEF IsMapping, IsUpload
<1>3. PerLine(right) = a /\ PerLine(left) = b
  BY DEF PerLine, PerLineOf, FourStepRight, FourStepLeft
<1>4. Places(right, b, lines) = Points(lines * (a * b)) /\ Places(left, a, lines) = Points(lines * (a * b))
  <2>1. lines * a * b = lines * (a * b) /\ lines * b * a = lines * (a * b)
    BY <1>0
  <2> QED
    BY <1>3, <2>1 DEF Places
<1>5. ASSUME NEW batch \in Points(lines * a) PROVE Numbers(Source(right, b, direction, batch, before), b)
  <2>1. \A y, i : /\ input_index(right, b, y, i) = Strided(y, i, a, a * b)
                  /\ input_turn(right, y, i) = <<0, 1>>
    BY DEF FourStepRight, input_index, PrimeIndex, input_turn
  <2> HIDE DEF right
  <2> QED
    BY <2>1, StridedNumbers
<1>6. Transformed(right, b, direction, scale, lines * a, before, between)
  <2> HIDE DEF right
  <2>1. Leaf(upper, right, b, direction, scale)
    BY DEF right
  <2> QED
    BY <1>1, <1>2, <1>3, <1>4, <1>5, <2>1, StockhamPassTransforms
<1> HIDE DEF between
<1>7. ASSUME NEW batch \in Points(lines * b) PROVE Numbers(Source(left, a, direction, batch, between), a)
  BY <1>6, SecondUploadNumbers
<1>8. Transformed(left, a, direction, scale, lines * b, between, after)
  <2> HIDE DEF left
  <2>1. Leaf(lower, left, a, direction, scale)
    BY DEF left
  <2> QED
    BY <1>1, <1>2, <1>3, <1>4, <1>7, <2>1, StockhamPassTransforms
<1> HIDE DEF after
<1> QED
  BY <1>6, <1>8, TwoUploadsAreFourier DEF after, between

\* A Cooley-Tukey node whose left child is a Stockham transform fused with the twiddle
\* pass and the scatter pass (fused_fft_rader_left_stockham of src/src/recursive_ir.rs): it
\* leaves the same discrete Fourier transforms as the five steps.
THEOREM FusedCooleyTukeyIsFourier ==
    ASSUME NEW a \in Positive, NEW b \in Positive, Divides(a * b), NEW io,
           io = Contiguous \/ (\E c, d \in Positive : io = FourStepLeft(c, d)),
           NEW direction, NEW scale,
           NEW n \in Nat, NEW ir, Branch(ir, io, a, b, direction, n),
           NEW before, NEW packed, NEW turned, NEW after, NEW lookup,
           \A batch \in Points(n) : Numbers(Source(io, a * b, direction, batch, before), a * b),
           \A batch \in Points(n) : Holds(packed, PackRightInput(ir, batch, before, lookup)),
           LinesTransformed(b, direction, scale, n * a, packed, turned),
           Transformed(CooleyLeft(a, b, io), a, direction, scale, n * b, turned, after)
    PROVE  Transformed(io, a * b, direction, scale, n, before, after)
<1> SUFFICES ASSUME NEW batch \in Points(n), NEW k \in Points(a * b)
             PROVE  At(after, output_index(io, a * b, batch, k))
                      = Turned(Scaled(Fourier(Source(io, a * b, direction, batch, before),
                                              a * b, direction)[k], scale, a * b),
                               output_turn(io, batch, k), direction)
  BY DEF Transformed
<1> DEFINE left == CooleyLeft(a, b, io)  k1 == k \div b  k2 == k % b  row == batch * b + k2
           x == Source(io, a * b, direction, batch, before)  z == Source(left, a, direction, row, turned)
<1>0. a \in Nat /\ b \in Nat /\ batch \in Nat /\ b \in Int
  BY DEF Positive, Points
<1>1. k1 \in Points(a) /\ k2 \in Points(b) /\ k = k1 * b + k2
  BY <1>0, SplitBelow
<1>2. row \in Points(n * b) /\ row \div b = batch /\ row % b = k2
  BY <1>0, <1>1, JoinBelow, Split
<1>3. Numbers(x, a * b)
  OBVIOUS
<1> HIDE DEF row, k1, k2
<1>4. ASSUME NEW n1 \in Points(a)
      PROVE  z[n1] = Turned(Scaled(Fourier(Part(x, b, a, n1), b, direction)[k2], scale, b),
                            <<n1 * k2, a * b>>, direction)
  <2>1. At(turned, (batch * a + n1) * b + k2)
          = Scaled(Fourier(Part(x, b, a, n1), b, direction)[k2], scale, b)
    BY <1>1, RightRow
  <2>2. input_index(left, a, row, n1) = (batch * a + n1) * b + k2
    BY <1>2 DEF CooleyLeft, input_index
  <2>3. input_turn(left, row, n1) = <<n1 * k2, a * b>>
    BY <1>2 DEF CooleyLeft, input_turn
  <2>4. z[n1] = Turned(At(turned, input_index(left, a, row, n1)), input_turn(left, row, n1), direction)
    BY DEF Source, Points
  <2> HIDE DEF left, z, x
  <2> QED
    BY <2>1, <2>2, <2>3, <2>4
<1> HIDE DEF x, z
<1>5. Numbers(z, a) /\ Scaled(Fourier(z, a, direction)[k1], scale, a)
        = Scaled(Fourier(x, a * b, direction)[k1 * b + k2], scale, a * b)
  <2>1. Interim(z, x, a, b, k2, direction, scale)
    BY <1>4 DEF Interim
  <2>2. /\ a \in Positive /\ b \in Positive /\ Divides(a * b) /\ Numbers(x, a * b)
        /\ k1 \in Points(a) /\ k2 \in Points(b)
    BY <1>1, <1>3
  <2> HIDE <1>4
  <2> QED
    BY <2>1, <2>2, TwoSteps
<1>6. At(after, output_index(left, a, row, k1))
        = Turned(Scaled(Fourier(z, a, direction)[k1], scale, a), output_turn(left, row, k1), direction)
  BY <1>1, <1>2 DEF Transformed, z
<1>7. output_index(left, a, row, k1) = output_index(io, a * b, batch, k)
  <2>1. output_index(left, a, row, k1) = UploadIndex(io, a * b, batch, k2 + b * k1)
    BY <1>2 DEF CooleyLeft, output_index
  <2>2. k2 + b * k1 = k
    BY <1>0, <1>1 DEF Points
  <2>3. output_index(io, a * b, batch, k) = UploadIndex(io, a * b, batch, k)
    BY DEF output_index, Contiguous, FourStepLeft
  <2> QED
    BY <2>1, <2>2, <2>3
<1>8. output_turn(left, row, k1) = <<0, 1>> /\ output_turn(io, batch, k) = <<0, 1>>
  BY DEF CooleyLeft, output_turn, Contiguous, FourStepLeft
<1> HIDE DEF left
<1> QED
  BY <1>1, <1>5, <1>6, <1>7, <1>8 DEF x

\* The uploads whose lines the one before has left in order: the node of such an
\* upload keeps its contiguous pack pass (map_upload_component).
LEMMA UploadReads ==
    ASSUME NEW a \in Positive, NEW b \in Positive, NEW c \in Positive, NEW len, NEW n,
           NEW io \in {Contiguous, FourStepLeft(a, b), ThreeUpload(0, a, b, c), ThreeUpload(1, a, b, c)}
    PROVE  SameReads(Contiguous, io, len, n)
  BY DEF SameReads, input_index, input_turn, PrimeIndex, Contiguous, FourStepLeft, ThreeUpload

-----------------------------------------------------------------------------
(* Three uploads.                                                          *)

\* y holds result k3 of the transforms of c points that the third upload turned and
\* the second one reads for its input element n1.
Interim3(y, x, a, b, c, n1, k3, direction, scale) ==
  \A n2 \in Points(b) :
    y[n2] = Turned(Scaled(Fourier(Part(x, c, a * b, n1 + a * n2), c, direction)[k3], scale, c),
                   <<(n1 + a * n2) * k3, a * (b * c)>>, direction)

\* A turn of a transform of m * f points by i * f + j is one of a transform of m points
\* and one of all of them.
LEMMA WCombine ==
    ASSUME NEW m \in Positive, NEW f \in Positive, NEW n, n = m * f, Divides(n), NEW direction,
           NEW i \in Int, NEW j \in Int, NEW k \in Int, k = i * f + j
    PROVE  W(k, n, direction) = Mul(W(i, m, direction), W(j, n, direction))
<1> DEFINE h == i * f
<1>1. h \in Int /\ k = h + j
  BY DEF Positive
<1>2. W(h, n, direction) = W(i, m, direction)
  <2>1. Divides(m * f)
    OBVIOUS
  <2>2. W(i * f, m * f, direction) = W(i, m, direction)
    BY <2>1, WReduce
  <2> QED
    BY <2>2
<1> HIDE DEF h
<1>3. ASSUME NEW p, Divides(p) PROVE W(h + j, p, direction) = Mul(W(h, p, direction), W(j, p, direction))
  BY <1>1, <1>3, WAdd
<1>4. W(h + j, n, direction) = Mul(W(h, n, direction), W(j, n, direction))
  BY <1>3, Zenon
<1> QED
  BY <1>1, <1>2, <1>4

LEMMA SecondOfThree ==
    ASSUME NEW a \in Positive, NEW b \in Positive, NEW c \in Positive, Divides(a * (b * c)),
           NEW direction, NEW scale, NEW x, Numbers(x, a * (b * c)),
           NEW n1 \in Points(a), NEW k2 \in Points(b), NEW k3 \in Points(c),
           NEW y, Interim3(y, x, a, b, c, n1, k3, direction, scale)
    PROVE  /\ Numbers(y, b)
           /\ Turned(Scaled(Fourier(y, b, direction)[k2], scale, b), <<n1 * k2, a * b>>, direction)
                = Turned(Scaled(Fourier(Part(x, b * c, a, n1), b * c, direction)[k2 * c + k3],
                                scale, b * c),
                         <<n1 * (k2 * c + k3), a * (b * c)>>, direction)
<1> DEFINE m == b * c  p == Part(x, m, a, n1)
           S(n2) == Scaled(Fourier(Part(p, c, b, n2), c, direction)[k3], scale, c)
           v == [n2 \in Points(b) |-> Turned(S(n2), <<n2 * k3, m>>, direction)]
           e == W(n1 * k3, a * m, direction)
           w == W(n1 * k2, a * b, direction)
<1>0. /\ a \in Nat /\ b \in Nat /\ c \in Nat /\ n1 \in Int /\ k2 \in Int /\ k3 \in Int
      /\ n1 \in Nat
  BY DEF Positive, Points
<1>1. m \in Positive /\ m * a = a * m /\ (a * b) * c = a * m
  BY <1>0, PositiveTimes
<1>2. Divides(a) /\ Divides(m) /\ Divides(b) /\ Divides(c) /\ Divides(a * b)
  <2>1. Divides(a) /\ Divides(m)
    BY <1>1, DividesPart
  <2>2. Divides(b) /\ Divides(c)
    BY <2>1, DividesPart
  <2>3. Divides((a * b) * c) /\ a * b \in Positive
    BY <1>1, PositiveTimes
  <2> QED
    BY <2>1, <2>2, <2>3, DividesPart
<1>3. Numbers(p, m)
  <2>1. Numbers(x, m * a)
    BY <1>1
  <2> HIDE DEF m
  <2> QED
    BY <1>1, <2>1, PartNumbers
<1>4. e \in Number /\ w \in Number
  <2> DEFINE i == n1 * k3  j == n1 * k2
  <2>1. i \in Int /\ j \in Int
    BY <1>0
  <2> HIDE DEF i, j
  <2>2. W(i, a * m, direction) \in Number /\ W(j, a * b, direction) \in Number
    BY <1>2, <2>1, WNumber
  <2> QED
    BY <2>2 DEF i, j
<1>5. Interim(v, p, b, c, k3, direction, scale)
  BY DEF Interim
<1> HIDE DEF v, p
<1>6. /\ Numbers(v, b)
      /\ Scaled(Fourier(v, b, direction)[k2], scale, b)
           = Scaled(Fourier(p, m, direction)[k2 * c + k3], scale, m)
  BY <1>2, <1>3, <1>5, TwoSteps
<1>7. ASSUME NEW n2 \in Points(b) PROVE y[n2] = Mul(v[n2], e)
  <2>0. n2 \in Int /\ n2 \in Nat
    BY DEF Points
  <2>1. Fourier(Part(x, c, a * b, n1 + a * n2), c, direction) = Fourier(Part(p, c, b, n2), c, direction)
    <3>1. ASSUME NEW i \in Points(c)
          PROVE  Part(x, c, a * b, n1 + a * n2)[i] = Part(p, c, b, n2)[i]
      <4>1. i \in Int /\ i \in 0 .. c - 1 /\ n2 \in 0 .. b - 1
        BY DEF Points
      <4>2. n2 + b * i \in 0 .. c * b - 1 /\ c * b = m
        BY <1>0, <4>1, ColumnBelow
      <4>3. Part(p, c, b, n2)[i] = p[n2 + b * i]
        BY <4>1 DEF Part
      <4>4. p[n2 + b * i] = x[n1 + a * (n2 + b * i)]
        <5> DEFINE j == n2 + b * i
        <5>1. j \in 0 .. m - 1
          BY <4>2
        <5> HIDE DEF j, m
        <5>2. p[j] = x[n1 + a * j]
          BY <5>1 DEF Part, p
        <5> QED
          BY <5>2 DEF j
      <4>5. n1 + a * (n2 + b * i) = (n1 + a * n2) + (a * b) * i
        BY <1>0, <2>0, <4>1
      <4>6. Part(x, c, a * b, n1 + a * n2)[i] = x[(n1 + a * n2) + (a * b) * i]
        BY <4>1 DEF Part
      <4> QED
        BY <4>3, <4>4, <4>5, <4>6
    <3> QED
      BY <3>1, FourierSame
  <2> DEFINE s == S(n2)  u == W(n2 * k3, m, direction)
  <2>2. y[n2] = Mul(s, W((n1 + a * n2) * k3, a * m, direction))
    <3>1. y[n2] = Turned(s, <<(n1 + a * n2) * k3, a * m>>, direction)
      BY <2>1 DEF Interim3
    <3> HIDE DEF s
    <3> QED
      BY <3>1, TurnedW
  <2>3. v[n2] = Mul(s, u)
    <3>1. v[n2] = Turned(s, <<n2 * k3, m>>, direction)
      BY DEF v
    <3> HIDE DEF s
    <3> QED
      BY <3>1, TurnedW
  <2>4. s \in Number
    <3>1. Fourier(Part(p, c, b, n2), c, direction)[k3] \in Number
      <4>1. Numbers(p, c * b)
        BY <1>0, <1>3
      <4>2. Numbers(Part(p, c, b, n2), c)
        BY <4>1, PartNumbers
      <4> QED
        BY <1>2, <4>2, FourierAt
    <3> QED
      BY <1>2, <3>1, ScaledFactor, NumberClosed
  <2>5. u \in Number
    <3> DEFINE i == n2 * k3
    <3>1. i \in Int
      BY <1>0, <2>0
    <3> HIDE DEF i, m
    <3>2. W(i, m, direction) \in Number
      BY <1>2, <3>1, WNumber
    <3> QED
      BY <3>2 DEF i
  <2>6. W((n1 + a * n2) * k3, a * m, direction) = Mul(u, e)
    <3> DEFINE i == n2 * k3  j == n1 * k3  k == (n1 + a * n2) * k3  n == a * m
    <3>1. i \in Int /\ j \in Int /\ k \in Int /\ k = i * a + j
      BY <1>0, <2>0
    <3>2. n = m * a /\ Divides(n)
      BY <1>1
    <3> HIDE DEF i, j, k, n, m
    <3>3. W(k, n, direction) = Mul(W(i, m, direction), W(j, n, direction))
      BY <1>1, <3>1, <3>2, WCombine
    <3> QED
      BY <3>3 DEF i, j, k, n
  <2> HIDE DEF s, u, e
  <2>7. Mul(Mul(s, u), e) = Mul(s, Mul(u, e))
    BY <1>4, <2>4, <2>5, MulAssociates
  <2> QED
    BY <2>2, <2>3, <2>6, <2>7
<1> DEFINE f == Fourier(v, b, direction)[k2]  g == Factor(scale, b)
           t == Scaled(Fourier(p, m, direction)[k2 * c + k3], scale, m)
<1>8. Numbers(y, b) /\ Fourier(y, b, direction)[k2] = Mul(f, e)
  <2> HIDE DEF e
  <2> QED
    BY <1>2, <1>4, <1>6, <1>7, FourierTimes
<1>9. f \in Number /\ g \in Number
  BY <1>2, <1>6, Units, FourierAt, ScaledFactor
<1> HIDE DEF f, e, w
<1>10. Scaled(Mul(f, e), scale, b) = Mul(t, e)
  <2>1. Scaled(Mul(f, e), scale, b) = Mul(Mul(f, e), g) /\ Scaled(f, scale, b) = Mul(f, g)
    BY <1>2, <1>4, <1>9, NumberClosed, ScaledFactor
  <2>2. Scaled(f, scale, b) = t
    BY <1>6 DEF f
  <2> HIDE DEF g, t
  <2>3. Mul(Mul(f, e), g) = Mul(f, Mul(e, g)) /\ Mul(Mul(f, g), e) = Mul(f, Mul(g, e))
    BY <1>4, <1>9, MulAssociates
  <2>4. Mul(e, g) = Mul(g, e)
    BY <1>4, <1>9, MulCommutes
  <2> QED
    BY <2>1, <2>2, <2>3, <2>4
<1>11. t \in Number
  <2>1. t = Mul(f, g)
    BY <1>2, <1>6, <1>9, ScaledFactor DEF f
  <2> HIDE DEF t, g
  <2> QED
    BY <1>9, <2>1, NumberClosed
<1>12. Turned(Scaled(Fourier(y, b, direction)[k2], scale, b), <<n1 * k2, a * b>>, direction)
         = Mul(Mul(t, e), w)
  BY <1>8, <1>10, TurnedW DEF w
<1>13. Mul(Mul(t, e), w) = Mul(t, Mul(e, w))
  BY <1>4, <1>11, MulAssociates
<1>14. Mul(e, w) = W(n1 * (k2 * c + k3), a * m, direction)
  <2> DEFINE i == n1 * k2  j == n1 * k3  k == n1 * (k2 * c + k3)  n == a * m  d == a * b
  <2>1. i \in Int /\ j \in Int /\ k \in Int /\ k = i * c + j
    BY <1>0
  <2>2. n = d * c /\ Divides(n) /\ d \in Positive
    BY <1>1, PositiveTimes
  <2>3. W(j, n, direction) = e /\ W(i, d, direction) = w
    BY DEF e, w
  <2> HIDE DEF i, j, k, n, d
  <2>4. W(k, n, direction) = Mul(w, e)
    BY <2>1, <2>2, <2>3, WCombine
  <2>5. Mul(w, e) = Mul(e, w)
    BY <1>4, MulCommutes
  <2> QED
    BY <2>4, <2>5 DEF k, n
<1>15. Turned(t, <<n1 * (k2 * c + k3), a * m>>, direction) = Mul(t, W(n1 * (k2 * c + k3), a * m, direction))
  <2> HIDE DEF t
  <2> QED
    BY TurnedW
<1> QED
  BY <1>8, <1>12, <1>13, <1>14, <1>15 DEF p

\* What transform (line * c + k3) * a + n1 of the second of three uploads reads.
LEMMA SecondOfThreeReads ==
    ASSUME NEW a \in Positive, NEW b \in Positive, NEW c \in Positive, Divides(a * (b * c)),
           NEW direction, NEW scale, NEW lines \in Nat, NEW before, NEW first,
           NEW line \in Points(lines), NEW n1 \in Points(a), NEW k3 \in Points(c),
           Numbers(Line(before, a * (b * c), line), a * (b * c)),
           Transformed(ThreeUpload(2, a, b, c), c, direction, scale, lines * (a * b), before, first)
    PROVE  Interim3(Source(ThreeUpload(1, a, b, c), b, direction, (line * c + k3) * a + n1, first),
                    Line(before, a * (b * c), line), a, b, c, n1, k3, direction, scale)
<1> DEFINE third == ThreeUpload(2, a, b, c)  second == ThreeUpload(1, a, b, c)
           yb == (line * c + k3) * a + n1  len == a * (b * c)
           x == Line(before, len, line)  y == Source(second, b, direction, yb, first)
<1>0. /\ a \in Nat /\ b \in Nat /\ c \in Nat /\ line \in Nat /\ k3 \in Nat /\ n1 \in Nat /\ n1 \in 0 .. a - 1
      /\ a * b \in Positive
  BY PositiveTimes DEF Positive, Points
<1>1. len = (a * b) * c /\ len = a * b * c /\ len = c * (a * b)
  BY <1>0
<1> SUFFICES ASSUME NEW n2 \in Points(b)
             PROVE  y[n2] = Turned(Scaled(Fourier(Part(x, c, a * b, n1 + a * n2), c, direction)[k3], scale, c),
                                   <<(n1 + a * n2) * k3, len>>, direction)
  BY DEF Interim3
<1> DEFINE n12 == n1 + a * n2  ab == a * b  w == line * ab + n12
<1>2. n2 \in Nat /\ n2 \in 0 .. b - 1
  BY DEF Points
<1>3. n12 \in Points(ab)
  <2>1. n1 + a * n2 \in 0 .. b * a - 1 /\ b * a = a * b
    BY <1>0, <1>2, ColumnBelow
  <2> QED
    BY <2>1 DEF Points
<1>4. w \in Points(lines * ab) /\ w % ab = n12 /\ w \div ab = line
  <2> HIDE DEF n12, ab
  <2>1. ab \in Positive
    BY <1>0 DEF ab
  <2> QED
    BY <1>0, <1>3, <2>1, JoinBelow, Split
<1>5. n12 % a = n1 /\ n12 \div a = n2
  <2>1. (n2 * a + n1) \div a = n2 /\ (n2 * a + n1) % a = n1
    BY <1>2, Split
  <2>2. n12 = n2 * a + n1
    BY <1>0, <1>2
  <2> QED
    BY <2>1, <2>2
<1>6. ASSUME NEW i \in Points(c) PROVE Source(third, c, direction, w, before)[i] = Part(x, c, ab, n12)[i]
  <2>1. input_index(third, c, w, i) = line * (ab * c) + n12 + ab * i
    <3> HIDE DEF w, n12
    <3>1. input_index(third, c, w, i) = Strided(w, i, a * b, a * b * c)
      BY DEF ThreeUpload, input_index, PrimeIndex
    <3> QED
      BY <1>4, <3>1 DEF Strided
  <2>2. line * (ab * c) + n12 + ab * i = line * (ab * c) + (n12 + ab * i)
    <3> DEFINE p == line * (ab * c)  q == ab * i
    <3>1. p \in Int /\ q \in Int /\ n12 \in Int
      BY <1>0, <1>2 DEF Points
    <3> HIDE DEF p, q, n12
    <3>2. p + n12 + q = p + (n12 + q)
      BY <3>1
    <3> QED
      BY <3>2 DEF p, q
  <2>3. input_turn(third, w, i) = <<0, 1>>
    BY DEF ThreeUpload, input_turn
  <2>4. Source(third, c, direction, w, before)[i]
          = Turned(At(before, input_index(third, c, w, i)), input_turn(third, w, i), direction)
    BY DEF Source, Points
  <2>5. /\ At(before, line * (ab * c) + (n12 + ab * i)) = Part(x, c, ab, n12)[i]
        /\ At(before, line * (ab * c) + (n12 + ab * i)) \in Number
    <3>1. Numbers(Line(before, ab * c, line), ab * c) /\ x = Line(before, ab * c, line) /\ ab \in Positive
      BY <1>0, <1>1
    <3> HIDE DEF x, ab, n12, len
    <3> QED
      BY <1>3, <3>1, LineAt
  <2> HIDE DEF third, w, x, ab, n12
  <2> QED
    BY <2>1, <2>2, <2>3, <2>4, <2>5, Unturned
<1> DEFINE v == Scaled(Fourier(Part(x, c, ab, n12), c, direction)[k3], scale, c)
<1>7. Fourier(Source(third, c, direction, w, before), c, direction) = Fourier(Part(x, c, ab, n12), c, direction)
  <2> HIDE DEF third, w, x, ab, n12
  <2> QED
    BY <1>6, FourierSame
<1>8. At(first, output_index(third, c, w, k3)) = Turned(v, output_turn(third, w, k3), direction)
  <2> HIDE DEF w, ab, x, n12
  <2>1. w \in Points(lines * (a * b))
    BY <1>4 DEF ab
  <2> QED
    BY <1>7, <2>1 DEF Transformed
<1>9. output_turn(third, w, k3) = <<n12 * k3, len>>
  <2>1. output_turn(third, w, k3) = <<(w % (a * b)) * k3, a * b * c>>
    BY DEF ThreeUpload, output_turn
  <2> HIDE DEF w, n12
  <2> QED
    BY <1>1, <1>4, <2>1 DEF ab
<1>10. output_index(third, c, w, k3) = input_index(second, b, yb, n2)
  <2> HIDE DEF w, n12
  <2>1. output_index(third, c, w, k3)
          = (((w \div (a * b)) * c + k3) * a + ((w % (a * b)) % a)) * b + ((w % (a * b)) \div a)
    BY DEF ThreeUpload, output_index, UploadIndex
  <2>2. input_index(second, b, yb, n2) = yb * b + n2
    BY DEF ThreeUpload, input_index, PrimeIndex
  <2> QED
    BY <1>4, <1>5, <2>1, <2>2
<1>11. input_turn(second, yb, n2) = <<0, 1>>
  BY DEF ThreeUpload, input_turn
<1>12. y[n2] = Turned(At(first, input_index(second, b, yb, n2)), input_turn(second, yb, n2), direction)
  BY <1>2 DEF Source
<1>13. Turned(v, <<n12 * k3, len>>, direction) \in Number
  <2> DEFINE j == n12 * k3  u == Fourier(Part(x, c, ab, n12), c, direction)[k3]
  <2>1. j \in Int
    BY <1>0, <1>2
  <2>2. Divides(c)
    BY <1>0, <1>1, DividesPart
  <2>3. u \in Number
    <3>1. Numbers(x, c * ab) /\ ab \in Positive
      BY <1>0, <1>1
    <3> HIDE DEF x, ab, n12
    <3>2. Numbers(Part(x, c, ab, n12), c)
      BY <1>3, <3>1, PartNumbers
    <3> QED
      BY <2>2, <3>2, FourierAt
  <2> HIDE DEF j, u, len
  <2>4. W(j, len, direction) \in Number /\ Scaled(u, scale, c) \in Number
    BY <2>1, <2>2, <2>3, WNumber, ScaledFactor, NumberClosed DEF len
  <2>5. Mul(Scaled(u, scale, c), W(j, len, direction)) \in Number
    BY <2>4, NumberClosed
  <2> QED
    BY <2>5, TurnedW DEF j, u
<1> HIDE DEF v, y, third, second, w, yb, n12, len
<1>14. y[n2] = Turned(v, <<n12 * k3, len>>, direction)
  BY <1>8, <1>9, <1>10, <1>11, <1>12, <1>13, Unturned
<1> QED
  BY <1>14 DEF v, n12, ab

\* What transform (line * c + k3) * b + k2 of the last of three uploads reads.
LEMMA ThirdOfThreeReads ==
    ASSUME NEW a \in Positive, NEW b \in Positive, NEW c \in Positive, Divides(a * (b * c)),
           NEW direction, NEW scale, NEW lines \in Nat, NEW before, NEW first, NEW second,
           NEW line \in Points(lines), NEW k2 \in Points(b), NEW k3 \in Points(c),
           Numbers(Line(before, a * (b * c), line), a * (b * c)),
           Transformed(ThreeUpload(2, a, b, c), c, direction, scale, lines * (a * b), before, first),
           Transformed(ThreeUpload(1, a, b, c), b, direction, scale, (lines * c) * a, first, second)
    PROVE  Interim(Source(ThreeUpload(0, a, b, c), a, direction, (line * c + k3) * b + k2, second),
                   Line(before, a * (b * c), line), a, b * c, k2 * c + k3, direction, scale)
<1> DEFINE m == b * c  j == k2 * c + k3  zb == (line * c + k3) * b + k2
           up(i) == ThreeUpload(i, a, b, c)
           x == Line(before, a * m, line)  z == Source(up(0), a, direction, zb, second)
<1>0. a \in Nat /\ b \in Nat /\ c \in Nat /\ line \in Nat /\ m \in Positive /\ m \in Nat
  BY PositiveTimes DEF Positive, Points
<1>1. j \in Points(m)
  BY <1>0, JoinBelow
<1> HIDE DEF j
<1>2. k2 \in Points(b) /\ k3 \in Points(c) /\ j = k2 * c + k3
  BY DEF j
<1>3. k2 \in Nat /\ k3 \in Nat
  BY DEF Points
<1>4. line * c + k3 \in Points(lines * c) /\ line * c + k3 \in Nat
  BY <1>0, <1>3, JoinBelow DEF Points
<1>6. Numbers(x, a * m)
  OBVIOUS
<1>9. ASSUME NEW n1 \in Points(a)
      PROVE  z[n1] = Turned(Scaled(Fourier(Part(x, m, a, n1), m, direction)[j], scale, m),
                            <<n1 * j, a * m>>, direction)
  <2> DEFINE h == line * c + k3  yb == h * a + n1  y == Source(up(1), b, direction, yb, first)
  <2>0. n1 \in 0 .. a - 1 /\ n1 \in Nat
    BY DEF Points
  <2>1. yb \in Points((lines * c) * a) /\ yb % a = n1 /\ yb \div a = h
    <3> DEFINE n == lines * c
    <3>1. h \in Points(n) /\ n \in Nat /\ h \in Nat
      BY <1>0, <1>4
    <3> HIDE DEF h, n
    <3>2. h * a + n1 \in Points(n * a) /\ (h * a + n1) % a = n1 /\ (h * a + n1) \div a = h
      BY <3>1, JoinBelow, Split
    <3> QED
      BY <3>2 DEF n
  <2>2. Interim3(y, x, a, b, c, n1, k3, direction, scale)
    BY <1>2, <1>6, SecondOfThreeReads
  <2>3. Turned(Scaled(Fourier(y, b, direction)[k2], scale, b), <<n1 * k2, a * b>>, direction)
          = Turned(Scaled(Fourier(Part(x, m, a, n1), m, direction)[k2 * c + k3], scale, m),
                   <<n1 * (k2 * c + k3), a * m>>, direction)
    <3> HIDE DEF x, y
    <3>1. /\ Divides(a * (b * c)) /\ Numbers(x, a * (b * c))
          /\ Interim3(y, x, a, b, c, n1, k3, direction, scale)
      BY <1>6, <2>2
    <3> QED
      BY <3>1, SecondOfThree
  <2>4. output_turn(up(1), yb, k2) = <<n1 * k2, a * b>>
    <3>1. output_turn(up(1), yb, k2) = <<(yb % a) * k2, a * b>>
      BY DEF ThreeUpload, output_turn
    <3> HIDE DEF yb
    <3> QED
      BY <2>1, <3>1
  <2>5. At(second, output_index(up(1), b, yb, k2))
          = Turned(Scaled(Fourier(y, b, direction)[k2], scale, b), output_turn(up(1), yb, k2), direction)
    <3> HIDE DEF yb
    <3> QED
      BY <1>2, <2>1 DEF Transformed
  <2>6. output_index(up(1), b, yb, k2) = input_index(up(0), a, zb, n1)
    <3> HIDE DEF yb, zb
    <3>1. output_index(up(1), b, yb, k2) = ((yb \div a) * b + k2) * a + (yb % a)
      BY DEF ThreeUpload, output_index, UploadIndex
    <3>2. input_index(up(0), a, zb, n1) = zb * a + n1
      BY DEF ThreeUpload, input_index, PrimeIndex
    <3> QED
      BY <2>1, <3>1, <3>2 DEF zb
  <2>7. input_turn(up(0), zb, n1) = <<0, 1>>
    BY DEF ThreeUpload, input_turn
  <2>8. z[n1] = Turned(At(second, input_index(up(0), a, zb, n1)), input_turn(up(0), zb, n1), direction)
    BY <2>0 DEF Source
  <2> DEFINE t == Turned(Scaled(Fourier(Part(x, m, a, n1), m, direction)[j], scale, m),
                         <<n1 * j, a * m>>, direction)
  <2>9. t \in Number
    <3> HIDE DEF m, x
    <3>1. Divides(a * m)
      BY DEF m
    <3> QED
      BY <1>0, <1>1, <1>6, <3>1, ResultNumber
  <2>10. At(second, output_index(up(1), b, yb, k2)) = t
    BY <1>2, <2>3, <2>4, <2>5
  <2> HIDE DEF t, z, zb, yb, up
  <2>11. z[n1] = t
    BY <2>6, <2>7, <2>8, <2>9, <2>10, Unturned
  <2> QED
    BY <2>11 DEF t
<1> HIDE DEF x, z, m
<1> QED
  BY <1>2, <1>9 DEF Interim, x, z, m, up, zb, j

\* The three uploads of a transform of a * b * c points leave the discrete Fourier
\* transform of every line in natural order (map_three_upload_uploads of
\* src/src/fft_ir.rs and the ThreeUpload mappings of src/src/kernel_ir.rs).
THEOREM ThreeUploadsAreFourier ==
    ASSUME NEW a \in Positive, NEW b \in Positive, NEW c \in Positive, Divides(a * (b * c)),
           NEW direction, NEW scale, NEW lines \in Nat,
           NEW before, NEW first, NEW second, NEW after, Filled(before, a * (b * c), lines),
           Transformed(ThreeUpload(2, a, b, c), c, direction, scale, lines * (a * b), before, first),
           Transformed(ThreeUpload(1, a, b, c), b, direction, scale, (lines * c) * a, first, second),
           Transformed(ThreeUpload(0, a, b, c), a, direction, scale, (lines * c) * b, second, after)
    PROVE  LinesTransformed(a * (b * c), direction, scale, lines, before, after)
<1> SUFFICES ASSUME NEW line \in Points(lines), NEW k \in Points(a * (b * c))
             PROVE  At(after, line * (a * (b * c)) + k)
                      = Scaled(Fourier(Line(before, a * (b * c), line), a * (b * c), direction)[k],
                               scale, a * (b * c))
  BY DEF LinesTransformed
<1> DEFINE m == b * c  k1 == k \div m  j == k % m  k2 == j \div c  k3 == j % c
           zb == (line * c + k3) * b + k2
           up(i) == ThreeUpload(i, a, b, c)
           x == Line(before, a * m, line)  z == Source(up(0), a, direction, zb, second)
<1>0. a \in Nat /\ b \in Nat /\ c \in Nat /\ line \in Nat /\ m \in Positive /\ m \in Nat
  BY PositiveTimes DEF Positive, Points
<1>1. k1 \in Points(a) /\ j \in Points(m) /\ k = k1 * m + j
  <2> HIDE DEF m
  <2>1. k \in Points(a * m)
    BY DEF m
  <2> QED
    BY <1>0, <2>1, SplitBelow
<1> HIDE DEF k1, j
<1>2. k2 \in Points(b) /\ k3 \in Points(c) /\ j = k2 * c + k3
  BY <1>0, <1>1, SplitBelow
<1> HIDE DEF k2, k3
<1>3. k1 \in Nat /\ k2 \in Nat /\ k3 \in Nat
  BY <1>1, <1>2 DEF Points
<1>4. line * c + k3 \in Points(lines * c) /\ line * c + k3 \in Nat
  BY <1>0, <1>2, <1>3, JoinBelow DEF Points
<1>5. zb \in Points((lines * c) * b)
  <2> DEFINE h == line * c + k3  n == lines * c
  <2>1. h \in Points(n) /\ n \in Nat
    BY <1>0, <1>4
  <2> HIDE DEF h, n
  <2>2. h * b + k2 \in Points(n * b)
    BY <1>2, <2>1, JoinBelow
  <2> QED
    BY <2>2 DEF h, n
<1>6. Numbers(x, a * m)
  BY DEF Filled
<1>7. Divides(a)
  BY <1>0, DividesPart
<1>8. zb \div b = line * c + k3 /\ zb % b = k2 /\ (line * c + k3) \div c = line /\ (line * c + k3) % c = k3
  <2>1. (line * c + k3) \div c = line /\ (line * c + k3) % c = k3
    BY <1>0, <1>2, Split
  <2> DEFINE h == line * c + k3
  <2>2. h \in Nat
    BY <1>4
  <2> HIDE DEF h
  <2>3. (h * b + k2) \div b = h /\ (h * b + k2) % b = k2
    BY <1>2, <2>2, Split
  <2> QED
    BY <2>1, <2>3 DEF h
<1>9. Interim(z, x, a, m, j, direction, scale)
  BY <1>2, <1>6, ThirdOfThreeReads
<1>10. /\ Numbers(z, a)
       /\ Scaled(Fourier(z, a, direction)[k1], scale, a)
            = Scaled(Fourier(x, a * m, direction)[k1 * m + j], scale, a * m)
  <2>0. Divides(a * m)
    OBVIOUS
  <2> HIDE DEF x, z, m
  <2>2. /\ a \in Positive /\ m \in Positive /\ Divides(a * m) /\ Numbers(x, a * m)
        /\ k1 \in Points(a) /\ j \in Points(m)
    BY <1>0, <1>1, <1>6, <2>0
  <2> QED
    BY <1>9, <2>2, TwoSteps
<1>11. output_index(up(0), a, zb, k1) = line * (a * m) + k
  <2>1. output_index(up(0), a, zb, k1) = line * (a * b * c) + k3 + c * k2 + c * b * k1
    <3> HIDE DEF zb
    <3>1. output_index(up(0), a, zb, k1)
            = ((zb \div b) \div c) * (a * b * c) + ((zb \div b) % c) + c * (zb % b) + c * b * k1
      BY DEF ThreeUpload, output_index, UploadIndex
    <3> QED
      BY <1>8, <3>1
  <2>2. k3 + c * k2 + c * b * k1 = k /\ a * b * c = a * m
    BY <1>0, <1>1, <1>2, <1>3
  <2> DEFINE p == line * (a * b * c)  q == c * k2  r == c * b * k1
  <2>3. p \in Int /\ q \in Int /\ r \in Int
    BY <1>0, <1>3
  <2>4. p + k3 + q + r = p + (k3 + q + r)
    <3> HIDE DEF p, q, r
    <3> QED
      BY <1>3, <2>3
  <2> QED
    BY <2>1, <2>2, <2>4
<1>12. output_turn(up(0), zb, k1) = <<0, 1>>
  BY DEF ThreeUpload, output_turn
<1>13. Scaled(Fourier(z, a, direction)[k1], scale, a) \in Number
  <2> HIDE DEF z
  <2>1. Fourier(z, a, direction)[k1] \in Number
    BY <1>1, <1>7, <1>10, FourierAt
  <2> QED
    BY <1>7, <2>1, ScaledFactor, NumberClosed
<1>14. At(after, output_index(up(0), a, zb, k1))
         = Turned(Scaled(Fourier(z, a, direction)[k1], scale, a), output_turn(up(0), zb, k1), direction)
  <2> HIDE DEF zb
  <2> QED
    BY <1>1, <1>5 DEF Transformed
<1> HIDE DEF up, z, zb, x, m
<1>15. At(after, line * (a * m) + k) = Scaled(Fourier(x, a * m, direction)[k], scale, a * m)
  BY <1>1, <1>10, <1>11, <1>12, <1>13, <1>14, Unturned
<1> QED
  BY <1>15 DEF x, m

-----------------------------------------------------------------------------
(* Tables of sums.                                                         *)

\* A table of values: its rows, its columns, and their sums.
RowSums(u, n, m) == [i \in 0 .. n - 1 |-> Sum(u[i], m)]
Across(u, n, j) == [i \in 0 .. n - 1 |-> u[i][j]]
ColumnSums(u, n, m) == [j \in 0 .. m - 1 |-> Sum(Across(u, n, j), n)]

\* The sum of the first k elements of each column.
UpTo(u, n, m, k) == [j \in 0 .. m - 1 |-> Sum(Across(u, n, j), k)]

\* A table may be summed by rows or by columns.
LEMMA SumSwap ==
    ASSUME NEW n \in Nat, NEW m \in Nat, NEW u, \A i \in 0 .. n - 1 : Numbers(u[i], m)
    PROVE  /\ Sum(RowSums(u, n, m), n) = Sum(ColumnSums(u, n, m), m)
           /\ Numbers(RowSums(u, n, m), n) /\ Numbers(ColumnSums(u, n, m), m)
           /\ \A j \in 0 .. m - 1 : Numbers(Across(u, n, j), n)
<1> DEFINE rows == RowSums(u, n, m)
           S == {k \in Nat : Sum(rows, k) = Sum(UpTo(u, n, m, k), m)}
<1>1. Numbers(rows, n)
  BY SumNumber DEF Numbers, RowSums
<1>2. ASSUME NEW j \in 0 .. m - 1 PROVE Numbers(Across(u, n, j), n)
  BY DEF Numbers, Across
<1>3. ASSUME NEW k \in 0 .. n PROVE Numbers(UpTo(u, n, m, k), m)
  <2>1. ASSUME NEW j \in 0 .. m - 1 PROVE Sum(Across(u, n, j), k) \in Number
    BY <1>2, SumStep
  <2> QED
    BY <2>1 DEF Numbers, UpTo
<1>4. 0 \in S
  <2> DEFINE z == UpTo(u, n, m, 0)
  <2>1. \A j \in 0 .. m - 1 : z[j] = Zero
    BY <1>2, SumStep DEF UpTo
  <2>2. Numbers(z, m)
    BY <1>3
  <2>3. \A j \in 0 .. m - 1 : z[j] = Mul(z[j], Zero)
    BY <2>1, Units, ZeroOne
  <2> HIDE DEF z
  <2>4. Sum(z, m) = Mul(Sum(z, m), Zero)
    BY <2>2, <2>3, Units, SumTimes
  <2>5. Sum(z, m) = Zero
    BY <2>2, <2>4, SumNumber, Units, ZeroOne, MulCommutes
  <2>6. Sum(rows, 0) = Zero
    BY <1>1, SumStep
  <2> QED
    BY <2>5, <2>6 DEF z
<1>5. ASSUME NEW k \in 0 .. n - 1, k \in S PROVE k + 1 \in S
  <2>0. k \in 0 .. n /\ k + 1 \in 0 .. n /\ k + 1 \in Nat
    OBVIOUS
  <2>1. Sum(rows, k) = Sum(UpTo(u, n, m, k), m)
    BY <1>5
  <2>2. Sum(rows, k + 1) = Add(Sum(rows, k), rows[k])
    BY <1>1, SumStep
  <2>3. rows[k] = Sum(u[k], m)
    BY DEF RowSums
  <2>4. \A j \in 0 .. m - 1 : UpTo(u, n, m, k + 1)[j] = Add(UpTo(u, n, m, k)[j], u[k][j])
    <3> TAKE j \in 0 .. m - 1
    <3>1. Sum(Across(u, n, j), k + 1) = Add(Sum(Across(u, n, j), k), Across(u, n, j)[k])
      BY <1>2, SumStep
    <3>2. Across(u, n, j)[k] = u[k][j]
      BY DEF Across
    <3> QED
      BY <3>1, <3>2 DEF UpTo
  <2>5. Numbers(UpTo(u, n, m, k), m) /\ Numbers(u[k], m)
    BY <1>3, <2>0
  <2>6. Sum(UpTo(u, n, m, k + 1), m) = Add(Sum(UpTo(u, n, m, k), m), Sum(u[k], m))
    BY <2>4, <2>5, SumPlus
  <2> QED
    BY <2>0, <2>1, <2>2, <2>3, <2>6
<1> HIDE DEF S
<1>6. n \in S
  BY <1>4, <1>5, BoundedInduction
<1>7. UpTo(u, n, m, n) = ColumnSums(u, n, m)
  BY DEF UpTo, ColumnSums
<1> QED
  BY <1>1, <1>2, <1>3, <1>6, <1>7 DEF S

\* A sum with one value that is not 0.
LEMMA SumSingle ==
    ASSUME NEW n \in Nat, NEW v, NEW j \in 0 .. n - 1, v[j] \in Number,
           \A i \in 0 .. n - 1 : i # j => v[i] = Zero
    PROVE  Sum(v, n) = v[j] /\ Numbers(v, n)
<1>1. Numbers(v, n)
  BY Units DEF Numbers
<1> DEFINE S == {k \in Nat : Sum(v, k) = IF k > j THEN v[j] ELSE Zero}
<1>2. 0 \in S
  BY <1>1, SumStep
<1>3. ASSUME NEW k \in 0 .. n - 1, k \in S PROVE k + 1 \in S
  <2>0. k + 1 \in Nat /\ k \in Int /\ j \in Int
    OBVIOUS
  <2>1. Sum(v, k + 1) = Add(Sum(v, k), v[k])
    BY <1>1, SumStep
  <2>2. Sum(v, k) = IF k > j THEN v[j] ELSE Zero
    BY <1>3
  <2>3. CASE k = j
    <3>1. Sum(v, k + 1) = Add(Zero, v[j])
      BY <2>1, <2>2, <2>3
    <3> QED
      BY <2>0, <2>3, <3>1, ZeroOne
  <2>4. CASE k # j
    <3>1. v[k] = Zero
      BY <2>4
    <3>2. Sum(v, k + 1) = Sum(v, k)
      BY <2>1, <2>2, <3>1, Units, ZeroOne
    <3>3. k + 1 > j <=> k > j
      BY <2>0, <2>4
    <3> QED
      BY <2>0, <2>2, <3>2, <3>3
  <2> QED
    BY <2>3, <2>4
<1> HIDE DEF S
<1>4. n \in S
  BY <1>2, <1>3, BoundedInduction
<1>5. Sum(v, n) = IF n > j THEN v[j] ELSE Zero
  BY <1>4 DEF S
<1> QED
  BY <1>1, <1>5

\* A sum in another order.
LEMMA SumPermuted ==
    ASSUME NEW n \in Nat, NEW v, Numbers(v, n), NEW pi,
           \A i \in 0 .. n - 1 : pi[i] \in 0 .. n - 1,
           \A i, j \in 0 .. n - 1 : pi[i] = pi[j] => i = j,
           \A j \in 0 .. n - 1 : \E i \in 0 .. n - 1 : pi[i] = j,
           NEW w, \A i \in 0 .. n - 1 : w[i] = v[pi[i]]
    PROVE  Sum(w, n) = Sum(v, n) /\ Numbers(w, n)
<1> DEFINE u == [i \in 0 .. n - 1 |-> [j \in 0 .. n - 1 |-> IF pi[i] = j THEN v[j] ELSE Zero]]
<1>1. ASSUME NEW i \in 0 .. n - 1 PROVE Sum(u[i], n) = w[i] /\ Numbers(u[i], n)
  <2> DEFINE j == pi[i]
  <2>1. j \in 0 .. n - 1 /\ v[j] \in Number
    BY DEF Numbers
  <2>2. u[i][j] = v[j] /\ \A l \in 0 .. n - 1 : l # j => u[i][l] = Zero
    BY <2>1
  <2> HIDE DEF u, j
  <2>3. Sum(u[i], n) = u[i][j] /\ Numbers(u[i], n)
    BY <2>1, <2>2, SumSingle
  <2> QED
    BY <2>2, <2>3 DEF j
<1>2. ASSUME NEW j \in 0 .. n - 1 PROVE Sum(Across(u, n, j), n) = v[j]
  <2>1. PICK i \in 0 .. n - 1 : pi[i] = j
    OBVIOUS
  <2>2. Across(u, n, j)[i] = v[j] /\ v[j] \in Number
    BY <2>1 DEF Across, Numbers
  <2>3. \A l \in 0 .. n - 1 : l # i => Across(u, n, j)[l] = Zero
    BY <2>1 DEF Across
  <2> HIDE DEF u
  <2> QED
    BY <2>2, <2>3, SumSingle
<1> HIDE DEF u
<1>3. /\ Sum(RowSums(u, n, n), n) = Sum(ColumnSums(u, n, n), n)
      /\ Numbers(RowSums(u, n, n), n) /\ Numbers(ColumnSums(u, n, n), n)
  BY <1>1, SumSwap
<1>4. Sum(RowSums(u, n, n), n) = Sum(w, n)
  <2> DEFINE rows == RowSums(u, n, n)
  <2>1. \A i \in 0 .. n - 1 : rows[i] = w[i]
    BY <1>1 DEF RowSums
  <2> HIDE DEF rows
  <2>2. Numbers(rows, n)
    BY <1>3 DEF rows
  <2>3. Sum(rows, n) = Sum(w, n)
    BY <2>1, <2>2, SumSame
  <2> QED
    BY <2>3 DEF rows
<1>5. Sum(ColumnSums(u, n, n), n) = Sum(v, n)
  <2> DEFINE columns == ColumnSums(u, n, n)
  <2>1. \A i \in 0 .. n - 1 : columns[i] = v[i]
    BY <1>2 DEF ColumnSums
  <2> HIDE DEF columns
  <2>2. Numbers(columns, n)
    BY <1>3 DEF columns
  <2>3. Sum(columns, n) = Sum(v, n)
    BY <2>1, <2>2, SumSame
  <2> QED
    BY <2>3 DEF columns
<1>6. Numbers(w, n)
  BY DEF Numbers
<1> QED
  BY <1>3, <1>4, <1>5, <1>6

-----------------------------------------------------------------------------
(* Prime transforms by direct multiplication.                              *)

\* z[m] is power m of the generator.
IsResidues(z, p, g, n) ==
  z \in [0 .. n -> Points(p)] /\ z[0] = 1 /\ \A k \in 0 .. n - 1 : z[k + 1] = (z[k] * g) % p

LEMMA ResiduesExist ==
    ASSUME NEW p \in Nat, p >= 2, NEW g \in Nat, NEW n \in Nat
    PROVE  \E z : IsResidues(z, p, g, n)
<1> DEFINE V == Points(p)  step == [a \in Nat \X V |-> (a[2] * g) % p]
<1>1. 1 \in V /\ p \in Positive
  BY DEF Points, Positive
<1>2. ASSUME NEW a \in V PROVE (a * g) % p \in V
  <2>1. a * g \in Int
    BY DEF Points
  <2> DEFINE b == a * g
  <2>2. b \in Int
    BY <2>1
  <2> HIDE DEF b
  <2>3. b % p \in V
    BY <1>1, <2>2, IntDivMod
  <2> QED
    BY <2>3 DEF b
<1>3. step \in [Nat \X V -> V]
  BY <1>2
<1>4. \A k \in Nat, a \in V : step[<<k, a>>] = (a * g) % p
  OBVIOUS
<1> HIDE DEF V, step
<1>5. PICK z : Follows(z, V, 1, step, n)
  BY <1>1, <1>3, RecursionExists
<1>6. z \in [0 .. n -> V] /\ z[0] = 1 /\ \A k \in 0 .. n - 1 : z[k + 1] = step[<<k, z[k]>>]
  BY <1>5 DEF Follows
<1>7. \A k \in 0 .. n - 1 : z[k + 1] = (z[k] * g) % p
  <2> TAKE k \in 0 .. n - 1
  <2>1. k \in Nat /\ k \in 0 .. n
    OBVIOUS
  <2>2. z[k] \in V
    BY <1>6, <2>1
  <2>3. z[k + 1] = step[<<k, z[k]>>]
    BY <1>6
  <2> QED
    BY <1>4, <2>1, <2>2, <2>3
<1> QED
  BY <1>6, <1>7 DEF IsResidues, V

LEMMA ResidueValue ==
    ASSUME NEW p \in Nat, p >= 2, NEW g \in Nat, NEW n \in Nat, NEW z, IsResidues(z, p, g, n),
           NEW m \in 0 .. n
    PROVE  residue_at(p, g, m) = z[m]
<1> DEFINE E(f) == f = [k \in 0 .. m |-> IF k = 0 THEN 1 ELSE (f[k - 1] * g) % p]
           f0 == CHOOSE f : E(f)
           h == [k \in 0 .. m |-> z[k]]
<1>1. z[0] = 1 /\ \A k \in 0 .. n - 1 : z[k + 1] = (z[k] * g) % p
  BY DEF IsResidues
<1>2. ASSUME NEW k \in 0 .. m
      PROVE  h[k] = IF k = 0 THEN 1 ELSE (h[k - 1] * g) % p
  <2>1. CASE k = 0
    BY <1>1, <2>1
  <2>2. CASE k # 0
    <3>1. k - 1 \in 0 .. n - 1 /\ (k - 1) + 1 = k /\ k - 1 \in 0 .. m
      BY <2>2
    <3>2. z[(k - 1) + 1] = (z[k - 1] * g) % p
      BY <1>1, <3>1
    <3> QED
      BY <2>2, <3>1, <3>2
  <2> QED
    BY <2>1, <2>2
<1>3. E(h)
  BY <1>2
<1> HIDE DEF h
<1>4. E(f0)
  BY <1>3
<1> HIDE DEF f0
<1>5. f0[0] = 1 /\ \A k \in 0 .. m : k # 0 => f0[k] = (f0[k - 1] * g) % p
  BY <1>4
<1> DEFINE S == {k \in Nat : k <= m => f0[k] = z[k]}
<1>6. 0 \in S
  BY <1>1, <1>5
<1>7. ASSUME NEW k \in Nat, k \in S PROVE k + 1 \in S
  <2>1. ASSUME k + 1 <= m PROVE f0[k + 1] = z[k + 1]
    <3>1. k + 1 \in 0 .. m /\ k + 1 # 0 /\ (k + 1) - 1 = k /\ k \in 0 .. n - 1 /\ k <= m
      BY <2>1
    <3>2. f0[k + 1] = (f0[(k + 1) - 1] * g) % p
      BY <1>5, <3>1
    <3>3. f0[k] = z[k]
      BY <1>7, <3>1
    <3> QED
      BY <1>1, <3>1, <3>2, <3>3
  <2> QED
    BY <2>1
<1> HIDE DEF S
<1>8. m \in S
  BY <1>6, <1>7, SetInduction
<1>9. f0[m] = z[m]
  BY <1>8 DEF S
<1>10. residue_at(p, g, m) = f0[m]
  BY DEF residue_at, f0
<1> QED
  BY <1>9, <1>10

\* The powers of the generator, one by one.
LEMMA ResidueStep ==
    ASSUME NEW p \in Nat, p >= 2, NEW g \in Nat
    PROVE  /\ residue_at(p, g, 0) = 1
           /\ \A e \in Nat : /\ residue_at(p, g, e) \in Points(p)
                             /\ residue_at(p, g, e + 1) = (residue_at(p, g, e) * g) % p
<1>1. ASSUME NEW e \in Nat
      PROVE  /\ residue_at(p, g, 0) = 1
             /\ residue_at(p, g, e) \in Points(p)
             /\ residue_at(p, g, e + 1) = (residue_at(p, g, e) * g) % p
  <2>1. e + 1 \in Nat /\ e \in 0 .. (e + 1) - 1 /\ e + 1 \in 0 .. e + 1 /\ e \in 0 .. e + 1 /\ 0 \in 0 .. e + 1
    OBVIOUS
  <2>2. PICK z : IsResidues(z, p, g, e + 1)
    BY <2>1, ResiduesExist
  <2>3. \A m \in 0 .. e + 1 : residue_at(p, g, m) = z[m]
    BY <2>1, <2>2, ResidueValue
  <2> QED
    BY <2>1, <2>2, <2>3 DEF IsResidues
<1>2. 0 \in Nat
  OBVIOUS
<1> QED
  BY <1>1, <1>2

\* The powers multiply.
LEMMA ResidueTimes ==
    ASSUME NEW p \in Nat, p >= 2, NEW g \in Nat, NEW a \in Nat, NEW b \in Nat
    PROVE  residue_at(p, g, a + b) = (residue_at(p, g, a) * residue_at(p, g, b)) % p
<1> DEFINE r(e) == residue_at(p, g, e)
           S == {e \in Nat : r(a + e) = (r(a) * r(e)) % p}
<1>0. p \in Positive
  BY DEF Positive
<1>1. r(0) = 1 /\ \A e \in Nat : r(e) \in Points(p) /\ r(e + 1) = (r(e) * g) % p
  BY ResidueStep
<1> HIDE DEF r
<1>2. \A e \in Nat : r(e) \in Int
  BY <1>1 DEF Points
<1>3. 0 \in S
  <2>1. r(a) % p = r(a)
    BY <1>0, <1>1, SmallRemainder
  <2>2. a + 0 = a /\ r(a) * 1 = r(a)
    BY <1>2
  <2> QED
    BY <1>1, <2>1, <2>2
<1>4. ASSUME NEW e \in Nat, e \in S PROVE e + 1 \in S
  <2> DEFINE x == r(a)  y == r(e)  z == x * y  q == z \div p  m == y * g  n == m \div p
  <2>1. x \in Int /\ y \in Int /\ z \in Int /\ m \in Int /\ p \in Int
    BY <1>2
  <2>2. a + e \in Nat /\ a + (e + 1) = (a + e) + 1 /\ e + 1 \in Nat
    OBVIOUS
  <2>3. r(a + e) = z % p
    BY <1>4
  <2>4. r((a + e) + 1) = ((z % p) * g) % p
    BY <1>1, <2>2, <2>3
  <2>5. r(e + 1) = m % p
    BY <1>1
  <2> HIDE DEF x, y
  <2>6. q \in Int /\ z % p \in Int /\ z = q * p + (z % p)
    <3> HIDE DEF z
    <3> QED
      BY <1>0, <2>1, IntDivMod DEF Points
  <2>7. n \in Int /\ m % p \in Int /\ m = n * p + (m % p)
    <3> HIDE DEF m
    <3> QED
      BY <1>0, <2>1, IntDivMod DEF Points
  <2> DEFINE c == z % p  d == m % p
  <2>8. /\ c \in Int /\ d \in Int /\ q \in Int /\ n \in Int /\ g \in Int
        /\ x * y = q * p + c /\ y * g = n * p + d
    BY <2>6, <2>7
  <2> HIDE DEF c, d, q, n, z, m
  <2>9. c * g = x * d + (x * n - q * g) * p
    <3>1. (x * y) * g = x * (y * g)
      BY <2>1
    <3>2. (q * p + c) * g = (q * g) * p + c * g
      BY <2>1, <2>8
    <3>3. x * (n * p + d) = (x * n) * p + x * d
      BY <2>1, <2>8
    <3>4. (x * n - q * g) * p = (x * n) * p - (q * g) * p
      BY <2>1, <2>8
    <3> DEFINE s == (q * g) * p  t == (x * n) * p  h == c * g  k == x * d
    <3>5. s \in Int /\ t \in Int /\ h \in Int /\ k \in Int
      BY <2>1, <2>8
    <3>6. s + h = t + k /\ (x * n - q * g) * p = t - s
      BY <2>8, <3>1, <3>2, <3>3, <3>4
    <3> HIDE DEF s, t, h, k
    <3>7. h = k + (t - s)
      BY <3>5, <3>6
    <3> QED
      BY <3>6, <3>7 DEF h, k
  <2> DEFINE i == c * g  j == x * d  w == x * n - q * g
  <2>10. i \in Int /\ j \in Int /\ w \in Int /\ i = j + w * p
    BY <2>1, <2>8, <2>9
  <2> HIDE DEF i, j, w
  <2>11. i % p = j % p
    BY <1>0, <2>10, SameRemainder
  <2>12. r(a + (e + 1)) = i % p
    BY <2>2, <2>4 DEF i, c
  <2>13. r(e + 1) = d
    BY <2>5 DEF d, m
  <2> QED
    BY <2>2, <2>11, <2>12, <2>13 DEF j, x
<1> HIDE DEF S
<1>5. b \in S
  BY <1>3, <1>4, SetInduction
<1> QED
  BY <1>5 DEF S, r

\* g generates the residues other than 0: its powers are each of them once, and then
\* come back to 1 (what primitive_root of src/src/planner.rs looks for).
Generates(p, g) ==
  /\ p \in Nat /\ p >= 2 /\ g \in Nat
  /\ \A e \in 0 .. p - 2 : residue_at(p, g, e) # 0
  /\ \A e, f \in 0 .. p - 2 : residue_at(p, g, e) = residue_at(p, g, f) => e = f
  /\ \A k \in 1 .. p - 1 : \E e \in 0 .. p - 2 : residue_at(p, g, e) = k
  /\ residue_at(p, g, p - 1) = 1

\* Powers are taken modulo p - 1.
LEMMA PowerWraps ==
    ASSUME NEW p, NEW g, Generates(p, g), NEW e \in 0 .. p - 2, NEW f \in 0 .. p - 2
    PROVE  residue_at(p, g, (f + e) % (p - 1)) = (residue_at(p, g, f) * residue_at(p, g, e)) % p
<1>0. p \in Nat /\ p >= 2 /\ g \in Nat /\ p - 1 \in Positive /\ p - 1 \in Nat /\ f + e \in Nat /\ p \in Positive
  BY DEF Generates, Positive
<1> DEFINE r(i) == residue_at(p, g, i)
<1>1. r(f + e) = (r(f) * r(e)) % p
  BY <1>0, ResidueTimes
<1>2. CASE f + e < p - 1
  <2>1. f + e \in Points(p - 1)
    BY <1>0, <1>2 DEF Points
  <2>2. (f + e) % (p - 1) = f + e
    BY <1>0, <2>1, SmallRemainder
  <2> QED
    BY <1>1, <2>2
<1>3. CASE ~(f + e < p - 1)
  <2> DEFINE d == f + e - (p - 1)
  <2>1. d \in Nat /\ d \in Points(p - 1) /\ f + e = (p - 1) + d /\ f + e = d + 1 * (p - 1)
    BY <1>0, <1>3 DEF Points
  <2> HIDE DEF d
  <2>2. (f + e) % (p - 1) = d
    <3>1. d % (p - 1) = d
      BY <1>0, <2>1, SmallRemainder
    <3> DEFINE s == f + e  t == 1
    <3>2. s \in Int /\ d \in Int /\ t \in Int /\ s = d + t * (p - 1)
      BY <1>0, <2>1
    <3> HIDE DEF s, t
    <3>3. s % (p - 1) = d % (p - 1)
      BY <1>0, <3>2, SameRemainder
    <3> QED
      BY <3>1, <3>3 DEF s
  <2>3. r((p - 1) + d) = (r(p - 1) * r(d)) % p
    BY <1>0, <2>1, ResidueTimes
  <2>4. r(p - 1) = 1
    BY DEF Generates
  <2>5. r(d) \in Points(p)
    BY <1>0, <2>1, ResidueStep
  <2> HIDE DEF r
  <2>6. r(p - 1) * r(d) = r(d)
    BY <2>4, <2>5 DEF Points
  <2>7. r(d) % p = r(d)
    BY <1>0, <2>5, SmallRemainder
  <2> QED
    BY <1>1, <2>1, <2>2, <2>3, <2>6, <2>7 DEF r
<1> QED
  BY <1>2, <1>3

\* Turns that differ by whole revolutions.
LEMMA WRemainder ==
    ASSUME NEW n, Divides(n), NEW a \in Int, NEW direction
    PROVE  W(a % n, n, direction) = W(a, n, direction)
<1> DEFINE t == a \div n  r == a % n  s == n * t
<1>0. n \in Positive /\ n \in Int
  BY DEF Divides, Positive
<1>1. t \in Int /\ r \in Points(n) /\ a = t * n + r
  BY <1>0, IntDivMod
<1> HIDE DEF t, r
<1>2. r \in Int /\ s \in Int /\ a = r + s
  BY <1>0, <1>1 DEF Points
<1>3. W(s, n, direction) = One
  BY <1>1, WWhole
<1> HIDE DEF s
<1>4. Mul(W(r, n, direction), W(s, n, direction)) = W(a, n, direction)
  BY <1>2, WAdd
<1>5. W(r, n, direction) \in Number
  BY <1>2, WNumber
<1> QED
  BY <1>3, <1>4, <1>5, ZeroOne DEF r

\* Element e of the cyclic convolution, in generator order, of a transform of p points
\* with the roots of unity.
RaderTerms(x, p, g, e, direction) ==
  [f \in 0 .. p - 2 |-> Mul(x[residue_at(p, g, f)],
                            W(residue_at(p, g, (f + e) % (p - 1)), p, direction))]

\* A prime transform by multiplication with the roots in generator order is the
\* discrete Fourier transform (execute_rader_direct_ir of src/src/rader_ir.rs).
THEOREM DirectRaderIsFourier ==
    ASSUME NEW p, NEW g, Generates(p, g), Divides(p), NEW direction, NEW x, Numbers(x, p)
    PROVE  /\ Sum(x, p) = Fourier(x, p, direction)[0]
           /\ \A e \in 0 .. p - 2 :
                Add(x[0], Sum(RaderTerms(x, p, g, e, direction), p - 1))
                  = Fourier(x, p, direction)[residue_at(p, g, e)]
<1>0. /\ p \in Nat /\ p \in Int /\ p >= 2 /\ g \in Nat /\ p \in Positive /\ p - 1 \in Nat /\ p - 1 \in Positive
      /\ 1 \in Nat /\ p = 1 + (p - 1) /\ 0 \in Points(p) /\ 0 \in 0 .. p - 1
  BY DEF Generates, Positive, Points
<1> DEFINE r(e) == residue_at(p, g, e)
<1>1. \A e \in Nat : r(e) \in Points(p) /\ r(e) \in Int
  <2>1. \A i \in Points(p) : i \in Int
    BY DEF Points
  <2> QED
    BY <1>0, <2>1, ResidueStep
<1>2. ASSUME NEW k \in Points(p)
      PROVE  /\ Fourier(x, p, direction)[k] = Sum(Terms(x, p, 1, 0, k, direction), p)
             /\ Numbers(Terms(x, p, 1, 0, k, direction), p)
             /\ \A n \in 0 .. p - 1 : Terms(x, p, 1, 0, k, direction)[n] = Mul(x[n], W(n * k, p, direction))
  <2>1. Fourier(x, p, direction)[k] = Sum(Terms(x, p, 1, 0, k, direction), p)
    BY FourierAt
  <2>2. Numbers(Terms(x, p, 1, 0, k, direction), p)
    <3>1. 1 \in Positive /\ 0 \in Points(1) /\ k \in Int /\ p * 1 = p
      BY <1>0 DEF Positive, Points
    <3> QED
      BY <1>0, <3>1, TermsNumbers
  <2>3. \A n \in 0 .. p - 1 : 0 + n * 1 = n
    OBVIOUS
  <2>4. \A n \in 0 .. p - 1 : Terms(x, p, 1, 0, k, direction)[n] = Mul(x[n], W(n * k, p, direction))
    BY <2>3 DEF Terms
  <2> QED
    BY <2>1, <2>2, <2>4
<1>3. W(0, p, direction) = One
  <2>1. 0 \in Int /\ p * 0 = 0
    BY <1>0
  <2>2. W(p * 0, p, direction) = One
    BY <2>1, WWhole
  <2> QED
    BY <2>1, <2>2
<1>4. Sum(x, p) = Fourier(x, p, direction)[0]
  <2> DEFINE v == Terms(x, p, 1, 0, 0, direction)
  <2>1. ASSUME NEW n \in 0 .. p - 1 PROVE v[n] = x[n]
    <3>1. v[n] = Mul(x[n], W(n * 0, p, direction)) /\ n * 0 = 0
      BY <1>0, <1>2
    <3>2. x[n] \in Number
      BY DEF Numbers
    <3> QED
      BY <1>3, <3>1, <3>2, ZeroOne
  <2>2. Numbers(v, p) /\ Fourier(x, p, direction)[0] = Sum(v, p)
    BY <1>0, <1>2
  <2> HIDE DEF v
  <2> QED
    BY <1>0, <2>1, <2>2, SumSame
<1>5. ASSUME NEW e \in 0 .. p - 2
      PROVE  Add(x[0], Sum(RaderTerms(x, p, g, e, direction), p - 1)) = Fourier(x, p, direction)[r(e)]
  <2> DEFINE k == r(e)  v == Terms(x, p, 1, 0, k, direction)  later == LaterValues(v, 1, p - 1)
             pi == [f \in 0 .. p - 2 |-> r(f) - 1]  u == RaderTerms(x, p, g, e, direction)
  <2>0. k \in Points(p) /\ k \in Int
    BY <1>1
  <2>1. /\ Fourier(x, p, direction)[k] = Sum(v, p) /\ Numbers(v, p)
        /\ \A n \in 0 .. p - 1 : v[n] = Mul(x[n], W(n * k, p, direction))
    BY <1>2, <2>0
  <2> HIDE DEF k, v
  <2>2. Sum(v, p) = Add(Sum(v, 1), Sum(later, p - 1)) /\ Numbers(later, p - 1)
    <3> DEFINE b == p - 1
    <3>1. b \in Nat /\ p = 1 + b /\ Numbers(v, 1 + b)
      BY <1>0, <2>1
    <3> HIDE DEF b
    <3>2. Sum(v, 1 + b) = Add(Sum(v, 1), Sum(LaterValues(v, 1, b), b)) /\ Numbers(LaterValues(v, 1, b), b)
      BY <1>0, <3>1, SumSplit
    <3> QED
      BY <3>1, <3>2 DEF b
  <2>3. Sum(v, 1) = x[0] /\ x[0] \in Number
    <3>1. x[0] \in Number
      BY <1>0 DEF Numbers
    <3>2. Sum(v, 0 + 1) = Add(Sum(v, 0), v[0]) /\ Sum(v, 0) = Zero
      BY <1>0, <2>1, SumStep
    <3>3. v[0] = Mul(x[0], W(0 * k, p, direction)) /\ 0 * k = 0
      BY <1>0, <2>0, <2>1
    <3>4. v[0] = x[0]
      BY <1>3, <3>1, <3>3, ZeroOne
    <3> QED
      BY <3>1, <3>2, <3>4, ZeroOne
  <2>4. \A f \in 0 .. p - 2 : r(f) \in 1 .. p - 1 /\ pi[f] = r(f) - 1 /\ pi[f] \in 0 .. p - 2
    <3> TAKE f \in 0 .. p - 2
    <3>1. r(f) \in Points(p) /\ r(f) # 0
      BY <1>1 DEF Generates
    <3> HIDE DEF r
    <3>2. r(f) \in 1 .. p - 1
      BY <1>0, <3>1 DEF Points
    <3> QED
      BY <1>0, <3>2
  <2>5. \A i, j \in 0 .. p - 2 : pi[i] = pi[j] => i = j
    <3>1. \A i, j \in 0 .. p - 2 : r(i) = r(j) => i = j
      BY DEF Generates
    <3> HIDE DEF r, pi
    <3> QED
      BY <2>4, <3>1
  <2>6. \A j \in 0 .. p - 2 : \E i \in 0 .. p - 2 : pi[i] = j
    <3> TAKE j \in 0 .. p - 2
    <3>1. j + 1 \in 1 .. p - 1
      BY <1>0
    <3>2. \E i \in 0 .. p - 2 : r(i) = j + 1
      BY <3>1 DEF Generates
    <3> HIDE DEF r, pi
    <3>3. PICK i \in 0 .. p - 2 : r(i) = j + 1
      BY <3>2
    <3>4. pi[i] = j
      BY <2>4, <3>3
    <3> QED
      BY <3>4
  <2>7. ASSUME NEW f \in 0 .. p - 2 PROVE u[f] = later[pi[f]]
    <3>1. u[f] = Mul(x[r(f)], W(residue_at(p, g, (f + e) % (p - 1)), p, direction))
      BY DEF RaderTerms
    <3>2. residue_at(p, g, (f + e) % (p - 1)) = (r(f) * k) % p
      BY PowerWraps DEF k
    <3> HIDE DEF r, pi, u
    <3>3. pi[f] \in 0 .. (p - 1) - 1 /\ 1 + pi[f] = r(f) /\ r(f) \in 0 .. p - 1 /\ r(f) \in Int
      BY <1>0, <2>4
    <3>4. later[pi[f]] = v[r(f)]
      BY <3>3 DEF LaterValues
    <3> HIDE DEF later
    <3>5. W((r(f) * k) % p, p, direction) = W(r(f) * k, p, direction)
      <4> DEFINE a == r(f) * k
      <4>1. a \in Int
        BY <2>0, <3>3
      <4> HIDE DEF a
      <4>2. W(a % p, p, direction) = W(a, p, direction)
        BY <4>1, WRemainder
      <4> QED
        BY <4>2 DEF a
    <3> QED
      BY <2>1, <3>1, <3>2, <3>3, <3>4, <3>5
  <2>8. Sum(u, p - 1) = Sum(later, p - 1)
    <3> HIDE DEF u, later, pi
    <3> DEFINE n == p - 1
    <3>1. n \in Nat /\ p - 2 = n - 1
      BY <1>0
    <3>2. /\ \A i \in 0 .. n - 1 : pi[i] \in 0 .. n - 1
          /\ \A i, j \in 0 .. n - 1 : pi[i] = pi[j] => i = j
          /\ \A j \in 0 .. n - 1 : \E i \in 0 .. n - 1 : pi[i] = j
          /\ \A f \in 0 .. n - 1 : u[f] = later[pi[f]]
          /\ Numbers(later, n)
      BY <2>2, <2>4, <2>5, <2>6, <2>7, <3>1
    <3> HIDE DEF n
    <3>3. Sum(u, n) = Sum(later, n)
      BY <3>1, <3>2, SumPermuted
    <3> QED
      BY <3>3 DEF n
  <2> QED
    BY <2>1, <2>2, <2>3, <2>8 DEF k
<1> QED
  BY <1>4, <1>5

\* A prime transform by direct multiplication, through a mapping that turns nothing it
\* reads, and its table of roots in generator order (RaderTable of src/src/lut.rs).
PrimeLeaf(ir, io, len, direction, scale) ==
  /\ ir.io = io /\ ir.len = len /\ ir.direction = direction /\ ir.normalize = scale
  /\ Generates(len, ir.generator)
  /\ \A batch, i : input_turn(io, batch, i) = <<0, 1>>

RootsTable(table, p, g, direction) ==
  \A e \in 0 .. p - 2 : At(table, e) = W(residue_at(p, g, e), p, direction)

LEMMA RaderDirectStores ==
    ASSUME NEW len, Divides(len), NEW io, NEW direction, NEW scale,
           NEW ir, PrimeLeaf(ir, io, len, direction, scale),
           NEW batch, NEW memory, NEW lookup, RootsTable(lookup, len, ir.generator, direction),
           \A i \in Points(len) : At(memory, input_index(io, len, batch, i)) \in Number
    PROVE  RaderDirect(ir, batch, memory, lookup)
             = {<<output_index(io, len, batch, i),
                  Result(io, len, direction, scale, batch, memory, i)>> : i \in Points(len)}
<1> DEFINE g == ir.generator
           source == [i \in 0 .. ir.len - 1 |-> At(memory, input_index(ir.io, ir.len, batch, i))]
           terms(e) == [f \in 0 .. ir.len - 2 |->
                          Mul(source[residue_at(ir.len, ir.generator, f)],
                              At(lookup, (f + e) % (ir.len - 1)))]
           convolution == [e \in 0 .. ir.len - 2 |-> Sum(terms(e), ir.len - 1)]
           x == Source(io, len, direction, batch, memory)
           y == Fourier(x, len, direction)
<1>0. /\ ir.io = io /\ ir.len = len /\ ir.direction = direction /\ ir.normalize = scale
      /\ Generates(len, g) /\ len \in Nat /\ len >= 2 /\ g \in Nat /\ len - 1 \in Positive
  BY DEF PrimeLeaf, Generates, Positive
<1>1. \A i \in 0 .. len - 1 : x[i] \in Number /\ source[i] = x[i]
  <2> TAKE i \in 0 .. len - 1
  <2>1. At(memory, input_index(io, len, batch, i)) \in Number
    BY DEF Points
  <2>2. x[i] = Turned(At(memory, input_index(io, len, batch, i)), <<0, 1>>, direction)
    BY DEF Source, PrimeLeaf
  <2>3. source[i] = At(memory, input_index(io, len, batch, i))
    BY <1>0
  <2> QED
    BY <2>1, <2>2, <2>3, Unturned
<1>2. Numbers(x, len) /\ Numbers(source, len)
  BY <1>1 DEF Numbers
<1> HIDE DEF x, source, g
<1>3. /\ Sum(x, len) = y[0]
      /\ \A e \in 0 .. len - 2 :
           Add(x[0], Sum(RaderTerms(x, len, g, e, direction), len - 1)) = y[residue_at(len, g, e)]
  <2> HIDE DEF y
  <2> QED
    BY <1>0, <1>2, DirectRaderIsFourier DEF y
<1>4. Sum(source, len) = y[0]
  <2>1. Sum(x, len) = Sum(source, len)
    BY <1>0, <1>1, <1>2, SumSame
  <2> QED
    BY <1>3, <2>1
<1>5. ASSUME NEW e \in 0 .. len - 2
      PROVE  terms(e) = RaderTerms(x, len, g, e, direction)
  <2>1. ASSUME NEW f \in 0 .. len - 2
        PROVE  /\ source[residue_at(len, g, f)] = x[residue_at(len, g, f)]
               /\ At(lookup, (f + e) % (len - 1)) = W(residue_at(len, g, (f + e) % (len - 1)), len, direction)
    <3>1. residue_at(len, g, f) \in 0 .. len - 1
      <4>1. f \in Nat
        BY <1>0
      <4> QED
        BY <1>0, <4>1, ResidueStep DEF Points
    <3>2. (f + e) % (len - 1) \in 0 .. len - 2
      <4> DEFINE i == f + e  m == len - 1
      <4>1. i \in Int /\ m \in Positive /\ len - 2 = m - 1
        BY <1>0
      <4> HIDE DEF i, m
      <4>2. i % m \in Points(m)
        BY <4>1, IntDivMod
      <4> QED
        BY <4>1, <4>2 DEF Points, i, m
    <3> QED
      BY <1>1, <3>1, <3>2 DEF RootsTable, g
  <2>2. terms(e) = [f \in 0 .. len - 2 |-> Mul(source[residue_at(len, g, f)], At(lookup, (f + e) % (len - 1)))]
    BY <1>0 DEF g
  <2> HIDE DEF terms
  <2>3. [f \in 0 .. len - 2 |-> Mul(source[residue_at(len, g, f)], At(lookup, (f + e) % (len - 1)))]
          = [f \in 0 .. len - 2 |-> Mul(x[residue_at(len, g, f)],
                                        W(residue_at(len, g, (f + e) % (len - 1)), len, direction))]
    BY <2>1
  <2> QED
    BY <2>2, <2>3 DEF RaderTerms
<1> HIDE DEF terms
<1>6. \A e \in 0 .. len - 2 : Add(source[0], convolution[e]) = y[residue_at(len, g, e)]
  <2> TAKE e \in 0 .. len - 2
  <2>1. convolution[e] = Sum(RaderTerms(x, len, g, e, direction), len - 1)
    BY <1>0, <1>5
  <2>2. source[0] = x[0]
    BY <1>0, <1>1
  <2> QED
    BY <1>3, <2>1, <2>2
<1> DEFINE E == RaderElements(len, g, scale, source, convolution)
           S == {<<i, Scaled(y[i], scale, len)>> : i \in Points(len)}
           h(p) == <<output_index(io, len, batch, p[1]),
                     Turned(p[2], output_turn(io, batch, p[1]), direction)>>
<1>7. RaderDirect(ir, batch, memory, lookup) = Mapped(io, len, direction, batch, E)
  BY <1>0 DEF RaderDirect, source, terms, g
<1> HIDE DEF convolution, y
<1>8. E = S
  <2> DEFINE first == <<0, Scaled(Sum(source, len), scale, len)>>
             later(e) == <<residue_at(len, g, e), Scaled(Add(source[0], convolution[e]), scale, len)>>
             of(i) == <<i, Scaled(y[i], scale, len)>>
  <2>1. E = {first} \cup {later(e) : e \in 0 .. len - 2}
    BY DEF RaderElements
  <2>2. first = of(0) /\ 0 \in Points(len)
    BY <1>0, <1>4 DEF Points
  <2>3. \A e \in 0 .. len - 2 : later(e) = of(residue_at(len, g, e)) /\ residue_at(len, g, e) \in Points(len)
    <3> TAKE e \in 0 .. len - 2
    <3>1. e \in Nat
      BY <1>0
    <3>2. residue_at(len, g, e) \in Points(len)
      BY <1>0, <3>1, ResidueStep
    <3> QED
      BY <1>6, <3>2
  <2>4. \A i \in Points(len) : i = 0 \/ \E e \in 0 .. len - 2 : residue_at(len, g, e) = i
    <3> TAKE i \in Points(len)
    <3>1. i = 0 \/ i \in 1 .. len - 1
      BY <1>0 DEF Points
    <3> QED
      BY <1>0, <3>1 DEF Generates
  <2>5. S = {of(i) : i \in Points(len)}
    OBVIOUS
  <2> HIDE DEF E, S, first, later, of
  <2>6. {first} \cup {later(e) : e \in 0 .. len - 2} \subseteq {of(i) : i \in Points(len)}
    BY <2>2, <2>3
  <2>7. {of(i) : i \in Points(len)} \subseteq {first} \cup {later(e) : e \in 0 .. len - 2}
    BY <2>2, <2>3, <2>4
  <2> QED
    BY <2>1, <2>5, <2>6, <2>7
<1>9. Mapped(io, len, direction, batch, S) = {h(p) : p \in S}
  BY DEF Mapped
<1>10. {h(p) : p \in S}
         = {<<output_index(io, len, batch, i),
              Turned(Scaled(y[i], scale, len), output_turn(io, batch, i), direction)>> : i \in Points(len)}
  <2> DEFINE of(i) == <<i, Scaled(y[i], scale, len)>>
             k(i) == <<output_index(io, len, batch, i),
                       Turned(Scaled(y[i], scale, len), output_turn(io, batch, i), direction)>>
  <2>1. \A i \in Points(len) : h(of(i)) = k(i)
    OBVIOUS
  <2>2. S = {of(i) : i \in Points(len)}
    OBVIOUS
  <2> HIDE DEF h, of, S
  <2>3. {h(p) : p \in S} = {k(i) : i \in Points(len)}
    BY <2>1, <2>2
  <2> QED
    BY <2>3
<1> HIDE DEF E, S, h
<1> QED
  BY <1>7, <1>8, <1>9, <1>10 DEF Result, y, x

=============================================================================
