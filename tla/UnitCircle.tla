----------------------------- MODULE UnitCircle -----------------------------
(***************************************************************************)
(* The complex numbers of src/src/complex.rs, with exact arithmetic.       *)
(*                                                                         *)
(* The code computes with binary floating point; rounding is not what the  *)
(* transforms can get structurally wrong.  Here a number is <<re, im>>     *)
(* over the integers modulo a prime Q with Q % 4 = 3, where x^2 + 1 has no *)
(* root: numbers form a field, multiplication is the one of complex.rs,    *)
(* and the numbers z with z * conj(z) = 1 are a cyclic group of Q + 1      *)
(* elements.  Turns of the circle by k / n of a revolution exist for every *)
(* n that divides Q + 1, they multiply as exp(i * angle) does, and         *)
(* conj(z) = 1 / z holds on them.                                          *)
(*                                                                         *)
(* Unwritten stands for the contents of a memory cell that nobody wrote:   *)
(* whatever is computed from it is Unwritten too.                          *)
(***************************************************************************)
EXTENDS Integers, FiniteSets

CONSTANTS Q,     \* the prime
          Root   \* a generator of the unit circle

Unwritten == <<-1, -1>>

Defined(z) == z # Unwritten

Zero == <<0, 0>>
One == <<1, 0>>

Add(x, y) == IF Defined(x) /\ Defined(y)
             THEN <<(x[1] + y[1]) % Q, (x[2] + y[2]) % Q>>
             ELSE Unwritten

Sub(x, y) == IF Defined(x) /\ Defined(y)
             THEN <<(x[1] - y[1]) % Q, (x[2] - y[2]) % Q>>
             ELSE Unwritten

Mul(x, y) == IF Defined(x) /\ Defined(y)
             THEN <<(x[1] * y[1] - x[2] * y[2]) % Q, (x[1] * y[2] + x[2] * y[1]) % Q>>
             ELSE Unwritten

conj(z) == IF Defined(z) THEN <<z[1], (-z[2]) % Q>> ELSE Unwritten

\* Real numbers are those whose second part is 0.
ImaginaryUnit == <<0, 1>>
RealPart(z) == IF Defined(z) THEN <<z[1], 0>> ELSE Unwritten
ImaginaryPart(z) == IF Defined(z) THEN <<z[2], 0>> ELSE Unwritten

\* The complex number with the real parts of two others.
Pair(x, y) == IF Defined(x) /\ Defined(y) THEN <<x[1], y[1]>> ELSE Unwritten

\* The powers of Root: the points of the unit circle in order.
Circle == LET power[k \in 0 .. Q] ==
                IF k = 0 THEN One
                ELSE LET half == power[k \div 2]
                     IN  Mul(Mul(half, half), IF k % 2 = 0 THEN One ELSE Root)
          IN  [k \in 0 .. Q |-> power[k]]

ASSUME CircleAssumption ==
  /\ Q \in Nat /\ Q % 4 = 3
  /\ Root \in (0 .. Q - 1) \X (0 .. Q - 1)
  /\ \A k \in 0 .. Q : Mul(Circle[k], conj(Circle[k])) = One
  /\ Cardinality({Circle[k] : k \in 0 .. Q}) = Q + 1
  /\ Circle[(Q + 1) \div 4] = ImaginaryUnit

\* exp(i * 2 * pi * num / den), for den a divisor of Q + 1.
exp_i(num, den) == Circle[(num % den) * ((Q + 1) \div den)]

\* z.scale(1.0 / n), for n not a multiple of Q.
Shrink(z, n) ==
  LET inverse == CHOOSE m \in 1 .. Q - 1 : (m * n) % Q = 1
  IN  Mul(z, <<inverse, 0>>)

\* values[0] + ... + values[n - 1].
Sum(values, n) ==
  LET partial[k \in 0 .. n] == IF k = 0 THEN Zero ELSE Add(partial[k - 1], values[k - 1])
  IN  partial[n]

=============================================================================
