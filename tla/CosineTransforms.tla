-------------------------- MODULE CosineTransforms --------------------------
(***************************************************************************)
(* The cosine and sine transforms of types 1 to 4 (DCT, DST) by a complex  *)
(* transform: the passes before and behind it (src/src/r2r_ir.rs).         *)
(*                                                                         *)
(* A transform is a record [family |-> "Dct" or "Dst", type |-> 1 .. 4].   *)
(***************************************************************************)
EXTENDS FftPasses

\* Types 2 and 3 invert each other, the others themselves.
inverse_partner(t) == [t EXCEPT !.type = CASE @ = 2 -> 3 [] @ = 3 -> 2 [] OTHER -> @]

effective_transform(t, direction) == IF direction = "Inverse" THEN inverse_partner(t) ELSE t

\* 1 / inverse_pair_scale: what a transform and its inverse multiply by.
pair_denominator(t, n) ==
  CASE t.type = 1 /\ t.family = "Dct" -> 2 * (n - 1)
    [] t.type = 1 /\ t.family = "Dst" -> 2 * (n + 1)
    [] OTHER -> 2 * n

\* The complex transform behind a transform of n points; it is never normalised.
fft_len(t, n) ==
  CASE t.type = 1 -> pair_denominator(t, n)
    [] t.type = 4 -> IF n % 2 = 0 THEN n \div 2 ELSE 2 * n
    [] OTHER -> n

fft_direction(t, n) == IF t.type = 3 \/ (t.type = 4 /\ n % 2 = 0) THEN "Inverse" ELSE "Forward"

Negative(z) == Sub(Zero, z)
SignedIf(condition, z) == IF condition THEN Negative(z) ELSE z

\* A sine transform negates the elements with an odd index, or a component.
IsDst(ir) == ir.transform.family = "Dst"

-----------------------------------------------------------------------------
(* Element j of the complex transform, made of the elements x of the line. *)

EvenExtension(ir, x, j) == IF j < ir.len THEN x[j] ELSE x[ir.fftLen - j]

OddExtension(ir, x, j) ==
  CASE j \in {0, ir.len + 1} -> Zero
    [] j \in 1 .. ir.len -> x[j - 1]
    [] OTHER -> Negative(x[ir.fftLen - j - 1])

Reorder(ir, x, j) ==
  LET source == IF j < (ir.len + 1) \div 2 THEN 2 * j ELSE 2 * (ir.len - j) - 1
  IN  SignedIf(IsDst(ir) /\ source % 2 = 1, x[source])

Spectrum(ir, x, k) ==
  LET mirrored == IF IsDst(ir) THEN [i \in 0 .. ir.len - 1 |-> x[ir.len - 1 - i]] ELSE x
  IN  Mul(Pair(mirrored[k], IF k = 0 THEN Zero ELSE Negative(mirrored[ir.len - k])),
          exp_i(k, 4 * ir.len))

EvenPack(ir, x, j) ==
  Mul(Pair(x[2 * j], SignedIf(~IsDst(ir), x[ir.len - 1 - 2 * j])), exp_i(j, 2 * ir.len))

OddPhasePack(ir, x, j) == IF j < ir.len THEN Mul(x[j], exp_i(-j, 4 * ir.len)) ELSE Zero

PreprocessElement(ir, x, j) ==
  CASE ir.transform.type = 1 -> IF IsDst(ir) THEN OddExtension(ir, x, j)
                                ELSE EvenExtension(ir, x, j)
    [] ir.transform.type = 2 -> Reorder(ir, x, j)
    [] ir.transform.type = 3 -> Spectrum(ir, x, j)
    [] OTHER -> IF ir.len % 2 = 0 THEN EvenPack(ir, x, j) ELSE OddPhasePack(ir, x, j)

\* An element in the padded range of the line, << >> when there is none.
InRange(range, i) == range # << >> /\ range[1] <= i /\ i < range[2]

R2rPreprocess(ir, batch, input) ==
  LET x == [i \in 0 .. ir.len - 1 |-> IF InRange(ir.inputPadding, i) THEN Zero
                                      ELSE At(input, batch * ir.len + i)]
  IN  {<<batch * ir.fftLen + j, PreprocessElement(ir, x, j)>> : j \in 0 .. ir.fftLen - 1}

-----------------------------------------------------------------------------
(* Element k of the line, from the elements z of the complex transform. *)

Doubled(z) == Add(z, z)

EvenExtract(ir, z, k) ==
  LET value == IF k % 2 = 0 THEN z[k \div 2] ELSE conj(z[ir.fftLen - (k + 1) \div 2])
      rotated == Mul(value, exp_i(2 * k + 1, 8 * ir.len))
  IN  Doubled(IF IsDst(ir) THEN ImaginaryPart(rotated) ELSE RealPart(rotated))

OddPhaseExtract(ir, z, k) ==
  LET rotated == Mul(z[k], exp_i(-(2 * k + 1), 8 * ir.len))
  IN  Doubled(IF IsDst(ir) THEN Negative(ImaginaryPart(rotated)) ELSE RealPart(rotated))

Extract(ir, z, k) ==
  LET q == IF IsDst(ir) THEN ir.len - 1 - k ELSE k
  IN  Doubled(RealPart(Mul(z[q], exp_i(-q, 4 * ir.len))))

Unreorder(ir, z, k) ==
  SignedIf(IsDst(ir) /\ k % 2 = 1,
           RealPart(z[IF k % 2 = 0 THEN k \div 2 ELSE ir.len - 1 - k \div 2]))

PostprocessElement(ir, z, k) ==
  CASE ir.transform.type = 1 -> IF IsDst(ir) THEN Negative(ImaginaryPart(z[k + 1]))
                                ELSE RealPart(z[k])
    [] ir.transform.type = 2 -> Extract(ir, z, k)
    [] ir.transform.type = 3 -> Unreorder(ir, z, k)
    [] OTHER -> IF ir.len % 2 = 0 THEN EvenExtract(ir, z, k) ELSE OddPhaseExtract(ir, z, k)

R2rPostprocess(ir, batch, input) ==
  LET z == [j \in 0 .. ir.fftLen - 1 |-> At(input, batch * ir.fftLen + j)]
  IN  {<<batch * ir.len + k,
         IF InRange(ir.outputPadding, k) THEN Zero
         ELSE Scaled(PostprocessElement(ir, z, k), ir.normalize,
                     pair_denominator(ir.transform, ir.len))>> : k \in 0 .. ir.len - 1}

=============================================================================
